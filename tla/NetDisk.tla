-------------------------------- MODULE NetDisk --------------------------------
(***************************************************************************)
(* The net disk (src/demo/netdisk): its three routers, which the threads   *)
(* of an HttpServer share, over one directory of files.                    *)
(*                                                                         *)
(* Each connection belongs to a thread of its own here, so the handlers of *)
(* two connections interleave wherever they touch the directory or the     *)
(* members of a router; nothing is locked.  A download is answered with    *)
(* its headers at once and sent afterwards, a block per write event.       *)
(* Sizes are in units, of which a block of 1024 bytes holds Block.         *)
(***************************************************************************)
EXTENDS Integers, Sequences

CONSTANTS
  Connections,  \* connections, each on its own thread
  Files,        \* names of files
  Initially,    \* the files there at the start, with their sizes
  Sizes,        \* sizes of the files that are uploaded
  Block,        \* units in 1024 bytes
  IntRange,     \* 2^31, in units: ints are -IntRange .. IntRange - 1
  None,         \* no callback
  MaxRequests   \* bound: requests ever handled

ASSUME SizesAssumption ==
  /\ Initially \in [DOMAIN Initially -> Nat] /\ DOMAIN Initially \subseteq Files
  /\ Sizes \subseteq Nat
  /\ Block \in Nat \ {0} /\ IntRange \in Nat \ {0} /\ MaxRequests \in Nat

\* What is bound to the parameters of SendFile
CallBacks == [file : Files, begin : Nat, end : Int]

ASSUME NoneAssumption == None \notin Files /\ None \notin CallBacks

VARIABLES
  disk,       \* the directory: the contents of the files that exist
  list,       \* RootRouter::m_html_files_list: names, or Torn
  conn,       \* per connection: what its thread does, and the write callback
  responses,  \* per connection: what was sent on it
  overlapped, \* two handlers of "/" have run at the same time
  requests    \* requests handled

vars == <<disk, list, conn, responses, overlapped, requests>>

\* The outcome of an unsynchronised access to m_html_files_list
Torn == {None}

\* A unit of a file is the number of the request that uploaded it; in a
\* response it comes with its position.  A block beyond the file's end holds
\* whatever the memory held.
Junk == <<-1, 0>>
Contents(size, version) == [k \in 1 .. size |-> version]
Size(f) == IF f \in DOMAIN disk THEN Len(disk[f]) ELSE 0

\* size_t to int, as the parameters begin and end of SendFile are
AsInt(n) == ((n + IntRange) % (2 * IntRange)) - IntRange

Steps == {"idle", "scanned", "listed", "uploading"}
Idle == [at |-> "idle", file |-> None, new |-> <<>>, seen |-> {}, due |-> {},
         cb |-> None, write |-> FALSE, patient |-> TRUE, calm |-> TRUE, open |-> TRUE]

\* What the browser was told, and what came after the headers.  expect,
\* touched: the file as it was then, and whether it was uploaded since.
Response(kind, file, announced, page, due) ==
  [kind |-> kind, file |-> file, announced |-> announced, page |-> page, due |-> due,
   expect |-> IF file \in DOMAIN disk THEN disk[file] ELSE <<>>,
   touched |-> FALSE, body |-> <<>>]

TypeOK ==
  /\ DOMAIN disk \subseteq Files
  /\ \A f \in DOMAIN disk : disk[f] \in Seq(0 .. MaxRequests)
  /\ list = Torn \/ list \subseteq Files
  /\ \A c \in Connections :
       /\ conn[c].at \in Steps
       /\ conn[c].cb = None \/ /\ conn[c].cb.begin \in 0 .. IntRange
                               /\ conn[c].cb.end \in -IntRange .. IntRange
                               /\ conn[c].cb.begin % Block = 0
       /\ conn[c].write => conn[c].cb # None
  /\ requests \in 0 .. MaxRequests

Init ==
  /\ disk = [f \in DOMAIN Initially |-> Contents(Initially[f], 0)]
  /\ list = DOMAIN Initially    \* RootRouter::RootRouter scans as well
  /\ conn = [c \in Connections |-> Idle]
  /\ responses = [c \in Connections |-> <<>>]
  /\ overlapped = FALSE /\ requests = 0

-----------------------------------------------------------------------------
(* A request is read: what its handler starts with *)

Latest(c) == responses[c][Len(responses[c])]

\* The browser has got all it was told of the response before
Answered(c) == responses[c] = <<>> \/ Len(Latest(c).body) >= Latest(c).announced

\* c's thread is idle and reads a request; from then on its state is changed
Reads(c) == conn[c].open /\ conn[c].at = "idle" /\ requests < MaxRequests

\* A browser that waits for its answers, and asks for no empty file, is patient;
\* a connection is calm if no request was read while a callback was pending
Noted(c, wait) ==
  [conn[c] EXCEPT !.patient = conn[c].patient /\ Answered(c) /\ wait,
                  !.calm = conn[c].calm /\ conn[c].cb = None]

Respond(c, r) == responses' = [responses EXCEPT ![c] = Append(@, r)]

\* DownloadRouter::forward: the headers, and the callback that sends the file
Download(c, f) ==
  /\ Reads(c)
  /\ requests' = requests + 1
  /\ conn' = [conn EXCEPT ![c] = [Noted(c, Size(f) > 0) EXCEPT
                !.cb = [file |-> f, begin |-> 0, end |-> AsInt(Size(f))],
                !.write = TRUE]]
  /\ Respond(c, Response("file", f, Size(f), {}, {}))
  /\ UNCHANGED <<disk, list, overlapped>>

\* The file changes under its downloads
Touched(f) ==
  [c \in Connections |->
     [i \in DOMAIN responses[c] |->
        IF responses[c][i].file = f THEN [responses[c][i] EXCEPT !.touched = TRUE]
        ELSE responses[c][i]]]

\* UploadRouter::forward opens the file, which empties or creates it ...
UploadOpen(c, f) ==
  /\ Reads(c)
  /\ requests' = requests + 1
  /\ \E size \in Sizes :
       conn' = [conn EXCEPT ![c] = [Noted(c, TRUE) EXCEPT
                  !.at = "uploading", !.file = f, !.new = Contents(size, requests')]]
  /\ disk' = [g \in DOMAIN disk \cup {f} |-> IF g = f THEN <<>> ELSE disk[g]]
  /\ responses' = Touched(f)
  /\ UNCHANGED <<list, overlapped>>

\* ... and writes it from the start: another upload may have written since
UploadWrite(c) ==
  LET f   == conn[c].file
      new == conn[c].new
  IN
  /\ conn[c].at = "uploading"
  /\ disk' = [disk EXCEPT ![f] =
                new \o SubSeq(disk[f], Len(new) + 1, Len(disk[f]))]
  /\ conn' = [conn EXCEPT ![c].at = "idle"]
  /\ responses' = [Touched(f) EXCEPT ![c] = Append(@, Response("done", None, 0, {}, {}))]
  /\ UNCHANGED <<list, overlapped, requests>>

\* Files whose upload is not going on
Settled == {f \in DOMAIN disk :
              \A c \in Connections : conn[c].at = "uploading" => conn[c].file # f}

InRoot(c) == conn[c].at \in {"scanned", "listed"}

\* RootRouter::forward: scanDirectory reads the directory ...
RootScan(c) ==
  /\ Reads(c)
  /\ requests' = requests + 1
  /\ conn' = [conn EXCEPT ![c] = [Noted(c, TRUE) EXCEPT
                !.at = "scanned", !.seen = DOMAIN disk, !.due = Settled]]
  /\ overlapped' = (overlapped \/ \E d \in Connections \ {c} : InRoot(d))
  /\ UNCHANGED <<disk, list, responses>>

Others(c, step) == {d \in Connections \ {c} : conn[d].at = step}

\* What-if variant: the list of the constructor is kept
RootListOnce(c) ==
  /\ conn[c].at = "scanned"
  /\ conn' = [conn EXCEPT ![c].at = "listed"]
  /\ UNCHANGED <<disk, list, responses, overlapped, requests>>

\* ... and assigns the list, which other threads may be assigning or reading
RootList(c) ==
  /\ conn[c].at = "scanned"
  /\ list' \in {conn[c].seen}
               \cup (IF Others(c, "scanned") \cup Others(c, "listed") # {} THEN {Torn} ELSE {})
  /\ conn' = [conn EXCEPT ![c].at = "listed"]
  /\ UNCHANGED <<disk, responses, overlapped, requests>>

\* The page is put together from the list
RootPage(c) ==
  /\ conn[c].at = "listed"
  /\ conn' = [conn EXCEPT ![c].at = "idle"]
  /\ \E page \in {list} \cup (IF Others(c, "scanned") # {} THEN {Torn} ELSE {}) :
       Respond(c, Response("page", None, 0, page, conn[c].due))
  /\ UNCHANGED <<disk, list, overlapped, requests>>

-----------------------------------------------------------------------------
(* DownloadRouter::SendFile *)

\* What-if variant: a last block that is full is not seen as the last
LastBlockLess(cb) == cb.end - cb.begin < Block

LastBlock(cb) == cb.end - cb.begin <= Block

\* What-if variant: end taken as inclusive
NextInclusive(c) ==
  [conn[c] EXCEPT !.cb.begin = conn[c].cb.begin + Block - 1, !.write = TRUE]

\* What-if variant: WRITE is not registered for the block after
NextSilent(c) ==
  [conn[c] EXCEPT !.cb.begin = conn[c].cb.begin + Block, !.write = FALSE]

\* The write event was consumed; WRITE is registered for the block after
Next1024(c) ==
  [conn[c] EXCEPT !.cb.begin = conn[c].cb.begin + Block, !.write = TRUE]

\* What-if variant: every block is read from the start of the file
ReadFromStart(cb) ==
  LET wanted == IF LastBlock(cb) THEN cb.end - cb.begin ELSE Block
  IN [k \in 1 .. Block |->
        IF k <= wanted /\ k <= Size(cb.file) THEN <<disk[cb.file][k], k>> ELSE Junk]

\* The 1024 bytes that are sent, of which read has filled some
BlockAt(cb) ==
  LET wanted == IF LastBlock(cb) THEN cb.end - cb.begin ELSE Block
  IN [k \in 1 .. Block |->
        IF k <= wanted /\ cb.begin + k <= Size(cb.file)
        THEN <<disk[cb.file][cb.begin + k], cb.begin + k>> ELSE Junk]

\* A write event, on the thread of the connection
SendFile(c) ==
  LET cb == conn[c].cb IN
  /\ conn[c].open /\ conn[c].at = "idle" /\ conn[c].write
  /\ responses' = [responses EXCEPT ![c][Len(responses[c])].body = @ \o BlockAt(cb)]
  /\ conn' = [conn EXCEPT ![c] =
       IF LastBlock(cb) THEN [conn[c] EXCEPT !.cb = None, !.write = FALSE] ELSE Next1024(c)]
  /\ UNCHANGED <<disk, list, overlapped, requests>>

\* The browser leaves
Leave(c) ==
  /\ conn[c].open /\ conn[c].at = "idle"
  /\ conn' = [conn EXCEPT ![c].open = FALSE, ![c].cb = None, ![c].write = FALSE]
  /\ UNCHANGED <<disk, list, responses, overlapped, requests>>

Handler(c) == UploadWrite(c) \/ RootList(c) \/ RootPage(c)

Next ==
  \E c \in Connections :
    \/ \E f \in Files : Download(c, f) \/ UploadOpen(c, f)
    \/ RootScan(c) \/ Handler(c) \/ SendFile(c) \/ Leave(c)

\* A handler that runs goes on, and a registered write event comes
Fairness == \A c \in Connections : WF_vars(Handler(c)) /\ WF_vars(SendFile(c))

Spec == Init /\ [][Next]_vars /\ Fairness

-----------------------------------------------------------------------------
(* Properties *)

\* The last block that was announced leaves in the step that clears the
\* callback: a browser that waits for its answers never has a request handled
\* while a file is still to be sent, which would replace the callback.
NoOverlap == \A c \in Connections : conn[c].patient => conn[c].calm

Positions(r) ==
  1 .. (IF Len(r.body) < r.announced THEN Len(r.body) ELSE r.announced)

\* On such a connection the bytes that follow the headers of a download are
\* those of the file, in order and without a gap, up to the announced length,
\* however many write events it takes, unless an upload replaced the file.
\* What is not a multiple of 1024 is filled up beyond that length, an empty
\* file with a whole block, but never with more.
FileDelivered ==
  \A c \in Connections : \A i \in DOMAIN responses[c] :
    LET r == responses[c][i] IN
    r.kind = "file" /\ conn[c].calm =>
      /\ ~r.touched /\ r.announced < IntRange =>
           \A k \in Positions(r) : r.body[k] = <<r.expect[k], k>>
      /\ Len(r.body) > r.announced => Len(r.body) - r.announced <= Block

\* A page lists every file whose upload was over when it was asked for, unless
\* two threads built pages at the same time: they share m_html_files_list.
PageIsCurrent ==
  ~overlapped =>
    \A c \in Connections : \A i \in DOMAIN responses[c] :
      LET r == responses[c][i] IN
      r.kind = "page" => r.page # Torn /\ r.due \subseteq r.page

Sending(c) == conn[c].cb # None /\ conn[c].calm

\* A download that nothing replaces is sent to its end: the write event is
\* registered for each block.
DownloadEnds ==
  \A c \in Connections :
    Sending(c) ~> \/ ~conn[c].open \/ ~conn[c].calm
                  \/ Answered(c) \/ Latest(c).announced >= IntRange

=============================================================================
