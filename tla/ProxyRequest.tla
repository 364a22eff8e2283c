----------------------------- MODULE ProxyRequest -----------------------------
(***************************************************************************)
(* The data path of HttpsProxy::handleServerRead and HttpsProxyRequest     *)
(* (src/src/http/httpsproxy.cpp): each read of the browser's connection is *)
(* checked for credentials, its heads are rewritten to name the upstream   *)
(* server instead of the proxy, and the result is sent upstream.  What the *)
(* handler does to the two connections is the subject of ProxyPair.        *)
(*                                                                         *)
(* The stream is a sequence of pieces of length one, which a read may cut  *)
(* anywhere between two pieces; "\r\n\r\n" is two pieces, the address of   *)
(* the proxy is one and that of the upstream server, which replaces it, is *)
(* two.  An offset counts the pieces before it, as in the code.            *)
(***************************************************************************)
EXTENDS Integers, SequencesExt

CONSTANTS
  Requests,    \* what a browser may send: addresses, credentials, length, upgrade
  MaxRequests  \* bound: requests ever sent

ASSUME RequestsAssumption ==
  \A r \in Requests : r.addresses \in Nat /\ r.length \in Nat
                        /\ r.credentials \in BOOLEAN /\ r.upgrade \in BOOLEAN
ASSUME MaxRequestsAssumption == MaxRequests \in Nat

VARIABLES
  stream,     \* everything the browser has sent
  requests,   \* how many requests that is
  taken,      \* offset in stream of what has not been read yet
  request,    \* HttpsProxyRequest: its buffer, m_rest_body_length and flags
  dropped,    \* offset up to which reads were answered with a 401
  forwarded,  \* pieces sent upstream
  cut,        \* a read ended inside a head, or a dropped one inside a request
  mixed       \* a head was read behind other pieces

vars == <<stream, requests, taken, request, dropped, forwarded, cut, mixed>>

\* part and left (history): whether a piece is of a head or a body, and how
\* many pieces of its request follow it; the code sees neither
Piece(kind, n, part, left) == [kind |-> kind, n |-> n, part |-> part, left |-> left]

Copies(n, kind) == [i \in 1 .. n |-> <<kind, 0>>]
Optional(present, kind, n) == IF present THEN <<<<kind, n>>>> ELSE <<>>

\* The head of a request, and a body whose every byte looks like an address
Encode(r) ==
  LET head == <<<<"text", 0>>>> \o Copies(r.addresses, "source")
                \o Optional(r.credentials, "credentials", 0)
                \o Optional(r.length > 0, "length", r.length)
                \o Optional(r.upgrade, "upgrade", 0)
                \o Copies(2, "half")
      all  == head \o Copies(r.length, "source")
  IN [i \in DOMAIN all |->
        Piece(all[i][1], all[i][2], IF i <= Len(head) THEN "head" ELSE "body",
              Len(all) - i)]

Frames == [i \in 1 .. 4 |-> Piece(<<"source", "half", "half", "source">>[i], 0, "body", 4 - i)]

Kinds == {"text", "source", "proxy1", "proxy2", "credentials", "length", "upgrade", "half"}

-----------------------------------------------------------------------------
(* HttpsProxyRequest::parseHead, on the offsets start .. end - 1 of data *)

Least(S) == CHOOSE m \in S : \A x \in S : m <= x

Offsets(data, kind, start, end) == {o \in start .. end - 1 : data[o + 1].kind = kind}

\* What-if variant: only the first address is replaced
ReplacedFirst(data, start, end) ==
  LET S == Offsets(data, "source", start, end) IN IF S = {} THEN {} ELSE {Least(S)}

\* The addresses found.  The search goes on at search_start + split_end, an
\* offset from the head's start that was computed from the start of data: in
\* a head that is not at the start it skips some.  Beyond the end it finds none.
Replaced(data, start, end) ==
  LET found[from \in 0 .. 2 * Len(data)] ==
        LET S == Offsets(data, "source", from, end)
        IN  IF S = {} THEN {} ELSE {Least(S)} \cup found[start + Least(S) + 1]
  IN found[start]

Replacement(piece) == <<[piece EXCEPT !.kind = "proxy1"], [piece EXCEPT !.kind = "proxy2"]>>

Rewritten(data, start, end) ==
  LET offsets == Replaced(data, start, end)
  IN FlattenSeq([i \in 1 .. end - start |->
       LET o == start + i - 1
       IN  IF o \in offsets THEN Replacement(data[o + 1]) ELSE <<data[o + 1]>>])

\* The value of the first Content-Length, 0 if there is none
ContentLength(data, start, end) ==
  LET S == Offsets(data, "length", start, end)
  IN  IF S = {} THEN 0 ELSE data[Least(S) + 1].n

Upgrades(data, start, end) == Offsets(data, "upgrade", start, end) # {}

-----------------------------------------------------------------------------
(* HttpsProxyRequest::parseHttpRequest *)

\* Where "\r\n\r\n" is found from start on
HeadEnds(data, start) ==
  {o \in start .. Len(data) - 2 : data[o + 1].kind = "half" /\ data[o + 2].kind = "half"}

\* What-if variant: the rest is counted from the whole body
MissingAll(data, after, n) == IF Len(data) - after > n THEN 0 ELSE n

\* Of the n pieces of a body from after on, those that data does not hold
Missing(data, after, n) == IF Len(data) - after > n THEN 0 ELSE n - (Len(data) - after)

\* What-if variant: the end of the head is not counted
HeadCountShort(head) == Len(head)

\* read_send of a head, and four characters for its end
HeadCount(head) == Len(head) + 2

\* The loop, from start: what is appended, its length as the code counts it,
\* the rest of a body, and whether an upgrade was seen
Scan(data, first) ==
  LET scan[start \in 0 .. Len(data)] ==
        LET end   == Least(HeadEnds(data, start))
            after == end + 2
            head  == Rewritten(data, start, end)
            n     == ContentLength(data, start, end)
            here  == head \o SubSeq(data, end + 1, after)
            next  == scan[after + n]
            size  == Len(data) - after
        IN
        CASE HeadEnds(data, start) = {} ->
               [out |-> SubSeq(data, start + 1, Len(data)), count |-> Len(data) - start,
                rest |-> 0, upgrade |-> FALSE]
          [] HeadEnds(data, start) # {} /\ n > 0 /\ size <= n ->
               [out |-> here \o SubSeq(data, after + 1, Len(data)),
                count |-> HeadCount(head) + size,
                rest |-> Missing(data, after, n), upgrade |-> Upgrades(data, start, end)]
          [] OTHER ->
               [out |-> here \o SubSeq(data, after + 1, after + n) \o next.out,
                count |-> HeadCount(head) + n + next.count,
                rest |-> next.rest, upgrade |-> Upgrades(data, start, end) \/ next.upgrade]
  IN scan[first]

\* What-if variant: what is read is always taken for a part of a body
ParseRestOnly(req, data) ==
  [out |-> data, count |-> Len(data), rest |-> req.rest - Len(data), upgrade |-> FALSE]

\* What-if variant: m_is_web_socket is set and never read
ParseNoSocket(req, data) ==
  LET s == Scan(data, req.rest) IN
  IF Len(data) < req.rest
  THEN [out |-> data, count |-> Len(data), rest |-> req.rest - Len(data), upgrade |-> FALSE]
  ELSE [s EXCEPT !.out = SubSeq(data, 1, req.rest) \o s.out, !.count = req.rest + s.count]

\* The rest of a body passes; what follows it is scanned for heads
ParseHttpRequest(req, data) ==
  LET s == Scan(data, req.rest) IN
  CASE req.socket -> [out |-> data, count |-> Len(data), rest |-> req.rest, upgrade |-> TRUE]
    [] ~req.socket /\ Len(data) < req.rest ->
         [out |-> data, count |-> Len(data), rest |-> req.rest - Len(data), upgrade |-> FALSE]
    [] OTHER ->
         [s EXCEPT !.out = SubSeq(data, 1, req.rest) \o s.out, !.count = req.rest + s.count]

-----------------------------------------------------------------------------
TypeOK ==
  /\ stream \in Seq([kind : Kinds, n : Nat, part : {"head", "body"}, left : Nat])
  /\ requests \in 0 .. MaxRequests
  /\ taken \in 0 .. Len(stream) /\ dropped \in 0 .. taken
  /\ request.authorized \in BOOLEAN /\ request.socket \in BOOLEAN
  /\ request.rest \in {0} \cup UNION {1 .. r.length : r \in Requests}
  /\ DOMAIN request = {"buffer", "rest", "socket", "authorized"}
  /\ cut \in BOOLEAN /\ mixed \in BOOLEAN

Init ==
  /\ stream = <<>> /\ requests = 0 /\ taken = 0 /\ dropped = 0
  /\ request = [buffer |-> <<>>, rest |-> 0, socket |-> FALSE, authorized |-> FALSE]
  /\ forwarded = <<>> /\ cut = FALSE /\ mixed = FALSE

Upgraded == \E i \in DOMAIN stream : stream[i].kind = "upgrade"

\* The browser sends a request, perhaps before the one before has been read
Send ==
  /\ requests < MaxRequests /\ ~Upgraded
  /\ \E r \in Requests : stream' = stream \o Encode(r)
  /\ requests' = requests + 1
  /\ UNCHANGED <<taken, request, dropped, forwarded, cut, mixed>>

\* Frames of a web socket, sent when upstream has seen its head; they may
\* look like a head with an address
SendFrames ==
  /\ requests < MaxRequests /\ Upgraded /\ taken = Len(stream) /\ dropped < taken
  /\ stream' = stream \o Frames
  /\ requests' = requests + 1
  /\ UNCHANGED <<taken, request, dropped, forwarded, cut, mixed>>

Data(n) == SubSeq(stream, taken + 1, taken + n)
EndsInHead(data)    == Last(data).part = "head" /\ ~(Last(data).kind = "half"
                         /\ Len(data) > 1 /\ data[Len(data) - 1].kind = "half")
EndsInRequest(data) == Last(data).left > 0

\* checkAuthorized: right credentials anywhere in the read
Authorizes(data) == \E i \in DOMAIN data : data[i].kind = "credentials"

\* No credentials yet: a 401, and what was read is gone
ReadUnauthorized(n) ==
  /\ ~request.authorized /\ ~Authorizes(Data(n))
  /\ dropped' = taken + n
  /\ taken' = taken + n
  /\ cut' = (cut \/ EndsInRequest(Data(n)))
  /\ UNCHANGED <<stream, requests, request, forwarded, mixed>>

\* parseHttpRequest, and as many pieces sent as it counted
ReadForward(n) ==
  LET data == request.buffer \o Data(n)
      p    == ParseHttpRequest(request, data)
  IN
  /\ request.authorized \/ Authorizes(Data(n))
  /\ forwarded' = forwarded \o SubSeq(p.out, 1, p.count)
  /\ request' = [buffer |-> SubSeq(p.out, p.count + 1, Len(p.out)), rest |-> p.rest,
                 socket |-> request.socket \/ p.upgrade, authorized |-> TRUE]
  /\ taken' = taken + n
  /\ cut' = (cut \/ EndsInHead(Data(n)))
  /\ mixed' = (mixed \/ \E i \in DOMAIN Data(n) :
                          i > 1 /\ Data(n)[i].kind = "text" /\ ~request.socket)
  /\ UNCHANGED <<stream, requests, dropped>>

ServerRead == \E n \in 1 .. Len(stream) - taken : ReadUnauthorized(n) \/ ReadForward(n)

Next == Send \/ SendFrames \/ ServerRead

Spec == Init /\ [][Next]_vars

-----------------------------------------------------------------------------
(* Properties *)

Arrived == SubSeq(stream, dropped + 1, taken)

Addresses == {"source", "proxy1", "proxy2"}

\* The pieces that are no address, and those of a body
Plain(s)  == FlattenSeq([i \in DOMAIN s |-> IF s[i].kind \in Addresses THEN <<>> ELSE <<s[i]>>])
Bodies(s) == FlattenSeq([i \in DOMAIN s |-> IF s[i].part = "body" THEN <<s[i]>> ELSE <<>>])

\* However the reads cut the stream, heads and separators included, upstream
\* gets every piece that was not answered with a 401, in order and once, and
\* none stays behind in the buffer: the count covers the longer addresses.
NothingLost ==
  Plain(forwarded) = Plain(Arrived) /\ request.buffer = <<>>

\* As long as no read cuts a head, the bytes of a body are forwarded as they
\* are, also when they look like the address and the body spans many reads.
BodiesUntouched == ~cut => Bodies(forwarded) = Bodies(Arrived)

\* As long as no read cuts a head nor holds a head behind other pieces, every
\* address of every head is replaced, and nothing else is changed.
RewrittenExactly ==
  ~cut /\ ~mixed =>
    forwarded = FlattenSeq([i \in DOMAIN Arrived |->
      IF Arrived[i].kind = "source" /\ Arrived[i].part = "head"
      THEN Replacement(Arrived[i]) ELSE <<Arrived[i]>>])

\* As long as no read cuts a head, the rest of the body that the proxy counts
\* down is what is missing of the request it has read last.
InStep ==
  ~cut /\ ~request.socket /\ forwarded # <<>> => request.rest = Last(forwarded).left

=============================================================================
