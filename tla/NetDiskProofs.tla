---------------------------- MODULE NetDiskProofs ----------------------------
(***************************************************************************)
(* Theorems about NetDisk for any connections, files, sizes and uploads,   *)
(* any size of a block and any range of an int.                            *)
(*                                                                         *)
(* SendFile has no state but its parameters: what it has sent is where it  *)
(* begins.  ConnOK ties the callback of a connection to the body of the    *)
(* response it belongs to, as long as no request came between.             *)
(***************************************************************************)
EXTENDS NetDisk, SequenceTheorems, TLAPS

-----------------------------------------------------------------------------
(* The inductive invariant *)

Data == Seq(0 .. MaxRequests)
Units == Int \X Int

Locals == [at : Steps, file : Files \cup {None}, new : Data, seen : SUBSET Files,
           due : SUBSET Files, cb : CallBacks \cup {None}, write : BOOLEAN,
           patient : BOOLEAN, calm : BOOLEAN, open : BOOLEAN]

Responses == [kind : {"file", "page", "done"}, file : Files \cup {None}, announced : Nat,
              page : SUBSET (Files \cup {None}), due : SUBSET Files, expect : Data,
              touched : BOOLEAN, body : Seq(Units)]

Typed ==
  /\ DOMAIN disk \subseteq Files /\ disk \in [DOMAIN disk -> Data]
  /\ list = Torn \/ list \subseteq Files
  /\ conn \in [Connections -> Locals]
  /\ responses \in [Connections -> Seq(Responses)]
  /\ overlapped \in BOOLEAN /\ requests \in 0 .. MaxRequests

\* The blocks of a callback: whole ones behind it, something still before it
CallBackOK(cb) ==
  cb # None => /\ cb.begin \in 0 .. IntRange /\ cb.begin % Block = 0
               /\ cb.end \in -IntRange .. IntRange
               /\ cb.begin = 0 \/ cb.begin < cb.end

\* x: the locals of a connection, s: its responses, D: the directory
ThreadOK(D, x, s) ==
  /\ CallBackOK(x.cb)
  /\ x.write => x.cb # None
  /\ x.cb # None => s # <<>>
  /\ x.at = "uploading" => x.file \in DOMAIN D
  /\ x.patient => x.calm

\* A callback on a calm connection is where its response is
Pending(x, s) ==
  x.calm /\ x.cb # None =>
    /\ x.at = "idle"
    /\ s[Len(s)].kind = "file" /\ s[Len(s)].file = x.cb.file
    /\ x.cb.end = AsInt(s[Len(s)].announced)
    /\ Len(s[Len(s)].body) = x.cb.begin
    /\ x.patient => s[Len(s)].announced > 0

\* An untouched response remembers the file as it still is
Remembered(D, r) ==
  r.kind = "file" =>
    /\ r.announced = Len(r.expect)
    /\ ~r.touched => r.expect = (IF r.file \in DOMAIN D THEN D[r.file] ELSE <<>>)

Delivered(r) ==
  r.kind = "file" =>
    /\ ~r.touched /\ r.announced < IntRange =>
         \A k \in Positions(r) : r.body[k] = <<r.expect[k], k>>
    /\ Len(r.body) > r.announced => Len(r.body) - r.announced <= Block

ResponsesOK(D, calm, s) ==
  \A i \in DOMAIN s : Remembered(D, s[i]) /\ (calm => Delivered(s[i]))

ConnOK(D, x, s) ==
  ThreadOK(D, x, s) /\ Pending(x, s) /\ ResponsesOK(D, x.calm, s)

\* As long as two handlers of "/" never overlapped, the list is that of the one
RootOK ==
  ~overlapped =>
    /\ \A c, d \in Connections : InRoot(c) /\ InRoot(d) => c = d
    /\ \A c \in Connections :
         /\ conn[c].at = "scanned" => conn[c].due \subseteq conn[c].seen
         /\ conn[c].at = "listed" => list # Torn /\ conn[c].due \subseteq list

IInv ==
  /\ Typed /\ RootOK /\ PageIsCurrent
  /\ \A c \in Connections : ConnOK(disk, conn[c], responses[c])

-----------------------------------------------------------------------------
(* Numbers *)

\* A multiple of B below B is zero
LEMMA SmallMultiple ==
  ASSUME NEW B \in Nat \ {0}, NEW d \in Int, B * d \in 0 .. B - 1
  PROVE  B * d = 0
<1>1. CASE d > 0
  <2>1. d - 1 \in Nat /\ B * d = B * (d - 1) + B BY <1>1
  <2>2. B * (d - 1) >= 0 BY <2>1
  <2>3. QED BY <2>1, <2>2
<1>2. CASE d < 0
  <2>1. -d \in Nat /\ -d >= 1 /\ B * d = -(B * (-d)) BY <1>2
  <2>2. B * (-d) >= 0 BY <2>1
  <2>3. QED BY <2>1, <2>2
<1>3. CASE d = 0 BY <1>3
<1>4. QED BY <1>1, <1>2, <1>3

\* One block behind a whole number of blocks
LEMMA ModStep ==
  ASSUME NEW B \in Nat \ {0}, NEW b \in Nat, b % B = 0
  PROVE  (b + B) % B = 0
<1> DEFINE q == b \div B
           x == b + B
           p == x \div B
           r == x % B
<1>1. q \in Nat /\ b = B * q BY Z3
<1>2. x \in Nat /\ x = B * (q + 1)
  <2>1. B * (q + 1) = B * q + B BY <1>1
  <2>2. QED BY <1>1, <2>1
<1>3. p \in Nat /\ r \in 0 .. B - 1 /\ x = B * p + r
  <2> HIDE DEF x
  <2>1. QED BY <1>2
<1> HIDE DEF q, p, r, x
<1>4. r = B * (q + 1 - p)
  <2>1. B * (q + 1 - p) = B * (q + 1) - B * p BY <1>1, <1>3
  <2>2. QED BY <1>2, <1>3, <2>1
<1>5. r = 0
  <2>1. q + 1 - p \in Int BY <1>1, <1>3
  <2> DEFINE d == q + 1 - p
  <2>2. B * d \in 0 .. B - 1 BY <1>3, <1>4
  <2> HIDE DEF d
  <2>3. B * d = 0 BY <2>1, <2>2, SmallMultiple DEF d
  <2>4. QED BY <1>4, <2>3 DEF d
<1>6. QED BY <1>5 DEF r, x

\* An int is within its range, and a size that fits is the same as an int
LEMMA AsIntIs ==
  ASSUME NEW n \in Nat
  PROVE  /\ AsInt(n) \in -IntRange .. IntRange /\ AsInt(n) <= n
         /\ n < IntRange => AsInt(n) = n
<1> DEFINE m == 2 * IntRange
           x == n + IntRange
<1>1. IntRange \in Nat /\ IntRange > 0 /\ m \in Nat /\ m > 0 /\ x \in Nat
  BY SizesAssumption
<1>2. AsInt(n) = (x % m) - IntRange BY DEF AsInt
<1>3. x < m <=> n < IntRange BY <1>1
<1>4. m = IntRange + IntRange BY <1>1
<1> HIDE DEF m
<1>5. x % m \in 0 .. m - 1 /\ x % m <= x /\ (x < m => x % m = x)
  <2> HIDE DEF x
  <2>1. QED BY <1>1
<1>6. QED BY <1>1, <1>2, <1>3, <1>4, <1>5

-----------------------------------------------------------------------------
(* Sequences *)

LEMMA AppendAt ==
  ASSUME NEW S, NEW s \in Seq(S), NEW e \in S
  PROVE  /\ Append(s, e) \in Seq(S) /\ Append(s, e) # <<>>
         /\ Len(Append(s, e)) = Len(s) + 1 /\ Append(s, e)[Len(s) + 1] = e
         /\ DOMAIN Append(s, e) = 1 .. Len(s) + 1
         /\ DOMAIN s = 1 .. Len(s) /\ Len(s) \in Nat
         /\ \A i \in 1 .. Len(s) : Append(s, e)[i] = s[i]
<1>1. Len(s) \in Nat /\ DOMAIN s = 1 .. Len(s) BY LenProperties
<1>2. /\ Append(s, e) \in Seq(S) /\ Len(Append(s, e)) = Len(s) + 1
      /\ Append(s, e)[Len(s) + 1] = e
      /\ \A i \in 1 .. Len(s) : Append(s, e)[i] = s[i]
  BY AppendProperties
<1>3. DOMAIN Append(s, e) = 1 .. Len(s) + 1 BY <1>2, LenProperties
<1>4. Append(s, e) # <<>> BY <1>1, <1>2, EmptySeq
<1>5. QED BY <1>1, <1>2, <1>3, <1>4

\* A function on the first numbers is a sequence
LEMMA FunctionIsSeq ==
  ASSUME NEW S, NEW n \in Nat, NEW f \in [1 .. n -> S]
  PROVE  f \in Seq(S) /\ Len(f) = n
<1>1. f \in Seq(S) BY SeqDef
<1>2. Len(f) \in Nat /\ DOMAIN f = 1 .. Len(f) BY <1>1, LenProperties
<1>3. QED BY <1>1, <1>2

LEMMA LatestIn ==
  ASSUME NEW S, NEW s \in Seq(S), s # <<>>
  PROVE  Len(s) \in 1 .. Len(s) /\ Len(s) \in DOMAIN s /\ s[Len(s)] \in S
<1>1. Len(s) \in Nat /\ Len(s) # 0 /\ DOMAIN s = 1 .. Len(s) BY LenProperties, EmptySeq
<1>2. Len(s) \in 1 .. Len(s) BY <1>1
<1>3. QED BY <1>1, <1>2, ElementOfSeq

LEMMA ContentsType ==
  ASSUME NEW size \in Nat, NEW version \in 0 .. MaxRequests
  PROVE  Contents(size, version) \in Data /\ Len(Contents(size, version)) = size
<1>1. Contents(size, version) \in [1 .. size -> 0 .. MaxRequests] BY DEF Contents
<1>2. QED BY <1>1, FunctionIsSeq DEF Data

\* What an upload leaves of a file
LEMMA WrittenType ==
  ASSUME NEW new \in Data, NEW old \in Data
  PROVE  new \o SubSeq(old, Len(new) + 1, Len(old)) \in Data
<1>1. Len(new) \in Nat /\ Len(old) \in Nat BY LenProperties DEF Data
<1>2. \A k \in Len(new) + 1 .. Len(old) : old[k] \in 0 .. MaxRequests
  <2> SUFFICES ASSUME NEW k \in Len(new) + 1 .. Len(old) PROVE old[k] \in 0 .. MaxRequests
    OBVIOUS
  <2>1. k \in 1 .. Len(old) BY <1>1
  <2>2. QED BY <2>1, ElementOfSeq DEF Data
<1>3. SubSeq(old, Len(new) + 1, Len(old)) \in Data
  BY <1>1, <1>2, SubSeqProperties DEF Data
<1>4. QED BY <1>3, ConcatProperties DEF Data

LEMMA EmptyData == <<>> \in Data /\ Len(<<>>) = 0 /\ <<>> \in Seq(Units)
  BY EmptySeq DEF Data

-----------------------------------------------------------------------------
(* Files, responses, blocks *)

LEMMA ExpectedType ==
  ASSUME Typed, NEW f
  PROVE  /\ (IF f \in DOMAIN disk THEN disk[f] ELSE <<>>) \in Data
         /\ Size(f) \in Nat /\ Size(f) = Len(IF f \in DOMAIN disk THEN disk[f] ELSE <<>>)
<1>1. CASE f \in DOMAIN disk
  <2>1. disk[f] \in Data BY <1>1 DEF Typed
  <2>2. Len(disk[f]) \in Nat BY <2>1, LenProperties DEF Data
  <2>3. QED BY <1>1, <2>1, <2>2 DEF Size
<1>2. CASE f \notin DOMAIN disk BY <1>2, EmptyData DEF Size
<1>3. QED BY <1>1, <1>2

\* A response as it is when it is sent
LEMMA ResponseIs ==
  ASSUME Typed, NEW kind \in {"file", "page", "done"}, NEW f \in Files \cup {None},
         NEW n \in Nat, NEW page \in SUBSET (Files \cup {None}), NEW due \in SUBSET Files,
         NEW r, r = Response(kind, f, n, page, due)
  PROVE  /\ r \in Responses /\ r.kind = kind /\ r.file = f /\ r.announced = n
         /\ r.page = page /\ r.due = due /\ ~r.touched /\ r.body = <<>>
         /\ r.expect = IF f \in DOMAIN disk THEN disk[f] ELSE <<>>
<1>1. (IF f \in DOMAIN disk THEN disk[f] ELSE <<>>) \in Data BY ExpectedType
<1>2. <<>> \in Seq(Units) BY EmptyData
<1>3. QED BY <1>1, <1>2 DEF Response, Responses

LEMMA PageIs ==
  ASSUME Typed, NEW page \in SUBSET (Files \cup {None}), NEW due \in SUBSET Files
  PROVE  LET r == Response("page", None, 0, page, due) IN
         r \in Responses /\ r.kind = "page" /\ r.page = page /\ r.due = due /\ r.body = <<>>
<1>1. None \in Files \cup {None} /\ 0 \in Nat OBVIOUS
<1>2. (IF None \in DOMAIN disk THEN disk[None] ELSE <<>>) \in Data BY <1>1, ExpectedType
<1>3. <<>> \in Seq(Units) BY EmptyData
<1>4. QED BY <1>1, <1>2, <1>3 DEF Response, Responses

LEMMA DoneIs ==
  ASSUME Typed
  PROVE  LET r == Response("done", None, 0, {}, {}) IN
         r \in Responses /\ r.kind = "done" /\ r.body = <<>>
<1>1. None \in Files \cup {None} /\ 0 \in Nat OBVIOUS
<1>2. {} \in SUBSET Files /\ {} \in SUBSET (Files \cup {None}) OBVIOUS
<1>3. (IF None \in DOMAIN disk THEN disk[None] ELSE <<>>) \in Data BY <1>1, ExpectedType
<1>4. <<>> \in Seq(Units) BY EmptyData
<1>5. QED BY <1>1, <1>2, <1>3, <1>4 DEF Response, Responses

\* A block: as long as all others, with the units of the file it has room for
LEMMA BlockIs ==
  ASSUME Typed, NEW cb \in CallBacks
  PROVE  LET wanted == IF LastBlock(cb) THEN cb.end - cb.begin ELSE Block IN
         /\ BlockAt(cb) \in Seq(Units) /\ Len(BlockAt(cb)) = Block
         /\ \A k \in 1 .. Block : k <= wanted /\ cb.begin + k <= Size(cb.file) =>
              BlockAt(cb)[k] = <<disk[cb.file][cb.begin + k], cb.begin + k>>
<1> DEFINE wanted == IF LastBlock(cb) THEN cb.end - cb.begin ELSE Block
           b == BlockAt(cb)
<1>1. cb.begin \in Nat /\ cb.end \in Int /\ Block \in Nat BY SizesAssumption DEF CallBacks
<1>2. b = [k \in 1 .. Block |->
             IF k <= wanted /\ cb.begin + k <= Size(cb.file)
             THEN <<disk[cb.file][cb.begin + k], cb.begin + k>> ELSE Junk]
  BY DEF BlockAt
<1>3. ASSUME NEW k \in 1 .. Block, cb.begin + k <= Size(cb.file)
      PROVE  <<disk[cb.file][cb.begin + k], cb.begin + k>> \in Units
  <2> DEFINE j == cb.begin + k
  <2>1. j \in Nat /\ j > 0 /\ j <= Size(cb.file) BY <1>1, <1>3
  <2> HIDE DEF j
  <2>2. cb.file \in DOMAIN disk /\ Size(cb.file) = Len(disk[cb.file]) BY <2>1 DEF Size
  <2>3. disk[cb.file] \in Seq(0 .. MaxRequests) BY <2>2 DEF Typed, Data
  <2>4. j \in 1 .. Len(disk[cb.file]) BY <2>1, <2>2, <2>3, LenProperties
  <2>5. disk[cb.file][j] \in 0 .. MaxRequests BY <2>3, <2>4, ElementOfSeq
  <2>6. disk[cb.file][j] \in Int /\ j \in Int BY <2>1, <2>5
  <2>7. QED BY <2>6 DEF Units, j
<1>4. Junk \in Units BY DEF Junk, Units
<1>5. b \in [1 .. Block -> Units] BY <1>2, <1>3, <1>4
<1>6. b \in Seq(Units) /\ Len(b) = Block BY <1>1, <1>5, FunctionIsSeq
<1>7. \A k \in 1 .. Block : k <= wanted /\ cb.begin + k <= Size(cb.file) =>
        b[k] = <<disk[cb.file][cb.begin + k], cb.begin + k>>
  BY <1>2
<1>8. QED BY <1>6, <1>7

-----------------------------------------------------------------------------
(* What one connection's step leaves *)

LEMMA CallBackKind ==
  ASSUME NEW x \in Locals
  PROVE  (x.cb = None \/ x.cb \in CallBacks) /\ \A cb \in CallBacks : cb # None
  BY NoneAssumption DEF Locals

LEMMA ConnTyped ==
  ASSUME Typed, NEW c \in Connections
  PROVE  /\ conn[c] \in Locals /\ responses[c] \in Seq(Responses)
         /\ Len(responses[c]) \in Nat /\ DOMAIN responses[c] = 1 .. Len(responses[c])
<1>1. conn[c] \in Locals /\ responses[c] \in Seq(Responses) BY DEF Typed
<1>2. QED BY <1>1, LenProperties

\* The next request is read.  On a connection whose browser has waited for its
\* answer no callback is left: it would have something to send.
LEMMA ReadsQuiet ==
  ASSUME IInv, NEW c \in Connections, Reads(c), NEW wait \in BOOLEAN
  PROVE  LET x == Noted(c, wait) IN
         /\ x \in Locals /\ x.at = "idle" /\ x.cb = conn[c].cb /\ x.write = conn[c].write
         /\ x.calm => conn[c].calm /\ x.cb = None
         /\ x.patient => x.calm /\ wait
<1> DEFINE x == Noted(c, wait)
           l == conn[c]
           s == responses[c]
<1>1. Typed /\ l \in Locals /\ s \in Seq(Responses) /\ ConnOK(disk, l, s)
  BY ConnTyped DEF IInv
<1>2. l.at = "idle" BY DEF Reads
<1>3. l.patient \in BOOLEAN /\ l.calm \in BOOLEAN /\ Answered(c) \in BOOLEAN
  BY <1>1 DEF Locals, Answered
<1>4. /\ x = [l EXCEPT !.patient = l.patient /\ Answered(c) /\ wait,
                       !.calm = l.calm /\ l.cb = None]
      /\ x \in Locals /\ x.at = l.at /\ x.cb = l.cb /\ x.write = l.write
      /\ x.patient = (l.patient /\ Answered(c) /\ wait)
      /\ x.calm = (l.calm /\ l.cb = None)
  BY <1>1, <1>3 DEF Noted, Locals
<1>5. ASSUME l.patient, Answered(c) PROVE l.calm /\ l.cb = None
  <2>1. l.calm BY <1>1, <1>5 DEF ConnOK, ThreadOK
  <2> SUFFICES ASSUME l.cb # None PROVE FALSE BY <2>1
  <2> DEFINE r == s[Len(s)]
             n == r.announced
  <2>2. s # <<>> /\ CallBackOK(l.cb) BY <1>1 DEF ConnOK, ThreadOK
  <2>3. /\ Len(r.body) = l.cb.begin /\ n > 0 /\ l.cb.end = AsInt(n)
    BY <1>1, <1>5, <2>1 DEF ConnOK, Pending
  <2>4. r \in Responses BY <1>1, <2>2, LatestIn
  <2>5. n \in Nat BY <2>4 DEF Responses
  <2>6. Len(r.body) >= n BY <1>5, <2>2 DEF Answered, Latest
  <2>7. AsInt(n) <= n /\ AsInt(n) \in -IntRange .. IntRange BY <2>5, AsIntIs
  <2> HIDE DEF n
  <2>8. l.cb.begin \in 0 .. IntRange /\ (l.cb.begin = 0 \/ l.cb.begin < AsInt(n))
    BY <2>2, <2>3 DEF CallBackOK
  <2>9. IntRange \in Nat BY SizesAssumption
  <2>10. QED BY <2>3, <2>5, <2>6, <2>7, <2>8, <2>9
<1> HIDE DEF x, l, s
<1>6. QED BY <1>2, <1>3, <1>4, <1>5 DEF x, l

\* A response just sent claims nothing of its body
LEMMA NothingYet ==
  ASSUME NEW r \in Responses, r.body = <<>>
  PROVE  Delivered(r)
<1>1. Len(r.body) = 0 /\ r.announced \in Nat BY EmptyData DEF Responses
<1>2. Positions(r) = {} BY <1>1 DEF Positions
<1>3. QED BY <1>1, <1>2 DEF Delivered

LEMMA AppendKeeps ==
  ASSUME NEW D, NEW s \in Seq(Responses), NEW r \in Responses, NEW calm, NEW before,
         ResponsesOK(D, before, s), calm => before, Remembered(D, r), Delivered(r)
  PROVE  ResponsesOK(D, calm, Append(s, r))
<1> SUFFICES ASSUME NEW i \in DOMAIN Append(s, r)
             PROVE  /\ Remembered(D, Append(s, r)[i])
                    /\ calm => Delivered(Append(s, r)[i])
  BY DEF ResponsesOK
<1>1. i \in 1 .. Len(s) + 1 /\ Len(s) \in Nat BY AppendAt
<1>2. CASE i = Len(s) + 1
  <2>1. Append(s, r)[i] = r BY <1>2, AppendAt
  <2>2. QED BY <2>1
<1>3. CASE i # Len(s) + 1
  <2>1. i \in 1 .. Len(s) BY <1>1, <1>3
  <2>2. i \in DOMAIN s /\ Append(s, r)[i] = s[i] BY <2>1, AppendAt
  <2>3. QED BY <2>2 DEF ResponsesOK
<1>4. QED BY <1>2, <1>3

\* Without a callback nothing is pending
LEMMA NoCallBackOK ==
  ASSUME NEW D, NEW x \in Locals, NEW s, x.cb = None, ~x.write,
         x.at = "uploading" => x.file \in DOMAIN D, x.patient => x.calm,
         ResponsesOK(D, x.calm, s)
  PROVE  ConnOK(D, x, s)
  BY DEF ConnOK, ThreadOK, Pending, CallBackOK

-----------------------------------------------------------------------------
(* A file changes under its downloads *)

LEMMA TouchedIs ==
  ASSUME Typed, NEW f \in Files, NEW d \in Connections
  PROVE  LET s == responses[d]
             t == Touched(f)[d] IN
         /\ t \in Seq(Responses) /\ Len(t) = Len(s) /\ DOMAIN t = DOMAIN s
         /\ \A i \in DOMAIN s :
              t[i] = IF s[i].file = f THEN [s[i] EXCEPT !.touched = TRUE] ELSE s[i]
<1> DEFINE s == responses[d]
           t == Touched(f)[d]
<1>1. s \in Seq(Responses) /\ Len(s) \in Nat /\ DOMAIN s = 1 .. Len(s) BY ConnTyped
<1>2. t = [i \in DOMAIN s |->
             IF s[i].file = f THEN [s[i] EXCEPT !.touched = TRUE] ELSE s[i]]
  BY DEF Touched
<1>3. ASSUME NEW i \in DOMAIN s
      PROVE  (IF s[i].file = f THEN [s[i] EXCEPT !.touched = TRUE] ELSE s[i]) \in Responses
  <2>1. s[i] \in Responses BY <1>1, ElementOfSeq
  <2>2. [s[i] EXCEPT !.touched = TRUE] \in Responses BY <2>1 DEF Responses
  <2>3. QED BY <2>1, <2>2
<1>4. t \in [1 .. Len(s) -> Responses] BY <1>1, <1>2, <1>3
<1>5. t \in Seq(Responses) /\ Len(t) = Len(s) BY <1>1, <1>4, FunctionIsSeq
<1>6. QED BY <1>1, <1>2, <1>5

\* The downloads of f no longer claim what they send; the others still may
LEMMA TouchedKeeps ==
  ASSUME Typed, NEW f \in Files, NEW d \in Connections, NEW D, NEW calm,
         DOMAIN D = DOMAIN disk \cup {f}, \A g \in DOMAIN disk \ {f} : D[g] = disk[g],
         ResponsesOK(disk, calm, responses[d])
  PROVE  ResponsesOK(D, calm, Touched(f)[d])
<1> DEFINE s == responses[d]
           t == Touched(f)[d]
<1> SUFFICES ASSUME NEW i \in DOMAIN t
             PROVE  Remembered(D, t[i]) /\ (calm => Delivered(t[i]))
  BY DEF ResponsesOK
<1>1. i \in DOMAIN s /\ s[i] \in Responses
  BY TouchedIs, ConnTyped, ElementOfSeq
<1>2. Remembered(disk, s[i]) /\ (calm => Delivered(s[i])) BY <1>1 DEF ResponsesOK
<1>3. t[i] = IF s[i].file = f THEN [s[i] EXCEPT !.touched = TRUE] ELSE s[i]
  <2>1. \A j \in DOMAIN s :
          t[j] = IF s[j].file = f THEN [s[j] EXCEPT !.touched = TRUE] ELSE s[j]
    BY TouchedIs
  <2> HIDE DEF s, t
  <2>2. QED BY <1>1, <2>1
<1> HIDE DEF s, t
<1>4. CASE s[i].file = f
  <2> DEFINE r == s[i]
             u == [r EXCEPT !.touched = TRUE]
  <2>1. t[i] = u BY <1>3, <1>4
  <2>2. /\ u.kind = r.kind /\ u.announced = r.announced /\ u.expect = r.expect
        /\ u.body = r.body /\ u.touched
    BY <1>1 DEF Responses
  <2> HIDE DEF r, u
  <2>3. Remembered(D, u) BY <1>2, <2>2 DEF Remembered, r
  <2>4. calm => Delivered(u) BY <1>2, <2>2 DEF Delivered, r
  <2>5. QED BY <2>1, <2>3, <2>4
<1>5. CASE s[i].file # f
  <2>1. Remembered(D, s[i]) BY <1>2, <1>5 DEF Remembered
  <2>2. QED BY <1>2, <1>3, <1>5, <2>1
<1>6. QED BY <1>4, <1>5

LEMMA OthersTouched ==
  ASSUME Typed, NEW f \in Files, NEW d \in Connections, NEW D,
         DOMAIN D = DOMAIN disk \cup {f}, \A g \in DOMAIN disk \ {f} : D[g] = disk[g],
         ConnOK(disk, conn[d], responses[d])
  PROVE  ConnOK(D, conn[d], Touched(f)[d])
<1> DEFINE x == conn[d]
           s == responses[d]
           t == Touched(f)[d]
<1>1. /\ x \in Locals /\ s \in Seq(Responses) /\ t \in Seq(Responses)
      /\ Len(t) = Len(s) /\ DOMAIN t = DOMAIN s
  BY ConnTyped, TouchedIs
<1>2. ResponsesOK(D, x.calm, t) BY TouchedKeeps DEF ConnOK
<1>3. s # <<>> => t # <<>> BY <1>1, EmptySeq
<1>4. ThreadOK(D, x, t) BY <1>3 DEF ConnOK, ThreadOK
<1>5. Pending(x, t)
  <2> SUFFICES ASSUME x.calm, x.cb # None PROVE Pending(x, t) BY DEF Pending
  <2>1. s # <<>> /\ Pending(x, s) BY DEF ConnOK, ThreadOK
  <2> DEFINE n == Len(s)
             r == s[n]
  <2>2. n \in DOMAIN s /\ r \in Responses BY <1>1, <2>1, LatestIn
  <2>3. t[n] = IF r.file = f THEN [r EXCEPT !.touched = TRUE] ELSE r
    <3>1. \A i \in DOMAIN s : t[i] = IF s[i].file = f THEN [s[i] EXCEPT !.touched = TRUE] ELSE s[i]
      BY TouchedIs
    <3> HIDE DEF s, t, n
    <3>2. QED BY <2>2, <3>1
  <2>4. /\ t[n].kind = r.kind /\ t[n].file = r.file /\ t[n].announced = r.announced
        /\ t[n].body = r.body
    BY <2>2, <2>3 DEF Responses
  <2>5. Len(t) = n BY <1>1
  <2> HIDE DEF t, s, n
  <2>6. QED BY <2>1, <2>4, <2>5 DEF Pending, n
<1>6. QED BY <1>2, <1>4, <1>5 DEF ConnOK

-----------------------------------------------------------------------------
(* Steps that leave the files alone *)

PageOK(r) == r.kind = "page" => r.page # Torn /\ r.due \subseteq r.page

LEMMA PagesAre ==
  PageIsCurrent <=>
    (~overlapped => \A c \in Connections : \A i \in DOMAIN responses[c] : PageOK(responses[c][i]))
  BY DEF PageIsCurrent, PageOK

\* A step of c that changes its locals to x and its responses to s
LEMMA StepOf ==
  ASSUME IInv, NEW c \in Connections, NEW x \in Locals, NEW s \in Seq(Responses),
         conn' = [conn EXCEPT ![c] = x], responses' = [responses EXCEPT ![c] = s],
         disk' = disk, list' = Torn \/ list' \subseteq Files,
         overlapped' \in BOOLEAN, overlapped => overlapped', requests' \in 0 .. MaxRequests,
         ConnOK(disk, x, s), RootOK',
         ~overlapped' => \A i \in DOMAIN s : PageOK(s[i])
  PROVE  IInv'
<1>1. Typed /\ \A d \in Connections : ConnOK(disk, conn[d], responses[d]) BY DEF IInv
<1>2. /\ conn'[c] = x /\ responses'[c] = s
      /\ \A d \in Connections \ {c} : conn'[d] = conn[d] /\ responses'[d] = responses[d]
  BY <1>1 DEF Typed
<1>3. conn' \in [Connections -> Locals] /\ responses' \in [Connections -> Seq(Responses)]
  BY <1>1 DEF Typed
<1>4. Typed' BY <1>1, <1>3 DEF Typed
<1>5. \A d \in Connections : ConnOK(disk', conn'[d], responses'[d]) BY <1>1, <1>2
<1>6. PageIsCurrent'
  <2> SUFFICES ASSUME ~overlapped', NEW d \in Connections, NEW i \in DOMAIN responses'[d]
               PROVE  PageOK(responses'[d][i])
    BY DEF PageIsCurrent, PageOK
  <2>1. CASE d = c BY <1>2, <2>1
  <2>2. CASE d # c
    <3>1. i \in DOMAIN responses[d] /\ responses'[d][i] = responses[d][i] BY <1>2, <2>2
    <3>2. PageOK(responses[d][i]) BY <3>1, PagesAre DEF IInv
    <3>3. QED BY <3>1, <3>2
  <2>3. QED BY <2>1, <2>2
<1>7. QED BY <1>4, <1>5, <1>6 DEF IInv

\* A connection that is not in the handler of "/" disturbs nobody there
LEMMA OutsideRoot ==
  ASSUME IInv, NEW c \in Connections, NEW x \in Locals, x.at \notin {"scanned", "listed"},
         conn' = [conn EXCEPT ![c] = x], UNCHANGED <<list, overlapped>>
  PROVE  RootOK'
<1>1. RootOK /\ conn \in [Connections -> Locals] BY DEF IInv, Typed
<1>2. conn'[c] = x /\ \A d \in Connections \ {c} : conn'[d] = conn[d] BY <1>1
<1>3. \A d \in Connections :
        /\ InRoot(d)' => d # c /\ InRoot(d) /\ conn'[d] = conn[d]
        /\ conn'[d].at \in {"scanned", "listed"} => d # c /\ conn'[d] = conn[d]
  BY <1>2 DEF InRoot
<1>4. QED BY <1>1, <1>3 DEF RootOK

\* The pages c has got, with one response more
LEMMA PagesAppended ==
  ASSUME IInv, NEW c \in Connections, NEW r \in Responses, ~overlapped, PageOK(r)
  PROVE  \A i \in DOMAIN Append(responses[c], r) : PageOK(Append(responses[c], r)[i])
<1> DEFINE s == responses[c]
<1>1. s \in Seq(Responses) BY ConnTyped DEF IInv
<1>2. \A i \in DOMAIN s : PageOK(s[i]) BY PagesAre DEF IInv
<1> SUFFICES ASSUME NEW i \in DOMAIN Append(s, r) PROVE PageOK(Append(s, r)[i])
  OBVIOUS
<1> HIDE DEF s
<1>3. i \in 1 .. Len(s) + 1 /\ Len(s) \in Nat BY <1>1, AppendAt
<1>4. CASE i = Len(s) + 1 BY <1>1, <1>4, AppendAt
<1>5. CASE i # Len(s) + 1
  <2>1. i \in 1 .. Len(s) BY <1>3, <1>5
  <2>2. i \in DOMAIN s /\ Append(s, r)[i] = s[i] BY <1>1, <2>1, AppendAt
  <2>3. QED BY <1>2, <2>2
<1>6. QED BY <1>4, <1>5

LEMMA OneMoreRequest ==
  ASSUME Typed, NEW c \in Connections, Reads(c)
  PROVE  requests + 1 \in 0 .. MaxRequests
<1>1. requests \in 0 .. MaxRequests /\ requests < MaxRequests /\ MaxRequests \in Nat
  BY SizesAssumption DEF Typed, Reads
<1>2. QED BY <1>1

LEMMA DownloadKeeps ==
  ASSUME IInv, NEW c \in Connections, NEW f \in Files, Download(c, f)
  PROVE  IInv'
<1> DEFINE n == Size(f)
           s == responses[c]
           o == Noted(c, n > 0)
           b == [file |-> f, begin |-> 0, end |-> AsInt(n)]
           x == [o EXCEPT !.cb = b, !.write = TRUE]
           r == Response("file", f, n, {}, {})
           t == Append(s, r)
<1>1. Typed /\ s \in Seq(Responses) /\ Reads(c) /\ ConnOK(disk, conn[c], s)
  BY ConnTyped DEF IInv, Download
<1>2. n \in Nat BY <1>1, ExpectedType
<1>3. /\ o \in Locals /\ o.at = "idle" /\ (o.calm => conn[c].calm)
      /\ o.patient => o.calm /\ n > 0
  <2>1. (n > 0) \in BOOLEAN OBVIOUS
  <2> HIDE DEF n
  <2>2. QED BY <1>1, <2>1, ReadsQuiet
<1>4. AsInt(n) \in -IntRange .. IntRange /\ IntRange \in Nat BY <1>2, AsIntIs, SizesAssumption
<1>5. b \in CallBacks /\ b # None /\ b.file = f /\ b.begin = 0 /\ b.end = AsInt(n)
  BY <1>4, NoneAssumption DEF CallBacks
<1>6. /\ r \in Responses /\ r.kind = "file" /\ r.file = f /\ r.announced = n
      /\ ~r.touched /\ r.body = <<>>
      /\ r.expect = IF f \in DOMAIN disk THEN disk[f] ELSE <<>>
  BY <1>1, <1>2, ResponseIs
<1>7. /\ x \in Locals /\ x.at = "idle" /\ x.cb = b /\ x.calm = o.calm
      /\ x.patient = o.patient /\ x.write
  <2> HIDE DEF b, o
  <2>1. QED BY <1>3, <1>5 DEF Locals
<1>8. conn' = [conn EXCEPT ![c] = x] /\ responses' = [responses EXCEPT ![c] = t]
  BY DEF Download, Respond
<1>9. t \in Seq(Responses) /\ t # <<>> /\ t[Len(t)] = r BY <1>1, <1>6, AppendAt
<1>10. Remembered(disk, r) /\ Delivered(r)
  BY <1>1, <1>6, NothingYet, ExpectedType DEF Remembered
<1>11. ResponsesOK(disk, x.calm, t)
  <2>1. ResponsesOK(disk, conn[c].calm, s) BY <1>1 DEF ConnOK
  <2> HIDE DEF x, r, o, s
  <2>2. QED BY <1>1, <1>3, <1>6, <1>7, <1>10, <2>1, AppendKeeps
<1>12. CallBackOK(b)
  <2>1. 0 % Block = 0 BY SizesAssumption
  <2> HIDE DEF b
  <2>2. QED BY <1>4, <1>5, <2>1 DEF CallBackOK
<1>13. ConnOK(disk, x, t)
  <2> HIDE DEF x, b, t, r, n
  <2>1. ThreadOK(disk, x, t) BY <1>3, <1>5, <1>7, <1>9, <1>12 DEF ThreadOK
  <2>2. Len(r.body) = 0 BY <1>6, EmptyData
  <2>3. Pending(x, t) BY <1>3, <1>5, <1>6, <1>7, <1>9, <2>2 DEF Pending
  <2>4. QED BY <1>11, <2>1, <2>3 DEF ConnOK
<1>14. UNCHANGED <<disk, list, overlapped>> /\ requests' = requests + 1 BY DEF Download
<1> HIDE DEF x, b, t, r, n, s, o
<1>15. RootOK' BY <1>7, <1>8, <1>14, OutsideRoot
<1>16. ~overlapped => \A i \in DOMAIN t : PageOK(t[i])
  <2>1. PageOK(r) BY <1>6 DEF PageOK
  <2>2. QED BY <1>6, <2>1, PagesAppended DEF t, s
<1>17. requests' \in 0 .. MaxRequests BY <1>1, <1>14, OneMoreRequest
<1>18. QED BY <1>1, <1>7, <1>8, <1>9, <1>13, <1>14, <1>15, <1>16, <1>17, StepOf DEF Typed

\* A step that keeps the callback, on a connection that is calm only without one
LEMMA CallBackKept ==
  ASSUME NEW E, NEW D, NEW l, NEW x, NEW s, NEW t, ThreadOK(E, l, s),
         x.cb = l.cb, x.write = l.write, x.calm => x.cb = None, x.patient => x.calm,
         x.at = "uploading" => x.file \in DOMAIN D, s # <<>> => t # <<>>,
         ResponsesOK(D, x.calm, t)
  PROVE  ConnOK(D, x, t)
<1>1. ThreadOK(D, x, t) BY DEF ThreadOK
<1>2. Pending(x, t) BY DEF Pending
<1>3. QED BY <1>1, <1>2 DEF ConnOK

LEMMA Weaker ==
  ASSUME NEW D, NEW s, NEW before, NEW calm, ResponsesOK(D, before, s), calm => before
  PROVE  ResponsesOK(D, calm, s)
  BY DEF ResponsesOK

\* In the middle of a handler a calm connection has no callback
LEMMA BusyQuiet ==
  ASSUME IInv, NEW c \in Connections, conn[c].at # "idle"
  PROVE  conn[c].calm => conn[c].cb = None
  BY DEF IInv, ConnOK, Pending

-----------------------------------------------------------------------------
(* The handler of "/" *)

LEMMA RootScanKeeps ==
  ASSUME IInv, NEW c \in Connections, RootScan(c)
  PROVE  IInv'
<1> DEFINE s == responses[c]
           o == Noted(c, TRUE)
           x == [o EXCEPT !.at = "scanned", !.seen = DOMAIN disk, !.due = Settled]
<1>1. /\ Typed /\ s \in Seq(Responses) /\ Reads(c) /\ ConnOK(disk, conn[c], s)
      /\ RootOK /\ PageIsCurrent
  BY ConnTyped DEF IInv, RootScan
<1>2. /\ o \in Locals /\ o.cb = conn[c].cb /\ o.write = conn[c].write
      /\ o.calm => conn[c].calm /\ o.cb = None
      /\ o.patient => o.calm
  BY <1>1, ReadsQuiet
<1>3. Settled \subseteq DOMAIN disk /\ DOMAIN disk \subseteq Files
  BY <1>1 DEF Settled, Typed
<1>4. /\ x \in Locals /\ x.at = "scanned" /\ x.seen = DOMAIN disk /\ x.due = Settled
      /\ x.cb = o.cb /\ x.write = o.write /\ x.calm = o.calm /\ x.patient = o.patient
  <2> HIDE DEF o
  <2>1. Settled \in SUBSET Files /\ DOMAIN disk \in SUBSET Files BY <1>3
  <2>2. QED BY <1>2, <2>1 DEF Locals, Steps
<1>5. conn' = [conn EXCEPT ![c] = x] /\ responses' = [responses EXCEPT ![c] = s]
  BY <1>1 DEF RootScan, Typed
<1>6. UNCHANGED <<disk, list>> /\ requests' = requests + 1
  BY DEF RootScan
<1>7. /\ overlapped' = (overlapped \/ \E d \in Connections \ {c} : InRoot(d))
      /\ overlapped' \in BOOLEAN /\ overlapped \in BOOLEAN
  BY <1>1 DEF RootScan, Typed
<1> HIDE DEF x, o, s
<1>8. ConnOK(disk, x, s)
  <2>1. ResponsesOK(disk, x.calm, s) BY <1>1, <1>2, <1>4, Weaker DEF ConnOK
  <2>2. ThreadOK(disk, conn[c], s) BY <1>1 DEF ConnOK
  <2>3. x.calm => x.cb = None BY <1>2, <1>4
  <2>4. QED BY <1>2, <1>4, <2>1, <2>2, <2>3, CallBackKept
<1>9. RootOK'
  <2> SUFFICES ASSUME ~overlapped' PROVE RootOK' BY DEF RootOK
  <2>1. conn'[c] = x /\ \A d \in Connections \ {c} : conn'[d] = conn[d]
    BY <1>1, <1>5 DEF Typed
  <2>2. \A d \in Connections \ {c} : ~InRoot(d)' /\ conn'[d].at \notin {"scanned", "listed"}
    BY <1>7, <2>1 DEF InRoot
  <2>3. conn'[c].at = "scanned" /\ conn'[c].due \subseteq conn'[c].seen
    BY <1>3, <1>4, <2>1
  <2>4. QED BY <2>2, <2>3 DEF RootOK
<1>10. ~overlapped => \A i \in DOMAIN s : PageOK(s[i]) BY <1>1, PagesAre DEF s
<1>11. requests' \in 0 .. MaxRequests BY <1>1, <1>6, OneMoreRequest
<1>12. list' = Torn \/ list' \subseteq Files BY <1>1, <1>6 DEF Typed
<1>13. QED
  BY <1>1, <1>4, <1>5, <1>6, <1>7, <1>8, <1>9, <1>10, <1>11, <1>12, StepOf

LEMMA RootListKeeps ==
  ASSUME IInv, NEW c \in Connections, RootList(c)
  PROVE  IInv'
<1> DEFINE s == responses[c]
           l == conn[c]
           x == [l EXCEPT !.at = "listed"]
<1>1. /\ Typed /\ s \in Seq(Responses) /\ l \in Locals /\ ConnOK(disk, l, s)
      /\ RootOK /\ PageIsCurrent /\ l.at = "scanned"
  BY ConnTyped DEF IInv, RootList
<1>2. l.calm => l.cb = None BY <1>1, BusyQuiet
<1>3. /\ x \in Locals /\ x.at = "listed" /\ x.due = l.due
      /\ x.cb = l.cb /\ x.write = l.write /\ x.calm = l.calm /\ x.patient = l.patient
  <2> HIDE DEF l
  <2>1. QED BY <1>1 DEF Locals, Steps
<1>4. conn' = [conn EXCEPT ![c] = x] /\ responses' = [responses EXCEPT ![c] = s]
  BY <1>1 DEF RootList, Typed
<1>5. UNCHANGED <<disk, overlapped, requests>> BY DEF RootList
<1>6. /\ list' \in {l.seen, Torn}
      /\ Others(c, "scanned") \cup Others(c, "listed") = {} => list' = l.seen
  BY DEF RootList
<1>7. l.seen \subseteq Files /\ l.seen # Torn
  <2>1. l.seen \subseteq Files BY <1>1 DEF Locals
  <2>2. QED BY <2>1, NoneAssumption DEF Torn
<1> HIDE DEF x, s
<1>8. ConnOK(disk, x, s)
  <2>1. ThreadOK(disk, l, s) /\ ResponsesOK(disk, x.calm, s) BY <1>1, <1>3 DEF ConnOK
  <2>2. x.patient => x.calm BY <1>3, <2>1 DEF ThreadOK
  <2> HIDE DEF l
  <2>3. x.calm => x.cb = None BY <1>2, <1>3
  <2>4. QED BY <1>3, <2>1, <2>2, <2>3, CallBackKept
<1>9. RootOK'
  <2> SUFFICES ASSUME ~overlapped' PROVE RootOK' BY DEF RootOK
  <2>1. conn'[c] = x /\ \A d \in Connections \ {c} : conn'[d] = conn[d]
    BY <1>1, <1>4 DEF Typed
  <2>2. ~overlapped /\ InRoot(c) BY <1>1, <1>5 DEF InRoot
  <2>3. \A d \in Connections \ {c} : ~InRoot(d) BY <1>1, <2>2 DEF RootOK
  <2>4. Others(c, "scanned") \cup Others(c, "listed") = {} BY <2>3 DEF Others, InRoot
  <2>5. \A d \in Connections \ {c} : ~InRoot(d)' /\ conn'[d].at \notin {"scanned", "listed"}
    BY <2>1, <2>3 DEF InRoot
  <2>6. l.due \subseteq l.seen BY <1>1, <2>2 DEF RootOK
  <2>7. /\ conn'[c].at = "listed" /\ list' # Torn /\ conn'[c].due \subseteq list'
    <3> HIDE DEF l
    <3>1. QED BY <1>3, <1>6, <1>7, <2>1, <2>4, <2>6
  <2>8. QED BY <2>5, <2>7 DEF RootOK
<1>10. ~overlapped => \A i \in DOMAIN s : PageOK(s[i]) BY <1>1, PagesAre DEF s
<1>11. overlapped' \in BOOLEAN /\ requests' \in 0 .. MaxRequests BY <1>1, <1>5 DEF Typed
<1>12. list' = Torn \/ list' \subseteq Files BY <1>6, <1>7
<1>13. QED
  BY <1>1, <1>3, <1>4, <1>5, <1>8, <1>9, <1>10, <1>11, <1>12, StepOf

LEMMA RootPageKeeps ==
  ASSUME IInv, NEW c \in Connections, RootPage(c)
  PROVE  IInv'
<1> DEFINE s == responses[c]
           l == conn[c]
           x == [l EXCEPT !.at = "idle"]
<1>1. /\ Typed /\ s \in Seq(Responses) /\ l \in Locals /\ ConnOK(disk, l, s)
      /\ RootOK /\ PageIsCurrent /\ l.at = "listed"
  BY ConnTyped DEF IInv, RootPage
<1>2. l.calm => l.cb = None BY <1>1, BusyQuiet
<1>3. /\ x \in Locals /\ x.at = "idle"
      /\ x.cb = l.cb /\ x.write = l.write /\ x.calm = l.calm /\ x.patient = l.patient
  <2> HIDE DEF l
  <2>1. QED BY <1>1 DEF Locals, Steps
<1>4. conn' = [conn EXCEPT ![c] = x] /\ UNCHANGED <<disk, list, overlapped, requests>>
  BY <1>1 DEF RootPage, Typed
<1>5. PICK page \in {list} \cup (IF Others(c, "scanned") # {} THEN {Torn} ELSE {}) :
        responses' = [responses EXCEPT ![c] = Append(s, Response("page", None, 0, page, l.due))]
  BY DEF RootPage, Respond
<1> DEFINE r == Response("page", None, 0, page, l.due)
           t == Append(s, r)
<1>6. page \in SUBSET (Files \cup {None}) /\ l.due \in SUBSET Files
  BY <1>1 DEF Typed, Torn, Locals
<1>7. /\ r \in Responses /\ r.kind = "page" /\ r.page = page /\ r.due = l.due
      /\ r.body = <<>>
  <2> HIDE DEF l
  <2>1. QED BY <1>1, <1>6, PageIs
<1>8. t \in Seq(Responses) /\ t # <<>> BY <1>1, <1>7, AppendAt
<1> HIDE DEF x, r
<1>9. ResponsesOK(disk, x.calm, t)
  <2>1. Remembered(disk, r) /\ Delivered(r) BY <1>7 DEF Remembered, Delivered
  <2>2. ResponsesOK(disk, l.calm, s) /\ (x.calm => l.calm) BY <1>1, <1>3 DEF ConnOK
  <2> HIDE DEF s, l
  <2>3. QED BY <1>1, <1>7, <2>1, <2>2, AppendKeeps
<1>10. ConnOK(disk, x, t)
  <2>1. ThreadOK(disk, l, s) BY <1>1 DEF ConnOK
  <2>2. x.patient => x.calm BY <1>3, <2>1 DEF ThreadOK
  <2> HIDE DEF l, s, t
  <2>3. x.calm => x.cb = None BY <1>2, <1>3
  <2>4. QED BY <1>3, <1>8, <1>9, <2>1, <2>2, <2>3, CallBackKept
<1>11. RootOK' BY <1>3, <1>4, OutsideRoot
<1>12. ~overlapped => \A i \in DOMAIN t : PageOK(t[i])
  <2> SUFFICES ASSUME ~overlapped PROVE \A i \in DOMAIN t : PageOK(t[i]) OBVIOUS
  <2>1. list # Torn /\ l.due \subseteq list /\ InRoot(c) BY <1>1 DEF RootOK, InRoot
  <2>2. \A d \in Connections \ {c} : ~InRoot(d) BY <1>1, <2>1 DEF RootOK
  <2>3. Others(c, "scanned") = {} BY <2>2 DEF Others, InRoot
  <2>4. page = list BY <2>3
  <2>5. PageOK(r) BY <1>7, <2>1, <2>4 DEF PageOK
  <2>6. QED BY <1>7, <2>5, PagesAppended
<1> HIDE DEF t
<1>13. overlapped' \in BOOLEAN /\ requests' \in 0 .. MaxRequests BY <1>1, <1>4 DEF Typed
<1>14. list' = Torn \/ list' \subseteq Files BY <1>1, <1>4 DEF Typed
<1>15. responses' = [responses EXCEPT ![c] = t] BY <1>5 DEF t, r
<1>16. QED
  BY <1>3, <1>4, <1>8, <1>10, <1>11, <1>12, <1>13, <1>14, <1>15, StepOf

-----------------------------------------------------------------------------
(* Uploads *)

\* The marks change nothing of a page
LEMMA PageTouched ==
  ASSUME Typed, NEW f \in Files, NEW d \in Connections, NEW i \in DOMAIN Touched(f)[d],
         PageOK(responses[d][i])
  PROVE  PageOK(Touched(f)[d][i])
<1> DEFINE r == responses[d][i]
           t == Touched(f)[d][i]
<1>1. i \in DOMAIN responses[d] BY TouchedIs
<1>2. r \in Responses BY <1>1, ConnTyped, ElementOfSeq
<1>3. t = IF r.file = f THEN [r EXCEPT !.touched = TRUE] ELSE r BY <1>1, TouchedIs
<1> HIDE DEF t, r
<1>4. t.kind = r.kind /\ t.page = r.page /\ t.due = r.due BY <1>2, <1>3 DEF Responses
<1>5. QED BY <1>4 DEF PageOK, t, r

\* A step of c that changes the file f, its locals to x and its responses to t
LEMMA FileStepOf ==
  ASSUME IInv, NEW c \in Connections, NEW f \in Files, NEW x \in Locals,
         NEW t \in Seq(Responses), NEW D, D \in [DOMAIN disk \cup {f} -> Data],
         \A g \in DOMAIN disk \ {f} : D[g] = disk[g],
         conn' = [conn EXCEPT ![c] = x], responses' = [Touched(f) EXCEPT ![c] = t],
         disk' = D, UNCHANGED <<list, overlapped>>, requests' \in 0 .. MaxRequests,
         ConnOK(D, x, t), RootOK',
         ~overlapped => \A i \in DOMAIN t : PageOK(t[i])
  PROVE  IInv'
<1>1. Typed /\ \A d \in Connections : ConnOK(disk, conn[d], responses[d]) BY DEF IInv
<1>2. /\ conn'[c] = x /\ responses'[c] = t
      /\ \A d \in Connections \ {c} : conn'[d] = conn[d] /\ responses'[d] = Touched(f)[d]
  BY <1>1 DEF Typed, Touched
<1>3. conn' \in [Connections -> Locals] BY <1>1 DEF Typed
<1>4. responses' \in [Connections -> Seq(Responses)]
  <2>1. \A d \in Connections : Touched(f)[d] \in Seq(Responses) BY <1>1, TouchedIs
  <2>2. DOMAIN Touched(f) = Connections /\ Touched(f) = [d \in Connections |-> Touched(f)[d]]
    BY DEF Touched
  <2>3. Touched(f) \in [Connections -> Seq(Responses)] BY <2>1, <2>2
  <2>4. QED BY <2>3
<1>5. DOMAIN disk' \subseteq Files /\ disk' \in [DOMAIN disk' -> Data] BY <1>1 DEF Typed
<1>6. Typed' BY <1>1, <1>3, <1>4, <1>5 DEF Typed
<1>7. ASSUME NEW d \in Connections PROVE ConnOK(disk', conn'[d], responses'[d])
  <2>1. CASE d = c BY <1>2, <2>1
  <2>2. CASE d # c
    <3>1. DOMAIN D = DOMAIN disk \cup {f} OBVIOUS
    <3>2. ConnOK(D, conn[d], Touched(f)[d]) BY <1>1, <3>1, OthersTouched
    <3>3. QED BY <1>2, <2>2, <3>2
  <2>3. QED BY <2>1, <2>2
<1>8. PageIsCurrent'
  <2> SUFFICES ASSUME ~overlapped', NEW d \in Connections, NEW i \in DOMAIN responses'[d]
               PROVE  PageOK(responses'[d][i])
    BY DEF PageIsCurrent, PageOK
  <2>1. CASE d = c BY <1>2, <2>1
  <2>2. CASE d # c
    <3>1. responses'[d] = Touched(f)[d] BY <1>2, <2>2
    <3>2. i \in DOMAIN responses[d] BY <1>1, <3>1, TouchedIs
    <3>3. PageOK(responses[d][i]) BY <3>2, PagesAre DEF IInv
    <3>4. i \in DOMAIN Touched(f)[d] BY <3>1
    <3>5. QED BY <1>1, <3>1, <3>3, <3>4, PageTouched
  <2>3. QED BY <2>1, <2>2
<1>9. QED BY <1>6, <1>7, <1>8 DEF IInv

\* The pages of c are not changed by the marks
LEMMA PagesTouched ==
  ASSUME IInv, NEW c \in Connections, NEW f \in Files, ~overlapped
  PROVE  \A i \in DOMAIN Touched(f)[c] : PageOK(Touched(f)[c][i])
<1> SUFFICES ASSUME NEW i \in DOMAIN Touched(f)[c] PROVE PageOK(Touched(f)[c][i])
  OBVIOUS
<1>1. Typed BY DEF IInv
<1>2. i \in DOMAIN responses[c] BY <1>1, TouchedIs
<1>3. PageOK(responses[c][i]) BY <1>2, PagesAre DEF IInv
<1>4. QED BY <1>1, <1>3, PageTouched

LEMMA UploadOpenKeeps ==
  ASSUME IInv, NEW c \in Connections, NEW f \in Files, UploadOpen(c, f)
  PROVE  IInv'
<1> DEFINE s == responses[c]
           t == Touched(f)[c]
           o == Noted(c, TRUE)
           D == [g \in DOMAIN disk \cup {f} |-> IF g = f THEN <<>> ELSE disk[g]]
<1>1. Typed /\ s \in Seq(Responses) /\ Reads(c) /\ ConnOK(disk, conn[c], s)
  BY ConnTyped DEF IInv, UploadOpen
<1>2. /\ o \in Locals /\ o.cb = conn[c].cb /\ o.write = conn[c].write
      /\ o.calm => conn[c].calm /\ o.cb = None
      /\ o.patient => o.calm
  BY <1>1, ReadsQuiet
<1>3. /\ requests' = requests + 1 /\ disk' = D /\ responses' = Touched(f)
      /\ UNCHANGED <<list, overlapped>>
  BY DEF UploadOpen
<1>4. requests' \in 0 .. MaxRequests BY <1>1, <1>3, OneMoreRequest
<1>5. PICK size \in Sizes :
        conn' = [conn EXCEPT ![c] = [o EXCEPT
                   !.at = "uploading", !.file = f, !.new = Contents(size, requests')]]
  BY DEF UploadOpen
<1> DEFINE x == [o EXCEPT !.at = "uploading", !.file = f, !.new = Contents(size, requests')]
<1>6. Contents(size, requests') \in Data BY <1>4, SizesAssumption, ContentsType
<1>7. /\ x \in Locals /\ x.at = "uploading" /\ x.file = f
      /\ x.cb = o.cb /\ x.write = o.write /\ x.calm = o.calm /\ x.patient = o.patient
  <2> DEFINE new == Contents(size, requests')
  <2> HIDE DEF o, new
  <2>1. QED BY <1>2, <1>6 DEF Locals, Steps, new
<1>8. D \in [DOMAIN disk \cup {f} -> Data] /\ \A g \in DOMAIN disk \ {f} : D[g] = disk[g]
  BY <1>1, EmptyData DEF Typed
<1>9. DOMAIN D = DOMAIN disk \cup {f} OBVIOUS
<1> HIDE DEF D, x, o
<1>10. /\ t \in Seq(Responses) /\ Len(t) = Len(s) BY <1>1, TouchedIs
<1>11. s # <<>> => t # <<>> BY <1>1, <1>10, EmptySeq
<1>12. ResponsesOK(D, x.calm, t)
  <2>1. ResponsesOK(disk, x.calm, s) BY <1>1, <1>2, <1>7, Weaker DEF ConnOK
  <2>2. QED BY <1>1, <1>8, <1>9, <2>1, TouchedKeeps
<1>13. ConnOK(D, x, t)
  <2>1. ThreadOK(disk, conn[c], s) BY <1>1 DEF ConnOK
  <2>2. x.calm => x.cb = None BY <1>2, <1>7
  <2> HIDE DEF s, t
  <2>3. QED BY <1>2, <1>7, <1>9, <1>11, <1>12, <2>1, <2>2, CallBackKept
<1>14. conn' = [conn EXCEPT ![c] = x] BY <1>5 DEF x
<1>15. RootOK' BY <1>3, <1>7, <1>14, OutsideRoot
<1>16. responses' = [Touched(f) EXCEPT ![c] = t] BY <1>3 DEF Touched
<1>17. ~overlapped => \A i \in DOMAIN t : PageOK(t[i]) BY PagesTouched
<1> HIDE DEF t
<1>18. QED
  BY <1>3, <1>4, <1>7, <1>8, <1>10, <1>13, <1>14, <1>15, <1>16, <1>17, FileStepOf

LEMMA UploadWriteKeeps ==
  ASSUME IInv, NEW c \in Connections, UploadWrite(c)
  PROVE  IInv'
<1> DEFINE s == responses[c]
           l == conn[c]
           f == l.file
           x == [l EXCEPT !.at = "idle"]
           r == Response("done", None, 0, {}, {})
           u == Touched(f)[c]
           t == Append(u, r)
           written == l.new \o SubSeq(disk[f], Len(l.new) + 1, Len(disk[f]))
           D == [disk EXCEPT ![f] = written]
<1>1. /\ Typed /\ s \in Seq(Responses) /\ l \in Locals /\ ConnOK(disk, l, s)
      /\ l.at = "uploading"
  BY ConnTyped DEF IInv, UploadWrite
<1>2. l.calm => l.cb = None BY <1>1, BusyQuiet
<1>3. f \in DOMAIN disk /\ f \in Files /\ disk[f] \in Data
  BY <1>1 DEF ConnOK, ThreadOK, Typed
<1>4. /\ x \in Locals /\ x.at = "idle"
      /\ x.cb = l.cb /\ x.write = l.write /\ x.calm = l.calm /\ x.patient = l.patient
  <2> HIDE DEF l
  <2>1. QED BY <1>1 DEF Locals, Steps
<1>5. /\ conn' = [conn EXCEPT ![c] = x] /\ disk' = D
      /\ responses' = [Touched(f) EXCEPT ![c] = t]
      /\ UNCHANGED <<list, overlapped, requests>>
  <2>1. Touched(f) = [d \in Connections |-> Touched(f)[d]] BY DEF Touched
  <2>2. [Touched(f) EXCEPT ![c] = Append(@, r)] = [Touched(f) EXCEPT ![c] = Append(u, r)]
    BY <2>1
  <2>3. QED BY <2>2 DEF UploadWrite
<1>6. written \in Data
  <2>1. l.new \in Data BY <1>1 DEF Locals
  <2>2. QED BY <1>3, <2>1, WrittenType
<1>7. D \in [DOMAIN disk \cup {f} -> Data] /\ \A g \in DOMAIN disk \ {f} : D[g] = disk[g]
  <2> HIDE DEF written, f
  <2>1. QED BY <1>1, <1>3, <1>6 DEF Typed
<1>8. DOMAIN D = DOMAIN disk \cup {f} BY <1>3
<1>9. /\ r \in Responses /\ r.kind = "done" /\ r.body = <<>>
  BY <1>1, DoneIs
<1>10. u \in Seq(Responses) BY <1>1, <1>3, TouchedIs
<1>11. t \in Seq(Responses) /\ t # <<>> BY <1>9, <1>10, AppendAt
<1> HIDE DEF D, x, r
<1>12. ResponsesOK(D, x.calm, t)
  <2>1. Remembered(D, r) /\ Delivered(r) BY <1>9 DEF Remembered, Delivered
  <2>2. ResponsesOK(disk, x.calm, s) BY <1>1, <1>4 DEF ConnOK
  <2>3. ResponsesOK(D, x.calm, u) BY <1>1, <1>3, <1>7, <1>8, <2>2, TouchedKeeps
  <2> HIDE DEF u
  <2>4. QED BY <1>9, <1>10, <2>1, <2>3, AppendKeeps
<1>13. ConnOK(D, x, t)
  <2>1. ThreadOK(disk, l, s) BY <1>1 DEF ConnOK
  <2>2. x.patient => x.calm BY <1>4, <2>1 DEF ThreadOK
  <2> HIDE DEF l, s, t
  <2>3. x.calm => x.cb = None BY <1>2, <1>4
  <2>4. QED BY <1>4, <1>11, <1>12, <2>1, <2>2, <2>3, CallBackKept
<1>14. RootOK' BY <1>4, <1>5, OutsideRoot
<1>15. ~overlapped => \A i \in DOMAIN t : PageOK(t[i])
  <2> SUFFICES ASSUME ~overlapped, NEW i \in DOMAIN t PROVE PageOK(t[i]) OBVIOUS
  <2>1. \A j \in DOMAIN u : PageOK(u[j]) BY <1>3, PagesTouched
  <2>2. PageOK(r) BY <1>9 DEF PageOK
  <2> HIDE DEF u
  <2>3. i \in 1 .. Len(u) + 1 /\ Len(u) \in Nat BY <1>9, <1>10, AppendAt
  <2>4. CASE i = Len(u) + 1 BY <1>9, <1>10, <2>2, <2>4, AppendAt
  <2>5. CASE i # Len(u) + 1
    <3>1. i \in 1 .. Len(u) BY <2>3, <2>5
    <3>2. i \in DOMAIN u /\ t[i] = u[i] BY <1>9, <1>10, <3>1, AppendAt
    <3>3. QED BY <2>1, <3>2
  <2>6. QED BY <2>4, <2>5
<1>16. requests' \in 0 .. MaxRequests BY <1>1, <1>5 DEF Typed
<1> HIDE DEF t, f
<1>17. QED
  BY <1>3, <1>4, <1>5, <1>7, <1>11, <1>13, <1>14, <1>15, <1>16, FileStepOf

-----------------------------------------------------------------------------
(* A block is sent *)

\* The body of a response, with the next block at its end
LEMMA BlockSent ==
  ASSUME Typed, NEW cb \in CallBacks, NEW b \in Seq(Units)
  PROVE  LET w == b \o BlockAt(cb)
             n == Len(b) IN
         /\ w \in Seq(Units) /\ n \in Nat /\ Len(w) = n + Block
         /\ \A k \in 1 .. n : w[k] = b[k]
         /\ \A k \in 1 .. Block : w[n + k] = BlockAt(cb)[k]
<1> DEFINE e == BlockAt(cb)
           w == b \o e
           n == Len(b)
<1>1. Len(b) \in Nat /\ n \in Nat BY LenProperties
<1>2. e \in Seq(Units) /\ Len(e) = Block /\ Block \in Nat BY BlockIs, SizesAssumption
<1>3. w = b \o e /\ n = Len(b) OBVIOUS
<1> HIDE DEF e, w, n
<1>4. w \in Seq(Units) /\ Len(w) = n + Block
  BY <1>1, <1>2, <1>3, ConcatProperties
<1>5. ASSUME NEW k \in 1 .. n PROVE w[k] = b[k]
  <2>1. k \in 1 .. Len(b) + Len(e) /\ k <= Len(b) BY <1>1, <1>2, <1>3
  <2>2. QED BY <1>2, <1>3, <2>1, ConcatProperties
<1>6. ASSUME NEW k \in 1 .. Block PROVE w[n + k] = e[k]
  <2> DEFINE j == n + k
  <2>1. j \in 1 .. Len(b) + Len(e) /\ ~(j <= Len(b)) /\ j - Len(b) = k BY <1>1, <1>2, <1>3
  <2> HIDE DEF j
  <2>2. w[j] = e[j - Len(b)] BY <1>2, <1>3, <2>1, ConcatProperties
  <2>3. QED BY <2>1, <2>2 DEF j
<1>7. QED BY <1>1, <1>4, <1>5, <1>6 DEF e, w, n

\* A response with another body
LEMMA BodyIs ==
  ASSUME NEW r \in Responses, NEW w \in Seq(Units)
  PROVE  LET q == [r EXCEPT !.body = w] IN
         /\ q \in Responses /\ q.kind = r.kind /\ q.file = r.file
         /\ q.announced = r.announced /\ q.expect = r.expect /\ q.touched = r.touched
         /\ q.page = r.page /\ q.due = r.due /\ q.body = w
  BY DEF Responses

\* The response stays what its headers said
LEMMA BlockDelivers ==
  ASSUME Typed, NEW cb \in CallBacks, NEW r \in Responses, CallBackOK(cb),
         r.kind = "file", r.file = cb.file, cb.end = AsInt(r.announced),
         Len(r.body) = cb.begin, Remembered(disk, r), Delivered(r)
  PROVE  Delivered([r EXCEPT !.body = r.body \o BlockAt(cb)])
<1> DEFINE w == r.body \o BlockAt(cb)
           q == [r EXCEPT !.body = w]
           a == r.announced
           begin == cb.begin
           wanted == IF LastBlock(cb) THEN cb.end - begin ELSE Block
<1>1. /\ q.kind = "file" /\ q.announced = a /\ q.expect = r.expect /\ q.touched = r.touched
      /\ Len(q.body) = begin + Block
      /\ \A k \in 1 .. begin : q.body[k] = r.body[k]
      /\ \A k \in 1 .. Block : q.body[begin + k] = BlockAt(cb)[k]
  <2>1. r.body \in Seq(Units) /\ Len(r.body) = begin BY DEF Responses
  <2>2. /\ w \in Seq(Units) /\ Len(w) = begin + Block
        /\ \A k \in 1 .. begin : w[k] = r.body[k]
        /\ \A k \in 1 .. Block : w[begin + k] = BlockAt(cb)[k]
    <3> DEFINE b == r.body
    <3>1. b \in Seq(Units) /\ begin = Len(b) /\ w = b \o BlockAt(cb) BY <2>1
    <3> DEFINE v == b \o BlockAt(cb)
               n == Len(b)
    <3> HIDE DEF begin, b, w
    <3>2. /\ v \in Seq(Units) /\ Len(v) = n + Block
          /\ \A k \in 1 .. n : v[k] = b[k]
          /\ \A k \in 1 .. Block : v[n + k] = BlockAt(cb)[k]
      BY <3>1, BlockSent
    <3> HIDE DEF n, v
    <3>3. /\ w \in Seq(Units) /\ Len(w) = begin + Block
          /\ \A k \in 1 .. begin : w[k] = b[k]
          /\ \A k \in 1 .. Block : w[begin + k] = BlockAt(cb)[k]
      BY <3>1, <3>2 DEF n, v
    <3>4. QED BY <3>3 DEF b
  <2> HIDE DEF w
  <2>3. /\ q.kind = r.kind /\ q.announced = a /\ q.expect = r.expect /\ q.touched = r.touched
        /\ q.body = w
    BY <2>2, BodyIs
  <2> HIDE DEF q, begin
  <2>4. QED BY <2>2, <2>3
<1>2. a \in Nat /\ begin \in Nat /\ cb.end \in Int /\ Block \in Nat /\ Block > 0
  BY SizesAssumption DEF Responses, CallBacks
<1>3. AsInt(a) <= a /\ AsInt(a) \in -IntRange .. IntRange /\ (a < IntRange => AsInt(a) = a)
  BY <1>2, AsIntIs
<1>4. begin <= a
  <2>1. begin = 0 \/ begin < cb.end BY NoneAssumption DEF CallBackOK
  <2>2. cb.end = AsInt(a) OBVIOUS
  <2>3. IntRange \in Nat BY SizesAssumption
  <2> HIDE DEF a, begin
  <2>4. QED BY <1>2, <1>3, <2>1, <2>2, <2>3
<1>5. ASSUME ~r.touched, a < IntRange, NEW k \in Positions(q)
      PROVE  q.body[k] = <<r.expect[k], k>>
  <2>1. k \in 1 .. a /\ k <= begin + Block
    <3> HIDE DEF q, a, begin
    <3>1. QED BY <1>1, <1>2 DEF Positions
  <2>2. CASE k <= begin
    <3>1. k \in 1 .. begin BY <2>1, <2>2
    <3>2. k \in Positions(r) BY <1>2, <2>1, <2>2 DEF Positions
    <3>3. r.body[k] = <<r.expect[k], k>> BY <1>5, <3>2 DEF Delivered
    <3> HIDE DEF q
    <3>4. q.body[k] = r.body[k]
      <4> HIDE DEF begin
      <4>1. QED BY <1>1, <3>1
    <3> HIDE DEF begin
    <3>5. QED BY ONLY <3>3, <3>4
  <2>3. CASE k > begin
    <3> DEFINE j == k - begin
    <3>1. j \in 1 .. Block /\ begin + j = k
      <4> HIDE DEF a, begin, q
      <4>1. QED BY <1>2, <2>1, <2>3
    <3>2. Size(cb.file) = a /\ r.expect = (IF cb.file \in DOMAIN disk THEN disk[cb.file] ELSE <<>>)
      <4>1. r.expect = (IF cb.file \in DOMAIN disk THEN disk[cb.file] ELSE <<>>)
        BY <1>5 DEF Remembered
      <4>2. a = Len(r.expect) BY DEF Remembered
      <4>3. QED BY <4>1, <4>2, ExpectedType
    <3>3. cb.file \in DOMAIN disk
      <4> SUFFICES ASSUME cb.file \notin DOMAIN disk PROVE FALSE OBVIOUS
      <4>1. a = 0 BY <3>2 DEF Size
      <4>2. QED BY <2>1, <4>1
    <3>4. j <= wanted
      <4>1. cb.end = a BY <1>3, <1>5
      <4> HIDE DEF a, begin
      <4>2. QED BY <1>2, <2>1, <3>1, <4>1
    <3> HIDE DEF j, wanted
    <3>5. BlockAt(cb)[j] = <<disk[cb.file][begin + j], begin + j>>
      <4>1. begin + j <= Size(cb.file) BY <2>1, <3>1, <3>2
      <4>2. QED BY <3>1, <3>4, <4>1, BlockIs DEF wanted
    <3>6. q.body[k] = BlockAt(cb)[j]
      <4> HIDE DEF q, begin
      <4>1. q.body[begin + j] = BlockAt(cb)[j] BY <1>1, <3>1
      <4>2. QED BY <3>1, <4>1
    <3>7. r.expect[k] = disk[cb.file][k] BY <3>2, <3>3
    <3> HIDE DEF q, a, begin
    <3>8. BlockAt(cb)[j] = <<disk[cb.file][k], k>> BY <3>1, <3>5
    <3>9. QED BY <3>6, <3>7, <3>8
  <2> HIDE DEF q, a, begin
  <2>4. QED BY <1>2, <2>1, <2>2, <2>3
<1> HIDE DEF q, a, begin
<1>6. Len(q.body) - q.announced <= Block BY <1>1, <1>2, <1>4
<1>7. QED BY <1>1, <1>5, <1>6 DEF Delivered, q, w, a

\* The last of c's responses is replaced by one like it, with another body
LEMMA LastReplaced ==
  ASSUME NEW s \in Seq(Responses), s # <<>>, NEW q \in Responses,
         NEW t, t = [s EXCEPT ![Len(s)] = q]
  PROVE  /\ t \in Seq(Responses) /\ t # <<>> /\ Len(t) = Len(s) /\ DOMAIN t = DOMAIN s
         /\ t[Len(s)] = q /\ \A i \in DOMAIN s : i # Len(s) => t[i] = s[i]
<1> DEFINE n == Len(s)
<1>1. n \in Nat /\ DOMAIN s = 1 .. n /\ s \in [1 .. n -> Responses] /\ n \in DOMAIN s
  BY LenProperties, LatestIn
<1> HIDE DEF n
<1>2. t = [s EXCEPT ![n] = q] BY DEF n
<1>3. /\ t \in [1 .. n -> Responses] /\ DOMAIN t = DOMAIN s
      /\ t[n] = q /\ \A i \in DOMAIN s : i # n => t[i] = s[i]
  BY <1>1, <1>2
<1>4. t \in Seq(Responses) /\ Len(t) = n BY <1>1, <1>3, FunctionIsSeq
<1>5. t # <<>> BY <1>1, <1>4, EmptySeq DEF n
<1>6. QED BY <1>3, <1>4, <1>5 DEF n

\* What is left of a callback after its block
After(l) ==
  IF LastBlock(l.cb) THEN [l EXCEPT !.cb = None, !.write = FALSE]
  ELSE [l EXCEPT !.cb.begin = l.cb.begin + Block, !.write = TRUE]

LEMMA AfterIs ==
  ASSUME NEW l \in Locals, l.cb \in CallBacks, CallBackOK(l.cb)
  PROVE  LET x == After(l) IN
         /\ x \in Locals /\ x.at = l.at /\ x.file = l.file
         /\ x.patient = l.patient /\ x.calm = l.calm
         /\ LastBlock(l.cb) => x.cb = None /\ ~x.write
         /\ ~LastBlock(l.cb) =>
              /\ x.cb # None /\ x.write /\ CallBackOK(x.cb)
              /\ x.cb.file = l.cb.file /\ x.cb.end = l.cb.end
              /\ x.cb.begin = l.cb.begin + Block
<1> DEFINE x == After(l)
           b == [l.cb EXCEPT !.begin = l.cb.begin + Block]
<1>1. /\ l.cb.begin \in Nat /\ l.cb.end \in Int /\ Block \in Nat \ {0} /\ IntRange \in Nat
  BY SizesAssumption DEF CallBacks
<1>2. CASE LastBlock(l.cb)
  <2>1. x = [l EXCEPT !.cb = None, !.write = FALSE] BY <1>2 DEF After
  <2> HIDE DEF x
  <2>2. /\ x \in Locals /\ x.at = l.at /\ x.file = l.file /\ x.cb = None /\ ~x.write
        /\ x.patient = l.patient /\ x.calm = l.calm
    BY <2>1 DEF Locals
  <2>3. QED BY <1>2, <2>2 DEF x
<1>3. CASE ~LastBlock(l.cb)
  <2>1. /\ b \in CallBacks /\ b.file = l.cb.file /\ b.end = l.cb.end
        /\ b.begin = l.cb.begin + Block
    BY <1>1 DEF CallBacks
  <2>2. x = [l EXCEPT !.cb = b, !.write = TRUE]
    <3>1. x = [l EXCEPT !.cb.begin = l.cb.begin + Block, !.write = TRUE]
      BY <1>3 DEF After
    <3> HIDE DEF x
    <3>2. QED BY <3>1
  <2> HIDE DEF x, b
  <2>3. b # None BY <2>1, NoneAssumption
  <2>4. /\ x \in Locals /\ x.at = l.at /\ x.file = l.file /\ x.cb = b /\ x.write
        /\ x.patient = l.patient /\ x.calm = l.calm
    BY <2>1, <2>2 DEF Locals
  <2>5. CallBackOK(b)
    <3>1. l.cb # None BY NoneAssumption
    <3>2. l.cb.begin % Block = 0 /\ l.cb.end \in -IntRange .. IntRange
      BY <3>1 DEF CallBackOK
    <3>3. b.begin < b.end BY <1>1, <1>3, <2>1 DEF LastBlock
    <3>4. b.begin % Block = 0 BY <1>1, <2>1, <3>2, ModStep
    <3>5. b.begin \in 0 .. IntRange BY <1>1, <2>1, <3>2, <3>3
    <3>6. QED BY <2>1, <3>2, <3>3, <3>4, <3>5 DEF CallBackOK
  <2>6. /\ x.cb # None /\ x.write /\ CallBackOK(x.cb) /\ x.cb.file = l.cb.file
        /\ x.cb.end = l.cb.end /\ x.cb.begin = l.cb.begin + Block
    BY <2>1, <2>3, <2>4, <2>5
  <2>7. QED BY <1>3, <2>4, <2>6 DEF x
<1>4. QED BY <1>2, <1>3

LEMMA SendFileKeeps ==
  ASSUME IInv, NEW c \in Connections, SendFile(c)
  PROVE  IInv'
<1> DEFINE l == conn[c]
           cb == l.cb
           s == responses[c]
           r == s[Len(s)]
           w == r.body \o BlockAt(cb)
           q == [r EXCEPT !.body = w]
           t == [s EXCEPT ![Len(s)] = q]
           x == After(l)
<1>1. /\ Typed /\ s \in Seq(Responses) /\ l \in Locals /\ ConnOK(disk, l, s)
      /\ RootOK /\ PageIsCurrent /\ l.at = "idle" /\ l.write
  BY ConnTyped DEF IInv, SendFile
<1>2. /\ ThreadOK(disk, l, s) /\ Pending(l, s) /\ ResponsesOK(disk, l.calm, s)
      /\ cb # None /\ s # <<>> /\ CallBackOK(cb)
  BY <1>1 DEF ConnOK, ThreadOK
<1>3. cb \in CallBacks BY <1>1, <1>2, CallBackKind
<1>4. /\ Len(s) \in DOMAIN s /\ r \in Responses BY <1>1, <1>2, LatestIn
<1>5. r.body \in Seq(Units) BY <1>4 DEF Responses
<1>6. w \in Seq(Units) /\ Len(w) = Len(r.body) + Block
  <2> DEFINE b == r.body
  <2>1. b \in Seq(Units) BY <1>5
  <2> HIDE DEF b, cb
  <2>2. b \o BlockAt(cb) \in Seq(Units) /\ Len(b \o BlockAt(cb)) = Len(b) + Block
    BY <1>1, <1>3, <2>1, BlockSent
  <2>3. QED BY <2>2 DEF b
<1>7. conn' = [conn EXCEPT ![c] = x] BY DEF SendFile, After, Next1024
<1>8. responses' = [responses EXCEPT ![c] = t]
  <2>1. responses' = [responses EXCEPT ![c][Len(s)].body = @ \o BlockAt(cb)] BY DEF SendFile
  <2>2. QED BY <2>1
<1>9. UNCHANGED <<disk, list, overlapped, requests>> BY DEF SendFile
<1> HIDE DEF w
<1>10. /\ q \in Responses /\ q.kind = r.kind /\ q.file = r.file
       /\ q.announced = r.announced /\ q.expect = r.expect /\ q.touched = r.touched
       /\ q.page = r.page /\ q.due = r.due /\ q.body = w
  <2> HIDE DEF r
  <2>1. QED BY <1>4, <1>6, BodyIs
<1>11. /\ x \in Locals /\ x.at = l.at /\ x.file = l.file
       /\ x.patient = l.patient /\ x.calm = l.calm
       /\ LastBlock(cb) => x.cb = None /\ ~x.write
       /\ ~LastBlock(cb) =>
            /\ x.cb # None /\ x.write /\ CallBackOK(x.cb)
            /\ x.cb.file = cb.file /\ x.cb.end = cb.end
            /\ x.cb.begin = cb.begin + Block
  <2> HIDE DEF l
  <2>1. QED BY <1>1, <1>2, <1>3, AfterIs
<1>12. /\ t \in Seq(Responses) /\ t # <<>> /\ Len(t) = Len(s) /\ DOMAIN t = DOMAIN s
       /\ t[Len(s)] = q /\ \A i \in DOMAIN s : i # Len(s) => t[i] = s[i]
  <2> HIDE DEF q, s
  <2>1. QED BY <1>1, <1>2, <1>10, LastReplaced
<1>13. ASSUME l.calm
       PROVE  /\ r.kind = "file" /\ r.file = cb.file /\ cb.end = AsInt(r.announced)
              /\ Len(r.body) = cb.begin /\ (l.patient => r.announced > 0)
  BY <1>2, <1>13 DEF Pending
<1>14. l.calm => Delivered(q)
  <2> SUFFICES ASSUME l.calm PROVE Delivered(q) OBVIOUS
  <2>1. Remembered(disk, r) /\ Delivered(r) BY <1>2, <1>4 DEF ResponsesOK
  <2>2. q = [r EXCEPT !.body = r.body \o BlockAt(cb)] BY DEF w
  <2> HIDE DEF q, r, cb
  <2>3. QED BY <1>1, <1>2, <1>3, <1>4, <1>13, <2>1, <2>2, BlockDelivers
<1>15. Remembered(disk, q)
  <2>1. Remembered(disk, r) BY <1>2, <1>4 DEF ResponsesOK
  <2> HIDE DEF q, r
  <2>2. QED BY <1>10, <2>1 DEF Remembered
<1> HIDE DEF x, t, q
<1>16. ResponsesOK(disk, x.calm, t)
  <2> SUFFICES ASSUME NEW i \in DOMAIN t
               PROVE  Remembered(disk, t[i]) /\ (x.calm => Delivered(t[i]))
    BY DEF ResponsesOK
  <2>1. CASE i = Len(s) BY <1>11, <1>12, <1>14, <1>15, <2>1
  <2>2. CASE i # Len(s)
    <3>1. i \in DOMAIN s /\ t[i] = s[i] BY <1>12, <2>2
    <3>2. Remembered(disk, s[i]) /\ (l.calm => Delivered(s[i]))
      BY <1>2, <3>1 DEF ResponsesOK
    <3>3. QED BY <1>11, <3>1, <3>2
  <2>3. QED BY <2>1, <2>2
<1>17. ThreadOK(disk, x, t)
  <2>1. x.at # "uploading" BY <1>1, <1>11
  <2>2. x.patient => x.calm BY <1>2, <1>11 DEF ThreadOK
  <2>3. CallBackOK(x.cb) /\ (x.write => x.cb # None) BY <1>11 DEF CallBackOK
  <2>4. QED BY <1>12, <2>1, <2>2, <2>3 DEF ThreadOK
<1>18. Pending(x, t)
  <2> SUFFICES ASSUME x.calm, x.cb # None PROVE Pending(x, t) BY DEF Pending
  <2>1. l.calm /\ ~LastBlock(cb) BY <1>11
  <2>2. /\ x.at = "idle" /\ t[Len(t)] = q /\ q.kind = "file" /\ q.file = x.cb.file
        /\ x.cb.end = AsInt(q.announced) /\ (x.patient => q.announced > 0)
    BY <1>1, <1>10, <1>11, <1>12, <1>13, <2>1
  <2>3. Len(q.body) = x.cb.begin BY <1>6, <1>10, <1>11, <1>13, <2>1
  <2>4. QED BY <2>2, <2>3 DEF Pending
<1>19. ConnOK(disk, x, t) BY <1>16, <1>17, <1>18 DEF ConnOK
<1>20. RootOK' BY <1>1, <1>7, <1>9, <1>11, OutsideRoot
<1>21. ~overlapped => \A i \in DOMAIN t : PageOK(t[i])
  <2> SUFFICES ASSUME ~overlapped, NEW i \in DOMAIN t PROVE PageOK(t[i]) OBVIOUS
  <2>1. \A j \in DOMAIN s : PageOK(s[j]) BY <1>1, PagesAre
  <2>2. PageOK(q) BY <1>4, <1>10, <2>1 DEF PageOK
  <2>3. QED BY <1>12, <2>1, <2>2
<1> HIDE DEF s, l
<1>22. /\ list' = Torn \/ list' \subseteq Files
       /\ overlapped' \in BOOLEAN /\ requests' \in 0 .. MaxRequests
  BY <1>1, <1>9 DEF Typed
<1>23. QED
  BY <1>7, <1>8, <1>9, <1>11, <1>12, <1>19, <1>20, <1>21, <1>22, StepOf

-----------------------------------------------------------------------------
(* The browser leaves, and every step *)

LEMMA LeaveKeeps ==
  ASSUME IInv, NEW c \in Connections, Leave(c)
  PROVE  IInv'
<1> DEFINE l == conn[c]
           s == responses[c]
           x == [l EXCEPT !.open = FALSE, !.cb = None, !.write = FALSE]
<1>1. /\ Typed /\ s \in Seq(Responses) /\ l \in Locals /\ ConnOK(disk, l, s)
      /\ RootOK /\ PageIsCurrent /\ l.at = "idle"
  BY ConnTyped DEF IInv, Leave
<1>2. conn' = [conn EXCEPT ![c] = x] /\ responses' = [responses EXCEPT ![c] = s]
  BY <1>1 DEF Leave, Typed
<1>3. UNCHANGED <<disk, list, overlapped, requests>> BY DEF Leave
<1>4. /\ x \in Locals /\ x.at = "idle" /\ x.cb = None /\ ~x.write
      /\ x.patient = l.patient /\ x.calm = l.calm
  <2> HIDE DEF l
  <2>1. QED BY <1>1 DEF Locals
<1> HIDE DEF x
<1>5. ConnOK(disk, x, s)
  <2>1. (x.patient => x.calm) /\ ResponsesOK(disk, x.calm, s)
    BY <1>1, <1>4 DEF ConnOK, ThreadOK
  <2> HIDE DEF s, l
  <2>2. QED BY <1>4, <2>1, NoCallBackOK
<1>6. RootOK' BY <1>1, <1>2, <1>3, <1>4, OutsideRoot
<1>7. ~overlapped => \A i \in DOMAIN s : PageOK(s[i]) BY <1>1, PagesAre
<1>8. /\ list' = Torn \/ list' \subseteq Files
      /\ overlapped' \in BOOLEAN /\ requests' \in 0 .. MaxRequests
  BY <1>1, <1>3 DEF Typed
<1> HIDE DEF s, l
<1>9. QED BY <1>1, <1>2, <1>3, <1>4, <1>5, <1>6, <1>7, <1>8, StepOf

LEMMA InitOK == Init => IInv
<1> SUFFICES ASSUME Init PROVE IInv OBVIOUS
<1>1. disk \in [DOMAIN Initially -> Data] /\ DOMAIN disk = DOMAIN Initially
  <2>1. \A f \in DOMAIN Initially : Initially[f] \in Nat BY SizesAssumption
  <2>2. 0 \in 0 .. MaxRequests BY SizesAssumption
  <2>3. \A f \in DOMAIN Initially : Contents(Initially[f], 0) \in Data
    BY <2>1, <2>2, ContentsType
  <2>4. QED BY <2>3 DEF Init
<1>2. Idle \in Locals
  <2>1. <<>> \in Data /\ {} \in SUBSET Files BY EmptyData
  <2>2. QED BY <2>1 DEF Idle, Locals, Steps
<1>3. conn \in [Connections -> Locals] /\ \A c \in Connections : conn[c] = Idle
  BY <1>2 DEF Init
<1>4. /\ responses \in [Connections -> Seq(Responses)]
      /\ \A c \in Connections : responses[c] = <<>> /\ DOMAIN responses[c] = {}
  <2>1. <<>> \in Seq(Responses) /\ DOMAIN <<>> = {} BY EmptySeq, LenProperties
  <2>2. QED BY <2>1 DEF Init
<1>5. Typed
  <2>1. DOMAIN disk \subseteq Files /\ disk \in [DOMAIN disk -> Data]
    BY <1>1, SizesAssumption
  <2>2. list \subseteq Files /\ overlapped \in BOOLEAN /\ requests \in 0 .. MaxRequests
    <3>1. 0 \in 0 .. MaxRequests BY SizesAssumption
    <3>2. DOMAIN Initially \subseteq Files BY SizesAssumption
    <3>3. QED BY <3>1, <3>2 DEF Init
  <2>3. QED BY <1>3, <1>4, <2>1, <2>2 DEF Typed
<1>6. Idle.at = "idle" /\ Idle.cb = None /\ ~Idle.write /\ (Idle.patient => Idle.calm)
  BY DEF Idle
<1>7. \A c \in Connections : ConnOK(disk, conn[c], responses[c])
  <2> SUFFICES ASSUME NEW c \in Connections PROVE ConnOK(disk, conn[c], responses[c])
    OBVIOUS
  <2> DEFINE x == conn[c]
  <2>1. /\ x \in Locals /\ x.at = "idle" /\ x.cb = None /\ ~x.write
        /\ x.patient => x.calm
    BY <1>2, <1>3, <1>6
  <2>2. ResponsesOK(disk, x.calm, responses[c]) BY <1>4 DEF ResponsesOK
  <2> HIDE DEF x
  <2>3. ConnOK(disk, x, responses[c]) BY <2>1, <2>2, NoCallBackOK
  <2>4. QED BY <2>3 DEF x
<1>8. RootOK BY <1>3, <1>6 DEF RootOK, InRoot
<1>9. PageIsCurrent BY <1>4 DEF PageIsCurrent
<1>10. QED BY <1>5, <1>7, <1>8, <1>9 DEF IInv

\* Every step keeps the invariant
LEMMA StepOK == IInv /\ [Next]_vars => IInv'
<1> SUFFICES ASSUME IInv, [Next]_vars PROVE IInv' OBVIOUS
<1>1. ASSUME NEW c \in Connections, NEW f \in Files, Download(c, f) PROVE IInv'
  BY <1>1, DownloadKeeps
<1>2. ASSUME NEW c \in Connections, NEW f \in Files, UploadOpen(c, f) PROVE IInv'
  BY <1>2, UploadOpenKeeps
<1>3. ASSUME NEW c \in Connections, UploadWrite(c) PROVE IInv'
  BY <1>3, UploadWriteKeeps
<1>4. ASSUME NEW c \in Connections, RootScan(c) PROVE IInv' BY <1>4, RootScanKeeps
<1>5. ASSUME NEW c \in Connections, RootList(c) PROVE IInv' BY <1>5, RootListKeeps
<1>6. ASSUME NEW c \in Connections, RootPage(c) PROVE IInv' BY <1>6, RootPageKeeps
<1>7. ASSUME NEW c \in Connections, SendFile(c) PROVE IInv' BY <1>7, SendFileKeeps
<1>8. ASSUME NEW c \in Connections, Leave(c) PROVE IInv' BY <1>8, LeaveKeeps
<1>9. CASE UNCHANGED vars
  BY <1>9 DEF vars, IInv, Typed, RootOK, InRoot, PageIsCurrent
<1>10. QED
  BY <1>1, <1>2, <1>3, <1>4, <1>5, <1>6, <1>7, <1>8, <1>9 DEF Next, Handler

-----------------------------------------------------------------------------
(* The theorems *)

\* The callback of a connection is where the response it belongs to has got,
\* whatever requests, uploads and pages come between the write events.
THEOREM Inductive == Spec => []IInv
<1>1. QED BY InitOK, StepOK, PTL DEF Spec

\* What the invariant says of types is what the run checks, for any size of a
\* block and any range of an int: the parameters of SendFile fit the latter.
THEOREM Typing == Spec => []TypeOK
<1>1. IInv => TypeOK
  <2> SUFFICES ASSUME IInv PROVE TypeOK OBVIOUS
  <2>1. Typed BY DEF IInv
  <2>2. \A f \in DOMAIN disk : disk[f] \in Seq(0 .. MaxRequests) BY <2>1 DEF Typed, Data
  <2>3. ASSUME NEW c \in Connections
        PROVE  /\ conn[c].at \in Steps
               /\ conn[c].cb = None \/ /\ conn[c].cb.begin \in 0 .. IntRange
                                       /\ conn[c].cb.end \in -IntRange .. IntRange
                                       /\ conn[c].cb.begin % Block = 0
               /\ conn[c].write => conn[c].cb # None
    <3>1. conn[c] \in Locals BY <2>1, ConnTyped
    <3>2. ThreadOK(disk, conn[c], responses[c]) BY DEF IInv, ConnOK
    <3>3. conn[c].at \in Steps BY <3>1 DEF Locals
    <3>4. QED BY <3>2, <3>3 DEF ThreadOK, CallBackOK
  <2>4. QED BY <2>1, <2>2, <2>3 DEF TypeOK, Typed
<1>2. QED BY <1>1, Inductive, PTL

\* A browser that waits for its answers never has a request handled while a
\* file is still to be sent: its download is not replaced by another
\* (DownloadRouter::forward sets the connection's only write callback).
THEOREM NeverOverlaps == Spec => []NoOverlap
<1>1. IInv => NoOverlap BY DEF IInv, ConnOK, ThreadOK, NoOverlap
<1>2. QED BY <1>1, Inductive, PTL

\* On a connection whose callback no request has replaced, what SendFile puts
\* behind the headers is the file as it was announced, in order and without a
\* gap, unless an upload changed it since; at most a block goes beyond its end.
THEOREM FilesDelivered == Spec => []FileDelivered
<1>1. IInv => FileDelivered
  <2> SUFFICES ASSUME IInv, NEW c \in Connections, NEW i \in DOMAIN responses[c],
                      conn[c].calm
               PROVE  responses[c][i].kind = "file" => Delivered(responses[c][i])
    BY DEF FileDelivered, Delivered
  <2>1. QED BY DEF IInv, ConnOK, ResponsesOK
<1>2. QED BY <1>1, Inductive, PTL

\* As long as no two threads are in RootRouter::forward together, each page
\* lists every file whose upload was over when the page was asked for.
THEOREM PagesCurrent == Spec => []PageIsCurrent
<1>1. IInv => PageIsCurrent BY DEF IInv
<1>2. QED BY <1>1, Inductive, PTL
=============================================================================
