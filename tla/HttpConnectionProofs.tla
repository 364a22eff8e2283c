-------------------------- MODULE HttpConnectionProofs --------------------------
(***************************************************************************)
(* Theorems about HttpConnection, for every number of requests, every      *)
(* length of a body, every table of routes and every segmentation.         *)
(*                                                                         *)
(* IInv says where in the stream of all requests the parser is: content,   *)
(* buffer and wire together are what is left of it.  A step of the loop of *)
(* parseRequest keeps that, so the loop does, by induction over what it    *)
(* has still to read; LoopDefined shows first that its recursion defines a *)
(* function.  HttpsConnectionProofs imports the theorems.                  *)
(***************************************************************************)
EXTENDS HttpConnection, SequenceTheorems, WellFoundedInduction, TLAPS

-----------------------------------------------------------------------------
(* Induction over naturals, and recursion along a measure *)

(* A non-empty set of naturals has a least element: the form of induction   *)
(* that the proofs below use.                                               *)
LEMMA LeastNat ==
  ASSUME NEW T \in SUBSET Nat, T # {}
  PROVE  \E x \in T : \A y \in T : x <= y
<1> DEFINE R == {ss \in Nat \X Nat : ss[1] < ss[2]}
<1>1. IsWellFoundedOn(R, Nat)
  BY NatLessThanWellFounded DEF OpToRel
<1>2. \A x, y \in Nat : y < x => <<y, x>> \in R
  OBVIOUS
<1> HIDE DEF R
<1>3. PICK x \in T : \A y \in T : ~ (<<y, x>> \in R)
  BY <1>1, WFMin
<1>4. ASSUME NEW y \in T PROVE x <= y
  <2>1. x \in Nat /\ y \in Nat OBVIOUS
  <2>2. ~ (<<y, x>> \in R) BY <1>3
  <2>3. ~ (y < x) BY <1>2, <2>1, <2>2
  <2>4. QED BY <2>1, <2>3
<1>5. QED BY <1>4

(* Induction over a set of naturals, which a proof defines as it needs it.  *)
LEMMA SetInduction ==
  ASSUME NEW S, 0 \in S, \A n \in Nat : n \in S => n + 1 \in S
  PROVE  Nat \subseteq S
<1>1. SUFFICES ASSUME Nat \ S # {} PROVE FALSE
  OBVIOUS
<1>2. PICK x \in Nat \ S : \A y \in Nat \ S : x <= y
  BY LeastNat, <1>1
<1>3. x # 0 OBVIOUS
<1>4. x - 1 \in Nat /\ x - 1 \in S
  BY <1>2, <1>3
<1>5. QED BY <1>2, <1>4

(* g follows the rule D wherever the measure m is below n.                  *)
Follows(g, n, S, m, D) == \A p \in S : m[p] < n => g[p] = D[p][g]

(* The value of the rule at p depends on smaller arguments only.            *)
Descends(S, V, m, D) ==
  \A p \in S : \A g, h \in [S -> V] :
    (\A q \in S : m[q] < m[p] => g[q] = h[q]) => D[p][g] = D[p][h]

\* Two functions that follow the rule agree, as far as both follow it.
LEMMA RecursionUnique ==
  ASSUME NEW S, NEW V, NEW m \in [S -> Nat], NEW D, Descends(S, V, m, D),
         NEW g \in [S -> V], NEW h \in [S -> V], NEW n \in Nat, NEW k \in Nat,
         Follows(g, n, S, m, D), Follows(h, k, S, m, D),
         NEW p \in S, m[p] < n, m[p] < k
  PROVE  g[p] = h[p]
<1> DEFINE T == {i \in Nat : \E q \in S : m[q] = i /\ i < n /\ i < k /\ g[q] # h[q]}
<1>1. SUFFICES ASSUME T # {} PROVE FALSE OBVIOUS
<1>2. PICK i \in T : \A j \in T : i <= j
  <2> HIDE DEF T
  <2>1. T \in SUBSET Nat BY DEF T
  <2>2. QED BY <1>1, <2>1, LeastNat
<1>3. PICK q \in S : m[q] = i /\ i < n /\ i < k /\ g[q] # h[q] BY <1>2
<1>4. ASSUME NEW r \in S, m[r] < m[q] PROVE g[r] = h[r]
  BY <1>2, <1>3, <1>4
<1>5. D[q][g] = D[q][h] BY <1>4 DEF Descends
<1>6. g[q] = D[q][g] /\ h[q] = D[q][h] BY <1>3 DEF Follows
<1>7. QED BY <1>3, <1>5, <1>6

\* There is a function that follows the rule up to any bound.
LEMMA RecursionReaches ==
  ASSUME NEW S, NEW V, V # {}, NEW m \in [S -> Nat], NEW D \in [S -> [[S -> V] -> V]],
         Descends(S, V, m, D), NEW n \in Nat
  PROVE  \E g \in [S -> V] : Follows(g, n, S, m, D)
<1> DEFINE N == {k \in Nat : \E g \in [S -> V] : Follows(g, k, S, m, D)}
<1>1. 0 \in N
  <2>1. PICK v : v \in V OBVIOUS
  <2> DEFINE g == [p \in S |-> v]
  <2>2. g \in [S -> V] BY <2>1
  <2>3. \A p \in S : ~ (m[p] < 0) OBVIOUS
  <2>4. Follows(g, 0, S, m, D) BY <2>3 DEF Follows
  <2> HIDE DEF g
  <2>5. QED BY <2>2, <2>4
<1>2. ASSUME NEW k \in Nat, k \in N PROVE k + 1 \in N
  <2>1. PICK g \in [S -> V] : Follows(g, k, S, m, D) BY <1>2
  <2> DEFINE h == [p \in S |-> D[p][g]]
  <2>2. h \in [S -> V] OBVIOUS
  <2>3. ASSUME NEW p \in S, m[p] < k + 1 PROVE h[p] = D[p][h]
    <3>1. ASSUME NEW q \in S, m[q] < m[p] PROVE g[q] = h[q]
      <4>1. m[q] \in Nat /\ m[p] \in Nat OBVIOUS
      <4>2. m[q] < k BY <2>3, <3>1, <4>1
      <4>3. QED BY <2>1, <4>2 DEF Follows
    <3>2. D[p][g] = D[p][h] BY <2>2, <3>1 DEF Descends
    <3>3. QED BY <3>2
  <2>4. Follows(h, k + 1, S, m, D) BY <2>3 DEF Follows
  <2> HIDE DEF h
  <2>5. QED BY <2>2, <2>4
<1>3. Nat \subseteq N
  <2> HIDE DEF N
  <2>1. QED BY <1>1, <1>2, SetInduction
<1>4. QED BY <1>3

Solves(f, S, D) == \A p \in S : f[p] = D[p][f]

(* A definition whose recursion goes down a measure defines a function.     *)
LEMMA RecursionExists ==
  ASSUME NEW S, NEW V, V # {}, NEW m \in [S -> Nat], NEW D \in [S -> [[S -> V] -> V]],
         Descends(S, V, m, D)
  PROVE  \E f \in [S -> V] : Solves(f, S, D)
<1> DEFINE G(n) == CHOOSE g \in [S -> V] : Follows(g, n, S, m, D)
           f    == [p \in S |-> G(m[p] + 1)[p]]
<1>1. ASSUME NEW n \in Nat PROVE G(n) \in [S -> V] /\ Follows(G(n), n, S, m, D)
  <2>1. \E g \in [S -> V] : Follows(g, n, S, m, D) BY RecursionReaches
  <2>2. QED BY <2>1, Zenon
<1> HIDE DEF G
<1>2. f \in [S -> V] BY <1>1
<1>3. ASSUME NEW p \in S PROVE f[p] = D[p][f]
  <2> DEFINE n == m[p] + 1
             g == G(n)
  <2>1. n \in Nat /\ m[p] \in Nat /\ m[p] < n OBVIOUS
  <2>2. g \in [S -> V] /\ Follows(g, n, S, m, D) BY <1>1, <2>1
  <2>3. ASSUME NEW q \in S, m[q] < m[p] PROVE g[q] = f[q]
    <3> DEFINE k == m[q] + 1
               h == G(k)
    <3>1. k \in Nat /\ m[q] \in Nat /\ m[q] < k /\ m[q] < n BY <2>1, <2>3
    <3>2. h \in [S -> V] /\ Follows(h, k, S, m, D) BY <1>1, <3>1
    <3>3. f[q] = h[q] OBVIOUS
    <3> HIDE DEF g, h, n, k, f
    <3>4. g[q] = h[q] BY <2>1, <2>2, <3>1, <3>2, RecursionUnique
    <3>5. QED BY <3>3, <3>4
  <2>4. f[p] = g[p] OBVIOUS
  <2> HIDE DEF g, n, f
  <2>5. D[p][g] = D[p][f] BY <1>2, <2>2, <2>3 DEF Descends
  <2>6. g[p] = D[p][g] BY <2>1, <2>2 DEF Follows
  <2>7. QED BY <2>4, <2>5, <2>6
<1>4. Solves(f, S, D)
  <2> HIDE DEF f
  <2>1. QED BY <1>3 DEF Solves
<1> HIDE DEF f
<1>5. QED BY <1>2, <1>4

-----------------------------------------------------------------------------
(* The loop of parseRequest *)

Measure(p) == 4 * Len(p.buffer) + (IF p.content.state = "ParseBody" THEN 2 ELSE 0)
                + (IF p.more THEN 1 ELSE 0)

\* The parts of the loop's state, and its measure
LEMMA ParsesType ==
  ASSUME NEW p \in Parses
  PROVE  /\ p.content \in Contents /\ p.buffer \in Seq(Pieces)
         /\ p.more \in BOOLEAN /\ p.ok \in BOOLEAN
         /\ Len(p.buffer) \in Nat /\ Measure(p) \in Nat
<1>1. p.content \in Contents /\ p.buffer \in Seq(Pieces) /\ p.more \in BOOLEAN /\ p.ok \in BOOLEAN
  BY DEF Parses
<1>3. Len(p.buffer) \in Nat BY <1>1, LenProperties
<1>4. Measure(p) \in Nat
  <2> DEFINE a == IF p.content.state = "ParseBody" THEN 2 ELSE 0
             b == IF p.more THEN 1 ELSE 0
  <2>1. a \in Nat /\ b \in Nat OBVIOUS
  <2>2. Measure(p) = 4 * Len(p.buffer) + a + b BY DEF Measure
  <2> HIDE DEF a, b
  <2>3. QED BY <1>3, <2>1, <2>2
<1>5. QED BY <1>1, <1>3, <1>4

\* The parts of a content; a body is only waited for when its length is known.
LEMMA ContentsType ==
  ASSUME NEW c \in Contents
  PROVE  /\ c.state \in States /\ c.line \in 0 .. MaxRequests /\ c.length \in Lengths
         /\ c.body \in Seq(Pieces)
         /\ c.state = "ParseBody" => c.length \in Nat
BY DEF Contents, Lengths

\* What a step of the loop does to the content and the buffer
LEMMA StallStep ==
  ASSUME NEW p \in Parses
  PROVE  /\ Stall(p) \in Parses /\ Stall(p).more = FALSE
         /\ Stall(p).content = p.content /\ Stall(p).buffer = p.buffer
BY DEF Stall, Parses

\* parseRequest looks at the first piece of the buffer.
LEMMA FirstPiece ==
  ASSUME NEW p \in Parses, First(p) # "nothing"
  PROVE  /\ p.buffer # <<>> /\ Len(p.buffer) >= 1
         /\ Head(p.buffer) \in Pieces /\ Head(p.buffer) = p.buffer[1]
         /\ First(p) = p.buffer[1].kind
         /\ Tail(p.buffer) \in Seq(Pieces) /\ Len(Tail(p.buffer)) = Len(p.buffer) - 1
         /\ \A j \in 1 .. Len(Tail(p.buffer)) : Tail(p.buffer)[j] = p.buffer[j + 1]
<1>1. p.buffer # <<>> BY DEF First
<1>2. p.buffer \in Seq(Pieces) BY ParsesType
<1>3. QED BY <1>1, <1>2, HeadTailProperties DEF First

\* The request line names the request and leaves the buffer.
LEMMA RequestLineStep ==
  ASSUME NEW p \in Parses, First(p) = "line"
  PROVE  LET q == ParseRequestLine(p) IN
         /\ q \in Parses /\ q.more = p.more /\ q.buffer = Tail(p.buffer)
         /\ q.content.state = "ParseHeader" /\ q.content.line = p.buffer[1].of
         /\ q.content.length = p.content.length /\ q.content.body = p.content.body
<1>1. p.buffer[1] \in Pieces /\ Tail(p.buffer) \in Seq(Pieces) /\ Head(p.buffer) = p.buffer[1]
  BY FirstPiece
<1>2. p.buffer[1].of \in 0 .. MaxRequests BY <1>1, MaxRequestsAssumption DEF Pieces
<1> DEFINE q == ParseRequestLine(p)
<1>3. /\ q.content.state = "ParseHeader" /\ q.content.line = p.buffer[1].of
      /\ q.content.length = p.content.length /\ q.content.body = p.content.body
      /\ q.buffer = Tail(p.buffer) /\ q.more = p.more
  BY <1>1 DEF ParseRequestLine, Parses, Contents
<1>4. q.content \in Contents BY <1>1, <1>2 DEF ParseRequestLine, Parses, Contents, States
<1>5. q \in Parses BY <1>4, <1>1, <1>2 DEF ParseRequestLine, Parses
<1>6. QED BY <1>3, <1>5

\* A header that is none of interest leaves the buffer.
LEMMA HeaderStep ==
  ASSUME NEW p \in Parses, First(p) = "header"
  PROVE  LET q == ParseHeader(p) IN
         /\ q \in Parses /\ q.more = p.more /\ q.buffer = Tail(p.buffer)
         /\ q.content = p.content
<1>1. Tail(p.buffer) \in Seq(Pieces)
  BY FirstPiece
<1>2. ParseHeader(p) = [p EXCEPT !.buffer = Tail(@)]
  BY DEF ParseHeader
<1>3. QED BY <1>1, <1>2 DEF Parses

\* A Content-Length is kept.
LEMMA LengthStep ==
  ASSUME NEW p \in Parses, First(p) = "length"
  PROVE  LET q == ParseHeader(p) IN
         /\ q \in Parses /\ q.more = p.more /\ q.buffer = Tail(p.buffer)
         /\ q.content.state = p.content.state /\ q.content.line = p.content.line
         /\ q.content.length = p.buffer[1].value /\ q.content.body = p.content.body
<1>1. p.buffer[1] \in Pieces /\ Tail(p.buffer) \in Seq(Pieces) /\ Head(p.buffer) = p.buffer[1]
  BY FirstPiece
<1>2. p.buffer[1].value \in Nat BY <1>1 DEF Pieces
<1> DEFINE q == [p EXCEPT !.content.length = p.buffer[1].value, !.buffer = Tail(@)]
<1>3. ParseHeader(p) = q BY <1>1 DEF ParseHeader
<1>4. /\ q.content.state = p.content.state /\ q.content.line = p.content.line
      /\ q.content.length = p.buffer[1].value /\ q.content.body = p.content.body
      /\ q.buffer = Tail(p.buffer) /\ q.more = p.more
  BY DEF Parses, Contents
<1>5. q.content \in Contents BY <1>2 DEF Parses, Contents, Lengths, NoLength
<1>6. q \in Parses BY <1>1, <1>5 DEF Parses
<1>7. QED BY <1>3, <1>4, <1>6

\* The blank line decides whether a body is waited for.
LEMMA BlankStep ==
  ASSUME NEW p \in Parses, First(p) = "blank"
  PROVE  LET q == ParseHeader(p) IN
         /\ q \in Parses /\ q.more = p.more /\ q.buffer = Tail(p.buffer)
         /\ q.content.state = (IF p.content.length # NoLength THEN "ParseBody" ELSE "Complete")
         /\ q.content.line = p.content.line
         /\ q.content.length = p.content.length /\ q.content.body = p.content.body
<1>1. Tail(p.buffer) \in Seq(Pieces)
  BY FirstPiece
<1> DEFINE q == EndHeaders(p)
<1>3. ParseHeader(p) = q BY DEF ParseHeader
<1>4. /\ q.content.state = (IF p.content.length # NoLength THEN "ParseBody" ELSE "Complete")
      /\ q.content.line = p.content.line
      /\ q.content.length = p.content.length /\ q.content.body = p.content.body
      /\ q.buffer = Tail(p.buffer) /\ q.more = p.more
  BY DEF EndHeaders, Parses, Contents
<1>5. q.content \in Contents BY DEF EndHeaders, Parses, Contents, States
<1>6. q \in Parses BY <1>1, <1>5 DEF EndHeaders, Parses
<1>7. QED BY <1>3, <1>4, <1>6

\* A body is taken whole, and nothing behind it.
LEMMA BodyStep ==
  ASSUME NEW p \in Parses, p.content.state = "ParseBody", Len(p.buffer) >= p.content.length
  PROVE  LET q == ParseBody(p) IN
         /\ q \in Parses /\ q.more = p.more
         /\ q.buffer = SubSeq(p.buffer, p.content.length + 1, Len(p.buffer))
         /\ q.content.state = "Complete" /\ q.content.line = p.content.line
         /\ q.content.body = SubSeq(p.buffer, 1, p.content.length)
<1>1. /\ p.buffer \in Seq(Pieces) /\ p.content.length \in Nat /\ Len(p.buffer) \in Nat
  BY ParsesType, ContentsType
<1>2. /\ SubSeq(p.buffer, 1, p.content.length) \in Seq(Pieces)
      /\ SubSeq(p.buffer, p.content.length + 1, Len(p.buffer)) \in Seq(Pieces)
  BY <1>1, SubSeqProperties
<1> DEFINE q == ParseBody(p)
<1>4. /\ q.content.state = "Complete" /\ q.content.line = p.content.line
      /\ q.content.body = SubSeq(p.buffer, 1, p.content.length)
      /\ q.buffer = SubSeq(p.buffer, p.content.length + 1, Len(p.buffer)) /\ q.more = p.more
  BY <1>1 DEF ParseBody, Parses, Contents
<1>5. q.content \in Contents BY <1>2 DEF ParseBody, Parses, Contents, States
<1>6. q \in Parses BY <1>2, <1>5 DEF ParseBody, Parses
<1>7. QED BY <1>4, <1>6

\* A step of the loop consumes pieces, goes on to the end of a request, or ends
\* the loop.
LEMMA StepDescends ==
  ASSUME NEW p \in Parses, p.more
  PROVE  ParseStep(p) \in Parses /\ Measure(ParseStep(p)) < Measure(p)
<1> DEFINE a(q) == IF q.content.state = "ParseBody" THEN 2 ELSE 0
           b(q) == IF q.more THEN 1 ELSE 0
           s    == ParseStep(p)
<1>1. \A q : Measure(q) = 4 * Len(q.buffer) + a(q) + b(q)
  BY DEF Measure
<1>2. \A q : a(q) \in {0, 2} /\ b(q) \in {0, 1}
  OBVIOUS
<1>3. Len(p.buffer) \in Nat /\ b(p) = 1 BY ParsesType
<1>4. SUFFICES ASSUME s \in Parses => Len(s.buffer) \in Nat
               PROVE  s \in Parses /\ Measure(s) < Measure(p)
  BY ParsesType
<1> HIDE DEF a, b
<1>5. ASSUME s \in Parses, Len(s.buffer) = Len(p.buffer) - 1 PROVE Measure(s) < Measure(p)
  BY <1>1, <1>2, <1>3, <1>4, <1>5
<1>6. ASSUME s \in Parses, Len(s.buffer) = Len(p.buffer), a(s) = a(p), b(s) = 0
      PROVE  Measure(s) < Measure(p)
  BY <1>1, <1>2, <1>3, <1>4, <1>6
<1>7. CASE s = Stall(p)
  <2>1. s \in Parses /\ s.buffer = p.buffer /\ s.content = p.content /\ s.more = FALSE
    BY <1>7, StallStep
  <2>2. QED BY <2>1, <1>6 DEF a, b
<1>8. p.content.state \in States BY ParsesType, ContentsType
<1>9. CASE s # Stall(p) /\ p.content.state = "ParseRequestLine"
  <2>1. s = ParseRequestLine(p) BY <1>9 DEF ParseStep
  <2>2. First(p) = "line" BY <1>9, <2>1 DEF ParseRequestLine
  <2> HIDE DEF s
  <2>3. s \in Parses /\ Len(s.buffer) = Len(p.buffer) - 1
    BY <2>1, <2>2, RequestLineStep, FirstPiece
  <2>4. QED BY <2>3, <1>5
<1>10. CASE s # Stall(p) /\ p.content.state = "ParseHeader"
  <2>1. s = ParseHeader(p) BY <1>10 DEF ParseStep
  <2>2. First(p) \in {"header", "length", "blank"} BY <1>10, <2>1 DEF ParseHeader
  <2> HIDE DEF s
  <2>3. s \in Parses /\ s.buffer = Tail(p.buffer)
    BY <2>1, <2>2, HeaderStep, LengthStep, BlankStep
  <2>4. QED BY <2>2, <2>3, <1>5, FirstPiece
<1>11. CASE s # Stall(p) /\ p.content.state = "ParseBody"
  <2>1. s = ParseBody(p) BY <1>11 DEF ParseStep
  <2>2. Len(p.buffer) >= p.content.length BY <1>11, <2>1 DEF ParseBody
  <2> HIDE DEF s
  <2>3. s \in Parses /\ s.more = p.more /\ s.content.state = "Complete"
        /\ s.buffer = SubSeq(p.buffer, p.content.length + 1, Len(p.buffer))
    BY <1>11, <2>1, <2>2, BodyStep
  <2>4. p.content.length \in Nat /\ p.buffer \in Seq(Pieces)
    BY <1>11, ParsesType, ContentsType
  <2> DEFINE l == p.content.length
             u == p.buffer
             v == SubSeq(u, l + 1, Len(u))
  <2>5. Len(s.buffer) = Len(p.buffer) - p.content.length
    <3>1. u \in Seq(Pieces) /\ l \in Nat /\ l <= Len(u) /\ Len(u) \in Nat /\ s.buffer = v
      BY <2>2, <2>3, <2>4, <1>3
    <3> HIDE DEF u, l
    <3>2. Len(v) = Len(u) - l BY <3>1, SubSeqProperties
    <3>3. QED BY <3>1, <3>2 DEF u, l
  <2>6. a(s) = 0 /\ a(p) = 2 /\ b(s) = 1 BY <1>11, <2>3, <1>3 DEF a, b
  <2>7. Measure(p) = 4 * Len(p.buffer) + 2 + 1 /\ Measure(s) = 4 * Len(s.buffer) + 1
    BY <1>1, <1>3, <2>6
  <2>8. Len(s.buffer) <= Len(p.buffer) /\ Len(s.buffer) \in Nat
    BY <1>3, <1>4, <2>3, <2>4, <2>5
  <2> DEFINE m == Len(p.buffer)
             n == Len(s.buffer)
  <2>9. n \in Nat /\ m \in Nat /\ n <= m BY <2>8, <1>3
  <2> HIDE DEF m, n
  <2>10. 4 * n + 1 < 4 * m + 2 + 1 BY <2>9
  <2>11. Measure(s) < Measure(p) BY <2>7, <2>10 DEF m, n
  <2>12. QED BY <2>3, <2>11
<1>12. CASE s # Stall(p) /\ p.content.state = "Complete"
  <2>1. s = [p EXCEPT !.more = FALSE, !.ok = TRUE] BY <1>12 DEF ParseStep
  <2>2. s \in Parses /\ s.buffer = p.buffer /\ s.content = p.content /\ s.more = FALSE
    BY <2>1 DEF Parses
  <2>3. QED BY <2>2, <1>6 DEF a, b
<1>13. QED BY <1>7, <1>8, <1>9, <1>10, <1>11, <1>12 DEF States

LoopRule(g) == [p \in Parses |-> IF p.more THEN g[ParseStep(p)] ELSE p]

\* The recursion of parseRequest defines a function.
LEMMA LoopDefined ==
  ParseLoop = LoopRule(ParseLoop)
<1> DEFINE m == [p \in Parses |-> Measure(p)]
           D == [p \in Parses |-> [g \in [Parses -> Parses] |->
                   IF p.more THEN g[ParseStep(p)] ELSE p]]
<1>1. m \in [Parses -> Nat] BY ParsesType
<1>2. D \in [Parses -> [[Parses -> Parses] -> Parses]] BY StepDescends
<1>3. Descends(Parses, Parses, m, D)
  <2>1. ASSUME NEW p \in Parses, NEW g \in [Parses -> Parses], NEW h \in [Parses -> Parses],
               \A q \in Parses : m[q] < m[p] => g[q] = h[q]
        PROVE  D[p][g] = D[p][h]
    <3>1. CASE p.more
      <4>1. g[ParseStep(p)] = h[ParseStep(p)] BY <2>1, <3>1, StepDescends
      <4>2. QED BY <3>1, <4>1
    <3>2. CASE ~p.more BY <3>2
    <3>3. QED BY <3>1, <3>2
  <2> HIDE DEF m, D
  <2>2. QED BY <2>1 DEF Descends
<1>4. Parses # {}
  <2>1. Fresh \in Contents /\ <<>> \in Seq(Pieces)
    BY MaxRequestsAssumption DEF Fresh, Contents, States, Lengths
  <2>2. [content |-> Fresh, buffer |-> <<>>, more |-> TRUE, ok |-> TRUE] \in Parses
    BY <2>1 DEF Parses
  <2>3. QED BY <2>2
<1>5. PICK f \in [Parses -> Parses] : Solves(f, Parses, D)
  <2> HIDE DEF m, D
  <2>1. QED BY <1>1, <1>2, <1>3, <1>4, RecursionExists
<1>6. \A p \in Parses : f[p] = IF p.more THEN f[ParseStep(p)] ELSE p
  BY <1>5 DEF Solves
<1>7. f = LoopRule(f) BY <1>6 DEF LoopRule
<1>8. \E g : g = LoopRule(g) BY <1>7
<1>9. ParseLoop = CHOOSE g : g = LoopRule(g) BY Zenon DEF ParseLoop, LoopRule
<1>10. QED BY <1>8, <1>9, Zenon

\* What every step of the loop keeps, the loop keeps, and it ends.
LEMMA LoopInduction ==
  ASSUME NEW I \in SUBSET Parses, \A p \in I : p.more => ParseStep(p) \in I
  PROVE  \A p \in I : ParseLoop[p] \in I /\ ~ParseLoop[p].more
<1> DEFINE Ends(p) == ParseLoop[p] \in I /\ ~ParseLoop[p].more
           N == {n \in Nat : \A p \in I : Measure(p) < n => Ends(p)}
<1>1. \A p \in Parses : ParseLoop[p] = IF p.more THEN ParseLoop[ParseStep(p)] ELSE p
  BY LoopDefined, Zenon DEF LoopRule
<1>2. 0 \in N
  BY ParsesType
<1>3. ASSUME NEW n \in Nat, n \in N PROVE n + 1 \in N
  <2>1. SUFFICES ASSUME NEW p \in I, Measure(p) < n + 1 PROVE Ends(p)
    OBVIOUS
  <2>2. CASE p.more
    <3>1. ParseStep(p) \in I /\ Measure(ParseStep(p)) < Measure(p)
      BY <2>2, StepDescends
    <3>2. Measure(p) \in Nat /\ Measure(ParseStep(p)) \in Nat BY <3>1, ParsesType
    <3>3. Measure(ParseStep(p)) < n BY <2>1, <3>1, <3>2
    <3>4. Ends(ParseStep(p)) BY <1>3, <3>1, <3>3
    <3>5. QED BY <1>1, <2>2, <3>4
  <2>3. CASE ~p.more
    BY <1>1, <2>3
  <2>4. QED BY <2>2, <2>3
<1>4. Nat \subseteq N
  <2> HIDE DEF N
  <2>1. QED BY <1>2, <1>3, SetInduction
<1>5. ASSUME NEW p \in I PROVE Ends(p)
  <2>1. Measure(p) \in Nat BY ParsesType
  <2>2. Measure(p) + 1 \in N BY <2>1, <1>4
  <2> HIDE DEF Ends
  <2>3. QED BY <2>1, <2>2
<1>6. QED BY <1>5

\* parseRequest returns false only before a request is complete.
LEMMA CompleteIsOk ==
  ASSUME NEW c \in Contents, NEW b \in Seq(Pieces)
  PROVE  LET p == ParseRequest(c, b) IN
         p \in Parses /\ (p.content.state = "Complete" => p.ok)
<1> DEFINE I == {p \in Parses : (p.more \/ p.content.state = "Complete") => p.ok}
           p == [content |-> c, buffer |-> b, more |-> TRUE, ok |-> TRUE]
<1>1. p \in I BY DEF Parses
<1>2. I \in SUBSET Parses OBVIOUS
<1>3. ASSUME NEW q \in I, q.more PROVE ParseStep(q) \in I
  <2> DEFINE t == ParseStep(q)
  <2>1. q \in Parses /\ q.ok /\ t \in Parses /\ q.content.state \in States
    BY <1>3, StepDescends, ParsesType, ContentsType
  <2>2. CASE t = Stall(q) /\ q.content.state # "Complete"
    BY <2>1, <2>2, StallStep
  <2>3. CASE q.content.state = "Complete"
    <3>1. t = [q EXCEPT !.more = FALSE, !.ok = TRUE] BY <2>3 DEF ParseStep
    <3>2. t.ok BY <2>1, <3>1 DEF Parses
    <3>3. QED BY <2>1, <3>2
  <2>4. CASE t # Stall(q) /\ q.content.state # "Complete"
    <3>1. t.ok = q.ok
      BY <2>1, <2>4 DEF ParseStep, ParseRequestLine, ParseHeader, EndHeaders, ParseBody, Parses, States
    <3>2. QED BY <2>1, <3>1
  <2>5. QED BY <2>2, <2>3, <2>4
<1>4. ParseRequest(c, b) = ParseLoop[p] BY DEF ParseRequest
<1> HIDE DEF p
<1>5. ParseLoop[p] \in I
  <2> HIDE DEF I
  <2>1. QED BY <1>1, <1>2, <1>3, LoopInduction
<1>6. QED BY <1>4, <1>5

-----------------------------------------------------------------------------
(* The stream and how far it has been read *)

\* Pieces of a request that come before its body
HeadLength(request) == IF request.length = NoLength THEN 3 ELSE 4

\* The pieces of a request, one by one
LEMMA Encoding ==
  ASSUME NEW q \in Requests, NEW r \in 1 .. MaxRequests
  PROVE  LET e == Encode(q, r) IN
         /\ e \in Seq(Pieces) /\ Len(e) \in Nat /\ Len(e) >= 3
         /\ e[1].kind \in {"line", "flawed"} /\ e[1].of = r
         /\ e[2].kind \in {"header", "flawed"}
         /\ q.length = NoLength => Len(e) = 3 /\ e[3].kind = "blank"
         /\ q.length # NoLength =>
              /\ q.length \in Nat /\ Len(e) = 4 + q.length /\ Len(e) >= 4
              /\ e[3].kind = "length" /\ e[3].value = q.length /\ e[4].kind = "blank"
              /\ \A y \in 1 .. q.length : e[4 + y] = Piece("byte", r, y)
<1> DEFINE a == << Piece(IF q.flaw = "line" THEN "flawed" ELSE "line", r, 0) >>
           b == << Piece(IF q.flaw = "header" THEN "flawed" ELSE "header", r, 0) >>
           c == IF q.length = NoLength THEN <<>> ELSE << Piece("length", r, q.length) >>
           d == << Piece("blank", r, 0) >>
           f == [y \in 1 .. q.length |-> Piece("byte", r, y)]
           h == HeadLength(q)
           n == IF q.length = NoLength THEN 0 ELSE q.length
<1>1. q.length \in {NoLength} \cup Nat
  BY RequestsAssumption DEF Lengths
<1>2. \A k \in {"line", "header", "length", "blank", "byte", "flawed"}, v \in Nat : Piece(k, r, v) \in Pieces
  BY DEF Piece, Pieces
<1>3. /\ a \in Seq(Pieces) /\ Len(a) = 1 /\ a[1].kind \in {"line", "flawed"} /\ a[1].of = r
  BY <1>2 DEF Piece
<1>4. /\ b \in Seq(Pieces) /\ Len(b) = 1 /\ b[1].kind \in {"header", "flawed"}
  BY <1>2 DEF Piece
<1>5. /\ c \in Seq(Pieces) /\ Len(c) = h - 3 /\ h \in {3, 4}
      /\ q.length # NoLength => c[1].kind = "length" /\ c[1].value = q.length
  <2>1. CASE q.length = NoLength
    BY <2>1 DEF HeadLength
  <2>2. CASE q.length # NoLength
    BY <1>1, <1>2, <2>2 DEF HeadLength, Piece
  <2>3. QED BY <2>1, <2>2
<1>6. /\ d \in Seq(Pieces) /\ Len(d) = 1 /\ d[1].kind = "blank"
  BY <1>2 DEF Piece
<1>7. /\ f \in Seq(Pieces) /\ Len(f) = n /\ \A y \in 1 .. q.length : f[y] = Piece("byte", r, y)
  <2>1. n \in Nat /\ 1 .. q.length = 1 .. n BY <1>1 DEF NoLength
  <2>2. \A y \in 1 .. n : Piece("byte", r, y) \in Pieces BY <1>2, <2>1
  <2>3. f = [y \in 1 .. n |-> Piece("byte", r, y)] BY <2>1
  <2> HIDE DEF f, n
  <2>4. f \in Seq(Pieces) /\ Len(f) = n BY <2>1, <2>2, <2>3
  <2>5. QED BY <2>1, <2>3, <2>4
<1>8. Encode(q, r) = a \o b \o c \o d \o f
  BY DEF Encode
<1> HIDE DEF a, b, c, d, f, h, n
<1> DEFINE ab == a \o b  abc == ab \o c  abcd == abc \o d  e == abcd \o f
<1>9. ab \in Seq(Pieces) /\ Len(ab) = 2 /\ ab[1] = a[1] /\ ab[2] = b[1]
  BY <1>3, <1>4, ConcatProperties
<1> HIDE DEF ab
<1>10. /\ abc \in Seq(Pieces) /\ Len(abc) = h - 1 /\ abc[1] = a[1] /\ abc[2] = b[1]
       /\ h = 4 => abc[3] = c[1]
  <2>1. /\ abc \in Seq(Pieces) /\ Len(abc) = Len(ab) + Len(c)
        /\ \A i \in 1 .. Len(ab) + Len(c) : abc[i] = IF i <= Len(ab) THEN ab[i] ELSE c[i - Len(ab)]
    BY <1>5, <1>9, ConcatProperties
  <2> HIDE DEF abc
  <2>2. Len(ab) + Len(c) = h - 1 /\ h \in {3, 4} BY <1>5, <1>9
  <2>3. abc[1] = ab[1] /\ abc[2] = ab[2] BY <2>1, <2>2, <1>9
  <2>4. h = 4 => abc[3] = c[1] BY <2>1, <2>2, <1>9
  <2>5. QED BY <1>9, <2>1, <2>2, <2>3, <2>4
<1> HIDE DEF abc
<1>11. /\ abcd \in Seq(Pieces) /\ Len(abcd) = h /\ abcd[1] = a[1] /\ abcd[2] = b[1]
       /\ h = 4 => abcd[3] = c[1]
       /\ abcd[h] = d[1]
  <2>1. /\ abcd \in Seq(Pieces) /\ Len(abcd) = Len(abc) + Len(d)
        /\ \A i \in 1 .. Len(abc) + Len(d) : abcd[i] = IF i <= Len(abc) THEN abc[i] ELSE d[i - Len(abc)]
    BY <1>6, <1>10, ConcatProperties
  <2> HIDE DEF abcd
  <2>2. Len(abc) = h - 1 /\ Len(d) = 1 /\ h \in {3, 4} BY <1>5, <1>6, <1>10
  <2>3. abcd[1] = abc[1] /\ abcd[2] = abc[2] BY <2>1, <2>2
  <2>4. h = 4 => abcd[3] = abc[3] BY <2>1, <2>2
  <2>5. abcd[h] = d[1] BY <2>1, <2>2
  <2>6. QED BY <1>10, <2>1, <2>2, <2>3, <2>4, <2>5
<1> HIDE DEF abcd
<1>12. n \in Nat /\ (q.length # NoLength => n = q.length) BY <1>1 DEF n
<1>13. /\ e \in Seq(Pieces) /\ Len(e) = h + n /\ e[1] = a[1] /\ e[2] = b[1]
       /\ h = 4 => e[3] = c[1]
       /\ e[h] = d[1]
       /\ \A y \in 1 .. n : e[h + y] = f[y]
  <2>1. /\ e \in Seq(Pieces) /\ Len(e) = Len(abcd) + Len(f)
        /\ \A i \in 1 .. Len(abcd) + Len(f) : e[i] = IF i <= Len(abcd) THEN abcd[i] ELSE f[i - Len(abcd)]
    BY <1>7, <1>11, ConcatProperties
  <2> HIDE DEF e
  <2>2. Len(abcd) = h /\ Len(f) = n /\ h \in {3, 4} /\ n \in Nat BY <1>5, <1>7, <1>11, <1>12
  <2>3. e[1] = abcd[1] /\ e[2] = abcd[2] /\ e[h] = abcd[h] BY <2>1, <2>2
  <2>4. h = 4 => e[3] = abcd[3] BY <2>1, <2>2
  <2>5. \A y \in 1 .. n : e[h + y] = f[y] BY <2>1, <2>2
  <2>6. QED BY <1>11, <2>1, <2>2, <2>3, <2>4, <2>5
<1>14. Encode(q, r) = e BY <1>8 DEF ab, abc, abcd
<1> HIDE DEF e
<1>15. n \in Nat /\ h \in {3, 4} /\ Len(e) \in Nat /\ Len(e) >= 3
  BY <1>5, <1>12, <1>13
<1>16. CASE q.length = NoLength
  <2>1. h = 3 /\ n = 0 BY <1>16 DEF h, n, HeadLength
  <2>2. Len(e) = 3 /\ e[3].kind = "blank" BY <1>6, <1>13, <2>1
  <2>3. QED BY <1>3, <1>4, <1>13, <1>14, <1>15, <1>16, <2>2
<1>17. CASE q.length # NoLength
  <2>1. h = 4 /\ n = q.length /\ q.length \in Nat BY <1>1, <1>17 DEF h, n, HeadLength
  <2>2. /\ Len(e) = 4 + q.length /\ Len(e) >= 4 /\ e[4].kind = "blank"
        /\ e[3].kind = "length" /\ e[3].value = q.length
    BY <1>5, <1>6, <1>13, <1>17, <2>1
  <2>3. \A y \in 1 .. q.length : e[4 + y] = Piece("byte", r, y)
    BY <1>7, <1>13, <2>1
  <2>4. QED BY <1>3, <1>4, <1>13, <1>14, <1>15, <1>17, <2>1, <2>2, <2>3
<1>18. QED BY <1>16, <1>17

\* X is all that the requests s have put on the wire; request i begins
\* after st[i] pieces.
Whole(X, s, st) ==
  /\ X \in Seq(Pieces) /\ st \in [1 .. Len(s) + 1 -> Nat]
  /\ st[1] = 0 /\ st[Len(s) + 1] = Len(X)
  /\ \A i \in 1 .. Len(s) :
       /\ st[i + 1] = st[i] + Len(Encode(s[i], i)) /\ st[i + 1] <= Len(X)
       /\ \A j \in 1 .. Len(Encode(s[i], i)) : X[st[i] + j] = Encode(s[i], i)[j]

\* The buffer b and then the wire w are what follows the first pos pieces.
Rest(b, w, X, pos) ==
  /\ pos \in Nat /\ pos + Len(b) + Len(w) = Len(X)
  /\ \A j \in 1 .. Len(b) : b[j] = X[pos + j]
  /\ \A j \in 1 .. Len(w) : w[j] = X[pos + Len(b) + j]

BodyOf(q, r) == [y \in 1 .. (IF q.length = NoLength THEN 0 ELSE q.length) |-> Piece("byte", r, y)]

\* What the content c holds after the first k pieces of request r.
HasRead(c, s, r, k) ==
  \/ k = 0 /\ c = Fresh
  \/ /\ r \in 1 .. Len(s) /\ c.line = r
     /\ \/ /\ k \in 1 .. 2 /\ c.state = "ParseHeader" /\ c.length = NoLength /\ c.body = <<>>
        \/ /\ k = 3 /\ c.state = "ParseHeader" /\ s[r].length # NoLength
           /\ c.length = s[r].length /\ c.body = <<>>
        \/ /\ k = 4 /\ c.state = "ParseBody" /\ s[r].length # NoLength
           /\ c.length = s[r].length /\ c.body = <<>>
        \/ /\ k = Len(Encode(s[r], r)) /\ c.state = "Complete" /\ c.body = BodyOf(s[r], r)

\* A piece leaves the buffer.
LEMMA RestTail ==
  ASSUME NEW b \in Seq(Pieces), NEW w \in Seq(Pieces), NEW X \in Seq(Pieces), NEW pos \in Nat,
         Rest(b, w, X, pos), b # <<>>
  PROVE  b[1] = X[pos + 1] /\ Rest(Tail(b), w, X, pos + 1)
<1>1. /\ Tail(b) \in Seq(Pieces) /\ Len(b) \in Nat /\ Len(Tail(b)) = Len(b) - 1 /\ Len(b) >= 1
      /\ \A j \in 1 .. Len(Tail(b)) : Tail(b)[j] = b[j + 1]
      /\ Len(w) \in Nat /\ Len(X) \in Nat
  BY HeadTailProperties, LenProperties, EmptySeq
<1> DEFINE t == Tail(b)
<1> HIDE DEF t
<1>2. b[1] = X[pos + 1] BY <1>1 DEF Rest
<1>3. (pos + 1) + Len(t) + Len(w) = Len(X) BY <1>1 DEF Rest, t
<1>4. ASSUME NEW j \in 1 .. Len(t) PROVE t[j] = X[(pos + 1) + j]
  <2>1. t[j] = b[j + 1] /\ j + 1 \in 1 .. Len(b) BY <1>1, <1>4 DEF t
  <2>2. b[j + 1] = X[pos + (j + 1)] BY <2>1 DEF Rest
  <2>3. pos + (j + 1) = (pos + 1) + j OBVIOUS
  <2>4. QED BY <2>1, <2>2, <2>3
<1>5. ASSUME NEW j \in 1 .. Len(w) PROVE w[j] = X[(pos + 1) + Len(t) + j]
  <2>1. (pos + 1) + Len(t) + j = pos + Len(b) + j BY <1>1 DEF t
  <2>2. QED BY <2>1 DEF Rest
<1>6. Rest(t, w, X, pos + 1)
  <2>1. pos + 1 \in Nat OBVIOUS
  <2>2. QED BY <1>3, <1>4, <1>5, <2>1 DEF Rest
<1>7. QED BY <1>2, <1>6 DEF t

\* The pieces of a body leave the buffer.
LEMMA RestDrop ==
  ASSUME NEW b \in Seq(Pieces), NEW w \in Seq(Pieces), NEW X \in Seq(Pieces), NEW pos \in Nat,
         Rest(b, w, X, pos), NEW l \in Nat, l <= Len(b)
  PROVE  /\ Rest(SubSeq(b, l + 1, Len(b)), w, X, pos + l)
         /\ SubSeq(b, 1, l) = [y \in 1 .. l |-> X[pos + y]]
<1> DEFINE t == SubSeq(b, l + 1, Len(b))
           u == SubSeq(b, 1, l)
<1>1. /\ Len(b) \in Nat /\ Len(w) \in Nat /\ Len(X) \in Nat
      /\ \A j \in 1 .. Len(b) : b[j] \in Pieces
  BY LenProperties, ElementOfSeq
<1>2. /\ t \in Seq(Pieces) /\ Len(t) = Len(b) - l
      /\ \A j \in 1 .. Len(t) : t[j] = b[l + j]
  <2>1. \A j \in (l + 1) .. Len(b) : b[j] \in Pieces BY <1>1
  <2>2. /\ t \in Seq(Pieces) /\ Len(t) = IF l + 1 <= Len(b) THEN Len(b) - (l + 1) + 1 ELSE 0
        /\ \A j \in 1 .. Len(b) - (l + 1) + 1 : t[j] = b[(l + 1) + j - 1]
    BY <2>1, <1>1, SubSeqProperties
  <2> HIDE DEF t
  <2>3. Len(t) = Len(b) - l BY <2>2, <1>1
  <2>4. \A j \in 1 .. Len(t) : (l + 1) + j - 1 = l + j BY <2>3, <1>1
  <2>5. Len(b) - (l + 1) + 1 = Len(t) BY <2>3, <1>1
  <2>6. QED BY <2>2, <2>3, <2>4, <2>5
<1>3. u \in Seq(Pieces) /\ Len(u) = l /\ \A j \in 1 .. l : u[j] = b[j]
  <2>1. \A j \in 1 .. l : b[j] \in Pieces BY <1>1
  <2>2. /\ u \in Seq(Pieces) /\ Len(u) = IF 1 <= l THEN l - 1 + 1 ELSE 0
        /\ \A j \in 1 .. l - 1 + 1 : u[j] = b[1 + j - 1]
    BY <2>1, <1>1, SubSeqProperties
  <2> HIDE DEF u
  <2>3. QED BY <2>2
<1> HIDE DEF t, u
<1>4. Rest(t, w, X, pos + l)
  <2> DEFINE n == Len(b)
             i == Len(w)
             x == Len(X)
             e == Len(t)
  <2>1. (pos + l) + Len(t) + Len(w) = Len(X)
    <3>1. n \in Nat /\ i \in Nat /\ x \in Nat /\ e = n - l /\ pos + n + i = x
      BY <1>1, <1>2 DEF Rest
    <3> HIDE DEF n, i, x, e
    <3>2. (pos + l) + e + i = x BY <3>1
    <3>3. QED BY <3>2 DEF n, i, x, e
  <2>2. ASSUME NEW j \in 1 .. Len(t) PROVE t[j] = X[(pos + l) + j]
    <3>1. t[j] = b[l + j] /\ l + j \in 1 .. Len(b) BY <1>1, <1>2
    <3>2. b[l + j] = X[pos + (l + j)] BY <3>1 DEF Rest
    <3>3. pos + (l + j) = (pos + l) + j OBVIOUS
    <3>4. QED BY <3>1, <3>2, <3>3
  <2>3. ASSUME NEW j \in 1 .. Len(w) PROVE w[j] = X[(pos + l) + Len(t) + j]
    <3>1. (pos + l) + Len(t) + j = pos + Len(b) + j BY <1>1, <1>2
    <3>2. QED BY <3>1 DEF Rest
  <2>4. pos + l \in Nat OBVIOUS
  <2>5. QED BY <2>1, <2>2, <2>3, <2>4 DEF Rest
<1>5. ASSUME NEW j \in 1 .. l PROVE u[j] = X[pos + j]
  <2>1. j \in 1 .. Len(b) BY <1>1
  <2>2. QED BY <1>3, <2>1 DEF Rest
<1>6. u = [y \in 1 .. Len(u) |-> u[y]] BY <1>3, LenProperties
<1>7. u = [y \in 1 .. l |-> X[pos + y]] BY <1>3, <1>5, <1>6
<1>8. QED BY <1>4, <1>7 DEF t, u

\* Sums, as the provers do not see them through an application
LEMMA SumAssoc == \A i, j, k \in Nat : (i + j) + k = i + (j + k)
OBVIOUS

\* The next piece in the buffer is the next one of the request being read.
LEMMA NextPiece ==
  ASSUME NEW s \in Seq(Requests), Len(s) <= MaxRequests, NEW X, NEW st, Whole(X, s, st),
         NEW w \in Seq(Pieces), NEW r \in 1 .. Len(s) + 1, NEW base \in Nat, base = st[r], NEW k \in Nat, NEW p \in Parses,
         HasRead(p.content, s, r, k), Rest(p.buffer, w, X, base + k),
         p.content.state \in {"ParseRequestLine", "ParseHeader"}, First(p) # "nothing"
  PROVE  /\ r \in 1 .. Len(s) /\ r \in 1 .. MaxRequests /\ s[r] \in Requests
         /\ p.buffer[1] = Encode(s[r], r)[k + 1] /\ First(p) = Encode(s[r], r)[k + 1].kind
         /\ Rest(Tail(p.buffer), w, X, base + (k + 1))
<1> DEFINE e == Encode(s[r], r)
<1>1. Len(s) \in Nat /\ base \in Nat /\ X \in Seq(Pieces) BY LenProperties DEF Whole
<1>2. p.buffer \in Seq(Pieces) /\ p.buffer # <<>> /\ Len(p.buffer) >= 1 /\ First(p) = p.buffer[1].kind
  BY ParsesType, FirstPiece
<1>3. p.buffer[1] = X[(base + k) + 1] /\ Rest(Tail(p.buffer), w, X, (base + k) + 1)
  <2> DEFINE pos == base + k
  <2>1. pos \in Nat BY <1>1
  <2> HIDE DEF pos
  <2>2. Rest(p.buffer, w, X, pos) BY DEF pos
  <2>3. p.buffer[1] = X[pos + 1] /\ Rest(Tail(p.buffer), w, X, pos + 1)
    BY <1>1, <1>2, <2>1, <2>2, RestTail
  <2>4. QED BY <2>3 DEF pos
<1>4. r \in 1 .. Len(s)
  <2>1. SUFFICES ASSUME r = Len(s) + 1 PROVE FALSE BY <1>1
  <2>2. k = 0 BY <1>1, <2>1 DEF HasRead
  <2>3. base = Len(X) BY <2>1 DEF Whole
  <2>4. Len(X) + 0 + Len(p.buffer) + Len(w) = Len(X) BY <2>2, <2>3 DEF Rest
  <2>5. Len(X) \in Nat /\ Len(w) \in Nat /\ Len(p.buffer) \in Nat BY <1>1, <1>2, LenProperties
  <2>6. QED BY <1>2, <2>4, <2>5
<1>5. r \in 1 .. MaxRequests /\ s[r] \in Requests
  BY <1>1, <1>4, ElementOfSeq, MaxRequestsAssumption
<1>6. /\ Len(e) \in Nat /\ Len(e) >= 3
      /\ s[r].length # NoLength => Len(e) >= 4
  BY <1>5, Encoding
<1>7. k + 1 \in 1 .. Len(e)
  <2>1. k = 0 \/ k \in 1 .. 2 \/ (k = 3 /\ s[r].length # NoLength)
    BY DEF HasRead
  <2> HIDE DEF e
  <2>2. QED BY <1>6, <2>1
<1>8. X[base + (k + 1)] = e[k + 1]
  BY <1>4, <1>7 DEF Whole
<1>9. (base + k) + 1 = base + (k + 1)
  <2>1. 1 \in Nat OBVIOUS
  <2>2. QED BY <2>1, SumAssoc, Zenon
<1>10. QED BY <1>2, <1>3, <1>4, <1>5, <1>8, <1>9

\* The set of parses that have read the first pieces of request r
ReadOf(s, r, w, X, base) ==
  {p \in Parses : \E k \in Nat : HasRead(p.content, s, r, k) /\ Rest(p.buffer, w, X, base + k)}

\* A step of the loop reads on in the request being read, and nowhere else.
LEMMA ReadStep ==
  ASSUME NEW s \in Seq(Requests), Len(s) <= MaxRequests, NEW X, NEW st, Whole(X, s, st),
         NEW w \in Seq(Pieces), NEW r \in 1 .. Len(s) + 1, NEW base \in Nat, base = st[r],
         NEW p \in ReadOf(s, r, w, X, base), p.more
  PROVE  ParseStep(p) \in ReadOf(s, r, w, X, base)
<1> DEFINE q == ParseStep(p)
           e == Encode(s[r], r)
<1>1. p \in Parses BY DEF ReadOf
<1> SUFFICES q \in ReadOf(s, r, w, X, base) OBVIOUS
<1>2. PICK k \in Nat : HasRead(p.content, s, r, k) /\ Rest(p.buffer, w, X, base + k)
  BY DEF ReadOf
<1>3. q \in Parses BY <1>1, StepDescends
<1>4. ASSUME q.content = p.content, q.buffer = p.buffer PROVE q \in ReadOf(s, r, w, X, base)
  BY <1>2, <1>3, <1>4 DEF ReadOf
<1>5. ASSUME NEW i \in Nat, HasRead(q.content, s, r, i), Rest(q.buffer, w, X, base + i)
      PROVE  q \in ReadOf(s, r, w, X, base)
  BY <1>3, <1>5 DEF ReadOf
<1>6. CASE q = Stall(p)
  BY <1>1, <1>4, <1>6, StallStep
<1>7. p.content.state \in States BY <1>1, ParsesType, ContentsType
<1>8. CASE q # Stall(p) /\ p.content.state = "ParseRequestLine"
  <2>1. q = ParseRequestLine(p) /\ First(p) = "line"
    BY <1>8 DEF ParseStep, ParseRequestLine
  <2>2. k = 0 /\ p.content = Fresh BY <1>2, <1>8 DEF HasRead
  <2>3. /\ r \in 1 .. Len(s) /\ r \in 1 .. MaxRequests /\ s[r] \in Requests
        /\ p.buffer[1] = e[1] /\ Rest(Tail(p.buffer), w, X, base + 1)
    BY <1>1, <1>2, <1>8, <2>1, <2>2, NextPiece
  <2>4. e[1].of = r BY <2>3, Encoding
  <2> HIDE DEF q
  <2>5. /\ q.buffer = Tail(p.buffer) /\ q.content.state = "ParseHeader" /\ q.content.line = r
        /\ q.content.length = NoLength /\ q.content.body = <<>>
    BY <1>1, <2>1, <2>2, <2>3, <2>4, RequestLineStep DEF Fresh
  <2>6. HasRead(q.content, s, r, 1) BY <2>3, <2>5 DEF HasRead
  <2>7. QED BY <1>5, <2>3, <2>5, <2>6
<1>9. CASE q # Stall(p) /\ p.content.state = "ParseHeader"
  <2>1. q = ParseHeader(p) /\ First(p) \in {"header", "length", "blank"}
    BY <1>9 DEF ParseStep, ParseHeader
  <2>2. /\ p.content.line = r /\ p.content.body = <<>>
        /\ \/ k \in 1 .. 2 /\ p.content.length = NoLength
           \/ k = 3 /\ s[r].length # NoLength /\ p.content.length = s[r].length
    BY <1>2, <1>9 DEF HasRead, Fresh
  <2>3. /\ r \in 1 .. Len(s) /\ r \in 1 .. MaxRequests /\ s[r] \in Requests
        /\ p.buffer[1] = e[k + 1] /\ First(p) = e[k + 1].kind
        /\ Rest(Tail(p.buffer), w, X, base + (k + 1))
    BY SMTT(60), <1>1, <1>2, <1>9, <2>1, NextPiece
  <2>4. /\ e[2].kind \in {"header", "flawed"}
        /\ s[r].length # NoLength => e[3].kind = "length" /\ e[3].value = s[r].length /\ e[4].kind = "blank"
        /\ s[r].length = NoLength => e[3].kind = "blank" /\ Len(e) = 3
    <3>1. s[r].length = NoLength => e[3].kind = "blank" /\ Len(e) = 3 BY SMTT(60), <2>3, Encoding
    <3>2. s[r].length # NoLength => e[3].kind = "length" /\ e[3].value = s[r].length
      BY <2>3, Encoding
    <3>3. s[r].length # NoLength => e[4].kind = "blank" BY SMTT(60), <2>3, Encoding
    <3>4. e[2].kind \in {"header", "flawed"} BY <2>3, Encoding
    <3>5. QED BY <3>1, <3>2, <3>3, <3>4
  <2> HIDE DEF q, e
  <2> DEFINE kind == First(p)
             none == s[r].length = NoLength
  <2>9. /\ k \in {1, 2, 3} /\ (k = 3 => ~none)
        /\ k = 1 => kind \in {"header", "flawed"}
        /\ k = 2 => kind = (IF none THEN "blank" ELSE "length")
        /\ k = 2 /\ ~none => p.buffer[1].value = s[r].length
        /\ k = 3 => kind = "blank"
    <3>1. k \in {1, 2, 3} /\ (k = 3 => s[r].length # NoLength) BY <2>2
    <3>2. CASE k = 1
      <4>1. kind = e[2].kind BY <2>3, <3>2
      <4>2. QED BY <2>4, <3>2, <4>1
    <3>3. CASE k = 2
      <4>1. kind = e[3].kind /\ p.buffer[1] = e[3] BY <2>3, <3>3
      <4>2. QED BY <2>4, <3>3, <4>1
    <3>4. CASE k = 3
      <4>1. kind = e[4].kind BY <2>3, <3>4
      <4>2. QED BY <2>4, <3>1, <3>4, <4>1
    <3>5. QED BY <3>1, <3>2, <3>3, <3>4
  <2> HIDE DEF kind, none
  <2>5. CASE kind = "header"
    <3>1. k = 1 BY <2>9, <2>5
    <3>2. q.content = p.content /\ q.buffer = Tail(p.buffer) BY <1>1, <2>1, <2>5, HeaderStep DEF kind
    <3>3. HasRead(q.content, s, r, 2) BY <1>9, <2>2, <2>3, <3>1, <3>2 DEF HasRead
    <3>4. Rest(q.buffer, w, X, base + 2) BY <2>3, <3>1, <3>2
    <3>5. QED BY <1>5, <3>3, <3>4
  <2>6. CASE kind = "length"
    <3>1. k = 2 /\ s[r].length # NoLength /\ p.buffer[1].value = s[r].length
      <4>1. k = 2 /\ ~none BY <2>9, <2>6
      <4>2. QED BY <2>9, <4>1 DEF none
    <3>2. /\ q.buffer = Tail(p.buffer) /\ q.content.state = "ParseHeader" /\ q.content.line = r
          /\ q.content.length = s[r].length /\ q.content.body = <<>>
      BY <1>1, <1>9, <2>1, <2>2, <2>6, <3>1, LengthStep DEF kind
    <3>3. HasRead(q.content, s, r, 3) BY <2>3, <3>1, <3>2 DEF HasRead
    <3>4. Rest(q.buffer, w, X, base + 3) BY <2>3, <3>1, <3>2
    <3>5. QED BY <1>5, <3>3, <3>4
  <2>7. CASE kind = "blank"
    <3>1. /\ q.buffer = Tail(p.buffer) /\ q.content.line = r /\ q.content.body = <<>>
          /\ q.content.length = p.content.length
          /\ q.content.state = IF p.content.length # NoLength THEN "ParseBody" ELSE "Complete"
      BY <1>1, <2>1, <2>2, <2>7, BlankStep DEF kind
    <3>2. CASE none
      <4>1. k = 2 /\ p.content.length = NoLength
        <5>1. k = 2 BY <2>9, <2>7, <3>2
        <5>2. QED BY <2>2, <5>1
      <4>2. BodyOf(s[r], r) = <<>> BY <3>2 DEF BodyOf, none
      <4>3. Len(e) = 3 BY <2>4, <3>2 DEF none
      <4>4. HasRead(q.content, s, r, 3) BY <2>3, <3>1, <4>1, <4>2, <4>3 DEF HasRead, e
      <4>5. Rest(q.buffer, w, X, base + 3) BY <2>3, <3>1, <4>1
      <4>6. QED BY <1>5, <4>4, <4>5
    <3>3. CASE ~none
      <4>1. k = 3 BY <2>9, <2>7, <3>3
      <4>2. HasRead(q.content, s, r, 4) BY <2>2, <2>3, <3>1, <3>3, <4>1 DEF HasRead, none
      <4>3. Rest(q.buffer, w, X, base + 4) BY <2>3, <3>1, <4>1
      <4>4. QED BY <1>5, <4>2, <4>3
    <3>4. QED BY <3>2, <3>3
  <2>8. QED BY <2>1, <2>5, <2>6, <2>7 DEF kind
<1>10. CASE q # Stall(p) /\ p.content.state = "ParseBody"
  <2> DEFINE l == p.content.length
  <2>1. q = ParseBody(p) /\ Len(p.buffer) >= l BY <1>10 DEF ParseStep, ParseBody
  <2>2. /\ r \in 1 .. Len(s) /\ p.content.line = r /\ k = 4
        /\ s[r].length # NoLength /\ l = s[r].length
    BY <1>2, <1>10 DEF HasRead, Fresh
  <2>3. r \in 1 .. MaxRequests /\ s[r] \in Requests /\ X \in Seq(Pieces) /\ base \in Nat
    BY <2>2, LenProperties, ElementOfSeq, MaxRequestsAssumption DEF Whole
  <2>4. /\ l \in Nat /\ Len(e) = 4 + l /\ \A y \in 1 .. l : e[4 + y] = Piece("byte", r, y)
    BY SMTT(60), <2>2, <2>3, Encoding
  <2> HIDE DEF q, e
  <2>5. /\ q.buffer = SubSeq(p.buffer, l + 1, Len(p.buffer)) /\ q.content.state = "Complete"
        /\ q.content.line = r /\ q.content.body = SubSeq(p.buffer, 1, l)
    BY <1>1, <1>10, <2>1, <2>2, BodyStep
  <2> DEFINE pos == base + 4
  <2>6. pos \in Nat /\ p.buffer \in Seq(Pieces) /\ Rest(p.buffer, w, X, pos)
    BY <1>1, <1>2, <2>2, <2>3, ParsesType
  <2>7. /\ Rest(q.buffer, w, X, pos + l) /\ q.content.body = [y \in 1 .. l |-> X[pos + y]]
    <3> HIDE DEF pos, l
    <3>1. l \in Nat /\ l <= Len(p.buffer) BY <2>1, <2>4, <2>6, LenProperties
    <3> DEFINE b == p.buffer
    <3>2. b \in Seq(Pieces) /\ Rest(b, w, X, pos) /\ l <= Len(b) BY <2>6, <3>1
    <3>3. /\ q.buffer = SubSeq(b, l + 1, Len(b)) /\ q.content.body = SubSeq(b, 1, l)
      BY <2>5
    <3> HIDE DEF b
    <3>4. /\ Rest(SubSeq(b, l + 1, Len(b)), w, X, pos + l)
          /\ SubSeq(b, 1, l) = [y \in 1 .. l |-> X[pos + y]]
      BY <2>3, <2>6, <3>1, <3>2, RestDrop
    <3>5. QED BY <3>3, <3>4, Zenon
  <2>8. ASSUME NEW y \in 1 .. l PROVE X[pos + y] = Piece("byte", r, y)
    <3>1. 4 + y \in 1 .. Len(e) BY <2>4
    <3>2. X[base + (4 + y)] = e[4 + y] BY <2>2, <3>1 DEF Whole, e
    <3>3. base + (4 + y) = pos + y
      <4>1. 4 \in Nat /\ y \in Nat BY <2>4
      <4>2. QED BY <4>1, SumAssoc, Zenon
    <3>4. QED BY <2>4, <3>2, <3>3
  <2>9. q.content.body = BodyOf(s[r], r)
    <3>1. BodyOf(s[r], r) = [y \in 1 .. l |-> Piece("byte", r, y)] BY <2>2 DEF BodyOf
    <3> HIDE DEF pos, l
    <3>2. QED BY <2>7, <2>8, <3>1
  <2>10. HasRead(q.content, s, r, 4 + l)
    BY <2>2, <2>4, <2>5, <2>9 DEF HasRead, e
  <2>11. 4 + l \in Nat /\ pos + l = base + (4 + l)
    <3>1. 4 \in Nat /\ l \in Nat /\ 4 + l \in Nat BY <2>4
    <3>2. QED BY ZenonT(60), SMTT(60), <3>1, SumAssoc
  <2>12. QED BY <1>5, <2>7, <2>10, <2>11
<1>11. CASE q # Stall(p) /\ p.content.state = "Complete"
  <2>1. q = [p EXCEPT !.more = FALSE, !.ok = TRUE] BY <1>11 DEF ParseStep
  <2>2. q.buffer = p.buffer /\ q.content = p.content BY <1>1, <2>1 DEF Parses
  <2>3. QED BY <2>2, <1>4
<1>12. QED BY <1>6, <1>7, <1>8, <1>9, <1>10, <1>11 DEF States

\* So does the loop.
LEMMA ParseKeeps ==
  ASSUME NEW s \in Seq(Requests), Len(s) <= MaxRequests, NEW X, NEW st, Whole(X, s, st),
         NEW w \in Seq(Pieces), NEW r \in 1 .. Len(s) + 1, NEW base \in Nat, base = st[r],
         NEW c \in Contents, NEW b \in Seq(Pieces), NEW k \in Nat,
         HasRead(c, s, r, k), Rest(b, w, X, base + k)
  PROVE  ParseRequest(c, b) \in ReadOf(s, r, w, X, base)
<1> DEFINE p == [content |-> c, buffer |-> b, more |-> TRUE, ok |-> TRUE]
           I == ReadOf(s, r, w, X, base)
<1>1. p \in Parses BY DEF Parses
<1>2. p \in I BY <1>1 DEF ReadOf
<1>3. I \in SUBSET Parses BY DEF ReadOf
<1>4. \A q \in I : q.more => ParseStep(q) \in I BY ReadStep
<1>5. ParseRequest(c, b) = ParseLoop[p] BY DEF ParseRequest
<1> HIDE DEF p, I
<1>6. ParseLoop[p] \in I BY <1>2, <1>3, <1>4, LoopInduction
<1>7. QED BY <1>5, <1>6 DEF I

\* A read event moves pieces from the wire to the buffer.
LEMMA RestDeliver ==
  ASSUME NEW b \in Seq(Pieces), NEW w \in Seq(Pieces), NEW X \in Seq(Pieces), NEW pos \in Nat,
         Rest(b, w, X, pos), NEW n \in 0 .. Len(w)
  PROVE  /\ SubSeq(w, 1, n) \in Seq(Pieces) /\ SubSeq(w, n + 1, Len(w)) \in Seq(Pieces)
         /\ Rest(b \o SubSeq(w, 1, n), SubSeq(w, n + 1, Len(w)), X, pos)
<1> DEFINE u == SubSeq(w, 1, n)
           v == SubSeq(w, n + 1, Len(w))
           t == b \o u
<1>1. /\ Len(b) \in Nat /\ Len(w) \in Nat /\ n \in Nat /\ n <= Len(w)
      /\ \A j \in 1 .. Len(w) : w[j] \in Pieces
  BY LenProperties, ElementOfSeq
<1>2. v \in Seq(Pieces) /\ Len(v) = Len(w) - n /\ \A j \in 1 .. Len(v) : v[j] = w[n + j]
  <2>1. \A j \in (n + 1) .. Len(w) : w[j] \in Pieces BY <1>1
  <2>2. /\ v \in Seq(Pieces) /\ Len(v) = IF n + 1 <= Len(w) THEN Len(w) - (n + 1) + 1 ELSE 0
        /\ \A j \in 1 .. Len(w) - (n + 1) + 1 : v[j] = w[(n + 1) + j - 1]
    BY <2>1, <1>1, SubSeqProperties
  <2> HIDE DEF v
  <2>3. Len(v) = Len(w) - n BY <2>2, <1>1
  <2>4. \A j \in 1 .. Len(v) : (n + 1) + j - 1 = n + j BY <2>3, <1>1
  <2>5. Len(w) - (n + 1) + 1 = Len(v) BY <2>3, <1>1
  <2>6. QED BY <2>2, <2>3, <2>4, <2>5
<1>3. u \in Seq(Pieces) /\ Len(u) = n /\ \A j \in 1 .. n : u[j] = w[j]
  <2>1. \A j \in 1 .. n : w[j] \in Pieces BY <1>1
  <2>2. /\ u \in Seq(Pieces) /\ Len(u) = IF 1 <= n THEN n - 1 + 1 ELSE 0
        /\ \A j \in 1 .. n - 1 + 1 : u[j] = w[1 + j - 1]
    BY <2>1, <1>1, SubSeqProperties
  <2> HIDE DEF u
  <2>3. QED BY <2>2
<1> HIDE DEF u, v
<1>4. /\ t \in Seq(Pieces) /\ Len(t) = Len(b) + n
      /\ \A j \in 1 .. Len(t) : t[j] = IF j <= Len(b) THEN b[j] ELSE u[j - Len(b)]
  <2>1. /\ t \in Seq(Pieces) /\ Len(t) = Len(b) + Len(u)
        /\ \A j \in 1 .. Len(b) + Len(u) : t[j] = IF j <= Len(b) THEN b[j] ELSE u[j - Len(b)]
    BY <1>3, ConcatProperties
  <2> HIDE DEF t
  <2>2. QED BY <1>3, <2>1
<1> HIDE DEF t
<1>5. pos + Len(t) + Len(v) = Len(X)
  <2> DEFINE i == Len(t)
             m == Len(v)
             l == Len(b)
             o == Len(w)
             x == Len(X)
  <2>1. pos + l + o = x /\ i = l + n /\ m = o - n /\ l \in Nat /\ o \in Nat /\ n \in Nat
    BY <1>1, <1>2, <1>4 DEF Rest
  <2> HIDE DEF i, m, l, o, x
  <2>2. pos + i + m = x BY <2>1
  <2>3. QED BY <2>2 DEF i, m, x
<1>6. ASSUME NEW j \in 1 .. Len(t) PROVE t[j] = X[pos + j]
  <2>1. CASE j <= Len(b)
    <3>1. t[j] = b[j] /\ j \in 1 .. Len(b) BY <1>1, <1>4, <2>1
    <3>2. QED BY <3>1 DEF Rest
  <2>2. CASE ~ (j <= Len(b))
    <3>1. t[j] = u[j - Len(b)] /\ j - Len(b) \in 1 .. n BY <1>1, <1>4, <2>2
    <3>2. u[j - Len(b)] = w[j - Len(b)] /\ j - Len(b) \in 1 .. Len(w) BY <1>1, <1>3, <3>1
    <3>3. w[j - Len(b)] = X[pos + Len(b) + (j - Len(b))] BY <3>2 DEF Rest
    <3>4. pos + Len(b) + (j - Len(b)) = pos + j BY <1>1, <1>4
    <3>5. QED BY <3>1, <3>2, <3>3, <3>4
  <2>3. QED BY <2>1, <2>2
<1>7. ASSUME NEW j \in 1 .. Len(v) PROVE v[j] = X[pos + Len(t) + j]
  <2>1. v[j] = w[n + j] /\ n + j \in 1 .. Len(w) BY <1>1, <1>2
  <2>2. w[n + j] = X[pos + Len(b) + (n + j)] BY <2>1 DEF Rest
  <2>3. pos + Len(b) + (n + j) = pos + Len(t) + j BY <1>1, <1>4
  <2>4. QED BY <2>1, <2>2, <2>3
<1>8. Rest(t, v, X, pos) BY <1>5, <1>6, <1>7 DEF Rest
<1>9. QED BY <1>2, <1>3, <1>8 DEF t, u, v

\* The browser puts a request behind the others.
LEMMA WholeGrows ==
  ASSUME NEW s \in Seq(Requests), Len(s) + 1 <= MaxRequests, NEW X, NEW st, Whole(X, s, st),
         NEW q \in Requests
  PROVE  LET e == Encode(q, Len(s) + 1) IN
         \E f : Whole(X \o e, Append(s, q), f) /\ \A i \in 1 .. Len(s) + 1 : f[i] = st[i]
<1> DEFINE n == Len(s) + 1
           e == Encode(q, n)
           z == Append(s, q)
           Y == X \o e
           f == [i \in 1 .. n + 1 |-> IF i <= n THEN st[i] ELSE Len(X) + Len(e)]
<1>1. Len(s) \in Nat /\ n \in 1 .. MaxRequests /\ X \in Seq(Pieces) /\ Len(X) \in Nat
  BY LenProperties, MaxRequestsAssumption DEF Whole
<1>2. e \in Seq(Pieces) /\ Len(e) \in Nat BY <1>1, Encoding
<1>3. /\ z \in Seq(Requests) /\ Len(z) = n /\ z[n] = q
      /\ \A i \in 1 .. Len(s) : z[i] = s[i]
  BY AppendProperties
<1> HIDE DEF z, e
<1>4. /\ Y \in Seq(Pieces) /\ Len(Y) = Len(X) + Len(e)
      /\ \A i \in 1 .. Len(Y) : Y[i] = IF i <= Len(X) THEN X[i] ELSE e[i - Len(X)]
  <2>1. /\ Y \in Seq(Pieces) /\ Len(Y) = Len(X) + Len(e)
        /\ \A i \in 1 .. Len(X) + Len(e) : Y[i] = IF i <= Len(X) THEN X[i] ELSE e[i - Len(X)]
    BY <1>1, <1>2, ConcatProperties
  <2> HIDE DEF Y
  <2>2. QED BY <2>1
<1> HIDE DEF Y
<1>5. /\ st \in [1 .. n -> Nat] /\ st[1] = 0 /\ st[n] = Len(X)
  BY DEF Whole
<1>6. f \in [1 .. Len(z) + 1 -> Nat] /\ f[1] = 0 /\ f[Len(z) + 1] = Len(Y)
  BY <1>1, <1>2, <1>3, <1>4, <1>5
<1>7. \A i \in 1 .. n : f[i] = st[i] BY <1>1
<1>8. f[n + 1] = Len(X) + Len(e) BY <1>1
<1> HIDE DEF f
<1>9. ASSUME NEW i \in 1 .. Len(s)
      PROVE  LET g == Encode(z[i], i) IN
             /\ f[i + 1] = f[i] + Len(g) /\ f[i + 1] <= Len(Y)
             /\ \A j \in 1 .. Len(g) : Y[f[i] + j] = g[j]
  <2> DEFINE g == Encode(z[i], i)
  <2>1. g = Encode(s[i], i) /\ i \in 1 .. n /\ i + 1 \in 1 .. n BY <1>1, <1>3, <1>9
  <2>2. s[i] \in Requests /\ i \in 1 .. MaxRequests
    <3>1. s[i] \in Requests BY ElementOfSeq
    <3>2. QED BY <1>1, <3>1, MaxRequestsAssumption
  <2>3. Len(g) \in Nat BY <2>1, <2>2, Encoding
  <2> DEFINE a == st[i]
  <2>4. a \in Nat /\ f[i] = a /\ f[i + 1] = st[i + 1] BY <1>5, <1>7, <2>1
  <2>5. st[i + 1] = a + Len(g) /\ st[i + 1] <= Len(X) /\ \A j \in 1 .. Len(g) : X[a + j] = g[j]
    BY <1>9, <2>1 DEF Whole
  <2> HIDE DEF a, g
  <2>6. f[i + 1] <= Len(Y) BY <1>1, <1>2, <1>4, <2>3, <2>4, <2>5
  <2>7. ASSUME NEW j \in 1 .. Len(g) PROVE Y[a + j] = g[j]
    <3>1. a + j \in 1 .. Len(X) BY <1>1, <2>3, <2>4, <2>5
    <3>2. Y[a + j] = X[a + j] BY <1>1, <1>2, <1>4, <3>1
    <3>3. QED BY <2>5, <3>2
  <2>8. QED BY <2>4, <2>5, <2>6, <2>7 DEF g
<1>10. /\ f[n + 1] = f[n] + Len(e) /\ f[n + 1] <= Len(Y)
       /\ \A j \in 1 .. Len(e) : Y[f[n] + j] = e[j]
  <2>1. f[n] = Len(X) BY <1>1, <1>5, <1>7
  <2>2. ASSUME NEW j \in 1 .. Len(e) PROVE Y[Len(X) + j] = e[j]
    <3> DEFINE i == Len(X) + j
    <3>1. i \in 1 .. Len(Y) /\ ~ (i <= Len(X)) /\ i - Len(X) = j BY <1>1, <1>2, <1>4
    <3> HIDE DEF i
    <3>2. Y[i] = e[j] BY <1>4, <3>1
    <3>3. QED BY <3>2 DEF i
  <2>3. QED BY <1>1, <1>2, <1>4, <1>8, <2>1, <2>2
<1>11. ASSUME NEW i \in 1 .. Len(z)
       PROVE  /\ f[i + 1] = f[i] + Len(Encode(z[i], i)) /\ f[i + 1] <= Len(Y)
              /\ \A j \in 1 .. Len(Encode(z[i], i)) : Y[f[i] + j] = Encode(z[i], i)[j]
  <2>1. CASE i \in 1 .. Len(s) BY <1>9, <2>1
  <2>2. CASE i = n
    <3>1. Encode(z[i], i) = e BY <1>3, <2>2 DEF e
    <3>2. QED BY <1>10, <2>2, <3>1
  <2>3. QED BY <1>1, <1>3, <2>1, <2>2
<1>12. Whole(Y, z, f) BY <1>4, <1>6, <1>11 DEF Whole
<1>13. QED BY <1>7, <1>12 DEF Y, z, e

\* What the browser puts on the wire comes behind what is there.
LEMMA RestGrows ==
  ASSUME NEW b \in Seq(Pieces), NEW w \in Seq(Pieces), NEW X \in Seq(Pieces), NEW pos \in Nat,
         Rest(b, w, X, pos), NEW e \in Seq(Pieces)
  PROVE  Rest(b, w \o e, X \o e, pos)
<1> DEFINE v == w \o e
           Y == X \o e
<1>1. Len(b) \in Nat /\ Len(w) \in Nat /\ Len(X) \in Nat /\ Len(e) \in Nat
  BY LenProperties
<1>2. /\ Len(v) = Len(w) + Len(e)
      /\ \A i \in 1 .. Len(w) + Len(e) : v[i] = IF i <= Len(w) THEN w[i] ELSE e[i - Len(w)]
  BY ConcatProperties
<1>3. /\ Len(Y) = Len(X) + Len(e)
      /\ \A i \in 1 .. Len(X) + Len(e) : Y[i] = IF i <= Len(X) THEN X[i] ELSE e[i - Len(X)]
  BY ConcatProperties
<1> HIDE DEF v, Y
<1>4. pos + Len(b) + Len(w) = Len(X) BY DEF Rest
<1>5. pos + Len(b) + Len(v) = Len(Y)
  <2> DEFINE i == Len(v)
             l == Len(b)
             o == Len(w)
             x == Len(X)
             d == Len(e)
  <2>1. /\ pos + l + o = x /\ i = o + d /\ Len(Y) = x + d
        /\ l \in Nat /\ o \in Nat /\ x \in Nat /\ d \in Nat
    BY <1>1, <1>2, <1>3, <1>4
  <2> HIDE DEF i, l, o, x, d
  <2>2. pos + l + i = x + d BY <2>1
  <2>3. QED BY <2>1, <2>2 DEF i, l
<1>6. ASSUME NEW j \in 1 .. Len(b) PROVE b[j] = Y[pos + j]
  <2>1. pos + j \in 1 .. Len(X) BY <1>1, <1>4
  <2>2. Y[pos + j] = X[pos + j] BY <1>1, <1>3, <2>1
  <2>3. QED BY <2>2 DEF Rest
<1>7. ASSUME NEW j \in 1 .. Len(v) PROVE v[j] = Y[pos + Len(b) + j]
  <2> DEFINE i == pos + Len(b) + j
  <2>1. i \in 1 .. Len(X) + Len(e) /\ (j <= Len(w) <=> i <= Len(X)) /\ j - Len(w) = i - Len(X)
    <3> DEFINE l == Len(b)
               o == Len(w)
               x == Len(X)
               d == Len(e)
    <3>1. pos + l + o = x /\ j \in 1 .. (o + d) /\ i = pos + l + j
          /\ l \in Nat /\ o \in Nat /\ x \in Nat /\ d \in Nat
      BY <1>1, <1>2, <1>4
    <3> HIDE DEF l, o, x, d, i
    <3>2. i \in 1 .. (x + d) /\ (j <= o <=> i <= x) /\ j - o = i - x BY <3>1
    <3>3. QED BY <3>2 DEF o, x, d
  <2>2. CASE j <= Len(w)
    <3>1. v[j] = w[j] /\ j \in 1 .. Len(w) BY <1>1, <1>2, <2>2
    <3>2. w[j] = X[i] BY <3>1 DEF Rest
    <3>3. Y[i] = X[i] BY <1>3, <2>1, <2>2
    <3>4. QED BY <3>1, <3>2, <3>3
  <2>3. CASE ~ (j <= Len(w))
    <3>1. v[j] = e[j - Len(w)] BY <1>1, <1>2, <2>3
    <3>2. Y[i] = e[i - Len(X)] BY <1>3, <2>1, <2>3
    <3>3. QED BY <2>1, <3>1, <3>2
  <2>4. QED BY <2>2, <2>3
<1>8. Rest(b, v, Y, pos) BY <1>5, <1>6, <1>7 DEF Rest
<1>9. QED BY <1>8 DEF v, Y

-----------------------------------------------------------------------------
(* The inductive invariant *)

\* Content, buffer and wire together are what is left of the requests s, of
\* which the first r - 1 have been read and a part of the r-th.
StreamAt(c, b, w, s, r) ==
  \E X, st, k : /\ Whole(X, s, st) /\ k \in Nat
               /\ HasRead(c, s, r, k) /\ Rest(b, w, X, st[r] + k)

CallBacks ==
  {NoCallBack} \cup [table : {"key", "fun", "dynamic"}, key : KeyCBs \cup KeyFunCBs \cup DynamicCBs
                                                               \cup {Key(q) : q \in Requests}]

Answers == [line : Nat, body : Seq(Pieces), refused : Nat, callback : CallBacks,
            backward : SUBSET Nat]

\* The response a to request i of s
Answered(a, s, i) ==
  /\ a.line = i /\ a.body = BodyOf(s[i], i)
  /\ a.callback # NoCallBack =>
       /\ a.refused = 0 /\ a.backward = 1 .. Layers
       /\ Key(s[i]) \in KeyCBs \cup KeyFunCBs => a.callback.table # "dynamic"

TypeInv ==
  /\ sent \in Seq(Requests) /\ Len(sent) <= MaxRequests /\ alone \in BOOLEAN
  /\ wire \in Seq(Pieces) /\ buffer \in Seq(Pieces)
  /\ parser \in Contents /\ parser.state # "Complete"
  /\ responses \in Seq(Answers) /\ Len(responses) <= Len(sent)
  /\ conn \in {"open", "closed"}

IInv ==
  /\ TypeInv
  /\ StreamAt(parser, buffer, wire, sent, Len(responses) + 1)
  /\ \A i \in 1 .. Len(responses) : Answered(responses[i], sent, i)

\* A read event keeps the place in the stream.
LEMMA StreamRead ==
  ASSUME NEW s \in Seq(Requests), Len(s) <= MaxRequests, NEW r \in 1 .. Len(s) + 1,
         NEW c \in Contents, NEW b \in Seq(Pieces), NEW w \in Seq(Pieces),
         StreamAt(c, b, w, s, r), NEW n \in 0 .. Len(w)
  PROVE  LET p == ParseRequest(c, b \o SubSeq(w, 1, n))  v == SubSeq(w, n + 1, Len(w)) IN
         /\ p \in Parses /\ v \in Seq(Pieces) /\ StreamAt(p.content, p.buffer, v, s, r)
<1> DEFINE u == SubSeq(w, 1, n)
           v == SubSeq(w, n + 1, Len(w))
           t == b \o u
           p == ParseRequest(c, t)
<1>1. PICK X, st, k : /\ Whole(X, s, st) /\ k \in Nat
                      /\ HasRead(c, s, r, k) /\ Rest(b, w, X, st[r] + k)
  BY DEF StreamAt
<1> DEFINE base == st[r]
<1>2. X \in Seq(Pieces) /\ base \in Nat BY <1>1 DEF Whole
<1> DEFINE pos == base + k
<1>3. pos \in Nat BY <1>1, <1>2
<1>4. u \in Seq(Pieces) /\ v \in Seq(Pieces) /\ Rest(t, v, X, pos)
  <2> HIDE DEF pos
  <2>1. Rest(b, w, X, pos) BY <1>1 DEF pos
  <2>2. QED BY <1>2, <1>3, <2>1, RestDeliver
<1>5. t \in Seq(Pieces) BY <1>4, ConcatProperties
<1>6. p \in ReadOf(s, r, v, X, base)
  <2> HIDE DEF t, v, base, p
  <2>1. base = st[r] /\ p = ParseRequest(c, t) BY DEF base, p
  <2>2. QED BY <1>1, <1>2, <1>4, <1>5, <2>1, ParseKeeps
<1> HIDE DEF p, v
<1>7. p \in Parses /\ \E i \in Nat : HasRead(p.content, s, r, i) /\ Rest(p.buffer, v, X, base + i)
  BY <1>6 DEF ReadOf
<1>8. StreamAt(p.content, p.buffer, v, s, r) BY <1>1, <1>7 DEF StreamAt
<1>9. QED BY <1>4, <1>7, <1>8 DEF p, v

\* A complete content is the next request, whole; the one after it begins where
\* it ends.
LEMMA StreamComplete ==
  ASSUME NEW s \in Seq(Requests), Len(s) <= MaxRequests, NEW r \in 1 .. Len(s) + 1, NEW c, NEW b, NEW w,
         StreamAt(c, b, w, s, r), c.state = "Complete"
  PROVE  /\ r \in 1 .. Len(s) /\ c.line = r /\ c.body = BodyOf(s[r], r)
         /\ StreamAt(Fresh, b, w, s, r + 1)
<1>1. PICK X, st, k : /\ Whole(X, s, st) /\ k \in Nat
                      /\ HasRead(c, s, r, k) /\ Rest(b, w, X, st[r] + k)
  BY DEF StreamAt
<1>2. /\ r \in 1 .. Len(s) /\ c.line = r /\ c.body = BodyOf(s[r], r)
      /\ k = Len(Encode(s[r], r))
  BY <1>1 DEF HasRead, Fresh
<1>3. st[r + 1] = st[r] + k /\ st[r + 1] \in Nat BY <1>1, <1>2, LenProperties DEF Whole
<1>4. Rest(b, w, X, st[r + 1] + 0) BY <1>1, <1>3
<1>5. HasRead(Fresh, s, r + 1, 0) BY DEF HasRead
<1>6. StreamAt(Fresh, b, w, s, r + 1) BY <1>1, <1>4, <1>5 DEF StreamAt
<1>7. QED BY <1>2, <1>6

\* A request that is sent comes behind all others.
LEMMA StreamSend ==
  ASSUME NEW s \in Seq(Requests), Len(s) + 1 <= MaxRequests, NEW r \in 1 .. Len(s) + 1,
         NEW c, NEW b \in Seq(Pieces), NEW w \in Seq(Pieces), StreamAt(c, b, w, s, r), NEW q \in Requests
  PROVE  LET e == Encode(q, Len(s) + 1) IN
         /\ e \in Seq(Pieces) /\ StreamAt(c, b, w \o e, Append(s, q), r)
<1> DEFINE e == Encode(q, Len(s) + 1)
           z == Append(s, q)
<1>1. PICK X, st, k : /\ Whole(X, s, st) /\ k \in Nat
                      /\ HasRead(c, s, r, k) /\ Rest(b, w, X, st[r] + k)
  BY DEF StreamAt
<1>2. PICK f : Whole(X \o e, z, f) /\ \A i \in 1 .. Len(s) + 1 : f[i] = st[i]
  BY <1>1, WholeGrows
<1>3. e \in Seq(Pieces)
  <2>1. Len(s) + 1 \in 1 .. MaxRequests BY LenProperties, MaxRequestsAssumption
  <2>2. QED BY <2>1, Encoding
<1>4. X \in Seq(Pieces) /\ st[r] \in Nat /\ f[r] = st[r] BY <1>1, <1>2 DEF Whole
<1>5. Rest(b, w \o e, X \o e, f[r] + k)
  <2> DEFINE pos == st[r] + k
  <2>1. pos \in Nat BY <1>1, <1>4
  <2> HIDE DEF pos, e
  <2>2. Rest(b, w, X, pos) BY <1>1 DEF pos
  <2>3. Rest(b, w \o e, X \o e, pos) BY <1>3, <1>4, <2>1, <2>2, RestGrows
  <2>4. QED BY <1>4, <2>3 DEF pos
<1>6. HasRead(c, z, r, k)
  <2>1. Len(z) = Len(s) + 1 /\ Len(s) \in Nat /\ \A i \in 1 .. Len(s) : z[i] = s[i]
    BY AppendProperties, LenProperties
  <2>2. CASE k = 0 /\ c = Fresh BY <2>2 DEF HasRead
  <2>3. CASE ~ (k = 0 /\ c = Fresh)
    <3>1. r \in 1 .. Len(s) BY <1>1, <2>3 DEF HasRead
    <3>2. r \in 1 .. Len(z) /\ z[r] = s[r] BY <2>1, <3>1
    <3> HIDE DEF z
    <3>3. QED BY <1>1, <2>3, <3>2 DEF HasRead
  <2>4. QED BY <2>2, <2>3
<1> HIDE DEF z, e
<1>7. StreamAt(c, b, w \o e, z, r) BY <1>1, <1>2, <1>5, <1>6 DEF StreamAt
<1>8. QED BY <1>3, <1>7 DEF z, e

\* The router chooses no dynamic callback for a key of the exact tables.
LEMMA RouteType ==
  ASSUME NEW q \in Requests, NEW d \in Route(Key(q))
  PROVE  /\ d \in CallBacks
         /\ Key(q) \in KeyCBs \cup KeyFunCBs => d.table # "dynamic"
<1> DEFINE key == Key(q)
<1>0. key \in {Key(x) : x \in Requests} OBVIOUS
<1> HIDE DEF key
<1>1. CASE key \in KeyCBs
  <2>1. d = [table |-> "key", key |-> key] BY <1>1 DEF Route, key
  <2>2. QED BY <1>0, <1>1, <2>1 DEF CallBacks
<1>2. CASE key \notin KeyCBs /\ key \in KeyFunCBs
  <2>1. d = [table |-> "fun", key |-> key] BY <1>2 DEF Route, key
  <2>2. QED BY <1>0, <1>2, <2>1 DEF CallBacks
<1>3. CASE key \notin KeyCBs /\ key \notin KeyFunCBs
  <2>1. d = NoCallBack \/ \E x \in DynamicMatches(key) : d = [table |-> "dynamic", key |-> x]
    BY <1>3 DEF Route, key
  <2>2. DynamicMatches(key) \subseteq DynamicCBs BY DEF DynamicMatches
  <2>3. d \in CallBacks BY <2>1, <2>2 DEF CallBacks
  <2>4. QED BY <1>3, <2>3 DEF key
<1>4. QED BY <1>1, <1>2, <1>3

\* What sendHttpResponse appends answers the request the content holds.
LEMMA ResponseAnswers ==
  ASSUME NEW s \in Seq(Requests), NEW i \in 1 .. Len(s), NEW c \in Contents,
         c.line = i, c.body = BodyOf(s[i], i), NEW stop \in {0} \cup Stoppers,
         NEW callback \in IF Forward(stop) = Layers + 1 THEN Route(Key(s[c.line])) ELSE {NoCallBack}
  PROVE  LET a == [line |-> c.line, body |-> c.body, refused |-> stop,
                   callback |-> callback, backward |-> Backward(Forward(stop) - 1)]
         IN  a \in Answers /\ Answered(a, s, i)
<1> DEFINE layer == Forward(stop)
           a == [line |-> c.line, body |-> c.body, refused |-> stop,
                 callback |-> callback, backward |-> Backward(layer - 1)]
<1>1. /\ stop \in Nat /\ layer \in Nat /\ Layers \in Nat
      /\ stop # 0 => layer # Layers + 1
      /\ stop = 0 => layer - 1 = Layers
  BY LayersAssumption DEF Forward
<1>2. s[i] \in Requests BY ElementOfSeq
<1>3. /\ callback \in CallBacks
      /\ callback # NoCallBack => stop = 0
      /\ callback # NoCallBack => (Key(s[i]) \in KeyCBs \cup KeyFunCBs => callback.table # "dynamic")
  <2>1. CASE layer = Layers + 1
    <3>1. callback \in Route(Key(s[i])) BY <2>1
    <3>2. QED BY <1>1, <1>2, <2>1, <3>1, RouteType
  <2>2. CASE layer # Layers + 1
    <3>1. callback = NoCallBack BY <2>2
    <3>2. QED BY <3>1 DEF CallBacks
  <2>3. QED BY <2>1, <2>2
<1>4. Backward(layer - 1) \in SUBSET Nat BY <1>1 DEF Backward
<1>5. stop = 0 => Backward(layer - 1) = 1 .. Layers BY <1>1 DEF Backward
<1>6. c.body \in Seq(Pieces) /\ c.line \in Nat
  <2>1. c.line \in 0 .. MaxRequests BY ContentsType
  <2>2. QED BY <2>1, MaxRequestsAssumption, ContentsType
<1> HIDE DEF layer
<1>7. a \in Answers BY <1>1, <1>3, <1>4, <1>6 DEF Answers
<1>8. Answered(a, s, i) BY <1>3, <1>5 DEF Answered
<1>9. QED BY <1>7, <1>8 DEF layer

\* The invariant holds at the start ...
LEMMA InitInv == Init => IInv
<1> SUFFICES ASSUME Init PROVE IInv OBVIOUS
<1>1. Fresh \in Contents /\ Fresh.state # "Complete"
  BY MaxRequestsAssumption DEF Fresh, Contents, States, Lengths
<1>2. TypeInv BY <1>1, MaxRequestsAssumption DEF Init, TypeInv
<1> DEFINE st == [i \in 1 .. 1 |-> 0]
<1>3. Whole(<<>>, <<>>, st) BY DEF Whole
<1>4. HasRead(Fresh, <<>>, 1, 0) BY DEF HasRead
<1>5. Rest(<<>>, <<>>, <<>>, st[1] + 0) BY DEF Rest
<1>6. StreamAt(Fresh, <<>>, <<>>, <<>>, 1) BY <1>3, <1>4, <1>5 DEF StreamAt
<1>7. Len(responses) = 0 BY DEF Init
<1>8. QED BY <1>2, <1>6, <1>7 DEF Init, IInv

\* ... and every step keeps it.
LEMMA NextInv == IInv /\ [Next]_vars => IInv'
<1> SUFFICES ASSUME IInv, [Next]_vars PROVE IInv' OBVIOUS
<1> DEFINE r == Len(responses) + 1
<1>1. /\ sent \in Seq(Requests) /\ Len(sent) <= MaxRequests /\ Len(sent) \in Nat
      /\ wire \in Seq(Pieces) /\ buffer \in Seq(Pieces) /\ parser \in Contents
      /\ responses \in Seq(Answers) /\ Len(responses) \in Nat /\ r \in 1 .. Len(sent) + 1
      /\ StreamAt(parser, buffer, wire, sent, r)
      /\ \A i \in 1 .. Len(responses) : Answered(responses[i], sent, i)
  BY LenProperties DEF IInv, TypeInv
<1>2. ASSUME Send PROVE IInv'
  <2>1. PICK q \in Requests : /\ sent' = Append(sent, q)
                              /\ wire' = wire \o Encode(q, Len(sent) + 1)
    BY <1>2 DEF Send
  <2>2. Len(sent) + 1 <= MaxRequests /\ UNCHANGED <<buffer, parser, responses, conn>>
    BY <1>1, <1>2, MaxRequestsAssumption DEF Send
  <2>3. alone' \in BOOLEAN BY <1>2, Zenon DEF Send
  <2>4. /\ Encode(q, Len(sent) + 1) \in Seq(Pieces)
        /\ StreamAt(parser, buffer, wire', sent', r)
    BY <1>1, <2>1, <2>2, StreamSend
  <2>5. /\ sent' \in Seq(Requests) /\ Len(sent') = Len(sent) + 1
        /\ \A i \in 1 .. Len(sent) : sent'[i] = sent[i]
    BY <1>1, <2>1, AppendProperties
  <2>6. wire' \in Seq(Pieces) BY <1>1, <2>1, <2>4, ConcatProperties
  <2>7. Len(sent') <= MaxRequests /\ Len(responses) <= Len(sent') BY <1>1, <2>2, <2>5
  <2>8. TypeInv' BY <2>2, <2>3, <2>5, <2>6, <2>7 DEF IInv, TypeInv
  <2>9. ASSUME NEW i \in 1 .. Len(responses) PROVE Answered(responses[i], sent', i)
    <3>1. sent'[i] = sent[i] BY <1>1, <2>5
    <3>2. QED BY <1>1, <3>1 DEF Answered
  <2>10. QED BY <2>2, <2>4, <2>8, <2>9 DEF IInv
<1>3. ASSUME NEW n \in Deliverable, ReadMore(n) PROVE IInv'
  <2> DEFINE p == ParseRequest(parser, buffer \o SubSeq(wire, 1, n))
  <2>1. n \in 0 .. Len(wire) BY DEF Deliverable
  <2>2. /\ parser' = p.content /\ buffer' = p.buffer /\ p.content.state # "Complete"
        /\ wire' = SubSeq(wire, n + 1, Len(wire)) /\ UNCHANGED <<sent, alone, responses, conn>>
    BY <1>3 DEF ReadMore
  <2>3. p \in Parses /\ wire' \in Seq(Pieces) /\ StreamAt(p.content, p.buffer, wire', sent, r)
    BY <1>1, <2>1, <2>2, StreamRead
  <2> HIDE DEF p
  <2>4. p.content \in Contents /\ p.buffer \in Seq(Pieces) BY <2>3, ParsesType
  <2>5. TypeInv' BY <2>2, <2>3, <2>4 DEF IInv, TypeInv
  <2>6. QED BY <1>1, <2>2, <2>3, <2>5 DEF IInv
<1>4. ASSUME NEW n \in Deliverable, ReadRequest(n) PROVE IInv'
  <2> DEFINE p == ParseRequest(parser, buffer \o SubSeq(wire, 1, n))
  <2>1. n \in 0 .. Len(wire) BY DEF Deliverable
  <2>2. PICK stop \in {0} \cup Stoppers : SendHttpResponse(p.content, stop)
    BY <1>4 DEF ReadRequest
  <2>3. /\ p.content.state = "Complete" /\ buffer' = p.buffer
        /\ wire' = SubSeq(wire, n + 1, Len(wire)) /\ UNCHANGED <<sent, alone>>
    BY <1>4 DEF ReadRequest
  <2>4. p \in Parses /\ wire' \in Seq(Pieces) /\ StreamAt(p.content, p.buffer, wire', sent, r)
    BY <1>1, <2>1, <2>3, StreamRead
  <2> HIDE DEF p
  <2> DEFINE c == p.content
  <2>5. c \in Contents /\ p.buffer \in Seq(Pieces) BY <2>4, ParsesType
  <2>6. /\ r \in 1 .. Len(sent) /\ c.line = r /\ c.body = BodyOf(sent[r], r)
        /\ StreamAt(Fresh, p.buffer, wire', sent, r + 1)
    BY SMTT(60), <1>1, <2>3, <2>4, StreamComplete
  <2>7. PICK callback \in IF Forward(stop) = Layers + 1 THEN Route(Key(sent[c.line])) ELSE {NoCallBack} :
          /\ responses' = Append(responses,
               [line |-> c.line, body |-> c.body, refused |-> stop,
                callback |-> callback, backward |-> Backward(Forward(stop) - 1)])
          /\ parser' = Fresh
          /\ conn' = IF callback = NoCallBack THEN "closed" ELSE "open"
    BY <2>2 DEF SendHttpResponse, Reset
  <2> DEFINE a == [line |-> c.line, body |-> c.body, refused |-> stop,
                   callback |-> callback, backward |-> Backward(Forward(stop) - 1)]
  <2>8. a \in Answers /\ Answered(a, sent, r)
    BY <1>1, <2>5, <2>6, ResponseAnswers
  <2> HIDE DEF a
  <2>9. responses' = Append(responses, a) BY <2>7 DEF a
  <2>10. /\ responses' \in Seq(Answers) /\ Len(responses') = r /\ responses'[r] = a
         /\ \A i \in 1 .. Len(responses) : responses'[i] = responses[i]
    BY <1>1, <2>8, <2>9, AppendProperties
  <2>11. Fresh \in Contents /\ Fresh.state # "Complete"
    BY MaxRequestsAssumption DEF Fresh, Contents, States, Lengths
  <2>12. conn' \in {"open", "closed"} BY <2>7
  <2>13. Len(responses') <= Len(sent') BY <2>3, <2>6, <2>10
  <2>14. TypeInv' BY <2>3, <2>4, <2>5, <2>7, <2>10, <2>11, <2>12, <2>13 DEF IInv, TypeInv
  <2>15. StreamAt(parser', buffer', wire', sent', Len(responses') + 1)
    BY <2>3, <2>6, <2>7, <2>10
  <2>16. ASSUME NEW i \in 1 .. Len(responses') PROVE Answered(responses'[i], sent', i)
    <3>1. CASE i = r BY <2>3, <2>8, <2>10, <3>1
    <3>2. CASE i \in 1 .. Len(responses) BY <1>1, <2>3, <2>10, <3>2
    <3>3. QED BY <1>1, <2>10, <3>1, <3>2
  <2>17. QED BY <2>14, <2>15, <2>16 DEF IInv
<1>5. ASSUME HandleClose PROVE IInv'
  BY <1>5 DEF HandleClose, IInv, TypeInv
<1>6. ASSUME UNCHANGED vars PROVE IInv'
  BY <1>6 DEF vars, IInv, TypeInv
<1>7. QED BY <1>2, <1>3, <1>4, <1>5, <1>6 DEF Next, HandleReqeust

\* In every reachable state the parser's content, the buffer and the wire make
\* up what is left of the requests sent, and every response answers its own.
LEMMA Inductive == Spec => []IInv
BY InitInv, NextInv, PTL DEF Spec

\* What the invariant implies
LEMMA InvTypeOK == IInv => TypeOK
<1> SUFFICES ASSUME IInv PROVE TypeOK OBVIOUS
<1>1. TypeInv BY DEF IInv
<1>2. parser.body = <<>> BY DEF IInv, TypeInv, StreamAt, HasRead, Fresh
<1>3. Len(responses) <= MaxRequests
  <2>1. Len(responses) \in Nat /\ Len(sent) \in Nat BY <1>1, LenProperties DEF TypeInv
  <2>2. QED BY <1>1, <2>1, MaxRequestsAssumption DEF TypeInv
<1>4. QED BY <1>1, <1>2, <1>3 DEF TypeOK, TypeInv

\* The types of the connection's state, and the parser never rests on a
\* complete request nor keeps a body: parseRequest hands it over at once.
THEOREM TypeCorrect == Spec => []TypeOK
BY InvTypeOK, Inductive, PTL

LEMMA InvHandledAsSent == IInv => HandledAsSent
<1> SUFFICES ASSUME IInv PROVE HandledAsSent OBVIOUS
<1>1. DOMAIN responses = 1 .. Len(responses) BY LenProperties DEF IInv, TypeInv
<1>2. \A i \in 1 .. Len(responses) : responses[i].line = i /\ responses[i].body = BodyOf(sent[i], i)
  BY DEF IInv, Answered
<1>3. QED BY <1>1, <1>2 DEF HandledAsSent, BodyOf

LEMMA InvRightCallback == IInv => RightCallback
<1> SUFFICES ASSUME IInv PROVE RightCallback OBVIOUS
<1>1. DOMAIN responses = 1 .. Len(responses) BY LenProperties DEF IInv, TypeInv
<1>2. QED BY <1>1 DEF RightCallback, IInv, Answered

\* The handlers get the requests as they were sent: for every number of
\* requests, every length of a body and every cut of the stream into read
\* events, the i-th response is to the i-th request, with its own whole body.
THEOREM HandledCorrect == Spec => []HandledAsSent
BY InvHandledAsSent, Inductive, PTL

\* A callback runs only for a request that every middleware let through, with
\* the backware of all of them after it, and an exact key has precedence over
\* every dynamic one: for every table of routes and every chain.
THEOREM CallbackCorrect == Spec => []RightCallback
BY InvRightCallback, Inductive, PTL

=============================================================================
