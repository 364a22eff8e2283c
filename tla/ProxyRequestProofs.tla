--------------------------- MODULE ProxyRequestProofs ---------------------------
(***************************************************************************)
(* Theorems about ProxyRequest: every property its run checks, for every   *)
(* set of requests, any number of them and every cut of the stream.        *)
(*                                                                         *)
(* The search for addresses and the loop of parseHttpRequest are recursive *)
(* functions; that they are defined, and what they return, is proved by    *)
(* induction over what is still to be read (RecursionExists, Downward).    *)
(* "What becomes of each piece" is a function w and its effect on a        *)
(* sequence Mapped(w, s), which is FlattenSeq of the images; the           *)
(* properties are about three of them, PlainOf, BodyOf and ExactOf.        *)
(*                                                                         *)
(*   Turn          one turn of the loop of parseHttpRequest                *)
(*   Complete      what it forwards is complete and counted right, for     *)
(*                 whatever the read holds (NothingLost)                   *)
(*   Unit          a request in a stream                                   *)
(*   InStepBehind  what parseHttpRequest returns agrees with the requests  *)
(*                 in the read, if it does not end in a head               *)
(*   IInv          where the proxy is in the requests of the browser       *)
(***************************************************************************)
EXTENDS ProxyRequest, SequenceTheorems, WellFoundedInduction, TLAPS

-----------------------------------------------------------------------------
(* Induction over naturals, and recursion along a measure *)

(* A non-empty set of naturals has a least element: the form of induction   *)
(* that the proofs below use.                                               *)
LEMMA LeastNat ==
  ASSUME NEW T \in SUBSET Nat, T # {}
  PROVE  \E x \in T : \A y \in T : x <= y
<1> DEFINE R == {ss \in Nat \X Nat : ss[1] < ss[2]}
<1>1. IsWellFoundedOn(R, Nat)
  BY NatLessThanWellFounded DEF OpToRel
<1>2. \A x, y \in Nat : y < x => <<y, x>> \in R
  OBVIOUS
<1> HIDE DEF R
<1>3. PICK x \in T : \A y \in T : ~ (<<y, x>> \in R)
  BY <1>1, WFMin
<1>4. ASSUME NEW y \in T PROVE x <= y
  <2>1. x \in Nat /\ y \in Nat OBVIOUS
  <2>2. ~ (<<y, x>> \in R) BY <1>3
  <2>3. ~ (y < x) BY <1>2, <2>1, <2>2
  <2>4. QED BY <2>1, <2>3
<1>5. QED BY <1>4

(* Induction over a set of naturals, which a proof defines as it needs it.  *)
LEMMA SetInduction ==
  ASSUME NEW S, 0 \in S, \A n \in Nat : n \in S => n + 1 \in S
  PROVE  Nat \subseteq S
<1>1. SUFFICES ASSUME Nat \ S # {} PROVE FALSE
  OBVIOUS
<1>2. PICK x \in Nat \ S : \A y \in Nat \ S : x <= y
  BY LeastNat, <1>1
<1>3. x # 0 OBVIOUS
<1>4. x - 1 \in Nat /\ x - 1 \in S
  BY <1>2, <1>3
<1>5. QED BY <1>2, <1>4

(* g follows the rule D wherever the measure m is below n.                  *)
Follows(g, n, S, m, D) == \A p \in S : m[p] < n => g[p] = D[p][g]

(* The value of the rule at p depends on smaller arguments only.            *)
Descends(S, V, m, D) ==
  \A p \in S : \A g, h \in [S -> V] :
    (\A q \in S : m[q] < m[p] => g[q] = h[q]) => D[p][g] = D[p][h]

\* Two functions that follow the rule agree, as far as both follow it.
LEMMA RecursionUnique ==
  ASSUME NEW S, NEW V, NEW m \in [S -> Nat], NEW D, Descends(S, V, m, D),
         NEW g \in [S -> V], NEW h \in [S -> V], NEW n \in Nat, NEW k \in Nat,
         Follows(g, n, S, m, D), Follows(h, k, S, m, D),
         NEW p \in S, m[p] < n, m[p] < k
  PROVE  g[p] = h[p]
<1> DEFINE T == {i \in Nat : \E q \in S : m[q] = i /\ i < n /\ i < k /\ g[q] # h[q]}
<1>1. SUFFICES ASSUME T # {} PROVE FALSE OBVIOUS
<1>2. PICK i \in T : \A j \in T : i <= j
  <2> HIDE DEF T
  <2>1. T \in SUBSET Nat BY DEF T
  <2>2. QED BY <1>1, <2>1, LeastNat
<1>3. PICK q \in S : m[q] = i /\ i < n /\ i < k /\ g[q] # h[q] BY <1>2
<1>4. ASSUME NEW r \in S, m[r] < m[q] PROVE g[r] = h[r]
  BY <1>2, <1>3, <1>4
<1>5. D[q][g] = D[q][h] BY <1>4 DEF Descends
<1>6. g[q] = D[q][g] /\ h[q] = D[q][h] BY <1>3 DEF Follows
<1>7. QED BY <1>3, <1>5, <1>6

\* There is a function that follows the rule up to any bound.
LEMMA RecursionReaches ==
  ASSUME NEW S, NEW V, V # {}, NEW m \in [S -> Nat], NEW D \in [S -> [[S -> V] -> V]],
         Descends(S, V, m, D), NEW n \in Nat
  PROVE  \E g \in [S -> V] : Follows(g, n, S, m, D)
<1> DEFINE N == {k \in Nat : \E g \in [S -> V] : Follows(g, k, S, m, D)}
<1>1. 0 \in N
  <2>1. PICK v : v \in V OBVIOUS
  <2> DEFINE g == [p \in S |-> v]
  <2>2. g \in [S -> V] BY <2>1
  <2>3. \A p \in S : ~ (m[p] < 0) OBVIOUS
  <2>4. Follows(g, 0, S, m, D) BY <2>3 DEF Follows
  <2> HIDE DEF g
  <2>5. QED BY <2>2, <2>4
<1>2. ASSUME NEW k \in Nat, k \in N PROVE k + 1 \in N
  <2>1. PICK g \in [S -> V] : Follows(g, k, S, m, D) BY <1>2
  <2> DEFINE h == [p \in S |-> D[p][g]]
  <2>2. h \in [S -> V] OBVIOUS
  <2>3. ASSUME NEW p \in S, m[p] < k + 1 PROVE h[p] = D[p][h]
    <3>1. ASSUME NEW q \in S, m[q] < m[p] PROVE g[q] = h[q]
      <4>1. m[q] \in Nat /\ m[p] \in Nat OBVIOUS
      <4>2. m[q] < k BY <2>3, <3>1, <4>1
      <4>3. QED BY <2>1, <4>2 DEF Follows
    <3>2. D[p][g] = D[p][h] BY <2>2, <3>1 DEF Descends
    <3>3. QED BY <3>2
  <2>4. Follows(h, k + 1, S, m, D) BY <2>3 DEF Follows
  <2> HIDE DEF h
  <2>5. QED BY <2>2, <2>4
<1>3. Nat \subseteq N
  <2> HIDE DEF N
  <2>1. QED BY <1>1, <1>2, SetInduction
<1>4. QED BY <1>3

Solves(f, S, D) == \A p \in S : f[p] = D[p][f]

(* A definition whose recursion goes down a measure defines a function.     *)
LEMMA RecursionExists ==
  ASSUME NEW S, NEW V, V # {}, NEW m \in [S -> Nat], NEW D \in [S -> [[S -> V] -> V]],
         Descends(S, V, m, D)
  PROVE  \E f \in [S -> V] : Solves(f, S, D)
<1> DEFINE G(n) == CHOOSE g \in [S -> V] : Follows(g, n, S, m, D)
           f    == [p \in S |-> G(m[p] + 1)[p]]
<1>1. ASSUME NEW n \in Nat PROVE G(n) \in [S -> V] /\ Follows(G(n), n, S, m, D)
  <2>1. \E g \in [S -> V] : Follows(g, n, S, m, D) BY RecursionReaches
  <2>2. QED BY <2>1, Zenon
<1> HIDE DEF G
<1>2. f \in [S -> V] BY <1>1
<1>3. ASSUME NEW p \in S PROVE f[p] = D[p][f]
  <2> DEFINE n == m[p] + 1
             g == G(n)
  <2>1. n \in Nat /\ m[p] \in Nat /\ m[p] < n OBVIOUS
  <2>2. g \in [S -> V] /\ Follows(g, n, S, m, D) BY <1>1, <2>1
  <2>3. ASSUME NEW q \in S, m[q] < m[p] PROVE g[q] = f[q]
    <3> DEFINE k == m[q] + 1
               h == G(k)
    <3>1. k \in Nat /\ m[q] \in Nat /\ m[q] < k /\ m[q] < n BY <2>1, <2>3
    <3>2. h \in [S -> V] /\ Follows(h, k, S, m, D) BY <1>1, <3>1
    <3>3. f[q] = h[q] OBVIOUS
    <3> HIDE DEF g, h, n, k, f
    <3>4. g[q] = h[q] BY <2>1, <2>2, <3>1, <3>2, RecursionUnique
    <3>5. QED BY <3>3, <3>4
  <2>4. f[p] = g[p] OBVIOUS
  <2> HIDE DEF g, n, f
  <2>5. D[p][g] = D[p][f] BY <1>2, <2>2, <2>3 DEF Descends
  <2>6. g[p] = D[p][g] BY <2>1, <2>2 DEF Follows
  <2>7. QED BY <2>4, <2>5, <2>6
<1>4. Solves(f, S, D)
  <2> HIDE DEF f
  <2>1. QED BY <1>3 DEF Solves
<1> HIDE DEF f
<1>5. QED BY <1>2, <1>4

(* Induction downwards, as the loop of parseHttpRequest goes through data *)
LEMMA Downward ==
  ASSUME NEW n \in Nat, NEW S,
         \A k \in 0 .. n : (\A j \in 0 .. n : k < j => j \in S) => k \in S
  PROVE  0 .. n \subseteq S
<1> DEFINE N == {m \in Nat : \A k \in 0 .. n : n - k < m => k \in S}
<1>1. 0 \in N OBVIOUS
<1>2. ASSUME NEW m \in Nat, m \in N PROVE m + 1 \in N
  <2> SUFFICES ASSUME NEW k \in 0 .. n, n - k < m + 1 PROVE k \in S
    OBVIOUS
  <2>1. \A j \in 0 .. n : k < j => j \in S BY <1>2
  <2>2. QED BY <2>1
<1>3. Nat \subseteq N
  <2> HIDE DEF N
  <2>1. QED BY <1>1, <1>2, SetInduction
<1>4. n + 1 \in N BY <1>3
<1>5. QED BY <1>4

-----------------------------------------------------------------------------
(* FlattenSeq *)

FlattenRule(x, g) == [i \in 1 .. Len(x) |-> IF i = 1 THEN x[i] ELSE g[i - 1] \o x[i]]

\* The recursion of FlattenSeq defines a function.
LEMMA FlattenDefined ==
  ASSUME NEW P, NEW x \in Seq(Seq(P)), Len(x) # 0
  PROVE  \E g \in [1 .. Len(x) -> Seq(P)] : g = FlattenRule(x, g) /\ FlattenSeq(x) = g[Len(x)]
<1> DEFINE S == 1 .. Len(x)
           V == Seq(P)
           m == [i \in S |-> i]
           D == [i \in S |-> [g \in [S -> V] |-> IF i = 1 THEN x[i] ELSE g[i - 1] \o x[i]]]
<1>1. Len(x) \in Nat /\ \A i \in S : x[i] \in V BY LenProperties, ElementOfSeq
<1>2. m \in [S -> Nat] BY <1>1
<1>3. D \in [S -> [[S -> V] -> V]]
  <2>1. ASSUME NEW i \in S, NEW g \in [S -> V] PROVE (IF i = 1 THEN x[i] ELSE g[i - 1] \o x[i]) \in V
    <3>1. CASE i = 1 BY <1>1, <3>1
    <3>2. CASE i # 1
      <4>1. i - 1 \in S BY <1>1, <3>2
      <4>2. g[i - 1] \in V /\ x[i] \in V BY <1>1, <4>1
      <4>3. QED BY <3>2, <4>2, ConcatProperties
    <3>3. QED BY <3>1, <3>2
  <2>2. QED BY <2>1
<1>4. Descends(S, V, m, D)
  <2>1. ASSUME NEW i \in S, NEW g \in [S -> V], NEW h \in [S -> V],
               \A q \in S : m[q] < m[i] => g[q] = h[q]
        PROVE  D[i][g] = D[i][h]
    <3>1. CASE i = 1 BY <3>1
    <3>2. CASE i # 1
      <4>1. i - 1 \in S /\ m[i - 1] < m[i] BY <1>1, <3>2
      <4>2. g[i - 1] = h[i - 1] BY <2>1, <4>1
      <4>3. QED BY <3>2, <4>2
    <3>3. QED BY <3>1, <3>2
  <2> HIDE DEF m, D
  <2>2. QED BY <2>1 DEF Descends
<1>5. V # {} BY EmptySeq
<1>6. PICK f \in [S -> V] : Solves(f, S, D)
  <2> HIDE DEF m, D, S, V
  <2>1. QED BY <1>2, <1>3, <1>4, <1>5, RecursionExists
<1>7. \A i \in S : f[i] = IF i = 1 THEN x[i] ELSE f[i - 1] \o x[i]
  BY <1>6 DEF Solves
<1>8. f = FlattenRule(x, f) BY <1>7 DEF FlattenRule
<1> DEFINE c == CHOOSE g : g = FlattenRule(x, g)
<1>9. c = FlattenRule(x, c) BY <1>8
<1>10. FlattenSeq(x) = c[Len(x)] BY Zenon DEF FlattenSeq, FlattenRule
<1> HIDE DEF c
<1>11. c \in [S -> V]
  <2> DEFINE N == {k \in Nat : \A i \in S : i <= k => c[i] \in V}
  <2>0. DOMAIN c = S BY <1>9 DEF FlattenRule
  <2>1. 0 \in N OBVIOUS
  <2>2. ASSUME NEW k \in Nat, k \in N PROVE k + 1 \in N
    <3> SUFFICES ASSUME NEW i \in S, i <= k + 1 PROVE c[i] \in V
      OBVIOUS
    <3>1. c[i] = IF i = 1 THEN x[i] ELSE c[i - 1] \o x[i] BY <1>9 DEF FlattenRule
    <3>2. CASE i = 1 BY <1>1, <3>1, <3>2
    <3>3. CASE i # 1
      <4>1. c[i - 1] \in V /\ x[i] \in V BY <1>1, <2>2, <3>3
      <4>2. QED BY <3>1, <3>3, <4>1, ConcatProperties
    <3>4. QED BY <3>2, <3>3
  <2>3. Nat \subseteq N
    <3> HIDE DEF N
    <3>1. QED BY <2>1, <2>2, SetInduction
  <2>4. Len(x) \in N BY <1>1, <2>3
  <2>5. \A i \in S : c[i] \in V BY <1>1, <2>4
  <2>6. c = [i \in S |-> c[i]] BY <1>9, <2>0, Zenon DEF FlattenRule
  <2>7. QED BY <2>5, <2>6
<1>12. QED BY <1>9, <1>10, <1>11

LEMMA FlattenType ==
  ASSUME NEW P, NEW x \in Seq(Seq(P))
  PROVE  FlattenSeq(x) \in Seq(P)
<1>1. CASE Len(x) = 0
  <2>1. x = <<>> BY <1>1, EmptySeq
  <2>2. FlattenSeq(x) = <<>> BY <1>1, <2>1 DEF FlattenSeq
  <2>3. QED BY <2>2
<1>2. CASE Len(x) # 0
  <2>1. PICK g \in [1 .. Len(x) -> Seq(P)] : FlattenSeq(x) = g[Len(x)] BY <1>2, FlattenDefined
  <2>2. Len(x) \in 1 .. Len(x) BY <1>2, LenProperties
  <2>3. QED BY <2>1, <2>2
<1>3. QED BY <1>1, <1>2

\* One more sequence at the end
LEMMA FlattenAppend ==
  ASSUME NEW P, NEW x \in Seq(Seq(P)), NEW y \in Seq(P)
  PROVE  FlattenSeq(Append(x, y)) = FlattenSeq(x) \o y
<1> DEFINE z == Append(x, y)
           n == Len(x)
<1>1. /\ z \in Seq(Seq(P)) /\ Len(z) = n + 1 /\ n \in Nat /\ z[n + 1] = y
      /\ \A i \in 1 .. n : z[i] = x[i]
  BY AppendProperties, LenProperties
<1> HIDE DEF z
<1>2. Len(z) # 0 BY <1>1
<1>3. PICK g \in [1 .. Len(z) -> Seq(P)] : g = FlattenRule(z, g) /\ FlattenSeq(z) = g[Len(z)]
  BY <1>1, <1>2, FlattenDefined
<1>4. \A i \in 1 .. n + 1 : g[i] = IF i = 1 THEN z[i] ELSE g[i - 1] \o z[i]
  <2>1. \A i \in 1 .. Len(z) : FlattenRule(z, g)[i] = IF i = 1 THEN z[i] ELSE g[i - 1] \o z[i]
    BY DEF FlattenRule
  <2>2. QED BY <1>1, <1>3, <2>1
<1>5. CASE n = 0
  <2>1. x = <<>> BY <1>5, EmptySeq
  <2>2. FlattenSeq(x) = <<>> BY <1>5, <2>1 DEF FlattenSeq
  <2>3. FlattenSeq(z) = y BY <1>1, <1>3, <1>4, <1>5
  <2>4. QED BY <2>2, <2>3, ConcatEmptySeq DEF z
<1>6. CASE n # 0
  <2>1. PICK h \in [1 .. n -> Seq(P)] : h = FlattenRule(x, h) /\ FlattenSeq(x) = h[n]
    BY <1>6, FlattenDefined
  <2>2. \A i \in 1 .. n : h[i] = IF i = 1 THEN x[i] ELSE h[i - 1] \o x[i]
    <3>1. \A i \in 1 .. n : FlattenRule(x, h)[i] = IF i = 1 THEN x[i] ELSE h[i - 1] \o x[i]
      BY DEF FlattenRule
    <3>2. QED BY <2>1, <3>1
  <2> DEFINE N == {k \in Nat : \A i \in 1 .. n : i <= k => g[i] = h[i]}
  <2>3. 0 \in N OBVIOUS
  <2>4. ASSUME NEW k \in Nat, k \in N PROVE k + 1 \in N
    <3> SUFFICES ASSUME NEW i \in 1 .. n, i <= k + 1 PROVE g[i] = h[i]
      OBVIOUS
    <3>1. i \in 1 .. n + 1 /\ z[i] = x[i] BY <1>1
    <3>2. CASE i = 1 BY <1>4, <2>2, <3>1, <3>2
    <3>3. CASE i # 1
      <4>1. i - 1 \in 1 .. n /\ i - 1 <= k
        <5>1. n \in Nat BY <1>1
        <5> HIDE DEF n, N
        <5>2. QED BY <5>1, <3>3
      <4>2. g[i - 1] = h[i - 1] BY <2>4, <4>1
      <4>3. QED BY ZenonT(60), <1>4, <2>2, <3>1, <3>3, <4>2
    <3>4. QED BY <3>2, <3>3
  <2>5. Nat \subseteq N
    <3> HIDE DEF N
    <3>1. QED BY <2>3, <2>4, SetInduction
  <2>6. g[n] = h[n]
    <3>1. n \in N BY <1>1, <2>5
    <3>2. QED BY <1>1, <1>6, <3>1
  <2>7. g[n + 1] = g[n] \o y
    <3>1. n + 1 \in 1 .. n + 1 /\ n + 1 # 1 /\ (n + 1) - 1 = n BY <1>1, <1>6
    <3>2. g[n + 1] = g[(n + 1) - 1] \o z[n + 1] BY <1>4, <3>1
    <3>3. QED BY <1>1, <3>1, <3>2
  <2>8. QED BY <1>1, <1>3, <2>1, <2>6, <2>7 DEF z
<1>7. QED BY <1>5, <1>6

LEMMA FunctionSeq ==
  ASSUME NEW Q, NEW n \in Nat, NEW f \in [1 .. n -> Q]
  PROVE  f \in Seq(Q) /\ Len(f) = n /\ DOMAIN f = 1 .. n
<1>1. f \in Seq(Q) BY SeqDef
<1>2. DOMAIN f = 1 .. Len(f) /\ Len(f) \in Nat BY <1>1, LenProperties
<1>3. QED BY <1>1, <1>2

(* Induction over sequences *)
LEMMA ByAppend ==
  ASSUME NEW P, NEW S, <<>> \in S, \A s \in Seq(P), e \in P : s \in S => Append(s, e) \in S
  PROVE  Seq(P) \subseteq S
<1> DEFINE N == {n \in Nat : \A s \in Seq(P) : Len(s) = n => s \in S}
<1>1. 0 \in N BY EmptySeq
<1>2. ASSUME NEW n \in Nat, n \in N PROVE n + 1 \in N
  <2> SUFFICES ASSUME NEW s \in Seq(P), Len(s) = n + 1 PROVE s \in S
    OBVIOUS
  <2>1. s # <<>> BY EmptySeq
  <2>2. PICK r \in Seq(P), e \in P : s = Append(r, e) BY <2>1, SequenceEmptyOrAppend
  <2>3. Len(r) = n
    <3>1. Len(s) = Len(r) + 1 /\ Len(r) \in Nat BY <2>2, AppendProperties, LenProperties
    <3>2. QED BY <3>1
  <2>4. r \in S BY <1>2, <2>3
  <2>5. QED BY <2>2, <2>4
<1>3. Nat \subseteq N
  <2> HIDE DEF N
  <2>1. QED BY <1>1, <1>2, SetInduction
<1>4. ASSUME NEW s \in Seq(P) PROVE s \in S
  <2>1. Len(s) \in N BY <1>3, LenProperties
  <2>2. QED BY <2>1
<1>5. QED BY <1>4

LEMMA Assoc ==
  ASSUME NEW P, NEW s \in Seq(P), NEW t \in Seq(P), NEW u \in Seq(P)
  PROVE  (s \o t) \o u = s \o (t \o u) /\ s \o t \in Seq(P)
BY ConcatAssociative, ConcatProperties

LEMMA ConcatAppend ==
  ASSUME NEW P, NEW s \in Seq(P), NEW t \in Seq(P), NEW e \in P
  PROVE  s \o Append(t, e) = Append(s \o t, e)
<1>1. <<e>> \in Seq(P) OBVIOUS
<1>2. Append(t, e) = t \o <<e>> BY AppendIsConcat
<1>3. Append(s \o t, e) = (s \o t) \o <<e>> BY Assoc, AppendIsConcat
<1>4. QED BY <1>1, <1>2, <1>3, Assoc

LEMMA FlattenEmpty == FlattenSeq(<<>>) = <<>>
<1>1. Len(<<>>) = 0 BY EmptySeq
<1>2. QED BY <1>1 DEF FlattenSeq

\* w says what becomes of each element.
Rewrites(P, Q) == [P -> Seq(Q)]
Images(w, s) == [i \in DOMAIN s |-> w[s[i]]]
Mapped(w, s) == FlattenSeq(Images(w, s))
EachMapped(w, x) == [i \in DOMAIN x |-> Mapped(w, x[i])]

LEMMA MappedEmpty == \A w : Mapped(w, <<>>) = <<>>
<1> SUFFICES ASSUME NEW w PROVE Mapped(w, <<>>) = <<>> OBVIOUS
<1>1. DOMAIN <<>> = {} OBVIOUS
<1>2. Images(w, <<>>) = <<>> BY <1>1 DEF Images
<1>3. QED BY <1>2, FlattenEmpty DEF Mapped

LEMMA MappedType ==
  ASSUME NEW P, NEW Q, NEW w \in Rewrites(P, Q), NEW s \in Seq(P)
  PROVE  /\ Images(w, s) \in Seq(Seq(Q)) /\ Len(Images(w, s)) = Len(s)
         /\ \A i \in 1 .. Len(s) : Images(w, s)[i] = w[s[i]]
         /\ Mapped(w, s) \in Seq(Q)
<1> DEFINE f == Images(w, s)
<1>1. Len(s) \in Nat /\ DOMAIN s = 1 .. Len(s) /\ \A i \in DOMAIN s : s[i] \in P
  BY LenProperties, ElementOfSeq
<1>2. f \in [1 .. Len(s) -> Seq(Q)] /\ \A i \in 1 .. Len(s) : f[i] = w[s[i]]
  BY <1>1 DEF Images, Rewrites
<1> HIDE DEF f
<1>3. f \in Seq(Seq(Q)) /\ Len(f) = Len(s) BY <1>1, <1>2, FunctionSeq
<1>4. Mapped(w, s) = FlattenSeq(f) BY DEF Mapped, f
<1>5. QED BY <1>2, <1>3, <1>4, FlattenType DEF f

LEMMA MappedAppend ==
  ASSUME NEW P, NEW Q, NEW w \in Rewrites(P, Q), NEW s \in Seq(P), NEW e \in P
  PROVE  Mapped(w, Append(s, e)) = Mapped(w, s) \o w[e]
<1> DEFINE t == Append(s, e)
           f == Images(w, s)
           g == Images(w, t)
           h == Append(f, w[e])
<1>1. /\ t \in Seq(P) /\ Len(t) = Len(s) + 1 /\ t[Len(s) + 1] = e
      /\ \A i \in 1 .. Len(s) : t[i] = s[i]
  BY AppendProperties
<1> HIDE DEF t
<1>2. /\ Len(s) \in Nat /\ DOMAIN s = 1 .. Len(s) /\ DOMAIN t = 1 .. Len(s) + 1
  BY <1>1, LenProperties
<1>3. /\ f \in Seq(Seq(Q)) /\ Len(f) = Len(s) /\ g \in Seq(Seq(Q)) /\ Len(g) = Len(s) + 1
  <2>1. Images(w, s) \in Seq(Seq(Q)) /\ Len(Images(w, s)) = Len(s) BY MappedType
  <2>2. Images(w, t) \in Seq(Seq(Q)) /\ Len(Images(w, t)) = Len(t) BY <1>1, MappedType
  <2>3. QED BY <1>1, <2>1, <2>2
<1>4. /\ \A i \in 1 .. Len(s) : f[i] = w[s[i]]
      /\ \A i \in 1 .. Len(s) + 1 : g[i] = w[t[i]]
  BY <1>1, MappedType
<1>5. Mapped(w, t) = FlattenSeq(g) /\ Mapped(w, s) = FlattenSeq(f) BY DEF Mapped
<1> HIDE DEF f, g
<1>6. /\ h \in Seq(Seq(Q)) /\ Len(h) = Len(s) + 1 /\ h[Len(s) + 1] = w[e]
      /\ \A i \in 1 .. Len(s) : h[i] = f[i]
  <2>1. w[e] \in Seq(Q) BY DEF Rewrites
  <2>2. QED BY <1>3, <2>1, AppendProperties
<1> HIDE DEF h
<1>7. ASSUME NEW i \in 1 .. Len(g) PROVE g[i] = h[i]
  <2>1. CASE i = Len(s) + 1 BY <1>1, <1>2, <1>4, <1>6, <2>1
  <2>2. CASE i \in 1 .. Len(s)
    <3>1. g[i] = w[t[i]] /\ t[i] = s[i] /\ h[i] = f[i] /\ f[i] = w[s[i]]
      BY <1>1, <1>2, <1>4, <1>6, <2>2
    <3>2. QED BY <3>1
  <2>3. QED BY <1>2, <1>3, <2>1, <2>2
<1>8. g = h BY <1>3, <1>6, <1>7, SeqEqual
<1>9. w[e] \in Seq(Q) BY DEF Rewrites
<1>10. FlattenSeq(h) = FlattenSeq(f) \o w[e] BY <1>3, <1>9, FlattenAppend DEF h
<1>11. QED BY <1>5, <1>8, <1>10 DEF t

\* What becomes of two sequences becomes of one after the other.
LEMMA MappedConcat ==
  ASSUME NEW P, NEW Q, NEW w \in Rewrites(P, Q), NEW s \in Seq(P), NEW t \in Seq(P)
  PROVE  Mapped(w, s \o t) = Mapped(w, s) \o Mapped(w, t)
<1> DEFINE S == {u \in Seq(P) : Mapped(w, s \o u) = Mapped(w, s) \o Mapped(w, u)}
<1>1. <<>> \in S
  <2>1. s \o <<>> = s BY ConcatEmptySeq
  <2>2. Mapped(w, s) \o <<>> = Mapped(w, s) BY MappedType, ConcatEmptySeq
  <2>3. QED BY <2>1, <2>2, MappedEmpty, EmptySeq
<1>2. ASSUME NEW u \in Seq(P), NEW e \in P, u \in S PROVE Append(u, e) \in S
  <2>1. s \o Append(u, e) = Append(s \o u, e) BY ConcatAppend
  <2>2. Mapped(w, Append(s \o u, e)) = Mapped(w, s \o u) \o w[e] 
    <3>1. s \o u \in Seq(P) BY Assoc
    <3>2. QED BY <3>1, MappedAppend
  <2>3. Mapped(w, Append(u, e)) = Mapped(w, u) \o w[e] BY MappedAppend
  <2>4. Mapped(w, s) \in Seq(Q) /\ Mapped(w, u) \in Seq(Q) /\ w[e] \in Seq(Q)
    BY MappedType DEF Rewrites
  <2>5. (Mapped(w, s) \o Mapped(w, u)) \o w[e] = Mapped(w, s) \o (Mapped(w, u) \o w[e])
    <3> DEFINE a == Mapped(w, s)  b == Mapped(w, u)  c == w[e]
    <3>1. a \in Seq(Q) /\ b \in Seq(Q) /\ c \in Seq(Q) BY <2>4
    <3> HIDE DEF a, b, c
    <3>2. (a \o b) \o c = a \o (b \o c) BY SMTT(60), <3>1, Assoc
    <3>3. QED BY <3>2 DEF a, b, c
  <2>6. Append(u, e) \in Seq(P) BY AppendProperties
  <2>7. QED BY <1>2, <2>1, <2>2, <2>3, <2>5, <2>6
<1>3. Seq(P) \subseteq S
  <2> HIDE DEF S
  <2>1. QED BY <1>1, <1>2, ByAppend
<1>4. QED BY <1>3

\* What becomes of segments becomes of the whole.
LEMMA MappedFlatten ==
  ASSUME NEW P, NEW Q, NEW w \in Rewrites(P, Q), NEW x \in Seq(Seq(P))
  PROVE  /\ EachMapped(w, x) \in Seq(Seq(Q)) /\ Len(EachMapped(w, x)) = Len(x)
         /\ Mapped(w, FlattenSeq(x)) = FlattenSeq(EachMapped(w, x))
<1> DEFINE y(z) == EachMapped(w, z)
           S == {z \in Seq(Seq(P)) : Mapped(w, FlattenSeq(z)) = FlattenSeq(y(z))}
<1>0. ASSUME NEW z \in Seq(Seq(P)) PROVE y(z) \in Seq(Seq(Q)) /\ Len(y(z)) = Len(z)
  <2>1. Len(z) \in Nat /\ DOMAIN z = 1 .. Len(z) /\ \A i \in DOMAIN z : z[i] \in Seq(P)
    BY LenProperties, ElementOfSeq
  <2>2. y(z) \in [1 .. Len(z) -> Seq(Q)] BY <2>1, MappedType DEF EachMapped
  <2> HIDE DEF y
  <2>3. QED BY <2>1, <2>2, FunctionSeq
<1>1. <<>> \in S
  <2>1. y(<<>>) = <<>> BY DEF EachMapped
  <2> HIDE DEF y
  <2>2. <<>> \in Seq(Seq(P)) BY EmptySeq
  <2>3. QED BY <2>1, <2>2, FlattenEmpty, MappedEmpty
<1>2. ASSUME NEW z \in Seq(Seq(P)), NEW e \in Seq(P), z \in S PROVE Append(z, e) \in S
  <2> DEFINE a == Append(z, e)
             b == Append(y(z), Mapped(w, e))
  <2>1. /\ a \in Seq(Seq(P)) /\ Len(a) = Len(z) + 1 /\ a[Len(z) + 1] = e
        /\ \A i \in 1 .. Len(z) : a[i] = z[i]
    BY AppendProperties
  <2> HIDE DEF a
  <2>2. /\ y(z) \in Seq(Seq(Q)) /\ Len(y(z)) = Len(z) /\ y(a) \in Seq(Seq(Q))
        /\ Len(y(a)) = Len(z) + 1 /\ Len(z) \in Nat /\ Mapped(w, e) \in Seq(Q)
    BY <1>0, <2>1, LenProperties, MappedType
  <2>3. /\ DOMAIN z = 1 .. Len(z) /\ DOMAIN a = 1 .. Len(z) + 1 BY <2>1, <2>2, LenProperties
  <2>4. /\ \A i \in 1 .. Len(z) : y(z)[i] = Mapped(w, z[i])
        /\ \A i \in 1 .. Len(z) + 1 : y(a)[i] = Mapped(w, a[i])
    BY <2>3 DEF EachMapped
  <2>5. Mapped(w, FlattenSeq(z)) = FlattenSeq(y(z)) BY <1>2
  <2> HIDE DEF y
  <2>6. /\ b \in Seq(Seq(Q)) /\ Len(b) = Len(z) + 1 /\ b[Len(z) + 1] = Mapped(w, e)
        /\ \A i \in 1 .. Len(z) : b[i] = y(z)[i]
    BY <2>2, AppendProperties
  <2> HIDE DEF b
  <2>7. ASSUME NEW i \in 1 .. Len(y(a)) PROVE y(a)[i] = b[i]
    <3>1. CASE i = Len(z) + 1 BY <2>1, <2>2, <2>4, <2>6, <3>1
    <3>2. CASE i \in 1 .. Len(z)
      <4>1. y(a)[i] = Mapped(w, a[i]) /\ a[i] = z[i] /\ b[i] = y(z)[i]
            /\ y(z)[i] = Mapped(w, z[i])
        BY <2>1, <2>2, <2>4, <2>6, <3>2
      <4>2. QED BY <4>1
    <3>3. QED BY <2>2, <3>1, <3>2
  <2>8. y(a) = b BY <2>2, <2>6, <2>7, SeqEqual
  <2>9. FlattenSeq(b) = FlattenSeq(y(z)) \o Mapped(w, e) BY <2>2, FlattenAppend DEF b
  <2>10. FlattenSeq(a) = FlattenSeq(z) \o e BY FlattenAppend DEF a
  <2>11. FlattenSeq(z) \in Seq(P) BY FlattenType
  <2>12. Mapped(w, FlattenSeq(a)) = Mapped(w, FlattenSeq(z)) \o Mapped(w, e)
    <3> DEFINE c == FlattenSeq(z)
    <3>1. c \in Seq(P) /\ FlattenSeq(a) = c \o e BY <2>10, <2>11
    <3> HIDE DEF c
    <3>2. Mapped(w, c \o e) = Mapped(w, c) \o Mapped(w, e) BY SMTT(60), <3>1, MappedConcat
    <3>3. QED BY <3>1, <3>2 DEF c
  <2>13. Mapped(w, FlattenSeq(a)) = FlattenSeq(y(a)) BY <2>5, <2>8, <2>9, <2>12
  <2>14. QED BY <2>1, <2>13 DEF a
<1>3. Seq(Seq(P)) \subseteq S
  <2> HIDE DEF S
  <2>1. QED BY <1>1, <1>2, ByAppend
<1>4. x \in S BY <1>3
<1>5. QED BY <1>0, <1>4

\* One and two elements
LEMMA MappedOne ==
  ASSUME NEW P, NEW Q, NEW w \in Rewrites(P, Q), NEW p \in P
  PROVE  Mapped(w, <<p>>) = w[p]
<1>1. <<>> \in Seq(P) OBVIOUS
<1>2. <<p>> = Append(<<>>, p) OBVIOUS
<1>3. Mapped(w, <<p>>) = <<>> \o w[p] BY <1>1, <1>2, MappedAppend, MappedEmpty
<1>4. <<>> \o w[p] = w[p] BY ConcatEmptySeq
<1>5. QED BY <1>3, <1>4

LEMMA MappedFew ==
  ASSUME NEW P, NEW Q, NEW w \in Rewrites(P, Q), NEW p \in P, NEW q \in P
  PROVE  Mapped(w, <<p, q>>) = w[p] \o w[q]
<1>1. <<p>> \in Seq(P) OBVIOUS
<1>2. <<p, q>> = Append(<<p>>, q) OBVIOUS
<1>3. Mapped(w, <<p>>) = w[p] BY MappedOne
<1>4. Mapped(w, <<p, q>>) = Mapped(w, <<p>>) \o w[q]
  BY <1>1, <1>2, MappedAppend
<1>5. QED BY <1>3, <1>4

-----------------------------------------------------------------------------
(* HttpsProxyRequest::parseHead *)

Pieces == [kind : Kinds, n : Nat, part : {"head", "body"}, left : Nat]

LEMMA LeastIs ==
  ASSUME NEW S \in SUBSET Nat, S # {}
  PROVE  Least(S) \in S /\ \A x \in S : Least(S) <= x
<1>1. \E m \in S : \A x \in S : m <= x BY LeastNat
<1>2. QED BY <1>1 DEF Least

\* The pieces of data, by offset
LEMMA DataPieces ==
  ASSUME NEW data \in Seq(Pieces)
  PROVE  /\ Len(data) \in Nat /\ DOMAIN data = 1 .. Len(data)
         /\ \A i \in 1 .. Len(data) : data[i] \in Pieces
         /\ \A o \in 0 .. Len(data) - 1 : data[o + 1] \in Pieces
<1>1. /\ Len(data) \in Nat /\ DOMAIN data = 1 .. Len(data)
      /\ \A i \in 1 .. Len(data) : data[i] \in Pieces
  BY LenProperties, ElementOfSeq
<1>2. ASSUME NEW o \in 0 .. Len(data) - 1 PROVE data[o + 1] \in Pieces
  <2>1. o + 1 \in 1 .. Len(data) BY <1>1
  <2>2. QED BY <1>1, <2>1
<1>3. QED BY <1>1, <1>2

FoundRule(data, start, end, g) ==
  [from \in 0 .. 2 * Len(data) |->
     LET S == Offsets(data, "source", from, end)
     IN  IF S = {} THEN {} ELSE {Least(S)} \cup g[start + Least(S) + 1]]

\* Where the search goes on, if it has found an address
LEMMA SearchGoesOn ==
  ASSUME NEW data, Len(data) \in Nat, NEW start \in 0 .. Len(data), NEW end \in 0 .. Len(data),
         NEW from \in 0 .. 2 * Len(data), Offsets(data, "source", from, end) # {}
  PROVE  LET S == Offsets(data, "source", from, end)
             o == Least(S)
         IN  /\ o \in S /\ o \in Nat /\ from <= o /\ o < end /\ data[o + 1].kind = "source"
             /\ \A x \in S : o <= x
             /\ start + o + 1 \in 0 .. 2 * Len(data) /\ from < start + o + 1
<1> DEFINE S == Offsets(data, "source", from, end)
           o == Least(S)
<1>1. S \in SUBSET Nat BY DEF Offsets
<1>2. o \in S /\ \A x \in S : o <= x BY <1>1, LeastIs
<1> HIDE DEF o
<1>3. o \in Nat /\ from <= o /\ o < end /\ data[o + 1].kind = "source" BY <1>2 DEF Offsets
<1>4. start + o + 1 \in 0 .. 2 * Len(data) /\ from < start + o + 1 BY <1>3
<1>5. QED BY <1>2, <1>3, <1>4 DEF o

\* The search of parseHead defines a function.
LEMMA ReplacedDefined ==
  ASSUME NEW data, Len(data) \in Nat, NEW start \in 0 .. Len(data), NEW end \in 0 .. Len(data)
  PROVE  \E g : g = FoundRule(data, start, end, g) /\ Replaced(data, start, end) = g[start]
<1> DEFINE T == 0 .. 2 * Len(data)
           V == SUBSET Nat
           S(from) == Offsets(data, "source", from, end)
           next(from) == start + Least(S(from)) + 1
           m == [from \in T |-> 2 * Len(data) - from]
           D == [from \in T |-> [g \in [T -> V] |->
                   IF S(from) = {} THEN {} ELSE {Least(S(from))} \cup g[next(from)]]]
<1>1. ASSUME NEW from \in T, S(from) # {}
      PROVE  next(from) \in T /\ Least(S(from)) \in Nat /\ from < next(from)
  BY <1>1, SearchGoesOn
<1> HIDE DEF S, next
<1>2. m \in [T -> Nat] OBVIOUS
<1>3. D \in [T -> [[T -> V] -> V]] BY <1>1
<1>4. Descends(T, V, m, D)
  <2>1. ASSUME NEW p \in T, NEW g \in [T -> V], NEW h \in [T -> V],
               \A q \in T : m[q] < m[p] => g[q] = h[q]
        PROVE  D[p][g] = D[p][h]
    <3>1. CASE S(p) = {} BY <3>1
    <3>2. CASE S(p) # {}
      <4>1. next(p) \in T /\ p < next(p) BY <1>1, <3>2
      <4>2. m[next(p)] < m[p] BY <4>1
      <4>3. g[next(p)] = h[next(p)] BY <2>1, <4>1, <4>2
      <4>4. QED BY <3>2, <4>3
    <3>3. QED BY <3>1, <3>2
  <2> HIDE DEF m, D, T, V
  <2>2. QED BY <2>1 DEF Descends
<1>5. PICK f \in [T -> V] : Solves(f, T, D)
  <2> HIDE DEF m, D, T
  <2>1. V # {} OBVIOUS
  <2> HIDE DEF V
  <2>2. QED BY <1>2, <1>3, <1>4, <2>1, RecursionExists
<1>6. \A p \in T : f[p] = IF S(p) = {} THEN {} ELSE {Least(S(p))} \cup f[next(p)]
  BY <1>5 DEF Solves
<1>7. f = FoundRule(data, start, end, f) BY <1>6 DEF FoundRule, S, next
<1>8. \E g : g = FoundRule(data, start, end, g) BY <1>7
<1> DEFINE c == CHOOSE g : g = FoundRule(data, start, end, g)
<1>9. c = FoundRule(data, start, end, c) BY <1>8
<1>10. Replaced(data, start, end) = c[start] BY Zenon DEF Replaced, FoundRule
<1> HIDE DEF c
<1>11. QED BY <1>9, <1>10

\* Only addresses between start and end are replaced.
LEMMA ReplacedSources ==
  ASSUME NEW data, Len(data) \in Nat, NEW start \in 0 .. Len(data), NEW end \in 0 .. Len(data)
  PROVE  Replaced(data, start, end) \subseteq Offsets(data, "source", start, end)
<1>1. PICK g : g = FoundRule(data, start, end, g) /\ Replaced(data, start, end) = g[start]
  BY ReplacedDefined
<1> DEFINE All == Offsets(data, "source", start, end)
           S(from) == Offsets(data, "source", from, end)
           T == 0 .. 2 * Len(data)
           N == {from \in T : start <= from => g[from] \subseteq All}
<1>2. \A p \in T : g[p] = IF S(p) = {} THEN {} ELSE {Least(S(p))} \cup g[start + Least(S(p)) + 1]
  <2>1. \A p \in T : FoundRule(data, start, end, g)[p]
                       = IF S(p) = {} THEN {} ELSE {Least(S(p))} \cup g[start + Least(S(p)) + 1]
    BY DEF FoundRule
  <2>2. QED BY <1>1, <2>1
<1>3. ASSUME NEW from \in T, \A q \in T : from < q => q \in N PROVE from \in N
  <2> SUFFICES ASSUME start <= from PROVE g[from] \subseteq All
    OBVIOUS
  <2>1. CASE S(from) = {} BY <1>2, <2>1
  <2>2. CASE S(from) # {}
    <3> DEFINE o == Least(S(from))
    <3>1. /\ o \in S(from) /\ o \in Nat /\ start + o + 1 \in T /\ from < start + o + 1
      BY <2>2, SearchGoesOn
    <3>2. S(from) \subseteq All BY DEF Offsets
    <3> HIDE DEF o
    <3>3. g[start + o + 1] \subseteq All BY <1>3, <3>1
    <3>4. g[from] = {o} \cup g[start + o + 1] BY <1>2, <2>2 DEF o
    <3>5. QED BY <3>1, <3>2, <3>3, <3>4
  <2>3. QED BY <2>1, <2>2
<1>4. T \subseteq N
  <2> DEFINE n == 2 * Len(data)
  <2>1. n \in Nat /\ T = 0 .. n OBVIOUS
  <2>2. \A k \in 0 .. n : (\A j \in 0 .. n : k < j => j \in N) => k \in N BY <1>3
  <2> HIDE DEF N, n, T
  <2>3. QED BY <2>1, <2>2, Downward
<1>5. start \in N BY <1>4
<1>6. QED BY <1>1, <1>5

\* In a head at the start of data every address is replaced.
LEMMA ReplacedAll ==
  ASSUME NEW data, Len(data) \in Nat, NEW end \in 0 .. Len(data)
  PROVE  Replaced(data, 0, end) = Offsets(data, "source", 0, end)
<1>0. 0 \in 0 .. Len(data) OBVIOUS
<1>1. PICK g : g = FoundRule(data, 0, end, g) /\ Replaced(data, 0, end) = g[0]
  BY <1>0, ReplacedDefined
<1> DEFINE S(from) == Offsets(data, "source", from, end)
           T == 0 .. 2 * Len(data)
           N == {from \in T : g[from] = S(from)}
<1>2. \A p \in T : g[p] = IF S(p) = {} THEN {} ELSE {Least(S(p))} \cup g[0 + Least(S(p)) + 1]
  <2>1. \A p \in T : FoundRule(data, 0, end, g)[p]
                       = IF S(p) = {} THEN {} ELSE {Least(S(p))} \cup g[0 + Least(S(p)) + 1]
    BY DEF FoundRule
  <2>2. QED BY <1>1, <2>1
<1>3. ASSUME NEW from \in T, \A q \in T : from < q => q \in N PROVE from \in N
  <2>1. CASE S(from) = {} BY <1>2, <2>1
  <2>2. CASE S(from) # {}
    <3> DEFINE o == Least(S(from))
               i == 0 + o + 1
    <3>1. /\ o \in S(from) /\ o \in Nat /\ i \in T /\ from < i /\ \A x \in S(from) : o <= x
      BY <1>0, <2>2, SearchGoesOn
    <3>2. g[from] = {o} \cup g[i] BY <1>2, <2>2
    <3>3. g[i] = S(i) BY <1>3, <3>1
    <3> HIDE DEF o
    <3>4. i = o + 1 BY <3>1
    <3>5. S(from) = {o} \cup S(i) BY <3>1, <3>4 DEF Offsets
    <3>6. QED BY <3>2, <3>3, <3>5
  <2>3. QED BY <2>1, <2>2
<1>4. T \subseteq N
  <2> DEFINE n == 2 * Len(data)
  <2>1. n \in Nat /\ T = 0 .. n OBVIOUS
  <2>2. \A k \in 0 .. n : (\A j \in 0 .. n : k < j => j \in N) => k \in N BY <1>3
  <2> HIDE DEF N, n, T
  <2>3. QED BY <2>1, <2>2, Downward
<1>5. 0 \in N BY <1>4
<1>6. QED BY <1>1, <1>5

LEMMA ReplacementIs ==
  ASSUME NEW p \in Pieces
  PROVE  LET p1 == [p EXCEPT !.kind = "proxy1"]
             p2 == [p EXCEPT !.kind = "proxy2"]
         IN  /\ Replacement(p) = <<p1, p2>> /\ Replacement(p) \in Seq(Pieces)
             /\ p1 \in Pieces /\ p1.kind = "proxy1" /\ p1.part = p.part
             /\ p2 \in Pieces /\ p2.kind = "proxy2" /\ p2.part = p.part
<1> DEFINE p1 == [p EXCEPT !.kind = "proxy1"]
           p2 == [p EXCEPT !.kind = "proxy2"]
<1>1. /\ p1 \in Pieces /\ p1.kind = "proxy1" /\ p1.part = p.part
      /\ p2 \in Pieces /\ p2.kind = "proxy2" /\ p2.part = p.part
  BY DEF Pieces, Kinds
<1>2. Replacement(p) = <<p1, p2>> BY DEF Replacement
<1> HIDE DEF p1, p2
<1>3. <<p1, p2>> \in Seq(Pieces) BY <1>1
<1>4. QED BY <1>1, <1>2, <1>3 DEF p1, p2

\* What becomes of the piece at offset o
Rewrite(data, offsets, o) == IF o \in offsets THEN Replacement(data[o + 1]) ELSE <<data[o + 1]>>

LEMMA RewrittenIs ==
  ASSUME NEW data \in Seq(Pieces), NEW start \in 0 .. Len(data), NEW end \in start .. Len(data)
  PROVE  \E x \in Seq(Seq(Pieces)) :
           /\ Rewritten(data, start, end) = FlattenSeq(x) /\ Len(x) = end - start
           /\ DOMAIN x = 1 .. end - start
           /\ \A i \in 1 .. end - start :
                x[i] = Rewrite(data, Replaced(data, start, end), start + i - 1)
<1> DEFINE k == end - start
           offsets == Replaced(data, start, end)
           x == [i \in 1 .. k |-> Rewrite(data, offsets, start + i - 1)]
<1>1. Len(data) \in Nat /\ \A i \in 1 .. Len(data) : data[i] \in Pieces BY DataPieces
<1>2. k \in Nat BY <1>1
<1>3. ASSUME NEW i \in 1 .. k PROVE Rewrite(data, offsets, start + i - 1) \in Seq(Pieces)
  <2> DEFINE o == start + i - 1
  <2>1. o + 1 \in 1 .. Len(data) BY <1>1
  <2>2. data[o + 1] \in Pieces BY <1>1, <2>1
  <2> HIDE DEF o
  <2>3. <<data[o + 1]>> \in Seq(Pieces) /\ Replacement(data[o + 1]) \in Seq(Pieces)
    <3> DEFINE p == data[o + 1]
    <3>1. p \in Pieces BY <2>2
    <3> HIDE DEF p
    <3>2. <<p>> \in Seq(Pieces) BY <3>1
    <3>3. Replacement(p) \in Seq(Pieces) BY <3>1, ReplacementIs, Zenon
    <3>4. QED BY <3>2, <3>3 DEF p
  <2>4. QED BY <2>3 DEF Rewrite, o
<1>4. x \in [1 .. k -> Seq(Pieces)] BY <1>3
<1>5. Rewritten(data, start, end) = FlattenSeq(x) BY DEF Rewritten, Rewrite
<1>6. \A i \in 1 .. k : x[i] = Rewrite(data, offsets, start + i - 1) OBVIOUS
<1> HIDE DEF x
<1>7. x \in Seq(Seq(Pieces)) /\ Len(x) = k /\ DOMAIN x = 1 .. k BY <1>2, <1>4, FunctionSeq
<1>8. QED BY <1>5, <1>6, <1>7

LEMMA RewrittenType ==
  ASSUME NEW data \in Seq(Pieces), NEW start \in 0 .. Len(data), NEW end \in start .. Len(data)
  PROVE  Rewritten(data, start, end) \in Seq(Pieces)
<1>1. PICK x \in Seq(Seq(Pieces)) : Rewritten(data, start, end) = FlattenSeq(x)
  BY RewrittenIs
<1>2. QED BY <1>1, FlattenType

\* The pieces of a part of data
LEMMA PartPieces ==
  ASSUME NEW data \in Seq(Pieces), NEW start \in 0 .. Len(data), NEW end \in start .. Len(data)
  PROVE  LET s == SubSeq(data, start + 1, end) IN
         /\ s \in Seq(Pieces) /\ Len(s) = end - start /\ DOMAIN s = 1 .. end - start
         /\ \A i \in 1 .. end - start : s[i] = data[start + i]
<1> DEFINE s == SubSeq(data, start + 1, end)
           k == end - start
           m == start + 1
<1>1. Len(data) \in Nat /\ \A i \in 1 .. Len(data) : data[i] \in Pieces BY DataPieces
<1>2. /\ m \in Int /\ end \in Int /\ \A i \in m .. end : data[i] \in Pieces
  BY <1>1
<1>3. s = SubSeq(data, m, end) OBVIOUS
<1> HIDE DEF s, m
<1>4. /\ s \in Seq(Pieces) /\ Len(s) = IF m <= end THEN end - m + 1 ELSE 0
      /\ \A i \in 1 .. end - m + 1 : s[i] = data[m + i - 1]
  BY <1>2, <1>3, SubSeqProperties
<1>5. Len(s) = k /\ \A i \in 1 .. k : s[i] = data[start + i] BY <1>1, <1>4 DEF m
<1>6. DOMAIN s = 1 .. k BY <1>4, <1>5, LenProperties
<1>7. QED BY <1>4, <1>5, <1>6 DEF s

IgnoresReplacement(w, data, start, end) ==
  \A o \in Offsets(data, "source", start, end) :
    Mapped(w, Replacement(data[o + 1])) = w[data[o + 1]]

\* A choice that does not tell an address from its replacement does not tell a
\* head from what it is rewritten to.
LEMMA RewrittenMapped ==
  ASSUME NEW data \in Seq(Pieces), NEW start \in 0 .. Len(data), NEW end \in start .. Len(data),
         NEW Q, NEW w \in Rewrites(Pieces, Q),
         IgnoresReplacement(w, data, start, end)
  PROVE  Mapped(w, Rewritten(data, start, end)) = Mapped(w, SubSeq(data, start + 1, end))
<1> DEFINE k == end - start
           offsets == Replaced(data, start, end)
           s == SubSeq(data, start + 1, end)
<1>1. Len(data) \in Nat /\ k \in Nat /\ \A i \in 1 .. Len(data) : data[i] \in Pieces BY DataPieces
<1>2. PICK x \in Seq(Seq(Pieces)) :
        /\ Rewritten(data, start, end) = FlattenSeq(x) /\ Len(x) = k /\ DOMAIN x = 1 .. k
        /\ \A i \in 1 .. k : x[i] = Rewrite(data, offsets, start + i - 1)
  BY RewrittenIs
<1>3. offsets \subseteq Offsets(data, "source", start, end)
  <2>1. end \in 0 .. Len(data) BY <1>1
  <2>2. QED BY <1>1, <2>1, ReplacedSources
<1> DEFINE y == EachMapped(w, x)
           z == Images(w, s)
<1>4. y \in Seq(Seq(Q)) /\ Len(y) = k /\ Mapped(w, FlattenSeq(x)) = FlattenSeq(y)
  <2>1. /\ y \in Seq(Seq(Q)) /\ Len(y) = Len(x)
        /\ Mapped(w, FlattenSeq(x)) = FlattenSeq(y)
    BY <1>2, MappedFlatten
  <2>2. QED BY <1>2, <2>1
<1>5. \A i \in 1 .. k : y[i] = Mapped(w, x[i]) BY <1>2 DEF EachMapped
<1> HIDE DEF y
<1>6. s \in Seq(Pieces) /\ Len(s) = k /\ \A i \in 1 .. k : s[i] = data[start + i] BY PartPieces
<1> HIDE DEF s
<1>7. z \in Seq(Seq(Q)) /\ Len(z) = k /\ \A i \in 1 .. k : z[i] = w[s[i]]
  <2>1. /\ Images(w, s) \in Seq(Seq(Q)) /\ Len(Images(w, s)) = Len(s)
        /\ \A i \in 1 .. Len(s) : Images(w, s)[i] = w[s[i]]
    BY <1>6, MappedType, Z3
  <2>2. QED BY <1>6, <2>1
<1> HIDE DEF z
<1>8. ASSUME NEW i \in 1 .. k PROVE y[i] = z[i]
  <2> DEFINE o == start + i - 1
             p == data[start + i]
  <2>1. start + i \in 1 .. Len(data) /\ o + 1 = start + i BY <1>1
  <2>2. p \in Pieces /\ data[o + 1] = p BY <1>1, <2>1
  <2>3. y[i] = Mapped(w, Rewrite(data, offsets, o)) /\ z[i] = w[p] BY <1>2, <1>5, <1>6, <1>7
  <2> HIDE DEF o, p
  <2>4. CASE o \in offsets BY <1>3, <2>2, <2>3, <2>4 DEF Rewrite, IgnoresReplacement
  <2>5. CASE o \notin offsets
    <3>1. Mapped(w, <<p>>) = w[p] BY <2>2, MappedOne
    <3>2. QED BY <2>2, <2>3, <2>5, <3>1 DEF Rewrite
  <2>6. QED BY <2>4, <2>5
<1>9. y = z BY <1>4, <1>7, <1>8, SeqEqual
<1>10. Mapped(w, s) = FlattenSeq(z) BY DEF Mapped, z
<1>11. QED BY <1>2, <1>4, <1>9, <1>10 DEF s

Substitutes(w, data, end) ==
  \A o \in 0 .. end - 1 :
    w[data[o + 1]] = IF data[o + 1].kind = "source" THEN Replacement(data[o + 1])
                     ELSE <<data[o + 1]>>

\* A head at the start of data is rewritten piece by piece.
LEMMA RewrittenAll ==
  ASSUME NEW data \in Seq(Pieces), NEW end \in 0 .. Len(data), NEW w \in Rewrites(Pieces, Pieces),
         Substitutes(w, data, end)
  PROVE  Rewritten(data, 0, end) = Mapped(w, SubSeq(data, 1, end))
<1> DEFINE offsets == Replaced(data, 0, end)
           s == SubSeq(data, 0 + 1, end)
           z == Images(w, s)
<1>1. /\ Len(data) \in Nat /\ end \in Nat /\ 0 \in 0 .. Len(data) /\ end - 0 = end
      /\ \A i \in 1 .. Len(data) : data[i] \in Pieces
  BY DataPieces
<1>2. PICK x \in Seq(Seq(Pieces)) :
        /\ Rewritten(data, 0, end) = FlattenSeq(x) /\ Len(x) = end - 0 /\ DOMAIN x = 1 .. end - 0
        /\ \A i \in 1 .. end - 0 : x[i] = Rewrite(data, offsets, 0 + i - 1)
  BY <1>1, RewrittenIs
<1>3. offsets = Offsets(data, "source", 0, end) BY <1>1, ReplacedAll
<1>6. s \in Seq(Pieces) /\ Len(s) = end - 0 /\ \A i \in 1 .. end - 0 : s[i] = data[0 + i]
  BY <1>1, PartPieces
<1>7. s = SubSeq(data, 1, end) OBVIOUS
<1> HIDE DEF s
<1>8. z \in Seq(Seq(Pieces)) /\ Len(z) = end /\ \A i \in 1 .. end : z[i] = w[s[i]]
  <2>1. /\ Images(w, s) \in Seq(Seq(Pieces)) /\ Len(Images(w, s)) = Len(s)
        /\ \A i \in 1 .. Len(s) : Images(w, s)[i] = w[s[i]]
    <3>1. s \in Seq(Pieces) BY <1>6
    <3>2. QED BY <3>1, MappedType
  <2>2. QED BY <1>1, <1>6, <2>1
<1> HIDE DEF z
<1>9. ASSUME NEW i \in 1 .. end PROVE x[i] = z[i]
  <2> DEFINE o == i - 1
  <2>1. o \in 0 .. end - 1 /\ o + 1 = i /\ 0 + i = i /\ 0 + i - 1 = o BY <1>1
  <2>2. x[i] = Rewrite(data, offsets, o) /\ z[i] = w[data[i]] BY <1>1, <1>2, <1>6, <1>8, <2>1
  <2> HIDE DEF o
  <2>3. o \in offsets <=> data[i].kind = "source" BY <1>3, <2>1 DEF Offsets
  <2>4. QED BY <2>1, <2>2, <2>3 DEF Rewrite, Substitutes
<1>10. x = z
  <2>1. Len(x) = Len(z) /\ \A i \in 1 .. Len(x) : x[i] = z[i] BY <1>1, <1>2, <1>8, <1>9
  <2>2. QED BY <1>2, <1>8, <2>1, SeqEqual, Zenon
<1>11. Mapped(w, s) = FlattenSeq(z) BY DEF Mapped, z
<1>12. QED BY <1>2, <1>7, <1>10, <1>11

-----------------------------------------------------------------------------
(* HttpsProxyRequest::parseHttpRequest: the loop *)

\* The pieces between two offsets
Stretch(data, start, end) == SubSeq(data, start + 1, end)

LEMMA StretchType ==
  ASSUME NEW data \in Seq(Pieces), NEW start \in 0 .. Len(data), NEW end \in start .. Len(data)
  PROVE  Stretch(data, start, end) \in Seq(Pieces) /\ Len(Stretch(data, start, end)) = end - start
BY PartPieces DEF Stretch

LEMMA StretchPiece ==
  ASSUME NEW data \in Seq(Pieces), NEW start \in 0 .. Len(data), NEW end \in start .. Len(data),
         NEW i \in 1 .. end - start
  PROVE  Stretch(data, start, end)[i] = data[start + i]
BY PartPieces DEF Stretch

LEMMA StretchJoin ==
  ASSUME NEW data \in Seq(Pieces), NEW x \in 0 .. Len(data), NEW y \in x .. Len(data),
         NEW z \in y .. Len(data)
  PROVE  Stretch(data, x, y) \o Stretch(data, y, z) = Stretch(data, x, z)
<1> DEFINE s == Stretch(data, x, y)
           t == Stretch(data, y, z)
           u == Stretch(data, x, z)
<1>1. Len(data) \in Nat /\ x \in Nat /\ y \in Nat /\ z \in Nat /\ x <= y /\ y <= z
      /\ y \in 0 .. Len(data) /\ z \in x .. Len(data)
  BY DataPieces
<1>2. /\ s \in Seq(Pieces) /\ Len(s) = y - x /\ \A i \in 1 .. y - x : s[i] = data[x + i]
      /\ t \in Seq(Pieces) /\ Len(t) = z - y /\ \A i \in 1 .. z - y : t[i] = data[y + i]
      /\ u \in Seq(Pieces) /\ Len(u) = z - x /\ \A i \in 1 .. z - x : u[i] = data[x + i]
  BY <1>1, StretchType, StretchPiece
<1> HIDE DEF s, t, u
<1>3. s \o t \in Seq(Pieces) /\ Len(s \o t) = z - x BY <1>1, <1>2, ConcatProperties
<1>4. ASSUME NEW i \in 1 .. z - x PROVE (s \o t)[i] = u[i]
  <2>1. CASE i <= y - x
    <3>1. i \in 1 .. y - x BY <1>1, <2>1
    <3>2. (s \o t)[i] = s[i] BY <1>1, <1>2, <2>1, ConcatProperties
    <3>3. QED BY <1>2, <3>1, <3>2
  <2>2. CASE ~(i <= y - x)
    <3> DEFINE j == i - (y - x)
    <3>1. j \in 1 .. z - y /\ y + j = x + i BY <1>1, <2>2
    <3>2. i \in 1 .. Len(s) + Len(t) /\ ~(i <= Len(s)) /\ j = i - Len(s)
      BY <1>1, <1>2, <2>2
    <3> HIDE DEF j
    <3>3. (s \o t)[i] = IF i <= Len(s) THEN s[i] ELSE t[i - Len(s)]
      BY <1>2, <3>2, ConcatProperties, Zenon
    <3>4. (s \o t)[i] = t[j] BY <3>2, <3>3
    <3>5. QED BY <1>2, <3>1, <3>4
  <2>3. QED BY <2>1, <2>2
<1>5. s \o t = u BY <1>2, <1>3, <1>4, SeqEqual
<1>6. QED BY <1>5 DEF s, t, u

LEMMA MappedJoin ==
  ASSUME NEW data \in Seq(Pieces), NEW x \in 0 .. Len(data), NEW y \in x .. Len(data),
         NEW z \in y .. Len(data), NEW Q, NEW w \in Rewrites(Pieces, Q)
  PROVE  Mapped(w, Stretch(data, x, y)) \o Mapped(w, Stretch(data, y, z))
           = Mapped(w, Stretch(data, x, z))
<1>1. y \in 0 .. Len(data) BY DataPieces
<1> DEFINE s == Stretch(data, x, y)
           t == Stretch(data, y, z)
<1>2. s \in Seq(Pieces) /\ t \in Seq(Pieces) BY <1>1, StretchType
<1>3. s \o t = Stretch(data, x, z) BY StretchJoin
<1> HIDE DEF s, t
<1>4. Mapped(w, s \o t) = Mapped(w, s) \o Mapped(w, t) BY <1>2, MappedConcat
<1>5. QED BY <1>3, <1>4 DEF s, t

\* A head, from start on, that ends at end
HeadAt(data, start, end) ==
  /\ end \in start .. Len(data) - 2 /\ data[end + 1].kind = "half" /\ data[end + 2].kind = "half"
  /\ \A o \in start .. end - 1 : ~(data[o + 1].kind = "half" /\ data[o + 2].kind = "half")

End(data, start)   == Least(HeadEnds(data, start))
After(data, start) == End(data, start) + 2
Size(data, start)  == ContentLength(data, start, End(data, start))
NewHead(data, start)  == Rewritten(data, start, End(data, start))
Here(data, start)  == NewHead(data, start) \o Stretch(data, End(data, start), After(data, start))

\* How the loop leaves a start: there is no head, a head whose body data does
\* not hold behind its end, or a head and its body.
NoHead(data, start)  == HeadEnds(data, start) = {}
Partial(data, start) == /\ HeadEnds(data, start) # {}
                        /\ Size(data, start) > 0 /\ Len(data) - After(data, start) <= Size(data, start)
Whole(data, start)   == HeadEnds(data, start) # {} /\ ~Partial(data, start)

LEMMA HeadEndIs ==
  ASSUME NEW data \in Seq(Pieces), NEW start \in 0 .. Len(data), ~NoHead(data, start)
  PROVE  HeadAt(data, start, End(data, start))
<1> DEFINE S == HeadEnds(data, start)
           end == End(data, start)
<1>1. Len(data) \in Nat BY DataPieces
<1>2. S \in SUBSET Nat /\ S # {} BY <1>1 DEF HeadEnds, NoHead
<1>3. end \in S /\ \A x \in S : end <= x
  <2> HIDE DEF S
  <2>1. QED BY <1>2, LeastIs DEF End, S
<1> HIDE DEF end
<1>4. /\ end \in start .. Len(data) - 2 /\ data[end + 1].kind = "half"
      /\ data[end + 2].kind = "half"
  BY <1>3 DEF HeadEnds
<1>5. ASSUME NEW o \in start .. end - 1
      PROVE  ~(data[o + 1].kind = "half" /\ data[o + 2].kind = "half")
  <2>1. o \in start .. Len(data) - 2 /\ ~(end <= o) BY <1>1, <1>4
  <2>2. QED BY <1>3, <2>1 DEF HeadEnds
<1>6. QED BY <1>4, <1>5 DEF HeadAt, end

\* The value of Content-Length is 0, or that of a piece of the head.
LEMMA ContentLengthIs ==
  ASSUME NEW data \in Seq(Pieces), NEW start \in 0 .. Len(data), NEW end \in start .. Len(data)
  PROVE  LET n == ContentLength(data, start, end)
         IN  /\ n \in Nat
             /\ \/ n = 0
                \/ \E o \in start .. end - 1 : data[o + 1].kind = "length" /\ n = data[o + 1].n
<1> DEFINE S == Offsets(data, "length", start, end)
           n == ContentLength(data, start, end)
           o == Least(S)
<1>1. Len(data) \in Nat /\ \A x \in 0 .. Len(data) - 1 : data[x + 1] \in Pieces BY DataPieces
<1>2. CASE S = {} BY <1>2 DEF ContentLength
<1>3. CASE S # {}
  <2>1. S \in SUBSET Nat BY <1>1 DEF Offsets
  <2>2. o \in S
    <3> HIDE DEF S
    <3>1. QED BY <1>3, <2>1, LeastIs
  <2>3. n = data[o + 1].n BY <1>3 DEF ContentLength
  <2> HIDE DEF o, n
  <2>4. o \in start .. end - 1 /\ data[o + 1].kind = "length" BY <2>2 DEF Offsets
  <2>5. o \in 0 .. Len(data) - 1 BY <1>1, <2>4
  <2>6. data[o + 1].n \in Nat BY <1>1, <2>5 DEF Pieces
  <2>7. QED BY <2>3, <2>4, <2>6 DEF n
<1>4. QED BY <1>2, <1>3

\* A head and its end, as they are forwarded
LEMMA HereIs ==
  ASSUME NEW data \in Seq(Pieces), NEW start \in 0 .. Len(data), ~NoHead(data, start)
  PROVE  /\ End(data, start) \in start .. Len(data) - 2
         /\ After(data, start) \in start + 2 .. Len(data) /\ Size(data, start) \in Nat
         /\ NewHead(data, start) \in Seq(Pieces)
         /\ Here(data, start) \in Seq(Pieces)
         /\ Len(Here(data, start)) = HeadCount(NewHead(data, start))
         /\ Whole(data, start) => After(data, start) + Size(data, start) \in start + 2 .. Len(data)
<1> DEFINE end == End(data, start)
           after == After(data, start)
           h == NewHead(data, start)
           t == Stretch(data, end, after)
<1>1. Len(data) \in Nat BY DataPieces
<1>2. end \in start .. Len(data) - 2 BY HeadEndIs DEF HeadAt
<1>3. after \in start + 2 .. Len(data) /\ after = end + 2 BY <1>1, <1>2 DEF After
<1>4. end \in start .. Len(data) /\ end \in 0 .. Len(data) /\ after \in end .. Len(data)
      /\ after - end = 2
  BY <1>1, <1>2, <1>3
<1>5. Size(data, start) \in Nat BY <1>4, ContentLengthIs DEF Size
<1>6. h \in Seq(Pieces) BY <1>4, RewrittenType DEF NewHead
<1>7. t \in Seq(Pieces) /\ Len(t) = 2 BY <1>4, StretchType
<1>8. Here(data, start) = h \o t BY DEF Here
<1>9. Whole(data, start) => after + Size(data, start) \in start + 2 .. Len(data)
  <2> DEFINE n == Size(data, start)
  <2>1. n \in Nat /\ (Whole(data, start) => ~(n > 0 /\ Len(data) - after <= n))
    BY <1>5 DEF Whole, Partial
  <2> HIDE DEF n, after, end
  <2>2. QED BY <1>1, <1>3, <2>1 DEF n
<1> HIDE DEF t, h, end, after
<1>10. h \o t \in Seq(Pieces) /\ Len(h \o t) = Len(h) + 2
  <2>1. h \o t \in Seq(Pieces) /\ Len(h \o t) = Len(h) + Len(t)
    BY <1>6, <1>7, ConcatProperties
  <2>2. QED BY <1>7, <2>1
<1>11. QED BY <1>2, <1>3, <1>5, <1>6, <1>8, <1>9, <1>10 DEF HeadCount, h, end, after

Scans == [out : Seq(Pieces), count : Nat, rest : Nat, upgrade : BOOLEAN]

\* One turn of the loop, if next is what the turns after it return
Turn(data, start, next) ==
  CASE HeadEnds(data, start) = {} ->
         [out |-> SubSeq(data, start + 1, Len(data)), count |-> Len(data) - start,
          rest |-> 0, upgrade |-> FALSE]
    [] HeadEnds(data, start) # {} /\ Size(data, start) > 0
         /\ Len(data) - After(data, start) <= Size(data, start) ->
         [out |-> Here(data, start) \o SubSeq(data, After(data, start) + 1, Len(data)),
          count |-> HeadCount(NewHead(data, start)) + (Len(data) - After(data, start)),
          rest |-> Missing(data, After(data, start), Size(data, start)),
          upgrade |-> Upgrades(data, start, End(data, start))]
    [] OTHER ->
         [out |-> Here(data, start) \o SubSeq(data, After(data, start) + 1,
                                              After(data, start) + Size(data, start)) \o next.out,
          count |-> HeadCount(NewHead(data, start)) + Size(data, start) + next.count,
          rest |-> next.rest,
          upgrade |-> Upgrades(data, start, End(data, start)) \/ next.upgrade]

LEMMA TurnNoHead ==
  ASSUME NEW data, NEW start, NEW next, NoHead(data, start)
  PROVE  Turn(data, start, next)
           = [out |-> Stretch(data, start, Len(data)), count |-> Len(data) - start,
              rest |-> 0, upgrade |-> FALSE]
BY DEF NoHead, Turn, Stretch

LEMMA TurnPartial ==
  ASSUME NEW data, NEW start, NEW next, Partial(data, start)
  PROVE  Turn(data, start, next)
           = [out |-> Here(data, start) \o Stretch(data, After(data, start), Len(data)),
              count |-> HeadCount(NewHead(data, start)) + (Len(data) - After(data, start)),
              rest |-> Missing(data, After(data, start), Size(data, start)),
              upgrade |-> Upgrades(data, start, End(data, start))]
BY DEF Partial, Turn, Stretch

LEMMA TurnWhole ==
  ASSUME NEW data, NEW start, NEW next, Whole(data, start)
  PROVE  Turn(data, start, next)
           = [out |-> Here(data, start) \o Stretch(data, After(data, start),
                                             After(data, start) + Size(data, start)) \o next.out,
              count |-> HeadCount(NewHead(data, start)) + Size(data, start) + next.count,
              rest |-> next.rest,
              upgrade |-> Upgrades(data, start, End(data, start)) \/ next.upgrade]
BY DEF Whole, Partial, Turn, Stretch

LEMMA TurnOut ==
  ASSUME NEW data, NEW start, NEW next, Whole(data, start)
  PROVE  Turn(data, start, next).out
           = Here(data, start) \o Stretch(data, After(data, start),
                                          After(data, start) + Size(data, start)) \o next.out
<1> DEFINE v == Here(data, start) \o Stretch(data, After(data, start),
                                         After(data, start) + Size(data, start)) \o next.out
           k == HeadCount(NewHead(data, start)) + Size(data, start) + next.count
           up == Upgrades(data, start, End(data, start)) \/ next.upgrade
<1>1. Turn(data, start, next) = [out |-> v, count |-> k, rest |-> next.rest, upgrade |-> up]
  BY TurnWhole
<1> HIDE DEF v, k, up
<1>2. Turn(data, start, next).out = v BY <1>1
<1>3. QED BY <1>2 DEF v

LEMMA TurnType ==
  ASSUME NEW data \in Seq(Pieces), NEW start \in 0 .. Len(data), NEW next,
         Whole(data, start) => next \in Scans
  PROVE  Turn(data, start, next) \in Scans
<1> DEFINE end == End(data, start)
           after == After(data, start)
           n == Size(data, start)
           here == Here(data, start)
           up == Upgrades(data, start, end)
           H == HeadCount(NewHead(data, start))
<1>1. Len(data) \in Nat BY DataPieces
<1>2. CASE NoHead(data, start)
  <2> DEFINE o == Stretch(data, start, Len(data))
             k == Len(data) - start
  <2>1. o \in Seq(Pieces) /\ k \in Nat BY <1>1, StretchType
  <2>2. Turn(data, start, next) = [out |-> o, count |-> k, rest |-> 0, upgrade |-> FALSE]
    BY <1>2, TurnNoHead
  <2> HIDE DEF o, k
  <2>3. QED BY <2>1, <2>2 DEF Scans
<1>3. CASE ~NoHead(data, start)
  <2>1. /\ after \in start + 2 .. Len(data) /\ n \in Nat /\ here \in Seq(Pieces)
        /\ H = Len(here) /\ (Whole(data, start) => after + n \in start + 2 .. Len(data))
    BY <1>3, HereIs
  <2>2. up \in BOOLEAN BY DEF Upgrades
  <2>3. after \in 0 .. Len(data) /\ H \in Nat BY <1>1, <2>1, LenProperties
  <2>4. CASE Partial(data, start)
    <3> DEFINE t == Stretch(data, after, Len(data))
    <3>1. t \in Seq(Pieces) BY <1>1, <2>3, StretchType
    <3>2. Missing(data, after, n) \in Nat /\ Len(data) - after \in Nat
      <4>1. Len(data) - after <= n BY <2>4 DEF Partial
      <4> HIDE DEF after, n
      <4>2. QED BY <1>1, <2>1, <2>3, <4>1 DEF Missing
    <3>3. Turn(data, start, next)
            = [out |-> here \o t, count |-> H + (Len(data) - after),
               rest |-> Missing(data, after, n), upgrade |-> up]
      BY <2>4, TurnPartial
    <3> HIDE DEF t, here, H, up, after, n
    <3>4. here \o t \in Seq(Pieces) BY <2>1, <3>1, ConcatProperties
    <3>5. H + (Len(data) - after) \in Nat BY <2>3, <3>2
    <3>6. QED BY <2>2, <3>2, <3>3, <3>4, <3>5 DEF Scans
  <2>5. CASE Whole(data, start)
    <3> DEFINE t == Stretch(data, after, after + n)
    <3>1. t \in Seq(Pieces)
      <4>1. after + n \in after .. Len(data) BY <1>1, <2>1, <2>3, <2>5
      <4>2. QED BY <2>3, <4>1, StretchType
    <3>2. /\ next.out \in Seq(Pieces) /\ next.count \in Nat /\ next.rest \in Nat
          /\ next.upgrade \in BOOLEAN
      BY <2>5 DEF Scans
    <3>3. Turn(data, start, next)
            = [out |-> here \o t \o next.out, count |-> H + n + next.count,
               rest |-> next.rest, upgrade |-> up \/ next.upgrade]
      BY <2>5, TurnWhole
    <3> HIDE DEF t, here, H, up, after, n
    <3>4. here \o t \o next.out \in Seq(Pieces)
      <4>1. here \o t \in Seq(Pieces) BY <2>1, <3>1, ConcatProperties
      <4>2. QED BY <3>2, <4>1, ConcatProperties
    <3>5. H + n + next.count \in Nat BY <2>1, <2>3, <3>2
    <3>6. (up \/ next.upgrade) \in BOOLEAN BY <2>2, <3>2
    <3> DEFINE u == up \/ next.upgrade
               o == here \o t \o next.out
               k == H + n + next.count
    <3>7. Turn(data, start, next) = [out |-> o, count |-> k, rest |-> next.rest, upgrade |-> u]
      BY <3>3
    <3>8. o \in Seq(Pieces) /\ k \in Nat /\ u \in BOOLEAN BY <3>4, <3>5, <3>6
    <3> HIDE DEF o, k, u
    <3>9. QED BY <3>2, <3>7, <3>8 DEF Scans
  <2>6. QED BY <1>3, <2>4, <2>5 DEF Whole, NoHead
<1>4. QED BY <1>2, <1>3

ScanRule(data, g) ==
  [start \in 0 .. Len(data) |-> Turn(data, start, g[After(data, start) + Size(data, start)])]

\* The loop defines a function.
LEMMA ScanDefined ==
  ASSUME NEW data \in Seq(Pieces)
  PROVE  \E g : g = ScanRule(data, g) /\ \A start \in 0 .. Len(data) : Scan(data, start) = g[start]
<1> DEFINE T == 0 .. Len(data)
           next(p) == After(data, p) + Size(data, p)
           m == [p \in T |-> Len(data) - p]
           D == [p \in T |-> [g \in [T -> Scans] |-> Turn(data, p, g[next(p)])]]
<1>1. Len(data) \in Nat BY DataPieces
<1>2. ASSUME NEW p \in T, Whole(data, p) PROVE next(p) \in T /\ p < next(p)
  <2>1. next(p) \in p + 2 .. Len(data) BY <1>2, HereIs DEF Whole, NoHead
  <2> HIDE DEF next
  <2>2. QED BY <1>1, <2>1
<1>3. ASSUME NEW p \in T, NEW g \in [T -> Scans] PROVE Turn(data, p, g[next(p)]) \in Scans
  <2>1. Whole(data, p) => g[next(p)] \in Scans BY <1>2
  <2> HIDE DEF next
  <2>2. QED BY <2>1, TurnType
<1> HIDE DEF next
<1>4. m \in [T -> Nat] BY <1>1
<1>5. D \in [T -> [[T -> Scans] -> Scans]] BY <1>3
<1>6. Descends(T, Scans, m, D)
  <2>1. ASSUME NEW p \in T, NEW g \in [T -> Scans], NEW h \in [T -> Scans],
               \A q \in T : m[q] < m[p] => g[q] = h[q]
        PROVE  D[p][g] = D[p][h]
    <3>1. D[p][g] = Turn(data, p, g[next(p)]) /\ D[p][h] = Turn(data, p, h[next(p)]) OBVIOUS
    <3>2. CASE Whole(data, p)
      <4>1. next(p) \in T /\ p < next(p) BY <1>2, <3>2
      <4>2. m[next(p)] < m[p] BY <1>1, <4>1
      <4>3. g[next(p)] = h[next(p)] BY <2>1, <4>1, <4>2
      <4>4. QED BY <3>1, <4>3
    <3>3. CASE Partial(data, p) BY <3>1, <3>3, TurnPartial
    <3>4. CASE NoHead(data, p) BY <3>1, <3>4, TurnNoHead
    <3>5. QED BY <3>2, <3>3, <3>4 DEF Whole, NoHead
  <2> HIDE DEF m, D, T
  <2>2. QED BY <2>1 DEF Descends
<1>7. PICK f \in [T -> Scans] : Solves(f, T, D)
  <2> HIDE DEF m, D, T
  <2>1. Scans # {}
    <3>1. [out |-> <<>>, count |-> 0, rest |-> 0, upgrade |-> FALSE] \in Scans
      BY EmptySeq DEF Scans
    <3>2. QED BY <3>1
  <2>2. QED BY <1>4, <1>5, <1>6, <2>1, RecursionExists
<1>8. \A p \in T : f[p] = Turn(data, p, f[next(p)])
  <2>1. \A p \in T : f[p] = D[p][f]
    <3> HIDE DEF D, T
    <3>1. QED BY <1>7 DEF Solves
  <2>2. QED BY <2>1
<1>9. f = ScanRule(data, f)
  <2>1. f = [p \in T |-> f[p]] OBVIOUS
  <2>2. QED BY <1>8, <2>1 DEF ScanRule, next
<1> DEFINE c == CHOOSE g : g = ScanRule(data, g)
<1>10. c = ScanRule(data, c)
  <2>1. \E g : g = ScanRule(data, g) BY <1>9
  <2>2. QED BY <2>1
<1>11. \A start \in T : Scan(data, start) = c[start]
  BY Zenon DEF Scan, ScanRule, Turn, Here, NewHead, Size, After, End, Stretch
<1> HIDE DEF c
<1>12. QED BY <1>10, <1>11

\* What the loop returns from start on is what a turn makes of what it returns
\* from the next start on.
LEMMA ScanIs ==
  ASSUME NEW data \in Seq(Pieces), NEW start \in 0 .. Len(data)
  PROVE  /\ NoHead(data, start) => Scan(data, start) = Turn(data, start, 0)
         /\ Partial(data, start) => Scan(data, start) = Turn(data, start, 0)
         /\ Whole(data, start) =>
              Scan(data, start)
                = Turn(data, start, Scan(data, After(data, start) + Size(data, start)))
<1>1. PICK g : /\ g = ScanRule(data, g)
               /\ \A p \in 0 .. Len(data) : Scan(data, p) = g[p]
  BY ScanDefined
<1> DEFINE next == After(data, start) + Size(data, start)
<1>2. Scan(data, start) = Turn(data, start, g[next])
  <2>1. ScanRule(data, g)[start] = Turn(data, start, g[next]) BY DEF ScanRule
  <2>2. QED BY <1>1, <2>1
<1>3. CASE NoHead(data, start)
  <2>1. Turn(data, start, g[next]) = Turn(data, start, 0) BY <1>3, TurnNoHead
  <2>2. QED BY <1>2, <1>3, <2>1 DEF NoHead, Partial, Whole
<1>4. CASE Partial(data, start)
  <2>1. Turn(data, start, g[next]) = Turn(data, start, 0) BY <1>4, TurnPartial
  <2>2. QED BY <1>2, <1>4, <2>1 DEF NoHead, Partial, Whole
<1>5. CASE Whole(data, start)
  <2>1. next \in start + 2 .. Len(data) BY <1>5, HereIs DEF Whole, NoHead
  <2> HIDE DEF next
  <2>2. next \in 0 .. Len(data) BY <2>1, DataPieces
  <2>3. Scan(data, next) = g[next] BY <1>1, <2>2
  <2>4. Scan(data, start) = Turn(data, start, Scan(data, next)) BY <1>2, <2>3 DEF next
  <2>5. QED BY <1>5, <2>4 DEF NoHead, Partial, Whole, next
<1>6. QED BY <1>3, <1>4, <1>5 DEF NoHead, Whole

\* A choice that does not tell the addresses of a head from their
\* replacements does not tell what a turn appends from what it has read.
LEMMA HereMapped ==
  ASSUME NEW data \in Seq(Pieces), NEW start \in 0 .. Len(data), ~NoHead(data, start),
         NEW Q, NEW w \in Rewrites(Pieces, Q), IgnoresReplacement(w, data, start, End(data, start))
  PROVE  Mapped(w, Here(data, start)) = Mapped(w, Stretch(data, start, After(data, start)))
<1> DEFINE end == End(data, start)
           after == After(data, start)
           h == NewHead(data, start)
           t == Stretch(data, end, after)
<1>1. Len(data) \in Nat BY DataPieces
<1>2. /\ end \in start .. Len(data) - 2 /\ after \in start + 2 .. Len(data) /\ after = end + 2
      /\ h \in Seq(Pieces)
  BY HereIs DEF After
<1>3. end \in start .. Len(data) /\ end \in 0 .. Len(data) /\ after \in end .. Len(data)
  BY <1>1, <1>2
<1>4. t \in Seq(Pieces) BY <1>3, StretchType
<1>5. Mapped(w, h) = Mapped(w, Stretch(data, start, end))
  BY <1>3, RewrittenMapped DEF Stretch, NewHead
<1>6. Mapped(w, Here(data, start)) = Mapped(w, h) \o Mapped(w, t)
  <2>1. Here(data, start) = h \o t BY DEF Here
  <2> HIDE DEF h, t
  <2>2. Mapped(w, h \o t) = Mapped(w, h) \o Mapped(w, t) BY SMTT(60), <1>2, <1>4, MappedConcat
  <2>3. QED BY <2>1, <2>2
<1>7. Mapped(w, Stretch(data, start, end)) \o Mapped(w, t) = Mapped(w, Stretch(data, start, after))
  <2> HIDE DEF end, after
  <2>1. QED BY <1>3, MappedJoin
<1>8. QED BY <1>5, <1>6, <1>7

LEMMA TurnMapped ==
  ASSUME NEW data \in Seq(Pieces), NEW start \in 0 .. Len(data), NEW next,
         NEW Q, NEW w \in Rewrites(Pieces, Q),
         NoHead(data, start) \/ IgnoresReplacement(w, data, start, End(data, start)),
         Whole(data, start) =>
           /\ next \in Scans
           /\ Mapped(w, next.out)
                = Mapped(w, Stretch(data, After(data, start) + Size(data, start), Len(data)))
  PROVE  Mapped(w, Turn(data, start, next).out) = Mapped(w, Stretch(data, start, Len(data)))
<1> DEFINE after == After(data, start)
           n == Size(data, start)
           here == Here(data, start)
           L == Len(data)
<1>1. L \in Nat BY DataPieces
<1>2. CASE NoHead(data, start)
  <2>1. Turn(data, start, next).out = Stretch(data, start, L) BY <1>2, TurnNoHead
  <2>2. QED BY <2>1
<1>3. CASE ~NoHead(data, start)
  <2>1. /\ after \in start + 2 .. L /\ n \in Nat /\ here \in Seq(Pieces)
        /\ (Whole(data, start) => after + n \in start + 2 .. L)
    BY <1>3, HereIs
  <2>2. Mapped(w, here) = Mapped(w, Stretch(data, start, after)) BY <1>3, HereMapped
  <2>3. after \in 0 .. L /\ after \in start .. L /\ L \in 0 .. L BY <1>1, <2>1
  <2>4. CASE Partial(data, start)
    <3> DEFINE t == Stretch(data, after, L)
    <3>1. Turn(data, start, next).out = here \o t BY <2>4, TurnPartial
    <3>2. t \in Seq(Pieces) BY <2>3, StretchType
    <3>3. Mapped(w, Stretch(data, start, after)) \o Mapped(w, t) = Mapped(w, Stretch(data, start, L))
      <4>1. L \in after .. L BY <2>3
      <4> HIDE DEF after
      <4>2. QED BY <2>3, <4>1, MappedJoin
    <3> HIDE DEF here, t
    <3>4. Mapped(w, here \o t) = Mapped(w, here) \o Mapped(w, t) BY SMTT(60), <2>1, <3>2, MappedConcat
    <3>5. QED BY <2>2, <3>1, <3>3, <3>4
  <2>5. CASE Whole(data, start)
    <3> DEFINE y == after + n
               t == Stretch(data, after, y)
               u == Stretch(data, y, L)
    <3>1. y \in after .. L /\ y \in start .. L /\ y \in 0 .. L /\ L \in y .. L
      BY <1>1, <2>1, <2>3, <2>5
    <3>2. t \in Seq(Pieces) BY <2>3, <3>1, StretchType
    <3>3. Mapped(w, Stretch(data, start, after)) \o Mapped(w, t) = Mapped(w, Stretch(data, start, y))
      <4> HIDE DEF after, y
      <4>1. QED BY <2>3, <3>1, MappedJoin
    <3>4. Mapped(w, Stretch(data, start, y)) \o Mapped(w, u) = Mapped(w, Stretch(data, start, L))
      <4> HIDE DEF after, y
      <4>1. QED BY <3>1, MappedJoin
    <3> DEFINE o == next.out
    <3>5. o \in Seq(Pieces) /\ Mapped(w, o) = Mapped(w, u) BY <2>5 DEF Scans
    <3>6. Turn(data, start, next).out = here \o t \o o
      <4> DEFINE x == here \o t \o next.out
                 k == HeadCount(NewHead(data, start)) + n + next.count
                 z == Upgrades(data, start, End(data, start)) \/ next.upgrade
      <4>1. Turn(data, start, next) = [out |-> x, count |-> k, rest |-> next.rest, upgrade |-> z]
        BY <2>5, TurnWhole
      <4> HIDE DEF x, k, z
      <4>2. Turn(data, start, next).out = x BY <4>1
      <4>3. QED BY <4>2 DEF x
    <3> HIDE DEF here, t, u, o, y
    <3>7. here \o t \in Seq(Pieces) BY <2>1, <3>2, ConcatProperties
    <3>8. Mapped(w, here \o t) = Mapped(w, here) \o Mapped(w, t) BY SMTT(60), <2>1, <3>2, MappedConcat
    <3>9. Mapped(w, here \o t) = Mapped(w, Stretch(data, start, y)) BY <2>2, <3>3, <3>8
    <3> DEFINE v == here \o t
    <3>10. Mapped(w, v \o o) = Mapped(w, v) \o Mapped(w, o)
      <4>1. v \in Seq(Pieces) BY <3>7
      <4> HIDE DEF v
      <4>2. QED BY <3>5, <4>1, MappedConcat
    <3>11. QED BY <3>4, <3>5, <3>6, <3>9, <3>10
  <2>6. QED BY <1>3, <2>4, <2>5 DEF Whole, NoHead
<1>4. QED BY <1>2, <1>3

\* The rests that data can leave
RestsOf(data) == {0} \cup UNION {1 .. data[o + 1].n : o \in Offsets(data, "length", 0, Len(data))}

LEMMA MissingIs ==
  ASSUME NEW data \in Seq(Pieces), NEW start \in 0 .. Len(data), Partial(data, start)
  PROVE  LET m == Missing(data, After(data, start), Size(data, start))
         IN  /\ m \in RestsOf(data)
             /\ m = Size(data, start) - (Len(data) - After(data, start))
<1> DEFINE end == End(data, start)
           after == After(data, start)
           n == Size(data, start)
           m == Missing(data, after, n)
<1>1. Len(data) \in Nat BY DataPieces
<1>2. ~NoHead(data, start) /\ n > 0 /\ Len(data) - after <= n BY DEF Partial, NoHead
<1>3. end \in start .. Len(data) - 2 /\ after \in start + 2 .. Len(data) /\ n \in Nat
  BY <1>2, HereIs
<1>4. m = n - (Len(data) - after)
  <2> HIDE DEF n, after
  <2>1. QED BY <1>1, <1>2, <1>3 DEF Missing
<1>5. m \in 0 .. n
  <2> HIDE DEF n, after, m
  <2>1. QED BY <1>1, <1>2, <1>3, <1>4
<1>6. PICK o \in start .. end - 1 : data[o + 1].kind = "length" /\ n = data[o + 1].n
  <2>1. end \in start .. Len(data) BY <1>1, <1>3
  <2> HIDE DEF end
  <2>2. \/ n = 0
        \/ \E o \in start .. end - 1 : data[o + 1].kind = "length" /\ n = data[o + 1].n
    BY <2>1, ContentLengthIs DEF Size, end
  <2> HIDE DEF n
  <2>3. QED BY <1>2, <1>3, <2>2
<1>7. o \in Offsets(data, "length", 0, Len(data))
  <2> HIDE DEF end
  <2>1. o \in 0 .. Len(data) - 1 BY <1>1, <1>3
  <2>2. QED BY <1>6, <2>1 DEF Offsets
<1>8. m \in RestsOf(data)
  <2> HIDE DEF m, n, end
  <2>1. m = 0 \/ m \in 1 .. n BY <1>3, <1>5
  <2>2. n = data[o + 1].n BY <1>6
  <2>3. m = 0 \/ m \in 1 .. data[o + 1].n BY <2>1, <2>2
  <2>4. QED BY <1>7, <2>3 DEF RestsOf
<1>9. QED BY <1>4, <1>8

\* What stays of each piece if the addresses are left out
PlainOf == [p \in Pieces |-> IF p.kind \in Addresses THEN <<>> ELSE <<p>>]

LEMMA PlainOfType == PlainOf \in Rewrites(Pieces, Pieces)
<1>1. ASSUME NEW p \in Pieces PROVE <<>> \in Seq(Pieces) /\ <<p>> \in Seq(Pieces)
  OBVIOUS
<1>2. ASSUME NEW p \in Pieces
      PROVE  (IF p.kind \in Addresses THEN <<>> ELSE <<p>>) \in Seq(Pieces)
  BY <1>1
<1>3. QED BY <1>2 DEF PlainOf, Rewrites

LEMMA PlainIs ==
  ASSUME NEW s \in Seq(Pieces)
  PROVE  Plain(s) = Mapped(PlainOf, s)
<1>1. \A i \in DOMAIN s : s[i] \in Pieces BY ElementOfSeq
<1>2. \A i \in DOMAIN s :
        PlainOf[s[i]] = IF s[i].kind \in Addresses THEN <<>> ELSE <<s[i]>>
  BY <1>1 DEF PlainOf
<1>3. Images(PlainOf, s) = [i \in DOMAIN s |-> IF s[i].kind \in Addresses THEN <<>> ELSE <<s[i]>>]
  BY <1>2 DEF Images
<1>4. QED BY <1>3 DEF Mapped, Plain

LEMMA PlainIgnores ==
  ASSUME NEW data \in Seq(Pieces), NEW start \in 0 .. Len(data), NEW end \in start .. Len(data)
  PROVE  IgnoresReplacement(PlainOf, data, start, end)
<1> SUFFICES ASSUME NEW o \in Offsets(data, "source", start, end)
             PROVE  Mapped(PlainOf, Replacement(data[o + 1])) = PlainOf[data[o + 1]]
  BY DEF IgnoresReplacement
<1> DEFINE p == data[o + 1]
           p1 == [p EXCEPT !.kind = "proxy1"]
           p2 == [p EXCEPT !.kind = "proxy2"]
<1>1. Len(data) \in Nat BY DataPieces
<1>2. o \in 0 .. Len(data) - 1 /\ p.kind = "source" BY <1>1 DEF Offsets
<1>3. p \in Pieces BY <1>2, DataPieces
<1> HIDE DEF p
<1>4. /\ Replacement(p) = <<p1, p2>>
      /\ p1 \in Pieces /\ p1.kind = "proxy1" /\ p2 \in Pieces /\ p2.kind = "proxy2"
  BY <1>3, ReplacementIs
<1> HIDE DEF p1, p2
<1>5. PlainOf[p] = <<>> BY <1>2, <1>3 DEF PlainOf, Addresses
<1>6. PlainOf[p1] = <<>> BY <1>4 DEF PlainOf, Addresses
<1>7. PlainOf[p2] = <<>> BY <1>4 DEF PlainOf, Addresses
<1>8. Mapped(PlainOf, <<p1, p2>>) = PlainOf[p1] \o PlainOf[p2]
  BY <1>4, PlainOfType, MappedFew
<1>9. <<>> \o <<>> = <<>> BY EmptySeq, ConcatEmptySeq
<1>10. QED BY <1>4, <1>5, <1>6, <1>7, <1>8, <1>9 DEF p

\* The count covers what is appended, and nothing but addresses is changed.
Complete(data, start, s) ==
  /\ s \in Scans /\ s.count = Len(s.out) /\ s.rest \in RestsOf(data)
  /\ Mapped(PlainOf, s.out) = Mapped(PlainOf, Stretch(data, start, Len(data)))

LEMMA TurnComplete ==
  ASSUME NEW data \in Seq(Pieces), NEW start \in 0 .. Len(data), NEW next,
         Whole(data, start) => Complete(data, After(data, start) + Size(data, start), next)
  PROVE  Complete(data, start, Turn(data, start, next))
<1> DEFINE after == After(data, start)
           n == Size(data, start)
           here == Here(data, start)
           up == Upgrades(data, start, End(data, start))
           H == HeadCount(NewHead(data, start))
           s == Turn(data, start, next)
           L == Len(data)
<1>1. L \in Nat BY DataPieces
<1>2. s \in Scans BY TurnType DEF Complete
<1>3. Mapped(PlainOf, s.out) = Mapped(PlainOf, Stretch(data, start, L))
  <2>1. NoHead(data, start) \/ IgnoresReplacement(PlainOf, data, start, End(data, start))
    <3>1. CASE ~NoHead(data, start)
      <4>1. End(data, start) \in start .. L BY <1>1, <3>1, HereIs
      <4>2. QED BY <4>1, PlainIgnores
    <3>2. QED BY <3>1
  <2>2. QED BY <2>1, PlainOfType, TurnMapped DEF Complete
<1>4. s.count = Len(s.out) /\ s.rest \in RestsOf(data)
  <2>1. CASE NoHead(data, start)
    <3> DEFINE o == Stretch(data, start, L)
    <3>1. Len(o) = L - start
      <4>1. L \in start .. L BY <1>1
      <4>2. QED BY <4>1, StretchType
    <3>2. s = [out |-> o, count |-> L - start, rest |-> 0, upgrade |-> FALSE]
      BY <2>1, TurnNoHead
    <3> HIDE DEF o, s
    <3>3. s.out = o /\ s.count = L - start /\ s.rest = 0 BY <3>2
    <3>4. QED BY <3>1, <3>3 DEF RestsOf
  <2>2. CASE ~NoHead(data, start)
    <3>1. /\ after \in start + 2 .. L /\ n \in Nat /\ here \in Seq(Pieces)
          /\ H = Len(here) /\ (Whole(data, start) => after + n \in start + 2 .. L)
      BY <2>2, HereIs
    <3>2. after \in 0 .. L /\ H \in Nat BY <1>1, <3>1, LenProperties
    <3>3. CASE Partial(data, start)
      <4> DEFINE t == Stretch(data, after, L)
                 r == Missing(data, after, n)
                 o == here \o t
                 k == H + (L - after)
      <4>1. t \in Seq(Pieces) /\ Len(t) = L - after
        <5>1. L \in after .. L BY <1>1, <3>2
        <5> HIDE DEF after
        <5>2. QED BY <3>2, <5>1, StretchType
      <4>2. r \in RestsOf(data) BY <3>3, MissingIs
      <4>3. s = [out |-> o, count |-> k, rest |-> r, upgrade |-> up]
        BY <3>3, TurnPartial
      <4> HIDE DEF t, r, s, up, here, H, after
      <4>4. Len(o) = k BY <1>1, <3>1, <3>2, <4>1, ConcatProperties
      <4> HIDE DEF o, k
      <4>5. s.out = o /\ s.count = k /\ s.rest = r BY <4>3
      <4>6. QED BY <4>2, <4>4, <4>5
    <3>4. CASE Whole(data, start)
      <4> DEFINE t == Stretch(data, after, after + n)
                 o == here \o t \o next.out
                 k == H + n + next.count
                 u == up \/ next.upgrade
      <4>1. t \in Seq(Pieces) /\ Len(t) = n
        <5>1. after + n \in after .. L /\ (after + n) - after = n BY <1>1, <3>1, <3>2, <3>4
        <5>2. QED BY <3>2, <5>1, StretchType
      <4>2. /\ next.out \in Seq(Pieces) /\ next.count = Len(next.out)
            /\ next.rest \in RestsOf(data)
        BY <3>4 DEF Complete, Scans
      <4>3. s = [out |-> o, count |-> k, rest |-> next.rest, upgrade |-> u]
        BY <3>4, TurnWhole
      <4> HIDE DEF t, s, up, u, here, H, after, n
      <4>4. here \o t \in Seq(Pieces) /\ Len(here \o t) = H + n
        BY <3>1, <4>1, ConcatProperties
      <4>5. Len(o) = k
        <5> DEFINE v == here \o t
        <5>1. v \in Seq(Pieces) /\ Len(v) = H + n BY <4>4
        <5> HIDE DEF v
        <5>2. Len(v \o next.out) = Len(v) + Len(next.out) BY <4>2, <5>1, ConcatProperties
        <5>3. QED BY <4>2, <5>1, <5>2 DEF v, o, k
      <4> HIDE DEF o, k
      <4>6. s.out = o /\ s.count = k /\ s.rest = next.rest BY <4>3
      <4>7. QED BY <4>2, <4>5, <4>6
    <3>5. QED BY <2>2, <3>3, <3>4 DEF Whole, NoHead
  <2>3. QED BY <2>1, <2>2
<1> HIDE DEF s
<1>5. QED BY <1>2, <1>3, <1>4 DEF Complete, s

LEMMA ScanComplete ==
  ASSUME NEW data \in Seq(Pieces)
  PROVE  \A start \in 0 .. Len(data) : Complete(data, start, Scan(data, start))
<1> DEFINE n == Len(data)
           N == {p \in 0 .. n : Complete(data, p, Scan(data, p))}
<1>1. n \in Nat BY DataPieces
<1>2. ASSUME NEW p \in 0 .. n, \A q \in 0 .. n : p < q => q \in N PROVE p \in N
  <2>1. CASE NoHead(data, p)
    <3>1. Scan(data, p) = Turn(data, p, 0) BY <2>1, ScanIs
    <3>2. ~Whole(data, p) BY <2>1 DEF NoHead, Whole
    <3>3. Complete(data, p, Turn(data, p, 0)) BY <3>2, TurnComplete
    <3>4. QED BY <3>1, <3>3
  <2>2. CASE Partial(data, p)
    <3>1. Scan(data, p) = Turn(data, p, 0) BY <2>2, ScanIs
    <3>2. ~Whole(data, p) BY <2>2 DEF Whole
    <3>3. Complete(data, p, Turn(data, p, 0)) BY <3>2, TurnComplete
    <3>4. QED BY <3>1, <3>3
  <2>3. CASE Whole(data, p)
    <3> DEFINE y == After(data, p) + Size(data, p)
               s == Scan(data, y)
    <3>1. y \in p + 2 .. n BY <2>3, HereIs DEF Whole, NoHead
    <3>2. Scan(data, p) = Turn(data, p, s) BY <2>3, ScanIs
    <3> HIDE DEF y
    <3>3. y \in N BY <1>1, <1>2, <3>1
    <3>4. Complete(data, y, s) BY <3>3
    <3> HIDE DEF s
    <3>5. Complete(data, p, Turn(data, p, s)) BY <3>4, TurnComplete DEF y
    <3>6. QED BY <3>2, <3>5
  <2>4. QED BY <2>1, <2>2, <2>3 DEF Whole, NoHead
<1>3. 0 .. n \subseteq N
  <2> HIDE DEF N, n
  <2>1. QED BY <1>1, <1>2, Downward
<1>4. QED BY <1>3

\* What parseHttpRequest returns: a read goes through whole or is scanned
\* behind the rest of a body.
Passes(req, data) == req.socket \/ Len(data) < req.rest

LEMMA ParsePasses ==
  ASSUME NEW req, NEW data, req.socket \in BOOLEAN, Passes(req, data)
  PROVE  LET p == ParseHttpRequest(req, data)
         IN  /\ p.out = data /\ p.count = Len(data) /\ p.upgrade = req.socket
             /\ p.rest = IF req.socket THEN req.rest ELSE req.rest - Len(data)
BY DEF Passes, ParseHttpRequest

LEMMA ParseScans ==
  ASSUME NEW req, NEW data \in Seq(Pieces), req.socket \in BOOLEAN, req.rest \in Nat,
         ~Passes(req, data)
  PROVE  LET p == ParseHttpRequest(req, data)
             s == Scan(data, req.rest)
         IN  /\ req.rest \in 0 .. Len(data) /\ s \in Scans /\ ~req.socket
             /\ p.out = Stretch(data, 0, req.rest) \o s.out /\ p.count = req.rest + s.count
             /\ p.rest = s.rest /\ p.upgrade = s.upgrade
<1> DEFINE s == Scan(data, req.rest)
<1>1. req.rest \in 0 .. Len(data) /\ ~req.socket BY DataPieces DEF Passes
<1>2. s \in Scans BY <1>1, ScanComplete DEF Complete
<1>3. ParseHttpRequest(req, data)
        = [s EXCEPT !.out = SubSeq(data, 1, req.rest) \o s.out, !.count = req.rest + s.count]
  BY <1>1 DEF ParseHttpRequest, Passes
<1>4. Stretch(data, 0, req.rest) = SubSeq(data, 1, req.rest) BY DEF Stretch
<1> HIDE DEF s
<1> DEFINE x == SubSeq(data, 1, req.rest) \o s.out
           k == req.rest + s.count
<1>5. ParseHttpRequest(req, data) = [s EXCEPT !.out = x, !.count = k] BY <1>3
<1> HIDE DEF x, k
<1>6. LET p == ParseHttpRequest(req, data)
      IN  p.out = x /\ p.count = k /\ p.rest = s.rest /\ p.upgrade = s.upgrade
  BY <1>2, <1>5 DEF Scans
<1>7. QED BY <1>1, <1>2, <1>4, <1>6 DEF s, x, k

\* Everything is counted, and but for addresses it is what was read.
LEMMA ParseComplete ==
  ASSUME NEW req, NEW data \in Seq(Pieces), req.socket \in BOOLEAN, req.rest \in Nat
  PROVE  LET p == ParseHttpRequest(req, data)
         IN  /\ p.out \in Seq(Pieces) /\ p.count = Len(p.out) /\ p.upgrade \in BOOLEAN
             /\ Mapped(PlainOf, p.out) = Mapped(PlainOf, data)
             /\ p.rest \in 0 .. req.rest \/ p.rest \in RestsOf(data)
<1> DEFINE p == ParseHttpRequest(req, data)
           L == Len(data)
<1>1. L \in Nat BY DataPieces
<1>2. CASE Passes(req, data)
  <2>1. /\ p.out = data /\ p.count = L /\ p.upgrade = req.socket
        /\ p.rest = IF req.socket THEN req.rest ELSE req.rest - L
    BY <1>2, ParsePasses
  <2> HIDE DEF p
  <2>2. p.rest \in 0 .. req.rest BY <1>1, <1>2, <2>1 DEF Passes
  <2>3. QED BY <2>1, <2>2 DEF p
<1>3. CASE ~Passes(req, data)
  <2> DEFINE r == req.rest
             s == Scan(data, r)
             t == Stretch(data, 0, r)
             u == Stretch(data, r, L)
             o == s.out
  <2>1. /\ r \in 0 .. L /\ s \in Scans
        /\ p.out = t \o o /\ p.count = r + s.count
        /\ p.rest = s.rest /\ p.upgrade = s.upgrade
    BY <1>3, ParseScans
  <2>2. s.count = Len(o) /\ s.rest \in RestsOf(data) /\ Mapped(PlainOf, o) = Mapped(PlainOf, u)
    BY <2>1, ScanComplete DEF Complete
  <2>3. t \in Seq(Pieces) /\ Len(t) = r - 0 BY <1>1, <2>1, StretchType
  <2>4. Mapped(PlainOf, t) \o Mapped(PlainOf, u) = Mapped(PlainOf, Stretch(data, 0, L))
    <3>1. 0 \in 0 .. L /\ r \in 0 .. L /\ L \in r .. L BY <1>1, <2>1
    <3> HIDE DEF r
    <3>2. QED BY <3>1, PlainOfType, MappedJoin
  <2>5. Stretch(data, 0, L) = data
    <3>1. SubSeq(data, 1, L) = data BY SubSeqFull
    <3>2. QED BY <3>1 DEF Stretch
  <2>6. o \in Seq(Pieces) /\ s.upgrade \in BOOLEAN BY <2>1 DEF Scans
  <2> HIDE DEF p, s, t, u, o, r
  <2>7. Mapped(PlainOf, t \o o) = Mapped(PlainOf, t) \o Mapped(PlainOf, o)
    BY SMTT(60), <2>3, <2>6, PlainOfType, MappedConcat
  <2>8. t \o o \in Seq(Pieces) /\ Len(t \o o) = r + Len(o)
    <3>1. Len(t \o o) = Len(t) + Len(o) BY <2>3, <2>6, ConcatProperties
    <3>2. QED BY <2>1, <2>3, <2>6, <3>1, ConcatProperties
  <2>9. QED BY <2>1, <2>2, <2>4, <2>5, <2>6, <2>7, <2>8 DEF p
<1>4. QED BY <1>2, <1>3

-----------------------------------------------------------------------------
(* What the browser sends *)

Marks == Kinds \X Nat

\* The lines of a head behind its first
Lines(r) == {<<"source", 0>>, <<"credentials", 0>>, <<"upgrade", 0>>}
              \cup (IF r.length > 0 THEN {<<"length", r.length>>} ELSE {})

\* The beginnings of the head of r
Fronts(r) == {s \in Seq(Marks) : /\ Len(s) >= 1 /\ s[1] = <<"text", 0>>
                                 /\ \A k \in 2 .. Len(s) : s[k] \in Lines(r)}

Holds(s, x) == \E k \in 1 .. Len(s) : s[k] = x

LEMMA ConcatIs ==
  ASSUME NEW P, NEW s \in Seq(P), NEW t \in Seq(P)
  PROVE  /\ s \o t \in Seq(P) /\ Len(s) \in Nat /\ Len(t) \in Nat /\ Len(s \o t) = Len(s) + Len(t)
         /\ \A k \in 1 .. Len(s) : (s \o t)[k] = s[k]
         /\ \A k \in 1 .. Len(t) : (s \o t)[Len(s) + k] = t[k]
<1>1. Len(s) \in Nat /\ Len(t) \in Nat BY LenProperties
<1>2. s \o t \in Seq(P) /\ Len(s \o t) = Len(s) + Len(t) BY ConcatProperties
<1>3. ASSUME NEW k \in 1 .. Len(s) PROVE (s \o t)[k] = s[k]
  <2>1. k \in 1 .. Len(s) + Len(t) /\ k <= Len(s) BY <1>1
  <2>2. (s \o t)[k] = IF k <= Len(s) THEN s[k] ELSE t[k - Len(s)]
    BY <2>1, ConcatProperties, Zenon
  <2>3. QED BY <2>1, <2>2
<1>4. ASSUME NEW k \in 1 .. Len(t) PROVE (s \o t)[Len(s) + k] = t[k]
  <2> DEFINE j == Len(s) + k
  <2>1. j \in 1 .. Len(s) + Len(t) /\ ~(j <= Len(s)) /\ j - Len(s) = k BY <1>1
  <2> HIDE DEF j
  <2>2. (s \o t)[j] = IF j <= Len(s) THEN s[j] ELSE t[j - Len(s)]
    BY <2>1, ConcatProperties, Zenon
  <2>3. QED BY <2>1, <2>2 DEF j
<1>5. QED BY <1>1, <1>2, <1>3, <1>4

LEMMA LinesMarks ==
  ASSUME NEW r \in Requests
  PROVE  Lines(r) \subseteq Marks
<1>1. r.length \in Nat BY RequestsAssumption
<1>2. QED BY <1>1 DEF Lines, Marks, Kinds

LEMMA FrontsGrow ==
  ASSUME NEW r \in Requests, NEW s \in Fronts(r), NEW t \in Seq(Lines(r))
  PROVE  /\ s \o t \in Fronts(r)
         /\ \A x : Holds(s, x) \/ Holds(t, x) => Holds(s \o t, x)
<1> DEFINE u == s \o t
<1>1. s \in Seq(Marks) /\ Len(s) >= 1 /\ s[1] = <<"text", 0>>
      /\ \A k \in 2 .. Len(s) : s[k] \in Lines(r)
  BY DEF Fronts
<1>2. \A k \in 1 .. Len(t) : t[k] \in Lines(r) /\ t[k] \in Marks
  BY LinesMarks, ElementOfSeq, LenProperties
<1>3. t \in Seq(Marks)
  <2>1. t \in [1 .. Len(t) -> Marks] /\ Len(t) \in Nat BY <1>2, LenProperties
  <2>2. QED BY <2>1, FunctionSeq
<1>4. /\ u \in Seq(Marks) /\ Len(s) \in Nat /\ Len(t) \in Nat /\ Len(u) = Len(s) + Len(t)
      /\ \A k \in 1 .. Len(s) : u[k] = s[k]
      /\ \A k \in 1 .. Len(t) : u[Len(s) + k] = t[k]
  BY <1>1, <1>3, ConcatIs
<1> HIDE DEF u
<1>5. ASSUME NEW k \in 2 .. Len(u) PROVE u[k] \in Lines(r)
  <2>1. CASE k \in 2 .. Len(s) BY <1>1, <1>4, <2>1
  <2>2. CASE k > Len(s)
    <3> DEFINE j == k - Len(s)
    <3>1. j \in 1 .. Len(t) /\ Len(s) + j = k BY <1>4, <2>2
    <3> HIDE DEF j
    <3>2. QED BY <1>2, <1>4, <3>1
  <2>3. QED BY <1>4, <2>1, <2>2
<1>6. u[1] = <<"text", 0>> /\ Len(u) >= 1 BY <1>1, <1>4
<1>7. ASSUME NEW x, Holds(s, x) \/ Holds(t, x) PROVE Holds(u, x)
  <2>1. CASE Holds(s, x)
    <3>1. PICK k \in 1 .. Len(s) : s[k] = x BY <2>1 DEF Holds
    <3>2. k \in 1 .. Len(u) /\ u[k] = x BY <1>4, <3>1
    <3>3. QED BY <3>2 DEF Holds
  <2>2. CASE Holds(t, x)
    <3>1. PICK k \in 1 .. Len(t) : t[k] = x BY <2>2 DEF Holds
    <3>2. Len(s) + k \in 1 .. Len(u) /\ u[Len(s) + k] = x BY <1>4, <3>1
    <3>3. QED BY <3>2 DEF Holds
  <2>3. QED BY <1>7, <2>1, <2>2
<1>8. QED BY <1>4, <1>5, <1>6, <1>7 DEF Fronts, u

LEMMA CopiesIs ==
  ASSUME NEW n \in Nat, NEW kind, NEW P, <<kind, 0>> \in P
  PROVE  /\ Copies(n, kind) \in Seq(P) /\ Len(Copies(n, kind)) = n
         /\ \A k \in 1 .. n : Copies(n, kind)[k] = <<kind, 0>>
<1> DEFINE s == Copies(n, kind)
<1>1. s \in [1 .. n -> P] /\ \A k \in 1 .. n : s[k] = <<kind, 0>> BY DEF Copies
<1> HIDE DEF s
<1>2. s \in Seq(P) /\ Len(s) = n BY <1>1, FunctionSeq
<1>3. QED BY <1>1, <1>2 DEF s

LEMMA OptionalIs ==
  ASSUME NEW P, NEW present \in BOOLEAN, NEW kind, NEW n, present => <<kind, n>> \in P
  PROVE  /\ Optional(present, kind, n) \in Seq(P)
         /\ present => Holds(Optional(present, kind, n), <<kind, n>>)
<1>1. CASE present
  <2> DEFINE x == <<kind, n>>
  <2>1. Optional(present, kind, n) = <<x>> /\ x \in P BY <1>1 DEF Optional
  <2> HIDE DEF x
  <2>2. <<x>> \in Seq(P) /\ Len(<<x>>) = 1 /\ <<x>>[1] = x BY <2>1
  <2>3. Holds(<<x>>, x) BY <2>2 DEF Holds
  <2>4. QED BY <2>1, <2>2, <2>3 DEF x
<1>2. CASE ~present
  <2>1. Optional(present, kind, n) = <<>> BY <1>2 DEF Optional
  <2>2. QED BY <1>2, <2>1, EmptySeq
<1>3. QED BY <1>1, <1>2

HeadLines(r) == <<<<"text", 0>>>> \o Copies(r.addresses, "source")
              \o Optional(r.credentials, "credentials", 0)
              \o Optional(r.length > 0, "length", r.length)
              \o Optional(r.upgrade, "upgrade", 0)

LEMMA FrontIs ==
  ASSUME NEW r \in Requests
  PROVE  HeadLines(r) \in Fronts(r) /\ (r.length > 0 => Holds(HeadLines(r), <<"length", r.length>>))
<1> DEFINE t == <<<<"text", 0>>>>
           a == Copies(r.addresses, "source")
           c == Optional(r.credentials, "credentials", 0)
           l == Optional(r.length > 0, "length", r.length)
           u == Optional(r.upgrade, "upgrade", 0)
           x == <<"length", r.length>>
<1>1. /\ r.addresses \in Nat /\ r.length \in Nat /\ r.credentials \in BOOLEAN
      /\ r.upgrade \in BOOLEAN
  BY RequestsAssumption
<1>2. /\ <<"source", 0>> \in Lines(r) /\ <<"credentials", 0>> \in Lines(r)
      /\ <<"upgrade", 0>> \in Lines(r) /\ (r.length > 0 => x \in Lines(r))
  BY DEF Lines
<1>3. t \in Fronts(r)
  <2> DEFINE m == <<"text", 0>>
  <2>1. m \in Marks BY DEF Marks, Kinds
  <2> HIDE DEF m
  <2>2. <<m>> \in Seq(Marks) /\ Len(<<m>>) = 1 /\ <<m>>[1] = m BY <2>1
  <2>3. \A k \in 2 .. 1 : <<m>>[k] \in Lines(r) OBVIOUS
  <2>4. QED BY <2>2, <2>3 DEF Fronts, m
<1>4. a \in Seq(Lines(r)) BY <1>1, <1>2, CopiesIs
<1>5. c \in Seq(Lines(r)) BY <1>1, <1>2, OptionalIs
<1>6. u \in Seq(Lines(r)) BY <1>1, <1>2, OptionalIs
<1>7. l \in Seq(Lines(r)) /\ (r.length > 0 => Holds(l, x))
  <2> DEFINE p == r.length > 0
  <2>1. p \in BOOLEAN /\ (p => x \in Lines(r)) BY <1>1, <1>2
  <2> HIDE DEF p
  <2>2. /\ Optional(p, "length", r.length) \in Seq(Lines(r))
        /\ p => Holds(Optional(p, "length", r.length), x)
    BY <2>1, OptionalIs, Zenon
  <2>3. QED BY <2>2, Zenon DEF p
<1>8. HeadLines(r) = t \o a \o c \o l \o u BY Zenon DEF HeadLines
<1> HIDE DEF t, a, c, l, u, x
<1>9. t \o a \in Fronts(r) BY <1>3, <1>4, FrontsGrow
<1>10. t \o a \o c \in Fronts(r) BY <1>5, <1>9, FrontsGrow, Zenon
<1>11. t \o a \o c \o l \in Fronts(r) /\ (Holds(l, x) => Holds(t \o a \o c \o l, x))
  BY <1>7, <1>10, FrontsGrow, Zenon
<1>12. /\ t \o a \o c \o l \o u \in Fronts(r)
       /\ (Holds(t \o a \o c \o l, x) => Holds(t \o a \o c \o l \o u, x))
  BY <1>6, <1>11, FrontsGrow, Zenon
<1>13. QED BY <1>7, <1>8, <1>11, <1>12, Zenon DEF x

\* e is what is sent for r: a head of n pieces, and a body.
Encodes(e, r, n) ==
  /\ e \in Seq(Pieces) /\ n \in Nat /\ n >= 3 /\ Len(e) = n + r.length
  /\ \A k \in 1 .. Len(e) : e[k].left = Len(e) - k
  /\ \A k \in 1 .. Len(e) : e[k].part = IF k <= n THEN "head" ELSE "body"
  /\ \A k \in 1 .. Len(e) : e[k].kind = "half" <=> k \in {n - 1, n}
  /\ \A k \in 1 .. Len(e) : e[k].kind = "text" <=> k = 1
  /\ \A k \in 1 .. Len(e) : e[k].kind = "upgrade" => k <= n - 2
  /\ \A k \in 1 .. Len(e) : e[k].kind = "length" => r.length > 0 /\ e[k].n = r.length
  /\ \A k \in 1 .. Len(e) : e[k].kind \notin {"proxy1", "proxy2"}
  /\ r.length > 0 => \E k \in 1 .. n - 2 : e[k].kind = "length"

LEMMA EncodeIs ==
  ASSUME NEW r \in Requests
  PROVE  \E n : Encodes(Encode(r), r, n)
<1> DEFINE f == HeadLines(r)
           h == Copies(2, "half")
           y == Copies(r.length, "source")
           g == f \o h
           z == g \o y
           e == Encode(r)
           F == Len(f)
           n == F + 2
           L == n + r.length
<1>1. r.length \in Nat BY RequestsAssumption
<1>2. /\ f \in Seq(Marks) /\ F \in Nat /\ F >= 1 /\ f[1] = <<"text", 0>>
      /\ \A k \in 2 .. F : f[k] \in Lines(r)
  BY FrontIs, LenProperties DEF Fronts
<1>3. <<"half", 0>> \in Marks /\ <<"source", 0>> \in Marks BY DEF Marks, Kinds
<1>4. h \in Seq(Marks) /\ Len(h) = 2 /\ \A k \in 1 .. 2 : h[k] = <<"half", 0>>
  BY <1>3, CopiesIs
<1>5. y \in Seq(Marks) /\ Len(y) = r.length /\ \A k \in 1 .. r.length : y[k] = <<"source", 0>>
  BY <1>1, <1>3, CopiesIs
<1>6. e = [i \in DOMAIN z |-> Piece(z[i][1], z[i][2], IF i <= Len(g) THEN "head" ELSE "body",
                                    Len(z) - i)]
  BY Zenon DEF Encode, HeadLines
<1> HIDE DEF f, h, y, e
<1>7. /\ g \in Seq(Marks) /\ Len(g) = n
      /\ \A k \in 1 .. F : g[k] = f[k] 
      /\ \A k \in 1 .. 2 : g[F + k] = <<"half", 0>>
  <2>1. /\ g \in Seq(Marks) /\ Len(g) = Len(f) + Len(h)
        /\ \A k \in 1 .. Len(f) : g[k] = f[k]
        /\ \A k \in 1 .. Len(h) : g[Len(f) + k] = h[k]
    <3>1. g = f \o h OBVIOUS
    <3>2. f \in Seq(Marks) /\ h \in Seq(Marks) BY <1>2, <1>4
    <3> HIDE DEF g
    <3>3. QED BY <3>1, <3>2, ConcatIs
  <2> HIDE DEF g
  <2>2. QED BY <1>4, <2>1
<1> HIDE DEF g
<1>8. /\ z \in Seq(Marks) /\ Len(z) = L /\ \A k \in 1 .. n : z[k] = g[k]
      /\ \A k \in 1 .. r.length : z[n + k] = <<"source", 0>>
  <2>1. /\ z \in Seq(Marks) /\ Len(z) = Len(g) + Len(y)
        /\ \A k \in 1 .. Len(g) : z[k] = g[k]
        /\ \A k \in 1 .. Len(y) : z[Len(g) + k] = y[k]
    <3>1. z = g \o y OBVIOUS
    <3>2. g \in Seq(Marks) /\ y \in Seq(Marks) BY <1>5, <1>7
    <3> HIDE DEF z
    <3>3. QED BY <3>1, <3>2, ConcatIs
  <2> HIDE DEF z, n
  <2>2. QED BY <1>5, <1>7, <2>1 DEF L
<1> HIDE DEF z
<1>9. L \in Nat /\ n \in Nat /\ n >= 3 /\ DOMAIN z = 1 .. L BY <1>1, <1>2, <1>8, LenProperties
<1>10. \A k \in 1 .. F : z[k] = f[k] BY <1>2, <1>7, <1>8
<1>11. z[n - 1] = <<"half", 0>> /\ z[n] = <<"half", 0>>
  <2>1. g[F + 1] = <<"half", 0>> /\ g[F + 2] = <<"half", 0>> BY <1>7
  <2>2. n - 1 \in 1 .. n /\ n \in 1 .. n /\ n - 1 = F + 1 BY <1>2
  <2>3. QED BY <1>8, <2>1, <2>2
<1>12. ASSUME NEW k \in 1 .. L
       PROVE  \/ k = 1 /\ z[k] = <<"text", 0>>
              \/ k \in 2 .. n - 2 /\ z[k] \in Lines(r)
              \/ k \in {n - 1, n} /\ z[k] = <<"half", 0>>
              \/ k > n /\ z[k] = <<"source", 0>>
  <2>1. CASE k <= F BY <1>2, <1>10, <2>1
  <2>2. CASE k \in {n - 1, n} BY <1>11, <2>2
  <2>3. CASE k > n
    <3> DEFINE j == k - n
    <3>1. j \in 1 .. r.length /\ n + j = k BY <1>1, <1>9, <2>3
    <3> HIDE DEF j
    <3>2. QED BY <1>8, <2>3, <3>1
  <2>4. QED BY <1>2, <1>9, <2>1, <2>2, <2>3
<1>13. \A k \in 1 .. L : z[k] \in Marks BY <1>8, <1>9, ElementOfSeq
<1>14. ASSUME NEW k \in 1 .. L
       PROVE  e[k] = [kind |-> z[k][1], n |-> z[k][2],
                      part |-> IF k <= n THEN "head" ELSE "body", left |-> L - k]
  BY <1>6, <1>7, <1>8, <1>9 DEF Piece
<1>15. e \in Seq(Pieces) /\ Len(e) = L
  <2>1. ASSUME NEW k \in 1 .. L PROVE e[k] \in Pieces
    <3>1. z[k][1] \in Kinds /\ z[k][2] \in Nat BY <1>13 DEF Marks
    <3>2. L - k \in Nat BY <1>9
    <3> DEFINE p == IF k <= n THEN "head" ELSE "body"
               q == L - k
    <3>3. p \in {"head", "body"} /\ q \in Nat BY <3>2
    <3>4. e[k] = [kind |-> z[k][1], n |-> z[k][2], part |-> p, left |-> q] BY <1>14
    <3> HIDE DEF p, q
    <3>5. QED BY <3>1, <3>3, <3>4 DEF Pieces
  <2>2. DOMAIN e = 1 .. L /\ e = [k \in 1 .. L |-> e[k]] BY <1>6, <1>9
  <2>3. e \in [1 .. L -> Pieces] BY <2>1, <2>2
  <2>4. QED BY <1>9, <2>3, FunctionSeq
<1>16. ASSUME NEW k \in 1 .. L
       PROVE  /\ e[k].left = L - k /\ e[k].part = (IF k <= n THEN "head" ELSE "body")
              /\ e[k].kind = z[k][1] /\ e[k].n = z[k][2]
  <2> DEFINE p == IF k <= n THEN "head" ELSE "body"
             q == L - k
  <2>1. e[k] = [kind |-> z[k][1], n |-> z[k][2], part |-> p, left |-> q] BY <1>14
  <2> HIDE DEF p, q
  <2>2. e[k].left = q /\ e[k].part = p /\ e[k].kind = z[k][1] /\ e[k].n = z[k][2] BY <2>1
  <2>3. QED BY <2>2 DEF p, q
<1>17. ASSUME NEW x \in Lines(r)
       PROVE  /\ x[1] \in {"source", "credentials", "upgrade", "length"}
              /\ x[1] = "length" => r.length > 0 /\ x[2] = r.length
  BY <1>17 DEF Lines
<1>18. ASSUME NEW k \in 1 .. L
       PROVE  /\ e[k].kind = "half" <=> k \in {n - 1, n}
              /\ e[k].kind = "text" <=> k = 1
              /\ e[k].kind = "upgrade" => k <= n - 2
              /\ e[k].kind = "length" => r.length > 0 /\ e[k].n = r.length
              /\ e[k].kind \notin {"proxy1", "proxy2"}
  <2>1. e[k].kind = z[k][1] /\ e[k].n = z[k][2] BY <1>16
  <2>2. CASE k = 1 /\ z[k] = <<"text", 0>> BY <1>9, <2>1, <2>2
  <2>3. CASE k \in 2 .. n - 2 /\ z[k] \in Lines(r)
    <3>1. /\ e[k].kind \in {"source", "credentials", "upgrade", "length"}
          /\ e[k].kind = "length" => r.length > 0 /\ e[k].n = r.length
      BY <1>17, <2>1, <2>3
    <3>2. k # 1 /\ k \notin {n - 1, n} /\ k <= n - 2 BY <1>9, <2>3
    <3>3. QED BY <3>1, <3>2
  <2>4. CASE k \in {n - 1, n} /\ z[k] = <<"half", 0>> BY <1>9, <2>1, <2>4
  <2>5. CASE k > n /\ z[k] = <<"source", 0>> BY <1>9, <2>1, <2>5
  <2>6. QED BY <1>12, <2>2, <2>3, <2>4, <2>5
<1>19. ASSUME r.length > 0 PROVE \E k \in 1 .. n - 2 : e[k].kind = "length"
  <2>1. PICK k \in 1 .. F : f[k] = <<"length", r.length>> BY <1>19, FrontIs DEF Holds, f
  <2>2. k \in 1 .. L /\ k \in 1 .. n - 2 /\ z[k] = <<"length", r.length>>
    BY <1>1, <1>2, <1>10, <2>1
  <2>3. e[k].kind = "length" BY <1>16, <2>2
  <2>4. QED BY <2>2, <2>3
<1> HIDE DEF n
<1>20. Encodes(e, r, n) BY <1>9, <1>15, <1>16, <1>18, <1>19 DEF Encodes
<1>21. QED BY <1>20 DEF e

LEMMA FramesIs ==
  /\ Frames \in Seq(Pieces) /\ Len(Frames) = 4
  /\ \A k \in 1 .. 4 : /\ Frames[k].kind \in {"source", "half"} /\ Frames[k].part = "body"
                       /\ Frames[k].left = 4 - k
<1> DEFINE q == <<"source", "half", "half", "source">>
<1>1. \A k \in 1 .. 4 : q[k] \in {"source", "half"} OBVIOUS
<1>2. Frames = [k \in 1 .. 4 |-> Piece(q[k], 0, "body", 4 - k)] BY DEF Frames
<1> HIDE DEF q
<1>3. ASSUME NEW k \in 1 .. 4
      PROVE  Frames[k] = [kind |-> q[k], n |-> 0, part |-> "body", left |-> 4 - k]
  BY <1>2 DEF Piece
<1>4. ASSUME NEW k \in 1 .. 4
      PROVE  /\ Frames[k].kind \in {"source", "half"} /\ Frames[k].part = "body"
             /\ Frames[k].left = 4 - k /\ Frames[k] \in Pieces
  <2>1. 4 - k \in Nat OBVIOUS
  <2>2. QED BY <1>1, <1>3, <2>1 DEF Pieces, Kinds
<1>5. Frames \in [1 .. 4 -> Pieces] BY <1>2, <1>4
<1>6. Frames \in Seq(Pieces) /\ Len(Frames) = 4 BY <1>5, FunctionSeq
<1>7. QED BY <1>4, <1>6

-----------------------------------------------------------------------------
(* What holds of every state, however the reads cut the stream *)

LengthsSent ==
  \A i \in 1 .. Len(stream) :
    stream[i].kind = "length" => \E r \in Requests : stream[i].n = r.length

Inv ==
  /\ TypeOK
  /\ forwarded \in Seq(Pieces)
  /\ LengthsSent
  /\ ~request.authorized => forwarded = <<>>
  /\ NothingLost

Rests == {0} \cup UNION {1 .. r.length : r \in Requests}

LEMMA RestsDown ==
  ASSUME NEW m \in Rests, NEW k \in 0 .. m
  PROVE  m \in Nat /\ k \in Rests
<1>1. CASE m = 0 BY <1>1 DEF Rests
<1>2. CASE m # 0
  <2>1. PICK r \in Requests : m \in 1 .. r.length BY <1>2 DEF Rests
  <2>2. r.length \in Nat BY RequestsAssumption
  <2>3. m \in Nat /\ (k = 0 \/ k \in 1 .. r.length) BY <2>1, <2>2
  <2>4. QED BY <2>3 DEF Rests
<1>3. QED BY <1>1, <1>2

LEMMA InvType ==
  ASSUME Inv
  PROVE  /\ stream \in Seq(Pieces) /\ Len(stream) \in Nat
         /\ taken \in Nat /\ taken \in 0 .. Len(stream) /\ taken \in dropped .. Len(stream)
         /\ dropped \in Nat /\ dropped \in 0 .. taken /\ dropped \in 0 .. Len(stream)
         /\ request.rest \in Rests /\ request.rest \in Nat
         /\ request.socket \in BOOLEAN /\ request.authorized \in BOOLEAN
         /\ forwarded \in Seq(Pieces)
<1>1. /\ stream \in Seq(Pieces) /\ taken \in 0 .. Len(stream) /\ dropped \in 0 .. taken
      /\ request.rest \in Rests /\ request.socket \in BOOLEAN /\ request.authorized \in BOOLEAN
      /\ forwarded \in Seq(Pieces)
  BY DEF Inv, TypeOK, Pieces, Rests
<1>2. Len(stream) \in Nat BY <1>1, LenProperties
<1>3. request.rest \in Nat
  <2>1. CASE request.rest = 0 BY <2>1
  <2>2. CASE request.rest # 0
    <3>1. PICK r \in Requests : request.rest \in 1 .. r.length BY <1>1, <2>2 DEF Rests
    <3>2. QED BY <3>1, RequestsAssumption
  <2>3. QED BY <2>1, <2>2
<1>4. QED BY <1>1, <1>2, <1>3

\* What was sent stays where it is when more is sent.
LEMMA SentStays ==
  ASSUME NEW s \in Seq(Pieces), NEW t \in Seq(Pieces), NEW x \in 0 .. Len(s), NEW y \in x .. Len(s)
  PROVE  Stretch(s \o t, x, y) = Stretch(s, x, y)
<1> DEFINE u == s \o t
<1>1. /\ u \in Seq(Pieces) /\ Len(s) \in Nat /\ Len(t) \in Nat /\ Len(u) = Len(s) + Len(t)
      /\ \A k \in 1 .. Len(s) : u[k] = s[k]
  <2>1. u = s \o t OBVIOUS
  <2> HIDE DEF u
  <2>2. QED BY <2>1, ConcatIs
<1> HIDE DEF u
<1>2. x \in 0 .. Len(u) /\ y \in x .. Len(u) BY <1>1
<1> DEFINE a == Stretch(u, x, y)
           b == Stretch(s, x, y)
           k == y - x
<1>3. /\ a \in Seq(Pieces) /\ Len(a) = k /\ b \in Seq(Pieces) /\ Len(b) = k
  BY <1>1, <1>2, StretchType
<1>4. ASSUME NEW i \in 1 .. k PROVE a[i] = b[i]
  <2>1. a[i] = u[x + i] BY <1>1, <1>2, StretchPiece
  <2>2. b[i] = s[x + i] BY StretchPiece
  <2>3. x + i \in 1 .. Len(s) BY <1>1
  <2>4. QED BY <1>1, <2>1, <2>2, <2>3
<1> HIDE DEF a, b, k
<1>5. a = b BY <1>3, <1>4, SeqEqual
<1>6. QED BY <1>5 DEF a, b, u

LEMMA ArrivedIs ==
  ASSUME Inv
  PROVE  Arrived = Stretch(stream, dropped, taken) /\ Arrived \in Seq(Pieces)
<1>1. Arrived = Stretch(stream, dropped, taken) BY DEF Arrived, Stretch
<1>2. QED BY <1>1, InvType, StretchType

LEMMA DataIs ==
  ASSUME Inv, NEW n \in 1 .. Len(stream) - taken
  PROVE  /\ taken + n \in taken .. Len(stream) /\ n \in Nat
         /\ Data(n) = Stretch(stream, taken, taken + n)
         /\ Data(n) \in Seq(Pieces) /\ Len(Data(n)) = n
         /\ \A i \in 1 .. n : Data(n)[i] = stream[taken + i]
<1> DEFINE y == taken + n
<1>1. Len(stream) \in Nat /\ taken \in 0 .. Len(stream) /\ stream \in Seq(Pieces) BY InvType
<1>2. n \in Nat /\ y \in taken .. Len(stream) /\ y - taken = n BY <1>1
<1>3. Data(n) = Stretch(stream, taken, y) BY DEF Data, Stretch
<1> HIDE DEF y
<1>4. Stretch(stream, taken, y) \in Seq(Pieces) /\ Len(Stretch(stream, taken, y)) = n
  BY <1>1, <1>2, StretchType
<1>5. \A i \in 1 .. n : Stretch(stream, taken, y)[i] = stream[taken + i]
  BY <1>1, <1>2, StretchPiece
<1>6. QED BY <1>2, <1>3, <1>4, <1>5 DEF y

\* What a read that is forwarded does: everything the parser returns is sent.
LEMMA ForwardIs ==
  ASSUME Inv, NEW n \in 1 .. Len(stream) - taken, ReadForward(n)
  PROVE  LET p == ParseHttpRequest(request, Data(n))
         IN  /\ p.out \in Seq(Pieces) /\ p.upgrade \in BOOLEAN
             /\ forwarded' = forwarded \o p.out
             /\ request' = [buffer |-> <<>>, rest |-> p.rest, socket |-> request.socket \/ p.upgrade,
                            authorized |-> TRUE]
             /\ Mapped(PlainOf, p.out) = Mapped(PlainOf, Data(n))
             /\ p.rest \in 0 .. request.rest \/ p.rest \in RestsOf(Data(n))
<1> DEFINE p == ParseHttpRequest(request, Data(n))
           o == p.out
           up == p.upgrade
           so == request.socket \/ up
           re == p.rest
           k == p.count
<1>1. Data(n) \in Seq(Pieces) /\ request.rest \in Nat /\ request.socket \in BOOLEAN
  BY DataIs, InvType
<1>2. request.buffer = <<>> BY DEF Inv, NothingLost
<1>3. request.buffer \o Data(n) = Data(n) BY <1>1, <1>2, ConcatEmptySeq
<1>4. /\ o \in Seq(Pieces) /\ k = Len(o) /\ up \in BOOLEAN
      /\ Mapped(PlainOf, o) = Mapped(PlainOf, Data(n))
      /\ re \in 0 .. request.rest \/ re \in RestsOf(Data(n))
  BY <1>1, ParseComplete
<1>5. /\ forwarded' = forwarded \o SubSeq(o, 1, k)
      /\ request' = [buffer |-> SubSeq(o, k + 1, Len(o)), rest |-> re, socket |-> so,
                     authorized |-> TRUE]
  BY <1>3 DEF ReadForward
<1> HIDE DEF p, o, k, up, re, so
<1>6. SubSeq(o, 1, k) = o BY <1>4, SubSeqFull
<1>7. SubSeq(o, k + 1, Len(o)) = <<>>
  <2>1. k + 1 \in Int /\ Len(o) \in Int /\ k + 1 > Len(o) BY <1>4, LenProperties
  <2>2. QED BY <2>1, <1>4, SubSeqEmpty
<1>8. /\ forwarded' = forwarded \o o
      /\ request' = [buffer |-> <<>>, rest |-> re, socket |-> so, authorized |-> TRUE]
  BY <1>5, <1>6, <1>7
<1>9. QED BY <1>4, <1>8 DEF p, o, k, up, re, so

LEMMA InitInv == Init => Inv
<1> SUFFICES ASSUME Init PROVE Inv OBVIOUS
<1> DEFINE z == <<>>
<1>1. /\ stream = z /\ requests = 0 /\ taken = 0 /\ dropped = 0 /\ forwarded = z
      /\ request = [buffer |-> z, rest |-> 0, socket |-> FALSE, authorized |-> FALSE]
      /\ cut = FALSE /\ mixed = FALSE
  BY DEF Init
<1>2. /\ request.buffer = z /\ request.rest = 0 /\ request.socket = FALSE
      /\ request.authorized = FALSE /\ DOMAIN request = {"buffer", "rest", "socket", "authorized"}
  BY <1>1
<1>3. z \in Seq(Pieces) /\ Len(z) = 0 BY EmptySeq
<1>4. SubSeq(z, 1, 0) = z OBVIOUS
<1> HIDE DEF z
<1>5. requests \in 0 .. MaxRequests BY <1>1, MaxRequestsAssumption
<1>6. stream \in Seq(Pieces) BY <1>1, <1>3
<1>7. TypeOK
  <2>1. taken \in 0 .. Len(stream) /\ dropped \in 0 .. taken BY <1>1, <1>3
  <2>2. request.rest \in {0} \cup UNION {1 .. r.length : r \in Requests} BY <1>2
  <2>3. request.authorized \in BOOLEAN /\ request.socket \in BOOLEAN BY <1>2
  <2>4. cut \in BOOLEAN /\ mixed \in BOOLEAN BY <1>1
  <2>5. QED BY <1>2, <1>5, <1>6, <2>1, <2>2, <2>3, <2>4 DEF TypeOK, Pieces
<1>8. LengthsSent BY <1>1, <1>3 DEF LengthsSent
<1>9. Arrived = z BY <1>1, <1>4 DEF Arrived
<1>10. NothingLost BY <1>1, <1>2, <1>9 DEF NothingLost, z
<1>11. QED BY <1>1, <1>3, <1>7, <1>8, <1>10 DEF Inv, z

\* More is sent.
LEMMA StepMore ==
  ASSUME Inv, NEW e \in Seq(Pieces), requests < MaxRequests,
         \A k \in 1 .. Len(e) : e[k].kind = "length" => \E r \in Requests : e[k].n = r.length,
         stream' = stream \o e, requests' = requests + 1,
         UNCHANGED <<taken, request, dropped, forwarded, cut, mixed>>
  PROVE  Inv'
<1>1. /\ stream \in Seq(Pieces) /\ Len(stream) \in Nat /\ taken \in 0 .. Len(stream)
      /\ taken \in dropped .. Len(stream) /\ dropped \in 0 .. Len(stream)
  BY InvType
<1>2. /\ stream' \in Seq(Pieces) /\ Len(e) \in Nat /\ Len(stream') = Len(stream) + Len(e)
      /\ \A k \in 1 .. Len(stream) : stream'[k] = stream[k]
      /\ \A k \in 1 .. Len(e) : stream'[Len(stream) + k] = e[k]
  <2> DEFINE t == stream'
  <2>1. t = stream \o e OBVIOUS
  <2> HIDE DEF t
  <2>2. /\ t \in Seq(Pieces) /\ Len(e) \in Nat /\ Len(t) = Len(stream) + Len(e)
        /\ \A k \in 1 .. Len(stream) : t[k] = stream[k]
        /\ \A k \in 1 .. Len(e) : t[Len(stream) + k] = e[k]
    BY <1>1, <2>1, ConcatIs
  <2>3. QED BY <2>2 DEF t
<1>3. TypeOK'
  <2>1. requests' \in 0 .. MaxRequests BY MaxRequestsAssumption DEF Inv, TypeOK
  <2>2. taken \in 0 .. Len(stream') BY <1>1, <1>2
  <2>3. QED BY <1>2, <2>1, <2>2 DEF Inv, TypeOK, Pieces
<1>4. LengthsSent'
  <2> SUFFICES ASSUME NEW i \in 1 .. Len(stream'), stream'[i].kind = "length"
               PROVE  \E r \in Requests : stream'[i].n = r.length
    BY DEF LengthsSent
  <2>1. CASE i \in 1 .. Len(stream) BY <1>2, <2>1 DEF Inv, LengthsSent
  <2>2. CASE i > Len(stream)
    <3> DEFINE k == i - Len(stream)
    <3>1. k \in 1 .. Len(e) /\ Len(stream) + k = i BY <1>1, <1>2, <2>2
    <3> HIDE DEF k
    <3>2. stream'[i] = e[k] BY <1>2, <3>1
    <3>3. QED BY <3>1, <3>2
  <2>3. QED BY <1>1, <1>2, <2>1, <2>2
<1>5. NothingLost'
  <2>1. Stretch(stream \o e, dropped, taken) = Stretch(stream, dropped, taken)
    BY <1>1, SentStays
  <2>2. Arrived' = Arrived
    <3>1. Arrived' = Stretch(stream', dropped', taken') BY DEF Arrived, Stretch
    <3>2. Arrived = Stretch(stream, dropped, taken) BY DEF Arrived, Stretch
    <3>3. QED BY <2>1, <3>1, <3>2
  <2>3. QED BY <2>2 DEF Inv, NothingLost
<1>6. QED BY <1>3, <1>4, <1>5 DEF Inv

LEMMA StepSend == Inv /\ Send => Inv'
<1> SUFFICES ASSUME Inv, Send PROVE Inv' OBVIOUS
<1>1. PICK r \in Requests : stream' = stream \o Encode(r) BY DEF Send
<1>2. PICK n : Encodes(Encode(r), r, n) BY EncodeIs
<1> DEFINE e == Encode(r)
<1>3. /\ e \in Seq(Pieces)
      /\ \A k \in 1 .. Len(e) : e[k].kind = "length" => e[k].n = r.length
  BY <1>2 DEF Encodes
<1>4. stream' = stream \o e BY <1>1
<1> HIDE DEF e
<1>5. \A k \in 1 .. Len(e) : e[k].kind = "length" => \E q \in Requests : e[k].n = q.length
  BY <1>3
<1>6. /\ requests < MaxRequests /\ requests' = requests + 1
      /\ UNCHANGED <<taken, request, dropped, forwarded, cut, mixed>>
  BY DEF Send
<1>7. QED BY <1>3, <1>4, <1>5, <1>6, StepMore

LEMMA StepSendFrames == Inv /\ SendFrames => Inv'
<1> SUFFICES ASSUME Inv, SendFrames PROVE Inv' OBVIOUS
<1> DEFINE e == Frames
<1>1. e \in Seq(Pieces) /\ Len(e) = 4 /\ \A k \in 1 .. 4 : e[k].kind \in {"source", "half"}
  BY FramesIs
<1>2. /\ stream' = stream \o e /\ requests < MaxRequests /\ requests' = requests + 1
      /\ UNCHANGED <<taken, request, dropped, forwarded, cut, mixed>>
  BY DEF SendFrames
<1> HIDE DEF e
<1>3. \A k \in 1 .. Len(e) : e[k].kind = "length" => \E q \in Requests : e[k].n = q.length
  BY <1>1
<1>4. QED BY <1>1, <1>2, <1>3, StepMore

LEMMA StepUnauthorized ==
  ASSUME Inv, NEW n \in 1 .. Len(stream) - taken, ReadUnauthorized(n)
  PROVE  Inv'
<1>1. taken + n \in taken .. Len(stream) BY DataIs
<1>2. /\ ~request.authorized /\ dropped' = taken + n /\ taken' = taken + n
      /\ UNCHANGED <<stream, requests, request, forwarded, mixed>>
  BY DEF ReadUnauthorized
<1>3. cut' \in BOOLEAN
  <2>1. cut' = (cut \/ EndsInRequest(Data(n))) BY DEF ReadUnauthorized
  <2>2. QED BY <2>1
<1>4. taken' \in 0 .. Len(stream') /\ dropped' \in 0 .. taken'
  BY <1>1, <1>2, InvType
<1>5. TypeOK' BY <1>2, <1>3, <1>4 DEF Inv, TypeOK
<1>6. LengthsSent' BY <1>2 DEF Inv, LengthsSent
<1>7. NothingLost'
  <2>1. forwarded = <<>> /\ request.buffer = <<>> BY <1>2 DEF Inv, NothingLost
  <2>2. Arrived' = <<>>
    <3> DEFINE y == taken + n
    <3>1. Arrived' = SubSeq(stream, y + 1, y) BY <1>2 DEF Arrived
    <3>2. y \in Int /\ y + 1 > y BY <1>1, InvType
    <3> HIDE DEF y
    <3>3. SubSeq(stream, y + 1, y) = <<>> BY <3>2, SubSeqEmpty, InvType
    <3>4. QED BY <3>1, <3>3
  <2>3. QED BY <1>2, <2>1, <2>2 DEF NothingLost
<1>8. QED BY <1>2, <1>5, <1>6, <1>7 DEF Inv

LEMMA StepForward ==
  ASSUME Inv, NEW n \in 1 .. Len(stream) - taken, ReadForward(n)
  PROVE  Inv'
<1> DEFINE p == ParseHttpRequest(request, Data(n))
           o == p.out
           re == p.rest
           so == request.socket \/ p.upgrade
           y == taken + n
<1>1. /\ o \in Seq(Pieces) /\ p.upgrade \in BOOLEAN /\ forwarded' = forwarded \o o
      /\ request' = [buffer |-> <<>>, rest |-> re, socket |-> so, authorized |-> TRUE]
      /\ Mapped(PlainOf, o) = Mapped(PlainOf, Data(n))
      /\ re \in 0 .. request.rest \/ re \in RestsOf(Data(n))
  BY ForwardIs
<1>2. /\ y \in taken .. Len(stream) /\ n \in Nat /\ Data(n) = Stretch(stream, taken, y)
      /\ Data(n) \in Seq(Pieces) /\ Len(Data(n)) = n
      /\ \A i \in 1 .. n : Data(n)[i] = stream[taken + i]
  BY DataIs
<1>3. so \in BOOLEAN BY <1>1, InvType
<1>4. /\ taken' = y /\ UNCHANGED <<stream, requests, dropped>>
      /\ cut' \in BOOLEAN /\ mixed' \in BOOLEAN
  BY DEF ReadForward, Inv, TypeOK
<1> HIDE DEF p, o, re, so, y
<1>5. re \in Rests
  <2>1. CASE re \in 0 .. request.rest BY <2>1, InvType, RestsDown
  <2>2. CASE re \in RestsOf(Data(n))
    <3>1. CASE re = 0 BY <3>1 DEF Rests
    <3>2. CASE re # 0
      <4>1. PICK x \in Offsets(Data(n), "length", 0, Len(Data(n))) : re \in 1 .. Data(n)[x + 1].n
        BY <2>2, <3>2 DEF RestsOf
      <4>2. x \in 0 .. n - 1 /\ Data(n)[x + 1].kind = "length" BY <1>2, <4>1 DEF Offsets
      <4> DEFINE i == x + 1
      <4>3. i \in 1 .. n /\ taken + i \in 1 .. Len(stream) BY SMTT(60), <1>2, <4>2, InvType DEF y
      <4>4. Data(n)[i] = stream[taken + i] /\ Data(n)[i].kind = "length" BY <1>2, <4>2, <4>3
      <4>5. \E r \in Requests : Data(n)[i].n = r.length
        <5>1. LengthsSent BY DEF Inv
        <5> HIDE DEF i
        <5>2. stream[taken + i].kind = "length" BY <4>4
        <5>3. QED BY <4>3, <4>4, <5>1, <5>2 DEF LengthsSent
      <4>6. QED BY <4>1, <4>5 DEF Rests
    <3>3. QED BY <3>1, <3>2
  <2>3. QED BY <1>1, <2>1, <2>2
<1>6. /\ request'.buffer = <<>> /\ request'.rest = re /\ request'.socket = so
      /\ request'.authorized = TRUE
      /\ DOMAIN request' = {"buffer", "rest", "socket", "authorized"}
  BY <1>1
<1>7. TypeOK'
  <2>1. taken' \in 0 .. Len(stream') /\ dropped' \in 0 .. taken' BY <1>2, <1>4, InvType
  <2>2. QED BY <1>3, <1>4, <1>5, <1>6, <2>1 DEF Inv, TypeOK, Rests
<1>8. LengthsSent' BY <1>4 DEF Inv, LengthsSent
<1>9. forwarded' \in Seq(Pieces) BY <1>1, InvType, ConcatProperties
<1>10. Plain(forwarded') = Plain(Arrived')
  <2> DEFINE A == Stretch(stream, dropped, taken)
             D == Stretch(stream, taken, y)
             B == Stretch(stream, dropped, y)
  <2>1. Plain(forwarded) = Plain(Arrived) /\ Arrived = A /\ A \in Seq(Pieces)
    BY ArrivedIs DEF Inv, NothingLost
  <2>2. Arrived' = B BY <1>4 DEF Arrived, Stretch
  <2>3. Mapped(PlainOf, A) \o Mapped(PlainOf, D) = Mapped(PlainOf, B)
    BY <1>2, InvType, PlainOfType, MappedJoin
  <2>4. B \in Seq(Pieces)
    <3>1. y \in dropped .. Len(stream) BY <1>2, InvType
    <3>2. QED BY <3>1, InvType, StretchType
  <2>5. D = Data(n) BY <1>2
  <2> HIDE DEF A, D, B
  <2>6. Mapped(PlainOf, forwarded \o o) = Mapped(PlainOf, forwarded) \o Mapped(PlainOf, o)
    BY SMTT(60), <1>1, InvType, PlainOfType, MappedConcat
  <2>7. Plain(forwarded) = Mapped(PlainOf, forwarded) /\ Plain(A) = Mapped(PlainOf, A)
        /\ Plain(B) = Mapped(PlainOf, B) /\ Plain(forwarded') = Mapped(PlainOf, forwarded')
    BY <1>9, <2>1, <2>4, InvType, PlainIs
  <2>8. Mapped(PlainOf, forwarded') = Mapped(PlainOf, forwarded \o o) BY <1>1
  <2>9. QED BY <1>1, <2>1, <2>2, <2>3, <2>5, <2>6, <2>7, <2>8
<1>11. NothingLost' BY <1>6, <1>10 DEF NothingLost
<1>12. QED BY <1>6, <1>7, <1>8, <1>9, <1>11 DEF Inv

LEMMA StepInv == Inv /\ [Next]_vars => Inv'
<1> SUFFICES ASSUME Inv, [Next]_vars PROVE Inv' OBVIOUS
<1>1. CASE Send BY <1>1, StepSend
<1>2. CASE SendFrames BY <1>2, StepSendFrames
<1>3. CASE ServerRead BY <1>3, StepUnauthorized, StepForward DEF ServerRead
<1>4. CASE UNCHANGED vars
  BY <1>4 DEF Inv, TypeOK, LengthsSent, NothingLost, Arrived, vars
<1>5. QED BY <1>1, <1>2, <1>3, <1>4 DEF Next

\* Every state has the types of the variables: the rest the proxy counts is
\* that of a body some request can carry (HttpsProxyRequest::parseHttpRequest).
THEOREM Typing == Spec => []TypeOK
<1>1. Inv => TypeOK BY DEF Inv
<1>2. QED BY <1>1, InitInv, StepInv, PTL DEF Spec

\* However the reads cut the stream, what the proxy forwards is, but for the
\* addresses, what has arrived since the credentials were right, and the count
\* that is sent (m_already_read_send) leaves nothing in the buffer.
THEOREM Completeness == Spec => []NothingLost
<1>1. Inv => NothingLost BY DEF Inv
<1>2. QED BY <1>1, InitInv, StepInv, PTL DEF Spec

-----------------------------------------------------------------------------
(* Requests in a stream *)

\* How many pieces of its request follow the first o pieces of s
Left(s, o) == IF o = 0 THEN 0 ELSE s[o].left

\* A request of s: its head is behind o up to m, its body from there up to z.
Unit(s, o, m, z) ==
  /\ o \in Nat /\ m \in Nat /\ z \in Nat /\ o + 3 <= m /\ m <= z /\ z <= Len(s)
  /\ \A i \in o + 1 .. z : s[i].left = z - i
  /\ \A i \in o + 1 .. z : s[i].part = IF i <= m THEN "head" ELSE "body"
  /\ \A i \in o + 1 .. z : s[i].kind = "half" <=> i \in {m - 1, m}
  /\ \A i \in o + 1 .. z : s[i].kind = "text" <=> i = o + 1
  /\ \A i \in o + 1 .. z : s[i].kind = "upgrade" => i <= m - 2
  /\ \A i \in o + 1 .. z : s[i].kind = "length" => z > m /\ s[i].n = z - m
  /\ z > m => \E i \in o + 1 .. m - 2 : s[i].kind = "length"

RequestsOnly(s) == \A i \in 1 .. Len(s) : \E o, m, z : Unit(s, o, m, z) /\ o < i /\ i <= z

\* What is read behind t
Reads(s, t, data) ==
  /\ s \in Seq(Pieces) /\ Len(s) \in Nat /\ data \in Seq(Pieces) /\ Len(data) \in Nat
  /\ t \in Nat /\ t + Len(data) <= Len(s)
  /\ \A i \in 1 .. Len(data) : data[i] = s[t + i]

LEMMA UnitAt ==
  ASSUME NEW s \in Seq(Pieces), RequestsOnly(s), NEW o \in 0 .. Len(s) - 1, Left(s, o) = 0
  PROVE  \E m, z : Unit(s, o, m, z)
<1>1. Len(s) \in Nat BY LenProperties
<1>2. o + 1 \in 1 .. Len(s) BY <1>1
<1>3. PICK p, m, z : Unit(s, p, m, z) /\ p < o + 1 /\ o + 1 <= z BY <1>2 DEF RequestsOnly
<1>4. p \in Nat /\ z \in Nat BY <1>3 DEF Unit
<1>5. CASE p = o BY <1>3, <1>5
<1>6. CASE p < o
  <2>1. o \in p + 1 .. z /\ o # 0 BY <1>1, <1>3, <1>4, <1>6
  <2>2. s[o].left = z - o BY <1>3, <2>1 DEF Unit
  <2>3. s[o].left = 0 BY <2>1 DEF Left
  <2>4. QED BY <1>1, <1>3, <1>4, <2>2, <2>3
<1>7. QED BY <1>1, <1>3, <1>4, <1>5, <1>6

\* The end of a request
LEMMA UnitEnd ==
  ASSUME NEW s, NEW o, NEW m, NEW z, Unit(s, o, m, z)
  PROVE  Left(s, z) = 0
<1>1. z \in o + 1 .. z /\ z # 0 BY DEF Unit
<1>2. s[z].left = z - z BY <1>1 DEF Unit
<1>3. QED BY <1>1, <1>2 DEF Unit, Left

LEMMA UnitStays ==
  ASSUME NEW s, NEW u, NEW o, NEW m, NEW z, Unit(s, o, m, z), Len(s) \in Nat, Len(u) \in Nat,
         Len(s) <= Len(u), \A i \in 1 .. Len(s) : u[i] = s[i]
  PROVE  Unit(u, o, m, z)
<1>1. o \in Nat /\ m \in Nat /\ z \in Nat /\ o + 3 <= m /\ m <= z /\ z <= Len(s)
  BY DEF Unit
<1>2. \A i \in o + 1 .. z : u[i] = s[i] BY <1>1
<1>3. \A i \in o + 1 .. m - 2 : u[i] = s[i] BY <1>1
<1>4. z <= Len(u) BY <1>1
<1>5. QED BY ZenonT(60), <1>1, <1>2, <1>3, <1>4 DEF Unit

\* A request that is sent behind s
LEMMA UnitSent ==
  ASSUME NEW s, Len(s) \in Nat, NEW e, NEW r \in Requests, NEW n, Encodes(e, r, n), NEW u,
         Len(u) = Len(s) + Len(e), \A i \in 1 .. Len(e) : u[Len(s) + i] = e[i]
  PROVE  Unit(u, Len(s), Len(s) + n, Len(u))
<1> DEFINE o == Len(s)
           m == o + n
           z == Len(u)
           E == Len(e)
<1>1. r.length \in Nat /\ n \in Nat /\ n >= 3 /\ E = n + r.length
  BY RequestsAssumption DEF Encodes
<1>2. o \in Nat /\ m \in Nat /\ z \in Nat /\ E \in Nat /\ z = o + E /\ o + 3 <= m /\ m <= z
      /\ z - m = r.length
  BY SMTT(60), <1>1
<1>3. ASSUME NEW i \in o + 1 .. z
      PROVE  i - o \in 1 .. E /\ u[i] = e[i - o]
  <2> DEFINE k == i - o
  <2>1. k \in 1 .. E /\ o + k = i BY <1>2
  <2> HIDE DEF k
  <2>2. QED BY <2>1 DEF k
<1> HIDE DEF E
<1>4. ASSUME NEW k \in 1 .. E
      PROVE  /\ e[k].left = E - k
             /\ e[k].part = IF k <= n THEN "head" ELSE "body"
             /\ e[k].kind = "half" <=> k \in {n - 1, n}
             /\ e[k].kind = "text" <=> k = 1
             /\ e[k].kind = "upgrade" => k <= n - 2
             /\ e[k].kind = "length" => r.length > 0 /\ e[k].n = r.length
  BY DEF Encodes, E
<1>5. ASSUME NEW i \in o + 1 .. z
      PROVE  /\ u[i].left = z - i
             /\ u[i].part = IF i <= m THEN "head" ELSE "body"
             /\ u[i].kind = "half" <=> i \in {m - 1, m}
             /\ u[i].kind = "text" <=> i = o + 1
             /\ u[i].kind = "upgrade" => i <= m - 2
             /\ u[i].kind = "length" => z > m /\ u[i].n = z - m
  <2> DEFINE k == i - o
             R == r.length
  <2>1. k \in 1 .. E /\ u[i] = e[k] BY <1>3
  <2>2. R \in Nat /\ E = n + R /\ n \in Nat /\ z \in Nat /\ o \in Nat /\ z = o + E /\ m = o + n
        /\ i \in o + 1 .. z /\ k = i - o
    BY <1>1, <1>2
  <2>3. /\ e[k].left = E - k
        /\ e[k].part = IF k <= n THEN "head" ELSE "body"
        /\ e[k].kind = "half" <=> k \in {n - 1, n}
        /\ e[k].kind = "text" <=> k = 1
        /\ e[k].kind = "upgrade" => k <= n - 2
        /\ e[k].kind = "length" => R > 0 /\ e[k].n = R
    BY <1>4, <2>1
  <2> HIDE DEF k, z, m, o, R
  <2>4. E - k = z - i /\ (k <= n <=> i <= m) BY <2>2
  <2>5. (k = n - 1 <=> i = m - 1) /\ (k = n <=> i = m) BY <2>2
  <2>6. (k = 1 <=> i = o + 1) /\ (k <= n - 2 <=> i <= m - 2) BY <2>2
  <2>7. (R > 0 <=> z > m) /\ R = z - m BY <2>2
  <2>8. QED BY <2>1, <2>3, <2>4, <2>5, <2>6, <2>7
<1>6. z > m => \E i \in o + 1 .. m - 2 : u[i].kind = "length"
  <2> SUFFICES ASSUME z > m PROVE \E i \in o + 1 .. m - 2 : u[i].kind = "length"
    OBVIOUS
  <2>1. r.length > 0 BY <1>1, <1>2
  <2>2. PICK k \in 1 .. n - 2 : e[k].kind = "length" BY <2>1 DEF Encodes
  <2> DEFINE i == o + k
  <2>3. i \in o + 1 .. m - 2 /\ i \in o + 1 .. z /\ i - o = k BY <1>1, <1>2
  <2>4. u[i] = e[k]
    <3> HIDE DEF z, o, i
    <3>1. QED BY <1>3, <2>3
  <2>5. QED BY <2>2, <2>3, <2>4
<1>7. z <= Len(u) OBVIOUS
<1> HIDE DEF o, m, z
<1>8. Unit(u, o, m, z) BY <1>2, <1>5, <1>6, <1>7 DEF Unit
<1>9. QED BY <1>8 DEF o, m, z

LEMMA RequestsOnlySent ==
  ASSUME NEW s \in Seq(Pieces), RequestsOnly(s), NEW e, NEW r \in Requests, NEW n,
         Encodes(e, r, n)
  PROVE  RequestsOnly(s \o e)
<1> DEFINE u == s \o e
<1>1. e \in Seq(Pieces) BY DEF Encodes
<1>2. /\ u \in Seq(Pieces) /\ Len(s) \in Nat /\ Len(e) \in Nat /\ Len(u) = Len(s) + Len(e)
      /\ \A i \in 1 .. Len(s) : u[i] = s[i]
      /\ \A i \in 1 .. Len(e) : u[Len(s) + i] = e[i]
  <2>1. u = s \o e OBVIOUS
  <2> HIDE DEF u
  <2>2. QED BY <1>1, <2>1, ConcatIs
<1> HIDE DEF u
<1>3. ASSUME NEW i \in 1 .. Len(u) PROVE \E o, m, z : Unit(u, o, m, z) /\ o < i /\ i <= z
  <2>1. CASE i <= Len(s)
    <3>1. i \in 1 .. Len(s) BY <1>2, <2>1
    <3>2. PICK o, m, z : Unit(s, o, m, z) /\ o < i /\ i <= z BY <3>1 DEF RequestsOnly
    <3>3. Len(s) <= Len(u) /\ Len(u) \in Nat BY <1>2
    <3>4. Unit(u, o, m, z) BY <1>2, <3>2, <3>3, UnitStays
    <3>5. QED BY <3>2, <3>4
  <2>2. CASE ~(i <= Len(s))
    <3>1. Unit(u, Len(s), Len(s) + n, Len(u)) BY <1>2, UnitSent
    <3>2. Len(s) < i /\ i <= Len(u) BY <1>2, <2>2
    <3>3. QED BY <3>1, <3>2
  <2>3. QED BY <2>1, <2>2
<1>4. QED BY <1>3 DEF RequestsOnly, u

\* A read that does not end in a head holds the whole of a head it begins with.
LEMMA HeadWhole ==
  ASSUME NEW s, NEW t, NEW data, Reads(s, t, data), ~EndsInHead(data),
         NEW start \in 0 .. Len(data) - 1, NEW m, NEW z, Unit(s, t + start, m, z)
  PROVE  m <= t + Len(data)
<1> DEFINE n == Len(data)
           o == t + start
           i == t + n
<1>1. /\ n \in Nat /\ t \in Nat /\ start \in Nat /\ start < n
      /\ \A j \in 1 .. n : data[j] = s[t + j]
  BY DEF Reads
<1>2. m \in Nat /\ z \in Nat /\ o + 3 <= m /\ m <= z BY DEF Unit
<1> SUFFICES ASSUME i < m PROVE FALSE BY <1>1, <1>2
<1>3. i \in o + 1 .. z /\ i <= m /\ n \in 1 .. n BY <1>1, <1>2
<1>4. Last(data) = s[i] BY <1>1, <1>3 DEF Last
<1>5. s[i].part = "head" BY <1>3 DEF Unit
<1>6. s[i].kind = "half" /\ n > 1 /\ data[n - 1].kind = "half"
  BY <1>4, <1>5 DEF EndsInHead
<1>7. i = m - 1 /\ n > 1
  <2>1. i \in {m - 1, m} BY <1>3, <1>6 DEF Unit
  <2>2. QED BY <1>1, <1>2, <1>6, <2>1
<1> DEFINE j == i - 1
<1>8. j \in o + 1 .. z /\ n - 1 \in 1 .. n /\ t + (n - 1) = j BY SMTT(60), <1>1, <1>2, <1>7
<1>9. s[j].kind = "half" BY <1>1, <1>6, <1>8
<1>10. j \in {m - 1, m} BY <1>8, <1>9 DEF Unit
<1>11. QED BY <1>1, <1>2, <1>7, <1>10

\* What a turn finds at the start of a request whose head was read whole
LEMMA HeadFound ==
  ASSUME NEW s, NEW t, NEW data, Reads(s, t, data), NEW start \in 0 .. Len(data), NEW m, NEW z,
         Unit(s, t + start, m, z), m <= t + Len(data)
  PROVE  /\ ~NoHead(data, start)
         /\ End(data, start) = m - t - 2 /\ After(data, start) = m - t
         /\ Size(data, start) = z - m
         /\ Upgrades(data, start, End(data, start))
              <=> \E i \in t + start + 1 .. z : s[i].kind = "upgrade"
<1> DEFINE n == Len(data)
           o == t + start
           x == m - t - 2
           end == End(data, start)
<1>1. /\ n \in Nat /\ t \in Nat /\ start \in Nat /\ start <= n /\ data \in Seq(Pieces)
      /\ \A j \in 1 .. n : data[j] = s[t + j]
  BY DEF Reads
<1>2. m \in Nat /\ z \in Nat /\ o + 3 <= m /\ m <= z BY DEF Unit
<1>3. x \in start .. n - 2 BY <1>1, <1>2
<1>4. ASSUME NEW q \in start .. n - 1, q + 1 <= z - t
      PROVE  data[q + 1] = s[t + (q + 1)] /\ t + (q + 1) \in o + 1 .. z
  BY <1>1, <1>2, <1>4
<1>5. data[x + 1].kind = "half" /\ data[x + 2].kind = "half"
  <2>1. x + 1 \in 1 .. n /\ x + 2 \in 1 .. n /\ t + (x + 1) = m - 1 /\ t + (x + 2) = m
    BY SMTT(60), <1>1, <1>2
  <2>2. data[x + 1] = s[m - 1] /\ data[x + 2] = s[m] BY <1>1, <2>1
  <2>3. m - 1 \in o + 1 .. z /\ m \in o + 1 .. z BY <1>1, <1>2
  <2>4. QED BY <2>2, <2>3 DEF Unit
<1>6. x \in HeadEnds(data, start) BY <1>3, <1>5 DEF HeadEnds
<1>7. ~NoHead(data, start) BY <1>6 DEF NoHead
<1>8. HeadAt(data, start, end) BY <1>1, <1>7, HeadEndIs
<1>9. end = x
  <2>1. /\ end \in start .. n - 2 /\ data[end + 1].kind = "half" /\ data[end + 2].kind = "half"
        /\ \A q \in start .. end - 1 : ~(data[q + 1].kind = "half" /\ data[q + 2].kind = "half")
    BY <1>8 DEF HeadAt
  <2> HIDE DEF end
  <2>2. end <= x
    <3> SUFFICES ASSUME ~(end <= x) PROVE FALSE OBVIOUS
    <3>1. x \in start .. end - 1 BY <1>1, <1>3, <2>1
    <3> HIDE DEF x
    <3>2. QED BY <1>5, <2>1, <3>1
  <2>3. end + 1 \in 1 .. n /\ t + (end + 1) \in o + 1 .. z BY <1>1, <1>2, <2>1, <2>2
  <2> DEFINE i == t + (end + 1)
  <2>4. s[i].kind = "half" BY <1>1, <2>1, <2>3
  <2>5. i \in {m - 1, m} BY <2>3, <2>4 DEF Unit
  <2>6. QED BY <1>1, <1>2, <2>1, <2>2, <2>5
<1> HIDE DEF end
<1>10. After(data, start) = m - t BY <1>1, <1>2, <1>9 DEF After, end
<1>11. ASSUME NEW q \in start .. x - 1
       PROVE  data[q + 1] = s[t + (q + 1)] /\ t + (q + 1) \in o + 1 .. z
  BY SMTT(60), <1>1, <1>2, <1>3
<1>12. Size(data, start) = z - m
  <2>1. x \in start .. n BY <1>3, <1>1
  <2>2. Size(data, start) = ContentLength(data, start, x) BY <1>9 DEF Size, end
  <2>3. \/ Size(data, start) = 0
        \/ \E q \in start .. x - 1 :
             data[q + 1].kind = "length" /\ Size(data, start) = data[q + 1].n
    <3> HIDE DEF x
    <3>1. start \in 0 .. Len(data) /\ x \in start .. Len(data) BY <1>1, <2>1
    <3>2. QED BY <1>1, <2>2, <3>1, ContentLengthIs
  <2>4. CASE \E q \in start .. x - 1 :
               data[q + 1].kind = "length" /\ Size(data, start) = data[q + 1].n
    <3>1. PICK q \in start .. x - 1 :
            data[q + 1].kind = "length" /\ Size(data, start) = data[q + 1].n
      BY <2>4
    <3> DEFINE i == t + (q + 1)
    <3>2. data[q + 1] = s[i] /\ i \in o + 1 .. z BY <1>11
    <3> HIDE DEF i, x, o
    <3>3. s[i].n = z - m BY <3>1, <3>2 DEF Unit, o
    <3>4. QED BY <3>1, <3>2, <3>3
  <2>5. CASE z = m /\ Size(data, start) = 0 BY <1>2, <2>5
  <2>6. CASE z # m /\ Size(data, start) = 0
    <3>1. PICK i \in o + 1 .. m - 2 : s[i].kind = "length" BY <1>2, <2>6 DEF Unit
    <3> DEFINE q == i - t - 1
    <3>2. q \in start .. x - 1 /\ t + (q + 1) = i BY SMTT(60), <1>1, <1>2
    <3>3. data[q + 1].kind = "length" BY <1>11, <3>1, <3>2
    <3> DEFINE S == Offsets(data, "length", start, x)
    <3>4. q \in S BY <3>2, <3>3 DEF Offsets
    <3>5. S \in SUBSET Nat BY <1>1 DEF Offsets
    <3> HIDE DEF q
    <3>6. Least(S) \in S
      <4> HIDE DEF S
      <4>1. QED BY <3>4, <3>5, LeastIs
    <3>7. Size(data, start) = data[Least(S) + 1].n BY <2>2, <3>4 DEF ContentLength
    <3> DEFINE l == Least(S)
               k == t + (l + 1)
    <3>8. l \in start .. x - 1 /\ data[l + 1].kind = "length" BY <3>6 DEF Offsets
    <3> HIDE DEF l, S
    <3>9. data[l + 1] = s[k] /\ k \in o + 1 .. z BY <1>11, <3>8
    <3> HIDE DEF k
    <3>10. s[k].n = z - m BY <3>8, <3>9 DEF Unit
    <3>11. QED BY <3>7, <3>9, <3>10 DEF l
  <2>7. QED BY <2>3, <2>4, <2>5, <2>6
<1>13. Upgrades(data, start, x) <=> \E i \in o + 1 .. z : s[i].kind = "upgrade"
  <2>1. ASSUME Upgrades(data, start, x) PROVE \E i \in o + 1 .. z : s[i].kind = "upgrade"
    <3>1. PICK q \in start .. x - 1 : data[q + 1].kind = "upgrade"
      BY <2>1 DEF Upgrades, Offsets
    <3>2. data[q + 1] = s[t + (q + 1)] /\ t + (q + 1) \in o + 1 .. z BY <1>11
    <3> DEFINE i == t + (q + 1)
    <3>3. i \in o + 1 .. z /\ s[i].kind = "upgrade" BY <3>1, <3>2
    <3> HIDE DEF i
    <3>4. QED BY <3>3
  <2>2. ASSUME NEW i \in o + 1 .. z, s[i].kind = "upgrade" PROVE Upgrades(data, start, x)
    <3>1. i <= m - 2 BY <2>2 DEF Unit
    <3> DEFINE q == i - t - 1
    <3>2. q \in start .. x - 1 /\ t + (q + 1) = i BY SMTT(60), <1>1, <1>2, <3>1
    <3>3. data[q + 1].kind = "upgrade" BY <1>11, <2>2, <3>2
    <3> HIDE DEF q, x
    <3>4. q \in Offsets(data, "upgrade", start, x) BY <3>2, <3>3 DEF Offsets
    <3>5. QED BY <3>4 DEF Upgrades
  <2>3. QED BY <2>1, <2>2
<1>14. QED BY <1>7, <1>9, <1>10, <1>12, <1>13 DEF end

\* A read that does not end in a head, from the start of a request on
LEMMA StartFound ==
  ASSUME NEW s, NEW t, NEW data, Reads(s, t, data), RequestsOnly(s), ~EndsInHead(data),
         NEW start \in 0 .. Len(data) - 1, Left(s, t + start) = 0
  PROVE  \E m, z : /\ Unit(s, t + start, m, z) /\ m <= t + Len(data)
                   /\ ~NoHead(data, start)
                   /\ End(data, start) = m - t - 2 /\ After(data, start) = m - t
                   /\ Size(data, start) = z - m
                   /\ Upgrades(data, start, End(data, start))
                        <=> \E i \in t + start + 1 .. z : s[i].kind = "upgrade"
<1> DEFINE o == t + start
<1>1. /\ s \in Seq(Pieces) /\ Len(s) \in Nat /\ Len(data) \in Nat /\ t \in Nat
      /\ t + Len(data) <= Len(s)
  BY DEF Reads
<1>2. o \in 0 .. Len(s) - 1 /\ start \in 0 .. Len(data) BY <1>1
<1>3. PICK m, z : Unit(s, o, m, z)
  <2> HIDE DEF o
  <2>1. Left(s, o) = 0 BY DEF o
  <2>2. QED BY <1>1, <1>2, <2>1, UnitAt
<1>4. m <= t + Len(data) BY <1>3, HeadWhole
<1>5. QED BY <1>2, <1>3, <1>4, HeadFound

\* Where a read ends, nothing is left to scan.
LEMMA NoHeadAtEnd ==
  ASSUME NEW data, Len(data) \in Nat
  PROVE  NoHead(data, Len(data))
<1>1. \A o \in Len(data) .. Len(data) - 2 : FALSE OBVIOUS
<1>2. QED BY <1>1 DEF NoHead, HeadEnds

\* From a whole request the loop goes on behind it.
LEMMA WholeNext ==
  ASSUME NEW s, NEW t, NEW data, Reads(s, t, data), NEW start \in 0 .. Len(data), NEW m, NEW z,
         Unit(s, t + start, m, z), Whole(data, start),
         After(data, start) = m - t, Size(data, start) = z - m
  PROVE  LET y == After(data, start) + Size(data, start)
         IN  y = z - t /\ y \in start + 2 .. Len(data) /\ y \in 0 .. Len(data) /\ Left(s, t + y) = 0
<1> DEFINE y == After(data, start) + Size(data, start)
<1>1. t \in Nat /\ data \in Seq(Pieces) /\ Len(data) \in Nat BY DEF Reads
<1>2. m \in Nat /\ z \in Nat BY DEF Unit
<1>3. y \in start + 2 .. Len(data) BY <1>1, HereIs DEF Whole, NoHead
<1>4. y = z - t /\ t + y = z BY <1>1, <1>2
<1>5. Left(s, z) = 0 BY UnitEnd
<1> HIDE DEF y
<1>6. QED BY <1>1, <1>3, <1>4, <1>5 DEF y

\* The pieces of bodies
BodyOf == [p \in Pieces |-> IF p.part = "body" THEN <<p>> ELSE <<>>]

LEMMA BodyOfType == BodyOf \in Rewrites(Pieces, Pieces)
<1>1. ASSUME NEW p \in Pieces PROVE <<>> \in Seq(Pieces) /\ <<p>> \in Seq(Pieces)
  OBVIOUS
<1>2. ASSUME NEW p \in Pieces
      PROVE  (IF p.part = "body" THEN <<p>> ELSE <<>>) \in Seq(Pieces)
  BY <1>1
<1>3. QED BY <1>2 DEF BodyOf, Rewrites

LEMMA BodiesIs ==
  ASSUME NEW s \in Seq(Pieces)
  PROVE  Bodies(s) = Mapped(BodyOf, s)
<1>1. \A i \in DOMAIN s : s[i] \in Pieces BY ElementOfSeq
<1>2. \A i \in DOMAIN s : BodyOf[s[i]] = IF s[i].part = "body" THEN <<s[i]>> ELSE <<>>
  BY <1>1 DEF BodyOf
<1>3. Images(BodyOf, s) = [i \in DOMAIN s |-> IF s[i].part = "body" THEN <<s[i]>> ELSE <<>>]
  BY <1>2 DEF Images
<1>4. QED BY <1>3 DEF Mapped, Bodies

LEMMA BodyIgnores ==
  ASSUME NEW data \in Seq(Pieces), NEW start \in 0 .. Len(data), NEW end \in start .. Len(data),
         \A q \in start .. end - 1 : data[q + 1].part = "head"
  PROVE  IgnoresReplacement(BodyOf, data, start, end)
<1> SUFFICES ASSUME NEW o \in Offsets(data, "source", start, end)
             PROVE  Mapped(BodyOf, Replacement(data[o + 1])) = BodyOf[data[o + 1]]
  BY DEF IgnoresReplacement
<1> DEFINE p == data[o + 1]
           p1 == [p EXCEPT !.kind = "proxy1"]
           p2 == [p EXCEPT !.kind = "proxy2"]
<1>1. Len(data) \in Nat BY DataPieces
<1>2. o \in 0 .. Len(data) - 1 /\ o \in start .. end - 1 BY <1>1 DEF Offsets
<1>3. p \in Pieces BY <1>2, DataPieces
<1>4. p.part = "head" BY <1>2
<1> HIDE DEF p
<1>5. /\ Replacement(p) = <<p1, p2>>
      /\ p1 \in Pieces /\ p1.part = p.part /\ p2 \in Pieces /\ p2.part = p.part
  BY <1>3, ReplacementIs
<1> HIDE DEF p1, p2
<1>6. BodyOf[p] = <<>> BY <1>3, <1>4 DEF BodyOf
<1>7. BodyOf[p1] = <<>> BY <1>4, <1>5 DEF BodyOf
<1>8. BodyOf[p2] = <<>> BY <1>4, <1>5 DEF BodyOf
<1>9. Mapped(BodyOf, <<p1, p2>>) = BodyOf[p1] \o BodyOf[p2]
  BY <1>5, BodyOfType, MappedFew
<1>10. <<>> \o <<>> = <<>> BY EmptySeq, ConcatEmptySeq
<1>11. QED BY <1>5, <1>6, <1>7, <1>8, <1>9, <1>10 DEF p

\* What the loop returns agrees with the requests in what was read.
Agrees(s, t, data, start, c) ==
  /\ c \in Scans
  /\ c.rest = Left(s, t + Len(data))
  /\ c.upgrade <=> \E i \in t + start + 1 .. t + Len(data) : s[i].kind = "upgrade"
  /\ Mapped(BodyOf, c.out) = Mapped(BodyOf, Stretch(data, start, Len(data)))

LEMMA TurnAgrees ==
  ASSUME NEW s, NEW t, NEW data, Reads(s, t, data), RequestsOnly(s), ~EndsInHead(data),
         NEW start \in 0 .. Len(data), Left(s, t + start) = 0, NEW next,
         Whole(data, start) => Agrees(s, t, data, After(data, start) + Size(data, start), next)
  PROVE  Agrees(s, t, data, start, Turn(data, start, next))
<1> DEFINE n == Len(data)
           o == t + start
           c == Turn(data, start, next)
<1>1. /\ data \in Seq(Pieces) /\ n \in Nat /\ t \in Nat /\ t + n <= Len(s)
      /\ \A i \in 1 .. n : data[i] = s[t + i]
  BY DEF Reads
<1>2. c \in Scans BY <1>1, TurnType DEF Agrees
<1>3. CASE start = n
  <2>1. NoHead(data, start) /\ ~Whole(data, start)
    BY <1>1, <1>3, NoHeadAtEnd DEF NoHead, Whole
  <2>2. Mapped(BodyOf, c.out) = Mapped(BodyOf, Stretch(data, start, n))
    BY <1>1, <2>1, BodyOfType, TurnMapped
  <2> DEFINE u == Stretch(data, start, n)
             k == n - start
  <2>3. c = [out |-> u, count |-> k, rest |-> 0, upgrade |-> FALSE] BY <2>1, TurnNoHead
  <2> HIDE DEF u, k, c
  <2>4. c.rest = 0 /\ c.upgrade = FALSE BY <2>3
  <2>5. \A i \in t + start + 1 .. t + n : FALSE BY <1>1, <1>3
  <2> HIDE DEF n
  <2>6. QED BY <1>2, <1>3, <2>2, <2>4, <2>5 DEF Agrees, n, u, c
<1>4. CASE start # n
  <2>1. start \in 0 .. n - 1 BY <1>1, <1>4
  <2>2. PICK m, z : /\ Unit(s, o, m, z) /\ m <= t + n /\ ~NoHead(data, start)
                    /\ End(data, start) = m - t - 2 /\ After(data, start) = m - t
                    /\ Size(data, start) = z - m
                    /\ Upgrades(data, start, End(data, start))
                         <=> \E i \in o + 1 .. z : s[i].kind = "upgrade"
    BY <2>1, StartFound
  <2>3. m \in Nat /\ z \in Nat /\ o + 3 <= m /\ m <= z BY <2>2 DEF Unit
  <2>4. IgnoresReplacement(BodyOf, data, start, End(data, start))
    <3> DEFINE x == End(data, start)
    <3>1. x \in start .. n /\ x = m - t - 2 BY <1>1, <2>2, <2>3
    <3>2. ASSUME NEW q \in start .. x - 1 PROVE data[q + 1].part = "head"
      <4> DEFINE i == t + (q + 1)
      <4>1. q + 1 \in 1 .. n /\ i \in o + 1 .. z /\ i <= m BY <1>1, <2>3, <3>1
      <4>2. data[q + 1] = s[i] BY <1>1, <4>1
      <4> HIDE DEF i, o
      <4>3. s[i].part = "head" BY <2>2, <4>1 DEF Unit
      <4>4. QED BY <4>2, <4>3
    <3> HIDE DEF x
    <3>3. QED BY <1>1, <3>1, <3>2, BodyIgnores DEF x
  <2>5. Mapped(BodyOf, c.out) = Mapped(BodyOf, Stretch(data, start, n))
    BY <1>1, <2>4, BodyOfType, TurnMapped DEF Agrees
  <2>6. CASE Partial(data, start)
    <3> DEFINE u == Here(data, start) \o Stretch(data, After(data, start), n)
               k == HeadCount(NewHead(data, start)) + (n - After(data, start))
               r == Missing(data, After(data, start), Size(data, start))
               up == Upgrades(data, start, End(data, start))
    <3>1. c = [out |-> u, count |-> k, rest |-> r, upgrade |-> up] BY <2>6, TurnPartial
    <3>2. r = Size(data, start) - (n - After(data, start)) BY <1>1, <2>6, MissingIs
    <3>3. n - After(data, start) <= Size(data, start) BY <2>6 DEF Partial
    <3> HIDE DEF u, k, r, up, c
    <3>4. c.rest = r /\ c.upgrade = up BY <3>1
    <3>5. r = z - (t + n) /\ t + n <= z BY SMTT(60), <1>1, <2>2, <2>3, <3>2, <3>3
    <3>6. Left(s, t + n) = z - (t + n)
      <4> DEFINE i == t + n
      <4>1. i \in o + 1 .. z /\ i # 0 BY <1>1, <2>1, <3>5
      <4> HIDE DEF i, o
      <4>2. s[i].left = z - i BY <2>2, <4>1 DEF Unit
      <4>3. QED BY <4>1, <4>2 DEF Left, i
    <3>7. up <=> \E i \in o + 1 .. t + n : s[i].kind = "upgrade"
      <4>1. ASSUME NEW i \in o + 1 .. z, s[i].kind = "upgrade" PROVE i \in o + 1 .. t + n
        <5> HIDE DEF o, n
        <5>1. i <= m - 2 BY <2>2, <4>1 DEF Unit
        <5>2. n \in Nat BY <1>1
        <5>3. QED BY <1>1, <2>2, <2>3, <5>1, <5>2 DEF o
      <4>2. \A i \in o + 1 .. t + n : i \in o + 1 .. z BY <1>1, <2>3, <3>5
      <4>3. QED BY <2>2, <4>1, <4>2 DEF up
    <3>8. Agrees(s, t, data, start, c)
      <4> HIDE DEF n, o
      <4>1. c.rest = Left(s, t + n) BY <3>4, <3>5, <3>6
      <4>2. c.upgrade <=> \E i \in o + 1 .. t + n : s[i].kind = "upgrade" BY <3>4, <3>7
      <4>3. c \in Scans /\ Mapped(BodyOf, c.out) = Mapped(BodyOf, Stretch(data, start, n))
        BY <1>2, <2>5 DEF c
      <4>4. QED BY <4>1, <4>2, <4>3 DEF Agrees, n, o
    <3>9. QED BY <3>8 DEF c
  <2>7. CASE Whole(data, start)
    <3> DEFINE y == After(data, start) + Size(data, start)
               u == Here(data, start) \o Stretch(data, After(data, start), y) \o next.out
               k == HeadCount(NewHead(data, start)) + Size(data, start) + next.count
               up == Upgrades(data, start, End(data, start))
               v == up \/ next.upgrade
    <3>1. c = [out |-> u, count |-> k, rest |-> next.rest, upgrade |-> v]
      BY <2>7, TurnWhole
    <3>2. y = z - t /\ y \in start + 2 .. n /\ y \in 0 .. n BY <2>2, <2>7, WholeNext
    <3>3. Agrees(s, t, data, y, next) BY <2>7
    <3> HIDE DEF y, u, k, v, c
    <3>4. c.rest = next.rest /\ c.upgrade = v BY <3>1
    <3>5. t + y = z /\ z <= t + n /\ o < z BY <1>1, <2>3, <3>2
    <3>6. /\ next.rest = Left(s, t + n)
          /\ next.upgrade <=> \E i \in z + 1 .. t + n : s[i].kind = "upgrade"
      BY <3>3, <3>5 DEF Agrees
    <3>7. v <=> \E i \in o + 1 .. t + n : s[i].kind = "upgrade"
      <4>1. \A i \in o + 1 .. t + n : i \in o + 1 .. z \/ i \in z + 1 .. t + n
        BY <1>1, <2>3
      <4>2. \A i \in o + 1 .. z : i \in o + 1 .. t + n BY <1>1, <2>3, <3>5
      <4>3. \A i \in z + 1 .. t + n : i \in o + 1 .. t + n BY <1>1, <2>3, <3>5
      <4> HIDE DEF up, o, n
      <4>4. QED BY <2>2, <3>6, <4>1, <4>2, <4>3 DEF v, up
    <3>8. Agrees(s, t, data, start, c)
      <4> HIDE DEF n, o
      <4>1. c.rest = Left(s, t + n) BY <3>4, <3>6
      <4>2. c.upgrade <=> \E i \in o + 1 .. t + n : s[i].kind = "upgrade" BY <3>4, <3>7
      <4>3. c \in Scans /\ Mapped(BodyOf, c.out) = Mapped(BodyOf, Stretch(data, start, n))
        BY <1>2, <2>5 DEF c
      <4>4. QED BY <4>1, <4>2, <4>3 DEF Agrees, n, o
    <3>9. QED BY <3>8 DEF c
  <2>8. QED BY <2>2, <2>6, <2>7 DEF Whole, NoHead
<1>5. QED BY <1>3, <1>4

LEMMA ScanAgrees ==
  ASSUME NEW s, NEW t, NEW data, Reads(s, t, data), RequestsOnly(s), ~EndsInHead(data)
  PROVE  \A start \in 0 .. Len(data) :
           Left(s, t + start) = 0 => Agrees(s, t, data, start, Scan(data, start))
<1> DEFINE n == Len(data)
           N == {p \in 0 .. n : Left(s, t + p) = 0 => Agrees(s, t, data, p, Scan(data, p))}
<1>1. n \in Nat /\ data \in Seq(Pieces) BY DEF Reads
<1>2. ASSUME NEW p \in 0 .. n, \A q \in 0 .. n : p < q => q \in N PROVE p \in N
  <2> SUFFICES ASSUME Left(s, t + p) = 0 PROVE Agrees(s, t, data, p, Scan(data, p))
    OBVIOUS
  <2>1. CASE NoHead(data, p)
    <3>1. Scan(data, p) = Turn(data, p, 0) BY <1>1, <2>1, ScanIs
    <3>2. ~Whole(data, p) BY <2>1 DEF NoHead, Whole
    <3>3. Agrees(s, t, data, p, Turn(data, p, 0)) BY <3>2, TurnAgrees
    <3>4. QED BY <3>1, <3>3
  <2>2. CASE Partial(data, p)
    <3>1. Scan(data, p) = Turn(data, p, 0) BY <1>1, <2>2, ScanIs
    <3>2. ~Whole(data, p) BY <2>2 DEF Whole
    <3>3. Agrees(s, t, data, p, Turn(data, p, 0)) BY <3>2, TurnAgrees
    <3>4. QED BY <3>1, <3>3
  <2>3. CASE Whole(data, p)
    <3> DEFINE y == After(data, p) + Size(data, p)
               c == Scan(data, y)
    <3>1. p \in 0 .. n - 1
      <4>1. ~NoHead(data, p) BY <2>3 DEF Whole, NoHead
      <4>2. p # n BY <1>1, <4>1, NoHeadAtEnd
      <4>3. QED BY <1>1, <4>2
    <3>2. y \in p + 2 .. n /\ Left(s, t + y) = 0
      <4>1. PICK m, z : /\ Unit(s, t + p, m, z) /\ After(data, p) = m - t /\ Size(data, p) = z - m
        BY <3>1, StartFound
      <4>2. QED BY <2>3, <4>1, WholeNext
    <3>3. Scan(data, p) = Turn(data, p, c) BY <1>1, <2>3, ScanIs
    <3> HIDE DEF y
    <3>4. y \in N BY <1>1, <1>2, <3>2
    <3>5. Agrees(s, t, data, y, c) BY <3>2, <3>4
    <3> HIDE DEF c
    <3>6. Agrees(s, t, data, p, Turn(data, p, c)) BY <3>5, TurnAgrees DEF y
    <3>7. QED BY <3>3, <3>6
  <2>4. QED BY <2>1, <2>2, <2>3 DEF Whole, NoHead
<1>3. 0 .. n \subseteq N
  <2> HIDE DEF N, n
  <2>1. QED BY <1>1, <1>2, Downward
<1>4. QED BY <1>3

\* What becomes of a sequence of which nothing is changed
LEMMA MappedSame ==
  ASSUME NEW P, NEW w \in Rewrites(P, P), NEW x \in Seq(P), \A i \in 1 .. Len(x) : w[x[i]] = <<x[i]>>
  PROVE  Mapped(w, x) = x
<1> DEFINE Same(u) == \A i \in 1 .. Len(u) : w[u[i]] = <<u[i]>>
           S == {u \in Seq(P) : Same(u) => Mapped(w, u) = u}
<1>1. <<>> \in S BY MappedEmpty, EmptySeq
<1>2. ASSUME NEW u \in Seq(P), NEW e \in P, u \in S PROVE Append(u, e) \in S
  <2> DEFINE v == Append(u, e)
  <2>1. /\ v \in Seq(P) /\ Len(u) \in Nat /\ Len(v) = Len(u) + 1 /\ v[Len(u) + 1] = e
        /\ \A i \in 1 .. Len(u) : v[i] = u[i]
    BY AppendProperties, LenProperties
  <2>2. Mapped(w, v) = Mapped(w, u) \o w[e] BY MappedAppend
  <2>3. v = u \o <<e>> BY AppendIsConcat
  <2> HIDE DEF v
  <2>4. ASSUME Same(v) PROVE Mapped(w, v) = v
    <3>1. Same(u)
      <4>1. ASSUME NEW i \in 1 .. Len(u) PROVE w[u[i]] = <<u[i]>>
        <5>1. i \in 1 .. Len(v) /\ v[i] = u[i] BY <2>1
        <5>2. w[v[i]] = <<v[i]>> BY <2>4, <5>1
        <5>3. QED BY <5>1, <5>2
      <4>2. QED BY <4>1
    <3>2. w[e] = <<e>>
      <4>1. Len(u) + 1 \in 1 .. Len(v) BY <2>1
      <4>2. w[v[Len(u) + 1]] = <<v[Len(u) + 1]>> BY <2>4, <4>1
      <4>3. QED BY <2>1, <4>2
    <3>3. Mapped(w, u) = u BY <1>2, <3>1
    <3>4. QED BY <2>2, <2>3, <3>2, <3>3
  <2>5. QED BY <2>1, <2>4 DEF v
<1>3. Seq(P) \subseteq S
  <2> HIDE DEF S
  <2>1. QED BY <1>1, <1>2, ByAppend
<1>4. QED BY <1>3

\* What is to become of each piece
ExactOf == [p \in Pieces |-> IF p.kind = "source" /\ p.part = "head" THEN Replacement(p) ELSE <<p>>]

LEMMA ExactOfType == ExactOf \in Rewrites(Pieces, Pieces)
<1>1. ASSUME NEW p \in Pieces PROVE Replacement(p) \in Seq(Pieces) /\ <<p>> \in Seq(Pieces)
  <2>1. Replacement(p) \in Seq(Pieces) BY ReplacementIs, Zenon
  <2>2. QED BY <2>1
<1>2. ASSUME NEW p \in Pieces
      PROVE  (IF p.kind = "source" /\ p.part = "head" THEN Replacement(p) ELSE <<p>>) \in Seq(Pieces)
  BY <1>1
<1>3. QED BY <1>2 DEF ExactOf, Rewrites

LEMMA ExactIs ==
  ASSUME NEW s \in Seq(Pieces)
  PROVE  Mapped(ExactOf, s)
           = FlattenSeq([i \in DOMAIN s |-> IF s[i].kind = "source" /\ s[i].part = "head"
                                            THEN Replacement(s[i]) ELSE <<s[i]>>])
<1>1. \A i \in DOMAIN s : s[i] \in Pieces BY ElementOfSeq
<1>2. \A i \in DOMAIN s :
        ExactOf[s[i]] = IF s[i].kind = "source" /\ s[i].part = "head"
                        THEN Replacement(s[i]) ELSE <<s[i]>>
  BY <1>1 DEF ExactOf
<1>3. Images(ExactOf, s) = [i \in DOMAIN s |-> IF s[i].kind = "source" /\ s[i].part = "head"
                                               THEN Replacement(s[i]) ELSE <<s[i]>>]
  BY <1>2 DEF Images
<1>4. QED BY <1>3 DEF Mapped

LEMMA ExactSame ==
  ASSUME NEW x \in Seq(Pieces), \A i \in 1 .. Len(x) : x[i].kind # "source" \/ x[i].part = "body"
  PROVE  Mapped(ExactOf, x) = x
<1>1. ASSUME NEW i \in 1 .. Len(x) PROVE ExactOf[x[i]] = <<x[i]>>
  <2> DEFINE p == x[i]
  <2>1. p \in Pieces /\ (p.kind # "source" \/ p.part = "body") BY DataPieces
  <2> HIDE DEF p
  <2>2. ExactOf[p] = <<p>> BY <2>1 DEF ExactOf
  <2>3. QED BY <2>2 DEF p
<1>2. QED BY <1>1, ExactOfType, MappedSame

\* Of a read that begins with a request and holds no other head, every address
\* of the head is replaced and nothing else.
LEMMA ScanExact ==
  ASSUME NEW s, NEW t, NEW data, Reads(s, t, data), RequestsOnly(s), ~EndsInHead(data),
         Len(data) >= 1, Left(s, t) = 0, \A i \in 2 .. Len(data) : data[i].kind # "text"
  PROVE  Scan(data, 0).out = Mapped(ExactOf, data)
<1> DEFINE n == Len(data)
           end == End(data, 0)
           after == After(data, 0)
           h == NewHead(data, 0)
           x == Stretch(data, end, after)
           u == Stretch(data, after, n)
<1>1. /\ data \in Seq(Pieces) /\ n \in Nat /\ t \in Nat /\ t + n <= Len(s) /\ n >= 1
      /\ \A i \in 1 .. n : data[i] = s[t + i]
  BY DEF Reads
<1>2. 0 \in 0 .. n /\ 0 \in 0 .. n - 1 /\ t + 0 = t /\ n \in 0 .. n BY <1>1
<1>3. PICK m, z : /\ Unit(s, t, m, z) /\ m <= t + n /\ ~NoHead(data, 0)
                  /\ end = m - t - 2 /\ after = m - t /\ Size(data, 0) = z - m
  <2>1. \E m, z : /\ Unit(s, t + 0, m, z) /\ m <= t + n /\ ~NoHead(data, 0)
                  /\ end = m - t - 2 /\ after = m - t /\ Size(data, 0) = z - m
    BY <1>2, StartFound
  <2> HIDE DEF end, after, n
  <2>2. QED BY <1>2, <2>1
<1>4. m \in Nat /\ z \in Nat /\ t + 3 <= m /\ m <= z BY <1>3 DEF Unit
<1>5. /\ after \in 2 .. n /\ end \in 0 .. n /\ after \in end .. n /\ after \in 0 .. n
      /\ n \in after .. n /\ n \in end .. n /\ end + 2 = after
  <2>1. n \in Nat /\ t \in Nat /\ m \in Nat /\ t + 3 <= m /\ m <= t + n BY <1>1, <1>3, <1>4
  <2>2. end = m - t - 2 /\ after = m - t BY <1>3
  <2> HIDE DEF end, after, n
  <2>3. QED BY <2>1, <2>2
<1>6. h \in Seq(Pieces) /\ x \in Seq(Pieces) /\ u \in Seq(Pieces)
  BY <1>1, <1>2, <1>3, <1>5, HereIs, StretchType
<1>7. t + n <= z /\ Scan(data, 0).out = Here(data, 0) \o u
  <2>1. CASE Partial(data, 0)
    <3> DEFINE v == Here(data, 0) \o u
               k == HeadCount(h) + (n - after)
               r == Missing(data, after, Size(data, 0))
               up == Upgrades(data, 0, end)
    <3>1. Turn(data, 0, 0) = [out |-> v, count |-> k, rest |-> r, upgrade |-> up]
      BY <2>1, TurnPartial
    <3>2. n - after <= Size(data, 0) BY <2>1 DEF Partial
    <3>3. Scan(data, 0) = Turn(data, 0, 0) BY <1>1, <1>2, <2>1, ScanIs
    <3> HIDE DEF v, k, r, up, after, n
    <3>4. Scan(data, 0).out = v BY <3>1, <3>3
    <3>5. t + n <= z BY <1>1, <1>3, <1>4, <3>2
    <3>6. QED BY <3>4, <3>5 DEF v
  <2>2. CASE Whole(data, 0)
    <3> DEFINE y == after + Size(data, 0)
               next == Scan(data, y)
               v == Here(data, 0) \o Stretch(data, after, y) \o next.out
    <3>4. Turn(data, 0, next).out = v
      <4> DEFINE first == 0
                 g == next
      <4>1. Whole(data, first) BY <2>2
      <4> HIDE DEF first, g
      <4>2. Turn(data, first, g).out
              = Here(data, first) \o Stretch(data, After(data, first),
                                             After(data, first) + Size(data, first)) \o g.out
        BY <4>1, TurnOut
      <4>3. QED BY <4>2 DEF first, g
    <3>5. Scan(data, 0) = Turn(data, 0, next) BY <1>1, <1>2, <2>2, ScanIs
    <3>1. y = z - t /\ y \in 0 + 2 .. n /\ Left(s, t + y) = 0
      <4>1. Unit(s, t + 0, m, z) BY <1>2, <1>3
      <4>2. QED BY <1>2, <1>3, <2>2, <4>1, WholeNext
    <3> HIDE DEF y
    <3>2. y = n
      <4> SUFFICES ASSUME y # n PROVE FALSE OBVIOUS
      <4>1. y \in 0 .. n - 1 BY <1>1, <3>1
      <4>2. PICK m2, z2 : Unit(s, t + y, m2, z2) BY <3>1, <4>1, StartFound
      <4> DEFINE i == t + y + 1
      <4>3. i \in t + y + 1 .. z2 BY <4>2 DEF Unit
      <4>4. s[i].kind = "text" BY <4>2, <4>3 DEF Unit
      <4>5. y + 1 \in 2 .. n /\ y + 1 \in 1 .. n /\ t + (y + 1) = i BY <1>1, <3>1, <4>1
      <4>6. data[y + 1] = s[i] BY <1>1, <4>5
      <4>7. QED BY <4>4, <4>5, <4>6
    <3>3. next.out = <<>>
      <4> DEFINE w == Stretch(data, n, n)
                 d == n - n
      <4>1. NoHead(data, n) BY <1>1, NoHeadAtEnd
      <4>2. Scan(data, n) = Turn(data, n, 0) BY <1>1, <1>2, <4>1, ScanIs
      <4>3. Turn(data, n, 0) = [out |-> w, count |-> d, rest |-> 0, upgrade |-> FALSE]
        BY <4>1, TurnNoHead
      <4>4. w \in Seq(Pieces) /\ Len(w) = 0
        <5>1. n \in n .. n /\ n - n = 0 BY <1>1
        <5>2. QED BY <1>1, <1>2, <5>1, StretchType
      <4> HIDE DEF w, d, n
      <4>5. w = <<>> BY <4>4, EmptySeq
      <4>6. QED BY <3>2, <4>2, <4>3, <4>5
    <3> DEFINE q == Here(data, 0) \o Stretch(data, after, y)
    <3>6. q \in Seq(Pieces) /\ q = Here(data, 0) \o u
      <4>1. Here(data, 0) \in Seq(Pieces) BY <1>1, <1>2, <1>3, HereIs
      <4> DEFINE g == Here(data, 0)
      <4>2. g \in Seq(Pieces) BY <4>1
      <4>3. q = g \o u BY <3>2
      <4> HIDE DEF g, u, q
      <4>4. g \o u \in Seq(Pieces) BY <1>6, <4>2, ConcatProperties
      <4>5. QED BY <4>3, <4>4 DEF g
    <3>7. v = q \o next.out OBVIOUS
    <3> HIDE DEF next, v, q
    <3>8. v = q BY <3>3, <3>6, <3>7, ConcatEmptySeq
    <3>9. Scan(data, 0).out = v BY <3>4, <3>5
    <3>10. t + n <= z BY <1>1, <1>4, <3>1, <3>2
    <3>11. QED BY <3>6, <3>8, <3>9, <3>10
  <2>3. QED BY <1>3, <2>1, <2>2 DEF Whole, NoHead
<1>8. h = Mapped(ExactOf, Stretch(data, 0, end))
  <2>1. Substitutes(ExactOf, data, end)
    <3> SUFFICES ASSUME NEW o \in 0 .. end - 1
                 PROVE  ExactOf[data[o + 1]] = IF data[o + 1].kind = "source"
                                               THEN Replacement(data[o + 1]) ELSE <<data[o + 1]>>
      BY DEF Substitutes
    <3> DEFINE p == data[o + 1]
               i == t + (o + 1)
    <3>1. o + 1 \in 1 .. n /\ i \in t + 1 .. z /\ i <= m
      <4> HIDE DEF end, after
      <4>1. QED BY <1>1, <1>3, <1>4, <1>5
    <3>2. p = s[i] /\ p \in Pieces BY <1>1, <3>1, DataPieces
    <3> HIDE DEF p, i
    <3>3. p.part = "head" BY <1>3, <3>1, <3>2 DEF Unit
    <3>4. ExactOf[p] = IF p.kind = "source" THEN Replacement(p) ELSE <<p>>
      BY <3>2, <3>3 DEF ExactOf
    <3>5. QED BY <3>4 DEF p
  <2>2. Rewritten(data, 0, end) = Mapped(ExactOf, SubSeq(data, 1, end))
    <3> HIDE DEF end
    <3>1. QED BY <1>1, <1>5, <2>1, ExactOfType, RewrittenAll
  <2>3. SubSeq(data, 1, end) = Stretch(data, 0, end) BY DEF Stretch
  <2>4. QED BY <2>2, <2>3 DEF NewHead
<1>9. Mapped(ExactOf, Stretch(data, end, n)) = Stretch(data, end, n)
  <2> DEFINE v == Stretch(data, end, n)
             k == n - end
  <2>1. v \in Seq(Pieces) /\ Len(v) = k /\ \A i \in 1 .. k : v[i] = data[end + i]
    <3> HIDE DEF end
    <3>1. QED BY <1>1, <1>5, StretchType, StretchPiece
  <2>2. ASSUME NEW i \in 1 .. k PROVE v[i].kind # "source" \/ v[i].part = "body"
    <3> DEFINE j == t + (end + i)
    <3>1. end + i \in 1 .. n /\ j \in t + 1 .. z /\ j >= m - 1 /\ j \in Nat
      <4> HIDE DEF end, after
      <4>1. QED BY <1>1, <1>3, <1>4, <1>5, <1>7
    <3>2. v[i] = s[j] BY <1>1, <2>1, <3>1
    <3> HIDE DEF j, v
    <3>3. CASE j \in {m - 1, m}
      <4>1. s[j].kind = "half" BY <1>3, <3>1, <3>3 DEF Unit
      <4>2. QED BY <3>2, <4>1
    <3>4. CASE j > m
      <4>1. s[j].part = "body" BY SMTT(60), <1>3, <1>4, <3>1, <3>4 DEF Unit
      <4>2. QED BY <3>2, <4>1
    <3>5. QED BY <1>4, <3>1, <3>3, <3>4
  <2> HIDE DEF v, k
  <2>3. Mapped(ExactOf, v) = v BY <2>1, <2>2, ExactSame
  <2>4. QED BY <2>3 DEF v
<1>10. x \o u = Stretch(data, end, n)
  <2> HIDE DEF end, after
  <2>1. QED BY <1>1, <1>5, StretchJoin
<1>11. Here(data, 0) \o u = h \o (x \o u)
  <2>1. Here(data, 0) = h \o x BY DEF Here
  <2> HIDE DEF h, x, u
  <2>2. (h \o x) \o u = h \o (x \o u) BY SMTT(60), <1>6, Assoc
  <2>3. QED BY <2>1, <2>2
<1>12. Mapped(ExactOf, Stretch(data, 0, end)) \o Mapped(ExactOf, Stretch(data, end, n))
         = Mapped(ExactOf, Stretch(data, 0, n))
  <2> HIDE DEF end
  <2>1. QED BY ZenonT(60), <1>1, <1>2, <1>5, ExactOfType, MappedJoin
<1>13. Stretch(data, 0, n) = data
  <2>1. SubSeq(data, 1, n) = data BY <1>1, SubSeqFull
  <2>2. QED BY <2>1 DEF Stretch
<1>14. QED BY <1>7, <1>8, <1>9, <1>10, <1>11, <1>12, <1>13


-----------------------------------------------------------------------------
(* The last piece *)

\* s ends with the piece of data before offset y.
Reaches(s, data, y) == s \in Seq(Pieces) /\ Len(s) > 0 /\ s[Len(s)] = data[y]

LEMMA ReachesOn ==
  ASSUME NEW data \in Seq(Pieces), NEW x \in 0 .. Len(data), NEW y \in x .. Len(data),
         NEW s \in Seq(Pieces), x = y => Reaches(s, data, x)
  PROVE  Reaches(s \o Stretch(data, x, y), data, y)
<1> DEFINE u == Stretch(data, x, y)
           g == s \o u
           k == y - x
<1>1. Len(data) \in Nat BY DataPieces
<1>2. u \in Seq(Pieces) /\ Len(u) = k /\ k \in Nat /\ \A i \in 1 .. k : u[i] = data[x + i]
  BY <1>1, StretchType, StretchPiece
<1>3. x + k = y BY <1>1
<1>4. g = s \o u OBVIOUS
<1>5. u \in Seq(Pieces) BY <1>2
<1> HIDE DEF u, g
<1>6. /\ g \in Seq(Pieces) /\ Len(s) \in Nat /\ Len(g) = Len(s) + Len(u)
      /\ \A i \in 1 .. Len(s) : g[i] = s[i]
      /\ \A i \in 1 .. Len(u) : g[Len(s) + i] = u[i]
  BY <1>4, <1>5, ConcatIs
<1> HIDE DEF k
<1>7. CASE k = 0
  <2>1. Len(g) = Len(s) /\ Len(s) > 0 /\ s[Len(s)] = data[y]
    BY <1>1, <1>2, <1>3, <1>6, <1>7 DEF Reaches
  <2>2. Len(s) \in 1 .. Len(s) BY <1>6, <2>1
  <2>3. g[Len(s)] = s[Len(s)] BY <1>6, <2>2
  <2>4. QED BY <1>6, <2>1, <2>3 DEF Reaches, g, u
<1>8. CASE k > 0
  <2>1. k \in 1 .. Len(u) /\ k \in 1 .. k BY <1>2, <1>8
  <2>2. g[Len(s) + k] = data[y] BY <1>2, <1>3, <1>6, <2>1
  <2>3. Len(g) = Len(s) + k /\ Len(g) > 0 BY <1>2, <1>6, <1>8
  <2>4. QED BY <1>6, <2>2, <2>3 DEF Reaches, g, u
<1>9. QED BY <1>2, <1>7, <1>8

LEMMA ReachesBehind ==
  ASSUME NEW data, NEW y, NEW s \in Seq(Pieces), NEW t, Reaches(t, data, y)
  PROVE  Reaches(s \o t, data, y)
<1> DEFINE g == s \o t
<1>1. t \in Seq(Pieces) /\ Len(t) > 0 /\ t[Len(t)] = data[y] BY DEF Reaches
<1>2. /\ g \in Seq(Pieces) /\ Len(s) \in Nat /\ Len(t) \in Nat /\ Len(g) = Len(s) + Len(t)
      /\ \A i \in 1 .. Len(t) : g[Len(s) + i] = t[i]
  BY <1>1, ConcatIs
<1> HIDE DEF g
<1>3. Len(t) \in 1 .. Len(t) /\ Len(g) > 0 BY <1>1, <1>2
<1>4. g[Len(g)] = data[y] BY <1>1, <1>2, <1>3
<1>5. QED BY <1>2, <1>3, <1>4 DEF Reaches, g

LEMMA StretchEmpty ==
  ASSUME NEW data \in Seq(Pieces), NEW x \in 0 .. Len(data)
  PROVE  Stretch(data, x, x) = <<>>
<1>1. x \in x .. Len(data) /\ x - x = 0 BY DataPieces
<1>2. Stretch(data, x, x) \in Seq(Pieces) /\ Len(Stretch(data, x, x)) = 0 BY <1>1, StretchType
<1>3. QED BY <1>2, EmptySeq

\* What the loop appends from start on ends as data does.
Closes(data, start, c) ==
  /\ c \in Scans
  /\ start = Len(data) => c.out = <<>>
  /\ start < Len(data) => Reaches(c.out, data, Len(data))

LEMMA TurnCloses ==
  ASSUME NEW data \in Seq(Pieces), NEW start \in 0 .. Len(data), NEW next,
         Whole(data, start) => Closes(data, After(data, start) + Size(data, start), next)
  PROVE  Closes(data, start, Turn(data, start, next))
<1> DEFINE n == Len(data)
           c == Turn(data, start, next)
           after == After(data, start)
           end == End(data, start)
<1>1. n \in Nat /\ start \in 0 .. n BY DataPieces
<1>2. c \in Scans BY TurnType DEF Closes
<1>3. CASE NoHead(data, start)
  <2> DEFINE u == Stretch(data, start, n)
             k == n - start
  <2>1. c = [out |-> u, count |-> k, rest |-> 0, upgrade |-> FALSE] BY <1>3, TurnNoHead
  <2> HIDE DEF c, k
  <2>2. c.out = u
    <3> HIDE DEF u
    <3>1. QED BY <2>1
  <2>3. start = n => u = <<>> BY StretchEmpty
  <2>4. start < n => Reaches(u, data, n)
    <3> SUFFICES ASSUME start < n PROVE Reaches(u, data, n) OBVIOUS
    <3> DEFINE e == <<>>
    <3>1. e \in Seq(Pieces) /\ n \in start .. n /\ u \in Seq(Pieces) /\ start # n
      BY <1>1, StretchType, EmptySeq
    <3>2. e \o u = u
      <4> HIDE DEF u
      <4>1. QED BY <3>1, ConcatEmptySeq
    <3> HIDE DEF e
    <3>3. Reaches(e \o u, data, n)
      <4> HIDE DEF n
      <4>1. QED BY <1>1, <3>1, ReachesOn DEF n
    <3>4. QED BY <3>2, <3>3
  <2>5. QED BY <1>2, <2>2, <2>3, <2>4 DEF Closes, c
<1>4. CASE ~NoHead(data, start)
  <2> DEFINE h == NewHead(data, start)
             g == Here(data, start)
  <2>1. /\ end \in start .. n - 2 /\ after \in start + 2 .. n /\ h \in Seq(Pieces)
        /\ g \in Seq(Pieces)
        /\ Whole(data, start) => after + Size(data, start) \in start + 2 .. n
    BY <1>4, HereIs
  <2>2. end \in 0 .. n /\ after \in end .. n /\ end # after /\ after \in 0 .. n /\ start < n
    BY <1>1, <2>1 DEF After
  <2>3. Reaches(g, data, after)
    <3>1. g = h \o Stretch(data, end, after) BY DEF Here
    <3> HIDE DEF g, h, end, after
    <3>2. Reaches(h \o Stretch(data, end, after), data, after) BY <2>1, <2>2, ReachesOn
    <3>3. QED BY <3>1, <3>2
  <2>4. ASSUME NEW y \in after .. n PROVE Reaches(g \o Stretch(data, after, y), data, y)
    <3> HIDE DEF g, after
    <3>1. QED BY <2>1, <2>2, <2>3, ReachesOn
  <2>5. CASE Partial(data, start)
    <3> DEFINE v == g \o Stretch(data, after, n)
               k == HeadCount(h) + (n - after)
               r == Missing(data, after, Size(data, start))
               up == Upgrades(data, start, end)
    <3>1. c = [out |-> v, count |-> k, rest |-> r, upgrade |-> up] BY <2>5, TurnPartial
    <3>2. n \in after .. n BY <2>2
    <3>3. Reaches(v, data, n) BY <2>4, <3>2
    <3> HIDE DEF v, k, r, up, c, n
    <3>4. c.out = v BY <3>1
    <3>5. QED BY <1>2, <2>2, <3>3, <3>4 DEF Closes, c, n
  <2>6. CASE Whole(data, start)
    <3> DEFINE y == after + Size(data, start)
               v == g \o Stretch(data, after, y)
               w == next.out
    <3>1. c.out = v \o w BY <2>6, TurnOut
    <3>2. y \in after .. n /\ y \in 0 .. n /\ Size(data, start) \in Nat
      BY <1>1, <1>4, <2>1, <2>6, HereIs
    <3>3. Closes(data, y, next) BY <2>6
    <3> HIDE DEF y
    <3>4. Reaches(v, data, y) BY <2>4, <3>2
    <3>5. v \in Seq(Pieces) BY <3>4 DEF Reaches
    <3>6. w \in Seq(Pieces) BY <3>3 DEF Closes, Scans
    <3> HIDE DEF v, c, n
    <3>7. CASE y = n
      <4>1. w = <<>> BY <3>3, <3>7 DEF Closes, n
      <4> HIDE DEF w
      <4>2. v \o w = v BY <3>5, <4>1, ConcatEmptySeq
      <4>3. Reaches(c.out, data, n) BY <3>1, <3>4, <3>7, <4>2
      <4>4. QED BY <1>2, <2>2, <4>3 DEF Closes, c, n
    <3>8. CASE y < n
      <4>1. Reaches(w, data, n) BY <3>3, <3>8 DEF Closes, n
      <4> HIDE DEF w
      <4>2. Reaches(c.out, data, n) BY <3>1, <3>5, <4>1, ReachesBehind
      <4>3. QED BY <1>2, <2>2, <4>2 DEF Closes, c, n
    <3>9. QED BY <1>1, <3>2, <3>7, <3>8 DEF n
  <2>7. QED BY <1>4, <2>5, <2>6 DEF Whole, NoHead
<1>5. QED BY <1>3, <1>4

LEMMA ScanCloses ==
  ASSUME NEW data \in Seq(Pieces)
  PROVE  \A start \in 0 .. Len(data) : Closes(data, start, Scan(data, start))
<1> DEFINE n == Len(data)
           N == {p \in 0 .. n : Closes(data, p, Scan(data, p))}
<1>1. n \in Nat BY DataPieces
<1>2. ASSUME NEW p \in 0 .. n, \A q \in 0 .. n : p < q => q \in N PROVE p \in N
  <2>1. CASE NoHead(data, p)
    <3>1. Scan(data, p) = Turn(data, p, 0) BY <2>1, ScanIs
    <3>2. ~Whole(data, p) BY <2>1 DEF NoHead, Whole
    <3>3. Closes(data, p, Turn(data, p, 0)) BY <3>2, TurnCloses
    <3>4. QED BY <3>1, <3>3
  <2>2. CASE Partial(data, p)
    <3>1. Scan(data, p) = Turn(data, p, 0) BY <2>2, ScanIs
    <3>2. ~Whole(data, p) BY <2>2 DEF Whole
    <3>3. Closes(data, p, Turn(data, p, 0)) BY <3>2, TurnCloses
    <3>4. QED BY <3>1, <3>3
  <2>3. CASE Whole(data, p)
    <3> DEFINE y == After(data, p) + Size(data, p)
               s == Scan(data, y)
    <3>1. y \in p + 2 .. n BY <2>3, HereIs DEF Whole, NoHead
    <3>2. Scan(data, p) = Turn(data, p, s) BY <2>3, ScanIs
    <3> HIDE DEF y
    <3>3. y \in N BY <1>1, <1>2, <3>1
    <3>4. Closes(data, y, s) BY <3>3
    <3> HIDE DEF s
    <3>5. Closes(data, p, Turn(data, p, s)) BY <3>4, TurnCloses DEF y
    <3>6. QED BY <3>2, <3>5
  <2>4. QED BY <2>1, <2>2, <2>3 DEF Whole, NoHead
<1>3. 0 .. n \subseteq N
  <2> HIDE DEF N, n
  <2>1. QED BY <1>1, <1>2, Downward
<1>4. QED BY <1>3

\* A read ends as what parseHttpRequest makes of it.
LEMMA ParseCloses ==
  ASSUME NEW req, NEW data \in Seq(Pieces), req.socket \in BOOLEAN, req.rest \in Nat,
         Len(data) >= 1
  PROVE  Reaches(ParseHttpRequest(req, data).out, data, Len(data))
<1> DEFINE p == ParseHttpRequest(req, data)
           n == Len(data)
<1>1. n \in Nat BY DataPieces
<1>2. CASE Passes(req, data)
  <2>1. p.out = data BY <1>2, ParsePasses
  <2>2. QED BY <1>1, <2>1 DEF Reaches
<1>3. CASE ~Passes(req, data)
  <2> DEFINE r == req.rest
             c == Scan(data, r)
             t == Stretch(data, 0, r)
  <2>1. r \in 0 .. n /\ c \in Scans /\ p.out = t \o c.out BY <1>3, ParseScans
  <2>2. Closes(data, r, c) BY <2>1, ScanCloses
  <2>3. 0 \in 0 .. n /\ r \in 0 .. n BY <1>1, <2>1
  <2>4. t \in Seq(Pieces) BY <2>3, StretchType
  <2>5. c.out \in Seq(Pieces) BY <2>1 DEF Scans
  <2> HIDE DEF p, c
  <2>6. CASE r = n
    <3>1. c.out = <<>> BY <2>2, <2>6 DEF Closes
    <3>2. t \o c.out = t BY <2>4, <3>1, ConcatEmptySeq
    <3>3. Reaches(t, data, r)
      <4>1. <<>> \in Seq(Pieces) /\ 0 # r BY <2>6, EmptySeq
      <4> HIDE DEF r
      <4>2. Reaches(<<>> \o Stretch(data, 0, r), data, r) BY <2>3, <4>1, ReachesOn
      <4> HIDE DEF t
      <4>3. <<>> \o t = t BY <2>4, ConcatEmptySeq
      <4>4. QED BY <4>2, <4>3 DEF t
    <3>4. QED BY <2>1, <2>6, <3>2, <3>3 DEF p
  <2>7. CASE r < n
    <3>1. Reaches(c.out, data, n) BY <2>2, <2>7 DEF Closes
    <3> DEFINE w == c.out
    <3> HIDE DEF w, t
    <3>2. Reaches(t \o w, data, n) BY <2>4, <3>1, ReachesBehind DEF w
    <3>3. QED BY <2>1, <3>2 DEF p, w
  <2>8. QED BY <1>1, <2>1, <2>6, <2>7
<1>4. QED BY <1>2, <1>3

-----------------------------------------------------------------------------
(* parseHttpRequest and the requests in what was read *)

\* What is missing of a request whose head was read is body.
InBody(s, t) == \A i \in t + 1 .. t + Left(s, t) : i \in 1 .. Len(s) /\ s[i].part = "body"

LEMMA BodyHasNoMark ==
  ASSUME NEW s, RequestsOnly(s), NEW i \in 1 .. Len(s), s[i].part = "body"
  PROVE  s[i].kind # "upgrade" /\ s[i].kind # "text"
<1>1. PICK o, m, z : Unit(s, o, m, z) /\ o < i /\ i <= z BY DEF RequestsOnly
<1>2. o \in Nat /\ m \in Nat /\ z \in Nat /\ o + 3 <= m /\ i \in o + 1 .. z BY <1>1 DEF Unit
<1>3. ~(i <= m)
  <2>1. s[i].part = IF i <= m THEN "head" ELSE "body" BY <1>1, <1>2 DEF Unit
  <2>2. QED BY <2>1
<1>4. s[i].kind = "upgrade" => i <= m - 2 BY <1>1, <1>2 DEF Unit
<1>5. s[i].kind = "text" => i = o + 1 BY <1>1, <1>2 DEF Unit
<1>6. QED BY <1>2, <1>3, <1>4, <1>5

\* Inside a request, what is left counts down.
LEMMA LeftOn ==
  ASSUME NEW s, RequestsOnly(s), NEW t \in 0 .. Len(s), Len(s) \in Nat
  PROVE  /\ Left(s, t) \in Nat
         /\ \A k \in 0 .. Left(s, t) : t + k <= Len(s) /\ Left(s, t + k) = Left(s, t) - k
<1>1. CASE t = 0
  <2>1. Left(s, 0) = 0 BY DEF Left
  <2>2. QED BY <1>1, <2>1
<1>2. CASE t # 0
  <2>1. t \in 1 .. Len(s) BY <1>2
  <2>2. PICK o, m, z : Unit(s, o, m, z) /\ o < t /\ t <= z BY <2>1 DEF RequestsOnly
  <2>3. o \in Nat /\ z \in Nat /\ z <= Len(s) /\ t \in o + 1 .. z BY <2>1, <2>2 DEF Unit
  <2>4. \A i \in o + 1 .. z : s[i].left = z - i BY <2>2 DEF Unit
  <2>5. Left(s, t) = z - t BY <1>2, <2>3, <2>4 DEF Left
  <2>6. ASSUME NEW k \in 0 .. z - t PROVE t + k <= Len(s) /\ Left(s, t + k) = z - t - k
    <3> DEFINE i == t + k
    <3>1. i \in o + 1 .. z /\ i # 0 /\ i <= Len(s) BY <2>1, <2>3
    <3>2. z - i = z - t - k BY <2>1, <2>3
    <3> HIDE DEF i
    <3>3. Left(s, i) = z - i BY <2>4, <3>1 DEF Left
    <3>4. QED BY <3>1, <3>2, <3>3 DEF i
  <2>7. QED BY <2>3, <2>5, <2>6
<1>3. QED BY <1>1, <1>2

\* Behind a read that does not end in a head there is body, or a new request.
LEMMA InBodyAfter ==
  ASSUME NEW s, NEW t, NEW data, Reads(s, t, data), RequestsOnly(s), InBody(s, t),
         ~EndsInHead(data), Len(data) >= 1
  PROVE  InBody(s, t + Len(data))
<1> DEFINE n == Len(data)
           i == t + n
<1>1. n \in Nat /\ n >= 1 /\ t \in Nat /\ i <= Len(s) /\ Len(s) \in Nat BY DEF Reads
<1>2. i \in 1 .. Len(s) /\ i # 0 BY <1>1
<1> HIDE DEF i
<1>3. PICK o, m, z : Unit(s, o, m, z) /\ o < i /\ i <= z BY <1>2 DEF RequestsOnly
<1>4. /\ o \in Nat /\ m \in Nat /\ z \in Nat /\ z <= Len(s) /\ i \in o + 1 .. z /\ o + 3 <= m
      /\ m <= z
  BY <1>2, <1>3 DEF Unit
<1>5. \A k \in o + 1 .. z : s[k].left = z - k /\ s[k].part = IF k <= m THEN "head" ELSE "body"
  BY <1>3 DEF Unit
<1>6. Left(s, i) = z - i BY <1>2, <1>4, <1>5 DEF Left
<1>7. m <= i
  <2>1. CASE o >= t
    <3> DEFINE start == o - t
    <3>1. start \in 0 .. n - 1 /\ t + start = o BY <1>1, <1>4, <2>1 DEF i
    <3> HIDE DEF start
    <3>2. QED BY <1>3, <3>1, HeadWhole DEF i
  <2>2. CASE o < t
    <3>1. t \in o + 1 .. z /\ t # 0 /\ i > t BY <1>1, <1>4, <2>2 DEF i
    <3>2. Left(s, t) = z - t BY <1>5, <3>1 DEF Left
    <3>3. i \in t + 1 .. t + Left(s, t) BY <1>1, <1>4, <3>1, <3>2
    <3>4. s[i].part = "body" BY <3>3 DEF InBody
    <3>5. ~(i <= m) BY <1>4, <1>5, <3>4
    <3>6. QED BY <1>2, <1>4, <3>5
  <2>3. QED BY <1>1, <1>4, <2>1, <2>2
<1>8. ASSUME NEW k \in i + 1 .. i + Left(s, i) PROVE k \in 1 .. Len(s) /\ s[k].part = "body"
  <2>1. k \in o + 1 .. z /\ ~(k <= m) /\ k \in 1 .. Len(s) BY <1>1, <1>2, <1>4, <1>6, <1>7
  <2>2. QED BY <1>5, <2>1
<1>9. QED BY <1>8 DEF InBody, i

\* Nothing becomes of a body.
LEMMA AllBody ==
  ASSUME NEW x \in Seq(Pieces), \A i \in 1 .. Len(x) : x[i].part = "body"
  PROVE  Mapped(ExactOf, x) = x
BY ExactSame

\* What parseHttpRequest returns for what was read behind t agrees with the
\* requests in it.
InStepBehind(s, t, data, p) ==
  /\ p.rest = Left(s, t + Len(data))
  /\ p.upgrade <=> \E i \in t + 1 .. t + Len(data) : s[i].kind = "upgrade"
  /\ Mapped(BodyOf, p.out) = Mapped(BodyOf, data)
  /\ (\A i \in 2 .. Len(data) : data[i].kind # "text") => p.out = Mapped(ExactOf, data)

\* In step before a read that does not end in a head, the proxy is in step
\* behind it.
LEMMA ParseAgrees ==
  ASSUME NEW s, NEW t, NEW data, Reads(s, t, data), RequestsOnly(s), InBody(s, t),
         ~EndsInHead(data), Len(data) >= 1,
         NEW req, req.socket = FALSE, req.rest = Left(s, t)
  PROVE  InStepBehind(s, t, data, ParseHttpRequest(req, data))
<1> DEFINE p == ParseHttpRequest(req, data)
           n == Len(data)
           r == req.rest
           Single == \A i \in 2 .. n : data[i].kind # "text"
           Raised == \E i \in t + 1 .. t + n : s[i].kind = "upgrade"
<1>1. /\ s \in Seq(Pieces) /\ Len(s) \in Nat /\ data \in Seq(Pieces) /\ n \in Nat /\ n >= 1
      /\ t \in Nat /\ t + n <= Len(s) /\ \A i \in 1 .. n : data[i] = s[t + i]
  BY DEF Reads
<1>2. /\ r = Left(s, t) /\ r \in Nat
      /\ \A k \in 0 .. r : t + k <= Len(s) /\ Left(s, t + k) = r - k
  <2>1. t \in 0 .. Len(s) BY <1>1
  <2>2. QED BY <1>1, <2>1, LeftOn
<1>3. ASSUME NEW i \in 1 .. n, i <= r
      PROVE  data[i].part = "body" /\ s[t + i].kind # "upgrade"
  <2> DEFINE j == t + i
  <2>1. j \in t + 1 .. t + Left(s, t) BY <1>1, <1>2, <1>3
  <2>2. data[i] = s[j] BY <1>1
  <2> HIDE DEF j
  <2>3. j \in 1 .. Len(s) /\ s[j].part = "body" BY <2>1 DEF InBody
  <2>4. QED BY <2>2, <2>3, BodyHasNoMark DEF j
<1>4. CASE Passes(req, data)
  <2>1. p.out = data /\ p.upgrade = FALSE /\ p.rest = r - n
    <3>1. req.socket \in BOOLEAN OBVIOUS
    <3>2. /\ p.out = data /\ p.upgrade = req.socket
          /\ p.rest = IF req.socket THEN req.rest ELSE req.rest - n
      BY <1>4, <3>1, ParsePasses
    <3> HIDE DEF p
    <3>3. QED BY <3>2
  <2>2. n \in 0 .. r BY <1>1, <1>2, <1>4 DEF Passes
  <2>3. p.rest = Left(s, t + n) BY <1>2, <2>1, <2>2
  <2>4. ~Raised
    <3> SUFFICES ASSUME NEW j \in t + 1 .. t + n, s[j].kind = "upgrade" PROVE FALSE OBVIOUS
    <3> DEFINE i == j - t
    <3>1. i \in 1 .. n /\ i <= r /\ t + i = j BY <1>1, <1>2, <2>2
    <3> HIDE DEF i
    <3>2. QED BY <1>3, <3>1
  <2>5. Mapped(ExactOf, data) = data
    <3>1. \A i \in 1 .. n : data[i].part = "body" BY <1>1, <1>2, <1>3, <2>2
    <3>2. QED BY <1>1, <3>1, AllBody
  <2> HIDE DEF p, Raised, Single
  <2>6. InStepBehind(s, t, data, p)
    <3>1. p.upgrade <=> Raised BY <2>1, <2>4
    <3>2. QED BY <2>1, <2>3, <2>5, <3>1 DEF InStepBehind, Raised
  <2>7. QED BY <2>6 DEF p
<1>5. CASE ~Passes(req, data)
  <2> DEFINE c == Scan(data, r)
             x == Stretch(data, 0, r)
             y == Stretch(data, r, n)
             g == c.out
  <2>1. /\ r \in 0 .. n /\ c \in Scans
        /\ p.out = x \o g /\ p.rest = c.rest /\ p.upgrade = c.upgrade
    BY <1>1, <1>2, <1>5, ParseScans
  <2>2. Left(s, t + r) = 0 BY <1>2
  <2>3. Agrees(s, t, data, r, c) BY <2>1, <2>2, ScanAgrees
  <2>4. g \in Seq(Pieces) BY <2>1 DEF Scans
  <2>5. 0 \in 0 .. n /\ r \in 0 .. n /\ n \in r .. n /\ t + 0 = t BY <1>1, <2>1
  <2>6. x \in Seq(Pieces) /\ y \in Seq(Pieces) /\ Len(x) = r
    <3> HIDE DEF r
    <3>1. x \in Seq(Pieces) /\ Len(x) = r - 0 BY <1>1, <2>5, StretchType
    <3>2. y \in Seq(Pieces) BY <1>1, <2>5, StretchType
    <3>3. r - 0 = r BY <1>2
    <3>4. QED BY <3>1, <3>2, <3>3
  <2>7. Stretch(data, 0, n) = data
    <3>1. SubSeq(data, 1, n) = data BY <1>1, SubSeqFull
    <3>2. QED BY <3>1 DEF Stretch
  <2>8. Mapped(BodyOf, p.out) = Mapped(BodyOf, data)
    <3>1. Mapped(BodyOf, g) = Mapped(BodyOf, y) BY <2>3 DEF Agrees
    <3>2. Mapped(BodyOf, x) \o Mapped(BodyOf, y) = Mapped(BodyOf, Stretch(data, 0, n))
      <4> HIDE DEF r, n
      <4>1. QED BY <1>1, <2>5, BodyOfType, MappedJoin DEF n
    <3> HIDE DEF x, y, g, p, n
    <3>3. Mapped(BodyOf, x \o g) = Mapped(BodyOf, x) \o Mapped(BodyOf, g)
      BY <2>4, <2>6, BodyOfType, MappedConcat
    <3>4. QED BY <2>1, <2>7, <3>1, <3>2, <3>3
  <2>9. p.rest = Left(s, t + n) BY <2>1, <2>3 DEF Agrees
  <2>10. p.upgrade <=> Raised
    <3>1. c.upgrade <=> \E i \in t + r + 1 .. t + n : s[i].kind = "upgrade"
      BY <2>3 DEF Agrees
    <3>2. \A j \in t + r + 1 .. t + n : j \in t + 1 .. t + n BY <1>1, <2>1
    <3>3. ASSUME NEW j \in t + 1 .. t + n, s[j].kind = "upgrade" PROVE j \in t + r + 1 .. t + n
      <4> DEFINE i == j - t
      <4>1. i \in 1 .. n /\ t + i = j BY <1>1
      <4> HIDE DEF i
      <4>2. ~(i <= r) BY <1>3, <3>3, <4>1
      <4>3. QED BY <1>1, <2>1, <4>1, <4>2
    <3> HIDE DEF r, n, p, c
    <3>4. QED BY <2>1, <3>1, <3>2, <3>3
  <2>11. ASSUME Single PROVE p.out = Mapped(ExactOf, data)
    <3>1. CASE r = 0
      <4>1. Left(s, t) = 0 BY <1>2, <3>1
      <4>2. Scan(data, 0).out = Mapped(ExactOf, data) BY <1>1, <2>11, <4>1, ScanExact
      <4>3. x = <<>> BY <2>6, <3>1, EmptySeq
      <4>4. g = Mapped(ExactOf, data) BY <3>1, <4>2
      <4> HIDE DEF x, g, p
      <4>5. x \o g = g BY <2>4, <4>3, ConcatEmptySeq
      <4>6. QED BY <2>1, <4>4, <4>5
    <3>2. CASE r # 0
      <4>1. r = n
        <5> SUFFICES ASSUME r # n PROVE FALSE OBVIOUS
        <5> DEFINE o == t + r
        <5>1. o \in 0 .. Len(s) - 1 /\ o + 1 \in 1 .. Len(s) /\ r + 1 \in 2 .. n /\ r + 1 \in 1 .. n
              /\ t + (r + 1) = o + 1 /\ o \in Nat
          BY SMTT(60), <1>1, <2>1, <3>2
        <5>2. data[r + 1] = s[o + 1] BY <1>1, <5>1
        <5> HIDE DEF o
        <5>3. PICK m, z : Unit(s, o, m, z) BY <1>1, <2>2, <5>1, UnitAt DEF o
        <5>4. o + 1 \in o + 1 .. z BY <5>3 DEF Unit
        <5>5. s[o + 1].kind = "text" BY <5>3, <5>4 DEF Unit
        <5>6. data[r + 1].kind # "text" BY <2>11, <5>1
        <5>7. QED BY <5>2, <5>5, <5>6
      <4>2. g = <<>>
        <5>1. Closes(data, r, c) BY <1>1, <2>1, ScanCloses
        <5>2. QED BY <4>1, <5>1 DEF Closes
      <4>3. Mapped(ExactOf, data) = data
        <5>1. \A i \in 1 .. n : data[i].part = "body" BY <1>3, <4>1
        <5>2. QED BY <1>1, <5>1, AllBody
      <4>4. x = data BY <2>7, <4>1
      <4> HIDE DEF x, g, p
      <4>5. x \o g = x BY <2>6, <4>2, ConcatEmptySeq
      <4>6. QED BY <2>1, <4>3, <4>4, <4>5
    <3>3. QED BY <3>1, <3>2
  <2> HIDE DEF p, Raised
  <2>12. InStepBehind(s, t, data, p)
    BY <2>8, <2>9, <2>10, <2>11 DEF InStepBehind, Raised
  <2>13. QED BY <2>12 DEF p
<1>6. QED BY <1>4, <1>5

-----------------------------------------------------------------------------
(* Where the proxy is in the requests of the browser *)

\* An upgrade is in the last request of s.
UpgradeLast(s) == \A i \in 1 .. Len(s) : s[i].kind = "upgrade" => i + s[i].left = Len(s)

\* No upgrade was read since the credentials were right: the proxy knows where
\* it is in a request.
Following ==
  /\ RequestsOnly(stream) /\ UpgradeLast(stream)
  /\ request.rest = Left(stream, taken) /\ InBody(stream, taken)
  /\ \A i \in dropped + 1 .. taken : stream[i].kind # "upgrade"

\* Behind an upgrade nothing is a head.
Passing == Upgraded /\ \A i \in taken + 1 .. Len(stream) : stream[i].part = "body"

InTurn ==
  /\ Left(stream, dropped) = 0
  /\ request.socket => Passing
  /\ ~request.socket => Following
  /\ Mapped(BodyOf, forwarded) = Mapped(BodyOf, Arrived)
  /\ ~mixed => forwarded = Mapped(ExactOf, Arrived)

\* What was forwarded ends where the stream was read to.
LastForwarded ==
  forwarded # <<>> => taken > 0 /\ forwarded[Len(forwarded)] = stream[taken]

IInv ==
  /\ Inv
  /\ ~request.authorized => dropped = taken
  /\ LastForwarded
  /\ ~cut => InTurn

LEMMA InTurnIs ==
  InTurn <=> /\ Left(stream, dropped) = 0
             /\ request.socket => Passing
             /\ ~request.socket => Following
             /\ Mapped(BodyOf, forwarded) = Mapped(BodyOf, Stretch(stream, dropped, taken))
             /\ ~mixed => forwarded = Mapped(ExactOf, Stretch(stream, dropped, taken))
BY DEF InTurn, Arrived, Stretch

LEMMA ForwardMapped ==
  ASSUME NEW s \in Seq(Pieces), NEW x \in 0 .. Len(s), NEW y \in x .. Len(s), NEW z \in y .. Len(s),
         NEW w \in Rewrites(Pieces, Pieces), NEW u \in Seq(Pieces), NEW v \in Seq(Pieces),
         Mapped(w, u) = Mapped(w, Stretch(s, x, y)), Mapped(w, v) = Mapped(w, Stretch(s, y, z))
  PROVE  Mapped(w, u \o v) = Mapped(w, Stretch(s, x, z))
<1>1. Mapped(w, u \o v) = Mapped(w, u) \o Mapped(w, v) BY MappedConcat
<1>2. Mapped(w, Stretch(s, x, y)) \o Mapped(w, Stretch(s, y, z)) = Mapped(w, Stretch(s, x, z))
  BY MappedJoin
<1>3. QED BY <1>1, <1>2

LEMMA StretchSent ==
  ASSUME NEW s \in Seq(Pieces), NEW e \in Seq(Pieces), NEW t, t = s \o e
  PROVE  /\ t \in Seq(Pieces) /\ Len(s) \in Nat /\ Len(e) \in Nat /\ Len(t) = Len(s) + Len(e)
         /\ \A i \in 1 .. Len(s) : t[i] = s[i]
         /\ \A i \in 1 .. Len(e) : t[Len(s) + i] = e[i]
         /\ \A o \in 0 .. Len(s) : Left(t, o) = Left(s, o)
         /\ \A x \in 0 .. Len(s) : \A y \in x .. Len(s) : Stretch(t, x, y) = Stretch(s, x, y)
<1>1. /\ t \in Seq(Pieces) /\ Len(s) \in Nat /\ Len(e) \in Nat /\ Len(t) = Len(s) + Len(e)
      /\ \A i \in 1 .. Len(s) : t[i] = s[i]
      /\ \A i \in 1 .. Len(e) : t[Len(s) + i] = e[i]
  BY ConcatIs
<1>2. ASSUME NEW o \in 0 .. Len(s) PROVE Left(t, o) = Left(s, o)
  <2>1. o = 0 \/ o \in 1 .. Len(s) BY <1>1
  <2>2. QED BY <1>1, <2>1 DEF Left
<1>3. \A x \in 0 .. Len(s) : \A y \in x .. Len(s) : Stretch(t, x, y) = Stretch(s, x, y)
  BY SentStays
<1>4. QED BY <1>1, <1>2, <1>3

LEMMA InitIInv == Init => IInv
<1> SUFFICES ASSUME Init PROVE IInv OBVIOUS
<1> DEFINE z == <<>>
<1>1. /\ stream = z /\ taken = 0 /\ dropped = 0 /\ forwarded = z
      /\ request = [buffer |-> z, rest |-> 0, socket |-> FALSE, authorized |-> FALSE]
  BY DEF Init
<1>2. request.socket = FALSE /\ request.rest = 0 BY <1>1
<1>3. z \in Seq(Pieces) /\ Len(z) = 0 BY EmptySeq
<1>4. Mapped(ExactOf, z) = z BY MappedEmpty
<1>5. Stretch(z, 0, 0) = z
  <2> HIDE DEF z
  <2>1. 0 \in 0 .. Len(z) BY <1>3
  <2>2. Stretch(z, 0, 0) = <<>> BY <1>3, <2>1, StretchEmpty
  <2>3. QED BY <2>2 DEF z
<1>6. Inv BY InitInv
<1>7. LastForwarded BY <1>1 DEF LastForwarded
<1> HIDE DEF z
<1>8. Left(z, 0) = 0 BY DEF Left
<1>9. RequestsOnly(z) /\ UpgradeLast(z)
  <2>1. \A i \in 1 .. Len(z) : FALSE BY <1>3
  <2>2. QED BY <2>1 DEF RequestsOnly, UpgradeLast
<1>10. InBody(z, 0)
  <2>1. \A i \in 0 + 1 .. 0 + Left(z, 0) : FALSE BY <1>8
  <2>2. QED BY <2>1 DEF InBody
<1>11. Following
  <2>1. \A i \in dropped + 1 .. taken : FALSE BY <1>1
  <2>2. QED BY <1>1, <1>2, <1>8, <1>9, <1>10, <2>1 DEF Following
<1>12. InTurn BY <1>1, <1>2, <1>4, <1>5, <1>8, <1>11, InTurnIs
<1>13. QED BY <1>1, <1>6, <1>7, <1>12 DEF IInv

\* Sending does not change what was read.
LEMMA SendKeeps ==
  ASSUME IInv, NEW e \in Seq(Pieces), stream' = stream \o e,
         UNCHANGED <<taken, request, dropped, forwarded, cut, mixed>>
  PROVE  /\ LastForwarded'
         /\ Left(stream', dropped') = Left(stream, dropped)
         /\ Left(stream', taken') = Left(stream, taken)
         /\ Stretch(stream', dropped', taken') = Stretch(stream, dropped, taken)
<1> DEFINE t == stream'
<1>1. Inv /\ LastForwarded BY DEF IInv
<1>2. /\ stream \in Seq(Pieces) /\ Len(stream) \in Nat /\ taken \in 0 .. Len(stream)
      /\ taken \in dropped .. Len(stream) /\ dropped \in 0 .. Len(stream) /\ taken \in Nat
  BY <1>1, InvType
<1>3. t = stream \o e OBVIOUS
<1> HIDE DEF t
<1>4. /\ \A i \in 1 .. Len(stream) : t[i] = stream[i]
      /\ \A o \in 0 .. Len(stream) : Left(t, o) = Left(stream, o)
      /\ \A x \in 0 .. Len(stream) : \A y \in x .. Len(stream) :
           Stretch(t, x, y) = Stretch(stream, x, y)
  <2>1. stream \in Seq(Pieces) BY <1>2
  <2>2. \A i \in 1 .. Len(stream) : t[i] = stream[i] BY <1>3, <2>1, StretchSent
  <2>3. \A o \in 0 .. Len(stream) : Left(t, o) = Left(stream, o) BY <1>3, <2>1, StretchSent
  <2>4. \A x \in 0 .. Len(stream) : \A y \in x .. Len(stream) :
          Stretch(t, x, y) = Stretch(stream, x, y)
    BY ZenonT(60), <1>3, <2>1, StretchSent
  <2>5. QED BY <2>2, <2>3, <2>4
<1>5. LastForwarded'
  <2> SUFFICES ASSUME forwarded # <<>>
               PROVE  taken > 0 /\ forwarded[Len(forwarded)] = t[taken]
    BY DEF LastForwarded, t
  <2>1. taken > 0 /\ forwarded[Len(forwarded)] = stream[taken] BY <1>1 DEF LastForwarded
  <2>2. taken \in 1 .. Len(stream) BY <1>2, <2>1
  <2>3. QED BY <1>4, <2>1, <2>2
<1>6. /\ Left(t, dropped) = Left(stream, dropped) /\ Left(t, taken) = Left(stream, taken)
      /\ Stretch(t, dropped, taken) = Stretch(stream, dropped, taken)
  BY <1>2, <1>4
<1>7. QED BY <1>5, <1>6 DEF t

LEMMA IStepSend == IInv /\ Send => IInv'
<1> SUFFICES ASSUME IInv, Send PROVE IInv' OBVIOUS
<1>1. Inv /\ Inv' BY StepSend DEF IInv
<1>2. PICK r \in Requests : stream' = stream \o Encode(r) BY DEF Send
<1>3. PICK n : Encodes(Encode(r), r, n) BY <1>2, EncodeIs
<1> DEFINE e == Encode(r)
           t == stream'
           L == Len(stream)
<1>4. t = stream \o e /\ Encodes(e, r, n) /\ e \in Seq(Pieces) BY <1>2, <1>3 DEF Encodes
<1> HIDE DEF e
<1>5. UNCHANGED <<taken, request, dropped, forwarded, cut, mixed>> /\ ~Upgraded BY DEF Send
<1>6. /\ LastForwarded' /\ Left(t, dropped') = Left(stream, dropped)
      /\ Left(t, taken') = Left(stream, taken)
      /\ Stretch(t, dropped', taken') = Stretch(stream, dropped, taken)
  BY <1>4, <1>5, SendKeeps
<1> HIDE DEF t
<1>7. /\ stream \in Seq(Pieces) /\ L \in Nat /\ taken \in 0 .. L /\ taken \in Nat
      /\ dropped \in Nat /\ request.socket \in BOOLEAN
  BY <1>1, InvType
<1>8. /\ t \in Seq(Pieces) /\ Len(e) \in Nat /\ Len(t) = L + Len(e)
      /\ \A i \in 1 .. L : t[i] = stream[i]
      /\ \A i \in 1 .. Len(e) : t[L + i] = e[i]
  BY <1>4, <1>7, StretchSent
<1>9. ASSUME ~cut PROVE InTurn'
  <2>1. InTurn BY <1>9 DEF IInv
  <2>2. ~request.socket /\ Following BY <1>5, <1>7, <2>1 DEF InTurn, Passing
  <2>3. RequestsOnly(t) BY <1>4, <1>7, <2>2, RequestsOnlySent DEF Following
  <2>4. UpgradeLast(t)
    <3> SUFFICES ASSUME NEW i \in 1 .. Len(t), t[i].kind = "upgrade"
                 PROVE  i + t[i].left = Len(t)
      BY DEF UpgradeLast
    <3>1. ~(i <= L)
      <4> SUFFICES ASSUME i <= L PROVE FALSE OBVIOUS
      <4>1. i \in 1 .. L BY <1>7
      <4>2. stream[i].kind = "upgrade" BY <1>8, <4>1
      <4>3. i \in DOMAIN stream BY <1>7, <4>1, DataPieces
      <4>4. QED BY <1>5, <4>2, <4>3 DEF Upgraded
    <3>2. i \in L + 1 .. Len(t) BY <1>7, <3>1
    <3>3. Unit(t, L, L + n, Len(t)) BY <1>4, <1>7, <1>8, UnitSent
    <3>4. t[i].left = Len(t) - i BY <3>2, <3>3 DEF Unit
    <3>5. QED BY <1>7, <1>8, <3>4
  <2>5. InBody(t, taken)
    <3> SUFFICES ASSUME NEW i \in taken + 1 .. taken + Left(t, taken)
                 PROVE  i \in 1 .. Len(t) /\ t[i].part = "body"
      BY DEF InBody
    <3>1. i \in taken + 1 .. taken + Left(stream, taken) BY <1>5, <1>6
    <3>2. i \in 1 .. L /\ stream[i].part = "body" BY <2>2, <3>1 DEF Following, InBody
    <3>3. QED BY <1>7, <1>8, <3>2
  <2>6. ASSUME NEW i \in dropped + 1 .. taken PROVE t[i].kind # "upgrade"
    <3>1. i \in 1 .. L BY <1>7
    <3>2. stream[i].kind # "upgrade" BY <2>2 DEF Following
    <3>3. QED BY <1>8, <3>1, <3>2
  <2>7. Following'
    BY <1>5, <1>6, <2>2, <2>3, <2>4, <2>5, <2>6 DEF Following, t
  <2>8. InTurn'
    <3>1. /\ Left(stream, dropped) = 0
          /\ Mapped(BodyOf, forwarded) = Mapped(BodyOf, Stretch(stream, dropped, taken))
          /\ ~mixed => forwarded = Mapped(ExactOf, Stretch(stream, dropped, taken))
      BY <2>1, InTurnIs
    <3>2. /\ Left(stream', dropped') = 0
          /\ Mapped(BodyOf, forwarded') = Mapped(BodyOf, Stretch(stream', dropped', taken'))
          /\ ~mixed' => forwarded' = Mapped(ExactOf, Stretch(stream', dropped', taken'))
      BY <1>5, <1>6, <3>1 DEF t
    <3>3. ~request'.socket BY <1>5, <2>2
    <3>4. Arrived' = Stretch(stream', dropped', taken') BY DEF Arrived, Stretch
    <3>5. QED BY <2>7, <3>2, <3>3, <3>4 DEF InTurn
  <2>9. QED BY <2>8
<1>10. QED BY <1>1, <1>5, <1>6, <1>9 DEF IInv

LEMMA IStepSendFrames == IInv /\ SendFrames => IInv'
<1> SUFFICES ASSUME IInv, SendFrames PROVE IInv' OBVIOUS
<1>1. Inv /\ Inv' BY StepSendFrames DEF IInv
<1> DEFINE e == Frames
           t == stream'
           L == Len(stream)
<1>2. t = stream \o e BY DEF SendFrames
<1>3. e \in Seq(Pieces) /\ Len(e) = 4 /\ \A k \in 1 .. 4 : e[k].part = "body" BY FramesIs
<1> HIDE DEF e
<1>4. /\ UNCHANGED <<taken, request, dropped, forwarded, cut, mixed>>
      /\ Upgraded /\ taken = L /\ dropped < taken
  BY DEF SendFrames
<1>5. /\ LastForwarded' /\ Left(t, dropped') = Left(stream, dropped)
      /\ Stretch(t, dropped', taken') = Stretch(stream, dropped, taken)
  BY <1>2, <1>3, <1>4, SendKeeps
<1> HIDE DEF t
<1>6. /\ stream \in Seq(Pieces) /\ L \in Nat /\ dropped \in 0 .. L /\ dropped \in Nat
      /\ request.socket \in BOOLEAN
  BY <1>1, InvType
<1>7. /\ t \in Seq(Pieces) /\ Len(t) = L + 4
      /\ \A i \in 1 .. L : t[i] = stream[i]
      /\ \A i \in 1 .. 4 : t[L + i] = e[i]
  <2>1. stream \in Seq(Pieces) /\ e \in Seq(Pieces) BY <1>3, <1>6
  <2>2. /\ t \in Seq(Pieces) /\ Len(t) = L + Len(e)
        /\ \A i \in 1 .. L : t[i] = stream[i]
        /\ \A i \in 1 .. Len(e) : t[L + i] = e[i]
    BY <1>2, <2>1, StretchSent
  <2> HIDE DEF L
  <2>3. QED BY <1>3, <2>2
<1>8. PICK u \in 1 .. L : stream[u].kind = "upgrade" BY <1>4, <1>6, DataPieces DEF Upgraded
<1>9. ASSUME ~cut PROVE InTurn'
  <2>1. InTurn BY <1>9 DEF IInv
  <2>2. request.socket
    <3> SUFFICES ASSUME ~request.socket PROVE FALSE OBVIOUS
    <3>1. Following /\ Left(stream, dropped) = 0 BY <2>1 DEF InTurn
    <3>2. u + stream[u].left = L BY <1>8, <3>1 DEF Following, UpgradeLast
    <3>3. ~(u \in dropped + 1 .. taken) BY <1>8, <3>1 DEF Following
    <3>4. u <= dropped BY <1>4, <1>6, <1>8, <3>3
    <3>5. Left(stream, u) = L - u
      <4>1. Left(stream, u) = stream[u].left BY <1>8 DEF Left
      <4>2. stream[u].left \in Nat BY <1>6, <1>8, DataPieces DEF Pieces
      <4>3. QED BY <1>6, <1>8, <3>2, <4>1, <4>2
    <3> DEFINE k == dropped - u
    <3>6. k \in 0 .. L - u /\ u + k = dropped /\ u \in 0 .. L BY <1>4, <1>6, <1>8, <3>4
    <3> HIDE DEF k
    <3>7. RequestsOnly(stream) BY <3>1 DEF Following
    <3>8. \A j \in 0 .. Left(stream, u) : Left(stream, u + j) = Left(stream, u) - j
      BY <1>6, <3>6, <3>7, LeftOn
    <3>9. Left(stream, u + k) = L - u - k BY <3>5, <3>6, <3>8
    <3>10. QED BY <1>4, <1>6, <1>8, <3>1, <3>6, <3>9
  <2>3. Passing'
    <3>1. u \in 1 .. Len(t) /\ t[u].kind = "upgrade" BY <1>6, <1>7, <1>8
    <3>2. u \in DOMAIN t BY <1>7, <3>1, DataPieces
    <3>3. ASSUME NEW i \in taken + 1 .. Len(t) PROVE t[i].part = "body"
      <4> DEFINE k == i - L
      <4>1. k \in 1 .. 4 /\ L + k = i
        <5>1. taken = L /\ L \in Nat /\ Len(t) = L + 4 BY <1>4, <1>6, <1>7
        <5> HIDE DEF L
        <5>2. QED BY <5>1
      <4> HIDE DEF k
      <4>2. QED BY <1>3, <1>7, <4>1
    <3>4. Upgraded' BY <3>1, <3>2 DEF Upgraded, t
    <3>5. \A i \in taken' + 1 .. Len(stream') : stream'[i].part = "body"
      BY <1>4, <3>3 DEF t
    <3>6. QED BY <3>4, <3>5 DEF Passing
  <2>4. InTurn'
    <3>1. /\ Left(stream, dropped) = 0
          /\ Mapped(BodyOf, forwarded) = Mapped(BodyOf, Stretch(stream, dropped, taken))
          /\ ~mixed => forwarded = Mapped(ExactOf, Stretch(stream, dropped, taken))
      BY <2>1, InTurnIs
    <3>2. /\ Left(stream', dropped') = 0
          /\ Mapped(BodyOf, forwarded') = Mapped(BodyOf, Stretch(stream', dropped', taken'))
          /\ ~mixed' => forwarded' = Mapped(ExactOf, Stretch(stream', dropped', taken'))
      BY <1>4, <1>5, <3>1 DEF t
    <3>3. request'.socket BY <1>4, <2>2
    <3>4. Arrived' = Stretch(stream', dropped', taken') BY DEF Arrived, Stretch
    <3>5. QED BY <2>3, <3>2, <3>3, <3>4 DEF InTurn
  <2>5. QED BY <2>4
<1>10. QED BY <1>1, <1>4, <1>5, <1>9 DEF IInv

\* A read that is answered with a 401
LEMMA IStepUnauthorized ==
  ASSUME IInv, NEW n \in 1 .. Len(stream) - taken, ReadUnauthorized(n)
  PROVE  IInv'
<1> DEFINE y == taken + n
           data == Data(n)
<1>1. Inv /\ Inv' BY StepUnauthorized DEF IInv
<1>2. /\ ~request.authorized /\ dropped' = y /\ taken' = y
      /\ cut' = (cut \/ EndsInRequest(data))
      /\ UNCHANGED <<stream, requests, request, forwarded, mixed>>
  BY DEF ReadUnauthorized
<1>3. forwarded = <<>> /\ dropped = taken BY <1>1, <1>2 DEF IInv, Inv
<1>4. /\ y \in taken .. Len(stream) /\ n \in Nat /\ data \in Seq(Pieces) /\ Len(data) = n
      /\ \A i \in 1 .. n : data[i] = stream[taken + i]
  BY <1>1, DataIs
<1>5. /\ stream \in Seq(Pieces) /\ Len(stream) \in Nat /\ taken \in Nat
      /\ request.socket \in BOOLEAN
  BY <1>1, InvType
<1>6. n \in 1 .. n /\ y \in 1 .. Len(stream) /\ y # 0 /\ y \in 0 .. Len(stream) /\ y \in Nat
  BY <1>4, <1>5
<1>7. LastForwarded' BY <1>2, <1>3 DEF LastForwarded
<1>8. ASSUME ~cut' PROVE InTurn'
  <2>1. InTurn /\ ~EndsInRequest(data) BY <1>2, <1>8 DEF IInv
  <2>2. Left(stream, y) = 0
    <3>1. Last(data) = stream[y]
      <4>1. Last(data) = data[n] BY <1>4 DEF Last
      <4>2. QED BY <1>4, <1>6, <4>1
    <3>2. ~(stream[y].left > 0) BY <2>1, <3>1 DEF EndsInRequest
    <3>3. stream[y].left \in Nat
      <4> HIDE DEF y
      <4>1. QED BY <1>5, <1>6, DataPieces DEF Pieces
    <3>4. stream[y].left = 0
      <4> DEFINE l == stream[y].left
      <4>1. ~(l > 0) /\ l \in Nat BY <3>2, <3>3
      <4> HIDE DEF l
      <4>2. l = 0 BY <4>1
      <4>3. QED BY <4>2 DEF l
    <3>5. QED BY <1>6, <3>4 DEF Left
  <2>3. request.socket => Passing'
    <3> SUFFICES ASSUME request.socket PROVE Passing' OBVIOUS
    <3>1. Passing BY <2>1 DEF InTurn
    <3>2. \A i \in y + 1 .. Len(stream) : i \in taken + 1 .. Len(stream) BY <1>4, <1>5
    <3> HIDE DEF y
    <3>3. Upgraded' BY <1>2, <3>1 DEF Passing, Upgraded
    <3>4. \A i \in taken' + 1 .. Len(stream') : stream'[i].part = "body"
      BY <1>2, <3>1, <3>2 DEF Passing
    <3>5. QED BY <3>3, <3>4 DEF Passing
  <2>4. ~request.socket => Following'
    <3> SUFFICES ASSUME ~request.socket PROVE Following' OBVIOUS
    <3>1. Following /\ Left(stream, dropped) = 0 BY <2>1 DEF InTurn
    <3>2. request.rest = 0 BY <1>3, <3>1 DEF Following
    <3>3. InBody(stream, y)
      <4>1. \A i \in y + 1 .. y + Left(stream, y) : FALSE BY <1>6, <2>2
      <4>2. QED BY <4>1 DEF InBody
    <3>4. \A i \in y + 1 .. y : FALSE BY <1>6
    <3> HIDE DEF y
    <3>5. RequestsOnly(stream) /\ UpgradeLast(stream) BY <3>1 DEF Following
    <3>6. QED BY <1>2, <2>2, <3>2, <3>3, <3>4, <3>5 DEF Following
  <2>5. Stretch(stream, y, y) = <<>>
    <3> HIDE DEF y
    <3>1. QED BY <1>5, <1>6, StretchEmpty
  <2>6. Arrived' = <<>>
    <3>1. Arrived' = Stretch(stream', dropped', taken') BY DEF Arrived, Stretch
    <3> HIDE DEF y
    <3>2. QED BY <1>2, <2>5, <3>1
  <2>7. forwarded' = <<>> BY <1>2, <1>3
  <2>8. Mapped(ExactOf, <<>>) = <<>> BY MappedEmpty
  <2>9. Left(stream', dropped') = 0
    <3> HIDE DEF y
    <3>1. QED BY <1>2, <2>2
  <2>10. request' = request BY <1>2
  <2>11. QED BY <2>3, <2>4, <2>6, <2>7, <2>8, <2>9, <2>10 DEF InTurn
<1>9. QED BY <1>1, <1>2, <1>7, <1>8 DEF IInv

\* A read that is forwarded behind an upgrade
LEMMA ForwardPassing ==
  ASSUME IInv, NEW n \in 1 .. Len(stream) - taken, ReadForward(n), InTurn, request.socket
  PROVE  LET p == ParseHttpRequest(request, Data(n))
         IN  /\ p.upgrade = TRUE /\ p.out = Data(n) /\ Mapped(ExactOf, Data(n)) = Data(n)
             /\ Upgraded /\ \A i \in taken + n + 1 .. Len(stream) : stream[i].part = "body"
<1> DEFINE p == ParseHttpRequest(request, Data(n))
           data == Data(n)
<1>1. Inv BY DEF IInv
<1>2. request.socket \in BOOLEAN /\ taken \in Nat /\ Len(stream) \in Nat BY <1>1, InvType
<1>3. p.out = data /\ p.upgrade = request.socket
  <2> DEFINE rest == request.rest
  <2>1. request.socket = TRUE BY <1>2
  <2>2. p = [out |-> data, count |-> Len(data), rest |-> rest, upgrade |-> TRUE]
    BY <2>1 DEF ParseHttpRequest
  <2> HIDE DEF p, data, rest
  <2>3. QED BY <2>1, <2>2
<1>4. /\ data \in Seq(Pieces) /\ Len(data) = n /\ n \in Nat
      /\ \A i \in 1 .. n : data[i] = stream[taken + i]
  BY <1>1, DataIs
<1>5. Upgraded /\ \A i \in taken + 1 .. Len(stream) : stream[i].part = "body"
  BY DEF InTurn, Passing
<1>6. \A i \in taken + n + 1 .. Len(stream) : i \in taken + 1 .. Len(stream) BY <1>2, <1>4
<1>7. ASSUME NEW i \in 1 .. Len(data) PROVE data[i].part = "body"
  <2> DEFINE j == taken + i
  <2>1. j \in taken + 1 .. Len(stream) /\ data[i] = stream[j] BY <1>2, <1>4
  <2> HIDE DEF j, data
  <2>2. QED BY <1>5, <2>1
<1> HIDE DEF data, p
<1>8. Mapped(ExactOf, data) = data BY <1>4, <1>7, AllBody
<1>9. p.upgrade = TRUE BY <1>2, <1>3
<1>10. QED BY <1>3, <1>5, <1>6, <1>8, <1>9 DEF data, p

\* A read that is forwarded when no upgrade was seen
LEMMA ForwardFollowing ==
  ASSUME IInv, NEW n \in 1 .. Len(stream) - taken, ReadForward(n), InTurn, ~request.socket,
         ~EndsInHead(Data(n))
  PROVE  LET p == ParseHttpRequest(request, Data(n))
         IN  /\ Mapped(BodyOf, p.out) = Mapped(BodyOf, Data(n))
             /\ (\A i \in 2 .. n : Data(n)[i].kind # "text") => p.out = Mapped(ExactOf, Data(n))
             /\ p.rest = Left(stream, taken + n)
             /\ InBody(stream, taken + n)
             /\ p.upgrade => /\ Upgraded
                             /\ \A i \in taken + n + 1 .. Len(stream) : stream[i].part = "body"
             /\ ~p.upgrade => \A i \in dropped + 1 .. taken + n : stream[i].kind # "upgrade"
<1> DEFINE p == ParseHttpRequest(request, Data(n))
           data == Data(n)
           y == taken + n
           L == Len(stream)
<1>1. Inv /\ Following BY DEF IInv, InTurn
<1>2. /\ stream \in Seq(Pieces) /\ L \in Nat /\ taken \in Nat /\ dropped \in Nat
      /\ dropped <= taken /\ request.socket = FALSE
  BY <1>1, InvType
<1>3. /\ y \in taken .. L /\ n \in Nat /\ data \in Seq(Pieces) /\ Len(data) = n
      /\ \A i \in 1 .. n : data[i] = stream[taken + i]
  BY <1>1, DataIs
<1>4. Reads(stream, taken, data) BY <1>2, <1>3 DEF Reads
<1>5. /\ RequestsOnly(stream) /\ UpgradeLast(stream) /\ request.rest = Left(stream, taken)
      /\ InBody(stream, taken) /\ \A i \in dropped + 1 .. taken : stream[i].kind # "upgrade"
  BY <1>1 DEF Following
<1>6. ~EndsInHead(data) /\ Len(data) >= 1 BY <1>3
<1>7. /\ p.rest = Left(stream, taken + Len(data))
      /\ p.upgrade <=> \E i \in taken + 1 .. taken + Len(data) : stream[i].kind = "upgrade"
      /\ Mapped(BodyOf, p.out) = Mapped(BodyOf, data)
      /\ (\A i \in 2 .. Len(data) : data[i].kind # "text") => p.out = Mapped(ExactOf, data)
  <2> DEFINE req == request
             x == Left(stream, taken)
  <2>1. req.socket = FALSE /\ req.rest = x BY <1>2, <1>5
  <2>2. x = Left(stream, taken) OBVIOUS
  <2> HIDE DEF data, req, x
  <2>3. /\ Reads(stream, taken, data) /\ RequestsOnly(stream) /\ InBody(stream, taken)
        /\ ~EndsInHead(data) /\ Len(data) >= 1
    BY <1>4, <1>5, <1>6
  <2>4. req.rest = Left(stream, taken) BY <2>1, <2>2
  <2>5. InStepBehind(stream, taken, data, ParseHttpRequest(req, data))
    BY <2>1, <2>3, <2>4, ParseAgrees
  <2>6. InStepBehind(stream, taken, data, p) BY <2>5 DEF req, data
  <2> HIDE DEF p
  <2>7. QED BY <2>6 DEF InStepBehind
<1> HIDE DEF p
<1>8. InBody(stream, y)
  <2> HIDE DEF data
  <2>1. InBody(stream, taken + Len(data)) BY <1>4, <1>5, <1>6, InBodyAfter
  <2>2. QED BY <1>3, <2>1
<1>9. ASSUME p.upgrade
      PROVE  Upgraded /\ \A i \in y + 1 .. L : stream[i].part = "body"
  <2>1. PICK u \in taken + 1 .. y : stream[u].kind = "upgrade" BY <1>3, <1>7, <1>9
  <2>2. u \in 1 .. L /\ u \in 0 .. L /\ u <= y /\ y <= L BY <1>2, <1>3
  <2>3. u + stream[u].left = L BY <1>5, <2>1, <2>2 DEF UpgradeLast
  <2>4. Left(stream, u) = L - u
    <3>1. Left(stream, u) = stream[u].left BY <2>2 DEF Left
    <3>2. stream[u].left \in Nat BY <1>2, <2>2, DataPieces DEF Pieces
    <3>3. QED BY <1>2, <2>2, <2>3, <3>1, <3>2
  <2>5. Left(stream, y) = L - y
    <3> DEFINE k == y - u
    <3>1. k \in 0 .. L - u /\ u + k = y BY <1>2, <1>3, <2>2
    <3> HIDE DEF k, y
    <3>2. Left(stream, u + k) = L - u - k BY <1>2, <1>5, <2>2, <2>4, <3>1, LeftOn
    <3>3. Left(stream, y) = L - u - k BY <3>1, <3>2, Zenon
    <3>4. u \in Nat /\ k \in Nat /\ L \in Nat BY <1>2, <2>2, <3>1
    <3> HIDE DEF L
    <3>5. L - u - k = L - y BY <3>1, <3>4
    <3>6. QED BY <3>3, <3>5, Zenon
  <2>6. y + Left(stream, y) = L BY <1>2, <1>3, <2>5
  <2>7. u \in DOMAIN stream BY <1>2, <2>2, DataPieces
  <2> HIDE DEF y, L
  <2>8. \A i \in y + 1 .. L : stream[i].part = "body" BY <1>8, <2>6 DEF InBody
  <2>9. QED BY <2>1, <2>7, <2>8 DEF Upgraded
<1>10. ASSUME ~p.upgrade, NEW i \in dropped + 1 .. y PROVE stream[i].kind # "upgrade"
  <2>1. i \in dropped + 1 .. taken \/ i \in taken + 1 .. taken + Len(data) BY <1>2, <1>3
  <2> HIDE DEF data
  <2>2. QED BY <1>5, <1>7, <1>10, <2>1
<1>11. QED BY <1>3, <1>7, <1>8, <1>9, <1>10 DEF p

\* A read that is forwarded
LEMMA IStepForward ==
  ASSUME IInv, NEW n \in 1 .. Len(stream) - taken, ReadForward(n)
  PROVE  IInv'
<1> DEFINE p == ParseHttpRequest(request, Data(n))
           data == Data(n)
           o == p.out
           y == taken + n
           up == p.upgrade
           re == p.rest
           so == request.socket \/ up
<1>1. Inv /\ Inv' BY StepForward DEF IInv
<1>2. /\ o \in Seq(Pieces) /\ up \in BOOLEAN /\ forwarded' = forwarded \o o
      /\ request' = [buffer |-> <<>>, rest |-> re, socket |-> so, authorized |-> TRUE]
  BY <1>1, ForwardIs
<1>3. /\ taken' = y /\ cut' = (cut \/ EndsInHead(data))
      /\ mixed' = (mixed \/ \E i \in DOMAIN data :
                              i > 1 /\ data[i].kind = "text" /\ ~request.socket)
      /\ UNCHANGED <<stream, requests, dropped>>
  BY DEF ReadForward
<1>4. /\ y \in taken .. Len(stream) /\ n \in Nat /\ data \in Seq(Pieces) /\ Len(data) = n
      /\ data = Stretch(stream, taken, y)
      /\ \A i \in 1 .. n : data[i] = stream[taken + i]
  BY <1>1, DataIs
<1>5. /\ stream \in Seq(Pieces) /\ Len(stream) \in Nat /\ taken \in Nat /\ dropped \in Nat
      /\ dropped \in 0 .. Len(stream) /\ taken \in dropped .. Len(stream)
      /\ request.socket \in BOOLEAN /\ request.rest \in Nat /\ forwarded \in Seq(Pieces)
  BY <1>1, InvType
<1>6. /\ n \in 1 .. n /\ n >= 1 /\ y > 0 /\ y \in Nat
      /\ taken \in 0 .. Len(stream) /\ y \in dropped .. Len(stream)
  BY <1>4, <1>5
<1>7. Reaches(o, data, Len(data)) BY <1>4, <1>5, <1>6, ParseCloses
<1> HIDE DEF o, re, so, up, p
<1>8. request'.rest = re /\ request'.socket = so /\ request'.authorized = TRUE BY <1>2
<1>9. LastForwarded'
  <2>1. Reaches(forwarded \o o, data, Len(data)) BY <1>5, <1>7, ReachesBehind
  <2>2. data[Len(data)] = stream[y] BY <1>4, <1>6
  <2>3. forwarded'[Len(forwarded')] = stream[y] BY <1>2, <2>1, <2>2 DEF Reaches
  <2> HIDE DEF y
  <2>4. QED BY <1>3, <1>6, <2>3 DEF LastForwarded
<1>10. ASSUME ~cut' PROVE InTurn'
  <2>1. InTurn /\ ~EndsInHead(data) BY <1>3, <1>10 DEF IInv
  <2>2. /\ Left(stream, dropped) = 0
        /\ Mapped(BodyOf, forwarded) = Mapped(BodyOf, Stretch(stream, dropped, taken))
        /\ ~mixed => forwarded = Mapped(ExactOf, Stretch(stream, dropped, taken))
    BY <2>1, InTurnIs
  <2>3. ASSUME ~mixed', ~request.socket
        PROVE  ~mixed /\ \A i \in 2 .. n : data[i].kind # "text"
    <3>1. ~mixed BY <1>3, <2>3
    <3>2. ASSUME NEW i \in 2 .. n PROVE data[i].kind # "text"
      <4>1. i \in 1 .. n /\ i > 1 BY <1>4
      <4>2. i \in DOMAIN data BY <1>4, <4>1, DataPieces
      <4>3. ~(\E k \in DOMAIN data : k > 1 /\ data[k].kind = "text" /\ ~request.socket)
        BY <1>3, <2>3
      <4> HIDE DEF data
      <4>4. QED BY <2>3, <4>1, <4>2, <4>3
    <3>3. QED BY <3>1, <3>2
  <2>4. Mapped(BodyOf, o) = Mapped(BodyOf, data)
        /\ (~mixed' => o = Mapped(ExactOf, data))
    <3>1. CASE request.socket
      <4>1. o = data /\ Mapped(ExactOf, data) = data
        BY <2>1, <3>1, ForwardPassing DEF o, p
      <4> HIDE DEF data
      <4>2. QED BY <4>1
    <3>2. CASE ~request.socket
      <4>1. /\ Mapped(BodyOf, o) = Mapped(BodyOf, data)
            /\ (\A i \in 2 .. n : data[i].kind # "text") => o = Mapped(ExactOf, data)
        BY <2>1, <3>2, ForwardFollowing DEF o, p
      <4> HIDE DEF data
      <4>2. QED BY <2>3, <3>2, <4>1
    <3>3. QED BY <3>1, <3>2
  <2>5. Mapped(BodyOf, forwarded') = Mapped(BodyOf, Stretch(stream, dropped, y))
    <3>1. Mapped(BodyOf, o) = Mapped(BodyOf, Stretch(stream, taken, y)) BY <1>4, <2>4
    <3> HIDE DEF y
    <3>2. Mapped(BodyOf, forwarded \o o) = Mapped(BodyOf, Stretch(stream, dropped, y))
      BY <1>2, <1>4, <1>5, <2>2, <3>1, BodyOfType, ForwardMapped
    <3>3. QED BY <1>2, <3>2
  <2>6. ASSUME ~mixed' PROVE forwarded' = Mapped(ExactOf, Stretch(stream, dropped, y))
    <3> DEFINE u == Mapped(ExactOf, Stretch(stream, dropped, taken))
               v == Mapped(ExactOf, Stretch(stream, taken, y))
    <3>1. ~mixed BY <1>3, <2>6
    <3>2. forwarded = u BY <2>2, <3>1
    <3>3. o = v BY <1>4, <2>4, <2>6
    <3>4. u \o v = Mapped(ExactOf, Stretch(stream, dropped, y))
      <4> HIDE DEF y
      <4>1. QED BY <1>4, <1>5, ExactOfType, MappedJoin
    <3> HIDE DEF u, v, y
    <3>5. QED BY <1>2, <3>2, <3>3, <3>4
  <2>7. so => Passing'
    <3>1. ASSUME so PROVE Upgraded /\ \A i \in taken + n + 1 .. Len(stream) : stream[i].part = "body"
      <4>1. CASE request.socket BY <2>1, <4>1, ForwardPassing
      <4>2. CASE ~request.socket
        <5>1. up BY <3>1, <4>2 DEF so
        <5>2. QED BY <2>1, <4>2, <5>1, ForwardFollowing DEF up, p
      <4>3. QED BY <4>1, <4>2
    <3>2. ASSUME so PROVE Upgraded' /\ \A i \in taken' + 1 .. Len(stream') : stream'[i].part = "body"
      <4>1. Upgraded' BY <1>3, <3>1, <3>2 DEF Upgraded
      <4>2. \A i \in taken' + 1 .. Len(stream') : stream'[i].part = "body"
        BY <1>3, <3>1, <3>2
      <4>3. QED BY <4>1, <4>2
    <3>3. QED BY <3>2 DEF Passing
  <2>8. ~so => Following'
    <3> SUFFICES ASSUME ~so PROVE Following' OBVIOUS
    <3>1. ~request.socket /\ ~up BY DEF so
    <3>2. /\ re = Left(stream, y) /\ InBody(stream, y)
          /\ \A i \in dropped + 1 .. y : stream[i].kind # "upgrade"
      BY <2>1, <3>1, ForwardFollowing DEF up, re, p
    <3>3. RequestsOnly(stream) /\ UpgradeLast(stream) BY <2>1, <3>1 DEF InTurn, Following
    <3> HIDE DEF y
    <3>4. QED BY <1>3, <1>8, <3>2, <3>3 DEF Following
  <2>9. Arrived' = Stretch(stream', dropped', taken') BY DEF Arrived, Stretch
  <2> HIDE DEF y
  <2>10. Left(stream', dropped') = 0 BY <1>3, <2>2
  <2>11. Arrived' = Stretch(stream, dropped, y) BY <1>3, <2>9
  <2>12. QED BY <1>8, <2>5, <2>6, <2>7, <2>8, <2>10, <2>11 DEF InTurn
<1>11. QED BY <1>1, <1>3, <1>8, <1>9, <1>10 DEF IInv

LEMMA IStepIInv == IInv /\ [Next]_vars => IInv'
<1> SUFFICES ASSUME IInv, [Next]_vars PROVE IInv' OBVIOUS
<1>1. CASE Send BY <1>1, IStepSend
<1>2. CASE SendFrames BY <1>2, IStepSendFrames
<1>3. CASE ServerRead BY <1>3, IStepUnauthorized, IStepForward DEF ServerRead
<1>4. CASE UNCHANGED vars
  <2>1. Inv' BY <1>4, StepInv DEF IInv
  <2>2. /\ stream' = stream /\ taken' = taken /\ request' = request /\ dropped' = dropped
        /\ forwarded' = forwarded /\ cut' = cut /\ mixed' = mixed
    BY <1>4 DEF vars
  <2>3. (InTurn <=> InTurn') /\ (LastForwarded <=> LastForwarded')
    BY <2>2 DEF InTurn, Following, Passing, Upgraded, Arrived, LastForwarded
  <2>4. QED BY <2>1, <2>2, <2>3 DEF IInv
<1>5. QED BY <1>1, <1>2, <1>3, <1>4 DEF Next

\* As long as no read cuts a head, the bytes of a body that parseHttpRequest
\* forwards are those that have arrived, also when they look like the address.
THEOREM BodiesPass == Spec => []BodiesUntouched
<1>1. IInv => BodiesUntouched
  <2> SUFFICES ASSUME IInv, ~cut PROVE Bodies(forwarded) = Bodies(Arrived)
    BY DEF BodiesUntouched
  <2>1. Mapped(BodyOf, forwarded) = Mapped(BodyOf, Arrived) BY DEF IInv, InTurn
  <2>2. forwarded \in Seq(Pieces) /\ Arrived \in Seq(Pieces) BY ArrivedIs DEF IInv, Inv
  <2>3. QED BY <2>1, <2>2, BodiesIs
<1>2. QED BY <1>1, InitIInv, IStepIInv, PTL DEF Spec

\* As long as no read cuts a head or holds one behind other pieces, what is
\* forwarded is what has arrived with every address of a head replaced.
THEOREM Exactness == Spec => []RewrittenExactly
<1>1. IInv => RewrittenExactly
  <2> SUFFICES ASSUME IInv PROVE RewrittenExactly OBVIOUS
  <2>1. ~cut /\ ~mixed => forwarded = Mapped(ExactOf, Arrived) BY DEF IInv, InTurn
  <2>2. Arrived \in Seq(Pieces) BY ArrivedIs DEF IInv
  <2>3. Mapped(ExactOf, Arrived)
          = FlattenSeq([i \in DOMAIN Arrived |->
              IF Arrived[i].kind = "source" /\ Arrived[i].part = "head"
              THEN Replacement(Arrived[i]) ELSE <<Arrived[i]>>])
    BY <2>2, ExactIs
  <2>4. QED BY <2>1, <2>3 DEF RewrittenExactly
<1>2. QED BY <1>1, InitIInv, IStepIInv, PTL DEF Spec

\* As long as no read cuts a head, m_rest_body_length is what is missing of the
\* request that was forwarded last.
THEOREM RestInStep == Spec => []InStep
<1>1. IInv => InStep
  <2> SUFFICES ASSUME IInv, ~cut, ~request.socket, forwarded # <<>>
               PROVE  request.rest = Last(forwarded).left
    BY DEF InStep
  <2>1. request.rest = Left(stream, taken) BY DEF IInv, InTurn, Following
  <2>2. taken > 0 /\ forwarded[Len(forwarded)] = stream[taken] BY DEF IInv, LastForwarded
  <2>3. taken # 0 BY <2>2 DEF IInv
  <2>4. Last(forwarded) = stream[taken] BY <2>2 DEF Last
  <2>5. QED BY <2>1, <2>3, <2>4 DEF Left
<1>2. QED BY <1>1, InitIInv, IStepIInv, PTL DEF Spec

=============================================================================
