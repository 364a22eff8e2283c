------------------------- MODULE HttpsConnectionProofs -------------------------
(***************************************************************************)
(* HttpsConnection implements HttpConnection, for every sequence of        *)
(* records and every cut of it into read events; so what is proved of the  *)
(* plain connection holds of the one with TLS.                             *)
(*                                                                         *)
(* The wire of the plain connection is the payload of the records that     *)
(* OpenSSL holds or that are on their way.  A read event of TLS moves a    *)
(* part of it to the parser, as one of the plain connection does, or none. *)
(* IInv joins what holds of the two sides of the handshake to the          *)
(* inductive invariant of the plain connection, which keeps the parser's   *)
(* state in its types and so the loop of parseRequest defined.             *)
(***************************************************************************)
EXTENDS HttpsConnection, SequenceTheorems, TLAPS

\* The plain connection with the theorems about it
C == INSTANCE HttpConnectionProofs WITH Framed <- TRUE, wire <- Payload(bio \o records)

\* The plain connection's assumptions are those of this module.
LEMMA Assumed ==
  C!MaxRequestsAssumption /\ C!LayersAssumption /\ C!FramedAssumption /\ C!RequestsAssumption
BY MaxRequestsAssumption, LayersAssumption, RequestsAssumption
   DEF Lengths, C!Lengths, Flaws, C!Flaws, NoLength, C!NoLength

-----------------------------------------------------------------------------
(* The pieces in a sequence of records *)

\* f holds the concatenations of the first sequences of s, as FlattenSeq does.
Flattened(s, f) ==
  f = [i \in 1 .. Len(s) |-> IF i = 1 THEN s[i] ELSE f[i - 1] \o s[i]]

\* The sequence of concatenations is the one that FlattenSeq chooses.
LEMMA FlattenIs ==
  ASSUME NEW V, NEW s \in Seq(V), s # <<>>, NEW f, Flattened(s, f)
  PROVE  FlattenSeq(s) = f[Len(s)]
<1> DEFINE n == Len(s)
           g == CHOOSE g : Flattened(s, g)
           N == {k \in Nat : k + 1 \in 1 .. n => g[k + 1] = f[k + 1]}
<1>1. n \in Nat /\ n >= 1 BY EmptySeq
<1>2. Flattened(s, g) BY Zenon
<1>3. FlattenSeq(s) = g[n]
  <2>1. n # 0 BY <1>1
  <2>2. QED BY <2>1, Zenon DEF FlattenSeq, Flattened
<1> HIDE DEF g, n
<1>4. \A i \in 1 .. n : g[i] = (IF i = 1 THEN s[i] ELSE g[i - 1] \o s[i])
  BY <1>2, Zenon DEF Flattened, n
<1>5. \A i \in 1 .. n : f[i] = (IF i = 1 THEN s[i] ELSE f[i - 1] \o s[i])
  BY Zenon DEF Flattened, n
<1>6. 0 \in N BY <1>4, <1>5
<1>7. ASSUME NEW k \in Nat, k \in N PROVE k + 1 \in N
  <2>1. SUFFICES ASSUME (k + 1) + 1 \in 1 .. n PROVE g[(k + 1) + 1] = f[(k + 1) + 1]
    OBVIOUS
  <2>2. k + 1 \in 1 .. n /\ (k + 1) + 1 # 1 /\ ((k + 1) + 1) - 1 = k + 1 BY <1>1, <2>1
  <2>3. g[k + 1] = f[k + 1] BY <1>7, <2>2
  <2> DEFINE i == (k + 1) + 1
  <2> HIDE DEF i
  <2>4. i \in 1 .. n /\ i # 1 /\ g[i - 1] = f[i - 1] BY <2>1, <2>2, <2>3 DEF i
  <2>5. g[i] = f[i] BY <1>4, <1>5, <2>4
  <2>6. QED BY <2>5 DEF i
<1>8. Nat \subseteq N
  <2> HIDE DEF N
  <2>1. QED BY <1>6, <1>7, Assumed, C!SetInduction
<1>9. n - 1 \in Nat /\ (n - 1) + 1 = n /\ n \in 1 .. n BY <1>1
<1>10. g[n] = f[n]
  <2> DEFINE k == n - 1
  <2>1. k \in N /\ k + 1 = n BY <1>8, <1>9
  <2>2. QED BY <1>9, <2>1
<1>11. QED BY <1>3, <1>10 DEF n

\* And there is one.
LEMMA FlattenExists ==
  ASSUME NEW V, NEW s \in Seq(Seq(V)), s # <<>>
  PROVE  \E f \in [1 .. Len(s) -> Seq(V)] : Flattened(s, f)
<1> DEFINE Upto(k, f) ==
             /\ f \in [1 .. k -> Seq(V)]
             /\ \A i \in 1 .. k : f[i] = IF i = 1 THEN s[i] ELSE f[i - 1] \o s[i]
           N == {k \in Nat : k <= Len(s) => \E f : Upto(k, f)}
<1>1. Len(s) \in Nat /\ \A i \in 1 .. Len(s) : s[i] \in Seq(V)
  BY LenProperties, ElementOfSeq
<1>2. 0 \in N
  <2>1. Upto(0, [i \in 1 .. 0 |-> s[i]]) OBVIOUS
  <2> HIDE DEF Upto
  <2>2. QED BY <2>1
<1>3. ASSUME NEW k \in Nat, k \in N PROVE k + 1 \in N
  <2>1. SUFFICES ASSUME k + 1 <= Len(s) PROVE \E f : Upto(k + 1, f)
    OBVIOUS
  <2>2. PICK f : Upto(k, f) BY <1>1, <1>3, <2>1
  <2> DEFINE g == [i \in 1 .. k + 1 |-> IF i <= k THEN f[i]
                                       ELSE IF k = 0 THEN s[k + 1] ELSE f[k] \o s[k + 1]]
  <2>3. s[k + 1] \in Seq(V) BY <1>1, <2>1
  <2>4. k # 0 => f[k] \in Seq(V) /\ f[k] \o s[k + 1] \in Seq(V)
    BY <2>2, <2>3, ConcatProperties
  <2>5. g \in [1 .. k + 1 -> Seq(V)] BY <2>2, <2>3, <2>4
  <2>6. ASSUME NEW i \in 1 .. k + 1 PROVE g[i] = IF i = 1 THEN s[i] ELSE g[i - 1] \o s[i]
    <3>1. CASE i <= k
      <4>1. g[i] = f[i] /\ (i # 1 => g[i - 1] = f[i - 1]) BY <3>1
      <4>2. i \in 1 .. k BY <3>1
      <4> HIDE DEF g
      <4>3. QED BY <2>2, <4>1, <4>2
    <3>2. CASE i = k + 1 /\ k = 0 BY <3>2
    <3>3. CASE i = k + 1 /\ k # 0
      <4>1. g[i] = f[k] \o s[i]
        <5>1. ~ (i <= k) /\ i = k + 1 BY <3>3
        <5>2. g[i] = IF k = 0 THEN s[k + 1] ELSE f[k] \o s[k + 1] BY <5>1
        <5> HIDE DEF g
        <5>3. QED BY <3>3, <5>2
      <4>2. i - 1 = k /\ i - 1 \in 1 .. k + 1 /\ i # 1 /\ g[k] = f[k] BY <3>3
      <4> HIDE DEF g
      <4>3. QED BY <4>1, <4>2
    <3>4. QED BY <3>1, <3>2, <3>3
  <2> HIDE DEF g
  <2>7. Upto(k + 1, g) BY <2>5, <2>6
  <2> HIDE DEF Upto
  <2>8. QED BY <2>7
<1>4. Nat \subseteq N
  <2> HIDE DEF N
  <2>1. QED BY <1>2, <1>3, Assumed, C!SetInduction
<1>5. PICK f : Upto(Len(s), f)
  <2> HIDE DEF Upto
  <2>1. Len(s) \in N BY <1>1, <1>4
  <2>2. QED BY <1>1, <2>1
<1>6. Flattened(s, f) BY <1>5 DEF Flattened
<1>7. QED BY <1>5, <1>6

\* FlattenSeq of one sequence more
LEMMA FlattenAppend ==
  ASSUME NEW V, NEW s \in Seq(Seq(V)), NEW x \in Seq(V)
  PROVE  FlattenSeq(s) \in Seq(V) /\ FlattenSeq(Append(s, x)) = FlattenSeq(s) \o x
<1> DEFINE z == Append(s, x)
           n == Len(s)
<1>1. /\ z \in Seq(Seq(V)) /\ z # <<>> /\ Len(z) = n + 1 /\ n \in Nat
      /\ \A i \in 1 .. n : z[i] = s[i]
      /\ z[n + 1] = x
  BY AppendProperties, LenProperties
<1> HIDE DEF z
<1>2. CASE s = <<>>
  <2>1. n = 0 BY <1>2, EmptySeq
  <2>2. FlattenSeq(s) = <<>> BY <1>2, <2>1 DEF FlattenSeq
  <2> DEFINE f == [i \in 1 .. 1 |-> x]
  <2>3. Flattened(z, f) BY <1>1, <2>1 DEF Flattened
  <2>4. f[1] = x OBVIOUS
  <2> HIDE DEF f
  <2>5. FlattenSeq(z) = x
    <3>1. FlattenSeq(z) = f[Len(z)] BY <1>1, <2>3, FlattenIs
    <3>2. Len(z) = 1 BY <1>1, <2>1
    <3>3. QED BY <2>4, <3>1, <3>2
  <2>6. <<>> \o x = x /\ <<>> \in Seq(V) BY ConcatEmptySeq, EmptySeq
  <2>7. QED BY <2>2, <2>5, <2>6 DEF z
<1>3. CASE s # <<>>
  <2>1. PICK f \in [1 .. n -> Seq(V)] : Flattened(s, f) BY <1>3, FlattenExists
  <2>2. n >= 1 BY <1>3, EmptySeq
  <2>3. FlattenSeq(s) = f[n] BY <1>3, <2>1, FlattenIs
  <2>4. f[n] \in Seq(V)
    <3>1. n \in 1 .. n BY <1>1, <2>2
    <3> HIDE DEF n
    <3>2. QED BY <2>1, <3>1
  <2> DEFINE g == [i \in 1 .. n + 1 |-> IF i <= n THEN f[i] ELSE f[n] \o x]
  <2>5. \A i \in 1 .. n : f[i] = (IF i = 1 THEN s[i] ELSE f[i - 1] \o s[i])
    BY <2>1, Zenon DEF Flattened
  <2>6. ASSUME NEW i \in 1 .. n + 1 PROVE g[i] = IF i = 1 THEN z[i] ELSE g[i - 1] \o z[i]
    <3>1. CASE i <= n
      <4>1. g[i] = f[i] /\ (i # 1 => g[i - 1] = f[i - 1]) BY <1>1, <3>1
      <4>2. i \in 1 .. n /\ z[i] = s[i] BY <1>1, <3>1
      <4> HIDE DEF g, n
      <4>3. QED BY <2>5, <4>1, <4>2
    <3>2. CASE i = n + 1
      <4>1. g[i] = f[n] \o x BY <1>1, <3>2
      <4>2. i - 1 = n /\ i # 1 /\ g[n] = f[n] /\ z[i] = x BY <1>1, <2>2, <3>2
      <4> HIDE DEF g, n
      <4>3. QED BY <4>1, <4>2
    <3>3. QED BY <1>1, <3>1, <3>2
  <2>7. g = [i \in 1 .. n + 1 |-> g[i]] /\ g[n + 1] = f[n] \o x BY <1>1
  <2> HIDE DEF g, n
  <2>8. Flattened(z, g) BY <1>1, <2>6, <2>7 DEF Flattened
  <2>9. FlattenSeq(z) = g[n + 1] BY <1>1, <2>8, FlattenIs
  <2>10. QED BY <2>3, <2>4, <2>7, <2>9 DEF z
<1>4. QED BY <1>2, <1>3

\* Only application data brings pieces.
RecordSet ==
  {x \in [type : {"hello", "finished", "data", "close", "broken"}, data : Seq(Pieces)] :
     x.type # "data" => x.data = <<>>}

\* The payload of one record more
LEMMA PayloadAppend ==
  ASSUME NEW a \in Seq(RecordSet), NEW x \in RecordSet
  PROVE  Payload(a) \in Seq(Pieces) /\ Payload(Append(a, x)) = Payload(a) \o x.data
<1> DEFINE D(rs) == [i \in DOMAIN rs |-> rs[i].data]
           z == Append(a, x)
           n == Len(a)
<1>1. /\ z \in Seq(RecordSet) /\ Len(z) = n + 1 /\ n \in Nat /\ z[n + 1] = x
      /\ \A i \in 1 .. n : z[i] = a[i]
      /\ DOMAIN z = 1 .. Len(z) /\ DOMAIN a = 1 .. n
  <2>1. z \in Seq(RecordSet) BY AppendProperties
  <2>2. QED BY <2>1, AppendProperties, LenProperties
<1>2. x.data \in Seq(Pieces) /\ \A i \in 1 .. n : a[i].data \in Seq(Pieces)
  <2>1. \A i \in 1 .. n : a[i] \in RecordSet BY ElementOfSeq
  <2>2. QED BY <2>1 DEF RecordSet
<1> DEFINE d == D(a)
           e == D(z)
<1>3. d = [i \in 1 .. n |-> a[i].data] BY <1>1
<1>4. e = [i \in 1 .. n + 1 |-> z[i].data] BY <1>1
<1> HIDE DEF z, d, e, n
<1>5. d \in Seq(Seq(Pieces)) /\ Len(d) = n BY <1>1, <1>2, <1>3
<1>6. e = Append(d, x.data)
  <2>1. Append(d, x.data) = [i \in 1 .. n + 1 |-> IF i \in 1 .. n THEN d[i] ELSE x.data]
    BY <1>1, <1>2, <1>5
  <2>2. ASSUME NEW i \in 1 .. n + 1 PROVE z[i].data = IF i \in 1 .. n THEN d[i] ELSE x.data
    <3>1. CASE i \in 1 .. n BY <1>1, <1>3, <3>1
    <3>2. CASE i = n + 1 BY <1>1, <3>2
    <3>3. QED BY <1>1, <3>1, <3>2
  <2>3. QED BY <1>4, <2>1, <2>2
<1>7. Payload(a) = FlattenSeq(d) /\ Payload(z) = FlattenSeq(e) BY Zenon DEF Payload, d, e
<1>8. QED BY <1>2, <1>5, <1>6, <1>7, FlattenAppend DEF z

\* The payload of records is the payload of the first ones and then of the others.
LEMMA PayloadConcat ==
  ASSUME NEW a \in Seq(RecordSet), NEW b \in Seq(RecordSet)
  PROVE  /\ Payload(a) \in Seq(Pieces) /\ Payload(b) \in Seq(Pieces)
         /\ Payload(a \o b) = Payload(a) \o Payload(b)
<1> DEFINE N == {k \in Nat : \A c \in Seq(RecordSet) : Len(c) = k =>
                   Payload(a \o c) = Payload(a) \o Payload(c)}
<1>1. \A c \in Seq(RecordSet) : Payload(c) \in Seq(Pieces)
  <2>1. PICK x : x \in RecordSet
    <3>1. <<>> \in Seq(Pieces) BY EmptySeq
    <3>2. [type |-> "data", data |-> <<>>] \in RecordSet BY <3>1 DEF RecordSet
    <3>3. QED BY <3>2
  <2>2. QED BY <2>1, PayloadAppend
<1>2. Payload(<<>>) = <<>>
  BY DEF Payload, FlattenSeq
<1>3. 0 \in N
  <2>1. SUFFICES ASSUME NEW c \in Seq(RecordSet), Len(c) = 0
                 PROVE  Payload(a \o c) = Payload(a) \o Payload(c)
    OBVIOUS
  <2>2. c = <<>> BY <2>1, EmptySeq
  <2>3. a \o c = a BY <2>2, ConcatEmptySeq
  <2>4. Payload(a) \o Payload(c) = Payload(a) BY <1>1, <1>2, <2>2, ConcatEmptySeq
  <2>5. QED BY <2>3, <2>4
<1>4. ASSUME NEW k \in Nat, k \in N PROVE k + 1 \in N
  <2>1. SUFFICES ASSUME NEW c \in Seq(RecordSet), Len(c) = k + 1
                 PROVE  Payload(a \o c) = Payload(a) \o Payload(c)
    OBVIOUS
  <2>2. c # <<>> BY <2>1, EmptySeq
  <2>3. PICK d \in Seq(RecordSet), x \in RecordSet : c = Append(d, x)
    BY <2>2, SequenceEmptyOrAppend
  <2>4. Len(d) = k
    <3>1. Len(c) = Len(d) + 1 /\ Len(d) \in Nat BY <2>3, AppendProperties, LenProperties
    <3>2. QED BY <2>1, <3>1
  <2>5. Payload(a \o d) = Payload(a) \o Payload(d) BY <1>4, <2>4
  <2>6. Payload(c) = Payload(d) \o x.data BY <2>3, PayloadAppend
  <2>7. a \o d \in Seq(RecordSet) BY ConcatProperties
  <2>8. a \o c = Append(a \o d, x)
    <3>1. <<x>> \in Seq(RecordSet) OBVIOUS
    <3>2. c = d \o <<x>> BY <2>3, AppendIsConcat
    <3>3. Append(a \o d, x) = (a \o d) \o <<x>> BY <2>7, AppendIsConcat
    <3>4. (a \o d) \o <<x>> = a \o (d \o <<x>>) BY <3>1, ConcatAssociative
    <3>5. QED BY <3>2, <3>3, <3>4
  <2>9. Payload(a \o c) = (Payload(a) \o Payload(d)) \o x.data
    BY <2>5, <2>7, <2>8, PayloadAppend
  <2>10. x.data \in Seq(Pieces) BY DEF RecordSet
  <2>11. (Payload(a) \o Payload(d)) \o x.data = Payload(a) \o (Payload(d) \o x.data)
    <3> DEFINE u == Payload(a)
               v == Payload(d)
               w == x.data
    <3>1. u \in Seq(Pieces) /\ v \in Seq(Pieces) /\ w \in Seq(Pieces) BY <1>1, <2>10
    <3> HIDE DEF u, v, w
    <3>2. ASSUME NEW i \in Seq(Pieces), NEW j \in Seq(Pieces), NEW l \in Seq(Pieces)
          PROVE  (i \o j) \o l = i \o (j \o l)
      BY SMTT(60), ConcatAssociative
    <3>4. (u \o v) \o w = u \o (v \o w) BY <3>1, <3>2, Zenon
    <3>5. QED BY <3>4 DEF u, v, w
  <2>12. QED BY <2>6, <2>9, <2>11
<1>5. Nat \subseteq N
  <2> HIDE DEF N
  <2>1. QED BY <1>3, <1>4, Assumed, C!SetInduction
<1>6. Len(b) \in N
  <2>1. Len(b) \in Nat BY LenProperties
  <2> HIDE DEF N
  <2>2. QED BY <1>5, <2>1
<1>7. QED BY <1>1, <1>6

\* The payload of no record and of one
LEMMA PayloadShort ==
  /\ Payload(<<>>) = <<>>
  /\ \A x \in RecordSet : Payload(<<x>>) = x.data
<1>1. Payload(<<>>) = <<>> BY DEF Payload, FlattenSeq
<1>2. ASSUME NEW x \in RecordSet PROVE Payload(<<x>>) = x.data
  <2>1. <<x>> = Append(<<>>, x) /\ <<>> \in Seq(RecordSet) OBVIOUS
  <2>2. Payload(Append(<<>>, x)) = Payload(<<>>) \o x.data BY <2>1, PayloadAppend
  <2>3. x.data \in Seq(Pieces) BY DEF RecordSet
  <2>4. <<>> \o x.data = x.data BY <2>3, ConcatEmptySeq
  <2>5. QED BY <1>1, <2>1, <2>2, <2>4
<1>3. QED BY <1>1, <1>2

-----------------------------------------------------------------------------
(* The two instances of the plain connection are the same *)

\* HttpContent reaches this module three times, and means the same each time.
LEMMA ParseSame ==
  \A c, b : /\ C!ParseRequest(c, b) = Plain!ParseRequest(c, b)
           /\ ParseRequest(c, b) = Plain!ParseRequest(c, b)
<1>1. \A c, b : C!ParseRequest(c, b) = Plain!ParseRequest(c, b)
  BY Zenon DEF Plain!ParseRequest, C!ParseRequest, C!ParseLoop, Plain!ParseLoop, C!Parses,
     Plain!Parses, C!Contents, Plain!Contents, C!Pieces, Plain!Pieces, C!States, Plain!States,
     C!Lengths, Plain!Lengths, C!ParseStep, Plain!ParseStep, C!NoLength, Plain!NoLength,
     C!ParseBody, Plain!ParseBody, C!ParseHeader, Plain!ParseHeader, C!ParseRequestLine,
     Plain!ParseRequestLine, C!Stall, Plain!Stall, C!First, Plain!First, C!EndHeaders,
     Plain!EndHeaders
<1>2. \A c, b : ParseRequest(c, b) = Plain!ParseRequest(c, b)
  BY Zenon DEF Plain!ParseRequest, ParseRequest, ParseLoop, Plain!ParseLoop, Parses,
     Plain!Parses, Contents, Plain!Contents, Pieces, Plain!Pieces, States, Plain!States,
     Lengths, Plain!Lengths, ParseStep, Plain!ParseStep, NoLength, Plain!NoLength,
     ParseBody, Plain!ParseBody, ParseHeader, Plain!ParseHeader, ParseRequestLine,
     Plain!ParseRequestLine, Stall, Plain!Stall, First, Plain!First, EndHeaders,
     Plain!EndHeaders
<1>3. QED BY <1>1, <1>2

LEMMA EncodeSame ==
  \A q, r : C!Encode(q, r) = Plain!Encode(q, r) /\ Encode(q, r) = Plain!Encode(q, r)
<1>1. \A q, r : C!Encode(q, r) = Plain!Encode(q, r)
  BY Zenon DEF C!Encode, Plain!Encode, C!Piece, Plain!Piece, C!NoLength, Plain!NoLength
<1>2. \A q, r : Encode(q, r) = Plain!Encode(q, r)
  BY Zenon DEF Encode, Plain!Encode, Piece, Plain!Piece, NoLength, Plain!NoLength
<1>3. QED BY <1>1, <1>2

LEMMA TypesSame ==
  /\ C!Pieces = Pieces /\ C!Contents = Contents /\ C!Parses = Parses
  /\ C!TypeOK <=> Plain!TypeOK
<1>1. C!Pieces = Pieces BY Zenon DEF C!Pieces, Pieces
<1>2. C!Contents = Contents
  BY Zenon, <1>1 DEF C!Contents, Contents, C!States, States, C!Lengths, Lengths, C!NoLength, NoLength
<1>3. C!Parses = Parses BY Zenon, <1>1, <1>2 DEF C!Parses, Parses
<1>4. C!TypeOK <=> Plain!TypeOK
  BY Zenon DEF C!TypeOK, Plain!TypeOK, C!Contents, Plain!Contents, C!Pieces, Plain!Pieces,
     C!States, Plain!States, C!Lengths, Plain!Lengths, C!NoLength, Plain!NoLength
<1>5. QED BY <1>1, <1>2, <1>3, <1>4

LEMMA ResponseSame ==
  ASSUME NEW c, NEW stop
  PROVE  C!SendHttpResponse(c, stop) <=> Plain!SendHttpResponse(c, stop)
<1>1. C!NoCallBack = Plain!NoCallBack BY Zenon DEF C!NoCallBack, Plain!NoCallBack
<1>2. \A s : C!SubSeqs(s) = Plain!SubSeqs(s) BY DEF C!SubSeqs, Plain!SubSeqs
<1>3. \A key : C!DynamicMatches(key) = Plain!DynamicMatches(key)
  BY <1>2, Zenon DEF C!DynamicMatches, Plain!DynamicMatches
<1>4. \A key : C!Route(key) = Plain!Route(key) BY <1>1, <1>3, Zenon DEF C!Route, Plain!Route
<1>5. \A k : /\ C!Forward(k) = Plain!Forward(k) /\ C!Backward(k) = Plain!Backward(k)
             /\ C!Key(k) = Plain!Key(k) /\ C!Reset(k) = Plain!Reset(k)
  BY Zenon DEF C!Forward, Plain!Forward, C!Backward, Plain!Backward, C!Key, Plain!Key,
     C!Reset, Plain!Reset, C!Fresh, Plain!Fresh, C!NoLength, Plain!NoLength
<1>6. QED BY Zenon, <1>1, <1>4, <1>5 DEF C!SendHttpResponse, Plain!SendHttpResponse

LEMMA InitSame == C!Init <=> Plain!Init
BY Zenon DEF C!Init, Plain!Init, C!Fresh, Plain!Fresh, C!NoLength, Plain!NoLength

LEMMA NextSame == [C!Next]_C!vars <=> [Plain!Next]_Plain!vars
<1>1. C!Next <=> Plain!Next
  BY Zenon, ResponseSame, EncodeSame, ParseSame
     DEF C!Next, Plain!Next, C!Send, Plain!Send, C!HandleReqeust, Plain!HandleReqeust,
         C!HandleClose, Plain!HandleClose, C!ReadMore, Plain!ReadMore, C!ReadRequest,
         Plain!ReadRequest, C!Deliverable, Plain!Deliverable
<1>2. QED BY <1>1, Zenon DEF C!vars, Plain!vars

-----------------------------------------------------------------------------
(* The inductive invariant *)

Secured(b) == b \in {"secure", "left"}

\* The browser finishes the handshake before anything that needs it.
RecordsOf(b) == {x \in RecordSet : x.type = "finished" => Secured(b)}

TLSInv ==
  /\ bio \in Seq(RecordsOf(browser)) /\ records \in Seq(RecordsOf(browser))
  /\ handshake \in {"hello", "finished", "done"}
  /\ browser \in {"new", "greeted", "secure", "left"}
  /\ handshake = "done" => Secured(browser)
  /\ handshake # "done" => responses = <<>>

IInv == TLSInv /\ C!IInv

\* The wire of the plain connection
Stream == Payload(bio \o records)

\* What has been sent stays in the records that may have been sent.
LEMMA RecordsWiden ==
  ASSUME NEW b, NEW c, Secured(b) => Secured(c)
  PROVE  Seq(RecordsOf(b)) \subseteq Seq(RecordsOf(c)) /\ Seq(RecordsOf(b)) \subseteq Seq(RecordSet)
<1>1. RecordsOf(b) \subseteq RecordsOf(c) /\ RecordsOf(b) \subseteq RecordSet BY DEF RecordsOf
<1>2. QED BY <1>1, SeqMonotonic

\* What the connection has read and will read, cut after n records
LEMMA Cut ==
  ASSUME TLSInv, NEW n \in 0 .. Len(records)
  PROVE  LET t == SubSeq(records, n + 1, Len(records)) IN
         /\ Receive(n) \in Seq(RecordsOf(browser)) /\ t \in Seq(RecordsOf(browser))
         /\ Receive(n) \in Seq(RecordSet) /\ t \in Seq(RecordSet)
         /\ Payload(Receive(n)) \in Seq(Pieces) /\ Payload(t) \in Seq(Pieces)
         /\ Stream = Payload(Receive(n)) \o Payload(t)
<1> DEFINE R == RecordsOf(browser)
           h == SubSeq(records, 1, n)
           t == SubSeq(records, n + 1, Len(records))
<1>1. /\ bio \in Seq(R) /\ records \in Seq(R) /\ Len(records) \in Nat
      /\ \A i \in 1 .. Len(records) : records[i] \in R
  BY LenProperties, ElementOfSeq DEF TLSInv
<1> HIDE DEF R
<1>2. h \in Seq(R)
  <2>1. \A i \in 1 .. n : records[i] \in R BY <1>1
  <2>2. QED BY <2>1, SubSeqProperties
<1>3. t \in Seq(R)
  <2>1. \A i \in (n + 1) .. Len(records) : records[i] \in R BY <1>1
  <2>2. QED BY <1>1, <2>1, SubSeqProperties
<1>4. h \o t = records
  <2>1. 1 \in 1 .. Len(records) + 1 /\ n \in 1 - 1 .. Len(records) /\ Len(records) \in n .. Len(records)
    BY <1>1
  <2>2. h \o t = SubSeq(records, 1, Len(records)) BY <1>1, <2>1, ConcatAdjacentSubSeq
  <2>3. QED BY <1>1, <2>2, SubSeqFull
<1> HIDE DEF h, t
<1>5. bio \o h \in Seq(R) BY <1>1, <1>2, ConcatProperties
<1>6. (bio \o h) \o t = bio \o records
  <2>1. ASSUME NEW i \in Seq(R), NEW j \in Seq(R), NEW l \in Seq(R)
        PROVE  (i \o j) \o l = i \o (j \o l)
    BY ConcatAssociative
  <2>2. (bio \o h) \o t = bio \o (h \o t) BY SMTT(60), <1>1, <1>2, <1>3, <2>1
  <2>3. QED BY <1>4, <2>2
<1>7. Seq(R) \subseteq Seq(RecordSet) BY RecordsWiden DEF R
<1>8. bio \o h \in Seq(RecordSet) /\ t \in Seq(RecordSet) BY <1>3, <1>5, <1>7
<1>9. Payload((bio \o h) \o t) = Payload(bio \o h) \o Payload(t) BY <1>8, PayloadConcat
<1>10. Payload(bio \o h) \in Seq(Pieces) /\ Payload(t) \in Seq(Pieces) BY <1>8, PayloadConcat
<1>11. Receive(n) = bio \o h BY DEF Receive, h
<1>12. Stream = Payload(bio \o h) \o Payload(t) BY <1>6, <1>9 DEF Stream
<1>13. QED BY <1>3, <1>5, <1>8, <1>10, <1>11, <1>12 DEF R, t

\* A message of the handshake brings nothing for the parser.
LEMMA HeadOff ==
  ASSUME NEW b, NEW input \in Seq(RecordsOf(b)), input # <<>>
  PROVE  /\ Head(input) \in RecordsOf(b) /\ Tail(input) \in Seq(RecordsOf(b))
         /\ Head(input).type # "data" => Payload(Tail(input)) = Payload(input)
<1>1. Head(input) \in RecordsOf(b) /\ Tail(input) \in Seq(RecordsOf(b)) BY HeadTailProperties
<1>2. ASSUME Head(input).type # "data" PROVE Payload(Tail(input)) = Payload(input)
  <2> DEFINE x == Head(input)
             t == Tail(input)
  <2>1. x \in RecordSet /\ x.data = <<>> BY <1>1, <1>2 DEF RecordsOf, RecordSet
  <2>2. t \in Seq(RecordSet) BY <1>1, RecordsWiden
  <2>3. input = <<x>> \o t
    <3>1. <<x>> \in Seq(RecordsOf(b)) /\ Len(<<x>>) = 1 /\ <<x>>[1] = x BY <1>1
    <3>2. /\ Len(t) = Len(input) - 1 /\ Len(input) \in Nat /\ x = input[1]
          /\ \A i \in 1 .. Len(t) : t[i] = input[i + 1]
      BY HeadTailProperties, LenProperties
    <3> DEFINE y == <<x>>
               z == y \o t
    <3> HIDE DEF x, t, y
    <3>3. /\ z \in Seq(RecordsOf(b)) /\ Len(z) = Len(y) + Len(t)
          /\ \A i \in 1 .. Len(y) + Len(t) : z[i] = IF i <= Len(y) THEN y[i] ELSE t[i - Len(y)]
      BY <1>1, <3>1, ConcatProperties DEF t, y
    <3> HIDE DEF z
    <3>4. Len(y) = 1 /\ y[1] = x BY <3>1 DEF y
    <3>5. Len(z) = Len(input) BY <3>2, <3>3, <3>4
    <3>6. ASSUME NEW i \in 1 .. Len(input) PROVE input[i] = z[i]
      <4>1. CASE i = 1 BY <3>2, <3>3, <3>4, <3>5, <4>1
      <4>2. CASE i # 1
        <5>1. i - 1 \in 1 .. Len(t) /\ (i - 1) + 1 = i /\ ~ (i <= 1) BY <3>2, <4>2
        <5>2. t[i - 1] = input[i] BY <3>2, <5>1
        <5>3. z[i] = t[i - 1] BY <3>2, <3>3, <3>4, <3>5, <5>1
        <5>4. QED BY <5>2, <5>3
      <4>3. QED BY <4>1, <4>2
    <3>7. input = z BY <3>3, <3>5, <3>6, SeqEqual
    <3>8. QED BY <3>7 DEF z, y
  <2>4. <<x>> \in Seq(RecordSet) /\ Payload(<<x>>) = <<>> BY <2>1, PayloadShort
  <2>5. Payload(t) \in Seq(Pieces) /\ Payload(<<x>> \o t) = Payload(<<x>>) \o Payload(t)
    BY <2>2, <2>4, PayloadConcat
  <2> HIDE DEF x, t
  <2>6. <<>> \o Payload(t) = Payload(t) BY <2>5, ConcatEmptySeq
  <2>7. QED BY <2>3, <2>4, <2>5, <2>6 DEF t
<1>3. QED BY <1>1, <1>2

\* The initial states are initial states of the plain connection.
LEMMA InitStep == Init => IInv /\ Plain!Init
<1> SUFFICES ASSUME Init PROVE IInv /\ Plain!Init OBVIOUS
<1>1. Plain!Init BY DEF Init
<1>2. C!IInv BY <1>1, InitSame, Assumed, C!InitInv
<1>3. responses = <<>> BY <1>1 DEF Plain!Init
<1>4. TLSInv BY <1>3, EmptySeq DEF Init, TLSInv
<1>5. QED BY <1>1, <1>2, <1>4 DEF IInv

\* The handler serves the pieces it has decrypted, as the plain connection
\* does in a read event that delivers as many.
LEMMA ServeRefines ==
  ASSUME IInv, conn = "open", NEW bytes \in Seq(Pieces), NEW rest \in Seq(Pieces),
         Serve(bytes), Stream = bytes \o rest, Stream' = rest
  PROVE  Plain!HandleReqeust
<1> DEFINE n == Len(bytes)
           p == Plain!ParseRequest(parser, buffer \o bytes)
<1>1. parser \in Contents /\ buffer \in Seq(Pieces)
  BY TypesSame DEF IInv, C!IInv, C!TypeInv
<1>2. buffer \o bytes \in Seq(Pieces) BY <1>1, ConcatProperties
<1>3. p.content.state = "Complete" => p.ok
  BY <1>1, <1>2, TypesSame, ParseSame, Assumed, C!CompleteIsOk
<1>4. /\ n \in 0 .. Len(Stream) /\ SubSeq(Stream, 1, n) = bytes
      /\ SubSeq(Stream, n + 1, Len(Stream)) = rest
  <2> DEFINE w == bytes \o rest
  <2>1. /\ w \in Seq(Pieces) /\ Len(w) = n + Len(rest) /\ n \in Nat /\ Len(rest) \in Nat
        /\ \A i \in 1 .. n + Len(rest) : w[i] = IF i <= n THEN bytes[i] ELSE rest[i - n]
    BY ConcatProperties, LenProperties
  <2> HIDE DEF w, n
  <2>2. \A i \in 1 .. n + Len(rest) : w[i] \in Pieces BY <2>1, ElementOfSeq
  <2>3. SubSeq(w, 1, n) = bytes
    <3> DEFINE u == SubSeq(w, 1, n)
    <3>1. \A i \in 1 .. n : w[i] \in Pieces BY <2>1, <2>2
    <3>2. /\ u \in Seq(Pieces) /\ Len(u) = (IF 1 <= n THEN n - 1 + 1 ELSE 0)
          /\ \A i \in 1 .. n - 1 + 1 : u[i] = w[1 + i - 1]
      BY <2>1, <3>1, SubSeqProperties
    <3> HIDE DEF u
    <3>3. Len(u) = n /\ Len(bytes) = n BY <2>1, <3>2 DEF n
    <3>4. ASSUME NEW i \in 1 .. Len(u) PROVE u[i] = bytes[i]
      <4>1. i \in 1 .. n - 1 + 1 /\ 1 + i - 1 = i BY <2>1, <3>3
      <4>2. u[i] = w[i] BY <3>2, <4>1
      <4>3. i \in 1 .. n + Len(rest) /\ i <= n BY <2>1, <3>3
      <4>4. QED BY <2>1, <4>2, <4>3
    <3>5. u = bytes BY <3>2, <3>3, <3>4, SeqEqual
    <3>6. QED BY <3>5 DEF u
  <2>4. SubSeq(w, n + 1, Len(w)) = rest
    <3> DEFINE u == SubSeq(w, n + 1, Len(w))
    <3>1. \A i \in (n + 1) .. Len(w) : w[i] \in Pieces BY <2>1, <2>2
    <3>2. /\ u \in Seq(Pieces) /\ Len(u) = (IF n + 1 <= Len(w) THEN Len(w) - (n + 1) + 1 ELSE 0)
          /\ \A i \in 1 .. Len(w) - (n + 1) + 1 : u[i] = w[(n + 1) + i - 1]
      BY <2>1, <3>1, SubSeqProperties
    <3> HIDE DEF u
    <3>3. Len(u) = Len(rest) BY <2>1, <3>2
    <3>4. ASSUME NEW i \in 1 .. Len(u) PROVE u[i] = rest[i]
      <4>1. i \in 1 .. Len(w) - (n + 1) + 1 /\ (n + 1) + i - 1 = n + i BY <2>1, <3>3
      <4>2. u[i] = w[n + i] BY <3>2, <4>1
      <4>3. n + i \in 1 .. n + Len(rest) /\ ~ (n + i <= n) /\ (n + i) - n = i BY <2>1, <3>3
      <4>4. w[n + i] = rest[(n + i) - n] BY <2>1, <4>3
      <4>5. QED BY <4>2, <4>3, <4>4
    <3>5. u = rest BY <3>2, <3>3, <3>4, SeqEqual
    <3>6. QED BY <3>5 DEF u
  <2>5. n \in 0 .. Len(w) BY <2>1
  <2>6. QED BY <2>3, <2>4, <2>5 DEF w
<1>5. n \in Plain!Deliverable
  BY <1>4, Zenon DEF Plain!Deliverable, Stream
<1>6. /\ buffer' = p.buffer /\ UNCHANGED <<sent, alone>>
      /\ \/ p.content.state # "Complete" /\ parser' = p.content /\ UNCHANGED <<responses, conn>>
         \/ /\ p.content.state = "Complete"
            /\ \E stop \in {0} \cup Stoppers : Plain!SendHttpResponse(p.content, stop)
  BY ParseSame, Zenon DEF Serve
<1> HIDE DEF n
<1>7. CASE p.content.state # "Complete" /\ parser' = p.content /\ UNCHANGED <<responses, conn>>
  <2>1. Plain!ReadMore(n) BY <1>4, <1>6, <1>7, Zenon DEF Plain!ReadMore, Stream
  <2>2. QED BY <1>5, <2>1, Zenon DEF Plain!HandleReqeust
<1>8. CASE /\ p.content.state = "Complete"
           /\ \E stop \in {0} \cup Stoppers : Plain!SendHttpResponse(p.content, stop)
  <2>1. Plain!ReadRequest(n) BY <1>3, <1>4, <1>6, <1>8, Zenon DEF Plain!ReadRequest, Stream
  <2>2. QED BY <1>5, <2>1, Zenon DEF Plain!HandleReqeust
<1>9. QED BY <1>6, <1>7, <1>8

-----------------------------------------------------------------------------
(* The steps *)

\* What a browser transmits comes behind what is on the wire.
LEMMA Transmitted ==
  ASSUME TLSInv, NEW rs \in Seq(RecordsOf(browser')), Transmit(rs), bio' = bio,
         Secured(browser) => Secured(browser')
  PROVE  /\ bio' \in Seq(RecordsOf(browser')) /\ records' \in Seq(RecordsOf(browser'))
         /\ Stream \in Seq(Pieces) /\ Payload(rs) \in Seq(Pieces)
         /\ Stream' = Stream \o Payload(rs)
<1>1. bio \in Seq(RecordsOf(browser')) /\ records \in Seq(RecordsOf(browser'))
  BY RecordsWiden DEF TLSInv
<1>2. records' = records \o rs BY DEF Transmit
<1>3. records' \in Seq(RecordsOf(browser')) BY <1>1, <1>2, ConcatProperties
<1>4. Seq(RecordsOf(browser')) \subseteq Seq(RecordSet) BY RecordsWiden
<1>5. bio \in Seq(RecordSet) /\ records \in Seq(RecordSet) /\ rs \in Seq(RecordSet)
  BY <1>1, <1>4
<1>6. bio \o records \in Seq(RecordSet) BY <1>5, ConcatProperties
<1>7. bio \o (records \o rs) = (bio \o records) \o rs
  <2>1. ASSUME NEW i \in Seq(RecordSet), NEW j \in Seq(RecordSet), NEW l \in Seq(RecordSet)
        PROVE  (i \o j) \o l = i \o (j \o l)
    BY SMTT(60), ConcatAssociative
  <2>2. QED BY <1>5, <2>1, Zenon
<1>8. Payload((bio \o records) \o rs) = Payload(bio \o records) \o Payload(rs)
  BY <1>5, <1>6, PayloadConcat
<1>9. Payload(bio \o records) \in Seq(Pieces) /\ Payload(rs) \in Seq(Pieces)
  BY <1>5, <1>6, PayloadConcat
<1>10. Stream' = Payload(bio \o (records \o rs)) BY <1>2, Zenon DEF Stream
<1>11. QED BY <1>1, <1>3, <1>7, <1>8, <1>9, <1>10 DEF Stream

\* A message without data leaves the stream as it is.
LEMMA Signalled ==
  ASSUME TLSInv, NEW type \in {"hello", "finished", "close", "broken"},
         Transmit(<<Empty(type)>>), bio' = bio,
         type = "finished" => Secured(browser'), Secured(browser) => Secured(browser')
  PROVE  /\ bio' \in Seq(RecordsOf(browser')) /\ records' \in Seq(RecordsOf(browser'))
         /\ Stream' = Stream
<1> DEFINE x == Empty(type)
<1>1. x.type = type /\ x.data = <<>> /\ x \in RecordSet /\ x \in RecordsOf(browser')
  BY EmptySeq DEF Empty, Record, RecordSet, RecordsOf
<1> HIDE DEF x
<1>2. <<x>> \in Seq(RecordsOf(browser')) BY <1>1
<1>3. Payload(<<x>>) = <<>> BY <1>1, PayloadShort
<1>4. Transmit(<<x>>) BY DEF x
<1>5. /\ bio' \in Seq(RecordsOf(browser')) /\ records' \in Seq(RecordsOf(browser'))
      /\ Stream \in Seq(Pieces) /\ Stream' = Stream \o Payload(<<x>>)
  BY <1>2, <1>4, Transmitted
<1>6. Stream \o <<>> = Stream BY <1>5, ConcatEmptySeq
<1>7. QED BY <1>3, <1>5, <1>6

\* One record or two carry the pieces of a request.
LEMMA InRecordsCarry ==
  ASSUME NEW b, NEW e \in Seq(Pieces), NEW rs \in InRecords(e)
  PROVE  rs \in Seq(RecordsOf(b)) /\ Payload(rs) = e
<1>1. ASSUME NEW d \in Seq(Pieces)
      PROVE  /\ Record("data", d) \in RecordSet /\ Record("data", d) \in RecordsOf(b)
             /\ <<Record("data", d)>> \in Seq(RecordsOf(b))
             /\ Payload(<<Record("data", d)>>) = d
  <2> DEFINE x == Record("data", d)
  <2>1. x \in RecordSet /\ x \in RecordsOf(b) /\ x.data = d
    BY DEF Record, RecordSet, RecordsOf
  <2> HIDE DEF x
  <2>2. <<x>> \in Seq(RecordsOf(b)) /\ Payload(<<x>>) = d BY <2>1, PayloadShort
  <2>3. QED BY <2>1, <2>2 DEF x
<1>2. CASE rs = <<Record("data", e)>>
  <2>1. QED BY <1>1, <1>2, Zenon
<1>3. CASE \E k \in 1 .. Len(e) - 1 :
             rs = <<Record("data", SubSeq(e, 1, k)), Record("data", SubSeq(e, k + 1, Len(e)))>>
  <2>1. PICK k \in 1 .. Len(e) - 1 :
             rs = <<Record("data", SubSeq(e, 1, k)), Record("data", SubSeq(e, k + 1, Len(e)))>>
    BY <1>3
  <2> DEFINE u == SubSeq(e, 1, k)
             v == SubSeq(e, k + 1, Len(e))
             x == Record("data", u)
             y == Record("data", v)
  <2>2. Len(e) \in Nat /\ \A i \in 1 .. Len(e) : e[i] \in Pieces BY LenProperties, ElementOfSeq
  <2>3. u \in Seq(Pieces)
    <3>1. \A i \in 1 .. k : e[i] \in Pieces BY <2>2
    <3>2. QED BY <3>1, SubSeqProperties
  <2>4. v \in Seq(Pieces)
    <3>1. \A i \in k + 1 .. Len(e) : e[i] \in Pieces BY <2>2
    <3>2. QED BY <2>2, <3>1, SubSeqProperties
  <2>5. u \o v = e
    <3>1. 1 \in 1 .. Len(e) + 1 /\ k \in 1 - 1 .. Len(e) /\ Len(e) \in k .. Len(e) BY <2>2
    <3>2. u \o v = SubSeq(e, 1, Len(e)) BY <3>1, ConcatAdjacentSubSeq
    <3>3. QED BY <3>2, SubSeqFull
  <2> HIDE DEF u, v
  <2>6. /\ x \in RecordSet /\ x \in RecordsOf(b) /\ Payload(<<x>>) = u
        /\ y \in RecordSet /\ y \in RecordsOf(b) /\ Payload(<<y>>) = v
    BY <1>1, <2>3, <2>4
  <2> HIDE DEF x, y
  <2>7. <<x>> \in Seq(RecordSet) /\ <<y>> \in Seq(RecordSet) /\ <<x, y>> = <<x>> \o <<y>>
    <3>1. <<x>> \in Seq(RecordSet) BY <2>6
    <3>2. <<y>> \in Seq(RecordSet) BY <2>6
    <3>3. Append(<<x>>, y) = <<x>> \o <<y>> BY <2>6, <3>1, AppendIsConcat
    <3>4. Append(<<x>>, y) = <<x, y>>
      <4> DEFINE p == Append(<<x>>, y)
                 q == <<x, y>>
      <4>1. p \in Seq(RecordSet) /\ Len(p) = 2 /\ p[1] = x /\ p[2] = y
        BY <2>6, <3>1, AppendProperties
      <4>2. q \in Seq(RecordSet) /\ Len(q) = 2 /\ q[1] = x /\ q[2] = y BY <2>6
      <4> HIDE DEF p, q
      <4>3. \A i \in 1 .. Len(p) : p[i] = q[i] BY <4>1, <4>2
      <4>4. p = q BY <4>1, <4>2, <4>3, SeqEqual
      <4>5. QED BY <4>4 DEF p, q
    <3>5. QED BY <3>1, <3>2, <3>3, <3>4
  <2>8. Payload(<<x>> \o <<y>>) = Payload(<<x>>) \o Payload(<<y>>) BY <2>7, PayloadConcat
  <2>9. Payload(<<x, y>>) = e BY <2>5, <2>6, <2>7, <2>8
  <2>10. <<x, y>> \in Seq(RecordsOf(b)) BY <2>6
  <2>11. rs = <<x, y>> BY <2>1 DEF x, y, u, v
  <2>12. QED BY <2>9, <2>10, <2>11
<1>4. QED BY <1>2, <1>3 DEF InRecords

\* Greet, Finish and Leave are not seen behind TLS.
LEMMA SignalStep ==
  ASSUME IInv, Greet \/ Finish \/ Leave
  PROVE  TLSInv' /\ UNCHANGED Plain!vars
<1> SUFFICES TLSInv' /\ UNCHANGED <<sent, alone, buffer, parser, responses, conn>> /\ Stream' = Stream
  BY DEF Plain!vars, Stream
<1>1. TLSInv BY DEF IInv
<1>2. /\ UNCHANGED <<sent, alone, buffer, parser, responses, conn>> /\ bio' = bio
      /\ handshake' = handshake
  BY DEF Greet, Finish, Leave, httpVars
<1>3. \E type \in {"hello", "finished", "close", "broken"} :
        /\ Transmit(<<Empty(type)>>) /\ browser' \in {"greeted", "secure", "left"}
        /\ type = "finished" => Secured(browser')
        /\ Secured(browser) => Secured(browser')
  <2>1. CASE Greet BY <2>1 DEF Greet, Secured
  <2>2. CASE Finish BY <2>2 DEF Finish, Secured
  <2>3. CASE Leave BY <2>3 DEF Leave, Secured
  <2>4. QED BY <2>1, <2>2, <2>3
<1>4. /\ bio' \in Seq(RecordsOf(browser')) /\ records' \in Seq(RecordsOf(browser'))
      /\ Stream' = Stream
  BY <1>1, <1>2, <1>3, Signalled
<1>5. TLSInv' BY <1>1, <1>2, <1>3, <1>4 DEF TLSInv
<1>6. QED BY <1>2, <1>4, <1>5

\* A request is sent, whatever the records it goes out in.
LEMMA SendStep ==
  ASSUME IInv, Send
  PROVE  TLSInv' /\ Plain!Send
<1>1. TLSInv /\ C!TypeInv BY DEF IInv, C!IInv
<1>2. PICK r \in Requests :
        /\ sent' = Append(sent, r)
        /\ \E rs \in InRecords(Encode(r, Len(sent) + 1)) : Transmit(rs)
  BY DEF Send
<1> PICK rs \in InRecords(Encode(r, Len(sent) + 1)) : Transmit(rs) BY <1>2
<1>3. /\ UNCHANGED <<buffer, parser, responses, conn, bio, handshake, browser>>
      /\ alone' = (alone /\ Len(responses) = Len(sent))
      /\ conn = "open" /\ Len(sent) < MaxRequests
  BY DEF Send
<1>4. Encode(r, Len(sent) + 1) \in Seq(Pieces)
  <2>1. Len(sent) + 1 \in 1 .. MaxRequests
    BY <1>1, <1>3, LenProperties, MaxRequestsAssumption DEF C!TypeInv
  <2>2. C!Encode(r, Len(sent) + 1) \in Seq(C!Pieces) BY <2>1, Assumed, C!Encoding
  <2>3. QED BY <2>2, EncodeSame, TypesSame
<1>5. rs \in Seq(RecordsOf(browser')) /\ Payload(rs) = Encode(r, Len(sent) + 1)
  BY <1>2, <1>4, InRecordsCarry
<1>6. /\ bio' \in Seq(RecordsOf(browser')) /\ records' \in Seq(RecordsOf(browser'))
      /\ Stream' = Stream \o Payload(rs)
  BY <1>1, <1>2, <1>3, <1>5, Transmitted
<1>7. TLSInv' BY <1>1, <1>3, <1>6 DEF TLSInv
<1>8. Stream' = Stream \o Plain!Encode(r, Len(sent) + 1) BY <1>5, <1>6, EncodeSame
<1>9. Plain!Send BY <1>2, <1>3, <1>8, Zenon DEF Plain!Send, Stream
<1>10. QED BY <1>7, <1>9

\* A closing is one of the plain connection, with whatever TLS holds.
LEMMA CloseStep ==
  ASSUME IInv, HandleClose
  PROVE  TLSInv' /\ Plain!HandleClose
<1>1. /\ conn = "open" /\ conn' = "closed"
      /\ UNCHANGED <<sent, alone, buffer, parser, responses, records, bio, handshake, browser>>
  BY DEF HandleClose, httpVars, tlsVars
<1>2. Stream' = Stream BY <1>1, Zenon DEF Stream
<1>3. Plain!HandleClose BY <1>1, <1>2, Zenon DEF Plain!HandleClose, Stream
<1>4. TLSInv' BY <1>1, Zenon DEF IInv, TLSInv
<1>5. QED BY <1>3, <1>4

\* What SSL_accept answers
LEMMA Accepts ==
  ASSUME NEW b, NEW input \in Seq(RecordsOf(b)), NEW expected \in {"hello", "finished"}
  PROVE  LET a == Accept(expected, input) IN
         /\ a.rt \in {-1, 0, 1, 2}
         /\ a.rt # 0 =>
              /\ a.rest \in Seq(RecordsOf(b)) /\ Payload(a.rest) = Payload(input)
              /\ a.state \in {"hello", "finished", "done"}
              /\ a.rt \in {1, 2} => a.state = "done"
              /\ a.state = "done" => Secured(b)
<1> DEFINE a == Accept(expected, input)
           rt == IF Len(input) > 1 THEN 2 ELSE 1
<1>1. rt \in {1, 2} OBVIOUS
<1>2. a = SSLAccept(expected, input, rt) BY DEF Accept
<1> SUFFICES /\ a.rt \in {-1, 0, 1, 2}
             /\ a.rt # 0 =>
                  /\ a.rest \in Seq(RecordsOf(b)) /\ Payload(a.rest) = Payload(input)
                  /\ a.state \in {"hello", "finished", "done"}
                  /\ a.rt \in {1, 2} => a.state = "done"
                  /\ a.state = "done" => Secured(b)
  OBVIOUS
<1> HIDE DEF a, rt
<1>3. CASE input = <<>>
  <2>1. a = [rt |-> -1, state |-> expected, rest |-> <<>>] BY <1>2, <1>3 DEF SSLAccept
  <2>2. a.rt = -1 /\ a.state = expected /\ a.rest = <<>> BY <2>1
  <2>3. QED BY <1>3, <2>2
<1>4. CASE input # <<>> /\ Head(input).type # expected
  <2>1. a = [rt |-> 0, state |-> expected, rest |-> input] BY <1>2, <1>4 DEF SSLAccept
  <2>2. a.rt = 0 BY <2>1
  <2>3. QED BY <2>2
<1>5. CASE input # <<>> /\ Head(input).type = expected
  <2>1. /\ Head(input) \in RecordsOf(b) /\ Tail(input) \in Seq(RecordsOf(b))
        /\ Payload(Tail(input)) = Payload(input)
    BY <1>5, HeadOff
  <2>2. CASE expected = "hello"
    <3>1. a = [rt |-> -1, state |-> "finished", rest |-> Tail(input)]
      BY <1>2, <1>5, <2>2 DEF SSLAccept
    <3>2. a.rt = -1 /\ a.state = "finished" /\ a.rest = Tail(input) BY <3>1
    <3>3. QED BY <2>1, <3>2
  <2>3. CASE expected = "finished"
    <3>1. a = [rt |-> rt, state |-> "done", rest |-> Tail(input)]
      BY <1>2, <1>5, <2>3 DEF SSLAccept
    <3>2. a.rt = rt /\ a.state = "done" /\ a.rest = Tail(input) BY <3>1
    <3>3. Secured(b) BY <1>5, <2>1, <2>3 DEF RecordsOf
    <3>4. QED BY <1>1, <2>1, <3>2, <3>3
  <2>4. QED BY <2>2, <2>3
<1>6. QED BY <1>3, <1>4, <1>5

\* What is left on the wire when the handler has taken everything it got
LEMMA Left ==
  ASSUME TLSInv, NEW n \in 0 .. Len(records), Taken(n), bio' = <<>>
  PROVE  Stream' = Payload(SubSeq(records, n + 1, Len(records)))
<1> DEFINE t == SubSeq(records, n + 1, Len(records))
<1>1. t \in Seq(RecordSet) BY Cut
<1>2. bio' \o records' = <<>> \o t BY DEF Taken
<1> HIDE DEF t
<1>3. <<>> \o t = t BY <1>1, ConcatEmptySeq
<1>4. QED BY <1>2, <1>3 DEF Stream, t

\* The handshake goes on or ends: the plain connection does not see it.
LEMMA HandshakeStep ==
  ASSUME IInv, NEW n \in 0 .. Len(records), Handshake(n)
  PROVE  TLSInv' /\ UNCHANGED Plain!vars
<1> DEFINE input == Receive(n)
           a == Accept(handshake, input)
           t == SubSeq(records, n + 1, Len(records))
           R == RecordsOf(browser)
<1>1. TLSInv BY DEF IInv
<1>2. /\ input \in Seq(R) /\ t \in Seq(R) /\ t \in Seq(RecordSet)
      /\ Stream = Payload(input) \o Payload(t)
  BY <1>1, Cut
<1>3. /\ handshake \in {"hello", "finished"} /\ a.rt \in {-1, 1}
      /\ handshake' = a.state /\ bio' = a.rest /\ records' = t
      /\ UNCHANGED <<sent, alone, buffer, parser, responses, conn, browser>>
  BY <1>1 DEF Handshake, Taken, TLSInv, httpVars
<1> HIDE DEF input, t
<1>4. /\ a.rest \in Seq(R) /\ Payload(a.rest) = Payload(input)
      /\ a.state \in {"hello", "finished", "done"}
      /\ a.state = "done" => Secured(browser)
  <2>1. a.rt # 0 =>
          /\ a.rest \in Seq(R) /\ Payload(a.rest) = Payload(input)
          /\ a.state \in {"hello", "finished", "done"}
          /\ a.rt \in {1, 2} => a.state = "done"
          /\ a.state = "done" => Secured(browser)
    BY <1>2, <1>3, Accepts, Zenon
  <2> HIDE DEF a
  <2>2. QED BY <1>3, <2>1
<1> HIDE DEF a
<1>5. TLSInv' BY <1>1, <1>2, <1>3, <1>4 DEF TLSInv
<1>6. Stream' = Stream
  <2>1. a.rest \in Seq(RecordSet) BY <1>4, RecordsWiden
  <2>2. Payload(a.rest \o t) = Payload(a.rest) \o Payload(t) BY <1>2, <2>1, PayloadConcat
  <2>3. Stream' = Payload(a.rest \o t) BY <1>3, Zenon DEF Stream
  <2>4. QED BY <1>2, <1>4, <2>2, <2>3
<1>7. QED BY <1>3, <1>5, <1>6 DEF Plain!vars, Stream

\* The end of the handshake and what came with it, in one read event
LEMMA HandshakeThenReadStep ==
  ASSUME IInv, conn = "open", NEW n \in 0 .. Len(records), HandshakeThenRead(n)
  PROVE  TLSInv' /\ (Plain!HandleReqeust \/ Plain!HandleClose)
<1> DEFINE input == Receive(n)
           a == Accept(handshake, input)
           t == SubSeq(records, n + 1, Len(records))
           R == RecordsOf(browser)
<1>1. TLSInv BY DEF IInv
<1>2. /\ input \in Seq(R) /\ t \in Seq(R) /\ Payload(t) \in Seq(Pieces)
      /\ Payload(input) \in Seq(Pieces) /\ Stream = Payload(input) \o Payload(t)
  BY <1>1, Cut
<1>3. /\ handshake \in {"hello", "finished"} /\ a.rt = 2
      /\ \/ HandleClose
         \/ /\ handshake' = a.state /\ bio' = <<>> /\ Taken(n)
            /\ Serve(Payload(a.rest))
  BY <1>1 DEF HandshakeThenRead, TLSInv, DecryptData
<1>4. CASE HandleClose BY <1>4, CloseStep
<1>5. CASE /\ handshake' = a.state /\ bio' = <<>> /\ Taken(n)
           /\ Serve(Payload(a.rest))
  <2>1. Stream' = Payload(t) BY <1>1, <1>5, Left
  <2> HIDE DEF input, t
  <2>2. a.state = "done" /\ Payload(a.rest) = Payload(input) /\ Secured(browser)
    <3>1. a.rt # 0 =>
            /\ a.rest \in Seq(R) /\ Payload(a.rest) = Payload(input)
            /\ a.state \in {"hello", "finished", "done"}
            /\ a.rt \in {1, 2} => a.state = "done"
            /\ a.state = "done" => Secured(browser)
      BY <1>2, <1>3, Accepts, Zenon
    <3> HIDE DEF a
    <3>2. QED BY <1>3, <3>1
  <2> HIDE DEF a
  <2>3. Plain!HandleReqeust
    <3>1. Serve(Payload(input)) BY <1>5, <2>2
    <3>2. QED BY <1>2, <2>1, <3>1, ServeRefines
  <2>4. TLSInv'
    <3>1. browser' = browser BY <1>5 DEF Serve
    <3>2. records' = t BY <1>5 DEF Taken, t
    <3>3. bio' \in Seq(RecordsOf(browser')) BY <1>5, EmptySeq
    <3>4. QED BY <1>1, <1>2, <1>5, <2>2, <3>1, <3>2, <3>3 DEF TLSInv
  <2>5. QED BY <2>3, <2>4
<1>6. QED BY <1>3, <1>4, <1>5

\* A read event after the handshake
LEMMA ReadSecureStep ==
  ASSUME IInv, conn = "open", NEW n \in 0 .. Len(records), ReadSecure(n)
  PROVE  TLSInv' /\ (Plain!HandleReqeust \/ Plain!HandleClose)
<1> DEFINE input == Receive(n)
           t == SubSeq(records, n + 1, Len(records))
<1>1. TLSInv BY DEF IInv
<1>2. /\ t \in Seq(RecordsOf(browser)) /\ Payload(t) \in Seq(Pieces)
      /\ Payload(input) \in Seq(Pieces) /\ Stream = Payload(input) \o Payload(t)
  BY <1>1, Cut
<1>3. /\ handshake = "done"
      /\ \/ HandleClose
         \/ bio' = <<>> /\ Taken(n) /\ Serve(Payload(input)) /\ UNCHANGED handshake
  BY DEF ReadSecure, DecryptData
<1>4. CASE HandleClose BY <1>4, CloseStep
<1>5. CASE bio' = <<>> /\ Taken(n) /\ Serve(Payload(input)) /\ UNCHANGED handshake
  <2>1. Stream' = Payload(t) BY <1>1, <1>5, Left
  <2> HIDE DEF input
  <2>2. records' = t BY <1>5 DEF Taken
  <2> HIDE DEF t
  <2>3. Plain!HandleReqeust BY <1>2, <1>5, <2>1, ServeRefines
  <2>4. browser' = browser BY <1>5 DEF Serve
  <2>5. bio' \in Seq(RecordsOf(browser')) BY <1>5, EmptySeq
  <2>6. TLSInv' BY <1>1, <1>2, <1>3, <1>5, <2>2, <2>4, <2>5 DEF TLSInv
  <2>7. QED BY <2>3, <2>6
<1>6. QED BY <1>3, <1>4, <1>5

\* Every step is one of the plain connection, or none.
LEMMA StepRefines ==
  IInv /\ [Next]_vars => TLSInv' /\ [Plain!Next]_Plain!vars
<1> SUFFICES ASSUME IInv, [Next]_vars PROVE TLSInv' /\ [Plain!Next]_Plain!vars
  OBVIOUS
<1>1. CASE Greet \/ Finish \/ Leave BY <1>1, SignalStep
<1>2. CASE Send BY <1>2, SendStep DEF Plain!Next
<1>3. CASE HandleClose BY <1>3, CloseStep DEF Plain!Next
<1>4. CASE HandleReqeust
  <2>1. PICK n \in 0 .. Len(records) :
          Handshake(n) \/ HandshakeFails(n) \/ HandshakeThenRead(n) \/ ReadSecure(n)
    BY <1>4 DEF HandleReqeust
  <2>2. conn = "open" BY <1>4 DEF HandleReqeust
  <2>3. CASE Handshake(n) BY <2>3, HandshakeStep
  <2>4. CASE HandshakeFails(n) BY <2>4, CloseStep DEF HandshakeFails, Plain!Next
  <2>5. CASE HandshakeThenRead(n) BY <2>2, <2>5, HandshakeThenReadStep DEF Plain!Next
  <2>6. CASE ReadSecure(n) BY <2>2, <2>6, ReadSecureStep DEF Plain!Next
  <2>7. QED BY <2>1, <2>3, <2>4, <2>5, <2>6
<1>5. CASE UNCHANGED vars
  <2>1. UNCHANGED <<sent, alone, buffer, parser, responses, conn, records, bio, handshake, browser>>
    BY <1>5 DEF vars, httpVars, tlsVars
  <2>2. Stream' = Stream BY <2>1, Zenon DEF Stream
  <2>3. UNCHANGED Plain!vars BY <2>1, <2>2 DEF Plain!vars, Stream
  <2>4. TLSInv' BY <2>1, Zenon DEF IInv, TLSInv
  <2>5. QED BY <2>3, <2>4
<1>6. QED BY <1>1, <1>2, <1>3, <1>4, <1>5 DEF Next

\* So every step keeps the invariant.
LEMMA NextStep == IInv /\ [Next]_vars => IInv'
<1> SUFFICES ASSUME IInv, [Next]_vars PROVE IInv' OBVIOUS
<1>1. TLSInv' /\ [Plain!Next]_Plain!vars BY StepRefines
<1>2. C!IInv' BY <1>1, NextSame, Assumed, C!NextInv DEF IInv
<1>3. QED BY <1>1, <1>2 DEF IInv

\* What holds in every reachable state
LEMMA Inductive == Spec => []IInv
BY InitStep, NextStep, PTL DEF Spec

\* Behind TLS the connection is the plain one, for every sequence of records
\* and every cut of it into read events, the one that ends the handshake
\* included: the parser sees the stream of the browser, and a failure of TLS is
\* a closing.
THEOREM RefinesPlain == Spec => ImplementsPlain
<1>1. Init => Plain!Init BY InitStep
<1>2. IInv /\ [Next]_vars => [Plain!Next]_Plain!vars BY StepRefines
<1>3. QED BY <1>1, <1>2, Inductive, PTL DEF Spec, ImplementsPlain, Plain!Spec

\* The server takes the handshake for complete only after the browser's last
\* message, and answers nothing before; and the types of the state.
THEOREM TypeCorrect == Spec => []TypeOK
<1>1. ASSUME IInv PROVE TypeOK
  <2>1. Plain!TypeOK BY <1>1, TypesSame, Assumed, C!InvTypeOK DEF IInv
  <2>2. bio \o records \in Seq(RecordSet)
    <3>1. bio \in Seq(RecordSet) /\ records \in Seq(RecordSet)
      BY <1>1, RecordsWiden DEF IInv, TLSInv
    <3>2. QED BY <3>1, ConcatProperties
  <2>3. \A i \in DOMAIN (bio \o records) : (bio \o records)[i] \in RecordSet
    <3> DEFINE z == bio \o records
    <3>1. DOMAIN z = 1 .. Len(z) BY <2>2, LenProperties
    <3>2. QED BY <2>2, <3>1, ElementOfSeq
  <2>4. QED BY <1>1, <2>1, <2>3 DEF TypeOK, IInv, TLSInv, Secured, RecordSet
<1>2. QED BY <1>1, Inductive, PTL

\* What holds of the plain connection holds behind TLS: the handlers get the
\* requests as they were sent, whatever the records they came in.
THEOREM HandledCorrect == Spec => []Plain!HandledAsSent
<1>1. ASSUME IInv PROVE Plain!HandledAsSent
  <2>1. C!HandledAsSent BY <1>1, Assumed, C!InvHandledAsSent DEF IInv
  <2>2. QED BY <2>1, Zenon DEF C!HandledAsSent, Plain!HandledAsSent, C!NoLength,
               Plain!NoLength, C!Piece, Plain!Piece
<1>2. QED BY <1>1, Inductive, PTL

\* And a callback runs only for a request that every middleware let through.
THEOREM CallbackCorrect == Spec => []Plain!RightCallback
<1>1. ASSUME IInv PROVE Plain!RightCallback
  <2>1. C!RightCallback BY <1>1, Assumed, C!InvRightCallback DEF IInv
  <2>2. QED BY <2>1, Zenon DEF C!RightCallback, Plain!RightCallback, C!NoCallBack,
               Plain!NoCallBack, C!Key, Plain!Key
<1>2. QED BY <1>1, Inductive, PTL

=============================================================================
