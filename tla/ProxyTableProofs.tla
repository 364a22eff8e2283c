--------------------------- MODULE ProxyTableProofs ---------------------------
(***************************************************************************)
(* Theorems about ProxyTable for any number of browsers and descriptors.   *)
(*                                                                         *)
(* TableInv ties the life of each pair to the map, whose entry for its     *)
(* descriptor an open connection has from its handshake to its end; and    *)
(* it weighs the entries that earlier connections left there, and no later *)
(* one has used yet, against the connections that left them.               *)
(***************************************************************************)
EXTENDS ProxyTable, SequenceTheorems, FiniteSetTheorems, TLAPS

Pairs == [fd : Fds, life : Lives, ssl : Nat, s : SSteps, c : CSteps, node : Nodes,
          server : BOOLEAN, client : BOOLEAN]
SslConnections == [for : Nat, connected : BOOLEAN, live : BOOLEAN]

\* One pair: its two threads, its node and the pointers in it
PairOK(p) ==
  /\ p.c = "none" <=> p.node = "none"
  /\ p.life = "accepted" => p.node = "none" /\ p.s \in {"idle", "failed"}
  /\ p.life = "bound" => p.node # "none" /\ p.s \in {"idle", "looked", "ended", "closed"}
  /\ p.life = "gone" => p.s = "idle"
  /\ p.server <=> p.life = "bound" /\ p.s # "closed"
  /\ p.client <=> p.c \in {"idle", "looked"}
  /\ p.node = "deleted" => ~p.server /\ ~p.client
  /\ p.life = "bound" /\ p.s \in {"idle", "looked"} => p.ssl # 0

\* The map m has exactly the live ones of the SSLConnections s, each once
Exact(s, m) ==
  /\ s \in Seq(SslConnections) /\ m \in [Fds -> Nat]
  /\ \A fd \in Fds : m[fd] # 0 => m[fd] \in DOMAIN s /\ s[m[fd]].live
  /\ \A fd, gd \in Fds : m[fd] = m[gd] /\ m[fd] # 0 => fd = gd
  /\ \A e \in DOMAIN s : s[e].live => \E fd \in Fds : m[fd] = e

\* The entry of a descriptor: what its open connection has
EntryOK(i) ==
  LET p == conns[i] IN
  /\ p.s \in {"failed", "ended", "closed"} => map[p.fd] = 0
  /\ p.life = "bound" /\ p.s \in {"idle", "looked"} => map[p.fd] = p.ssl

\* The SSLConnections left behind that nobody has used since
Stray ==
  {e \in DOMAIN ssls :
     /\ ssls[e].live
     /\ \A i \in Open : map[conns[i].fd] = e => Stale(i, e) /\ i \notin victims}

PairsOK ==
  /\ conns \in Seq(Pairs)
  /\ \A i \in DOMAIN conns : PairOK(conns[i])
  /\ \A i, j \in Open : conns[i].fd = conns[j].fd => i = j

EntriesOK == \A i \in Open : EntryOK(i)

\* Each connection that left an SSLConnection behind accounts for one that is
\* astray, or for a victim
HurtOK ==
  /\ left \subseteq DOMAIN conns \ Open /\ victims \subseteq DOMAIN conns
  /\ Cardinality(victims) + Cardinality(Stray) <= Cardinality(left)

TableInv ==
  PairsOK /\ Exact(ssls, map) /\ EntriesOK /\ HurtOK /\ NodeOutlivesHandlers

-----------------------------------------------------------------------------
(* The map and the SSLConnections *)

LEMMA DomainOfSeq ==
  ASSUME NEW S, NEW q \in Seq(S)
  PROVE  /\ Len(q) \in Nat /\ DOMAIN q = 1 .. Len(q)
         /\ \A k \in DOMAIN q : q[k] \in S /\ k \in Nat /\ k # 0
BY LenProperties, ElementOfSeq

\* One element of a sequence is replaced.
LEMMA Replace ==
  ASSUME NEW S, NEW q \in Seq(S), NEW k \in DOMAIN q, NEW v \in S,
         NEW r, r = [q EXCEPT ![k] = v]
  PROVE  /\ r \in Seq(S) /\ DOMAIN r = DOMAIN q /\ Len(r) = Len(q)
         /\ r[k] = v /\ \A n \in DOMAIN q \ {k} : r[n] = q[n]
<1>1. k \in 1 .. Len(q) /\ DOMAIN q = 1 .. Len(q)
  BY DomainOfSeq
<1>2. r \in Seq(S) /\ Len(r) = Len(q)
  BY <1>1, ExceptSeq
<1>3. DOMAIN r = DOMAIN q /\ r[k] = v /\ \A n \in DOMAIN q \ {k} : r[n] = q[n]
  OBVIOUS
<1>4. QED BY <1>2, <1>3

\* SSLConnections r are s with an SSLConnection that has changed its state, or
\* e, which has ended
SameLives(s, r) ==
  /\ r \in Seq(SslConnections) /\ DOMAIN r = DOMAIN s
  /\ \A k \in DOMAIN s : r[k].for = s[k].for /\ r[k].live = s[k].live

Ended(s, e, r) ==
  /\ r \in Seq(SslConnections) /\ DOMAIN r = DOMAIN s
  /\ \A k \in DOMAIN s : r[k].for = s[k].for /\ (k # e => r[k].live = s[k].live)
  /\ ~r[e].live

LEMMA StateChanges ==
  ASSUME NEW s \in Seq(SslConnections), NEW e \in DOMAIN s, NEW b \in BOOLEAN
  PROVE  SameLives(s, [s EXCEPT ![e].connected = b])
<1> DEFINE v == [s[e] EXCEPT !.connected = b]
           r == [s EXCEPT ![e] = v]
<1>1. s[e] \in SslConnections BY DomainOfSeq
<1>2. v \in SslConnections /\ v.for = s[e].for /\ v.live = s[e].live
  BY <1>1 DEF SslConnections
<1>3. r = [s EXCEPT ![e].connected = b] OBVIOUS
<1> HIDE DEF v
<1>4. /\ r \in Seq(SslConnections) /\ DOMAIN r = DOMAIN s
      /\ r[e] = v /\ \A k \in DOMAIN s \ {e} : r[k] = s[k]
  BY <1>2, Replace
<1> HIDE DEF r
<1>5. SameLives(s, r) BY <1>2, <1>4 DEF SameLives
<1>6. QED BY <1>3, <1>5

LEMMA LifeEnds ==
  ASSUME NEW s \in Seq(SslConnections), NEW e \in DOMAIN s
  PROVE  Ended(s, e, [s EXCEPT ![e].live = FALSE])
<1> DEFINE v == [s[e] EXCEPT !.live = FALSE]
           r == [s EXCEPT ![e] = v]
<1>1. s[e] \in SslConnections BY DomainOfSeq
<1>2. v \in SslConnections /\ v.for = s[e].for /\ ~v.live
  BY <1>1 DEF SslConnections
<1>3. r = [s EXCEPT ![e].live = FALSE] OBVIOUS
<1> HIDE DEF v
<1>4. /\ r \in Seq(SslConnections) /\ DOMAIN r = DOMAIN s
      /\ r[e] = v /\ \A k \in DOMAIN s \ {e} : r[k] = s[k]
  BY <1>2, Replace
<1> HIDE DEF r
<1>5. Ended(s, e, r) BY <1>2, <1>4 DEF Ended
<1>6. QED BY <1>3, <1>5

LEMMA ConnectedExact ==
  ASSUME NEW s, NEW m, NEW r, Exact(s, m), SameLives(s, r)
  PROVE  Exact(r, m)
BY DEF Exact, SameLives

\* An entry goes together with its SSLConnection.
LEMMA ErasedExact ==
  ASSUME NEW s, NEW m, Exact(s, m), NEW d \in Fds, NEW e, e = m[d], e # 0,
         NEW r, Ended(s, e, r),
         NEW n \in [Fds -> Nat], n[d] = 0, \A fd \in Fds \ {d} : n[fd] = m[fd]
  PROVE  Exact(r, n)
<1>1. e \in DOMAIN s /\ s[e].live
  BY DEF Exact
<1>2. n \in [Fds -> Nat] /\ n[d] = 0 /\ \A fd \in Fds \ {d} : n[fd] = m[fd]
  OBVIOUS
<1>3. \A fd, gd \in Fds : m[fd] = m[gd] /\ m[fd] # 0 => fd = gd
  BY DEF Exact
<1>4. /\ r \in Seq(SslConnections) /\ DOMAIN r = DOMAIN s
      /\ \A k \in DOMAIN s : k # e => r[k].live = s[k].live
      /\ ~r[e].live
  BY DEF Ended
<1>5. \A fd \in Fds : n[fd] # 0 => n[fd] \in DOMAIN r /\ r[n[fd]].live
  <2> SUFFICES ASSUME NEW fd \in Fds, n[fd] # 0
               PROVE  n[fd] \in DOMAIN r /\ r[n[fd]].live
    OBVIOUS
  <2>1. fd # d /\ n[fd] = m[fd] BY <1>2
  <2>2. m[fd] \in DOMAIN s /\ s[m[fd]].live BY <2>1 DEF Exact
  <2>3. m[fd] # e BY <1>3, <2>1
  <2>4. QED BY <1>4, <2>1, <2>2, <2>3
<1>6. \A fd, gd \in Fds : n[fd] = n[gd] /\ n[fd] # 0 => fd = gd
  BY <1>2, <1>3
<1>7. \A k \in DOMAIN r : r[k].live => \E fd \in Fds : n[fd] = k
  <2> SUFFICES ASSUME NEW k \in DOMAIN r, r[k].live PROVE \E fd \in Fds : n[fd] = k
    OBVIOUS
  <2>1. k \in DOMAIN s /\ k # e /\ s[k].live BY <1>4
  <2>2. PICK fd \in Fds : m[fd] = k BY <2>1 DEF Exact
  <2>3. fd # d BY <2>1, <2>2
  <2>4. QED BY <1>2, <2>2, <2>3
<1>8. Exact(r, n)
  BY <1>2, <1>4, <1>5, <1>6, <1>7 DEF Exact
<1>9. QED BY <1>8

\* handleProxyHandshake: the entry of the descriptor is there, or made.
LEMMA EnsuredExact ==
  ASSUME TableInv, NEW i \in DOMAIN conns
  PROVE  LET s == Ssls(i)
             m == Mapped(i)
             e == Entry(i)
             d == conns[i].fd
         IN  /\ Exact(s, m) /\ e \in DOMAIN s /\ e # 0 /\ s[e].live
             /\ m[d] = e /\ \A fd \in Fds \ {d} : m[fd] = map[fd]
             /\ DOMAIN ssls \subseteq DOMAIN s /\ \A k \in DOMAIN ssls : s[k] = ssls[k]
             /\ DOMAIN s \ {e} \subseteq DOMAIN ssls
             /\ IF map[d] = 0 THEN s[e].for = i /\ e \notin DOMAIN ssls ELSE e = map[d]
<1> DEFINE s == Ssls(i)
           m == Mapped(i)
           e == Entry(i)
           d == conns[i].fd
<1>1. ssls \in Seq(SslConnections) /\ map \in [Fds -> Nat] BY DEF TableInv, Exact
<1>2. i \in Nat /\ conns[i] \in Pairs
  BY DomainOfSeq DEF TableInv, PairsOK
<1>3. d \in Fds BY <1>2 DEF Pairs
<1>4. m \in [Fds -> Nat \cup {e}] /\ m[d] = e /\ \A fd \in Fds \ {d} : m[fd] = map[fd]
  BY <1>1, <1>3 DEF Mapped
<1>5. CASE map[d] = 0
  <2> DEFINE new == [for |-> i, connected |-> FALSE, live |-> TRUE]
  <2>1. new \in SslConnections /\ new.for = i /\ new.live BY <1>2 DEF SslConnections
  <2>2. e = Len(ssls) + 1 /\ s = Append(ssls, new) BY <1>5 DEF Entry, Ssls
  <2> HIDE DEF new
  <2>3. /\ s \in Seq(SslConnections) /\ Len(s) = Len(ssls) + 1
        /\ \A k \in 1 .. Len(ssls) : s[k] = ssls[k]
        /\ s[Len(ssls) + 1] = new
    BY <1>1, <2>1, <2>2, AppendProperties
  <2>4. Len(ssls) \in Nat /\ DOMAIN ssls = 1 .. Len(ssls) /\ DOMAIN s = 1 .. Len(ssls) + 1
    BY <1>1, <2>3, DomainOfSeq
  <2> HIDE DEF s, m, e, d
  <2>5. /\ e \in DOMAIN s /\ e # 0 /\ s[e] = new /\ e \notin DOMAIN ssls
        /\ DOMAIN ssls \subseteq DOMAIN s /\ \A k \in DOMAIN ssls : s[k] = ssls[k]
        /\ \A k \in DOMAIN s \ {e} : k \in DOMAIN ssls
    BY <2>2, <2>3, <2>4
  <2>6. m \in [Fds -> Nat] BY <1>4, <2>2, <2>4
  <2>7. \A fd \in Fds : m[fd] # 0 => m[fd] \in DOMAIN s /\ s[m[fd]].live
    BY <1>4, <2>1, <2>5 DEF TableInv, Exact
  <2>8. \A fd \in Fds \ {d} : m[fd] # e
    BY <1>4, <2>5 DEF TableInv, Exact
  <2>9. \A fd, gd \in Fds : m[fd] = m[gd] /\ m[fd] # 0 => fd = gd
    BY <1>4, <2>8 DEF TableInv, Exact
  <2>10. \A k \in DOMAIN s : s[k].live => \E fd \in Fds : m[fd] = k
    <3> SUFFICES ASSUME NEW k \in DOMAIN s, s[k].live PROVE \E fd \in Fds : m[fd] = k
      OBVIOUS
    <3>1. CASE k = e BY <1>3, <1>4, <3>1
    <3>2. CASE k # e
      <4>1. k \in DOMAIN ssls /\ ssls[k].live BY <2>5, <3>2
      <4>2. PICK fd \in Fds : map[fd] = k BY <4>1 DEF TableInv, Exact
      <4>3. fd # d BY <1>5, <4>1, <4>2, <2>4
      <4>4. QED BY <1>4, <4>2, <4>3
    <3>3. QED BY <3>1, <3>2
  <2>11. Exact(s, m) BY <2>3, <2>6, <2>7, <2>9, <2>10 DEF Exact
  <2>12. QED BY <1>4, <1>5, <2>1, <2>5, <2>11 DEF s, m, e, d
<1>6. CASE map[d] # 0
  <2>1. e = map[d] /\ s = ssls BY <1>6 DEF Entry, Ssls
  <2>2. m = map BY <1>1, <2>1 DEF Mapped
  <2>3. e \in DOMAIN ssls /\ ssls[e].live BY <1>3, <1>6, <2>1 DEF TableInv, Exact
  <2>4. QED BY <1>4, <1>6, <2>1, <2>2, <2>3 DEF TableInv
<1>7. QED BY <1>5, <1>6

-----------------------------------------------------------------------------
(* What a step of one pair leaves of the others *)

\* Pair i becomes p.
LEMMA PairStep ==
  ASSUME TableInv, NEW i \in DOMAIN conns, NEW p \in Pairs, PairOK(p),
         p.fd = conns[i].fd, p.life # "gone" => i \in Open,
         conns' = [conns EXCEPT ![i] = p]
  PROVE  /\ PairsOK' /\ DOMAIN conns' = DOMAIN conns /\ conns'[i] = p
         /\ \A j \in DOMAIN conns \ {i} : conns'[j] = conns[j]
         /\ i \in Open' <=> p.life # "gone"
         /\ Open' \subseteq Open /\ Open \ {i} \subseteq Open'
<1>1. conns \in Seq(Pairs) BY DEF TableInv, PairsOK
<1>2. /\ conns' \in Seq(Pairs) /\ DOMAIN conns' = DOMAIN conns /\ conns'[i] = p
      /\ \A j \in DOMAIN conns \ {i} : conns'[j] = conns[j]
  BY <1>1, Replace
<1>3. /\ i \in Open' <=> p.life # "gone"
      /\ Open' \subseteq Open /\ Open \ {i} \subseteq Open'
  BY <1>2 DEF Open
<1>4. \A j \in DOMAIN conns' : PairOK(conns'[j])
  BY <1>2 DEF TableInv, PairsOK
<1>5. \A j \in DOMAIN conns : conns'[j].fd = conns[j].fd
  BY <1>2
<1>6. \A j, k \in Open' : conns'[j].fd = conns'[k].fd => j = k
  BY <1>3, <1>5 DEF TableInv, PairsOK, Open
<1>7. QED BY <1>2, <1>3, <1>4, <1>6 DEF PairsOK

\* Only the entry of pair i changes, and only if the pair is open.
LEMMA EntriesStep ==
  ASSUME TableInv, NEW i \in DOMAIN conns,
         DOMAIN conns' = DOMAIN conns, conns'[i].fd = conns[i].fd,
         \A j \in DOMAIN conns \ {i} : conns'[j] = conns[j],
         Open' \subseteq Open, Open \ {i} \subseteq Open',
         \A fd \in Fds : map'[fd] = map[fd] \/ (i \in Open /\ fd = conns[i].fd),
         i \in Open' => EntryOK(i)'
  PROVE  EntriesOK'
<1>0. \A j \in DOMAIN conns : conns[j].fd \in Fds
  <2>1. conns \in Seq(Pairs) BY DEF TableInv, PairsOK
  <2>2. \A j \in DOMAIN conns : conns[j] \in Pairs BY <2>1, DomainOfSeq
  <2>3. QED BY <2>2 DEF Pairs
<1>1. \A j, k \in Open : conns[j].fd = conns[k].fd => j = k
  BY DEF TableInv, PairsOK
<1>2. ASSUME NEW j \in Open', j # i PROVE EntryOK(j)'
  <2>1. j \in Open /\ conns'[j] = conns[j] /\ j \in DOMAIN conns
    BY <1>2 DEF Open
  <2>2. map'[conns[j].fd] = map[conns[j].fd]
    BY <1>0, <1>1, <1>2, <2>1
  <2>3. EntryOK(j) BY <2>1 DEF TableInv, EntriesOK
  <2>4. QED BY <2>1, <2>2, <2>3 DEF EntryOK
<1>3. QED BY <1>2 DEF EntriesOK

\* The victims, those left behind and those who left are finitely many.
LEMMA Finite ==
  ASSUME TableInv
  PROVE  /\ IsFiniteSet(left) /\ IsFiniteSet(victims) /\ IsFiniteSet(Stray)
         /\ Cardinality(left) \in Nat /\ Cardinality(victims) \in Nat
         /\ Cardinality(Stray) \in Nat
<1>1. IsFiniteSet(DOMAIN ssls) /\ IsFiniteSet(DOMAIN conns)
  BY DomainOfSeq, FS_Interval DEF TableInv, PairsOK, Exact
<1>2. left \subseteq DOMAIN conns /\ victims \subseteq DOMAIN conns /\ Stray \subseteq DOMAIN ssls
  BY DEF TableInv, HurtOK, Stray
<1>3. IsFiniteSet(left) /\ IsFiniteSet(victims) /\ IsFiniteSet(Stray)
  BY <1>1, <1>2, FS_Subset
<1>4. QED BY <1>3, FS_CardinalityType

\* A victim costs one of those astray.
LEMMA HurtKept ==
  ASSUME TableInv, left' = left, left \subseteq DOMAIN conns' \ Open', Stray' \subseteq Stray,
         victims' \subseteq DOMAIN conns',
         NEW i, victims' = victims \/ (victims' = victims \cup {i} /\ Stray' # Stray)
  PROVE  HurtOK'
<1>1. Cardinality(victims) + Cardinality(Stray) <= Cardinality(left)
  BY DEF TableInv, HurtOK
<1>2. Cardinality(Stray') \in Nat /\ Cardinality(Stray') <= Cardinality(Stray)
  BY Finite, FS_Subset, FS_CardinalityType
<1>3. CASE victims' = victims
  BY <1>1, <1>2, <1>3, Finite DEF HurtOK
<1>4. CASE victims' = victims \cup {i} /\ Stray' # Stray
  <2>1. PICK e \in Stray : Stray' \subseteq Stray \ {e} BY <1>4
  <2>2. Cardinality(Stray \ {e}) = Cardinality(Stray) - 1 /\ IsFiniteSet(Stray \ {e})
    BY Finite, FS_RemoveElement
  <2>3. Cardinality(Stray') <= Cardinality(Stray) - 1
    BY <2>1, <2>2, FS_Subset
  <2>4. Cardinality(victims') \in {Cardinality(victims), Cardinality(victims) + 1}
    BY <1>4, Finite, FS_AddElement
  <2>5. Cardinality(victims') + Cardinality(Stray') <= Cardinality(left)
    BY <1>1, <1>2, <2>3, <2>4, Finite
  <2>6. QED BY <2>5 DEF HurtOK
<1>5. QED BY <1>3, <1>4

\* What is astray after a step was so before: an SSLConnection that is made has
\* the connection it is made for, and an open connection goes with its entry.
LEMMA StrayKept ==
  ASSUME TableInv, victims \subseteq victims',
         \A j \in Open : conns'[j].fd = conns[j].fd /\ (j \in Open' \/ map[conns[j].fd] = 0),
         \A k \in DOMAIN ssls' : ssls'[k].live =>
           \/ k \in DOMAIN ssls /\ ssls[k].live /\ ssls'[k].for = ssls[k].for
           \/ \E j \in Open' : map'[conns'[j].fd] = k /\ ssls'[k].for = j,
         \A fd \in Fds : map'[fd] = map[fd] \/ map[fd] = 0 \/ ~ssls'[map[fd]].live
  PROVE  Stray' \subseteq Stray
<1> SUFFICES ASSUME NEW k \in Stray' PROVE k \in Stray
  OBVIOUS
<1>1. k \in DOMAIN ssls' /\ ssls'[k].live
      /\ \A j \in Open' : map'[conns'[j].fd] = k => ssls'[k].for # j /\ j \notin victims'
  BY DEF Stray, Stale
<1>2. k \in DOMAIN ssls /\ ssls[k].live /\ ssls'[k].for = ssls[k].for
  BY <1>1
<1>3. k # 0 BY <1>2, DomainOfSeq DEF TableInv, Exact
<1>4. ASSUME NEW j \in Open, map[conns[j].fd] = k PROVE Stale(j, k) /\ j \notin victims
  <2>1. conns[j].fd \in Fds
    <3>1. j \in DOMAIN conns BY DEF Open
    <3>2. conns[j] \in Pairs BY <3>1, DomainOfSeq DEF TableInv, PairsOK
    <3>3. QED BY <3>2 DEF Pairs
  <2>2. j \in Open' /\ map'[conns'[j].fd] = k BY <1>1, <1>3, <1>4, <2>1
  <2>3. QED BY <1>1, <1>2, <2>2 DEF Stale
<1>5. QED BY <1>2, <1>4 DEF Stray

\* Who goes by another's SSLConnection for the first time takes one that is
\* astray: it ends, or is used from now on.
LEMMA UseTakes ==
  ASSUME TableInv, NEW i \in Open, victims' = Victims(i), victims' # victims,
         map[conns[i].fd] # 0 =>
           \/ ~ssls'[map[conns[i].fd]].live
           \/ i \in Open' /\ map'[conns'[i].fd] = map[conns[i].fd]
  PROVE  victims' = victims \cup {i} /\ Stray' # Stray
<1> DEFINE d == conns[i].fd
           e == map[d]
<1>1. e # 0 /\ Stale(i, e) /\ victims' = victims \cup {i} /\ i \notin victims
  BY DEF Victims
<1>2. \A j \in Open : conns[j].fd \in Fds
  <2>1. conns \in Seq(Pairs) BY DEF TableInv, PairsOK
  <2>2. \A j \in Open : conns[j] \in Pairs BY <2>1, DomainOfSeq DEF Open
  <2>3. QED BY <2>2 DEF Pairs
<1>3. e \in DOMAIN ssls /\ ssls[e].live BY <1>1, <1>2 DEF TableInv, Exact
<1>4. \A j \in Open : map[conns[j].fd] = e => j = i
  BY <1>1, <1>2 DEF TableInv, Exact, PairsOK
<1>5. e \in Stray BY <1>1, <1>3, <1>4 DEF Stray
<1>6. e \notin Stray' BY <1>1 DEF Stray
<1>7. QED BY <1>1, <1>5, <1>6

\* A step of pair i, which stays open or has no entry.
LEMMA HurtStep ==
  ASSUME TableInv, NEW i \in DOMAIN conns, DOMAIN conns' = DOMAIN conns,
         \A j \in DOMAIN conns : conns'[j].fd = conns[j].fd,
         Open' \subseteq Open, Open \ {i} \subseteq Open',
         i \in Open => i \in Open' \/ map[conns[i].fd] = 0,
         left' = left, victims' = victims \/ (i \in Open /\ victims' = Victims(i)),
         \A k \in DOMAIN ssls' : ssls'[k].live =>
           \/ k \in DOMAIN ssls /\ ssls[k].live /\ ssls'[k].for = ssls[k].for
           \/ i \in Open' /\ map'[conns[i].fd] = k /\ ssls'[k].for = i,
         \A fd \in Fds : map'[fd] = map[fd] \/ map[fd] = 0 \/ ~ssls'[map[fd]].live,
         map[conns[i].fd] # 0 =>
           ~ssls'[map[conns[i].fd]].live \/ map'[conns[i].fd] = map[conns[i].fd]
  PROVE  HurtOK'
<1>1. victims \subseteq victims' /\ victims' \subseteq DOMAIN conns
  BY DEF Victims, TableInv, HurtOK
<1>2. Stray' \subseteq Stray
  <2>1. \A j \in Open : conns'[j].fd = conns[j].fd /\ (j \in Open' \/ map[conns[j].fd] = 0)
    BY DEF Open
  <2>2. \A k \in DOMAIN ssls' : ssls'[k].live =>
           \/ k \in DOMAIN ssls /\ ssls[k].live /\ ssls'[k].for = ssls[k].for
           \/ \E j \in Open' : map'[conns'[j].fd] = k /\ ssls'[k].for = j
    OBVIOUS
  <2>3. QED BY <1>1, <2>1, <2>2, StrayKept
<1>3. victims' = victims \/ (victims' = victims \cup {i} /\ Stray' # Stray)
  <2> SUFFICES ASSUME victims' # victims
               PROVE  victims' = victims \cup {i} /\ Stray' # Stray
    OBVIOUS
  <2>1. i \in Open /\ victims' = Victims(i) OBVIOUS
  <2>2. map[conns[i].fd] # 0 BY <2>1 DEF Victims
  <2>3. i \in Open' BY <2>1, <2>2
  <2>4. QED BY <2>1, <2>3, UseTakes
<1>4. left \subseteq DOMAIN conns' \ Open' BY DEF TableInv, HurtOK
<1>5. QED BY <1>1, <1>2, <1>3, <1>4, HurtKept

-----------------------------------------------------------------------------
(* The three kinds of steps *)

LEMMA PairTyped ==
  ASSUME TableInv, NEW i \in DOMAIN conns
  PROVE  conns[i] \in Pairs /\ PairOK(conns[i]) /\ conns[i].fd \in Fds
<1>1. conns[i] \in Pairs BY DomainOfSeq DEF TableInv, PairsOK
<1>2. QED BY <1>1 DEF TableInv, PairsOK, Pairs

\* The map and the SSLConnections stay.
LEMMA LoneStep ==
  ASSUME TableInv, NEW i \in DOMAIN conns, NEW p \in Pairs, PairOK(p),
         p.fd = conns[i].fd, p.life # "gone" => i \in Open,
         conns' = [conns EXCEPT ![i] = p],
         UNCHANGED <<ssls, map, left>>, faults' = {},
         victims' = victims \/ (i \in Open /\ victims' = Victims(i)),
         p.life # "gone" /\ p.s \in {"failed", "ended", "closed"} => map[p.fd] = 0,
         p.life = "bound" /\ p.s \in {"idle", "looked"} => map[p.fd] = p.ssl,
         p.life = "gone" /\ i \in Open => map[p.fd] = 0
  PROVE  TableInv'
<1>1. /\ PairsOK' /\ DOMAIN conns' = DOMAIN conns /\ conns'[i] = p
      /\ \A j \in DOMAIN conns \ {i} : conns'[j] = conns[j]
      /\ i \in Open' <=> p.life # "gone"
      /\ Open' \subseteq Open /\ Open \ {i} \subseteq Open'
  BY PairStep
<1>2. i \in Open' => EntryOK(i)'
  BY <1>1 DEF EntryOK
<1>3. EntriesOK'
  BY <1>1, <1>2, EntriesStep
<1>4. HurtOK'
  <2>1. \A j \in DOMAIN conns : conns'[j].fd = conns[j].fd BY <1>1
  <2>2. i \in Open => i \in Open' \/ map[conns[i].fd] = 0 BY <1>1
  <2>3. QED BY <1>1, <2>1, <2>2, HurtStep
<1>5. QED BY <1>1, <1>3, <1>4 DEF TableInv, NodeOutlivesHandlers

\* The entry of an open connection is erased with its SSLConnection; s and m
\* are what they were before, or what the same handler made of them.
LEMMA EndingStep ==
  ASSUME TableInv, NEW i \in Open, NEW p \in Pairs, PairOK(p),
         NEW d \in Fds, d = conns[i].fd, p.fd = d, p.life # "gone", p.s \in {"failed", "ended", "closed"},
         conns' = [conns EXCEPT ![i] = p],
         NEW s, NEW m, Exact(s, m), NEW e, m[d] = e, e # 0,
         DOMAIN ssls \subseteq DOMAIN s, \A k \in DOMAIN ssls : s[k] = ssls[k],
         DOMAIN s \ {e} \subseteq DOMAIN ssls, map[d] # 0 => e = map[d],
         \A fd \in Fds \ {d} : m[fd] = map[fd],
         Ended(s, e, ssls'), map' = [m EXCEPT ![d] = 0],
         left' = left, victims' = Victims(i), faults' = {}
  PROVE  TableInv'
<1>0. i \in DOMAIN conns BY DEF Open
<1>2. /\ PairsOK' /\ DOMAIN conns' = DOMAIN conns /\ conns'[i] = p
      /\ \A j \in DOMAIN conns \ {i} : conns'[j] = conns[j]
      /\ i \in Open' /\ Open' \subseteq Open /\ Open \ {i} \subseteq Open'
  BY <1>0, PairStep
<1>3. /\ Exact(ssls', map') /\ DOMAIN ssls' = DOMAIN s /\ e \in DOMAIN s
      /\ map'[d] = 0 /\ \A fd \in Fds \ {d} : map'[fd] = m[fd]
      /\ \A k \in DOMAIN s : ssls'[k].for = s[k].for
      /\ \A k \in DOMAIN s \ {e} : ssls'[k].live = s[k].live
      /\ s[e].live /\ ~ssls'[e].live
  <2>1. m \in [Fds -> Nat] BY DEF Exact
  <2>2. map' \in [Fds -> Nat] /\ map'[d] = 0 /\ \A fd \in Fds \ {d} : map'[fd] = m[fd]
    BY <2>1
  <2>3. e = m[d] OBVIOUS
  <2>4. Exact(ssls', map')
    <3>1. ASSUME NEW r, Ended(s, e, r), NEW n \in [Fds -> Nat], n[d] = 0,
                 \A fd \in Fds \ {d} : n[fd] = m[fd]
          PROVE  Exact(r, n)
      BY <2>3, <3>1, ErasedExact
    <3>2. Ended(s, e, ssls') OBVIOUS
    <3>3. QED BY <2>2, <3>1, <3>2
  <2>5. e \in DOMAIN s /\ s[e].live
    BY <2>3 DEF Exact
  <2>6. QED BY <2>2, <2>4, <2>5 DEF Ended
<1>4. EntryOK(i)' BY <1>2, <1>3 DEF EntryOK, PairOK
<1>5. EntriesOK'
  BY <1>0, <1>2, <1>3, <1>4, EntriesStep
<1>6. HurtOK'
  <2>1. \A j \in DOMAIN conns : conns'[j].fd = conns[j].fd BY <1>2
  <2>2. \A k \in DOMAIN ssls' : ssls'[k].live =>
          k \in DOMAIN ssls /\ ssls[k].live /\ ssls'[k].for = ssls[k].for
    BY <1>3
  <2>3. \A fd \in Fds : map'[fd] = map[fd] \/ map[fd] = 0 \/ ~ssls'[map[fd]].live
    BY <1>3
  <2>4. map[conns[i].fd] # 0 => ~ssls'[map[conns[i].fd]].live BY <1>3
  <2>5. QED BY <1>0, <1>2, <2>1, <2>2, <2>3, <2>4, HurtStep
<1>7. QED BY <1>2, <1>3, <1>5, <1>6 DEF TableInv, NodeOutlivesHandlers

\* An open connection has, or makes, the entry of its descriptor.
LEMMA MakingStep ==
  ASSUME TableInv, NEW i \in Open, NEW p \in Pairs, PairOK(p),
         p.fd = conns[i].fd, p.life # "gone", p.s \in {"idle", "looked"},
         p.ssl = Entry(i), conns' = [conns EXCEPT ![i] = p],
         SameLives(Ssls(i), ssls'), map' = Mapped(i),
         left' = left, victims' = Victims(i), faults' = {}
  PROVE  TableInv'
<1> DEFINE d == p.fd
           s == Ssls(i)
           m == Mapped(i)
           e == Entry(i)
<1>0. i \in DOMAIN conns BY DEF Open
<1>1. d \in Fds BY <1>0, PairTyped
<1>2. /\ PairsOK' /\ DOMAIN conns' = DOMAIN conns /\ conns'[i] = p
      /\ \A j \in DOMAIN conns \ {i} : conns'[j] = conns[j]
      /\ i \in Open' /\ Open' \subseteq Open /\ Open \ {i} \subseteq Open'
  BY <1>0, PairStep
<1>3. /\ Exact(s, m) /\ e \in DOMAIN s /\ e # 0 /\ s[e].live
      /\ m[d] = e /\ \A fd \in Fds \ {d} : m[fd] = map[fd]
      /\ DOMAIN ssls \subseteq DOMAIN s /\ \A k \in DOMAIN ssls : s[k] = ssls[k]
      /\ DOMAIN s \ {e} \subseteq DOMAIN ssls
      /\ IF map[d] = 0 THEN s[e].for = i /\ e \notin DOMAIN ssls ELSE e = map[d]
  BY <1>0, EnsuredExact
<1> HIDE DEF d, s, m, e
<1>4. /\ Exact(ssls', m) /\ DOMAIN ssls' = DOMAIN s
      /\ \A k \in DOMAIN s : ssls'[k].for = s[k].for /\ ssls'[k].live = s[k].live
  <2>1. SameLives(s, ssls') BY DEF s
  <2>2. QED BY <1>3, <2>1, ConnectedExact DEF SameLives
<1>5. map' = m /\ p.ssl = e /\ d = conns[i].fd BY DEF m, e, d
<1>6. EntryOK(i)' BY <1>2, <1>3, <1>5 DEF EntryOK, d
<1>7. EntriesOK'
  BY <1>0, <1>2, <1>3, <1>5, <1>6, EntriesStep
<1>8. HurtOK'
  <2>1. \A j \in DOMAIN conns : conns'[j].fd = conns[j].fd BY <1>2, <1>5
  <2>2. map'[d] = e /\ (map[d] # 0 => map'[d] = map[d]) BY <1>3, <1>5
  <2>3. \A k \in DOMAIN ssls' : ssls'[k].live =>
          \/ k \in DOMAIN ssls /\ ssls[k].live /\ ssls'[k].for = ssls[k].for
          \/ i \in Open' /\ map'[d] = k /\ ssls'[k].for = i
    <3> SUFFICES ASSUME NEW k \in DOMAIN ssls', ssls'[k].live,
                        ~(k \in DOMAIN ssls /\ ssls[k].live /\ ssls'[k].for = ssls[k].for)
                 PROVE  map'[d] = k /\ ssls'[k].for = i
      BY <1>2
    <3>1. k \in DOMAIN s /\ s[k].live /\ ssls'[k].for = s[k].for BY <1>4
    <3>2. k \notin DOMAIN ssls BY <1>3, <3>1
    <3>3. k = e BY <1>3, <3>1, <3>2
    <3>4. map[d] = 0
      <4>1. map[d] # 0 => map[d] \in DOMAIN ssls BY <1>1 DEF TableInv, Exact
      <4>2. QED BY <1>3, <3>2, <3>3, <4>1
    <3>5. QED BY <1>3, <2>2, <3>1, <3>3, <3>4
  <2>4. \A fd \in Fds : map'[fd] = map[fd] \/ map[fd] = 0 BY <1>3, <1>5, <2>2
  <2>5. QED BY <1>0, <1>2, <1>5, <2>1, <2>2, <2>3, <2>4, HurtStep
<1>9. QED
  BY <1>2, <1>4, <1>5, <1>7, <1>8 DEF TableInv, NodeOutlivesHandlers

-----------------------------------------------------------------------------
(* The actions *)

LEMMA AcceptKeeps ==
  ASSUME TableInv, Accept PROVE TableInv'
<1>1. PICK fd \in Fds \ {conns[i].fd : i \in Open} :
        conns' = Append(conns, [fd |-> fd, life |-> "accepted", ssl |-> 0, s |-> "idle",
                                c |-> "none", node |-> "none",
                                server |-> FALSE, client |-> FALSE])
  BY DEF Accept
<1> DEFINE p == [fd |-> fd, life |-> "accepted", ssl |-> 0, s |-> "idle", c |-> "none",
                 node |-> "none", server |-> FALSE, client |-> FALSE]
           n == Len(conns) + 1
<1>2. p \in Pairs BY DEF Pairs, Lives, SSteps, CSteps, Nodes
<1>3. PairOK(p) BY DEF PairOK
<1>4. p.fd = fd /\ p.s = "idle" /\ p.life = "accepted" OBVIOUS
<1>5. conns \in Seq(Pairs) BY DEF TableInv, PairsOK
<1> HIDE DEF p
<1>6. /\ conns' \in Seq(Pairs) /\ Len(conns') = n /\ conns'[n] = p
      /\ \A j \in 1 .. Len(conns) : conns'[j] = conns[j]
  BY <1>1, <1>2, <1>5, AppendProperties DEF p
<1>7. Len(conns) \in Nat /\ DOMAIN conns = 1 .. Len(conns) /\ DOMAIN conns' = 1 .. n
  BY <1>5, <1>6, DomainOfSeq
<1> HIDE DEF n
<1>8. DOMAIN conns' = DOMAIN conns \cup {n} /\ n \notin DOMAIN conns
  BY <1>7 DEF n
<1>9. \A j \in DOMAIN conns : conns'[j] = conns[j] BY <1>6, <1>7
<1>10. Open' = Open \cup {n}
  BY <1>4, <1>6, <1>8, <1>9 DEF Open
<1>11. UNCHANGED <<ssls, map, left, victims, faults>> BY DEF Accept, history
<1>12. PairsOK'
  <2>1. \A j \in DOMAIN conns' : PairOK(conns'[j])
    BY <1>3, <1>6, <1>8, <1>9 DEF TableInv, PairsOK
  <2>2. \A j \in Open : conns'[j].fd # fd
    BY <1>1, <1>9 DEF Open
  <2>3. \A j, k \in Open' : conns'[j].fd = conns'[k].fd => j = k
    BY <1>4, <1>6, <1>9, <1>10, <2>2 DEF TableInv, PairsOK, Open
  <2>4. QED BY <1>6, <2>1, <2>3 DEF PairsOK
<1>13. EntriesOK'
  BY <1>4, <1>6, <1>9, <1>10, <1>11 DEF TableInv, EntriesOK, EntryOK, Open
<1>14. HurtOK'
  <2>1. \A j \in Open : conns'[j].fd = conns[j].fd /\ j \in Open' BY <1>9, <1>10 DEF Open
  <2>2. Stray' \subseteq Stray BY <1>11, <2>1, StrayKept
  <2>3. left \subseteq DOMAIN conns' \ Open' /\ victims \subseteq DOMAIN conns'
    BY <1>8, <1>10 DEF TableInv, HurtOK
  <2>4. QED BY <1>11, <2>2, <2>3, HurtKept
<1>15. QED
  BY <1>11, <1>12, <1>13, <1>14 DEF TableInv, NodeOutlivesHandlers

LEMMA HandshakeKeeps ==
  ASSUME TableInv, NEW i \in DOMAIN conns, NEW connected \in BOOLEAN,
         Handshake(i, connected)
  PROVE  TableInv'
<1> DEFINE e == Entry(i)
           p == [conns[i] EXCEPT !.ssl = e]
<1>1. conns[i] \in Pairs /\ PairOK(conns[i]) BY PairTyped
<1>2. Exact(Ssls(i), Mapped(i)) /\ e \in DOMAIN Ssls(i) BY EnsuredExact
<1>3. Ssls(i) \in Seq(SslConnections) /\ e \in Nat
  <2>1. Ssls(i) \in Seq(SslConnections) BY <1>2 DEF Exact
  <2>2. QED BY <1>2, <2>1, DomainOfSeq
<1>4. conns[i].life = "accepted" /\ conns[i].s = "idle" /\ i \in Open
  BY DEF Handshake, Unbound, Open
<1> HIDE DEF e
<1>5. p \in Pairs /\ PairOK(p) /\ p.fd = conns[i].fd /\ p.life = "accepted"
      /\ p.s = "idle" /\ p.ssl = e
  BY <1>1, <1>3, <1>4 DEF Pairs, PairOK
<1>6. conns' = [conns EXCEPT ![i] = p] BY DEF Handshake, e
<1>7. SameLives(Ssls(i), ssls')
  <2>1. ssls' = [Ssls(i) EXCEPT ![e].connected = connected] BY DEF Handshake, e
  <2>2. QED BY <1>2, <1>3, <2>1, StateChanges
<1>8. map' = Mapped(i) /\ left' = left /\ victims' = Victims(i) /\ faults' = {}
  BY DEF Handshake, TableInv, NodeOutlivesHandlers
<1> HIDE DEF p
<1>9. QED BY <1>4, <1>5, <1>6, <1>7, <1>8, MakingStep DEF e

LEMMA BindPairKeeps ==
  ASSUME TableInv, NEW i \in DOMAIN conns, BindPair(i) PROVE TableInv'
<1> DEFINE e == Entry(i)
           p == [conns[i] EXCEPT !.life = "bound", !.ssl = e, !.s = "looked",
                                 !.c = "idle", !.node = "live",
                                 !.server = TRUE, !.client = TRUE]
<1>1. conns[i] \in Pairs /\ PairOK(conns[i]) BY PairTyped
<1>2. Exact(Ssls(i), Mapped(i)) /\ e \in DOMAIN Ssls(i) /\ e # 0 BY EnsuredExact
<1>3. Ssls(i) \in Seq(SslConnections) /\ e \in Nat
  <2>1. Ssls(i) \in Seq(SslConnections) BY <1>2 DEF Exact
  <2>2. QED BY <1>2, <2>1, DomainOfSeq
<1>4. i \in Open BY DEF BindPair, Unbound, Open
<1> HIDE DEF e
<1>5. /\ p \in Pairs /\ p.fd = conns[i].fd /\ p.life = "bound" /\ p.s = "looked"
      /\ p.ssl = e /\ p.c = "idle" /\ p.node = "live" /\ p.server /\ p.client
  BY <1>1, <1>3 DEF Pairs, Lives, SSteps, CSteps, Nodes
<1>6. PairOK(p) BY <1>2, <1>5 DEF PairOK
<1>7. conns' = [conns EXCEPT ![i] = p] BY DEF BindPair, e
<1>8. SameLives(Ssls(i), ssls')
  <2>1. ssls' = [Ssls(i) EXCEPT ![e].connected = TRUE] BY DEF BindPair, e
  <2>2. QED BY <1>2, <1>3, <2>1, StateChanges
<1>9. map' = Mapped(i) /\ left' = left /\ victims' = Victims(i) /\ faults' = {}
  BY DEF BindPair, TableInv, NodeOutlivesHandlers
<1> HIDE DEF p
<1>10. QED BY <1>4, <1>5, <1>6, <1>7, <1>8, <1>9, MakingStep DEF e

LEMMA FailureKeeps ==
  ASSUME TableInv, NEW i \in DOMAIN conns, HandshakeFails(i) PROVE TableInv'
<1> DEFINE e == Entry(i)
           d == conns[i].fd
           p == [conns[i] EXCEPT !.s = "failed", !.ssl = 0]
<1>1. conns[i] \in Pairs /\ PairOK(conns[i]) BY PairTyped
<1>2. /\ Exact(Ssls(i), Mapped(i)) /\ e \in DOMAIN Ssls(i) /\ e # 0
      /\ Mapped(i)[d] = e /\ \A fd \in Fds \ {d} : Mapped(i)[fd] = map[fd]
      /\ DOMAIN ssls \subseteq DOMAIN Ssls(i) /\ \A k \in DOMAIN ssls : Ssls(i)[k] = ssls[k]
      /\ DOMAIN Ssls(i) \ {e} \subseteq DOMAIN ssls /\ (map[d] # 0 => e = map[d])
  BY EnsuredExact
<1>3. Ssls(i) \in Seq(SslConnections) BY <1>2 DEF Exact
<1>4. conns[i].life = "accepted" /\ conns[i].s = "idle" /\ i \in Open
  BY DEF HandshakeFails, Unbound, Open
<1>5. p \in Pairs /\ PairOK(p) /\ p.fd = d /\ p.life = "accepted" /\ p.s = "failed"
  BY <1>1, <1>4 DEF Pairs, PairOK, SSteps
<1>6. conns' = [conns EXCEPT ![i] = p] BY DEF HandshakeFails
<1>7. Ended(Ssls(i), e, ssls')
  <2>1. ssls' = [Ssls(i) EXCEPT ![e].live = FALSE] BY DEF HandshakeFails
  <2> HIDE DEF e
  <2>2. QED BY <1>2, <1>3, <2>1, LifeEnds
<1>8. map' = [Mapped(i) EXCEPT ![d] = 0] /\ left' = left /\ victims' = Victims(i) /\ faults' = {}
  BY DEF HandshakeFails, Erase, TableInv, NodeOutlivesHandlers
<1>9. d \in Fds /\ d = conns[i].fd BY PairTyped
<1> HIDE DEF p, e, d
<1>10. QED
  BY <1>2, <1>4, <1>5, <1>6, <1>7, <1>8, <1>9, EndingStep

\* The handlers that end the server half find its entry in the map.
LEMMA ServerHolds ==
  ASSUME TableInv, NEW i \in DOMAIN conns, ServerHas(i)
  PROVE  /\ conns[i].life = "bound" /\ conns[i].s = "looked" /\ i \in Open
         /\ conns[i].server /\ map[conns[i].fd] = conns[i].ssl /\ conns[i].ssl # 0
         /\ NodeFault(i) = {}
<1>1. conns[i] \in Pairs /\ PairOK(conns[i]) BY PairTyped
<1>2. conns[i].s = "looked" BY DEF ServerHas
<1>3. conns[i].life = "bound" BY <1>1, <1>2 DEF PairOK, Pairs, Lives
<1>4. i \in Open BY <1>3 DEF Open
<1>5. EntryOK(i) BY <1>4 DEF TableInv, EntriesOK
<1>6. conns[i].server /\ conns[i].ssl # 0 /\ conns[i].node # "deleted"
  BY <1>1, <1>2, <1>3 DEF PairOK
<1>7. QED BY <1>2, <1>3, <1>4, <1>5, <1>6 DEF EntryOK, NodeFault, If

\* deleteProxyNode: the node goes with the second half.
LEMMA DeletedOK ==
  ASSUME NEW p \in Pairs, ~p.server \/ ~p.client, p.node = "live"
  PROVE  LET q == Deleted(p) IN
         /\ q \in Pairs /\ q.fd = p.fd /\ q.life = p.life /\ q.ssl = p.ssl /\ q.s = p.s
         /\ q.c = p.c /\ q.server = p.server /\ q.client = p.client
         /\ q.node \in {"live", "deleted"}
         /\ q.node = "deleted" => ~q.server /\ ~q.client
<1>1. CASE p.server \/ p.client BY <1>1 DEF Deleted
<1>2. CASE ~(p.server \/ p.client) BY <1>2 DEF Deleted, Pairs, Nodes
<1>3. QED BY <1>1, <1>2

\* One entry is erased, with the SSLConnection it has.
LEMMA EraseKeeps ==
  ASSUME TableInv, NEW i \in DOMAIN conns, ServerHas(i), NEW p \in Pairs, PairOK(p),
         p.fd = conns[i].fd, p.life = "bound", p.s \in {"ended", "closed"},
         conns' = [conns EXCEPT ![i] = p], map' = Erase(i, map),
         ssls' = [ssls EXCEPT ![map[conns[i].fd]].live = FALSE], left' = left,
         victims' = Victims(i), faults' = {}
  PROVE  TableInv'
<1> DEFINE d == conns[i].fd
           e == map[d]
<1>1. i \in Open /\ e # 0 /\ d \in Fds BY ServerHolds, PairTyped
<1>2. Exact(ssls, map) BY DEF TableInv
<1>3. ssls \in Seq(SslConnections) /\ e \in DOMAIN ssls BY <1>1, <1>2 DEF Exact
<1>4. Ended(ssls, e, ssls')
  <2>1. ssls' = [ssls EXCEPT ![e].live = FALSE] OBVIOUS
  <2> HIDE DEF e
  <2>2. QED BY ZenonT(60), <1>3, <2>1, LifeEnds
<1>5. map' = [map EXCEPT ![d] = 0] BY DEF Erase
<1>6. p.fd = d /\ d = conns[i].fd /\ e = map[d] OBVIOUS
<1> HIDE DEF d, e
<1>7. QED BY ZenonT(60), <1>1, <1>2, <1>4, <1>5, <1>6, EndingStep

LEMMA ServerEndsKeeps ==
  ASSUME TableInv, NEW i \in DOMAIN conns, ServerEnds(i) PROVE TableInv'
<1> DEFINE p == [conns[i] EXCEPT !.s = "ended"]
<1>1. conns[i] \in Pairs /\ PairOK(conns[i]) BY PairTyped
<1>2. ServerHas(i) BY DEF ServerEnds
<1>3. /\ conns[i].life = "bound" /\ conns[i].s = "looked"
      /\ map[conns[i].fd] # 0 /\ NodeFault(i) = {}
  BY <1>2, ServerHolds
<1>4. p \in Pairs /\ PairOK(p) /\ p.fd = conns[i].fd /\ p.life = "bound" /\ p.s = "ended"
  BY <1>1, <1>3 DEF Pairs, PairOK, SSteps
<1>5. /\ conns' = [conns EXCEPT ![i] = p] /\ map' = Erase(i, map)
      /\ ssls' = [ssls EXCEPT ![map[conns[i].fd]].live = FALSE] /\ left' = left
      /\ victims' = Victims(i)
  BY <1>3 DEF ServerEnds
<1>6. faults' = {} BY <1>3 DEF ServerEnds, If, TableInv, NodeOutlivesHandlers
<1> HIDE DEF p
<1>7. QED BY <1>2, <1>4, <1>5, <1>6, EraseKeeps

LEMMA ServerCloseKeeps ==
  ASSUME TableInv, NEW i \in DOMAIN conns, ServerClose(i) PROVE TableInv'
<1> DEFINE q == [conns[i] EXCEPT !.s = "closed", !.ssl = 0, !.server = FALSE]
           p == Deleted(q)
<1>1. conns[i] \in Pairs /\ PairOK(conns[i]) BY PairTyped
<1>2. ServerHas(i) BY DEF ServerClose
<1>3. /\ conns[i].life = "bound" /\ conns[i].s = "looked" /\ conns[i].server
      /\ map[conns[i].fd] # 0 /\ NodeFault(i) = {}
  BY <1>2, ServerHolds
<1>4. conns[i].node = "live"
  BY <1>1, <1>3 DEF Pairs, PairOK, Nodes
<1>5. /\ q \in Pairs /\ q.fd = conns[i].fd /\ q.life = "bound" /\ q.s = "closed"
      /\ ~q.server /\ q.client = conns[i].client /\ q.c = conns[i].c /\ q.node = "live"
  BY <1>1, <1>3, <1>4 DEF Pairs, SSteps
<1>6. /\ conns' = [conns EXCEPT ![i] = p] /\ map' = Erase(i, map)
      /\ ssls' = [ssls EXCEPT ![map[conns[i].fd]].live = FALSE]
      /\ left' = left /\ victims' = Victims(i)
  BY <1>3 DEF ServerClose
<1>7. faults' = {} BY <1>3 DEF ServerClose, TableInv, NodeOutlivesHandlers
<1> HIDE DEF q
<1>8. /\ p \in Pairs /\ p.fd = conns[i].fd /\ p.life = "bound" /\ p.s = "closed"
      /\ p.c = conns[i].c /\ ~p.server /\ p.client = conns[i].client
      /\ p.node \in {"live", "deleted"}
      /\ p.node = "deleted" => ~p.server /\ ~p.client
  BY <1>5, DeletedOK
<1> HIDE DEF p
<1>9. PairOK(p) BY <1>1, <1>3, <1>4, <1>8 DEF PairOK
<1>10. QED BY <1>2, <1>6, <1>7, <1>8, <1>9, EraseKeeps

\* A thread looks the node up, or passes data on.
LEMMA PassingKeeps ==
  ASSUME TableInv, NEW i \in DOMAIN conns,
         ServerLooks(i) \/ ClientLooks(i) \/ ServerPasses(i) \/ ClientPasses(i)
  PROVE  TableInv'
<1> DEFINE e == map[conns[i].fd]
<1>1. conns[i] \in Pairs /\ PairOK(conns[i]) BY PairTyped
<1>2. i \in Open => EntryOK(i) BY DEF TableInv, EntriesOK
<1>3. faults = {} BY DEF TableInv, NodeOutlivesHandlers
<1>4. conns[i].life \in {"accepted", "bound"} => i \in Open BY DEF Open
<1>5. CASE ServerLooks(i)
  <2> DEFINE p == [conns[i] EXCEPT !.s = "looked"]
  <2>1. conns[i].life = "bound" /\ conns[i].s = "idle" BY <1>5 DEF ServerLooks
  <2>2. conns[i].node # "deleted" BY <1>1, <2>1 DEF PairOK
  <2>3. /\ p \in Pairs /\ PairOK(p) /\ p.fd = conns[i].fd /\ p.life = "bound"
        /\ p.s = "looked" /\ p.ssl = conns[i].ssl
    BY <1>1, <2>1 DEF Pairs, PairOK, SSteps
  <2>4. conns' = [conns EXCEPT ![i] = p] /\ UNCHANGED <<ssls, map, left, victims>> /\ faults' = {}
    BY <1>3, <1>5, <2>2 DEF ServerLooks, If, history
  <2>5. map[p.fd] = p.ssl BY <1>2, <1>4, <2>1, <2>3 DEF EntryOK
  <2> HIDE DEF p
  <2>6. QED BY <1>4, <2>1, <2>3, <2>4, <2>5, LoneStep
<1>6. CASE ServerPasses(i)
  <2> DEFINE p == [conns[i] EXCEPT !.s = "idle"]
  <2>1. /\ conns[i].life = "bound" /\ conns[i].s = "looked" /\ i \in Open
        /\ e = conns[i].ssl /\ e # 0 /\ NodeFault(i) = {}
    BY <1>6, ServerHolds DEF ServerPasses
  <2>2. /\ p \in Pairs /\ PairOK(p) /\ p.fd = conns[i].fd /\ p.life = "bound"
        /\ p.s = "idle" /\ p.ssl = conns[i].ssl
    BY <1>1, <2>1 DEF Pairs, PairOK, SSteps
  <2>3. /\ conns' = [conns EXCEPT ![i] = p] /\ UNCHANGED <<ssls, map, left>>
        /\ victims' = Victims(i) /\ faults' = {}
    BY <1>3, <1>6, <2>1 DEF ServerPasses, If
  <2>4. map[p.fd] = p.ssl BY <2>1, <2>2
  <2> HIDE DEF p, e
  <2>5. QED BY <2>1, <2>2, <2>3, <2>4, LoneStep
<1>7. ASSUME NEW step \in {"idle", "looked"}, conns[i].c \in {"idle", "looked"},
             conns' = [conns EXCEPT ![i].c = step],
             UNCHANGED <<ssls, map, left>>, faults' = {},
             victims' = victims \/ (i \in Open /\ victims' = Victims(i))
      PROVE  TableInv'
  <2> DEFINE p == [conns[i] EXCEPT !.c = step]
  <2>1. /\ p \in Pairs /\ p.fd = conns[i].fd /\ p.life = conns[i].life /\ p.c = step
        /\ p.s = conns[i].s /\ p.ssl = conns[i].ssl /\ p.node = conns[i].node
        /\ p.server = conns[i].server /\ p.client = conns[i].client
    BY <1>1 DEF Pairs, CSteps
  <2>2. conns' = [conns EXCEPT ![i] = p] BY <1>7
  <2> HIDE DEF p
  <2>3. PairOK(p) BY <1>1, <1>7, <2>1 DEF PairOK
  <2>4. p.life # "gone" <=> i \in Open BY <2>1 DEF Open
  <2>5. /\ p.life # "gone" /\ p.s \in {"failed", "ended", "closed"} => map[p.fd] = 0
        /\ p.life = "bound" /\ p.s \in {"idle", "looked"} => map[p.fd] = p.ssl
    BY <1>2, <2>1, <2>4 DEF EntryOK
  <2>6. QED BY <1>7, <2>1, <2>2, <2>3, <2>4, <2>5, LoneStep
<1>8. CASE ClientLooks(i)
  <2>1. conns[i].c = "idle" BY <1>8 DEF ClientLooks
  <2>2. conns[i].node # "deleted" BY <1>1, <2>1 DEF PairOK
  <2>3. /\ conns' = [conns EXCEPT ![i].c = "looked"]
        /\ UNCHANGED <<ssls, map, left, victims>> /\ faults' = {}
    BY <1>3, <1>8, <2>2 DEF ClientLooks, If, history
  <2>4. QED BY <1>7, <2>1, <2>3
<1>9. CASE ClientPasses(i)
  <2>1. conns[i].c = "looked" /\ conns[i].server /\ conns[i].s # "ended"
    BY <1>9 DEF ClientPasses, ClientHas, Unlocked
  <2>2. /\ conns[i].node # "deleted" /\ conns[i].life = "bound"
        /\ conns[i].s \in {"idle", "looked"} /\ conns[i].ssl # 0
    BY <1>1, <2>1 DEF PairOK
  <2>3. e # 0 BY <1>2, <1>4, <2>2 DEF EntryOK
  <2>4. /\ conns' = [conns EXCEPT ![i].c = "idle"]
        /\ UNCHANGED <<ssls, map, left>> /\ faults' = {}
        /\ i \in Open /\ victims' = Victims(i)
    BY <1>3, <1>4, <1>9, <2>2, <2>3 DEF ClientPasses, NodeFault, If
  <2>5. QED BY <1>7, <2>1, <2>4
<1>10. QED BY <1>5, <1>6, <1>8, <1>9

\* A half ends, and with the second one the node.
LEMMA EndKeeps ==
  ASSUME TableInv, NEW i \in DOMAIN conns,
         ServerDestroyed(i) \/ ServerClosed(i) \/ ClientEnds(i)
  PROVE  TableInv'
<1>1. conns[i] \in Pairs /\ PairOK(conns[i]) BY PairTyped
<1>2. i \in Open => EntryOK(i) BY DEF TableInv, EntriesOK
<1>3. faults = {} BY DEF TableInv, NodeOutlivesHandlers
<1>4. CASE ServerDestroyed(i) /\ conns[i].s = "failed"
  <2> DEFINE p == [conns[i] EXCEPT !.life = "gone", !.s = "idle"]
  <2>1. conns[i].life = "accepted" /\ i \in Open
    BY <1>1, <1>4 DEF PairOK, Pairs, Lives, Open
  <2>2. /\ p \in Pairs /\ PairOK(p) /\ p.fd = conns[i].fd /\ p.life = "gone"
    BY <1>1, <2>1 DEF Pairs, PairOK, SSteps, Lives
  <2>3. conns' = [conns EXCEPT ![i] = p] /\ UNCHANGED <<ssls, map, left, victims>> /\ faults' = {}
    BY <1>3, <1>4 DEF ServerDestroyed, history
  <2>4. map[p.fd] = 0 BY <1>2, <1>4, <2>1, <2>2 DEF EntryOK
  <2> HIDE DEF p
  <2>5. QED BY <2>2, <2>3, <2>4, LoneStep
<1>5. CASE ServerDestroyed(i) /\ conns[i].s = "ended"
  <2> DEFINE q == [conns[i] EXCEPT !.life = "gone", !.s = "idle", !.ssl = 0, !.server = FALSE]
             p == Deleted(q)
  <2>1. conns[i].life = "bound" /\ i \in Open /\ conns[i].node = "live"
    BY <1>1, <1>5 DEF PairOK, Pairs, Lives, Nodes, Open
  <2>2. /\ q \in Pairs /\ q.fd = conns[i].fd /\ q.life = "gone" /\ q.s = "idle"
        /\ ~q.server /\ q.client = conns[i].client /\ q.c = conns[i].c /\ q.node = "live"
    BY <1>1, <2>1 DEF Pairs, SSteps, Lives
  <2>3. conns' = [conns EXCEPT ![i] = p] /\ UNCHANGED <<ssls, map, left, victims>> /\ faults' = {}
    BY <1>3, <1>5 DEF ServerDestroyed, history
  <2> HIDE DEF q
  <2>4. /\ p \in Pairs /\ p.fd = conns[i].fd /\ p.life = "gone" /\ p.s = "idle"
        /\ p.c = conns[i].c /\ ~p.server /\ p.client = conns[i].client
        /\ p.node \in {"live", "deleted"} /\ (p.node = "deleted" => ~p.server /\ ~p.client)
    BY <2>2, DeletedOK
  <2> HIDE DEF p
  <2>5. PairOK(p) BY <1>1, <2>1, <2>4 DEF PairOK
  <2>6. map[p.fd] = 0 BY <1>2, <1>5, <2>1, <2>4 DEF EntryOK
  <2>7. QED BY <2>3, <2>4, <2>5, <2>6, LoneStep
<1>6. CASE ServerClosed(i)
  <2> DEFINE p == [conns[i] EXCEPT !.life = "gone", !.s = "idle"]
  <2>1. conns[i].s = "closed" BY <1>6 DEF ServerClosed
  <2>2. conns[i].life = "bound" /\ i \in Open
    BY <1>1, <2>1 DEF PairOK, Pairs, Lives, Open
  <2>3. /\ p \in Pairs /\ PairOK(p) /\ p.fd = conns[i].fd /\ p.life = "gone"
    BY <1>1, <2>1, <2>2 DEF Pairs, PairOK, SSteps, Lives
  <2>4. conns' = [conns EXCEPT ![i] = p] /\ UNCHANGED <<ssls, map, left, victims>> /\ faults' = {}
    BY <1>3, <1>6 DEF ServerClosed, history
  <2>5. map[p.fd] = 0 BY <1>2, <2>1, <2>2, <2>3 DEF EntryOK
  <2> HIDE DEF p
  <2>6. QED BY <2>3, <2>4, <2>5, LoneStep
<1>7. CASE ClientEnds(i)
  <2> DEFINE q == [conns[i] EXCEPT !.c = "gone", !.client = FALSE]
             p == Deleted(q)
  <2>1. conns[i].c = "looked" BY <1>7 DEF ClientEnds, ClientHas
  <2>2. conns[i].node = "live" BY <1>1, <2>1 DEF PairOK, Pairs, Nodes
  <2>3. /\ q \in Pairs /\ q.fd = conns[i].fd /\ q.life = conns[i].life
        /\ q.s = conns[i].s /\ q.ssl = conns[i].ssl /\ q.server = conns[i].server
        /\ ~q.client /\ q.c = "gone" /\ q.node = "live"
    BY <1>1, <2>2 DEF Pairs, CSteps
  <2>4. conns' = [conns EXCEPT ![i] = p] /\ UNCHANGED <<ssls, map, left, victims>> /\ faults' = {}
    BY <1>3, <1>7, <2>2 DEF ClientEnds, NodeFault, If, history
  <2> HIDE DEF q
  <2>5. /\ p \in Pairs /\ p.fd = conns[i].fd /\ p.life = conns[i].life
        /\ p.s = conns[i].s /\ p.ssl = conns[i].ssl /\ p.server = conns[i].server
        /\ ~p.client /\ p.c = "gone"
        /\ p.node \in {"live", "deleted"} /\ (p.node = "deleted" => ~p.server /\ ~p.client)
    BY <2>3, DeletedOK
  <2> HIDE DEF p
  <2>6. PairOK(p) BY <1>1, <2>2, <2>5 DEF PairOK
  <2>7. p.life # "gone" <=> i \in Open BY <2>5 DEF Open
  <2>8. /\ p.life # "gone" /\ p.s \in {"failed", "ended", "closed"} => map[p.fd] = 0
        /\ p.life = "bound" /\ p.s \in {"idle", "looked"} => map[p.fd] = p.ssl
    BY <1>2, <2>5, <2>7 DEF EntryOK
  <2>9. QED BY <2>4, <2>5, <2>6, <2>7, <2>8, LoneStep
<1>8. QED BY <1>4, <1>5, <1>6, <1>7 DEF ServerDestroyed

\* A browser leaves its SSLConnection in the map.
LEMMA LeaveKeeps ==
  ASSUME TableInv, NEW i \in DOMAIN conns, LeaveUnbound(i) PROVE TableInv'
<1>0. PICK d : d = conns[i].fd OBVIOUS
<1> DEFINE e == map[d]
           p == [conns[i] EXCEPT !.life = "gone", !.ssl = 0]
<1>1. conns[i] \in Pairs /\ PairOK(conns[i]) /\ d \in Fds BY <1>0, PairTyped
<1>2. conns[i].life = "accepted" /\ conns[i].s = "idle" BY DEF LeaveUnbound, Unbound
<1>3. /\ p \in Pairs /\ PairOK(p) /\ p.fd = d /\ p.life = "gone"
  BY <1>0, <1>1, <1>2 DEF Pairs, PairOK, Lives
<1>4. conns' = [conns EXCEPT ![i] = p] BY DEF LeaveUnbound
<1>5. /\ UNCHANGED <<ssls, map, victims, faults>>
      /\ left' = IF e = 0 THEN left ELSE left \cup {i}
  BY <1>0 DEF LeaveUnbound
<1>6. e # 0 => e \in DOMAIN ssls /\ ssls[e].live BY <1>1 DEF TableInv, Exact
<1> HIDE DEF p, e
<1>7. /\ PairsOK' /\ DOMAIN conns' = DOMAIN conns /\ conns'[i] = p
      /\ \A j \in DOMAIN conns \ {i} : conns'[j] = conns[j]
      /\ i \notin Open'
      /\ Open' \subseteq Open /\ Open \ {i} \subseteq Open'
  BY <1>0, <1>3, <1>4, PairStep
<1>8. EntriesOK'
  BY <1>0, <1>3, <1>5, <1>7, EntriesStep
<1>9. \A j \in Open : j = i \/ j \in Open' BY <1>7
<1>10. \A j \in Open : conns'[j].fd = conns[j].fd BY <1>0, <1>3, <1>7 DEF Open
<1>11. left \subseteq DOMAIN conns' \ Open' /\ victims' \subseteq DOMAIN conns'
  BY <1>5, <1>7 DEF TableInv, HurtOK
<1>12. HurtOK'
  <2>1. CASE e = 0
    <3>1. map[conns[i].fd] = 0 BY <1>0, <2>1 DEF e
    <3>2. Stray' \subseteq Stray BY <1>5, <1>9, <1>10, <3>1, StrayKept
    <3>3. QED BY <1>5, <1>11, <2>1, <3>2, HurtKept
  <2>2. CASE e # 0
    <3>1. i \in Open /\ i \notin left
      BY <1>2 DEF Open, TableInv, HurtOK
    <3>2. Stray' \subseteq Stray \cup {e}
      <4> SUFFICES ASSUME NEW k \in Stray', k # e PROVE k \in Stray
        OBVIOUS
      <4>1. map[conns[i].fd] # k BY <1>0 DEF e
      <4>2. k \in DOMAIN ssls /\ ssls[k].live
            /\ \A j \in Open' : map[conns'[j].fd] = k => ssls[k].for # j /\ j \notin victims
        BY <1>5 DEF Stray, Stale
      <4>3. \A j \in Open : map[conns[j].fd] = k => ssls[k].for # j /\ j \notin victims
        BY <1>9, <1>10, <4>1, <4>2
      <4>4. QED BY <4>2, <4>3 DEF Stray, Stale
    <3>3. /\ Cardinality(left \cup {i}) = Cardinality(left) + 1
          /\ Cardinality(Stray \cup {e}) \in {Cardinality(Stray), Cardinality(Stray) + 1}
          /\ IsFiniteSet(Stray \cup {e})
      BY <3>1, Finite, FS_AddElement
    <3>4. /\ Cardinality(Stray') \in Nat
          /\ Cardinality(Stray') <= Cardinality(Stray \cup {e})
      BY <3>2, <3>3, FS_Subset, FS_CardinalityType
    <3>5. Cardinality(victims) + Cardinality(Stray) <= Cardinality(left)
      BY DEF TableInv, HurtOK
    <3>6. Cardinality(victims') + Cardinality(Stray') <= Cardinality(left')
      BY <1>5, <2>2, <3>3, <3>4, <3>5, Finite
    <3>7. left' \subseteq DOMAIN conns' \ Open' BY <1>5, <1>7, <1>11, <2>2
    <3>8. QED BY <1>11, <3>6, <3>7 DEF HurtOK
  <2>3. QED BY <2>1, <2>2
<1>13. QED
  BY <1>5, <1>7, <1>8, <1>12 DEF TableInv, NodeOutlivesHandlers

LEMMA TableInit == Init => TableInv
<1> SUFFICES ASSUME Init PROVE TableInv
  OBVIOUS
<1>1. conns = <<>> /\ ssls = <<>> /\ map = [fd \in Fds |-> 0]
      /\ left = {} /\ victims = {} /\ faults = {}
  BY DEF Init
<1>2. PairsOK BY <1>1 DEF PairsOK, Open
<1>3. Exact(ssls, map) BY <1>1 DEF Exact
<1>4. EntriesOK BY <1>1 DEF EntriesOK, Open
<1>5. HurtOK
  <2>1. Stray = {} BY <1>1 DEF Stray
  <2>2. QED BY <1>1, <2>1, FS_EmptySet DEF HurtOK
<1>6. QED BY <1>1, <1>2, <1>3, <1>4, <1>5 DEF TableInv, NodeOutlivesHandlers

LEMMA TableStep == TableInv /\ [Next]_vars => TableInv'
<1> SUFFICES ASSUME TableInv, [Next]_vars PROVE TableInv'
  OBVIOUS
<1>1. CASE UNCHANGED vars
  BY <1>1
  DEF vars, TableInv, PairsOK, EntriesOK, HurtOK, NodeOutlivesHandlers, EntryOK,
      Stray, Stale, Open
<1>2. CASE Accept BY <1>2, AcceptKeeps
<1>3. ASSUME NEW i \in DOMAIN conns, ServerThread(i) PROVE TableInv'
  BY <1>3, HandshakeKeeps, FailureKeeps, BindPairKeeps, LeaveKeeps, PassingKeeps,
     ServerEndsKeeps, ServerCloseKeeps, EndKeeps
  DEF ServerThread
<1>4. ASSUME NEW i \in DOMAIN conns, ClientThread(i) PROVE TableInv'
  BY <1>4, PassingKeeps, EndKeeps DEF ClientThread
<1>5. QED BY <1>1, <1>2, <1>3, <1>4 DEF Next

-----------------------------------------------------------------------------
(* The ranges of what pairs, SSLConnections and the map refer to *)

RangeInv ==
  /\ Len(conns) <= MaxConnections
  /\ \A i \in DOMAIN conns : conns[i].ssl \in 0 .. Len(ssls)
  /\ \A e \in DOMAIN ssls : ssls[e].for \in DOMAIN conns

\* Pair i refers to what it did, to nothing, or to an SSLConnection there is
\* now; those that were made are for a connection that is known.
LEMMA RangeStep ==
  ASSUME TableInv, TableInv', RangeInv, NEW i \in DOMAIN conns, NEW p,
         conns' = [conns EXCEPT ![i] = p],
         p.ssl = conns[i].ssl \/ p.ssl = 0 \/ p.ssl \in DOMAIN ssls',
         DOMAIN ssls \subseteq DOMAIN ssls',
         \A e \in DOMAIN ssls' : ssls'[e].for = i \/ (e \in DOMAIN ssls /\ ssls'[e].for = ssls[e].for)
  PROVE  RangeInv'
<1>1. /\ conns \in Seq(Pairs) /\ conns' \in Seq(Pairs) /\ ssls \in Seq(SslConnections)
      /\ ssls' \in Seq(SslConnections)
  BY DEF TableInv, PairsOK, Exact
<1>2. /\ Len(ssls) \in Nat /\ DOMAIN ssls = 1 .. Len(ssls) /\ Len(ssls') \in Nat
      /\ DOMAIN ssls' = 1 .. Len(ssls') /\ Len(conns) \in Nat /\ Len(conns') \in Nat
      /\ DOMAIN conns = 1 .. Len(conns) /\ DOMAIN conns' = 1 .. Len(conns')
  BY <1>1, DomainOfSeq
<1>3. Len(ssls) <= Len(ssls') BY <1>2
<1>4. DOMAIN conns' = DOMAIN conns /\ conns'[i] = p /\ \A j \in DOMAIN conns \ {i} : conns'[j] = conns[j]
  OBVIOUS
<1>5. Len(conns') = Len(conns) BY <1>2, <1>4
<1>6. ASSUME NEW j \in DOMAIN conns PROVE conns'[j].ssl \in 0 .. Len(ssls')
  <2>1. conns[j].ssl \in 0 .. Len(ssls) BY DEF RangeInv
  <2>2. CASE j = i BY <1>2, <1>3, <1>4, <2>1, <2>2
  <2>3. CASE j # i BY <1>2, <1>3, <1>4, <2>1, <2>3
  <2>4. QED BY <2>2, <2>3
<1>7. \A e \in DOMAIN ssls' : ssls'[e].for \in DOMAIN conns' BY <1>4 DEF RangeInv
<1>8. QED BY <1>4, <1>5, <1>6, <1>7 DEF RangeInv

\* An SSLConnection changes its state or ends; none is made.
LEMMA RangeKept ==
  ASSUME NEW s \in Seq(SslConnections), NEW r,
         r = s \/ \E e \in DOMAIN s : SameLives(s, r) \/ Ended(s, e, r)
  PROVE  DOMAIN r = DOMAIN s /\ \A e \in DOMAIN s : r[e].for = s[e].for
BY DEF SameLives, Ended

\* handleProxyHandshake may make an SSLConnection, for its own connection.
LEMMA RangeMakes ==
  ASSUME TableInv, TableInv', RangeInv, NEW i \in DOMAIN conns,
         \/ \E connected \in BOOLEAN : Handshake(i, connected)
         \/ HandshakeFails(i) \/ BindPair(i)
  PROVE  RangeInv'
<1> DEFINE s == Ssls(i)
           e == Entry(i)
<1>1. /\ s \in Seq(SslConnections) /\ e \in DOMAIN s
      /\ DOMAIN ssls \subseteq DOMAIN s /\ \A k \in DOMAIN ssls : s[k] = ssls[k]
  BY EnsuredExact DEF Exact
<1>2. \A k \in DOMAIN s : s[k].for = i \/ (k \in DOMAIN ssls /\ s[k].for = ssls[k].for)
  <2>1. CASE map[conns[i].fd] = 0
    <3> DEFINE new == [for |-> i, connected |-> FALSE, live |-> TRUE]
    <3>1. s = Append(ssls, new) /\ new.for = i BY <2>1 DEF Ssls
    <3>2. ssls \in Seq(SslConnections) BY DEF TableInv, Exact
    <3>3. new \in SslConnections BY DomainOfSeq DEF SslConnections, TableInv, PairsOK
    <3> HIDE DEF new
    <3>4. s[Len(ssls) + 1] = new /\ Len(s) = Len(ssls) + 1 BY <3>1, <3>2, <3>3, AppendProperties
    <3> HIDE DEF s
    <3>5. \A k \in DOMAIN s : k \in DOMAIN ssls \/ k = Len(ssls) + 1
      BY <1>1, <3>2, <3>4, DomainOfSeq
    <3>6. QED BY <1>1, <3>1, <3>4, <3>5
  <2>2. CASE map[conns[i].fd] # 0 BY <2>2 DEF Ssls
  <2>3. QED BY <2>1, <2>2
<1>3. CASE \E connected \in BOOLEAN : Handshake(i, connected)
  <2>1. PICK connected \in BOOLEAN : Handshake(i, connected) BY <1>3
  <2> DEFINE p == [conns[i] EXCEPT !.ssl = e]
  <2>2. conns' = [conns EXCEPT ![i] = p] /\ p.ssl = e
    BY <2>1, PairTyped DEF Handshake, Pairs
  <2>3. SameLives(s, ssls')
    <3>1. ssls' = [s EXCEPT ![e].connected = connected] BY <2>1 DEF Handshake
    <3> HIDE DEF s, e
    <3>2. QED BY <1>1, <3>1, StateChanges
  <2> HIDE DEF s, e, p
  <2>4. DOMAIN ssls' = DOMAIN s /\ \A k \in DOMAIN s : ssls'[k].for = s[k].for
    BY <1>1, <2>3, RangeKept
  <2>5. \A k \in DOMAIN ssls' : ssls'[k].for = i \/ (k \in DOMAIN ssls /\ ssls'[k].for = ssls[k].for)
    BY <1>2, <2>4
  <2>6. DOMAIN ssls \subseteq DOMAIN ssls' /\ e \in DOMAIN ssls' BY <1>1, <2>4
  <2>7. QED BY <2>2, <2>5, <2>6, RangeStep
<1>4. CASE BindPair(i)
  <2> DEFINE p == [conns[i] EXCEPT !.life = "bound", !.ssl = e, !.s = "looked", !.c = "idle",
                                   !.node = "live", !.server = TRUE, !.client = TRUE]
  <2>2. conns' = [conns EXCEPT ![i] = p] /\ p.ssl = e
    BY <1>4, PairTyped DEF BindPair, Pairs
  <2>3. SameLives(s, ssls')
    <3>1. ssls' = [s EXCEPT ![e].connected = TRUE] BY <1>4 DEF BindPair
    <3> HIDE DEF s, e
    <3>2. QED BY <1>1, <3>1, StateChanges
  <2> HIDE DEF s, e, p
  <2>4. DOMAIN ssls' = DOMAIN s /\ \A k \in DOMAIN s : ssls'[k].for = s[k].for
    BY <1>1, <2>3, RangeKept
  <2>5. \A k \in DOMAIN ssls' : ssls'[k].for = i \/ (k \in DOMAIN ssls /\ ssls'[k].for = ssls[k].for)
    BY <1>2, <2>4
  <2>6. DOMAIN ssls \subseteq DOMAIN ssls' /\ e \in DOMAIN ssls' BY <1>1, <2>4
  <2>7. QED BY <2>2, <2>5, <2>6, RangeStep
<1>5. CASE HandshakeFails(i)
  <2> DEFINE p == [conns[i] EXCEPT !.s = "failed", !.ssl = 0]
  <2>2. conns' = [conns EXCEPT ![i] = p] /\ p.ssl = 0
    BY <1>5, PairTyped DEF HandshakeFails, Pairs
  <2>3. Ended(s, e, ssls')
    <3>1. ssls' = [s EXCEPT ![e].live = FALSE] BY <1>5 DEF HandshakeFails
    <3> HIDE DEF s, e
    <3>2. QED BY <1>1, <3>1, LifeEnds
  <2> HIDE DEF s, e, p
  <2>4. DOMAIN ssls' = DOMAIN s /\ \A k \in DOMAIN s : ssls'[k].for = s[k].for
    BY <1>1, <2>3, RangeKept
  <2>5. \A k \in DOMAIN ssls' : ssls'[k].for = i \/ (k \in DOMAIN ssls /\ ssls'[k].for = ssls[k].for)
    BY <1>2, <2>4
  <2>6. DOMAIN ssls \subseteq DOMAIN ssls' /\ e \in DOMAIN ssls' BY <1>1, <2>4
  <2>7. QED BY <2>2, <2>5, <2>6, RangeStep
<1>6. QED BY <1>3, <1>4, <1>5

\* deleteProxyNode has nothing to do with the SSLConnection.
LEMMA DeletedSsl == \A p \in Pairs : Deleted(p).ssl = p.ssl
BY DEF Deleted, Pairs

\* The other handlers make none, and let go of theirs.
LEMMA RangeEnds ==
  ASSUME TableInv, TableInv', RangeInv, NEW i \in DOMAIN conns,
         \/ LeaveUnbound(i) \/ ServerLooks(i) \/ ServerPasses(i) \/ ServerEnds(i)
         \/ ServerDestroyed(i) \/ ServerClose(i) \/ ServerClosed(i)
         \/ ClientThread(i)
  PROVE  RangeInv'
<1>1. conns[i] \in Pairs BY PairTyped
<1>2. DOMAIN ssls' = DOMAIN ssls /\ \A e \in DOMAIN ssls : ssls'[e].for = ssls[e].for
  <2>1. ssls \in Seq(SslConnections) BY DEF TableInv, Exact
  <2>2. \/ ssls' = ssls
        \/ \E e \in DOMAIN ssls : ssls' = [ssls EXCEPT ![e].live = FALSE]
    <3>1. CASE ServerEnds(i) \/ ServerClose(i)
      <4> DEFINE e == map[conns[i].fd]
      <4>1. e # 0 /\ conns[i].fd \in Fds
        BY <3>1, ServerHolds, PairTyped DEF ServerEnds, ServerClose
      <4>2. e \in DOMAIN ssls BY <4>1 DEF TableInv, Exact
      <4>3. ssls' = [ssls EXCEPT ![e].live = FALSE] BY <3>1, <4>1 DEF ServerEnds, ServerClose
      <4>4. QED BY <4>2, <4>3
    <3>2. CASE ~ (ServerEnds(i) \/ ServerClose(i))
      BY <3>2 DEF LeaveUnbound, ServerLooks, ServerPasses, ServerDestroyed, ServerClosed,
                  ClientThread, ClientLooks, ClientPasses, ClientEnds
    <3>3. QED BY <3>1, <3>2
  <2>3. QED BY <2>1, <2>2, LifeEnds, RangeKept
<1>3. \E p : conns' = [conns EXCEPT ![i] = p] /\ (p.ssl = conns[i].ssl \/ p.ssl = 0)
  <2>1. CASE LeaveUnbound(i)
    <3> DEFINE p == [conns[i] EXCEPT !.life = "gone", !.ssl = 0]
    <3>1. conns' = [conns EXCEPT ![i] = p] /\ p.ssl = 0 BY <1>1, <2>1 DEF LeaveUnbound, Pairs
    <3>2. QED BY <3>1
  <2>2. ASSUME NEW l, conns' = [conns EXCEPT ![i].s = l]
        PROVE  \E p : conns' = [conns EXCEPT ![i] = p] /\ (p.ssl = conns[i].ssl \/ p.ssl = 0)
    <3> DEFINE p == [conns[i] EXCEPT !.s = l]
    <3>1. conns' = [conns EXCEPT ![i] = p] /\ p.ssl = conns[i].ssl BY <1>1, <2>2 DEF Pairs
    <3>2. QED BY <3>1
  <2>3. ASSUME NEW l, conns' = [conns EXCEPT ![i].c = l]
        PROVE  \E p : conns' = [conns EXCEPT ![i] = p] /\ (p.ssl = conns[i].ssl \/ p.ssl = 0)
    <3> DEFINE p == [conns[i] EXCEPT !.c = l]
    <3>1. conns' = [conns EXCEPT ![i] = p] /\ p.ssl = conns[i].ssl BY <1>1, <2>3 DEF Pairs
    <3>2. QED BY <3>1
  <2>4. CASE ServerLooks(i) \/ ServerPasses(i) \/ ServerEnds(i)
    BY <2>2, <2>4 DEF ServerLooks, ServerPasses, ServerEnds
  <2>5. CASE ClientLooks(i) \/ ClientPasses(i)
    BY <2>3, <2>5 DEF ClientLooks, ClientPasses
  <2>6. CASE ServerClosed(i)
    <3> DEFINE p == [conns[i] EXCEPT !.life = "gone", !.s = "idle"]
    <3>1. conns' = [conns EXCEPT ![i] = p] /\ p.ssl = conns[i].ssl
      BY <1>1, <2>6 DEF ServerClosed, Pairs
    <3>2. QED BY <3>1
  <2>7. ASSUME NEW q \in Pairs, conns' = [conns EXCEPT ![i] = Deleted(q)],
               q.ssl = conns[i].ssl \/ q.ssl = 0
        PROVE  \E p : conns' = [conns EXCEPT ![i] = p] /\ (p.ssl = conns[i].ssl \/ p.ssl = 0)
    BY <2>7, DeletedSsl
  <2>8. CASE ServerDestroyed(i)
    <3>1. CASE conns[i].s = "failed"
      <4> DEFINE p == [conns[i] EXCEPT !.life = "gone", !.s = "idle"]
      <4>1. conns' = [conns EXCEPT ![i] = p] /\ p.ssl = conns[i].ssl
        BY <1>1, <2>8, <3>1 DEF ServerDestroyed, Pairs
      <4>2. QED BY <4>1
    <3>2. CASE conns[i].s # "failed"
      <4> DEFINE q == [conns[i] EXCEPT !.life = "gone", !.s = "idle", !.ssl = 0, !.server = FALSE]
      <4>1. q \in Pairs /\ q.ssl = 0 BY <1>1 DEF Pairs, Lives, SSteps
      <4>2. conns' = [conns EXCEPT ![i] = Deleted(q)] BY <2>8, <3>2 DEF ServerDestroyed
      <4>3. QED BY <2>7, <4>1, <4>2
    <3>3. QED BY <3>1, <3>2
  <2>9. CASE ServerClose(i)
    <3> DEFINE q == [conns[i] EXCEPT !.s = "closed", !.ssl = 0, !.server = FALSE]
    <3>1. q \in Pairs /\ q.ssl = 0 BY <1>1 DEF Pairs, SSteps
    <3>2. conns' = [conns EXCEPT ![i] = Deleted(q)] BY <2>9 DEF ServerClose
    <3>3. QED BY <2>7, <3>1, <3>2
  <2>10. CASE ClientEnds(i)
    <3> DEFINE q == [conns[i] EXCEPT !.c = "gone", !.client = FALSE]
    <3>1. q \in Pairs /\ q.ssl = conns[i].ssl BY <1>1 DEF Pairs, CSteps
    <3>2. conns' = [conns EXCEPT ![i] = Deleted(q)] BY <2>10 DEF ClientEnds
    <3>3. QED BY <2>7, <3>1, <3>2
  <2>11. QED BY <2>1, <2>4, <2>5, <2>6, <2>8, <2>9, <2>10 DEF ClientThread
<1>4. PICK p : conns' = [conns EXCEPT ![i] = p] /\ (p.ssl = conns[i].ssl \/ p.ssl = 0)
  BY <1>3
<1>5. QED BY <1>2, <1>4, RangeStep

\* A new pair refers to nothing.
LEMMA RangeAccept ==
  ASSUME TableInv, TableInv', RangeInv, Accept
  PROVE  RangeInv'
<1>1. PICK fd \in Fds :
        conns' = Append(conns, [fd |-> fd, life |-> "accepted", ssl |-> 0, s |-> "idle",
                                c |-> "none", node |-> "none", server |-> FALSE, client |-> FALSE])
  BY DEF Accept
<1> DEFINE new == [fd |-> fd, life |-> "accepted", ssl |-> 0, s |-> "idle", c |-> "none",
                   node |-> "none", server |-> FALSE, client |-> FALSE]
<1>2. conns' = Append(conns, new) /\ new.ssl = 0 BY <1>1
<1>3. conns \in Seq(Pairs) /\ ssls \in Seq(SslConnections) BY DEF TableInv, PairsOK, Exact
<1>4. new \in Pairs BY DEF Pairs, Lives, SSteps, CSteps, Nodes
<1>5. ssls' = ssls /\ Len(conns) < MaxConnections BY DEF Accept
<1> HIDE DEF new
<1>6. /\ Len(conns') = Len(conns) + 1 /\ conns'[Len(conns) + 1] = new
      /\ \A j \in 1 .. Len(conns) : conns'[j] = conns[j]
  BY <1>2, <1>3, <1>4, AppendProperties
<1>7. /\ Len(conns) \in Nat /\ DOMAIN conns = 1 .. Len(conns) /\ Len(ssls) \in Nat
      /\ DOMAIN conns' = 1 .. Len(conns')
  <2>1. conns' \in Seq(Pairs) BY DEF TableInv, PairsOK
  <2>2. QED BY <1>3, <2>1, DomainOfSeq
<1>8. ASSUME NEW j \in DOMAIN conns' PROVE conns'[j].ssl \in 0 .. Len(ssls')
  <2>1. CASE j \in DOMAIN conns BY <1>5, <1>6, <1>7, <2>1 DEF RangeInv
  <2>2. CASE j = Len(conns) + 1 BY <1>2, <1>5, <1>6, <1>7, <2>2
  <2>3. QED BY <1>6, <1>7, <2>1, <2>2
<1>9. Len(conns') <= MaxConnections BY <1>5, <1>6, <1>7, MaxConnectionsAssumption
<1>10. DOMAIN conns \subseteq DOMAIN conns' BY <1>6, <1>7
<1>11. QED BY <1>5, <1>8, <1>9, <1>10 DEF RangeInv

LEMMA RangeNext == TableInv /\ TableInv' /\ RangeInv /\ [Next]_vars => RangeInv'
<1> SUFFICES ASSUME TableInv, TableInv', RangeInv, [Next]_vars PROVE RangeInv'
  OBVIOUS
<1>1. CASE UNCHANGED vars BY <1>1 DEF vars, RangeInv
<1>2. CASE Accept BY <1>2, RangeAccept
<1>3. ASSUME NEW i \in DOMAIN conns, ServerThread(i) PROVE RangeInv'
  BY <1>3, RangeMakes, RangeEnds DEF ServerThread
<1>4. ASSUME NEW i \in DOMAIN conns, ClientThread(i) PROVE RangeInv'
  BY <1>4, RangeEnds
<1>5. QED BY <1>1, <1>2, <1>3, <1>4 DEF Next

-----------------------------------------------------------------------------
(* The theorems *)

\* The pairs of HttpsProxy and the map of SSLConnections agree at every step of
\* every thread.
THEOREM Table == Spec => []TableInv
<1>1. TableInv /\ [Next]_vars => TableInv'
  BY TableStep
<1>2. QED BY TableInit, <1>1, PTL DEF Spec

\* getProxy and deleteProxyNode: whoever looks a node up still has it when its
\* mutex is his.
THEOREM NodesStay == Spec => []NodeOutlivesHandlers
<1>1. TableInv => NodeOutlivesHandlers BY DEF TableInv
<1>2. QED BY <1>1, Table, PTL

\* m_ssl_connections: no SSLConnection is used after its end, none is lost.
THEOREM MapStaysExact == Spec => []MapIsExact
<1>1. TableInv => MapIsExact
  <2> SUFFICES ASSUME TableInv PROVE MapIsExact
    OBVIOUS
  <2>1. Exact(ssls, map) BY DEF TableInv
  <2>2. ASSUME NEW e \in DOMAIN ssls, ssls[e].live
        PROVE  Cardinality({fd \in Fds : map[fd] = e}) = 1
    <3>1. e # 0 BY <2>1, DomainOfSeq DEF Exact
    <3>2. PICK d \in Fds : map[d] = e BY <2>1, <2>2 DEF Exact
    <3>3. {fd \in Fds : map[fd] = e} = {d} BY <2>1, <3>1, <3>2 DEF Exact
    <3>4. QED BY <3>3, FS_Singleton
  <2>3. QED BY <2>1, <2>2 DEF MapIsExact, Exact
<1>2. QED BY <1>1, Table, PTL

\* handleServerClose and handleServerRead: a connection ends its own entry, never
\* that of the pair that has its descriptor now.
THEOREM EntriesStay == Spec => []EntryStays
<1>1. TableInv => EntryStays BY DEF TableInv, EntriesOK, EntryOK, EntryStays
<1>2. QED BY <1>1, Table, PTL

\* handleProxyHandshake: whoever runs with another's SSLConnection does so because
\* a connection left before its pair was bound, and for each that did there is one
\* such victim at most, whether the victim ends or lives on.
THEOREM HurtsOnce == Spec => []LeftHurtsOnce
<1>1. TableInv => LeftHurtsOnce BY Finite DEF TableInv, HurtOK, LeftHurtsOnce
<1>2. QED BY <1>1, Table, PTL

\* Accept and the handlers: pairs, SSLConnections, the map and the history refer to
\* each other within their bounds.
THEOREM Typing == Spec => []TypeOK
<1>1. Init => RangeInv
  <2> SUFFICES ASSUME Init PROVE RangeInv
    OBVIOUS
  <2>1. conns = <<>> /\ ssls = <<>> BY DEF Init
  <2>2. Len(conns) = 0 /\ DOMAIN conns = {} /\ DOMAIN ssls = {} BY <2>1
  <2>3. QED BY <2>2, MaxConnectionsAssumption DEF RangeInv
<1>2. TableInv /\ RangeInv => TypeOK
  <2> SUFFICES ASSUME TableInv, RangeInv PROVE TypeOK
    OBVIOUS
  <2>1. ASSUME NEW i \in DOMAIN conns
        PROVE  /\ conns[i] \in [fd : Fds, life : Lives, ssl : 0 .. Len(ssls), s : SSteps,
                                c : CSteps, node : Nodes, server : BOOLEAN, client : BOOLEAN]
               /\ conns[i].c = "none" <=> conns[i].node = "none"
    <3>1. conns[i] \in Pairs /\ PairOK(conns[i]) BY PairTyped
    <3>2. conns[i].ssl \in 0 .. Len(ssls) BY DEF RangeInv
    <3>3. QED BY <3>1, <3>2 DEF Pairs, PairOK
  <2>2. ASSUME NEW e \in DOMAIN ssls
        PROVE  ssls[e] \in [for : DOMAIN conns, connected : BOOLEAN, live : BOOLEAN]
    <3>1. ssls[e] \in SslConnections BY DomainOfSeq DEF TableInv, Exact
    <3>2. ssls[e].for \in DOMAIN conns BY DEF RangeInv
    <3>3. QED BY <3>1, <3>2 DEF SslConnections
  <2>3. map \in [Fds -> 0 .. Len(ssls)]
    <3>1. map \in [Fds -> Nat] /\ ssls \in Seq(SslConnections) BY DEF TableInv, Exact
    <3>2. Len(ssls) \in Nat /\ DOMAIN ssls = 1 .. Len(ssls) BY <3>1, DomainOfSeq
    <3>3. \A fd \in Fds : map[fd] \in 0 .. Len(ssls) BY <3>1, <3>2 DEF TableInv, Exact
    <3>4. QED BY <3>1, <3>3
  <2>4. QED BY <2>1, <2>2, <2>3 DEF TypeOK, RangeInv, TableInv, HurtOK
<1>3. TableInv /\ RangeInv /\ [Next]_vars => (TableInv /\ RangeInv)'
  BY TableStep, RangeNext
<1>4. QED BY <1>1, <1>2, <1>3, TableInit, PTL DEF Spec

=============================================================================
