---------------------------- MODULE StorageProofs ----------------------------
(***************************************************************************)
(* Theorems about the two layers of the server that stand on MySQL: the    *)
(* pool of connections, MysqlPool, for any finite set of clients, any pool *)
(* size and any number of acquisitions; and the sessions, SessionStore,    *)
(* for any threads, any ids and any number of requests, sessions and       *)
(* restarts.  They share no variable: a session's query takes a connection *)
(* for its length, which is the lease the pool is shown to implement; the  *)
(* sessions are shown to implement a directory of ids.                     *)
(***************************************************************************)
EXTENDS MysqlPoolRefinement, SessionStoreRefinement, FiniteSetTheorems, SequenceTheorems, TLAPS

-----------------------------------------------------------------------------
(* Queues without duplicates *)

(* Pushing a new element at the back, as the deleter does.                  *)
LEMMA Push ==
  ASSUME NEW S, NEW s \in Seq(S), NEW e \in S
  PROVE  /\ Append(s, e) \in Seq(S)
         /\ Len(Append(s, e)) = Len(s) + 1
         /\ Range(Append(s, e)) = Range(s) \cup {e}
         /\ IsInjective(s) /\ e \notin Range(s) => IsInjective(Append(s, e))
<1> DEFINE a == Append(s, e)
<1>1. /\ a \in Seq(S) /\ Len(a) = Len(s) + 1
      /\ \A i \in 1 .. Len(s) : a[i] = s[i]
      /\ a[Len(s) + 1] = e
  BY AppendProperties
<1>2. /\ DOMAIN a = 1 .. Len(s) + 1 /\ DOMAIN s = 1 .. Len(s) /\ Len(s) \in Nat
  BY <1>1, LenProperties
<1> HIDE DEF a
<1>3. Range(a) = Range(s) \cup {e}
  BY <1>1, <1>2 DEF Range
<1>4. IsInjective(s) /\ e \notin Range(s) => IsInjective(a)
  BY <1>1, <1>2 DEF Range, IsInjective
<1>5. QED BY <1>1, <1>3, <1>4 DEF a

(* Popping the front, as getMysqlConnection and the maintenance thread do.  *)
LEMMA Pop ==
  ASSUME NEW S, NEW s \in Seq(S), s # <<>>
  PROVE  /\ Head(s) \in S /\ Head(s) \in Range(s)
         /\ Tail(s) \in Seq(S)
         /\ Len(Tail(s)) = Len(s) - 1
         /\ Range(Tail(s)) \subseteq Range(s)
         /\ IsInjective(s) => IsInjective(Tail(s)) /\ Head(s) \notin Range(Tail(s))
<1> DEFINE r == Tail(s)
<1>1. /\ Head(s) \in S /\ r \in Seq(S) /\ Len(r) = Len(s) - 1
      /\ \A i \in 1 .. Len(r) : r[i] = s[i + 1]
  BY HeadTailProperties
<1>2. /\ Len(s) \in Nat \ {0}
      /\ DOMAIN r = 1 .. Len(r) /\ DOMAIN s = 1 .. Len(s)
      /\ Head(s) = s[1]
  BY <1>1, LenProperties, EmptySeq
<1> HIDE DEF r
<1>3. Head(s) \in Range(s) BY <1>2 DEF Range
<1>4. Range(r) \subseteq Range(s) BY <1>1, <1>2 DEF Range
<1>5. IsInjective(s) => IsInjective(r) /\ Head(s) \notin Range(r)
  <2> SUFFICES ASSUME IsInjective(s)
               PROVE  IsInjective(r) /\ Head(s) \notin Range(r)
    OBVIOUS
  <2>1. \A i \in DOMAIN r : i + 1 \in DOMAIN s /\ r[i] = s[i + 1]
    BY <1>1, <1>2
  <2>2. IsInjective(r)
    BY <1>2, <2>1 DEF IsInjective
  <2>3. \A i \in DOMAIN r : r[i] # s[1]
    BY <1>2, <2>1 DEF IsInjective
  <2>4. QED BY <1>2, <2>2, <2>3 DEF Range
<1>6. QED BY <1>1, <1>3, <1>4, <1>5 DEF r

LEMMA EmptyQueue == /\ Range(<<>>) = {} /\ IsInjective(<<>>) /\ Len(<<>>) = 0
                    /\ \A S : <<>> \in Seq(S)
  BY DEF Range, IsInjective

-----------------------------------------------------------------------------

(* notify_one moves at most one waiting thread to "woken" and moves no      *)
(* other thread.                                                            *)
LEMMA NotifyOneEffect ==
  ASSUME NEW now \in [Clients -> ClientStates], NotifyOne(now),
         \A w \in Waiting : now[w] = "waiting"
  PROVE  /\ pc' \in [Clients -> ClientStates]
         /\ \A u \in Clients : now[u] # "waiting" => pc'[u] = now[u]
         /\ \A u \in Clients : now[u] = "waiting" => pc'[u] \in {"waiting", "woken"}
<1>1. CASE Waiting # {}
  <2>1. PICK w \in Waiting : pc' = [now EXCEPT ![w] = "woken"]
    BY <1>1 DEF NotifyOne
  <2>2. QED BY <2>1 DEF Waiting, ClientStates
<1>2. CASE Waiting = {}
  BY <1>2 DEF NotifyOne
<1>3. QED BY <1>1, <1>2

(* What requireBuildMysqlConnection leaves in the queue.                    *)
LEMMA AfterBuild ==
  ASSUME OwnershipInv
  PROVE  /\ IdleAfterBuild \in Seq(Conns)
         /\ BuiltAfterBuild \in 0 .. PoolSize /\ built <= BuiltAfterBuild
         /\ IsInjective(IdleAfterBuild)
         /\ Range(IdleAfterBuild) \subseteq 1 .. BuiltAfterBuild
         /\ Range(IdleAfterBuild) \cap Range(checking) = {}
         /\ \A t \in Holders : held[t] \notin Range(IdleAfterBuild)
         /\ inspecting \notin Range(IdleAfterBuild)
<1> USE SizeAssumption DEF OwnershipInv, PoolTypeOK, Conns
<1>1. CASE BuildDue
  <2>1. built + 1 \in Conns /\ built \in Nat
    BY <1>1 DEF BuildDue
  <2>2. /\ built + 1 \notin Range(idle) \cup Range(checking)
        /\ \A t \in Holders : held[t] # built + 1
        /\ inspecting # built + 1
    BY <2>1, NoneAssumption DEF NumberedByBuild
  <2>3. /\ IdleAfterBuild \in Seq(Conns) /\ IsInjective(IdleAfterBuild)
        /\ Range(IdleAfterBuild) = Range(idle) \cup {built + 1}
    BY <1>1, <2>1, <2>2, Push DEF IdleAfterBuild, NoSharing
  <2>4. BuiltAfterBuild = built + 1 BY <1>1 DEF BuiltAfterBuild
  <2>5. QED BY <2>1, <2>2, <2>3, <2>4 DEF NoSharing, NumberedByBuild
<1>2. CASE ~BuildDue
  BY <1>2 DEF IdleAfterBuild, BuiltAfterBuild, NoSharing, NumberedByBuild
<1>3. QED BY <1>1, <1>2


-----------------------------------------------------------------------------
(* Ownership *)

LEMMA OwnershipInit == PoolInit => OwnershipInv
<1> SUFFICES ASSUME PoolInit PROVE OwnershipInv
  OBVIOUS
<1>1. PoolTypeOK
  BY SizeAssumption, EmptyQueue
  DEF PoolInit, PoolTypeOK, ClientStates, CheckerStates, LinkStates
<1>2. ControlOK
  BY DEF PoolInit, ControlOK
<1>3. NumberedByBuild /\ NoSharing
  BY EmptyQueue DEF PoolInit, NumberedByBuild, NoSharing, Holders
<1>4. QED BY <1>1, <1>2, <1>3 DEF OwnershipInv

(* A client takes the head of queue q, which becomes m_connections' = Tail(q) *)
LEMMA TakePreserves ==
  ASSUME OwnershipInv, NEW t \in Clients, pc[t] # "using",
         NEW q \in Seq(Conns), q # <<>>, IsInjective(q),
         Range(q) \cap Range(checking) = {},
         \A u \in Holders : held[u] \notin Range(q),
         inspecting \notin Range(q),
         Range(q) \subseteq 1 .. built',
         built' \in 0 .. PoolSize, built <= built',
         idle' = Tail(q),
         held' = [held EXCEPT ![t] = Head(q)],
         pc' = [pc EXCEPT ![t] = "using"],
         todo' \in [Clients -> 0 .. Acquisitions],
         UNCHANGED <<cpc, checking, inspecting, link>>
  PROVE  OwnershipInv'
<1>1. /\ Head(q) \in Conns /\ Head(q) \in Range(q)
      /\ Tail(q) \in Seq(Conns) /\ IsInjective(Tail(q))
      /\ Range(Tail(q)) \subseteq Range(q) /\ Head(q) \notin Range(Tail(q))
  BY Pop
<1>2. PoolTypeOK'
  BY <1>1 DEF OwnershipInv, PoolTypeOK, ClientStates
<1>3. held[t] = None /\ t \notin Holders
  BY DEF OwnershipInv, ControlOK, Holders
<1>4. /\ Holders' = Holders \cup {t}
      /\ held'[t] = Head(q)
      /\ \A u \in Holders : held'[u] = held[u]
  BY <1>1, <1>3, NoneAssumption DEF OwnershipInv, PoolTypeOK, Holders
<1>5. ControlOK'
  BY <1>1, NoneAssumption DEF OwnershipInv, PoolTypeOK, ControlOK
<1>6. NumberedByBuild'
  <2>1. \A n \in 1 .. built : n \in 1 .. built'
    BY DEF OwnershipInv, PoolTypeOK
  <2>2. QED BY <1>1, <1>4, <2>1 DEF OwnershipInv, NumberedByBuild
<1>7. NoSharing'
  BY <1>1, <1>4 DEF OwnershipInv, NoSharing
<1>8. QED BY <1>2, <1>5, <1>6, <1>7 DEF OwnershipInv

(* Steps that move threads but no connection *)
LEMMA StandPreserves ==
  ASSUME OwnershipInv, NEW t \in Clients, pc[t] # "using",
         NEW s \in ClientStates \ {"using"},
         pc' = [pc EXCEPT ![t] = s],
         todo' \in [Clients -> 0 .. Acquisitions],
         UNCHANGED <<idle, built, held, cpc, checking, inspecting, link>>
  PROVE  OwnershipInv'
<1>1. PoolTypeOK' BY DEF OwnershipInv, PoolTypeOK
<1>2. ControlOK' BY DEF OwnershipInv, ControlOK, PoolTypeOK
<1>3. NumberedByBuild' /\ NoSharing'
  BY DEF OwnershipInv, NumberedByBuild, NoSharing, Holders
<1>4. QED BY <1>1, <1>2, <1>3 DEF OwnershipInv

LEMMA OwnershipStep == OwnershipInv /\ [PoolNext]_poolVars => OwnershipInv'
<1> SUFFICES ASSUME OwnershipInv, [PoolNext]_poolVars PROVE OwnershipInv'
  OBVIOUS
<1>1. ASSUME NEW t \in Clients, GetNow(t) PROVE OwnershipInv'
  <2>1. todo' \in [Clients -> 0 .. Acquisitions]
    BY <1>1, SizeAssumption DEF GetNow, OwnershipInv, PoolTypeOK
  <2>2. QED
    BY <1>1, <2>1, AfterBuild, TakePreserves
    DEF GetNow, checkerVars, OwnershipInv, PoolTypeOK
<1>2. ASSUME NEW t \in Clients, GetWait(t) PROVE OwnershipInv'
  <2>1. todo' \in [Clients -> 0 .. Acquisitions]
    BY <1>2, SizeAssumption DEF GetWait, OwnershipInv, PoolTypeOK
  <2>2. QED BY <1>2, <2>1, StandPreserves DEF GetWait, checkerVars, ClientStates
<1>3. ASSUME NEW t \in Clients, ResumeTake(t) PROVE OwnershipInv'
  <2>1. /\ idle \in Seq(Conns) /\ idle # <<>> /\ IsInjective(idle)
        /\ Range(idle) \cap Range(checking) = {}
        /\ \A u \in Holders : held[u] \notin Range(idle)
        /\ inspecting \notin Range(idle)
    BY <1>3 DEF ResumeTake, OwnershipInv, PoolTypeOK, NoSharing
  <2>2. /\ Range(idle) \subseteq 1 .. built'
        /\ built' \in 0 .. PoolSize /\ built <= built'
        /\ todo' \in [Clients -> 0 .. Acquisitions]
    BY <1>3 DEF ResumeTake, OwnershipInv, PoolTypeOK, NumberedByBuild
  <2>3. QED
    BY <1>3, <2>1, <2>2, TakePreserves DEF ResumeTake, checkerVars
<1>4. ASSUME NEW t \in Clients, ResumeWait(t) PROVE OwnershipInv'
  BY <1>4, StandPreserves DEF ResumeWait, checkerVars, ClientStates, OwnershipInv, PoolTypeOK
<1>5. ASSUME NEW t \in Clients, SpuriousWakeup(t) PROVE OwnershipInv'
  BY <1>5, StandPreserves DEF SpuriousWakeup, checkerVars, ClientStates, OwnershipInv, PoolTypeOK
<1>6. ASSUME NEW t \in Clients, Release(t) PROVE OwnershipInv'
  <2>1. t \in Holders /\ held[t] \in Conns
    BY <1>6 DEF Release, OwnershipInv, ControlOK, PoolTypeOK, Holders
  <2>2. /\ pc' \in [Clients -> ClientStates] /\ pc'[t] = "outside"
        /\ \A u \in Clients \ {t} : pc'[u] = "using" <=> pc[u] = "using"
    <3> DEFINE now == [pc EXCEPT ![t] = "outside"]
    <3>1. /\ now \in [Clients -> ClientStates] /\ NotifyOne(now)
          /\ \A w \in Waiting : now[w] = "waiting"
      BY <1>6 DEF Release, OwnershipInv, PoolTypeOK, ClientStates, Waiting
    <3>2. QED BY <3>1, NotifyOneEffect DEF OwnershipInv, PoolTypeOK
  <2>3. /\ idle' \in Seq(Conns) /\ IsInjective(idle')
        /\ Range(idle') = Range(idle) \cup {held[t]}
    BY <1>6, <2>1, Push DEF Release, OwnershipInv, PoolTypeOK, NoSharing
  <2>4. /\ Holders' = Holders \ {t} /\ held'[t] = None
        /\ \A u \in Holders' : held'[u] = held[u]
    BY <1>6, <2>1 DEF Release, OwnershipInv, PoolTypeOK, Holders
  <2>5. PoolTypeOK'
    BY <1>6, <2>2, <2>3 DEF Release, OwnershipInv, PoolTypeOK, checkerVars
  <2>6. ControlOK'
    BY <1>6, <2>2 DEF Release, OwnershipInv, PoolTypeOK, ControlOK, checkerVars
  <2>7. NumberedByBuild'
    BY <1>6, <2>1, <2>3, <2>4 DEF Release, OwnershipInv, NumberedByBuild, checkerVars
  <2>8. NoSharing'
    BY <1>6, <2>1, <2>3, <2>4 DEF Release, OwnershipInv, NoSharing, checkerVars
  <2>9. QED BY <2>5, <2>6, <2>7, <2>8 DEF OwnershipInv
<1>7. CASE CheckSwap
  <2>1. checking = <<>>
    BY <1>7 DEF CheckSwap, OwnershipInv, ControlOK
  <2>2. PoolTypeOK'
    BY <1>7, EmptyQueue DEF CheckSwap, OwnershipInv, PoolTypeOK, clientVars, CheckerStates
  <2>3. ControlOK' /\ NumberedByBuild' /\ NoSharing'
    BY <1>7, <2>1, EmptyQueue
    DEF CheckSwap, OwnershipInv, ControlOK, NumberedByBuild, NoSharing, Holders, clientVars
  <2>4. QED BY <2>2, <2>3 DEF OwnershipInv
<1>8. CASE CheckTake
  <2>1. /\ inspecting' \in Conns /\ inspecting' \in Range(checking)
        /\ checking' \in Seq(Conns) /\ IsInjective(checking')
        /\ Range(checking') \subseteq Range(checking)
        /\ inspecting' \notin Range(checking')
    BY <1>8, Pop DEF CheckTake, OwnershipInv, PoolTypeOK, NoSharing
  <2>2. PoolTypeOK'
    BY <1>8, <2>1 DEF CheckTake, OwnershipInv, PoolTypeOK, clientVars, CheckerStates
  <2>3. ControlOK'
    BY <1>8, <2>1, NoneAssumption DEF CheckTake, OwnershipInv, ControlOK, clientVars
  <2>4. NumberedByBuild' /\ NoSharing'
    BY <1>8, <2>1 DEF CheckTake, OwnershipInv, NumberedByBuild, NoSharing, Holders, clientVars
  <2>5. QED BY <2>2, <2>3, <2>4 DEF OwnershipInv
<1>9. CASE CheckReturn
  <2>1. inspecting \in Conns /\ inspecting # None
    BY <1>9 DEF CheckReturn, OwnershipInv, PoolTypeOK, ControlOK
  <2>2. /\ pc' \in [Clients -> ClientStates]
        /\ \A u \in Clients : pc'[u] = "using" <=> pc[u] = "using"
    <3>1. NotifyOne(pc) /\ pc \in [Clients -> ClientStates]
      BY <1>9 DEF CheckReturn, OwnershipInv, PoolTypeOK
    <3>2. QED BY <3>1, NotifyOneEffect DEF Waiting
  <2>3. /\ idle' \in Seq(Conns) /\ IsInjective(idle')
        /\ Range(idle') = Range(idle) \cup {inspecting}
    BY <1>9, <2>1, Push DEF CheckReturn, OwnershipInv, PoolTypeOK, NoSharing
  <2>4. PoolTypeOK'
    BY <1>9, <2>2, <2>3 DEF CheckReturn, OwnershipInv, PoolTypeOK, CheckerStates
  <2>5. ControlOK'
    BY <1>9, <2>2 DEF CheckReturn, OwnershipInv, ControlOK
  <2>6. NumberedByBuild' /\ NoSharing'
    <3>1. Holders' = Holders /\ held' = held /\ checking' = checking /\ built' = built
      BY <1>9 DEF CheckReturn, Holders
    <3>2. \A i \in Range(checking) : i # None
      BY NoneAssumption DEF OwnershipInv, NumberedByBuild, PoolTypeOK, Range
    <3>3. \A i \in Range(idle') : i # None
      BY <2>3, <2>1, NoneAssumption DEF OwnershipInv, PoolTypeOK, Range
    <3>4. inspecting' = None BY <1>9 DEF CheckReturn
    <3>5. \A u \in Holders : held[u] # None BY DEF Holders
    <3>6. QED
      BY <2>1, <2>3, <3>1, <3>2, <3>3, <3>4, <3>5
      DEF OwnershipInv, NumberedByBuild, NoSharing
  <2>7. QED BY <2>4, <2>5, <2>6 DEF OwnershipInv
<1>10. CASE CheckPing \/ CheckReconnect \/ CheckDone \/ CheckSleep
  <2>1. /\ UNCHANGED <<idle, built, pc, held, todo, checking, inspecting>>
        /\ cpc' \in CheckerStates
    BY <1>10 DEF CheckPing, CheckReconnect, CheckDone, CheckSleep, clientVars, CheckerStates
  <2>2. link' \in [Conns -> LinkStates]
    BY <1>10 DEF CheckPing, CheckReconnect, CheckDone, CheckSleep, OwnershipInv, PoolTypeOK, LinkStates
  <2>3. PoolTypeOK' BY <2>1, <2>2 DEF OwnershipInv, PoolTypeOK
  <2>4. ControlOK'
    BY <1>10, <2>1
    DEF CheckPing, CheckReconnect, CheckDone, CheckSleep, OwnershipInv, ControlOK
  <2>5. NumberedByBuild' /\ NoSharing'
    BY <2>1 DEF OwnershipInv, NumberedByBuild, NoSharing, Holders
  <2>6. QED BY <2>3, <2>4, <2>5 DEF OwnershipInv
<1>11. ASSUME NEW c \in 1 .. built, LinkDrops(c) PROVE OwnershipInv'
  BY <1>11
  DEF LinkDrops, OwnershipInv, PoolTypeOK, ControlOK, NumberedByBuild, NoSharing,
      Holders, clientVars, checkerVars, LinkStates
<1>12. CASE UNCHANGED poolVars
  BY <1>12
  DEF poolVars, OwnershipInv, PoolTypeOK, ControlOK, NumberedByBuild, NoSharing,
      Holders, clientVars, checkerVars
<1>13. QED
  BY <1>1, <1>2, <1>3, <1>4, <1>5, <1>6, <1>7, <1>8, <1>9, <1>10, <1>11, <1>12
  DEF PoolNext, Client, Checker

(* The ownership invariant holds in every reachable state.                  *)
THEOREM Ownership == PoolSpec => []OwnershipInv
  BY OwnershipInit, OwnershipStep, PTL DEF PoolSpec

(* Every variable keeps its type; in particular the counter of built         *)
(* connections never exceeds m_mysql_connection_count.                       *)
THEOREM PoolTyping == PoolSpec => []PoolTypeOK
<1>1. OwnershipInv => PoolTypeOK BY DEF OwnershipInv
<1>2. QED BY <1>1, Ownership, PTL

(* No MYSQL handle is ever in two hands.                                     *)
THEOREM Exclusive == PoolSpec => []NoSharing
<1>1. OwnershipInv => NoSharing BY DEF OwnershipInv
<1>2. QED BY <1>1, Ownership, PTL

-----------------------------------------------------------------------------
(* Counting *)

LEMMA ThreadSetsFinite ==
  /\ IsFiniteSet(Holders) /\ Cardinality(Holders) \in Nat
  /\ IsFiniteSet(Woken)   /\ Cardinality(Woken) \in Nat
<1>1. Holders \subseteq Clients /\ Woken \subseteq Clients
  BY DEF Holders, Woken
<1>2. QED BY <1>1, ClientsAssumption, FS_Subset, FS_CardinalityType

LEMMA LenNat ==
  ASSUME PoolTypeOK
  PROVE  Len(idle) \in Nat /\ Len(checking) \in Nat /\ built \in Nat
  BY LenProperties, SizeAssumption DEF PoolTypeOK

LEMMA CountingInit == PoolInit => CountingInv
<1> SUFFICES ASSUME PoolInit PROVE CountingInv
  OBVIOUS
<1>1. Holders = {} /\ Waiting = {} /\ Woken = {}
  BY DEF PoolInit, Holders, Waiting, Woken
<1>2. NoneLost
  BY <1>1, EmptyQueue, FS_EmptySet DEF PoolInit, NoneLost
<1>3. QED
  BY <1>1, <1>2, OwnershipInit DEF CountingInv, WaitOnlyWhenFull, NoLostWakeup

(* A client takes the head of a queue: one more holder                       *)
LEMMA OneMoreHolder ==
  ASSUME OwnershipInv, NEW t \in Clients, pc[t] # "using",
         NEW c \in Conns, held' = [held EXCEPT ![t] = c]
  PROVE  Cardinality(Holders') = Cardinality(Holders) + 1
<1>1. held[t] = None /\ t \notin Holders
  BY DEF OwnershipInv, ControlOK, Holders
<1>2. Holders' = Holders \cup {t}
  BY <1>1, NoneAssumption DEF OwnershipInv, PoolTypeOK, Holders
<1>3. QED BY <1>1, <1>2, ThreadSetsFinite, FS_AddElement

(* A push and a notification: the thread that pushes is not waiting          *)
LEMMA PushAndNotify ==
  ASSUME CountingInv, NEW now \in [Clients -> ClientStates], NotifyOne(now),
         \A u \in Clients : now[u] = "waiting" <=> pc[u] = "waiting",
         \A u \in Clients : now[u] = "woken" <=> pc[u] = "woken",
         Len(idle') = Len(idle) + 1, built' = built
  PROVE  WaitOnlyWhenFull' /\ NoLostWakeup'
<1>1. CASE Waiting # {}
  <2>1. PICK w \in Waiting : pc' = [now EXCEPT ![w] = "woken"]
    BY <1>1 DEF NotifyOne
  <2>2. Woken' = Woken \cup {w} /\ w \notin Woken
    BY <2>1 DEF Woken, Waiting, ClientStates
  <2>3. Cardinality(Woken') = Cardinality(Woken) + 1
    BY <2>2, ThreadSetsFinite, FS_AddElement
  <2>4. Len(idle) <= Cardinality(Woken) /\ ~BuildDue
    BY <1>1 DEF CountingInv, NoLostWakeup, WaitOnlyWhenFull
  <2>5. Len(idle') <= Cardinality(Woken')
    BY <2>3, <2>4, ThreadSetsFinite, LenNat DEF CountingInv, OwnershipInv
  <2>6. QED BY <2>4, <2>5 DEF NoLostWakeup, WaitOnlyWhenFull, BuildDue
<1>2. CASE Waiting = {}
  <2>1. pc' = now /\ Waiting' = {} /\ Woken' = Woken
    BY <1>2 DEF NotifyOne, Waiting, Woken
  <2>2. QED BY <2>1 DEF NoLostWakeup, WaitOnlyWhenFull, BuildDue, CountingInv
<1>3. QED BY <1>1, <1>2

LEMMA PoolCountingStep == CountingInv /\ [PoolNext]_poolVars => CountingInv'
<1> SUFFICES ASSUME CountingInv, [PoolNext]_poolVars
             PROVE  WaitOnlyWhenFull' /\ NoneLost' /\ NoLostWakeup'
  BY OwnershipStep DEF CountingInv
<1>a. OwnershipInv /\ PoolTypeOK
  BY DEF CountingInv, OwnershipInv
<1>b. /\ Cardinality(Holders) \in Nat /\ Cardinality(Woken) \in Nat
      /\ Len(idle) \in Nat /\ Len(checking) \in Nat /\ built \in Nat
  BY <1>a, ThreadSetsFinite, LenNat
<1>1. ASSUME NEW t \in Clients, GetNow(t)
      PROVE  WaitOnlyWhenFull' /\ NoneLost' /\ NoLostWakeup'
  <2>1. /\ IdleAfterBuild \in Seq(Conns) /\ IdleAfterBuild # <<>>
        /\ idle' = Tail(IdleAfterBuild)
        /\ held' = [held EXCEPT ![t] = Head(IdleAfterBuild)]
        /\ pc' = [pc EXCEPT ![t] = "using"] /\ pc[t] = "outside"
        /\ built' = BuiltAfterBuild
        /\ UNCHANGED <<checking, inspecting>>
    BY <1>1, <1>a, AfterBuild DEF GetNow, checkerVars
  <2>2. /\ Len(idle') = Len(IdleAfterBuild) - 1
        /\ Head(IdleAfterBuild) \in Conns
    BY <2>1, Pop
  <2>3. /\ BuildDue => /\ Len(IdleAfterBuild) = Len(idle) + 1
                       /\ BuiltAfterBuild = built + 1
        /\ ~BuildDue => IdleAfterBuild = idle /\ BuiltAfterBuild = built
    <3>1. BuildDue => built + 1 \in Conns
      BY <1>a, SizeAssumption DEF BuildDue, PoolTypeOK, Conns
    <3>2. QED BY <1>a, <3>1, Push DEF IdleAfterBuild, BuiltAfterBuild, PoolTypeOK
  <2>4. Cardinality(Holders') = Cardinality(Holders) + 1
    BY <1>a, <2>1, <2>2, OneMoreHolder
  <2>5. NoneLost'
    <3>1. \/ built' = built + 1 /\ Len(idle') = Len(idle)
          \/ built' = built /\ Len(idle') = Len(idle) - 1
      <4>1. CASE BuildDue BY <4>1, <1>b, <2>1, <2>2, <2>3
      <4>2. CASE ~BuildDue BY <4>2, <1>b, <2>1, <2>2, <2>3
      <4>3. QED BY <4>1, <4>2
    <3>2. /\ Len(checking') = Len(checking) /\ inspecting' = inspecting
          /\ NoneLost
      BY <2>1 DEF CountingInv
    <3>3. PICK k \in Nat : k = IF inspecting = None THEN 0 ELSE 1
      OBVIOUS
    <3>4. built = Len(idle) + Len(checking) + Cardinality(Holders) + k
      BY <3>2, <3>3 DEF NoneLost
    <3>5. built' = Len(idle') + Len(checking') + Cardinality(Holders') + k
      BY SMTT(60), <1>b, <2>4, <3>1, <3>2, <3>4
    <3>6. QED BY <3>2, <3>3, <3>5 DEF NoneLost
  <2>6. Waiting' = Waiting /\ Woken' = Woken
    BY <1>a, <2>1 DEF Waiting, Woken, PoolTypeOK
  <2>7. WaitOnlyWhenFull'
    BY <2>1, <2>3, <2>6 DEF CountingInv, WaitOnlyWhenFull, BuildDue
  <2>8. NoLostWakeup'
    BY <1>b, <2>2, <2>3, <2>6 DEF CountingInv, WaitOnlyWhenFull, NoLostWakeup
  <2>9. QED BY <2>5, <2>7, <2>8
<1>2. ASSUME NEW t \in Clients, GetWait(t)
      PROVE  WaitOnlyWhenFull' /\ NoneLost' /\ NoLostWakeup'
  <2>1. ~BuildDue /\ idle = <<>>
    <3>1. IdleAfterBuild = <<>>
      BY <1>2 DEF GetWait
    <3>2. ASSUME BuildDue PROVE FALSE
      <4>1. built + 1 \in Conns /\ idle \in Seq(Conns)
        BY <1>a, <3>2, SizeAssumption DEF BuildDue, PoolTypeOK, Conns
      <4>2. Len(Append(idle, built + 1)) = Len(idle) + 1
        BY <4>1, Push
      <4>3. Append(idle, built + 1) = <<>>
        BY <3>1, <3>2 DEF IdleAfterBuild
      <4>4. Len(idle) + 1 = 0
        BY <4>2, <4>3, EmptyQueue
      <4>5. QED BY <1>a, <4>4, LenNat
    <3>3. QED BY <3>1, <3>2 DEF IdleAfterBuild
  <2>2. /\ built' = built /\ idle' = idle /\ Len(idle') = 0
        /\ Woken' = Woken /\ Holders' = Holders
    BY <1>2, <1>a, <2>1, EmptyQueue DEF GetWait, Woken, Holders, PoolTypeOK
  <2>3. WaitOnlyWhenFull' /\ NoLostWakeup'
    BY <1>b, <2>1, <2>2 DEF WaitOnlyWhenFull, NoLostWakeup, BuildDue
  <2>4. NoneLost'
    BY <1>2, <2>2 DEF GetWait, checkerVars, CountingInv, NoneLost
  <2>5. QED BY <2>3, <2>4
<1>3. ASSUME NEW t \in Clients, ResumeTake(t)
      PROVE  WaitOnlyWhenFull' /\ NoneLost' /\ NoLostWakeup'
  <2>1. Len(idle') = Len(idle) - 1 /\ Head(idle) \in Conns
    BY <1>3, <1>a, Pop DEF ResumeTake, PoolTypeOK
  <2>2. Cardinality(Holders') = Cardinality(Holders) + 1
    BY <1>3, <1>a, <2>1, OneMoreHolder DEF ResumeTake
  <2>3. NoneLost'
    BY <1>3, <1>b, <2>1, <2>2 DEF ResumeTake, checkerVars, CountingInv, NoneLost
  <2>4. /\ Waiting' = Waiting
        /\ Woken' = Woken \ {t} /\ t \in Woken
    BY <1>3, <1>a DEF ResumeTake, Waiting, Woken, PoolTypeOK
  <2>5. Cardinality(Woken') = Cardinality(Woken) - 1
    BY <2>4, ThreadSetsFinite, FS_RemoveElement
  <2>6. WaitOnlyWhenFull' /\ NoLostWakeup'
    BY <1>3, <1>b, <2>1, <2>4, <2>5
    DEF ResumeTake, CountingInv, WaitOnlyWhenFull, NoLostWakeup, BuildDue
  <2>7. QED BY <2>3, <2>6
<1>4. ASSUME NEW t \in Clients, ResumeWait(t)
      PROVE  WaitOnlyWhenFull' /\ NoneLost' /\ NoLostWakeup'
  <2>1. Holders' = Holders /\ t \in Woken
    BY <1>4 DEF ResumeWait, Holders, Woken
  <2>2. WaitOnlyWhenFull' /\ NoneLost'
    BY <1>4, <2>1 DEF ResumeWait, checkerVars, CountingInv, WaitOnlyWhenFull, NoneLost, BuildDue
  <2>3. Len(idle') = 0
    BY <1>4, EmptyQueue DEF ResumeWait
  <2>4. Cardinality(Woken') \in Nat
    <3>1. Woken' \subseteq Clients BY DEF Woken
    <3>2. QED BY <3>1, ClientsAssumption, FS_Subset, FS_CardinalityType
  <2>5. NoLostWakeup' BY <2>3, <2>4 DEF NoLostWakeup
  <2>6. QED BY <2>2, <2>5
<1>5. ASSUME NEW t \in Clients, SpuriousWakeup(t)
      PROVE  WaitOnlyWhenFull' /\ NoneLost' /\ NoLostWakeup'
  <2>1. /\ Holders' = Holders /\ t \in Waiting
        /\ Woken' = Woken \cup {t} /\ t \notin Woken
    BY <1>5, <1>a DEF SpuriousWakeup, Holders, Woken, Waiting, PoolTypeOK
  <2>2. Cardinality(Woken') = Cardinality(Woken) + 1
    BY <2>1, ThreadSetsFinite, FS_AddElement
  <2>3. WaitOnlyWhenFull' /\ NoneLost'
    BY <1>5, <2>1 DEF SpuriousWakeup, checkerVars, CountingInv, WaitOnlyWhenFull, NoneLost, BuildDue
  <2>4. NoLostWakeup'
    BY <1>5, <1>b, <2>1, <2>2 DEF SpuriousWakeup, CountingInv, NoLostWakeup
  <2>5. QED BY <2>3, <2>4
<1>6. ASSUME NEW t \in Clients, Release(t)
      PROVE  WaitOnlyWhenFull' /\ NoneLost' /\ NoLostWakeup'
  <2>1. t \in Holders /\ held[t] \in Conns
    BY <1>6, <1>a DEF Release, OwnershipInv, ControlOK, PoolTypeOK, Holders
  <2>2. Holders' = Holders \ {t}
    BY <1>6, <1>a DEF Release, PoolTypeOK, Holders
  <2>3. Cardinality(Holders') = Cardinality(Holders) - 1
    BY <2>1, <2>2, ThreadSetsFinite, FS_RemoveElement
  <2>4. Len(idle') = Len(idle) + 1
    BY <1>6, <1>a, <2>1, Push DEF Release, PoolTypeOK
  <2>5. NoneLost'
    BY <1>6, <1>b, <2>3, <2>4 DEF Release, checkerVars, CountingInv, NoneLost
  <2>6. WaitOnlyWhenFull' /\ NoLostWakeup'
    <3> DEFINE now == [pc EXCEPT ![t] = "outside"]
    <3>1. /\ now \in [Clients -> ClientStates] /\ NotifyOne(now) /\ built' = built
          /\ \A u \in Clients : now[u] = "waiting" <=> pc[u] = "waiting"
          /\ \A u \in Clients : now[u] = "woken" <=> pc[u] = "woken"
      BY <1>6, <1>a DEF Release, PoolTypeOK, ClientStates
    <3>2. QED BY <2>4, <3>1, PushAndNotify
  <2>7. QED BY <2>5, <2>6
<1>7. CASE CheckSwap
  <2>1. /\ checking = <<>> /\ Len(idle') = 0
        /\ Holders' = Holders /\ Waiting' = Waiting /\ Woken' = Woken
    BY <1>7, <1>a, EmptyQueue
    DEF CheckSwap, OwnershipInv, ControlOK, Holders, Waiting, Woken, clientVars
  <2>2. QED
    BY <1>7, <1>b, <2>1, EmptyQueue
    DEF CheckSwap, clientVars, CountingInv, WaitOnlyWhenFull, NoneLost, NoLostWakeup, BuildDue
<1>8. CASE CheckTake
  <2>1. /\ Len(checking') = Len(checking) - 1 /\ inspecting' # None
        /\ inspecting = None
    BY <1>8, <1>a, Pop, NoneAssumption DEF CheckTake, PoolTypeOK, OwnershipInv, ControlOK
  <2>2. Holders' = Holders /\ Waiting' = Waiting /\ Woken' = Woken
    BY <1>8 DEF CheckTake, Holders, Waiting, Woken, clientVars
  <2>3. QED
    BY <1>8, <1>b, <2>1, <2>2
    DEF CheckTake, clientVars, CountingInv, WaitOnlyWhenFull, NoneLost, NoLostWakeup, BuildDue
<1>9. CASE CheckReturn
  <2>1. inspecting \in Conns /\ inspecting # None /\ inspecting' = None
    BY <1>9, <1>a DEF CheckReturn, OwnershipInv, PoolTypeOK, ControlOK
  <2>2. Len(idle') = Len(idle) + 1 /\ Holders' = Holders
    BY <1>9, <1>a, <2>1, Push DEF CheckReturn, PoolTypeOK, Holders
  <2>3. NoneLost'
    BY <1>9, <1>b, <2>1, <2>2 DEF CheckReturn, CountingInv, NoneLost
  <2>4. WaitOnlyWhenFull' /\ NoLostWakeup'
    <3>1. NotifyOne(pc) /\ built' = built /\ pc \in [Clients -> ClientStates]
      BY <1>9, <1>a DEF CheckReturn, PoolTypeOK
    <3>2. QED BY <2>2, <3>1, PushAndNotify
  <2>5. QED BY <2>3, <2>4
<1>10. CASE CheckPing \/ CheckReconnect \/ CheckDone \/ CheckSleep
  <2>1. UNCHANGED <<idle, built, pc, held, todo, checking, inspecting>>
    BY <1>10 DEF CheckPing, CheckReconnect, CheckDone, CheckSleep, clientVars
  <2>2. QED
    BY <2>1
    DEF CountingInv, WaitOnlyWhenFull, NoneLost, NoLostWakeup,
        BuildDue, Holders, Waiting, Woken
<1>11. ASSUME NEW c \in 1 .. built, LinkDrops(c)
       PROVE  WaitOnlyWhenFull' /\ NoneLost' /\ NoLostWakeup'
  BY <1>11
  DEF LinkDrops, clientVars, checkerVars, CountingInv, WaitOnlyWhenFull,
      NoneLost, NoLostWakeup, BuildDue, Holders, Waiting, Woken
<1>12. CASE UNCHANGED poolVars
  BY <1>12
  DEF poolVars, clientVars, checkerVars, CountingInv, WaitOnlyWhenFull,
      NoneLost, NoLostWakeup, BuildDue, Holders, Waiting, Woken
<1>13. QED
  BY <1>1, <1>2, <1>3, <1>4, <1>5, <1>6, <1>7, <1>8, <1>9, <1>10, <1>11, <1>12
  DEF PoolNext, Client, Checker

LEMMA Counting == PoolSpec => []CountingInv
  BY CountingInit, PoolCountingStep, PTL DEF PoolSpec

(* No connection leaks: every connection built is idle, lent or under        *)
(* inspection, on every path that returns one.                               *)
THEOREM Conservation == PoolSpec => []NoneLost
<1>1. CountingInv => NoneLost BY DEF CountingInv
<1>2. QED BY <1>1, Counting, PTL

(* While threads wait, each idle connection has a woken thread on its way    *)
(* to it.                                                                    *)
THEOREM Wakeups == PoolSpec => []NoLostWakeup
<1>1. CountingInv => NoLostWakeup BY DEF CountingInv
<1>2. QED BY <1>1, Counting, PTL

-----------------------------------------------------------------------------
(* MysqlPool implements ConnectionLease *)

LEMMA LeaseIsHolder ==
  ASSUME OwnershipInv, NEW c \in Conns
  PROVE  /\ \A t \in Clients : held[t] = c <=> LeaseOf(c) = t
         /\ (\A t \in Clients : held[t] # c) <=> LeaseOf(c) = None
<1>1. \A t, u \in Clients : held[t] = c /\ held[u] = c => t = u
  BY NoneAssumption DEF OwnershipInv, NoSharing, Holders
<1>2. QED BY <1>1, NoneAssumption DEF LeaseOf

LEMMA LeaseIsHolderNext ==
  ASSUME OwnershipInv', NEW c \in Conns
  PROVE  /\ \A t \in Clients : held'[t] = c <=> LeaseOf(c)' = t
         /\ (\A t \in Clients : held'[t] # c) <=> LeaseOf(c)' = None
<1>1. \A t, u \in Clients : held'[t] = c /\ held'[u] = c => t = u
  BY NoneAssumption DEF OwnershipInv, NoSharing, Holders
<1>2. QED BY <1>1, NoneAssumption DEF LeaseOf

(* Handing out connection c to t is a step of the lease                      *)
LEMMA TakeIsObtain ==
  ASSUME OwnershipInv, OwnershipInv', NEW t \in Clients, pc[t] # "using",
         NEW c \in Conns, \A u \in Clients : held[u] # c,
         held' = [held EXCEPT ![t] = c],
         pc' = [pc EXCEPT ![t] = "using"]
  PROVE  Lease!Obtain(t, c)
<1>1. held[t] = None /\ held \in [Clients -> Conns \cup {None}]
  BY DEF OwnershipInv, ControlOK, PoolTypeOK
<1>2. ~Lease!HasLease(t)
  BY <1>1, LeaseIsHolder, NoneAssumption DEF Lease!HasLease
<1>3. LeaseOf(c) = None
  BY LeaseIsHolder
<1>4. LeaseOf(c)' = t
  BY <1>1, LeaseIsHolderNext
<1>5. \A d \in Conns \ {c} : LeaseOf(d)' = LeaseOf(d)
  <2> SUFFICES ASSUME NEW d \in Conns \ {c} PROVE LeaseOf(d)' = LeaseOf(d)
    OBVIOUS
  <2>1. \A u \in Clients : held'[u] = d <=> held[u] = d
    BY <1>1, NoneAssumption
  <2>2. QED BY <2>1, LeaseIsHolder, LeaseIsHolderNext
<1>6. (Waiting \cup Woken)' = (Waiting \cup Woken) \ {t}
  BY DEF Waiting, Woken, OwnershipInv, PoolTypeOK
<1>7. QED BY <1>2, <1>3, <1>4, <1>5, <1>6 DEF Lease!Obtain

(* Steps that leave ownership and the set of waiting or woken threads alone  *)
LEMMA LeaseStutter ==
  ASSUME held' = held, (Waiting \cup Woken)' = Waiting \cup Woken
  PROVE  UNCHANGED Lease!leaseVars
  BY DEF Lease!leaseVars, LeaseOf

LEMMA LeaseStep ==
  OwnershipInv /\ OwnershipInv' /\ [PoolNext]_poolVars => [Lease!LeaseNext]_(Lease!leaseVars)
<1> SUFFICES ASSUME OwnershipInv, OwnershipInv', [PoolNext]_poolVars
             PROVE  [Lease!LeaseNext]_(Lease!leaseVars)
  OBVIOUS
<1>1. ASSUME NEW t \in Clients, GetNow(t) PROVE Lease!LeaseNext
  <2>1. /\ Head(IdleAfterBuild) \in Conns
        /\ \A u \in Clients : held[u] # Head(IdleAfterBuild)
    BY <1>1, AfterBuild, Pop, NoneAssumption DEF GetNow, Holders
  <2>2. Lease!Obtain(t, Head(IdleAfterBuild))
    BY <1>1, <2>1, TakeIsObtain DEF GetNow
  <2>3. QED BY <2>1, <2>2 DEF Lease!LeaseNext
<1>2. ASSUME NEW t \in Clients, GetWait(t) PROVE Lease!LeaseNext
  <2>1. held[t] = None /\ held' = held
    BY <1>2 DEF GetWait, OwnershipInv, ControlOK
  <2>2. ~Lease!HasLease(t) /\ \A c \in Conns : LeaseOf(c)' = LeaseOf(c)
    BY <2>1, LeaseIsHolder, NoneAssumption DEF Lease!HasLease, LeaseOf
  <2>3. /\ (Waiting \cup Woken)' = (Waiting \cup Woken) \cup {t}
        /\ t \notin Waiting \cup Woken
    BY <1>2 DEF GetWait, Waiting, Woken, OwnershipInv, PoolTypeOK
  <2>4. QED BY <2>2, <2>3 DEF Lease!LeaseNext, Lease!Ask
<1>3. ASSUME NEW t \in Clients, ResumeTake(t) PROVE Lease!LeaseNext
  <2>1. /\ Head(idle) \in Conns
        /\ \A u \in Clients : held[u] # Head(idle)
    BY <1>3, Pop, NoneAssumption DEF ResumeTake, OwnershipInv, PoolTypeOK, NoSharing, Holders
  <2>2. Lease!Obtain(t, Head(idle))
    BY <1>3, <2>1, TakeIsObtain DEF ResumeTake
  <2>3. QED BY <2>1, <2>2 DEF Lease!LeaseNext
<1>4. ASSUME NEW t \in Clients, ResumeWait(t) \/ SpuriousWakeup(t)
      PROVE  UNCHANGED Lease!leaseVars
  <2>1. held' = held /\ (Waiting \cup Woken)' = Waiting \cup Woken
    BY <1>4 DEF ResumeWait, SpuriousWakeup, Waiting, Woken, OwnershipInv, PoolTypeOK
  <2>2. QED BY <2>1, LeaseStutter
<1>5. ASSUME NEW t \in Clients, Release(t) PROVE Lease!LeaseNext
  <2>1. held[t] \in Conns /\ held \in [Clients -> Conns \cup {None}]
    BY <1>5 DEF Release, OwnershipInv, ControlOK, PoolTypeOK
  <2> PICK c \in Conns : c = held[t]
    BY <2>1
  <2>2. LeaseOf(c) = t
    BY <2>1, LeaseIsHolder
  <2>3. LeaseOf(c)' = None
    <3>1. \A u \in Clients : held'[u] # c
      BY <1>5, <2>1, NoneAssumption DEF Release, OwnershipInv, NoSharing, Holders
    <3>2. QED BY <3>1, LeaseIsHolderNext
  <2>4. \A d \in Conns \ {c} : LeaseOf(d)' = LeaseOf(d)
    <3> SUFFICES ASSUME NEW d \in Conns \ {c} PROVE LeaseOf(d)' = LeaseOf(d)
      OBVIOUS
    <3>1. \A u \in Clients : held'[u] = d <=> held[u] = d
      BY <1>5, <2>1, NoneAssumption DEF Release
    <3>2. QED BY <3>1, LeaseIsHolder, LeaseIsHolderNext
  <2>5. (Waiting \cup Woken)' = Waiting \cup Woken
    <3> DEFINE now == [pc EXCEPT ![t] = "outside"]
    <3>1. /\ now \in [Clients -> ClientStates] /\ NotifyOne(now)
          /\ \A w \in Waiting : now[w] = "waiting"
          /\ \A u \in Clients : now[u] \in {"waiting", "woken"} <=> u \in Waiting \cup Woken
      BY <1>5 DEF Release, OwnershipInv, PoolTypeOK, ClientStates, Waiting, Woken
    <3>2. /\ \A u \in Clients : now[u] # "waiting" => pc'[u] = now[u]
          /\ \A u \in Clients : now[u] = "waiting" => pc'[u] \in {"waiting", "woken"}
      BY <3>1, NotifyOneEffect
    <3> HIDE DEF now
    <3>3. QED BY <3>1, <3>2 DEF Waiting, Woken
  <2>6. Lease!GiveBack(t, c)
    BY <2>1, <2>2, <2>3, <2>4, <2>5 DEF Lease!GiveBack
  <2>7. QED BY <2>6 DEF Lease!LeaseNext
<1>6. CASE Checker
  <2>1. held' = held
    BY <1>6 DEF Checker, CheckSwap, CheckTake, CheckPing, CheckReconnect,
                CheckReturn, CheckDone, CheckSleep, clientVars
  <2>2. (Waiting \cup Woken)' = Waiting \cup Woken
    <3>1. CASE CheckReturn
      <4>1. NotifyOne(pc) /\ pc \in [Clients -> ClientStates]
        BY <3>1 DEF CheckReturn, OwnershipInv, PoolTypeOK
      <4>2. /\ \A u \in Clients : pc[u] # "waiting" => pc'[u] = pc[u]
            /\ \A u \in Clients : pc[u] = "waiting" => pc'[u] \in {"waiting", "woken"}
        BY <4>1, NotifyOneEffect DEF Waiting
      <4>3. QED BY <4>2 DEF Waiting, Woken
    <3>2. CASE ~CheckReturn
      BY <1>6, <3>2 DEF Checker, CheckSwap, CheckTake, CheckPing, CheckReconnect,
                        CheckDone, CheckSleep, clientVars, Waiting, Woken
    <3>3. QED BY <3>1, <3>2
  <2>3. QED BY <2>1, <2>2, LeaseStutter
<1>7. ASSUME NEW c \in 1 .. built, LinkDrops(c) PROVE UNCHANGED Lease!leaseVars
  BY <1>7, LeaseStutter DEF LinkDrops, clientVars, Waiting, Woken
<1>8. CASE UNCHANGED poolVars
  BY <1>8, LeaseStutter DEF poolVars, clientVars, Waiting, Woken
<1>9. QED
  BY <1>1, <1>2, <1>3, <1>4, <1>5, <1>6, <1>7, <1>8 DEF PoolNext, Client

(* The pool implements its contract: a connection is handed only to a client *)
(* that has none, only when nobody holds it, and is taken back only from its *)
(* holder.                                                                   *)
THEOREM Refinement == PoolSpec => ImplementsLease
<1>1. PoolInit => Lease!LeaseInit
  <2> SUFFICES ASSUME PoolInit PROVE Lease!LeaseInit
    OBVIOUS
  <2>1. \A c \in Conns : LeaseOf(c) = None
    BY NoneAssumption DEF PoolInit, LeaseOf
  <2>2. Waiting = {} /\ Woken = {}
    BY DEF PoolInit, Waiting, Woken
  <2>3. QED BY <2>1, <2>2 DEF Lease!LeaseInit
<1>2. QED
  BY <1>1, LeaseStep, Ownership, PTL DEF PoolSpec, ImplementsLease, Lease!LeaseSpec

-----------------------------------------------------------------------------
(* SessionStore.  StoreInv says what each thread may rely on at each step   *)
(* of its request although SessionManager holds no lock between two of      *)
(* them.  It is stable because other threads only ever add: objects, rows   *)
(* and ids.                                                                  *)

Objects == [id : Ids, errors : Counts, wrongs : Nat]
Locals(n) == [at : Steps, cookie : Ids \cup {NoId}, session : 0 .. n,
              drawn : Ids \cup {NoId}, seen : Counts, failed : BOOLEAN]
Answers(n) == [session : 0 .. n, code : {"none", "401", "403"}, wrongs : Nat]

\* The steps at which a thread has its session
HasSession == {"reloadPut", "put", "insert", "login", "wrong", "right", "answer"}

\* The steps after findSession: the id is in the table or its INSERT failed
Served == {"login", "wrong", "right", "answer"}

Saved == db \cup unsaved

\* A cookie the server cannot know: none, or one whose INSERT failed
Unknown(id) == id \in unsaved \cup {NoId}

\* What the request of thread t has established.  Only a SELECT that failed
\* sends a request with a durable cookie to generateSession.
RequestInv(t) ==
  LET w == work[t] IN
  /\ w.at \in {"find", "query", "reload"} => ~w.failed
  /\ w.cookie \in issued \cup {NoId}
  /\ IF w.at \in HasSession THEN w.session \in DOMAIN objects
                            ELSE w.session = NoSession
  /\ w.at \in {"reload", "reloadPut"} => w.cookie \in db
  /\ w.at = "reloadPut" => Mine(t).id = w.cookie
  /\ w.at \in {"put", "insert"} => Mine(t).id = w.drawn
  /\ w.at = "generate" => Unknown(w.cookie) \/ w.failed
  /\ w.session # NoSession => Mine(t).id = w.cookie \/ Unknown(w.cookie) \/ w.failed
  /\ w.at \in Served => Mine(t).id \in Saved
  /\ w.at = "wrong" /\ w.seen # Absent => Mine(t).errors # Absent

CacheInv ==
  \A i \in Ids : cache[i] # NoSession =>
    cache[i] \in DOMAIN objects /\ objects[cache[i]].id = i

\* The datum "Error_time" is the number of wrong logins, or nobody made it
CounterInv ==
  \A o \in DOMAIN objects :
    objects[o].wrongs = IF objects[o].errors = Absent THEN 0 ELSE objects[o].errors

StoreInv ==
  /\ TypeOK
  /\ \A t \in Threads : RequestInv(t)
  /\ CacheInv /\ CounterInv
  /\ IssuedIsDurable /\ ForbidsAtLimit

-----------------------------------------------------------------------------
(* How the state grows while the program runs *)

Grown ==
  /\ DOMAIN objects \subseteq DOMAIN objects'
  /\ \A o \in DOMAIN objects :
       /\ objects'[o].id = objects[o].id
       /\ objects[o].errors # Absent => objects'[o].errors # Absent
  /\ db \subseteq db' /\ unsaved \subseteq unsaved' /\ issued \subseteq issued'

\* A step of thread t that keeps the invariant
Keeps(t) ==
  /\ Grown /\ TypeOK'
  /\ \A u \in Threads \ {t} : work'[u] = work[u]
  /\ RequestInv(t)'
  /\ CacheInv' /\ CounterInv' /\ IssuedIsDurable' /\ ForbidsAtLimit'

LEMMA ObjectsTyped ==
  ASSUME TypeOK
  PROVE  /\ objects \in Seq(Objects)
         /\ Len(objects) \in Nat
         /\ DOMAIN objects = 1 .. Len(objects)
         /\ \A o \in DOMAIN objects : objects[o] \in Objects
<1>1. objects \in Seq(Objects) BY DEF TypeOK, Objects
<1>2. QED BY <1>1, LenProperties, ElementOfSeq

(* new Session adds one object and leaves the others alone.                 *)
LEMMA AllocateEffect ==
  ASSUME TypeOK, NEW id \in Ids, Allocate(id), RoomForSession
  PROVE  /\ objects' \in Seq(Objects)
         /\ Len(objects') = Len(objects) + 1 /\ Len(objects') <= MaxSessions
         /\ DOMAIN objects' = 1 .. Len(objects) + 1
         /\ \A o \in DOMAIN objects : objects'[o] = objects[o]
         /\ Allocated \in DOMAIN objects' /\ Allocated # NoSession
         /\ objects'[Allocated] = [id |-> id, errors |-> Absent, wrongs |-> 0]
         /\ objects'[Allocated].id = id
<1>1. NewSession(id) \in Objects
  BY DEF NewSession, Objects, Counts
<1>2. /\ objects \in Seq(Objects) /\ Len(objects) \in Nat
      /\ DOMAIN objects = 1 .. Len(objects)
  BY ObjectsTyped
<1>3. /\ objects' \in Seq(Objects) /\ Len(objects') = Len(objects) + 1
      /\ \A o \in 1 .. Len(objects) : objects'[o] = objects[o]
      /\ objects'[Len(objects) + 1] = NewSession(id)
  BY <1>1, <1>2, AppendProperties DEF Allocate
<1>4. DOMAIN objects' = 1 .. Len(objects) + 1
  BY <1>2, <1>3, LenProperties
<1>5. Len(objects) + 1 <= MaxSessions
  BY <1>2, BoundsAssumption DEF RoomForSession
<1>6. QED BY <1>2, <1>3, <1>4, <1>5 DEF Allocated, NoSession, NewSession

(* What a request relies on survives the steps of the other threads.        *)
LEMMA OthersStable ==
  ASSUME TypeOK, Grown, NEW u \in Threads, RequestInv(u), work'[u] = work[u]
  PROVE  RequestInv(u)'
<1>1. work[u].at \in HasSession => work[u].session \in DOMAIN objects
  BY DEF RequestInv
<1>2. work[u].session # NoSession => work[u].session \in DOMAIN objects
  BY DEF RequestInv
<1>3. Served \subseteq HasSession /\ "wrong" \in HasSession
      /\ {"put", "insert"} \subseteq HasSession /\ "reloadPut" \in HasSession
  BY DEF Served, HasSession
<1>4. QED
  BY <1>1, <1>2, <1>3 DEF RequestInv, Grown, Mine, Saved, Unknown

LEMMA StepOfThread ==
  ASSUME StoreInv, NEW t \in Threads, Keeps(t)
  PROVE  StoreInv'
<1>1. \A u \in Threads : RequestInv(u)'
  BY OthersStable DEF StoreInv, Keeps
<1>2. QED BY <1>1 DEF StoreInv, Keeps

LEMMA StoreInit == Init => StoreInv
<1> SUFFICES ASSUME Init PROVE StoreInv
  OBVIOUS
<1>1. /\ objects = <<>> /\ objects \in Seq([id : Ids, errors : Counts, wrongs : Nat])
      /\ Len(objects) = 0 /\ DOMAIN objects = {}
  BY EmptySeq DEF Init
<1>2. TypeOK
  <2>1. /\ MaxSessions \in Nat /\ MaxRequests \in Nat /\ MaxRestarts \in Nat
    BY BoundsAssumption
  <2>2. work \in [Threads -> [at : Steps, cookie : Ids \cup {NoId},
                             session : 0 .. Len(objects),
                             drawn : Ids \cup {NoId}, seen : Counts,
                             failed : BOOLEAN]]
    BY <1>1 DEF Init, Free, NoSession, Counts, Steps
  <2>3. answer \in [session : 0 .. Len(objects), code : {"none", "401", "403"},
                   wrongs : Nat]
    BY <1>1 DEF Init, NoAnswer, NoSession
  <2>4. cache \in [Ids -> 0 .. Len(objects)]
    BY <1>1 DEF Init, NoSession
  <2>5. /\ db = {} /\ issued = {} /\ unsaved = {} /\ aborted = FALSE
        /\ requests = 0 /\ restarts = 0
    BY DEF Init
  <2>6. /\ requests \in 0 .. MaxRequests /\ restarts \in 0 .. MaxRestarts
        /\ Len(objects) <= MaxSessions
    BY <1>1, <2>1, <2>5
  <2>7. QED BY <1>1, <2>1, <2>2, <2>3, <2>4, <2>5, <2>6 DEF TypeOK
<1>3. \A t \in Threads : RequestInv(t)
  BY <1>1 DEF Init, RequestInv, Free, HasSession, Served, NoSession
<1>4. CacheInv /\ CounterInv /\ IssuedIsDurable /\ ForbidsAtLimit
  BY <1>1 DEF Init, CacheInv, CounterInv, IssuedIsDurable, ForbidsAtLimit, NoAnswer
<1>5. QED BY <1>2, <1>3, <1>4 DEF StoreInv

-----------------------------------------------------------------------------
(* The steps of one thread *)

LEMMA StateTyped ==
  ASSUME TypeOK
  PROVE  /\ cache \in [Ids -> 0 .. Len(objects)]
         /\ work \in [Threads -> Locals(Len(objects))]
         /\ answer \in Answers(Len(objects))
         /\ db \subseteq Ids /\ issued \subseteq Ids /\ unsaved \subseteq Ids
         /\ Len(objects) <= MaxSessions
         /\ MaxSessions \in Nat /\ MaxRequests \in Nat
BY BoundsAssumption DEF TypeOK, Locals, Answers

LEMMA LocalsGrow ==
  ASSUME TypeOK, NEW n \in Nat, Len(objects) <= n
  PROVE  /\ work \in [Threads -> Locals(n)]
         /\ cache \in [Ids -> 0 .. n]
         /\ answer \in Answers(n)
<1>1. Len(objects) \in Nat BY ObjectsTyped
<1>2. 0 .. Len(objects) \subseteq 0 .. n BY <1>1
<1>3. Locals(Len(objects)) \subseteq Locals(n) BY <1>2 DEF Locals
<1>4. Answers(Len(objects)) \subseteq Answers(n) BY <1>2 DEF Answers
<1>5. QED BY <1>2, <1>3, <1>4, StateTyped

LEMMA TypeKept ==
  ASSUME TypeOK,
         objects' \in Seq(Objects), Len(objects') <= MaxSessions,
         cache' \in [Ids -> 0 .. Len(objects')],
         work' \in [Threads -> Locals(Len(objects'))],
         answer' \in Answers(Len(objects')),
         db' \subseteq Ids, issued' \subseteq Ids, unsaved' \subseteq Ids,
         aborted' \in BOOLEAN, requests' \in 0 .. MaxRequests,
         restarts' \in 0 .. MaxRestarts
  PROVE  TypeOK'
BY DEF TypeOK, Objects, Locals, Answers

(* A step that changes the locals of t alone, or counts a request, or ends   *)
(* the program.                                                             *)
LEMMA QuietStep ==
  ASSUME StoreInv, NEW t \in Threads,
         work' \in [Threads -> Locals(Len(objects))],
         \A u \in Threads \ {t} : work'[u] = work[u],
         UNCHANGED <<cache, db, objects, issued, unsaved, answer, restarts>>,
         aborted' \in BOOLEAN, requests' \in 0 .. MaxRequests,
         RequestInv(t)'
  PROVE  Keeps(t)
<1>1. TypeOK /\ objects \in Seq(Objects) /\ Len(objects) \in Nat
  BY ObjectsTyped DEF StoreInv
<1>2. objects' = objects /\ Len(objects') = Len(objects)
  OBVIOUS
<1>3. restarts \in 0 .. MaxRestarts BY <1>1 DEF TypeOK
<1>4. TypeOK'
  BY <1>1, <1>2, <1>3, StateTyped, TypeKept
<1>5. Grown BY <1>2 DEF Grown
<1>6. CacheInv' /\ CounterInv' /\ IssuedIsDurable' /\ ForbidsAtLimit'
  BY DEF StoreInv, CacheInv, CounterInv, IssuedIsDurable, ForbidsAtLimit
<1>7. QED BY <1>4, <1>5, <1>6 DEF Keeps

LEMMA BeginKeeps ==
  ASSUME StoreInv, NEW t \in Threads, Begin(t) PROVE Keeps(t)
<1>1. PICK c \in issued \cup {NoId} :
        work' = [work EXCEPT ![t] = [Free EXCEPT !.at = "find", !.cookie = c]]
  BY DEF Begin
<1>2. /\ TypeOK /\ Len(objects) \in Nat /\ issued \subseteq Ids
      /\ work \in [Threads -> Locals(Len(objects))]
  BY ObjectsTyped, StateTyped DEF StoreInv
<1>3. Free \in Locals(Len(objects)) /\ Free.session = NoSession /\ ~Free.failed
  BY <1>2 DEF Free, Locals, Steps, Counts, NoSession
<1>4. PICK w \in Locals(Len(objects)) :
        /\ w = [Free EXCEPT !.at = "find", !.cookie = c]
        /\ w.at = "find" /\ w.cookie = c /\ w.session = NoSession /\ ~w.failed
  <2> DEFINE w == [Free EXCEPT !.at = "find", !.cookie = c]
  <2>1. w \in Locals(Len(objects))
    BY <1>2, <1>3 DEF Locals, Steps
  <2>2. w.at = "find" /\ w.cookie = c /\ w.session = NoSession /\ ~w.failed
    BY <1>2, <1>3 DEF Locals, Steps
  <2>3. QED BY <2>1, <2>2
<1>5. /\ work' \in [Threads -> Locals(Len(objects))] /\ work'[t] = w
      /\ \A u \in Threads \ {t} : work'[u] = work[u]
  BY <1>1, <1>2, <1>4
<1>6. requests' \in 0 .. MaxRequests
  BY <1>2, BoundsAssumption DEF Begin, TypeOK
<1>7. RequestInv(t)'
  BY <1>4, <1>5 DEF Begin, RequestInv, HasSession, Served, NoSession
<1>8. aborted' \in BOOLEAN BY <1>2 DEF Begin, TypeOK
<1>9. QED BY <1>5, <1>6, <1>7, <1>8, QuietStep DEF Begin

LEMMA GoToEffect ==
  ASSUME NEW n \in Nat, work \in [Threads -> Locals(n)],
         NEW t \in Threads, NEW step \in Steps, GoTo(t, step)
  PROVE  /\ work' \in [Threads -> Locals(n)]
         /\ \A u \in Threads \ {t} : work'[u] = work[u]
         /\ work'[t].at = step
         /\ work'[t].cookie = work[t].cookie /\ work'[t].session = work[t].session
         /\ work'[t].drawn = work[t].drawn /\ work'[t].seen = work[t].seen
         /\ work'[t].failed = work[t].failed
BY DEF GoTo, Locals

LEMMA HoldingEffect ==
  ASSUME NEW n \in Nat, work \in [Threads -> Locals(n)],
         NEW t \in Threads, NEW step \in Steps, NEW s \in 0 .. n,
         Holding(t, step, s)
  PROVE  /\ work' \in [Threads -> Locals(n)]
         /\ \A u \in Threads \ {t} : work'[u] = work[u]
         /\ work'[t].at = step /\ work'[t].session = s
         /\ work'[t].cookie = work[t].cookie
         /\ work'[t].drawn = work[t].drawn /\ work'[t].seen = work[t].seen
         /\ work'[t].failed = work[t].failed
BY DEF Holding, Locals

LEMMA Control ==
  ASSUME StoreInv
  PROVE  /\ TypeOK /\ Len(objects) \in Nat
         /\ work \in [Threads -> Locals(Len(objects))]
         /\ requests \in 0 .. MaxRequests /\ aborted \in BOOLEAN
         /\ restarts \in 0 .. MaxRestarts
BY ObjectsTyped, StateTyped DEF StoreInv, TypeOK

(* A cookie that came with an answer is known, unless its INSERT failed.    *)
LEMMA FindInCacheKeeps ==
  ASSUME StoreInv, NEW t \in Threads, FindInCache(t) PROVE Keeps(t)
<1> USE Control
<1>1. CASE Cached(work[t].cookie) # NoSession
  <2> DEFINE i == work[t].cookie
  <2>1. i \in Ids /\ i \in issued /\ cache[i] # NoSession
    BY <1>1, StateTyped DEF Cached, StoreInv, RequestInv
  <2>2. cache[i] \in 0 .. Len(objects) /\ cache[i] \in DOMAIN objects
        /\ objects[cache[i]].id = i
    BY <2>1, StateTyped DEF StoreInv, CacheInv
  <2>3. i # NoId BY <2>1, IdsAssumption
  <2>4. Holding(t, "login", cache[i]) /\ "login" \in Steps
    BY <1>1, <2>3 DEF FindInCache, Cached, Steps
  <2>5. /\ work' \in [Threads -> Locals(Len(objects))]
        /\ \A u \in Threads \ {t} : work'[u] = work[u]
        /\ work'[t].at = "login" /\ work'[t].session = cache[i]
        /\ work'[t].cookie = i /\ work'[t].failed = work[t].failed
    BY <2>2, <2>4, HoldingEffect
  <2>6. i \in Saved BY <2>1 DEF StoreInv, IssuedIsDurable, Saved
  <2>7. RequestInv(t)'
    BY <2>1, <2>2, <2>5, <2>6
    DEF FindInCache, historyVars, RequestInv, HasSession, Served, Saved, Mine
  <2>8. QED BY <2>5, <2>7, QuietStep DEF FindInCache, historyVars
<1>2. CASE Cached(work[t].cookie) = NoSession
  <2>1. GoTo(t, "query") /\ "query" \in Steps /\ work[t].at = "find"
    BY <1>2 DEF FindInCache, Steps, At
  <2>2. /\ work' \in [Threads -> Locals(Len(objects))]
        /\ \A u \in Threads \ {t} : work'[u] = work[u]
        /\ work'[t].at = "query" /\ work'[t].cookie = work[t].cookie
        /\ work'[t].session = work[t].session /\ work'[t].failed = work[t].failed
    BY <2>1, GoToEffect
  <2>3. RequestInv(t)'
    BY <2>1, <2>2
    DEF FindInCache, historyVars, StoreInv, RequestInv, HasSession, Served, NoSession
  <2>4. QED BY <2>2, <2>3, QuietStep DEF FindInCache, historyVars
<1>3. QED BY <1>1, <1>2

LEMMA FindInMysqlEffect ==
  ASSUME StoreInv, NEW t \in Threads, FindInMysql(t)
  PROVE  \E failed \in BOOLEAN :
           /\ work' \in [Threads -> Locals(Len(objects))]
           /\ \A u \in Threads \ {t} : work'[u] = work[u]
           /\ work'[t].at = IF ~failed /\ work[t].cookie \in db
                            THEN "reload" ELSE "generate"
           /\ work'[t].failed = failed
           /\ work'[t].cookie = work[t].cookie /\ work'[t].session = work[t].session
           /\ work'[t].drawn = work[t].drawn
<1>1. PICK failed \in BOOLEAN :
        work' = [work EXCEPT
          ![t].at = IF ~failed /\ work[t].cookie \in db THEN "reload" ELSE "generate",
          ![t].failed = failed]
  BY DEF FindInMysql
<1> DEFINE step == IF ~failed /\ work[t].cookie \in db THEN "reload" ELSE "generate"
<1>2. work \in [Threads -> Locals(Len(objects))] /\ step \in Steps
  BY Control DEF Steps
<1>3. work' = [work EXCEPT ![t].at = step, ![t].failed = failed] BY <1>1
<1> HIDE DEF step
<1>4. /\ work' \in [Threads -> Locals(Len(objects))]
      /\ \A u \in Threads \ {t} : work'[u] = work[u]
      /\ work'[t].at = step /\ work'[t].failed = failed
      /\ work'[t].cookie = work[t].cookie /\ work'[t].session = work[t].session
      /\ work'[t].drawn = work[t].drawn
  BY <1>2, <1>3 DEF Locals
<1>5. QED BY <1>4 DEF step

LEMMA FindInMysqlKeeps ==
  ASSUME StoreInv, NEW t \in Threads, FindInMysql(t) PROVE Keeps(t)
<1> USE Control
<1>1. work[t].at = "query" BY DEF FindInMysql, At
<1>2. PICK failed \in BOOLEAN :
        /\ work' \in [Threads -> Locals(Len(objects))]
        /\ \A u \in Threads \ {t} : work'[u] = work[u]
        /\ work'[t].at = IF ~failed /\ work[t].cookie \in db
                         THEN "reload" ELSE "generate"
        /\ work'[t].failed = failed
        /\ work'[t].cookie = work[t].cookie /\ work'[t].session = work[t].session
        /\ work'[t].drawn = work[t].drawn
  BY FindInMysqlEffect
<1>3. work[t].cookie \notin db => Unknown(work[t].cookie)
  BY DEF StoreInv, RequestInv, IssuedIsDurable, Unknown
<1>4. RequestInv(t)'
  BY <1>1, <1>2, <1>3
  DEF FindInMysql, historyVars, StoreInv, RequestInv, HasSession, Served,
      NoSession, Unknown
<1>5. QED BY <1>2, <1>4, QuietStep DEF FindInMysql, historyVars

LEMMA NoCredentialsKeeps ==
  ASSUME StoreInv, NEW t \in Threads, NoCredentials(t) PROVE Keeps(t)
<1> USE Control
<1>1. GoTo(t, "answer") /\ "answer" \in Steps /\ work[t].at = "login"
  BY DEF NoCredentials, Steps, At
<1>2. /\ work' \in [Threads -> Locals(Len(objects))]
      /\ \A u \in Threads \ {t} : work'[u] = work[u]
      /\ work'[t].at = "answer" /\ work'[t].failed = work[t].failed /\ work'[t].cookie = work[t].cookie
      /\ work'[t].session = work[t].session
  BY <1>1, GoToEffect
<1>3. RequestInv(t)'
  BY <1>1, <1>2
  DEF NoCredentials, historyVars, StoreInv, RequestInv, HasSession, Served,
      Saved, Mine, Unknown
<1>4. QED BY <1>2, <1>3, QuietStep DEF NoCredentials, historyVars

LEMMA SnapshotKeeps ==
  ASSUME StoreInv, NEW t \in Threads, Snapshot(t) PROVE Keeps(t)
<1> USE Control
<1>1. PICK verdict \in {"right", "wrong"} :
        work' = [work EXCEPT ![t].at = verdict, ![t].seen = Mine(t).errors]
  BY DEF Snapshot
<1>2. work[t].at = "login" /\ work[t].session \in DOMAIN objects
  BY DEF Snapshot, At, StoreInv, RequestInv, HasSession
<1>3. Mine(t).errors \in Counts /\ verdict \in Steps
  BY <1>2, ObjectsTyped DEF Mine, Objects, Steps
<1>4. /\ work' \in [Threads -> Locals(Len(objects))]
      /\ \A u \in Threads \ {t} : work'[u] = work[u]
      /\ work'[t].at = verdict /\ work'[t].failed = work[t].failed /\ work'[t].cookie = work[t].cookie
      /\ work'[t].session = work[t].session
      /\ work'[t].seen = Mine(t).errors
  BY <1>1, <1>3 DEF Locals
<1>5. RequestInv(t)'
  BY <1>2, <1>4
  DEF Snapshot, historyVars, StoreInv, RequestInv, HasSession, Served,
      Saved, Mine, Unknown
<1>6. QED BY <1>4, <1>5, QuietStep DEF Snapshot, historyVars

(* A step that allocates a session for thread t.                            *)
LEMMA AllocatingStep ==
  ASSUME StoreInv, NEW t \in Threads,
         NEW id \in Ids, Allocate(id), RoomForSession,
         work' \in [Threads -> Locals(Len(objects) + 1)],
         \A u \in Threads \ {t} : work'[u] = work[u],
         UNCHANGED <<cache, db, issued, unsaved, aborted, requests, restarts, answer>>,
         RequestInv(t)'
  PROVE  Keeps(t)
<1> USE Control
<1>1. /\ objects' \in Seq(Objects)
      /\ Len(objects') = Len(objects) + 1 /\ Len(objects') <= MaxSessions
      /\ DOMAIN objects' = 1 .. Len(objects) + 1
      /\ \A o \in DOMAIN objects : objects'[o] = objects[o]
      /\ objects'[Len(objects) + 1] = [id |-> id, errors |-> Absent, wrongs |-> 0]
  BY AllocateEffect DEF Allocated
<1>2. DOMAIN objects = 1 .. Len(objects) BY ObjectsTyped
<1>3. cache' \in [Ids -> 0 .. Len(objects')] /\ answer' \in Answers(Len(objects'))
  BY <1>1, LocalsGrow
<1>4. TypeOK'
  BY <1>1, <1>3, StateTyped, TypeKept
<1>5. Grown BY <1>1, <1>2 DEF Grown
<1>6. CacheInv' BY <1>1, <1>2 DEF StoreInv, CacheInv
<1>7. CounterInv' BY <1>1, <1>2 DEF StoreInv, CounterInv
<1>8. IssuedIsDurable' /\ ForbidsAtLimit'
  BY DEF StoreInv, IssuedIsDurable, ForbidsAtLimit
<1>9. QED BY <1>4, <1>5, <1>6, <1>7, <1>8 DEF Keeps

LEMMA ReloadKeeps ==
  ASSUME StoreInv, NEW t \in Threads, Reload(t) PROVE Keeps(t)
<1> USE Control
<1>1. /\ work[t].at = "reload" /\ work[t].cookie \in db
      /\ work[t].cookie \in issued \cup {NoId} /\ work[t].cookie \in Ids
  BY StateTyped DEF Reload, At, StoreInv, RequestInv
<1>2. CASE cache[work[t].cookie] # NoSession
  <2>1. UNCHANGED <<work, objects, cache, db, issued, unsaved, requests, restarts, answer>>
        /\ aborted' = TRUE
    BY <1>2 DEF Reload
  <2>2. RequestInv(t)'
    BY <2>1 DEF StoreInv, RequestInv, Mine, Saved, Unknown
  <2>3. QED BY <2>1, <2>2, QuietStep
<1>3. CASE cache[work[t].cookie] = NoSession
  <2>1. /\ Allocate(work[t].cookie) /\ RoomForSession
        /\ Holding(t, "reloadPut", Allocated) /\ "reloadPut" \in Steps
        /\ UNCHANGED <<cache, db, issued, unsaved, aborted, requests, restarts, answer>>
    BY <1>3 DEF Reload, Steps
  <2>2. work \in [Threads -> Locals(Len(objects) + 1)]
    BY LocalsGrow
  <2>3. /\ work' \in [Threads -> Locals(Len(objects) + 1)]
        /\ \A u \in Threads \ {t} : work'[u] = work[u]
        /\ work'[t].at = "reloadPut" /\ work'[t].session = Allocated
        /\ work'[t].cookie = work[t].cookie
    BY <2>1, <2>2, HoldingEffect DEF Allocated
  <2>4. /\ Allocated \in DOMAIN objects' /\ Allocated # NoSession
        /\ objects'[Allocated].id = work[t].cookie
    BY <1>1, <2>1, AllocateEffect
  <2>5. RequestInv(t)'
    BY <1>1, <2>1, <2>3, <2>4
    DEF RequestInv, HasSession, Served, Mine
  <2>6. QED BY <1>1, <2>1, <2>3, <2>5, AllocatingStep
<1>4. QED BY <1>2, <1>3

LEMMA GenerateKeeps ==
  ASSUME StoreInv, NEW t \in Threads, Generate(t) PROVE Keeps(t)
<1> USE Control
<1>1. PICK first \in MayDraw(t), second \in MayDraw(t) :
        LET id == IF cache[first] # NoSession THEN second ELSE first IN
        /\ Allocate(id)
        /\ work' = [work EXCEPT ![t].at = "put", ![t].session = Allocated,
                                ![t].drawn = id]
  BY DEF Generate
<1> DEFINE id == IF cache[first] # NoSession THEN second ELSE first
<1>2. id \in Ids BY DEF MayDraw
<1>3. /\ Allocate(id) /\ RoomForSession /\ work[t].at = "generate"
      /\ work' = [work EXCEPT ![t].at = "put", ![t].session = Allocated,
                              ![t].drawn = id]
      /\ UNCHANGED <<cache, db, issued, unsaved, aborted, requests, restarts, answer>>
  BY <1>1 DEF Generate, At, historyVars
<1> HIDE DEF id
<1>4. work \in [Threads -> Locals(Len(objects) + 1)]
  BY LocalsGrow
<1>5. "put" \in Steps /\ Allocated \in 0 .. Len(objects) + 1
  BY DEF Steps, Allocated
<1>6. /\ work' \in [Threads -> Locals(Len(objects) + 1)]
      /\ \A u \in Threads \ {t} : work'[u] = work[u]
      /\ work'[t].at = "put" /\ work'[t].session = Allocated
      /\ work'[t].drawn = id /\ work'[t].cookie = work[t].cookie
      /\ work'[t].failed = work[t].failed
  BY ZenonT(60), <1>2, <1>3, <1>4, <1>5 DEF Locals
<1>7. /\ Allocated \in DOMAIN objects' /\ Allocated # NoSession
      /\ objects'[Allocated].id = id
  BY <1>2, <1>3, AllocateEffect
<1>8. work[t].cookie \in issued \cup {NoId} /\ (Unknown(work[t].cookie) \/ work[t].failed)
  BY <1>3 DEF StoreInv, RequestInv
<1>9. RequestInv(t)'
  BY <1>3, <1>6, <1>7, <1>8
  DEF RequestInv, HasSession, Served, Mine, Unknown
<1>10. QED BY <1>2, <1>3, <1>6, <1>9, AllocatingStep

(* A step that puts the session of thread t into the cache.                 *)
LEMMA PuttingStep ==
  ASSUME StoreInv, NEW t \in Threads, NEW i \in Ids,
         work[t].session \in DOMAIN objects, Mine(t).id = i,
         cache' = [cache EXCEPT ![i] = work[t].session],
         work' \in [Threads -> Locals(Len(objects))],
         \A u \in Threads \ {t} : work'[u] = work[u],
         UNCHANGED <<db, objects, historyVars>>,
         RequestInv(t)'
  PROVE  Keeps(t)
<1> USE Control
<1>1. objects \in Seq(Objects) /\ DOMAIN objects = 1 .. Len(objects)
  BY ObjectsTyped
<1>2. cache' \in [Ids -> 0 .. Len(objects)]
  BY <1>1, StateTyped
<1>3. TypeOK'
  BY <1>1, <1>2, StateTyped, TypeKept DEF historyVars
<1>4. CacheInv'
  BY StateTyped DEF StoreInv, CacheInv, Mine
<1>5. Grown /\ CounterInv' /\ IssuedIsDurable' /\ ForbidsAtLimit'
  BY DEF historyVars, StoreInv, Grown, CounterInv, IssuedIsDurable, ForbidsAtLimit
<1>6. QED BY <1>3, <1>4, <1>5 DEF Keeps

LEMMA ReloadPutKeeps ==
  ASSUME StoreInv, NEW t \in Threads, ReloadPut(t) PROVE Keeps(t)
<1> USE Control
<1>1. /\ work[t].at = "reloadPut" /\ work[t].session \in DOMAIN objects
      /\ work[t].cookie \in db /\ work[t].cookie \in Ids
      /\ Mine(t).id = work[t].cookie /\ work[t].cookie \in issued \cup {NoId}
  BY StateTyped DEF ReloadPut, At, StoreInv, RequestInv, HasSession
<1>2. GoTo(t, "login") /\ "login" \in Steps
  BY DEF ReloadPut, Steps
<1>3. /\ work' \in [Threads -> Locals(Len(objects))]
      /\ \A u \in Threads \ {t} : work'[u] = work[u]
      /\ work'[t].at = "login" /\ work'[t].session = work[t].session
      /\ work'[t].failed = work[t].failed /\ work'[t].cookie = work[t].cookie
  BY <1>2, GoToEffect
<1>4. RequestInv(t)'
  BY <1>1, <1>3
  DEF ReloadPut, historyVars, RequestInv, HasSession, Served, Saved, Mine
<1>5. QED BY <1>1, <1>3, <1>4, PuttingStep DEF ReloadPut

LEMMA GeneratePutKeeps ==
  ASSUME StoreInv, NEW t \in Threads, GeneratePut(t) PROVE Keeps(t)
<1> USE Control
<1>1. /\ work[t].at = "put" /\ work[t].session \in DOMAIN objects
      /\ Mine(t).id = work[t].drawn
  BY DEF GeneratePut, At, StoreInv, RequestInv, HasSession
<1>2. work[t].drawn \in Ids
  BY <1>1, ObjectsTyped DEF Objects, Mine
<1>3. GoTo(t, "insert") /\ "insert" \in Steps
  BY DEF GeneratePut, Steps
<1>4. /\ work' \in [Threads -> Locals(Len(objects))]
      /\ \A u \in Threads \ {t} : work'[u] = work[u]
      /\ work'[t].at = "insert" /\ work'[t].session = work[t].session
      /\ work'[t].failed = work[t].failed /\ work'[t].cookie = work[t].cookie /\ work'[t].drawn = work[t].drawn
  BY <1>3, GoToEffect
<1>5. RequestInv(t)'
  BY <1>1, <1>4
  DEF GeneratePut, historyVars, StoreInv, RequestInv, HasSession, Served, Mine, Unknown
<1>6. QED BY <1>1, <1>2, <1>4, <1>5, PuttingStep DEF GeneratePut

LEMMA InsertKeeps ==
  ASSUME StoreInv, NEW t \in Threads, Insert(t) PROVE Keeps(t)
<1> USE Control
<1> DEFINE id == work[t].drawn
<1>1. /\ work[t].at = "insert" /\ work[t].session \in DOMAIN objects
      /\ Mine(t).id = id
  BY DEF Insert, At, StoreInv, RequestInv, HasSession
<1>2. id \in Ids
  BY <1>1, ObjectsTyped DEF Objects, Mine
<1>3. /\ work' = [work EXCEPT ![t].at = "login", ![t].drawn = NoId]
      /\ \/ db' = db \cup {id} /\ unsaved' = unsaved
         \/ db' = db /\ unsaved' = unsaved \cup {id}
      /\ UNCHANGED <<cache, objects, issued, aborted, requests, restarts, answer>>
  BY DEF Insert
<1> HIDE DEF id
<1>4. /\ work' \in [Threads -> Locals(Len(objects))]
      /\ \A u \in Threads \ {t} : work'[u] = work[u]
      /\ work'[t].at = "login" /\ work'[t].session = work[t].session
      /\ work'[t].failed = work[t].failed /\ work'[t].cookie = work[t].cookie
  BY ZenonT(60), <1>3 DEF Locals, Steps
<1>5. /\ db \subseteq db' /\ unsaved \subseteq unsaved' /\ id \in Saved'
      /\ db' \subseteq Ids /\ unsaved' \subseteq Ids
  BY <1>2, <1>3, StateTyped DEF Saved
<1>6. TypeOK'
  BY <1>3, <1>4, <1>5, ObjectsTyped, StateTyped, TypeKept
<1>7. RequestInv(t)'
  BY <1>1, <1>3, <1>4, <1>5
  DEF StoreInv, RequestInv, HasSession, Served, Mine, Unknown
<1>8. Grown /\ CacheInv' /\ CounterInv' /\ IssuedIsDurable' /\ ForbidsAtLimit'
  BY <1>3, <1>5
  DEF StoreInv, Grown, CacheInv, CounterInv, IssuedIsDurable, ForbidsAtLimit
<1>9. QED BY <1>4, <1>6, <1>7, <1>8 DEF Keeps

LEMMA FunctionIsSequence ==
  ASSUME NEW S, NEW n \in Nat, NEW f \in [1 .. n -> S] PROVE f \in Seq(S)
BY SeqDef

(* The counter of one session is written.                                   *)
LEMMA CountedEffect ==
  ASSUME TypeOK, NEW s \in DOMAIN objects, NEW e \in Nat, NEW n \in Nat,
         objects' = [objects EXCEPT ![s].errors = e, ![s].wrongs = n]
  PROVE  /\ objects' \in Seq(Objects) /\ Len(objects') = Len(objects)
         /\ DOMAIN objects' = DOMAIN objects
         /\ \A o \in DOMAIN objects \ {s} : objects'[o] = objects[o]
         /\ objects'[s].errors = e /\ objects'[s].wrongs = n
         /\ objects'[s].id = objects[s].id
<1>1. /\ objects \in [1 .. Len(objects) -> Objects] /\ Len(objects) \in Nat
      /\ DOMAIN objects = 1 .. Len(objects)
  BY ObjectsTyped, LenProperties
<1>2. /\ objects' \in [1 .. Len(objects) -> Objects]
      /\ \A o \in DOMAIN objects \ {s} : objects'[o] = objects[o]
      /\ objects'[s].errors = e /\ objects'[s].wrongs = n
      /\ objects'[s].id = objects[s].id
  BY <1>1 DEF Objects, Counts
<1>3. objects' \in Seq(Objects)
  BY <1>1, <1>2, FunctionIsSequence
<1>4. Len(objects') = Len(objects)
  BY <1>1, <1>2, <1>3, LenProperties
<1>5. QED BY <1>1, <1>2, <1>3, <1>4

(* A step that writes the counter of the session of thread t.               *)
LEMMA CountingStep ==
  ASSUME StoreInv, NEW t \in Threads, work[t].session \in DOMAIN objects,
         NEW e \in Nat,
         objects' = [objects EXCEPT ![work[t].session].errors = e,
                                    ![work[t].session].wrongs = e],
         work[t].at \in Served, GoTo(t, "answer"),
         UNCHANGED <<cache, db, issued, unsaved, aborted, requests, restarts>>,
         answer' \in Answers(Len(objects)), ForbidsAtLimit'
  PROVE  Keeps(t)
<1> USE Control
<1> DEFINE s == work[t].session
<1>1. /\ objects' \in Seq(Objects) /\ Len(objects') = Len(objects)
      /\ DOMAIN objects' = DOMAIN objects
      /\ \A o \in DOMAIN objects \ {s} : objects'[o] = objects[o]
      /\ objects'[s].errors = e /\ objects'[s].wrongs = e
      /\ objects'[s].id = objects[s].id
  BY CountedEffect
<1>2. /\ work' \in [Threads -> Locals(Len(objects))]
      /\ \A u \in Threads \ {t} : work'[u] = work[u]
      /\ work'[t].at = "answer" /\ work'[t].session = s
      /\ work'[t].failed = work[t].failed /\ work'[t].cookie = work[t].cookie
  BY GoToEffect DEF Steps
<1>3. e # Absent BY DEF Absent
<1> HIDE DEF s
<1>4. TypeOK'
  BY <1>1, <1>2, StateTyped, TypeKept
<1>5. Grown BY <1>1, <1>3 DEF Grown, s
<1>6. RequestInv(t)'
  BY <1>1, <1>2
  DEF StoreInv, RequestInv, HasSession, Served, Mine, Unknown, Saved, s
<1>7. CacheInv' /\ IssuedIsDurable'
  BY <1>1 DEF StoreInv, CacheInv, IssuedIsDurable, s
<1>8. CounterInv'
  BY <1>1, <1>3 DEF StoreInv, CounterInv, s
<1>9. QED BY <1>2, <1>4, <1>5, <1>6, <1>7, <1>8 DEF Keeps

(* Whatever thread made the counter, it is the number of wrong logins when   *)
(* this one increments it.                                                  *)
LEMMA WrongKeeps ==
  ASSUME StoreInv, NEW t \in Threads, Wrong(t) PROVE Keeps(t)
<1> USE Control
<1>1. /\ work[t].at = "wrong" /\ work[t].session \in DOMAIN objects
      /\ work[t].seen # Absent => Mine(t).errors # Absent
  BY DEF Wrong, At, StoreInv, RequestInv, HasSession
<1>2. Mine(t) = objects[work[t].session] /\ Mine(t) \in Objects
  BY <1>1, ObjectsTyped DEF Mine
<1>3. Counter(t) = Mine(t).wrongs /\ Mine(t).wrongs \in Nat
  BY <1>1, <1>2 DEF Counter, StoreInv, CounterInv, Objects
<1>4. objects' = [objects EXCEPT ![work[t].session].errors = Counter(t) + 1,
                                 ![work[t].session].wrongs = Counter(t) + 1]
  BY <1>1, <1>2, <1>3, ObjectsTyped DEF Wrong, Objects
<1>5. /\ answer' = [session |-> work[t].session, wrongs |-> Mine(t).wrongs,
                    code |-> IF Counter(t) + 1 >= Limit THEN "403" ELSE "401"]
      /\ GoTo(t, "answer")
      /\ UNCHANGED <<cache, db, issued, unsaved, aborted, requests, restarts>>
  BY DEF Wrong
<1>6. answer' \in Answers(Len(objects)) /\ ForbidsAtLimit'
  BY <1>1, <1>3, <1>5, ObjectsTyped DEF Answers, ForbidsAtLimit
<1>7. Counter(t) + 1 \in Nat /\ work[t].at \in Served
  BY <1>1, <1>3 DEF Served
<1>8. QED BY <1>1, <1>4, <1>5, <1>6, <1>7, CountingStep

LEMMA RightKeeps ==
  ASSUME StoreInv, NEW t \in Threads, Right(t) PROVE Keeps(t)
<1> USE Control
<1>1. /\ work[t].at = "right" /\ work[t].session \in DOMAIN objects
      /\ GoTo(t, "answer") /\ UNCHANGED <<cache, db, historyVars>>
  BY DEF Right, At, StoreInv, RequestInv, HasSession
<1>2. CASE work[t].seen > 0
  <2>1. objects' = [objects EXCEPT ![work[t].session].errors = 0,
                                   ![work[t].session].wrongs = 0]
    BY <1>2 DEF Right
  <2>2. answer' \in Answers(Len(objects)) /\ ForbidsAtLimit'
    BY <1>1, StateTyped DEF historyVars, StoreInv, ForbidsAtLimit
  <2>3. work[t].at \in Served BY <1>1 DEF Served
  <2>4. QED BY <1>1, <2>1, <2>2, <2>3, CountingStep DEF historyVars
<1>3. CASE ~(work[t].seen > 0)
  <2>1. objects' = objects BY <1>3 DEF Right
  <2>2. /\ work' \in [Threads -> Locals(Len(objects))]
        /\ \A u \in Threads \ {t} : work'[u] = work[u]
        /\ work'[t].at = "answer" /\ work'[t].session = work[t].session
        /\ work'[t].failed = work[t].failed /\ work'[t].cookie = work[t].cookie
    BY <1>1, GoToEffect DEF Steps
  <2>3. RequestInv(t)'
    BY <1>1, <2>1, <2>2
    DEF historyVars, StoreInv, RequestInv, HasSession, Served, Mine, Unknown, Saved
  <2>4. QED BY <1>1, <2>1, <2>2, <2>3, QuietStep DEF historyVars
<1>4. QED BY <1>2, <1>3

(* The id that leaves with an answer is in the table, or its INSERT failed.  *)
LEMMA AnswerKeeps ==
  ASSUME StoreInv, NEW t \in Threads, Answer(t) PROVE Keeps(t)
<1> USE Control
<1>1. /\ work[t].at = "answer" /\ work[t].session \in DOMAIN objects
      /\ Mine(t).id \in Saved
  BY DEF Answer, At, StoreInv, RequestInv, HasSession, Served
<1>2. /\ issued' = issued \cup {Mine(t).id} /\ work' = [work EXCEPT ![t] = Free]
      /\ UNCHANGED <<cache, db, objects, unsaved, aborted, requests, restarts, answer>>
  BY DEF Answer
<1>3. Free \in Locals(Len(objects)) /\ Free.session = NoSession
      /\ Free.at = "free" /\ Free.cookie = NoId
  BY DEF Free, Locals, Steps, Counts, NoSession
<1>4. /\ work' \in [Threads -> Locals(Len(objects))] /\ work'[t] = Free
      /\ \A u \in Threads \ {t} : work'[u] = work[u]
  BY <1>2, <1>3
<1>5. issued' \subseteq Ids /\ issued \subseteq issued'
  BY <1>1, <1>2, StateTyped DEF Saved
<1>6. TypeOK'
  BY <1>2, <1>4, <1>5, ObjectsTyped, StateTyped, TypeKept
<1>7. RequestInv(t)'
  BY <1>3, <1>4 DEF RequestInv, HasSession, Served
<1>8. IssuedIsDurable'
  BY <1>1, <1>2 DEF StoreInv, IssuedIsDurable, Saved
<1>9. Grown /\ CacheInv' /\ CounterInv' /\ ForbidsAtLimit'
  BY <1>2, <1>5 DEF StoreInv, Grown, CacheInv, CounterInv, ForbidsAtLimit
<1>10. QED BY <1>4, <1>6, <1>7, <1>8, <1>9 DEF Keeps

-----------------------------------------------------------------------------
(* All steps *)

(* The cache is lost, the table is kept.                                    *)
LEMMA RestartKeeps ==
  ASSUME StoreInv, Restart PROVE StoreInv'
<1> USE Control
<1>1. /\ cache' = [i \in Ids |-> NoSession] /\ objects' = <<>>
      /\ work' = [t \in Threads |-> Free]
      /\ aborted' = FALSE /\ answer' = NoAnswer
      /\ UNCHANGED <<db, issued, unsaved, requests>>
      /\ restarts < MaxRestarts /\ restarts' = restarts + 1
  BY DEF Restart
<1>2. /\ objects' \in Seq(Objects) /\ Len(objects') = 0 /\ DOMAIN objects' = {}
      /\ 0 <= MaxSessions
  BY <1>1, EmptySeq, StateTyped
<1>3. restarts' \in 0 .. MaxRestarts
  BY <1>1, BoundsAssumption
<1>4. cache' \in [Ids -> 0 .. Len(objects')]
  BY <1>1, <1>2 DEF NoSession
<1>5. Free \in Locals(Len(objects')) /\ Free.session = NoSession
      /\ Free.at = "free" /\ Free.cookie = NoId
  BY <1>2 DEF Free, Locals, Steps, Counts, NoSession
<1>6. work' \in [Threads -> Locals(Len(objects'))] /\ \A t \in Threads : work'[t] = Free
  BY <1>1, <1>5
<1>7. answer' \in Answers(Len(objects')) /\ answer'.code = "none"
  BY <1>1, <1>2 DEF Answers, NoAnswer, NoSession
<1>8. TypeOK'
  BY <1>1, <1>2, <1>3, <1>4, <1>6, <1>7, StateTyped, TypeKept
<1>9. \A t \in Threads : RequestInv(t)'
  BY <1>5, <1>6 DEF RequestInv, HasSession, Served
<1>10. CacheInv' /\ CounterInv'
  BY <1>1, <1>2 DEF CacheInv, CounterInv
<1>11. IssuedIsDurable' /\ ForbidsAtLimit'
  BY <1>1, <1>7 DEF StoreInv, IssuedIsDurable, ForbidsAtLimit
<1>12. QED BY <1>8, <1>9, <1>10, <1>11 DEF StoreInv

LEMMA StoreStep == StoreInv /\ [Next]_vars => StoreInv'
<1> SUFFICES ASSUME StoreInv, [Next]_vars PROVE StoreInv'
  OBVIOUS
<1>1. CASE Restart
  BY <1>1, RestartKeeps
<1>2. ASSUME NEW t \in Threads, Serve(t) PROVE StoreInv'
  <2>1. CASE Begin(t)
    BY <2>1, BeginKeeps, StepOfThread
  <2>2. CASE FindSession(t)
    BY <2>2, FindInCacheKeeps, FindInMysqlKeeps, ReloadKeeps, ReloadPutKeeps,
       GenerateKeeps, GeneratePutKeeps, InsertKeeps, StepOfThread
    DEF FindSession
  <2>3. CASE Authorize(t)
    BY <2>3, NoCredentialsKeeps, SnapshotKeeps, WrongKeeps, RightKeeps, StepOfThread
    DEF Authorize
  <2>4. CASE Answer(t)
    BY <2>4, AnswerKeeps, StepOfThread
  <2>5. QED BY <1>2, <2>1, <2>2, <2>3, <2>4 DEF Serve
<1>3. CASE UNCHANGED vars
  BY <1>3
  DEF vars, StoreInv, TypeOK, RequestInv, Mine, Saved, Unknown, CacheInv,
      CounterInv, IssuedIsDurable, ForbidsAtLimit
<1>4. QED BY <1>1, <1>2, <1>3 DEF Next

(* Each thread may rely on what it has established of its request, although  *)
(* the others run between any two of its steps and the program may restart.  *)
THEOREM Store == Spec => []StoreInv
BY StoreInit, StoreStep, PTL DEF Spec

(* Every variable keeps its type, and what names a session names one that    *)
(* was allocated since the program started.                                 *)
THEOREM StoreTyping == Spec => []TypeOK
<1>1. StoreInv => TypeOK BY DEF StoreInv
<1>2. QED BY <1>1, Store, PTL

(* findSession serves a browser in the session of its cookie, unless the id   *)
(* was never written or this request's SELECT failed.                       *)
THEOREM Honoured == Spec => []CookieHonoured
<1>1. StoreInv => CookieHonoured
  BY IdsAssumption, StateTyped
  DEF StoreInv, RequestInv, CookieHonoured, Unknown
<1>2. QED BY <1>1, Store, PTL

(* An id is in the table before an answer carries it, unless INSERT failed.  *)
THEOREM Durable == Spec => []IssuedIsDurable
<1>1. StoreInv => IssuedIsDurable BY DEF StoreInv
<1>2. QED BY <1>1, Store, PTL

(* No interleaving of the threads of a session loses or repeats a count.     *)
THEOREM Counted == Spec => []ForbidsAtLimit
<1>1. StoreInv => ForbidsAtLimit BY DEF StoreInv
<1>2. QED BY <1>1, Store, PTL

-----------------------------------------------------------------------------
(* SessionStore implements SessionDirectory.  A request is served as if in  *)
(* one step although its thread learns in several, because what the cache    *)
(* and the table did not know of its cookie nobody adds meanwhile: the id   *)
(* was issued before, and such an id is drawn again by no thread, or is in   *)
(* the cache already.                                                       *)

DrawnOK(t) == work[t].at \in {"put", "insert"} \/ work[t].drawn = NoId

\* A cookie that the thread did not find
SoughtOK(t) ==
  work[t].at \in {"query", "generate"} =>
    /\ work[t].cookie \notin Drawn \cap Ids
    /\ work[t].cookie \notin db => Cached(work[t].cookie) = NoSession
    /\ work[t].at = "generate" => work[t].cookie \notin db \/ work[t].failed

PutOK(t) ==
  work[t].at \in Served \cup {"insert"} => cache[Mine(t).id] # NoSession

GivenOK(t) == work[t].drawn \in issued => cache[work[t].drawn] # NoSession

DirectoryOK(t) == DrawnOK(t) /\ SoughtOK(t) /\ PutOK(t) /\ GivenOK(t)

DirectoryInv == \A t \in Threads : DirectoryOK(t)

(* A step that lets what other threads found out about ids stand.           *)
Spares ==
  /\ \A i \in Ids : cache[i] # NoSession => cache'[i] # NoSession
  /\ \A i \in Ids : cache'[i] # NoSession => cache[i] # NoSession \/ i \in db \cup Drawn
  /\ \A i \in issued' \ issued : cache'[i] # NoSession
  /\ Drawn' \cap issued \subseteq Drawn
  /\ db' \subseteq db \cup (Drawn \cap Ids)

LEMMA OthersSpared ==
  ASSUME StoreInv, DirectoryInv, Grown, Spares,
         NEW u \in Threads, work'[u] = work[u]
  PROVE  DirectoryOK(u)'
<1>1. /\ RequestInv(u) /\ DirectoryOK(u) /\ TypeOK
      /\ issued \subseteq Ids /\ db \subseteq Ids
  BY StateTyped DEF StoreInv, DirectoryInv
<1>2. DrawnOK(u)' BY <1>1 DEF DirectoryOK, DrawnOK
<1>3. SoughtOK(u)'
  <2> DEFINE w == work[u]
             c == w.cookie
  <2> SUFFICES ASSUME w.at \in {"query", "generate"}
               PROVE  /\ c \notin Drawn' \cap Ids
                      /\ c \notin db' => c = NoId \/ cache'[c] = NoSession
                      /\ w.at = "generate" => c \notin db' \/ w.failed
    BY DEF SoughtOK, Cached
  <2>1. /\ c \notin Drawn \cap Ids /\ c \in issued \cup {NoId}
        /\ c \notin db => Cached(c) = NoSession
        /\ w.at = "generate" => c \notin db \/ w.failed
    BY <1>1 DEF DirectoryOK, SoughtOK, RequestInv
  <2> HIDE DEF c, w
  <2>2. CASE c = NoId
    <3>1. c \notin Ids BY <2>2, IdsAssumption
    <3>2. db' \subseteq Ids BY <1>1 DEF Spares
    <3>3. QED BY <2>1, <2>2, <3>1, <3>2
  <2>3. CASE c # NoId
    <3>1. c \in issued /\ c \in Ids BY <1>1, <2>1, <2>3
    <3>2. c \notin Drawn /\ c \notin Drawn' BY <2>1, <3>1 DEF Spares
    <3>3. c \in db' => c \in db BY <3>2 DEF Spares
    <3>4. c \notin db => cache'[c] = NoSession
      BY <2>1, <2>3, <3>1, <3>2 DEF Spares, Cached
    <3>5. db \subseteq db' BY DEF Grown
    <3>6. QED BY <2>1, <3>2, <3>3, <3>4, <3>5
  <2>4. QED BY <2>2, <2>3
<1>4. PutOK(u)'
  <2> SUFFICES ASSUME work[u].at \in Served \cup {"insert"}
               PROVE  cache'[Mine(u)'.id] # NoSession
    BY DEF PutOK
  <2>1. work[u].session \in DOMAIN objects BY <1>1 DEF RequestInv, Served, HasSession
  <2>2. Mine(u)'.id = Mine(u).id BY <2>1 DEF Grown, Mine
  <2>3. Mine(u).id \in Ids BY <1>1, <2>1, ObjectsTyped DEF Mine, Objects
  <2>4. cache[Mine(u).id] # NoSession BY <1>1 DEF DirectoryOK, PutOK
  <2>5. QED BY <2>2, <2>3, <2>4 DEF Spares
<1>5. GivenOK(u)'
  <2> DEFINE i == work[u].drawn
  <2> SUFFICES ASSUME i \in issued' PROVE cache'[i] # NoSession BY DEF GivenOK
  <2>1. i \in issued => cache[i] # NoSession BY <1>1 DEF DirectoryOK, GivenOK
  <2> HIDE DEF i
  <2>2. QED BY <1>1, <2>1 DEF Spares
<1>6. QED BY <1>2, <1>3, <1>4, <1>5 DEF DirectoryOK

LEMMA DirectoryKept ==
  ASSUME StoreInv, DirectoryInv, NEW t \in Threads, Keeps(t), Spares, DirectoryOK(t)'
  PROVE  DirectoryInv'
<1>1. \A u \in Threads \ {t} : DirectoryOK(u)' BY OthersSpared DEF Keeps
<1>2. QED BY <1>1 DEF DirectoryInv

(* Only the locals of t change, and not the id it drew.                     *)
LEMMA SparesQuietly ==
  ASSUME NEW t \in Threads, Keeps(t), work'[t].drawn = work[t].drawn,
         UNCHANGED <<cache, db, issued>>
  PROVE  Spares /\ Drawn' = Drawn
<1>1. \A u \in Threads : work'[u].drawn = work[u].drawn BY DEF Keeps
<1>2. Drawn' = Drawn BY <1>1 DEF Drawn
<1>3. QED BY <1>2 DEF Spares

(* The draw of t is new, or no draw any more.                               *)
LEMMA DrawnAfter ==
  ASSUME NEW t \in Threads, Keeps(t)
  PROVE  /\ Drawn' \subseteq Drawn \cup {work'[t].drawn}
         /\ Drawn \subseteq Drawn' \cup {work[t].drawn}
         /\ work'[t].drawn \in Drawn'
<1>1. \A u \in Threads \ {t} : work'[u].drawn = work[u].drawn BY DEF Keeps
<1>2. Drawn' = {work'[u].drawn : u \in Threads} BY DEF Drawn
<1>3. QED BY <1>1, <1>2 DEF Drawn

LEMMA Context ==
  ASSUME StoreInv, DirectoryInv, NEW t \in Threads
  PROVE  /\ TypeOK /\ RequestInv(t) /\ DirectoryOK(t) /\ CacheInv
         /\ issued \subseteq Ids /\ db \subseteq Ids
         /\ work[t].at \notin {"put", "insert"} => work[t].drawn = NoId
         /\ work[t].at \in HasSession =>
              work[t].session \in DOMAIN objects /\ Mine(t).id \in Ids
<1>1. TypeOK /\ RequestInv(t) /\ DirectoryOK(t) /\ CacheInv
  BY DEF StoreInv, DirectoryInv
<1>2. issued \subseteq Ids /\ db \subseteq Ids BY <1>1, StateTyped
<1>3. work[t].at \in HasSession => work[t].session \in DOMAIN objects
  BY <1>1 DEF RequestInv
<1>4. work[t].at \in HasSession => Mine(t).id \in Ids
  BY <1>1, <1>3, ObjectsTyped DEF Mine, Objects
<1>5. QED BY <1>1, <1>2, <1>3, <1>4 DEF DirectoryOK, DrawnOK

(* A step of t that changes nothing but its locals, its session and counters. *)
LEMMA QuietDirectory ==
  ASSUME StoreInv, DirectoryInv, NEW t \in Threads, Keeps(t),
         UNCHANGED <<cache, db, issued>>, work'[t].drawn = work[t].drawn,
         DrawnOK(t)', SoughtOK(t)', PutOK(t)'
  PROVE  DirectoryInv'
<1>1. Spares BY SparesQuietly
<1>2. GivenOK(t)' BY Context DEF DirectoryOK, GivenOK
<1>3. QED BY <1>1, <1>2, DirectoryKept DEF DirectoryOK

LEMMA BeginDirectory ==
  ASSUME StoreInv, DirectoryInv, NEW t \in Threads, Begin(t) PROVE DirectoryInv'
<1>1. Keeps(t) BY BeginKeeps
<1>2. /\ work[t].at = "free" /\ UNCHANGED <<cache, db, issued>>
      /\ \E c \in issued \cup {NoId} :
           work' = [work EXCEPT ![t] = [Free EXCEPT !.at = "find", !.cookie = c]]
  BY DEF Begin, At
<1>3. work'[t].at = "find" /\ work'[t].drawn = NoId
  BY <1>2, Control DEF Free
<1>4. DrawnOK(t)' /\ SoughtOK(t)' /\ PutOK(t)'
  BY <1>3 DEF DrawnOK, SoughtOK, PutOK, Served
<1>5. QED BY <1>1, <1>2, <1>3, <1>4, Context, QuietDirectory

LEMMA FindInCacheDirectory ==
  ASSUME StoreInv, DirectoryInv, NEW t \in Threads, FindInCache(t) PROVE DirectoryInv'
<1> DEFINE c == work[t].cookie
<1>1. Keeps(t) BY FindInCacheKeeps
<1>2. /\ work[t].at = "find" /\ UNCHANGED <<cache, db, issued, objects>>
      /\ IF Cached(c) # NoSession THEN Holding(t, "login", Cached(c)) ELSE GoTo(t, "query")
  BY DEF FindInCache, At, historyVars
<1>3. c \in issued \cup {NoId} /\ work[t].drawn = NoId
  BY <1>2, Context DEF RequestInv
<1>4. CASE Cached(c) # NoSession
  <2>1. c \in Ids /\ Cached(c) = cache[c] BY <1>3, <1>4, Context DEF Cached
  <2>2. cache[c] \in DOMAIN objects /\ objects[cache[c]].id = c
    BY <1>4, <2>1, Context DEF CacheInv
  <2>3. cache[c] \in 0 .. Len(objects) BY <2>1, Context, StateTyped
  <2>4. /\ work'[t].at = "login" /\ work'[t].session = cache[c]
        /\ work'[t].drawn = work[t].drawn
    BY <1>2, <1>4, <2>1, <2>3, Control, HoldingEffect DEF Steps
  <2>5. Mine(t)'.id = c BY <1>2, <2>2, <2>4 DEF Mine
  <2>6. PutOK(t)' BY <1>2, <1>4, <2>1, <2>5 DEF PutOK
  <2>7. DrawnOK(t)' /\ SoughtOK(t)' BY <1>3, <2>4 DEF DrawnOK, SoughtOK
  <2>8. QED BY <1>1, <1>2, <2>4, <2>6, <2>7, QuietDirectory
<1>5. CASE Cached(c) = NoSession
  <2>1. /\ work'[t].at = "query" /\ work'[t].cookie = c
        /\ work'[t].drawn = work[t].drawn
    BY <1>2, <1>5, Control, GoToEffect DEF Steps
  <2>2. Drawn' = Drawn BY <1>1, <1>2, <2>1, SparesQuietly
  <2>3. c \notin Drawn \cap Ids
    <3> SUFFICES ASSUME c \in Ids, NEW u \in Threads, work[u].drawn = c PROVE FALSE
      BY DEF Drawn
    <3>1. c # NoId /\ c \in issued BY <1>3, IdsAssumption
    <3>2. cache[c] # NoSession BY <3>1, Context DEF DirectoryOK, GivenOK
    <3>3. QED BY <1>5, <3>1, <3>2 DEF Cached
  <2>4. SoughtOK(t)' BY <1>2, <1>5, <2>1, <2>2, <2>3 DEF SoughtOK, Cached
  <2>5. DrawnOK(t)' /\ PutOK(t)' BY <1>3, <2>1 DEF DrawnOK, PutOK, Served
  <2>6. QED BY <1>1, <1>2, <2>1, <2>4, <2>5, QuietDirectory
<1>6. QED BY <1>4, <1>5

LEMMA FindInMysqlDirectory ==
  ASSUME StoreInv, DirectoryInv, NEW t \in Threads, FindInMysql(t) PROVE DirectoryInv'
<1> DEFINE c == work[t].cookie
<1>1. Keeps(t) BY FindInMysqlKeeps
<1>2. work[t].at = "query" /\ UNCHANGED <<cache, db, issued>>
  BY DEF FindInMysql, At, historyVars
<1>3. PICK failed \in BOOLEAN :
        /\ work'[t].at = IF ~failed /\ c \in db THEN "reload" ELSE "generate"
        /\ work'[t].failed = failed /\ work'[t].cookie = c
        /\ work'[t].drawn = work[t].drawn
  BY FindInMysqlEffect
<1>4. Drawn' = Drawn BY <1>1, <1>2, <1>3, SparesQuietly
<1>5. SoughtOK(t) /\ work[t].drawn = NoId BY <1>2, Context DEF DirectoryOK
<1>6. SoughtOK(t)' BY <1>2, <1>3, <1>4, <1>5 DEF SoughtOK, Cached
<1>7. DrawnOK(t)' /\ PutOK(t)' BY <1>3, <1>5 DEF DrawnOK, PutOK, Served
<1>8. QED BY <1>1, <1>2, <1>3, <1>6, <1>7, QuietDirectory

LEMMA ReloadDirectory ==
  ASSUME StoreInv, DirectoryInv, NEW t \in Threads, Reload(t) PROVE DirectoryInv'
<1> DEFINE c == work[t].cookie
<1>1. Keeps(t) BY ReloadKeeps
<1>2. work[t].at = "reload" /\ UNCHANGED <<cache, db, issued>> BY DEF Reload, At
<1>3. work[t].drawn = NoId BY <1>2, Context
<1>4. CASE cache[c] # NoSession
  <2>1. work' = work BY <1>4 DEF Reload
  <2>2. DrawnOK(t)' /\ SoughtOK(t)' /\ PutOK(t)'
    BY <1>2, <1>3, <2>1 DEF DrawnOK, SoughtOK, PutOK, Served
  <2>3. QED BY <1>1, <1>2, <2>1, <2>2, QuietDirectory
<1>5. CASE cache[c] = NoSession
  <2>1. Holding(t, "reloadPut", Allocated) BY <1>5 DEF Reload
  <2>2. /\ Len(objects) + 1 \in Nat /\ Allocated \in 0 .. Len(objects) + 1
        /\ work \in [Threads -> Locals(Len(objects) + 1)]
    BY Control, LocalsGrow DEF Allocated
  <2>3. work'[t].at = "reloadPut" /\ work'[t].drawn = work[t].drawn
    BY <2>1, <2>2, HoldingEffect DEF Steps
  <2>4. DrawnOK(t)' /\ SoughtOK(t)' /\ PutOK(t)'
    BY <1>3, <2>3 DEF DrawnOK, SoughtOK, PutOK, Served
  <2>5. QED BY <1>1, <1>2, <2>3, <2>4, QuietDirectory
<1>6. QED BY <1>4, <1>5

(* The steps of the login.                                                  *)
LEMMA LoginDirectory ==
  ASSUME StoreInv, DirectoryInv, NEW t \in Threads, Authorize(t) PROVE DirectoryInv'
<1>1. Keeps(t)
  BY NoCredentialsKeeps, SnapshotKeeps, WrongKeeps, RightKeeps DEF Authorize
<1>2. UNCHANGED <<cache, db, issued>> /\ work[t].at \in Served
  BY DEF Authorize, NoCredentials, Snapshot, Wrong, Right, historyVars, At, Served
<1>3. /\ work'[t].at \in Served /\ work'[t].drawn = work[t].drawn
      /\ work'[t].session = work[t].session
  BY Control
  DEF Authorize, NoCredentials, Snapshot, Wrong, Right, GoTo, Locals, Served
<1>4. work[t].drawn = NoId /\ work[t].session \in DOMAIN objects
  BY <1>2, Context DEF Served, HasSession
<1>5. Mine(t)'.id = Mine(t).id BY <1>1, <1>3, <1>4 DEF Keeps, Grown, Mine
<1>6. PutOK(t)' BY <1>2, <1>5, Context DEF DirectoryOK, PutOK
<1>7. DrawnOK(t)' /\ SoughtOK(t)' BY <1>3, <1>4 DEF DrawnOK, SoughtOK, Served
<1>8. QED BY <1>1, <1>2, <1>3, <1>6, <1>7, QuietDirectory

LEMMA ReloadPutDirectory ==
  ASSUME StoreInv, DirectoryInv, NEW t \in Threads, ReloadPut(t) PROVE DirectoryInv'
<1> DEFINE c == work[t].cookie
<1>1. Keeps(t) BY ReloadPutKeeps
<1>2. /\ work[t].at = "reloadPut" /\ UNCHANGED <<db, issued, objects>>
      /\ cache' = [cache EXCEPT ![c] = work[t].session] /\ GoTo(t, "login")
  BY DEF ReloadPut, At, historyVars
<1>3. /\ c \in db /\ c \in Ids /\ Mine(t).id = c /\ work[t].drawn = NoId
      /\ work[t].session \in DOMAIN objects
  BY <1>2, Context DEF RequestInv, HasSession
<1>4. work[t].session # NoSession BY <1>3, Control, ObjectsTyped DEF NoSession
<1>5. /\ work'[t].at = "login" /\ work'[t].drawn = work[t].drawn
      /\ work'[t].session = work[t].session
  BY <1>2, Control, GoToEffect DEF Steps
<1>6. /\ cache \in [Ids -> 0 .. Len(objects)] /\ cache'[c] = work[t].session
      /\ \A i \in Ids \ {c} : cache'[i] = cache[i]
  BY <1>2, <1>3, Control, StateTyped
<1>7. Drawn' = Drawn
  <2>1. \A u \in Threads : work'[u].drawn = work[u].drawn BY <1>1, <1>5 DEF Keeps
  <2>2. QED BY <2>1 DEF Drawn
<1>8. Spares BY <1>2, <1>3, <1>4, <1>6, <1>7 DEF Spares
<1>9. Mine(t)'.id = c BY <1>2, <1>3, <1>5 DEF Mine
<1>10. PutOK(t)' BY <1>4, <1>6, <1>9 DEF PutOK
<1>11. DrawnOK(t)' /\ SoughtOK(t)' BY <1>3, <1>5 DEF DrawnOK, SoughtOK
<1>12. GivenOK(t)' BY <1>2, <1>3, <1>5, Context, IdsAssumption DEF GivenOK
<1>13. QED BY <1>1, <1>8, <1>10, <1>11, <1>12, DirectoryKept DEF DirectoryOK

(* An id that was issued is drawn only while another thread has drawn it too. *)
LEMMA DrawOf ==
  ASSUME StoreInv, NEW t \in Threads, Generate(t)
  PROVE  \E i \in MayDraw(t) :
           /\ work' = [work EXCEPT ![t].at = "put", ![t].session = Allocated,
                                   ![t].drawn = i]
           /\ work'[t].at = "put" /\ work'[t].session = Allocated /\ work'[t].drawn = i
           /\ work'[t].cookie = work[t].cookie /\ Allocate(i)
<1>1. PICK first \in MayDraw(t), second \in MayDraw(t) :
        LET i == IF cache[first] # NoSession THEN second ELSE first IN
        /\ Allocate(i)
        /\ work' = [work EXCEPT ![t].at = "put", ![t].session = Allocated, ![t].drawn = i]
  BY DEF Generate
<1> DEFINE i == IF cache[first] # NoSession THEN second ELSE first
<1>2. /\ i \in MayDraw(t) /\ Allocate(i)
      /\ work' = [work EXCEPT ![t].at = "put", ![t].session = Allocated, ![t].drawn = i]
  BY <1>1
<1> HIDE DEF i
<1>3. work \in [Threads -> Locals(Len(objects))] BY Control
<1>4. /\ work'[t].at = "put" /\ work'[t].session = Allocated /\ work'[t].drawn = i
      /\ work'[t].cookie = work[t].cookie
  BY <1>2, <1>3 DEF Locals
<1>5. QED BY <1>2, <1>4

LEMMA GenerateDirectory ==
  ASSUME StoreInv, DirectoryInv, NEW t \in Threads, Generate(t) PROVE DirectoryInv'
<1>1. Keeps(t) BY GenerateKeeps
<1>2. UNCHANGED <<cache, db, issued>> BY DEF Generate, historyVars
<1>3. PICK i \in MayDraw(t) : work'[t].at = "put" /\ work'[t].drawn = i
  BY DrawOf
<1>4. i \in issued => i \in Drawn BY <1>3 DEF MayDraw, InUse, Drawn
<1>5. Drawn' \subseteq Drawn \cup {i} BY <1>1, <1>3, DrawnAfter
<1>6. Spares BY <1>2, <1>4, <1>5 DEF Spares
<1>7. DrawnOK(t)' /\ SoughtOK(t)' /\ PutOK(t)'
  BY <1>3 DEF DrawnOK, SoughtOK, PutOK, Served
<1>8. GivenOK(t)'
  <2> SUFFICES ASSUME i \in issued PROVE cache[i] # NoSession
    BY <1>2, <1>3 DEF GivenOK
  <2>1. PICK u \in Threads : work[u].drawn = i BY <1>4 DEF Drawn
  <2>2. QED BY <2>1, Context DEF DirectoryOK, GivenOK
<1>9. QED BY <1>1, <1>6, <1>7, <1>8, DirectoryKept DEF DirectoryOK

LEMMA GeneratePutDirectory ==
  ASSUME StoreInv, DirectoryInv, NEW t \in Threads, GeneratePut(t) PROVE DirectoryInv'
<1> DEFINE i == work[t].drawn
<1>1. Keeps(t) BY GeneratePutKeeps
<1>2. /\ work[t].at = "put" /\ UNCHANGED <<db, issued, objects>>
      /\ cache' = [cache EXCEPT ![i] = work[t].session] /\ GoTo(t, "insert")
  BY DEF GeneratePut, At, historyVars
<1>3. i \in Ids /\ Mine(t).id = i /\ work[t].session \in DOMAIN objects
  BY <1>2, Context DEF RequestInv, HasSession
<1>4. work[t].session # NoSession BY <1>3, Control, ObjectsTyped DEF NoSession
<1>5. /\ work'[t].at = "insert" /\ work'[t].drawn = i
      /\ work'[t].session = work[t].session
  BY <1>2, Control, GoToEffect DEF Steps
<1>6. /\ cache \in [Ids -> 0 .. Len(objects)] /\ cache'[i] = work[t].session
      /\ \A j \in Ids \ {i} : cache'[j] = cache[j]
  BY <1>2, <1>3, Control, StateTyped
<1>7. Drawn' = Drawn /\ i \in Drawn
  <2>1. \A u \in Threads : work'[u].drawn = work[u].drawn BY <1>1, <1>5 DEF Keeps
  <2>2. QED BY <2>1 DEF Drawn
<1> HIDE DEF i
<1>8. Spares BY <1>2, <1>3, <1>4, <1>6, <1>7 DEF Spares
<1>9. Mine(t)'.id = i BY <1>2, <1>3, <1>5 DEF Mine
<1>10. PutOK(t)' /\ GivenOK(t)' BY <1>4, <1>5, <1>6, <1>9 DEF PutOK, GivenOK
<1>11. DrawnOK(t)' /\ SoughtOK(t)' BY <1>5 DEF DrawnOK, SoughtOK
<1>12. QED BY <1>1, <1>8, <1>10, <1>11, DirectoryKept DEF DirectoryOK

LEMMA InsertDirectory ==
  ASSUME StoreInv, DirectoryInv, NEW t \in Threads, Insert(t) PROVE DirectoryInv'
<1> DEFINE i == work[t].drawn
<1>1. Keeps(t) BY InsertKeeps
<1>2. /\ work[t].at = "insert" /\ UNCHANGED <<cache, issued, objects>>
      /\ db' \subseteq db \cup {i}
      /\ work' = [work EXCEPT ![t].at = "login", ![t].drawn = NoId]
  BY DEF Insert, At
<1>3. i \in Ids /\ i \in Drawn BY <1>2, Context DEF RequestInv, HasSession, Drawn
<1>4. /\ work'[t].at = "login" /\ work'[t].drawn = NoId
      /\ work'[t].session = work[t].session
  BY <1>2, Control DEF Locals
<1>5. Drawn' \subseteq Drawn \cup {NoId} BY <1>1, <1>4, DrawnAfter
<1>6. NoId \notin issued BY Context, IdsAssumption
<1> HIDE DEF i
<1>7. Spares BY <1>2, <1>3, <1>5, <1>6 DEF Spares
<1>8. Mine(t)' = Mine(t) BY <1>2, <1>4 DEF Mine
<1>9. PutOK(t)' BY <1>2, <1>8, Context DEF DirectoryOK, PutOK
<1>10. DrawnOK(t)' /\ SoughtOK(t)' /\ GivenOK(t)'
  BY <1>2, <1>4, <1>6 DEF DrawnOK, SoughtOK, GivenOK
<1>11. QED BY <1>1, <1>7, <1>9, <1>10, DirectoryKept DEF DirectoryOK

(* The id that is issued has been put into the cache.                       *)
LEMMA AnswerDirectory ==
  ASSUME StoreInv, DirectoryInv, NEW t \in Threads, Answer(t) PROVE DirectoryInv'
<1>1. Keeps(t) BY AnswerKeeps
<1>2. /\ work[t].at = "answer" /\ UNCHANGED <<cache, db, objects>>
      /\ issued' = issued \cup {Mine(t).id}
      /\ work' = [work EXCEPT ![t] = Free]
  BY DEF Answer, At
<1>3. cache[Mine(t).id] # NoSession /\ Mine(t).id \in Ids
  BY <1>2, Context DEF DirectoryOK, PutOK, Served, HasSession
<1>4. work'[t].at = "free" /\ work'[t].drawn = NoId
  BY <1>2, Control DEF Free
<1>5. Drawn' \subseteq Drawn \cup {NoId} BY <1>1, <1>4, DrawnAfter
<1>6. NoId \notin issued /\ NoId \notin issued' BY <1>2, <1>3, Context, IdsAssumption
<1>7. Spares BY <1>2, <1>3, <1>5, <1>6 DEF Spares
<1>8. DrawnOK(t)' /\ SoughtOK(t)' /\ PutOK(t)' /\ GivenOK(t)'
  BY <1>4, <1>6 DEF DrawnOK, SoughtOK, PutOK, GivenOK, Served
<1>9. QED BY <1>1, <1>7, <1>8, DirectoryKept DEF DirectoryOK

LEMMA RestartDirectory ==
  ASSUME StoreInv, Restart PROVE DirectoryInv'
<1>1. \A t \in Threads : work'[t] = Free BY DEF Restart
<1>2. issued' \subseteq Ids BY Control, StateTyped DEF Restart
<1>3. Free.at = "free" /\ Free.drawn = NoId BY DEF Free
<1>4. QED
  BY <1>1, <1>2, <1>3, IdsAssumption
  DEF DirectoryInv, DirectoryOK, DrawnOK, SoughtOK, PutOK, GivenOK, Served

LEMMA DirectoryInitially == Init => DirectoryInv
<1> SUFFICES ASSUME Init PROVE DirectoryInv OBVIOUS
<1>1. \A t \in Threads : work[t] = Free BY DEF Init
<1>2. Free.at = "free" /\ Free.drawn = NoId /\ issued = {} BY DEF Free, Init
<1>3. QED
  BY <1>1, <1>2
  DEF DirectoryInv, DirectoryOK, DrawnOK, SoughtOK, PutOK, GivenOK, Served

LEMMA DirectoryStep == StoreInv /\ DirectoryInv /\ [Next]_vars => DirectoryInv'
<1> SUFFICES ASSUME StoreInv, DirectoryInv, [Next]_vars PROVE DirectoryInv'
  OBVIOUS
<1>1. CASE Restart BY <1>1, RestartDirectory
<1>2. ASSUME NEW t \in Threads, Serve(t) PROVE DirectoryInv'
  <2>1. CASE Begin(t) BY <2>1, BeginDirectory
  <2>2. CASE FindSession(t)
    BY <2>2, FindInCacheDirectory, FindInMysqlDirectory, ReloadDirectory,
       ReloadPutDirectory, GenerateDirectory, GeneratePutDirectory, InsertDirectory
    DEF FindSession
  <2>3. CASE Authorize(t) BY <2>3, LoginDirectory
  <2>4. CASE Answer(t) BY <2>4, AnswerDirectory
  <2>5. QED BY <1>2, <2>1, <2>2, <2>3, <2>4 DEF Serve
<1>3. CASE UNCHANGED vars
  BY <1>3
  DEF vars, DirectoryInv, DirectoryOK, DrawnOK, SoughtOK, PutOK, GivenOK, Drawn,
      Cached, Mine
<1>4. QED BY <1>1, <1>2, <1>3 DEF Next

-----------------------------------------------------------------------------
(* Each step is one of the directory's, or none *)

LEMMA ServedRecord ==
  ASSUME NEW t \in Threads
  PROVE  /\ ServedAs(t) = [at |-> Stage(t), cookie |-> work[t].cookie, id |-> ServedAs(t).id]
         /\ ServedAs(t).at = Stage(t) /\ ServedAs(t).cookie = work[t].cookie
         /\ work[t].session = NoSession => ServedAs(t).id = NoId
         /\ work[t].session # NoSession => ServedAs(t).id = Mine(t).id
BY DEF ServedAs

(* Where a request with its session is served, by the step of its thread.   *)
LEMMA StageOf ==
  ASSUME StoreInv, NEW t \in Threads
  PROVE  /\ work[t].at = "free" => Stage(t) = "free"
         /\ work[t].at \in {"find", "query", "reload"} => Stage(t) = "asked" /\ ~work[t].failed
         /\ work[t].at = "generate" =>
              Stage(t) = IF work[t].failed THEN "failed" ELSE "asked"
         /\ work[t].at \in {"put", "insert"} => Stage(t) = "writing"
         /\ work[t].at \in Served \cup {"reloadPut"} => Stage(t) = "served"
         /\ work[t].at \in HasSession <=> work[t].session # NoSession
<1>1. RequestInv(t) /\ work[t].at \in Steps BY Control DEF StoreInv, Locals
<1>2. 0 \notin DOMAIN objects BY Control, ObjectsTyped
<1>3. work[t].at \in HasSession <=> work[t].session # NoSession
  BY <1>1, <1>2 DEF RequestInv, NoSession
<1>4. work[t].at \in {"find", "query", "reload"} => ~work[t].failed
  BY <1>1 DEF RequestInv
<1>5. QED BY <1>1, <1>3, <1>4 DEF Stage, At, Served, HasSession, Steps

LEMMA ServedElsewhere ==
  ASSUME StoreInv, NEW t \in Threads, Keeps(t), NEW u \in Threads \ {t}
  PROVE  ServedAs(u)' = ServedAs(u)
<1>1. work'[u] = work[u] BY DEF Keeps
<1>2. work[u].session # NoSession => work[u].session \in DOMAIN objects
  BY DEF StoreInv, RequestInv
<1>3. work[u].session # NoSession => Mine(u)'.id = Mine(u).id
  BY <1>1, <1>2 DEF Keeps, Grown, Mine
<1>4. QED BY <1>1, <1>3 DEF ServedAs, Stage, At

(* A step of t as the directory sees it: its request alone changes.         *)
LEMMA ServingAfter ==
  ASSUME StoreInv, NEW t \in Threads, Keeps(t),
         NEW r, ServedAs(t)' = r
  PROVE  [u \in Threads |-> ServedAs(u)]' =
           [[u \in Threads |-> ServedAs(u)] EXCEPT ![t] = r]
<1>1. \A u \in Threads \ {t} : ServedAs(u)' = ServedAs(u) BY ServedElsewhere
<1>2. QED BY <1>1

LEMMA NoDirectoryStep ==
  ASSUME StoreInv, NEW t \in Threads, Keeps(t), ServedAs(t)' = ServedAs(t),
         Known' = Known, UNCHANGED <<db, issued>>
  PROVE  UNCHANGED Directory!directoryVars
<1>1. \A u \in Threads : ServedAs(u)' = ServedAs(u) BY ServedElsewhere
<1>2. QED BY <1>1 DEF Directory!directoryVars

(* What is known changes only with cache, table and draws.                  *)
LEMMA KnownQuietly ==
  ASSUME NEW t \in Threads, Keeps(t), work'[t].drawn = work[t].drawn,
         UNCHANGED <<cache, db, issued>>
  PROVE  Known' = Known
<1>1. Drawn' = Drawn BY SparesQuietly
<1>2. QED BY <1>1 DEF Known

LEMMA BeginAsks ==
  ASSUME StoreInv, DirectoryInv, NEW t \in Threads, Begin(t) PROVE Directory!Ask(t)
<1>1. Keeps(t) BY BeginKeeps
<1>2. work[t].at = "free" /\ UNCHANGED <<cache, db, issued, objects>> BY DEF Begin, At
<1>3. PICK c \in issued \cup {NoId} :
        work' = [work EXCEPT ![t] = [Free EXCEPT !.at = "find", !.cookie = c]]
  BY DEF Begin
<1>4. /\ work'[t].at = "find" /\ work'[t].cookie = c
      /\ work'[t].session = NoSession /\ work'[t].drawn = NoId
      /\ work'[t].failed = FALSE
  BY <1>3, Control DEF Free
<1>5. Known' = Known BY <1>1, <1>2, <1>4, Context, KnownQuietly
<1>6. ServedAs(t)' = [at |-> "asked", cookie |-> c, id |-> NoId]
  BY <1>4 DEF ServedAs, Stage, At
<1>7. ServedAs(t).at = "free" BY <1>2, ServedRecord, StageOf
<1>8. QED BY <1>1, <1>2, <1>5, <1>6, <1>7, ServingAfter DEF Directory!Ask

(* The session of the cookie is found.                                      *)
LEMMA Finds ==
  ASSUME StoreInv, NEW t \in Threads, Keeps(t), UNCHANGED <<db, issued>>,
         Known' = Known, Stage(t) = "asked", work[t].cookie \in Known,
         work'[t].cookie = work[t].cookie, Stage(t)' = "served",
         work'[t].session # NoSession, Mine(t)'.id = work[t].cookie
  PROVE  Directory!Find(t)
<1> DEFINE r == [at |-> "served", cookie |-> work[t].cookie, id |-> work[t].cookie]
<1>1. ServedAs(t)' = r BY DEF ServedAs
<1>2. ServedAs(t).at = "asked" /\ ServedAs(t).cookie = work[t].cookie BY ServedRecord
<1> HIDE DEF r
<1>3. [u \in Threads |-> ServedAs(u)]' =
        [[u \in Threads |-> ServedAs(u)] EXCEPT ![t] = r]
  BY <1>1, ServingAfter
<1>4. QED BY <1>2, <1>3 DEF Directory!Find, Directory!Goes, r

LEMMA FindInCacheFinds ==
  ASSUME StoreInv, DirectoryInv, NEW t \in Threads, FindInCache(t)
  PROVE  Directory!Find(t) \/ UNCHANGED Directory!directoryVars
<1> DEFINE c == work[t].cookie
<1>1. Keeps(t) BY FindInCacheKeeps
<1>2. /\ work[t].at = "find" /\ UNCHANGED <<cache, db, issued, objects>>
      /\ IF Cached(c) # NoSession THEN Holding(t, "login", Cached(c)) ELSE GoTo(t, "query")
  BY DEF FindInCache, At, historyVars
<1>3. Stage(t) = "asked" /\ work[t].session = NoSession
  BY <1>2, StageOf DEF HasSession
<1>4. CASE Cached(c) # NoSession
  <2>1. c \in Ids /\ Cached(c) = cache[c]
    BY <1>2, <1>4, Context DEF Cached, RequestInv
  <2>2. cache[c] \in DOMAIN objects /\ objects[cache[c]].id = c
    BY <1>4, <2>1, Context DEF CacheInv
  <2>3. cache[c] \in 0 .. Len(objects) BY <2>1, Context, StateTyped
  <2>4. /\ work'[t].at = "login" /\ work'[t].session = cache[c]
        /\ work'[t].drawn = work[t].drawn /\ work'[t].cookie = c
    BY <1>2, <1>4, <2>1, <2>3, Control, HoldingEffect DEF Steps
  <2>5. Known' = Known BY <1>1, <1>2, <2>4, KnownQuietly
  <2>6. Mine(t)'.id = c BY <1>2, <2>2, <2>4 DEF Mine
  <2>7. c \in Known BY <1>4, <2>1 DEF Known
  <2>8. Stage(t)' = "served" /\ work'[t].session # NoSession
    BY <1>4, <2>1, <2>4 DEF Stage, At
  <2>9. QED BY <1>1, <1>2, <1>3, <2>4, <2>5, <2>6, <2>7, <2>8, Finds
<1>5. CASE Cached(c) = NoSession
  <2>1. /\ work'[t].at = "query" /\ work'[t].cookie = c
        /\ work'[t].drawn = work[t].drawn /\ work'[t].session = work[t].session
        /\ work'[t].failed = work[t].failed
    BY <1>2, <1>5, Control, GoToEffect DEF Steps
  <2>2. Known' = Known BY <1>1, <1>2, <2>1, KnownQuietly
  <2>3. ServedAs(t)' = ServedAs(t) BY <1>2, <1>3, <2>1 DEF ServedAs, Stage, At
  <2>4. QED BY <1>1, <1>2, <2>2, <2>3, NoDirectoryStep
<1>6. QED BY <1>4, <1>5

(* A SELECT that fails is a failure of the directory, any other is no step.  *)
LEMMA FindInMysqlFails ==
  ASSUME StoreInv, DirectoryInv, NEW t \in Threads, FindInMysql(t)
  PROVE  Directory!Fail(t) \/ UNCHANGED Directory!directoryVars
<1> DEFINE S == [u \in Threads |-> ServedAs(u)]
           c == work[t].cookie
<1>1. Keeps(t) BY FindInMysqlKeeps
<1>2. work[t].at = "query" /\ UNCHANGED <<cache, db, issued>>
  BY DEF FindInMysql, At, historyVars
<1>3. PICK failed \in BOOLEAN :
        /\ work'[t].at = IF ~failed /\ c \in db THEN "reload" ELSE "generate"
        /\ work'[t].failed = failed /\ work'[t].cookie = c
        /\ work'[t].drawn = work[t].drawn /\ work'[t].session = work[t].session
  BY FindInMysqlEffect
<1>4. work[t].session = NoSession /\ Stage(t) = "asked" /\ ~work[t].failed
  BY <1>2, StageOf DEF HasSession
<1>5. Known' = Known BY <1>1, <1>2, <1>3, KnownQuietly
<1>6. CASE failed
  <2>1. ServedAs(t)' = [at |-> "failed", cookie |-> c, id |-> NoId]
    BY <1>3, <1>4, <1>6 DEF ServedAs, Stage, At
  <2>2. S' = [S EXCEPT ![t] = [at |-> "failed", cookie |-> c, id |-> NoId]]
    BY <1>1, <2>1, ServingAfter
  <2>3. S[t].at = "asked" /\ S[t].cookie = c BY <1>4, ServedRecord
  <2>4. Directory!Goes(t, "failed", NoId) BY <2>2, <2>3 DEF Directory!Goes
  <2>5. QED BY <1>2, <1>5, <2>3, <2>4 DEF Directory!Fail
<1>7. CASE ~failed
  <2>1. ServedAs(t)' = ServedAs(t)
    BY <1>2, <1>3, <1>4, <1>7 DEF ServedAs, Stage, At
  <2>2. QED BY <1>1, <1>2, <1>5, <2>1, NoDirectoryStep
<1>8. QED BY <1>6, <1>7

LEMMA ReloadFinds ==
  ASSUME StoreInv, DirectoryInv, NEW t \in Threads, Reload(t)
  PROVE  Directory!Find(t) \/ UNCHANGED Directory!directoryVars
<1> DEFINE c == work[t].cookie
<1>1. Keeps(t) BY ReloadKeeps
<1>2. work[t].at = "reload" /\ UNCHANGED <<cache, db, issued>> BY DEF Reload, At
<1>3. Stage(t) = "asked" /\ c \in db /\ c \in Ids /\ c \in Known
  BY <1>2, Context, StageOf DEF RequestInv, Known
<1>4. CASE cache[c] # NoSession
  <2>1. work' = work /\ objects' = objects BY <1>4 DEF Reload
  <2>2. ServedAs(t)' = ServedAs(t) BY <2>1 DEF ServedAs, Stage, At, Mine
  <2>3. Known' = Known BY <1>1, <1>2, <2>1, KnownQuietly
  <2>4. QED BY <1>1, <1>2, <2>2, <2>3, NoDirectoryStep
<1>5. CASE cache[c] = NoSession
  <2>1. Holding(t, "reloadPut", Allocated) /\ Allocate(c) /\ RoomForSession
    BY <1>5 DEF Reload
  <2>2. /\ Len(objects) + 1 \in Nat /\ Allocated \in 0 .. Len(objects) + 1
        /\ work \in [Threads -> Locals(Len(objects) + 1)]
    BY Control, LocalsGrow DEF Allocated
  <2>3. /\ work'[t].at = "reloadPut" /\ work'[t].session = Allocated
        /\ work'[t].drawn = work[t].drawn /\ work'[t].cookie = c
    BY <2>1, <2>2, HoldingEffect DEF Steps
  <2>4. Allocated # NoSession /\ objects'[Allocated].id = c
    BY <1>3, <2>1, Control, AllocateEffect
  <2>5. Stage(t)' = "served" /\ work'[t].session # NoSession /\ Mine(t)'.id = c
    BY <2>3, <2>4 DEF Stage, At, Mine
  <2>6. Known' = Known BY <1>1, <1>2, <2>3, KnownQuietly
  <2>7. QED BY <1>1, <1>2, <1>3, <2>3, <2>5, <2>6, Finds
<1>6. QED BY <1>4, <1>5

LEMMA ReloadPutQuiet ==
  ASSUME StoreInv, DirectoryInv, NEW t \in Threads, ReloadPut(t)
  PROVE  UNCHANGED Directory!directoryVars
<1> DEFINE c == work[t].cookie
<1>1. Keeps(t) BY ReloadPutKeeps
<1>2. /\ work[t].at = "reloadPut" /\ UNCHANGED <<db, issued, objects>>
      /\ cache' = [cache EXCEPT ![c] = work[t].session] /\ GoTo(t, "login")
  BY DEF ReloadPut, At, historyVars
<1>3. c \in db /\ c \in Ids /\ work[t].session # NoSession
  BY <1>2, Context, StageOf DEF RequestInv, HasSession
<1>4. /\ work'[t].at = "login" /\ work'[t].cookie = c
      /\ work'[t].drawn = work[t].drawn /\ work'[t].session = work[t].session
  BY <1>2, Control, GoToEffect DEF Steps
<1>5. \A i \in Ids \ {c} : cache'[i] = cache[i]
  BY <1>2, <1>3, Control, StateTyped
<1>6. Drawn' = Drawn
  <2>1. \A u \in Threads : work'[u].drawn = work[u].drawn BY <1>1, <1>4 DEF Keeps
  <2>2. QED BY <2>1 DEF Drawn
<1>7. Known' = Known BY <1>2, <1>3, <1>5, <1>6 DEF Known
<1>8. ServedAs(t)' = ServedAs(t) BY <1>2, <1>3, <1>4 DEF ServedAs, Stage, At, Mine
<1>9. QED BY <1>1, <1>2, <1>7, <1>8, NoDirectoryStep

(* The id another thread has just drawn is that of a session being written. *)
LEMMA DrawnIsBeingWritten ==
  ASSUME StoreInv, DirectoryInv, NEW u \in Threads, work[u].drawn \in Ids
  PROVE  ServedAs(u).at = "writing" /\ ServedAs(u).id = work[u].drawn
<1>1. work[u].at \in {"put", "insert"}
  BY IdsAssumption DEF DirectoryInv, DirectoryOK, DrawnOK
<1>2. RequestInv(u) BY DEF StoreInv
<1>3. work[u].session # NoSession /\ Mine(u).id = work[u].drawn
  BY <1>1, <1>2, StageOf DEF RequestInv, HasSession
<1>4. QED BY <1>1, <1>3, ServedRecord, StageOf

(* A new session's id is nobody's, or another thread is drawing it too.     *)
LEMMA DrawIsNew ==
  ASSUME StoreInv, DirectoryInv, NEW t \in Threads, NEW i \in MayDraw(t)
  PROVE  /\ i \in Ids
         /\ \/ i \notin Known \cup issued
            \/ \E u \in Threads \ {t} :
                 ServedAs(u).at = "writing" /\ ServedAs(u).id = i
<1>1. CASE i \in Ids \ InUse
  <2>1. cache[i] = NoSession BY <1>1, Context DEF CacheInv, InUse
  <2>2. QED BY <1>1, <2>1 DEF Known, InUse
<1>2. CASE i \in Ids /\ \E u \in Threads \ {t} : work[u].drawn = i
  BY <1>2, DrawnIsBeingWritten
<1>3. QED BY <1>1, <1>2 DEF MayDraw

LEMMA GenerateIsNew ==
  ASSUME StoreInv, DirectoryInv, NEW t \in Threads, Generate(t)
  PROVE  Directory!New(t)
<1> DEFINE S == [u \in Threads |-> ServedAs(u)]
<1>1. Keeps(t) BY GenerateKeeps
<1>2. /\ work[t].at = "generate" /\ UNCHANGED <<cache, db, issued>> /\ RoomForSession
  BY DEF Generate, historyVars, At
<1>3. PICK i \in MayDraw(t) :
        /\ work'[t].at = "put" /\ work'[t].session = Allocated
        /\ work'[t].drawn = i /\ work'[t].cookie = work[t].cookie /\ Allocate(i)
  BY DrawOf
<1>4. i \in Ids BY DrawIsNew
<1>5. Allocated # NoSession /\ objects'[Allocated].id = i
  BY <1>2, <1>3, <1>4, Control, AllocateEffect
<1>6. ServedAs(t)' = [at |-> "writing", cookie |-> work[t].cookie, id |-> i]
  BY <1>3, <1>5 DEF ServedAs, Stage, At, Mine
<1>7. /\ ServedAs(t).at = IF work[t].failed THEN "failed" ELSE "asked"
      /\ ServedAs(t).cookie = work[t].cookie
  BY <1>2, ServedRecord, StageOf
<1>8. work[t].cookie \notin Known \/ work[t].failed
  BY <1>2, Context, IdsAssumption DEF DirectoryOK, SoughtOK, Known, Cached
<1>9. Known' = Known \cup {i}
  <2>1. work[t].drawn = NoId BY <1>2, Context
  <2>2. /\ Drawn' \subseteq Drawn \cup {i} /\ Drawn \subseteq Drawn' \cup {NoId}
        /\ i \in Drawn'
    BY <1>1, <1>3, <2>1, DrawnAfter
  <2>3. QED BY <1>2, <1>4, <2>2, IdsAssumption DEF Known
<1>10. S' = [S EXCEPT ![t] = [at |-> "writing", cookie |-> work[t].cookie, id |-> i]]
  BY <1>1, <1>6, ServingAfter
<1>11. i \in (Ids \ (Known \cup issued)) \cup Directory!BeingWritten(t)
  BY <1>4, DrawIsNew DEF Directory!BeingWritten
<1>12. /\ \/ S[t].at = "asked" /\ S[t].cookie \notin Known
          \/ S[t].at = "failed"
       /\ S[t].cookie = work[t].cookie
  BY <1>7, <1>8
<1>13. Directory!Goes(t, "writing", i) BY <1>10, <1>12 DEF Directory!Goes
<1>14. QED BY <1>2, <1>9, <1>11, <1>12, <1>13 DEF Directory!New

LEMMA GeneratePutQuiet ==
  ASSUME StoreInv, DirectoryInv, NEW t \in Threads, GeneratePut(t)
  PROVE  UNCHANGED Directory!directoryVars
<1> DEFINE i == work[t].drawn
<1>1. Keeps(t) BY GeneratePutKeeps
<1>2. /\ work[t].at = "put" /\ UNCHANGED <<db, issued, objects>>
      /\ cache' = [cache EXCEPT ![i] = work[t].session] /\ GoTo(t, "insert")
  BY DEF GeneratePut, At, historyVars
<1>3. i \in Ids /\ i \in Drawn /\ work[t].session # NoSession
  BY <1>2, Context, StageOf DEF RequestInv, HasSession, Drawn
<1>4. /\ work'[t].at = "insert" /\ work'[t].cookie = work[t].cookie
      /\ work'[t].drawn = i /\ work'[t].session = work[t].session
  BY <1>2, Control, GoToEffect DEF Steps
<1>5. \A j \in Ids \ {i} : cache'[j] = cache[j]
  BY <1>2, <1>3, Control, StateTyped
<1>6. Drawn' = Drawn
  <2>1. \A u \in Threads : work'[u].drawn = work[u].drawn BY <1>1, <1>4 DEF Keeps
  <2>2. QED BY <2>1 DEF Drawn
<1>7. ServedAs(t)' = ServedAs(t) BY <1>2, <1>3, <1>4 DEF ServedAs, Stage, At, Mine
<1> HIDE DEF i
<1>8. Known' = Known BY <1>2, <1>3, <1>5, <1>6 DEF Known
<1>9. QED BY <1>1, <1>2, <1>7, <1>8, NoDirectoryStep

(* The cache holds the id by then, so that it is known if INSERT fails.     *)
LEMMA InsertWrites ==
  ASSUME StoreInv, DirectoryInv, NEW t \in Threads, Insert(t)
  PROVE  Directory!Write(t)
<1> DEFINE i == work[t].drawn
           S == [u \in Threads |-> ServedAs(u)]
<1>1. Keeps(t) BY InsertKeeps
<1>2. /\ work[t].at = "insert" /\ UNCHANGED <<cache, issued, objects>>
      /\ db' \in {db, db \cup {i}}
      /\ work' = [work EXCEPT ![t].at = "login", ![t].drawn = NoId]
  BY DEF Insert, At
<1>3. /\ i \in Ids /\ Mine(t).id = i /\ cache[i] # NoSession
      /\ work[t].session # NoSession
  BY <1>2, Context, StageOf DEF RequestInv, HasSession, DirectoryOK, PutOK
<1>4. /\ work'[t].at = "login" /\ work'[t].drawn = NoId
      /\ work'[t].session = work[t].session /\ work'[t].cookie = work[t].cookie
  BY <1>2, Control DEF Locals
<1>5. ServedAs(t)' = [at |-> "served", cookie |-> work[t].cookie, id |-> i]
  BY <1>2, <1>3, <1>4 DEF ServedAs, Stage, At, Mine
<1>6. S[t].at = "writing" /\ S[t].id = i /\ S[t].cookie = work[t].cookie
  BY <1>2, <1>3, ServedRecord, StageOf
<1>7. Drawn' \subseteq Drawn \cup {NoId} /\ Drawn \subseteq Drawn' \cup {i}
  BY <1>1, <1>4, DrawnAfter
<1>8. S' = [S EXCEPT ![t] = [at |-> "served", cookie |-> work[t].cookie, id |-> i]]
  BY <1>1, <1>5, ServingAfter
<1> HIDE DEF i
<1>9. Known' = Known
  <2>1. db \subseteq db' /\ db' \subseteq db \cup {i} /\ i \in Known
    BY <1>2, <1>3 DEF Known
  <2>2. QED BY <1>2, <1>3, <1>7, <2>1, IdsAssumption DEF Known
<1>10. Directory!Goes(t, "served", S[t].id) BY <1>6, <1>8 DEF Directory!Goes
<1>11. QED BY <1>2, <1>6, <1>9, <1>10 DEF Directory!Write

LEMMA LoginQuiet ==
  ASSUME StoreInv, DirectoryInv, NEW t \in Threads, Authorize(t)
  PROVE  UNCHANGED Directory!directoryVars
<1>1. Keeps(t)
  BY NoCredentialsKeeps, SnapshotKeeps, WrongKeeps, RightKeeps DEF Authorize
<1>2. UNCHANGED <<cache, db, issued>> /\ work[t].at \in Served
  BY DEF Authorize, NoCredentials, Snapshot, Wrong, Right, historyVars, At, Served
<1>3. /\ work'[t].at \in Served /\ work'[t].drawn = work[t].drawn
      /\ work'[t].session = work[t].session /\ work'[t].cookie = work[t].cookie
  BY Control
  DEF Authorize, NoCredentials, Snapshot, Wrong, Right, GoTo, Locals, Served
<1>4. work[t].session \in DOMAIN objects /\ work[t].session # NoSession
  BY <1>2, Context, StageOf DEF Served, HasSession
<1>5. Mine(t)'.id = Mine(t).id BY <1>1, <1>3, <1>4 DEF Keeps, Grown, Mine
<1>6. Stage(t)' = Stage(t) BY <1>2, <1>3, <1>4 DEF Stage, At, Served
<1>7. ServedAs(t)' = ServedAs(t) BY <1>3, <1>5, <1>6 DEF ServedAs
<1>8. Known' = Known BY <1>1, <1>2, <1>3, KnownQuietly
<1>9. QED BY <1>1, <1>2, <1>7, <1>8, NoDirectoryStep

LEMMA AnswerGives ==
  ASSUME StoreInv, DirectoryInv, NEW t \in Threads, Answer(t)
  PROVE  Directory!Give(t)
<1>1. Keeps(t) BY AnswerKeeps
<1>2. /\ work[t].at = "answer" /\ UNCHANGED <<cache, db, objects>>
      /\ issued' = issued \cup {Mine(t).id}
      /\ work' = [work EXCEPT ![t] = Free]
  BY DEF Answer, At
<1>3. work'[t] = Free BY <1>2, Control
<1>4. ServedAs(t)' = Directory!Nothing
  BY <1>3 DEF ServedAs, Stage, At, Free, Directory!Nothing
<1>5. ServedAs(t).at = "served" /\ ServedAs(t).id = Mine(t).id
  BY <1>2, ServedRecord, StageOf DEF Served, HasSession
<1>6. work[t].drawn = NoId /\ work'[t].drawn = NoId
  BY <1>2, <1>3, Context DEF Free
<1>7. Drawn' = Drawn
  <2>1. \A u \in Threads : work'[u].drawn = work[u].drawn BY <1>1, <1>6 DEF Keeps
  <2>2. QED BY <2>1 DEF Drawn
<1>8. Known' = Known BY <1>2, <1>7 DEF Known
<1>9. QED BY <1>1, <1>2, <1>4, <1>5, <1>8, ServingAfter DEF Directory!Give

LEMMA RestartCrashes ==
  ASSUME StoreInv, Restart PROVE Directory!Crash
<1>1. /\ \A t \in Threads : work'[t] = Free
      /\ cache' = [i \in Ids |-> NoSession] /\ UNCHANGED <<db, issued>>
  BY DEF Restart
<1>2. \A t \in Threads : ServedAs(t)' = Directory!Nothing
  BY <1>1 DEF ServedAs, Stage, At, Free, Directory!Nothing
<1>3. Drawn' \subseteq {NoId} BY <1>1 DEF Drawn, Free
<1>4. Known' = db BY <1>1, <1>3, IdsAssumption DEF Known
<1>5. QED BY <1>1, <1>2, <1>4 DEF Directory!Crash

LEMMA DirectoryImplemented ==
  StoreInv /\ DirectoryInv /\ [Next]_vars
    => [Directory!DirectoryNext]_(Directory!directoryVars)
<1> SUFFICES ASSUME StoreInv, DirectoryInv, [Next]_vars
             PROVE  [Directory!DirectoryNext]_(Directory!directoryVars)
  OBVIOUS
<1>1. CASE Restart BY <1>1, RestartCrashes DEF Directory!DirectoryNext
<1>2. ASSUME NEW t \in Threads, Serve(t)
      PROVE  [Directory!DirectoryNext]_(Directory!directoryVars)
  <2>1. CASE Begin(t) BY <2>1, BeginAsks DEF Directory!DirectoryNext
  <2>2. CASE FindSession(t)
    BY <2>2, FindInCacheFinds, FindInMysqlFails, ReloadFinds, ReloadPutQuiet,
       GenerateIsNew, GeneratePutQuiet, InsertWrites
    DEF FindSession, Directory!DirectoryNext
  <2>3. CASE Authorize(t) BY <2>3, LoginQuiet
  <2>4. CASE Answer(t) BY <2>4, AnswerGives DEF Directory!DirectoryNext
  <2>5. QED BY <1>2, <2>1, <2>2, <2>3, <2>4 DEF Serve
<1>3. CASE UNCHANGED vars
  BY <1>3 DEF vars, Directory!directoryVars, ServedAs, Stage, At, Mine, Known, Drawn
<1>4. QED BY <1>1, <1>2, <1>3 DEF Next

(* findSession gives each request its session as if in one step, whatever    *)
(* other threads and restarts do between the steps it really takes: that of  *)
(* its cookie if cache or table have the id and can be read, else a new one. *)
THEOREM Directed == Spec => ImplementsDirectory
<1>1. Init => Directory!DirectoryInit
  <2> SUFFICES ASSUME Init PROVE Directory!DirectoryInit OBVIOUS
  <2>1. \A t \in Threads : ServedAs(t) = Directory!Nothing
    BY DEF Init, ServedAs, Stage, At, Free, Directory!Nothing
  <2>2. Known = {} BY IdsAssumption DEF Init, Known, Drawn, Free
  <2>3. QED BY <2>1, <2>2 DEF Init, Directory!DirectoryInit
<1>2. Spec => []DirectoryInv
  BY DirectoryInitially, DirectoryStep, Store, PTL DEF Spec
<1>3. QED
  BY <1>1, <1>2, Store, DirectoryImplemented, PTL
  DEF Spec, ImplementsDirectory, Directory!DirectorySpec

=============================================================================
