------------------------------ MODULE MysqlPool ------------------------------
(***************************************************************************)
(* MysqlConnectionPool (src/src/mysql/mysqlpool.cpp) with the handles it   *)
(* lends out (src/src/mysql/mysqlconnection.cpp).                          *)
(*                                                                         *)
(* Event-loop threads (Clients) borrow a connection with                   *)
(* getMysqlConnection and give it back when the MysqlUniquePtr leaves      *)
(* scope (MysqlConnectionDeleter).  A maintenance thread takes every idle  *)
(* connection out of the pool, pings it, reconnects it if need be, gives   *)
(* it back and sleeps.  Everything shared is guarded by m_mutex, so each   *)
(* critical section is one action; a wait on m_condition_variable releases *)
(* the mutex and is therefore a state of its own.                          *)
(***************************************************************************)
EXTENDS Integers, Sequences, FiniteSets, Functions

CONSTANTS
  Clients,       \* the threads that borrow connections
  PoolSize,      \* m_mysql_connection_count
  Acquisitions,  \* bound: how often each client borrows
  None           \* the null MysqlUniquePtr

Conns == 1 .. PoolSize    \* connections, named in the order they are built

ASSUME ClientsAssumption == IsFiniteSet(Clients) /\ Clients # {}
ASSUME SizeAssumption    == PoolSize \in Nat \ {0} /\ Acquisitions \in Nat
ASSUME NoneAssumption    == None \notin Conns \cup Clients

VARIABLES
  idle,        \* m_connections: queue of idle connections
  built,       \* m_mysql_connection_connected_count
  pc,          \* where each client is in getMysqlConnection
  held,        \* the connection each client owns
  todo,        \* acquisitions each client still makes
  cpc,         \* where checkThreadMainFuntion is
  checking,    \* its local queue `connections`
  inspecting,  \* its local `connection`
  link         \* state of each MYSQL handle

clientVars  == <<pc, held, todo>>
checkerVars == <<cpc, checking, inspecting>>
poolVars == <<idle, built, clientVars, checkerVars, link>>

ClientStates  == {"outside", "waiting", "woken", "using"}
CheckerStates == {"swap", "take", "ping", "reconnect", "return", "sleep"}
\* "closed": mysql_close has freed the handle and nothing initialised it again
LinkStates == {"up", "down", "closed"}

Waiting == {t \in Clients : pc[t] = "waiting"}
Woken   == {t \in Clients : pc[t] = "woken"}
Holders == {t \in Clients : held[t] # None}

PoolTypeOK ==
  /\ idle \in Seq(Conns)
  /\ built \in 0 .. PoolSize
  /\ pc \in [Clients -> ClientStates]
  /\ held \in [Clients -> Conns \cup {None}]
  /\ todo \in [Clients -> 0 .. Acquisitions]
  /\ cpc \in CheckerStates
  /\ checking \in Seq(Conns)
  /\ inspecting \in Conns \cup {None}
  /\ link \in [Conns -> LinkStates]

PoolInit ==
  /\ idle = <<>> /\ built = 0
  /\ pc = [t \in Clients |-> "outside"]
  /\ held = [t \in Clients |-> None]
  /\ todo = [t \in Clients |-> Acquisitions]
  /\ cpc = "swap" /\ checking = <<>> /\ inspecting = None
  /\ link = [c \in Conns |-> "up"]

-----------------------------------------------------------------------------
(* Borrowing: getMysqlConnection and requireBuildMysqlConnection *)

\* What-if variant: the build test compares with the limit one too late
BuildDueOffByOne == built # PoolSize + 1

\* requireBuildMysqlConnection builds until the limit is reached, whether or
\* not a connection is idle
BuildDue == built # PoolSize

\* m_connections and the counter after requireBuildMysqlConnection
IdleAfterBuild  == IF BuildDue THEN Append(idle, built + 1) ELSE idle
BuiltAfterBuild == IF BuildDue THEN built + 1 ELSE built

\* A call that finds a connection once it has built one if it may
GetNow(t) ==
  /\ pc[t] = "outside" /\ todo[t] > 0
  /\ IdleAfterBuild # <<>>
  /\ idle' = Tail(IdleAfterBuild)
  /\ built' = BuiltAfterBuild
  /\ held' = [held EXCEPT ![t] = Head(IdleAfterBuild)]
  /\ pc' = [pc EXCEPT ![t] = "using"]
  /\ todo' = [todo EXCEPT ![t] = @ - 1]
  /\ UNCHANGED <<checkerVars, link>>

\* A call that finds none: m_condition_variable.wait
GetWait(t) ==
  /\ pc[t] = "outside" /\ todo[t] > 0
  /\ IdleAfterBuild = <<>>
  /\ pc' = [pc EXCEPT ![t] = "waiting"]
  /\ todo' = [todo EXCEPT ![t] = @ - 1]
  /\ UNCHANGED <<idle, built, held, checkerVars, link>>

\* What-if variant: the thread does not leave the loop of wait
ResumeTakeAgain(t) ==
  /\ pc[t] = "woken" /\ idle # <<>>
  /\ idle' = Tail(idle)
  /\ held' = [held EXCEPT ![t] = Head(idle)]
  /\ UNCHANGED <<built, pc, todo, checkerVars, link>>

\* A thread leaves wait holding the mutex and finds a connection
ResumeTake(t) ==
  /\ pc[t] = "woken" /\ idle # <<>>
  /\ idle' = Tail(idle)
  /\ held' = [held EXCEPT ![t] = Head(idle)]
  /\ pc' = [pc EXCEPT ![t] = "using"]
  /\ UNCHANGED <<built, todo, checkerVars, link>>

\* ... or finds that another thread took it, and waits again
ResumeWait(t) ==
  /\ pc[t] = "woken" /\ idle = <<>>
  /\ pc' = [pc EXCEPT ![t] = "waiting"]
  /\ UNCHANGED <<idle, built, held, todo, checkerVars, link>>

\* std::condition_variable::wait may return without a notification
SpuriousWakeup(t) ==
  /\ pc[t] = "waiting"
  /\ pc' = [pc EXCEPT ![t] = "woken"]
  /\ UNCHANGED <<idle, built, held, todo, checkerVars, link>>

-----------------------------------------------------------------------------
(* Giving back: MysqlConnectionDeleter::operator() *)

\* What-if variant: notify only when the queue was empty before the push
NotifyOneIfEmpty(now) ==
  IF idle = <<>> /\ Waiting # {}
  THEN \E w \in Waiting : pc' = [now EXCEPT ![w] = "woken"]
  ELSE pc' = now

\* notify_one wakes one of the waiting threads, if there is one; now is pc as
\* the calling thread leaves it
NotifyOne(now) ==
  IF Waiting # {}
  THEN \E w \in Waiting : pc' = [now EXCEPT ![w] = "woken"]
  ELSE pc' = now

\* A client's MysqlUniquePtr leaves scope
Release(t) ==
  /\ pc[t] = "using"
  /\ idle' = Append(idle, held[t])
  /\ held' = [held EXCEPT ![t] = None]
  /\ NotifyOne([pc EXCEPT ![t] = "outside"])
  /\ UNCHANGED <<built, todo, checkerVars, link>>

-----------------------------------------------------------------------------
(* The maintenance thread: checkThreadMainFuntion *)

\* What-if variant: the queue is copied and not swapped out
CheckSwapCopy ==
  /\ cpc = "swap"
  /\ checking' = idle
  /\ cpc' = "take"
  /\ UNCHANGED <<idle, built, clientVars, inspecting, link>>

\* connections.swap(m_connections) under the mutex
CheckSwap ==
  /\ cpc = "swap"
  /\ checking' = idle /\ idle' = <<>>
  /\ cpc' = "take"
  /\ UNCHANGED <<built, clientVars, inspecting, link>>

\* What-if variant: the loop ends when one connection is left
CheckDoneEarly ==
  /\ cpc = "take" /\ Len(checking) <= 1
  /\ cpc' = "sleep" /\ checking' = <<>>
  /\ UNCHANGED <<idle, built, clientVars, inspecting, link>>

\* The local queue is drained, and the thread sleeps
CheckDone ==
  /\ cpc = "take" /\ checking = <<>>
  /\ cpc' = "sleep" /\ checking' = <<>>
  /\ UNCHANGED <<idle, built, clientVars, inspecting, link>>

CheckTake ==
  /\ cpc = "take" /\ checking # <<>>
  /\ inspecting' = Head(checking) /\ checking' = Tail(checking)
  /\ cpc' = "ping"
  /\ UNCHANGED <<idle, built, clientVars, link>>

\* isConnected: mysql_ping reports, it repairs nothing
\* (MYSQL_OPT_RECONNECT is not set)
CheckPing ==
  /\ cpc = "ping"
  /\ cpc' = IF link[inspecting] = "up" THEN "return" ELSE "reconnect"
  /\ UNCHANGED <<idle, built, clientVars, checking, inspecting, link>>

\* What-if variant: a session is reconnected until a ping finds it up
CheckReconnectAgain ==
  /\ cpc = "reconnect"
  /\ \E outcome \in {"up", "closed"} :
       link' = [link EXCEPT ![inspecting] = outcome]
  /\ cpc' = "ping"
  /\ UNCHANGED <<idle, built, clientVars, checking, inspecting>>

\* reConnect: mysql_close frees the handle of mysql_init and
\* mysql_real_connect uses it; what the freed handle yields is undefined
CheckReconnect ==
  /\ cpc = "reconnect"
  /\ \E outcome \in {"up", "closed"} :
       link' = [link EXCEPT ![inspecting] = outcome]
  /\ cpc' = "return"
  /\ UNCHANGED <<idle, built, clientVars, checking, inspecting>>

\* The local connection leaves scope: the deleter gives it back
CheckReturn ==
  /\ cpc = "return"
  /\ idle' = Append(idle, inspecting)
  /\ inspecting' = None
  /\ NotifyOne(pc)
  /\ cpc' = "take"
  /\ UNCHANGED <<built, held, todo, checking, link>>

CheckSleep ==
  /\ cpc = "sleep"
  /\ cpc' = "swap"
  /\ UNCHANGED <<idle, built, clientVars, checking, inspecting, link>>

-----------------------------------------------------------------------------
\* The database server or the network ends a session
LinkDrops(c) ==
  /\ link[c] = "up"
  /\ link' = [link EXCEPT ![c] = "down"]
  /\ UNCHANGED <<idle, built, clientVars, checkerVars>>

Client(t) ==
  \/ GetNow(t) \/ GetWait(t)
  \/ ResumeTake(t) \/ ResumeWait(t)
  \/ SpuriousWakeup(t)
  \/ Release(t)

Checker ==
  \/ CheckSwap \/ CheckTake \/ CheckPing \/ CheckReconnect \/ CheckReturn
  \/ CheckDone \/ CheckSleep

PoolNext ==
  \/ \E t \in Clients : Client(t)
  \/ Checker
  \/ \E c \in 1 .. built : LinkDrops(c)

PoolSpec == PoolInit /\ [][PoolNext]_poolVars

\* Threads keep running and queries return.  The maintenance thread sleeps ten
\* seconds between two rounds, so a woken thread gets the mutex in between if
\* a connection is there again and again: strong fairness of ResumeTake.
Fairness ==
  /\ \A t \in Clients :
       /\ WF_poolVars(GetNow(t) \/ GetWait(t))
       /\ SF_poolVars(ResumeTake(t))
       /\ WF_poolVars(ResumeWait(t))
       /\ WF_poolVars(Release(t))
  /\ WF_poolVars(Checker)

PoolFairSpec == PoolSpec /\ Fairness

-----------------------------------------------------------------------------
(* Properties *)

\* No MYSQL handle is ever in two hands: not queued twice, not queued while a
\* client runs a query on it, not pinged or closed by the maintenance thread
\* while a client uses it (the handle is not thread safe).
NoSharing ==
  /\ IsInjective(idle) /\ IsInjective(checking)
  /\ Range(idle) \cap Range(checking) = {}
  /\ \A t, u \in Holders : held[t] = held[u] => t = u
  /\ \A t \in Holders :
       held[t] \notin Range(idle) \cup Range(checking) \cup {inspecting}
  /\ inspecting \notin Range(idle) \cup Range(checking)

\* Every connection ever built is idle, lent or under inspection: none leaks,
\* whatever path returns it, so the pool never shrinks below its limit.
NoneLost ==
  built = Len(idle) + Len(checking) + Cardinality(Holders)
            + (IF inspecting = None THEN 0 ELSE 1)

\* While threads wait, each idle connection has a woken thread on its way to
\* it: no notification is lost to a barging getMysqlConnection or to a swap
\* by the maintenance thread.
NoLostWakeup == Waiting # {} => Len(idle) <= Cardinality(Woken)

\* A thread that waits for a connection eventually gets one, although
\* newcomers may overtake it and the maintenance thread may empty the queue
\* between its wake-up and its turn.
WaiterServed == \A t \in Clients : pc[t] \in {"waiting", "woken"} ~> pc[t] = "using"

(***************************************************************************)
(* What the invariants above rest on: the program counters agree with the  *)
(* ownership of connections, no connection is numbered beyond the counter, *)
(* and nobody waits while the pool may still grow.                         *)
(***************************************************************************)
ControlOK ==
  /\ \A t \in Clients : held[t] # None <=> pc[t] = "using"
  /\ inspecting # None <=> cpc \in {"ping", "reconnect", "return"}
  /\ cpc \in {"swap", "sleep"} => checking = <<>>

NumberedByBuild ==
  /\ Range(idle) \cup Range(checking) \subseteq 1 .. built
  /\ \A t \in Holders : held[t] \in 1 .. built
  /\ inspecting # None => inspecting \in 1 .. built

WaitOnlyWhenFull == Waiting \cup Woken # {} => ~BuildDue

\* The inductive invariant of the ownership properties
OwnershipInv == PoolTypeOK /\ ControlOK /\ NumberedByBuild /\ NoSharing

\* ... and of the counting properties
CountingInv == OwnershipInv /\ WaitOnlyWhenFull /\ NoneLost /\ NoLostWakeup

=============================================================================
