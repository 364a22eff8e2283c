-------------------------- MODULE SessionDirectory --------------------------
(***************************************************************************)
(* What the session manager promises the requests of a server: a directory *)
(* of ids that gives each request, in one step, the session of its cookie, *)
(* or else a new one; what was written outlives the program.  Looking an   *)
(* id up may fail, and then the request gets a new session even if its id  *)
(* is known.  Caches, objects and the order of the accesses to them are    *)
(* hidden.                                                                 *)
(***************************************************************************)
CONSTANTS Threads, Ids, NoId

VARIABLES
  known,    \* ids a request is served under if its cookie names one
  durable,  \* those the next start of the program will know
  given,    \* ids that answers carried
  serving   \* per thread: its request, the cookie, the id it is served under

directoryVars == <<known, durable, given, serving>>

Nothing == [at |-> "free", cookie |-> NoId, id |-> NoId]

DirectoryInit ==
  /\ known = {} /\ durable = {} /\ given = {}
  /\ serving = [t \in Threads |-> Nothing]

\* The request of thread t goes on to at and is served under id
Goes(t, at, id) ==
  serving' = [serving EXCEPT ![t] = [at |-> at, cookie |-> serving[t].cookie, id |-> id]]

Ask(t) ==
  /\ serving[t].at = "free"
  /\ \E c \in given \cup {NoId} :
       serving' = [serving EXCEPT ![t] = [at |-> "asked", cookie |-> c, id |-> NoId]]
  /\ UNCHANGED <<known, durable, given>>

Find(t) ==
  /\ serving[t].at = "asked" /\ serving[t].cookie \in known
  /\ Goes(t, "served", serving[t].cookie)
  /\ UNCHANGED <<known, durable, given>>

\* The directory could not be read for this request
Fail(t) ==
  /\ serving[t].at = "asked"
  /\ Goes(t, "failed", NoId)
  /\ UNCHANGED <<known, durable, given>>

\* Ids that other threads are just giving to new sessions: the draws of two
\* threads at the same time may be the same
BeingWritten(t) ==
  {serving[u].id : u \in {v \in Threads \ {t} : serving[v].at = "writing"}}

\* Only for a cookie that is not known, unless the directory could not be
\* read; the id is nobody else's
New(t) ==
  /\ \/ serving[t].at = "asked" /\ serving[t].cookie \notin known
     \/ serving[t].at = "failed"
  /\ \E i \in (Ids \ (known \cup given)) \cup BeingWritten(t) :
       /\ Goes(t, "writing", i)
       /\ known' = known \cup {i}
  /\ UNCHANGED <<durable, given>>

\* The id is written, or writing it fails
Write(t) ==
  /\ serving[t].at = "writing"
  /\ durable' \in {durable, durable \cup {serving[t].id}}
  /\ Goes(t, "served", serving[t].id)
  /\ UNCHANGED <<known, given>>

Give(t) ==
  /\ serving[t].at = "served"
  /\ given' = given \cup {serving[t].id}
  /\ serving' = [serving EXCEPT ![t] = Nothing]
  /\ UNCHANGED <<known, durable>>

Crash ==
  /\ known' = durable
  /\ serving' = [t \in Threads |-> Nothing]
  /\ UNCHANGED <<durable, given>>

DirectoryNext ==
  \/ Crash
  \/ \E t \in Threads :
       Ask(t) \/ Find(t) \/ Fail(t) \/ New(t) \/ Write(t) \/ Give(t)

DirectorySpec == DirectoryInit /\ [][DirectoryNext]_directoryVars

=============================================================================
