---------------------------- MODULE SessionStore ----------------------------
(***************************************************************************)
(* SessionManager (src/src/session/sessionmanager.cpp) and the error       *)
(* counter that AuthorizationMiddleWare keeps in each Session, as          *)
(* HttpServer::sendHttpResponse drives them from several threads.          *)
(*                                                                         *)
(* Each call on the cache (ZekCache::HashCache, external) and each query   *)
(* is atomic; between two of them any other thread may run, because        *)
(* SessionManager holds no lock of its own.  The cache is lost when the    *)
(* program restarts, the database table `cookie` is kept.                  *)
(***************************************************************************)
EXTENDS Integers, Sequences, FiniteSets

CONSTANTS
  Threads,      \* the event-loop threads that serve requests
  Ids,          \* the session ids generateID can yield
  NoId,         \* a request without a cookie, or no id drawn yet
  MaxSessions,  \* bound: Session objects ever allocated
  MaxRequests,  \* bound: requests ever served
  MaxRestarts   \* bound: ends and restarts of the program

ASSUME IdsAssumption    == NoId \notin Ids
ASSUME BoundsAssumption == {MaxSessions, MaxRequests, MaxRestarts} \subseteq Nat

VARIABLES
  cache,     \* m_sessions_caches: for each id the Session object, or NoSession
  db,        \* table `cookie`
  objects,   \* every Session allocated since the start, by its number
  work,      \* the request each thread serves
  issued,    \* ids that answers carried in Set-Cookie
  unsaved,   \* ids whose INSERT failed
  aborted,   \* an assertion failed and the program is gone
  requests, restarts,
  answer     \* the latest verdict on a login: session, code, errors before it

vars == <<cache, db, objects, work, issued, unsaved, aborted, requests, restarts, answer>>

NoSession == 0
Limit  == 3    \* wrong logins that make a 403
Absent == -1   \* the session has no data under "Error_time"

Steps == {"free", "find", "query", "reload", "reloadPut", "generate", "put",
          "insert", "login", "wrong", "right", "answer"}

\* failed: the SELECT for the cookie of this request failed
Free == [at |-> "free", cookie |-> NoId, session |-> NoSession, drawn |-> NoId,
         seen |-> Absent, failed |-> FALSE]

\* errors is the datum "Error_time"; wrongs (history) counts the wrong logins
\* since a right one last cleared the datum
NewSession(id) == [id |-> id, errors |-> Absent, wrongs |-> 0]

Counts == Nat \cup {Absent}

\* What names a session names one that was allocated since the start
TypeOK ==
  /\ cache \in [Ids -> 0 .. Len(objects)]
  /\ db \subseteq Ids /\ issued \subseteq Ids /\ unsaved \subseteq Ids
  /\ objects \in Seq([id : Ids, errors : Counts, wrongs : Nat])
  /\ Len(objects) <= MaxSessions
  /\ work \in [Threads -> [at : Steps, cookie : Ids \cup {NoId},
                           session : 0 .. Len(objects), drawn : Ids \cup {NoId},
                           seen : Counts, failed : BOOLEAN]]
  /\ aborted \in BOOLEAN
  /\ requests \in 0 .. MaxRequests /\ restarts \in 0 .. MaxRestarts
  /\ answer \in [session : 0 .. Len(objects), code : {"none", "401", "403"},
                 wrongs : Nat]

NoAnswer == [session |-> NoSession, code |-> "none", wrongs |-> 0]

Init ==
  /\ cache = [i \in Ids |-> NoSession] /\ db = {} /\ objects = <<>>
  /\ work = [t \in Threads |-> Free]
  /\ issued = {} /\ unsaved = {} /\ aborted = FALSE
  /\ requests = 0 /\ restarts = 0 /\ answer = NoAnswer

At(t, step) == work[t].at = step

\* Thread t goes on to step; with changes its locals as well
GoTo(t, step) == work' = [work EXCEPT ![t].at = step]
Holding(t, step, s) ==
  work' = [work EXCEPT ![t].at = step, ![t].session = s]

\* new Session(id, 60 * 60 * 24): its number
Allocate(id) == objects' = Append(objects, NewSession(id))
Allocated == Len(objects) + 1
RoomForSession == Len(objects) < MaxSessions

historyVars == <<issued, unsaved, aborted, requests, restarts, answer>>

-----------------------------------------------------------------------------
(* SessionManager::findSession *)

\* A request arrives with a cookie that some answer has set, or with none
Begin(t) ==
  /\ At(t, "free") /\ requests < MaxRequests
  /\ \E c \in issued \cup {NoId} :
       work' = [work EXCEPT ![t] = [Free EXCEPT !.at = "find", !.cookie = c]]
  /\ requests' = requests + 1
  /\ UNCHANGED <<cache, db, objects, issued, unsaved, aborted, restarts, answer>>

Cached(id) == IF id = NoId THEN NoSession ELSE cache[id]

FindInCache(t) ==
  /\ At(t, "find")
  /\ IF Cached(work[t].cookie) # NoSession
     THEN Holding(t, "login", Cached(work[t].cookie))
     ELSE GoTo(t, "query")
  /\ UNCHANGED <<cache, db, objects, historyVars>>

\* What-if variant: what the cache does not hold gets a new session
FindInMysqlNever(t) ==
  /\ At(t, "query")
  /\ GoTo(t, "generate")
  /\ UNCHANGED <<cache, db, objects, historyVars>>

\* A SELECT that fails finds as little as one for an id that is not there
FindInMysql(t) ==
  /\ At(t, "query")
  /\ \E failed \in BOOLEAN :
       work' = [work EXCEPT
         ![t].at = IF ~failed /\ work[t].cookie \in db THEN "reload" ELSE "generate",
         ![t].failed = failed]
  /\ UNCHANGED <<cache, db, objects, historyVars>>

\* reloadSession: the assertion that the cache still lacks the id
Reload(t) ==
  /\ At(t, "reload") /\ RoomForSession
  /\ IF cache[work[t].cookie] # NoSession
     THEN aborted' = TRUE /\ UNCHANGED <<work, objects>>
     ELSE /\ Allocate(work[t].cookie) /\ Holding(t, "reloadPut", Allocated)
          /\ aborted' = aborted
  /\ UNCHANGED <<cache, db, issued, unsaved, requests, restarts, answer>>

ReloadPut(t) ==
  /\ At(t, "reloadPut")
  /\ cache' = [cache EXCEPT ![work[t].cookie] = work[t].session]
  /\ GoTo(t, "login")
  /\ UNCHANGED <<db, objects, historyVars>>

Drawn == {work[t].drawn : t \in Threads}
InUse == db \cup issued \cup Drawn \cup {objects[o].id : o \in DOMAIN objects}

\* What-if variant: the engine starts from the same seed after a restart
MayDrawSeeded(t) == Ids \ {objects[o].id : o \in DOMAIN objects}

\* generateID: 32 random digits do not repeat, but the engine is shared by the
\* threads without a lock: two that draw at the same time may draw the same
MayDraw(t) ==
  (Ids \ InUse) \cup {i \in Ids : \E u \in Threads \ {t} : work[u].drawn = i}

\* generateSession: an id the cache holds already is drawn again, unseen
Generate(t) ==
  /\ At(t, "generate") /\ RoomForSession
  /\ \E first \in MayDraw(t), second \in MayDraw(t) :
       LET id == IF cache[first] # NoSession THEN second ELSE first IN
       /\ Allocate(id)
       /\ work' = [work EXCEPT ![t].at = "put", ![t].session = Allocated,
                               ![t].drawn = id]
  /\ UNCHANGED <<cache, db, historyVars>>

GeneratePut(t) ==
  /\ At(t, "put")
  /\ cache' = [cache EXCEPT ![work[t].drawn] = work[t].session]
  /\ GoTo(t, "insert")
  /\ UNCHANGED <<db, objects, historyVars>>

\* What-if variant: the id is never written to the table
InsertForgotten(t) ==
  /\ At(t, "insert")
  /\ work' = [work EXCEPT ![t].at = "login", ![t].drawn = NoId]
  /\ UNCHANGED <<cache, db, objects, historyVars>>

\* insertIntoMysql may fail; generateSession ignores its result
Insert(t) ==
  /\ At(t, "insert")
  /\ \/ db' = db \cup {work[t].drawn} /\ unsaved' = unsaved
     \/ db' = db /\ unsaved' = unsaved \cup {work[t].drawn}
  /\ work' = [work EXCEPT ![t].at = "login", ![t].drawn = NoId]
  /\ UNCHANGED <<cache, objects, issued, aborted, requests, restarts, answer>>

-----------------------------------------------------------------------------
(* AuthorizationMiddleWare::forware *)

Mine(t) == objects[work[t].session]

\* No Authorization header: a 401 that leaves the counter alone
NoCredentials(t) ==
  /\ At(t, "login")
  /\ GoTo(t, "answer")
  /\ UNCHANGED <<cache, db, objects, historyVars>>

\* The credentials are checked, and the counter is read under the shared lock
Snapshot(t) ==
  /\ At(t, "login")
  /\ \E verdict \in {"right", "wrong"} :
       work' = [work EXCEPT ![t].at = verdict, ![t].seen = Mine(t).errors]
  /\ UNCHANGED <<cache, db, objects, historyVars>>

\* What-if variant: setData replaces a counter that exists
CounterFor(t) == IF work[t].seen = Absent THEN 0 ELSE Mine(t).errors

\* The counter to increment: Session::setData makes one, if the snapshot
\* found none and no other thread has made one since
Counter(t) ==
  IF work[t].seen = Absent /\ Mine(t).errors = Absent THEN 0 ELSE Mine(t).errors

\* Under the exclusive lock: increment, then 403 at the limit, else 401
Wrong(t) ==
  /\ At(t, "wrong")
  /\ objects' = [objects EXCEPT ![work[t].session].errors = Counter(t) + 1,
                                ![work[t].session].wrongs = @ + 1]
  /\ answer' = [session |-> work[t].session, wrongs |-> Mine(t).wrongs,
                code |-> IF Counter(t) + 1 >= Limit THEN "403" ELSE "401"]
  /\ GoTo(t, "answer")
  /\ UNCHANGED <<cache, db, issued, unsaved, aborted, requests, restarts>>

\* A right login clears the counter if the snapshot found errors
Right(t) ==
  /\ At(t, "right")
  /\ objects' = IF work[t].seen > 0
                THEN [objects EXCEPT ![work[t].session].errors = 0,
                                     ![work[t].session].wrongs = 0]
                ELSE objects
  /\ GoTo(t, "answer")
  /\ UNCHANGED <<cache, db, historyVars>>

\* CookieMiddleWare::backware runs on every path: Set-Cookie, and the answer
Answer(t) ==
  /\ At(t, "answer")
  /\ issued' = issued \cup {Mine(t).id}
  /\ work' = [work EXCEPT ![t] = Free]
  /\ UNCHANGED <<cache, db, objects, unsaved, aborted, requests, restarts, answer>>

-----------------------------------------------------------------------------
\* The program ends, at an assertion or otherwise, and is started again
Restart ==
  /\ restarts < MaxRestarts
  /\ restarts' = restarts + 1
  /\ cache' = [i \in Ids |-> NoSession] /\ objects' = <<>>
  /\ work' = [t \in Threads |-> Free]
  /\ aborted' = FALSE /\ answer' = NoAnswer
  /\ UNCHANGED <<db, issued, unsaved, requests>>

FindSession(t) ==
  \/ FindInCache(t) \/ FindInMysql(t) \/ Reload(t) \/ ReloadPut(t)
  \/ Generate(t) \/ GeneratePut(t) \/ Insert(t)

Authorize(t) == NoCredentials(t) \/ Snapshot(t) \/ Wrong(t) \/ Right(t)

Serve(t) == Begin(t) \/ FindSession(t) \/ Authorize(t) \/ Answer(t)

Next == Restart \/ (~aborted /\ \E t \in Threads : Serve(t))

Spec == Init /\ [][Next]_vars

-----------------------------------------------------------------------------
(* Properties *)

\* A browser keeps its session: a request whose cookie came from an answer of
\* this server is served in a session with that id, across restarts and
\* whatever other threads do, unless the INSERT of the id failed or the SELECT
\* for this very request did.
CookieHonoured ==
  \A t \in Threads :
    /\ work[t].session # NoSession
    /\ work[t].cookie \in issued \ unsaved
    /\ ~work[t].failed
    => Mine(t).id = work[t].cookie

\* No answer carries an id that the next start of the program would not know,
\* unless its INSERT failed: the id is written before the answer leaves.
IssuedIsDurable == issued \subseteq db \cup unsaved

\* A wrong login is answered 403 exactly from the third on since a right one
\* cleared the counter, although the counter is created, read and incremented
\* in separate critical sections by several threads of one session.
ForbidsAtLimit ==
  answer.code # "none" => (answer.code = "403" <=> answer.wrongs + 1 >= Limit)

\* The assertion in reloadSession: nobody has put the id meanwhile.
ReloadFindsNone == ~aborted

=============================================================================
