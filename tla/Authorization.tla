----------------------------- MODULE Authorization -----------------------------
(***************************************************************************)
(* The authorization middleware                                            *)
(* (src/src/middleware/authorizationmiddleware.cpp) from the request to    *)
(* the bytes of the answer: the check of a login against a cache of        *)
(* passwords and the table behind it, the error counter of the session,    *)
(* and the response that is put together on the way.                       *)
(*                                                                         *)
(* The threads of the server share the cache, the table and the sessions;  *)
(* a request is several steps of its thread.  A query may fail, and an     *)
(* administrator may change a password in the table.                       *)
(***************************************************************************)
EXTENDS HttpResponse, FiniteSets

CONSTANTS
  Threads,      \* threads of the server
  Sessions,     \* sessions that requests may belong to
  Names,        \* names in logins
  Users,        \* those of them that are in the table
  Passwords,    \* passwords
  NoPassword,   \* the empty string
  Page, Other,  \* contents that a callback sets
  CacheSize,    \* passwords the cache holds
  Limit,        \* wrong logins until 403: 3 in the code
  MaxRequests,  \* bound: requests ever served
  MaxChanges    \* bound: changes of a password

ASSUME AuthorizationAssumption ==
  /\ Sessions # {} /\ Names # {}
  /\ Users \subseteq Names /\ NoPassword \notin Passwords
  /\ CacheSize \in Nat \ {0} /\ Limit \in Nat \ {0}
  /\ MaxRequests \in Nat /\ MaxChanges \in Nat

VARIABLES
  table,    \* user_name_password
  cache,    \* m_caches: passwords by name, NoPassword for none
  errors,   \* per session: Error_time, or Absent
  work,     \* per thread: the request it serves
  response, \* per thread: the HttpResponse on its stack
  served,   \* requests served
  changes,  \* changes of the table
  had,      \* history: the passwords a user ever had
  answer    \* history: the last answer

vars == <<table, cache, errors, work, response, served, changes, had, answer>>

Absent == -1

Free == [at |-> "free", session |-> CHOOSE s \in Sessions : TRUE,
         name |-> CHOOSE n \in Names : TRUE, given |-> NoPassword, steady |-> FALSE,
         failed |-> FALSE, password |-> NoPassword, seen |-> Absent]

Steps == {"free", "begin", "check", "query", "put", "judge", "right", "wrong", "route", "send"}

Contents == {NoContent, Page, Other}

\* The bodies of 401 and 403
Zek       == [text |-> "zek", size |-> 3]
Forbidden == [text |-> "forbidden", size |-> 172]

\* A content and its terminator fit into a size_t
ASSUME ContentsAssumption ==
  /\ SizeMax \in Nat
  /\ \A c \in {Page, Other, Zek, Forbidden} : c.size \in Nat /\ c.size < SizeMax

TypeOK ==
  /\ table \in [Users -> Passwords]
  /\ cache \in [Names -> Passwords \cup {NoPassword}]
  /\ errors \in [Sessions -> {Absent} \cup 0 .. MaxRequests]
  /\ work \in [Threads ->
       [at : Steps, session : Sessions, name : Names,
        given : Passwords \cup {NoPassword}, steady : BOOLEAN, failed : BOOLEAN,
        password : Passwords \cup {NoPassword}, seen : {Absent} \cup 0 .. MaxRequests]]
  /\ \A t \in Threads :
       response[t].len <= SizeMax /\ response[t].capacity <= SizeMax
  /\ served \in 0 .. MaxRequests /\ changes \in 0 .. MaxChanges

Init ==
  /\ table \in [Users -> Passwords]
  /\ cache = [n \in Names |-> NoPassword]
  /\ errors = [s \in Sessions |-> Absent]
  /\ work = [t \in Threads |-> Free]
  /\ response = [t \in Threads |-> HttpResponseNew]
  /\ served = 0 /\ changes = 0
  /\ had = [n \in Names |-> IF n \in Users THEN {table[n]} ELSE {}]
  /\ answer = [login |-> "none", body |-> NoContent, set |-> NoContent, code |-> "000",
               clean |-> TRUE]

At(t, step) == work[t].at = step
GoTo(t, step) == work' = [work EXCEPT ![t].at = step]
shared == <<table, cache, errors, changes, had>>

-----------------------------------------------------------------------------
(* A request comes, with or without a login *)

Arrive(t) ==
  /\ At(t, "free") /\ served < MaxRequests
  /\ served' = served + 1
  /\ \E s \in Sessions :
       work' = [work EXCEPT ![t] = [Free EXCEPT !.at = "begin", !.session = s]]
  /\ response' = [response EXCEPT ![t] = HttpResponseNew]
  /\ UNCHANGED <<shared, answer>>

\* create401HttpResponse and create403HttpResponse
Create401(r) == [SetContent(Reset(r), Zek) EXCEPT !.code = "401"]
Create403(r) == SetContent([Reset(r) EXCEPT !.code = "403"], Forbidden)

\* No Authorization header
NoCredentials(t) ==
  /\ At(t, "begin")
  /\ GoTo(t, "send")
  /\ response' = [response EXCEPT ![t] = Create401(@)]
  /\ UNCHANGED <<shared, served, answer>>

\* A login, decoded: a right one for as long as nobody changes the table is steady
Login(t) ==
  /\ At(t, "begin")
  /\ \E n \in Names, p \in Passwords :
       work' = [work EXCEPT ![t].at = "check", ![t].name = n, ![t].given = p,
                            ![t].steady = had[n] = {p}]
  /\ UNCHANGED <<shared, response, served, answer>>

-----------------------------------------------------------------------------
(* AuthorizationMiddleWare::getNameAndPassword *)

CheckCache(t) ==
  LET p == cache[work[t].name] IN
  /\ At(t, "check")
  /\ work' = [work EXCEPT ![t].at = IF p = NoPassword THEN "query" ELSE "judge",
                          ![t].password = p]
  /\ UNCHANGED <<shared, response, served, answer>>

\* findInMysql: a row, or nothing, because there is none or the query failed
FindInMysql(t) ==
  LET n == work[t].name IN
  /\ At(t, "query")
  /\ \/ /\ n \in Users
        /\ work' = [work EXCEPT ![t].at = "put", ![t].password = table[n]]
     \/ /\ n \notin Users
        /\ GoTo(t, "judge")
     \/ work' = [work EXCEPT ![t].at = "judge", ![t].failed = TRUE]
  /\ UNCHANGED <<shared, response, served, answer>>

Held == {n \in Names : cache[n] # NoPassword}

\* The cache makes room by itself
Put(t) ==
  LET n == work[t].name IN
  /\ At(t, "put")
  /\ \E out \in IF n \in Held \/ Cardinality(Held) < CacheSize THEN {n} ELSE Held :
       cache' = [cache EXCEPT ![out] = NoPassword, ![n] = work[t].password]
  /\ GoTo(t, "judge")
  /\ UNCHANGED <<table, errors, changes, had, response, served, answer>>

-----------------------------------------------------------------------------
(* AuthorizationMiddleWare::forware, after the check *)

\* What-if variant: a user that is found is let through
CorrectKnown(t) == work[t].password # NoPassword

\* What-if variant: the login is compared with the entry of the cache
CorrectCached(t) == cache[work[t].name] # NoPassword /\ cache[work[t].name] = work[t].given

Correct(t) == work[t].password # NoPassword /\ work[t].password = work[t].given

\* The counter is read under the shared lock
Judge(t) ==
  /\ At(t, "judge")
  /\ work' = [work EXCEPT ![t].at = IF Correct(t) THEN "right" ELSE "wrong",
                          ![t].seen = errors[work[t].session]]
  /\ UNCHANGED <<shared, response, served, answer>>

\* What-if variant: setData counts as well
CountedTwice(t, s) == IF errors[s] = Absent THEN 1 ELSE errors[s] + 2

\* setData makes a counter if there is none, and the error is counted
Counted(t, s) ==
  IF work[t].seen = Absent /\ errors[s] = Absent THEN 1 ELSE errors[s] + 1

\* Under the exclusive lock
Wrong(t) ==
  LET s == work[t].session
      n == Counted(t, s)
  IN
  /\ At(t, "wrong")
  /\ errors' = [errors EXCEPT ![s] = n]
  /\ response' = [response EXCEPT ![t] =
       IF n >= Limit THEN Create403(@) ELSE Create401(@)]
  /\ GoTo(t, "send")
  /\ UNCHANGED <<table, cache, changes, had, served, answer>>

Right(t) ==
  LET s == work[t].session IN
  /\ At(t, "right")
  /\ errors' = IF work[t].seen > 0 THEN [errors EXCEPT ![s] = 0] ELSE errors
  /\ GoTo(t, "route")
  /\ UNCHANGED <<table, cache, changes, had, response, served, answer>>

-----------------------------------------------------------------------------
(* The route and the answer *)

\* A callback sets its content once, or again to replace what it set
Callback(t) ==
  /\ At(t, "route")
  /\ \E c \in Contents, again \in Contents :
       \E r \in {SetContent(response[t], c), SetContent(SetContent(response[t], c), again)} :
         response' = [response EXCEPT ![t] = [r EXCEPT !.code = "200"]]
  /\ GoTo(t, "send")
  /\ UNCHANGED <<shared, served, answer>>

\* No callback: the answer is a literal, and the response is not used
NotFound(t) ==
  /\ At(t, "route")
  /\ response' = [response EXCEPT ![t].code = "404"]
  /\ GoTo(t, "send")
  /\ UNCHANGED <<shared, served, answer>>

\* createResponse and send; then the response on the stack is destroyed
Send(t) ==
  LET w == work[t] IN
  /\ At(t, "send")
  /\ answer' = [login |-> IF w.given = NoPassword THEN "none"
                          ELSE IF w.failed THEN "unchecked"
                          ELSE IF w.steady THEN "steady"
                          ELSE IF w.given \in had[w.name] THEN "had" ELSE "never",
                body |-> CreateResponse(response[t]), set |-> response[t].set,
                code |-> response[t].code,
                clean |-> GivenBack(Destroy(response[t]))]
  /\ work' = [work EXCEPT ![t] = Free]
  /\ response' = [response EXCEPT ![t] = HttpResponseNew]
  /\ UNCHANGED <<shared, served>>

\* Somebody changes a password in the table
ChangePassword ==
  /\ changes < MaxChanges
  /\ changes' = changes + 1
  /\ \E n \in Users, p \in Passwords :
       /\ table' = [table EXCEPT ![n] = p]
       /\ had' = [had EXCEPT ![n] = @ \cup {p}]
       /\ work' = [t \in Threads |-> [work[t] EXCEPT !.steady = @ /\ work[t].name # n]]
  /\ UNCHANGED <<cache, errors, response, served, answer>>

Serve(t) ==
  \/ Arrive(t) \/ NoCredentials(t) \/ Login(t)
  \/ CheckCache(t) \/ FindInMysql(t) \/ Put(t)
  \/ Judge(t) \/ Wrong(t) \/ Right(t) \/ Callback(t) \/ NotFound(t)
  \/ Send(t)

Next == ChangePassword \/ \E t \in Threads : Serve(t)

Spec == Init /\ [][Next]_vars

-----------------------------------------------------------------------------
(* Properties *)

\* The authorization consented: the route was taken
LetThrough == answer.code \in {"200", "404"}

\* A login is let through only with a password that its user has, or had when
\* the cache took it over: never on the word of another thread's login.
AcceptedByTable == LetThrough => answer.login \in {"steady", "had"}

\* A right login, with a password nobody has changed, is refused only if its
\* own query failed, whatever other threads put into the cache or drop from it
\* between its steps; a failed query of an earlier request leaves no trace.
RightIsAccepted == answer.login = "steady" => LetThrough

\* What is sent is the content that was set last, as a whole, and 401 and 403
\* come with the content whose length their headers announce as a constant; the
\* block it was in is given back once, with the size it was taken with, and no
\* copy went beyond it, on every path a request takes.
ResponseSound ==
  /\ answer.body = answer.set
  /\ answer.code = "401" => answer.body = Zek
  /\ answer.code = "403" => answer.body = Forbidden
  /\ answer.clean

=============================================================================
