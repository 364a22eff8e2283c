------------------------- MODULE AuthorizationProofs -------------------------
(***************************************************************************)
(* Theorems about Authorization for any threads, sessions, names and       *)
(* passwords, and any number of requests and of changes of the table.      *)
(*                                                                         *)
(* RequestInv says what a thread knows of the login it checks at each of   *)
(* its steps, while others fill and empty the cache.  What ties the two is *)
(* that the cache holds nothing a user did not have as password.           *)
(*                                                                         *)
(* ResponseInv says that the two counts of a response's buffer always add  *)
(* up to what was allocated, which is what its invariants need to survive  *)
(* each of the calls a thread makes; CountInv bounds the requests and the  *)
(* failed logins by the steps that were counted.                           *)
(***************************************************************************)
EXTENDS Authorization, SequenceTheorems, FiniteSetTheorems, TLAPS

Maybe  == Passwords \cup {NoPassword}
Locals == [at : Steps, session : Sessions, name : Names, given : Maybe,
           steady : BOOLEAN, failed : BOOLEAN, password : Maybe, seen : Int]

StoreTyped ==
  /\ table \in [Users -> Passwords]
  /\ cache \in [Names -> Maybe]
  /\ errors \in [Sessions -> Int]
  /\ had \in [Names -> SUBSET Passwords]
  /\ work \in [Threads -> Locals]
  /\ DOMAIN response = Threads

\* Table and cache hold passwords their users have, or had
HadInv ==
  /\ \A n \in Users : table[n] \in had[n]
  /\ \A n \in Names : cache[n] # NoPassword => cache[n] \in had[n]
  /\ \A n \in Names \ Users : had[n] = {}

Passed(t) == response[t].code \in {"200", "404"}

\* What has become of the login of thread t
RequestInv(t) ==
  LET w == work[t] IN
  /\ "code" \in DOMAIN response[t]
  /\ w.steady => had[w.name] = {w.given}
  /\ w.at \in {"free", "begin"} => w.given = NoPassword /\ ~w.failed /\ ~w.steady
  /\ w.at \in {"check", "query", "put", "judge", "right", "wrong", "route"}
       => w.given \in Passwords
  /\ w.at \in {"check", "query", "put"} => ~w.failed
  /\ w.at = "query" => w.password = NoPassword
  /\ w.at = "put" => w.password \in had[w.name]
  /\ w.at = "judge" =>
       IF w.password = NoPassword THEN (w.steady => w.failed)
       ELSE w.password \in had[w.name] /\ ~w.failed
  /\ w.at \in {"right", "route"} => w.given \in had[w.name] /\ ~w.failed
  /\ w.at = "wrong" /\ w.steady => w.failed
  /\ w.at = "send" =>
       IF Passed(t) THEN w.given \in had[w.name] /\ ~w.failed
       ELSE w.given = NoPassword \/ w.failed \/ ~w.steady

LoginInv ==
  /\ StoreTyped /\ HadInv
  /\ \A t \in Threads : RequestInv(t)
  /\ AcceptedByTable /\ RightIsAccepted

-----------------------------------------------------------------------------
(* The code of a response while it is put together *)

LEMMA CodeKept ==
  ASSUME NEW r, "code" \in DOMAIN r, NEW c
  PROVE  "code" \in DOMAIN SetContent(r, c) /\ SetContent(r, c).code = r.code
<1>1. ASSUME NEW q, "code" \in DOMAIN q, NEW n
      PROVE  /\ "code" \in DOMAIN Allocate(q, n) /\ Allocate(q, n).code = q.code
             /\ "code" \in DOMAIN Deallocate(q) /\ Deallocate(q).code = q.code
             /\ "code" \in DOMAIN Copy(q, n) /\ Copy(q, n).code = q.code
  BY <1>1 DEF Allocate, Deallocate, Copy
<1>2. "code" \in DOMAIN MakeRoom(r, c.size) /\ MakeRoom(r, c.size).code = r.code
  BY <1>1 DEF MakeRoom
<1>3. QED BY <1>1, <1>2 DEF SetContent

LEMMA Refusals ==
  ASSUME NEW r, "code" \in DOMAIN r
  PROVE  /\ "code" \in DOMAIN Create401(r) /\ Create401(r).code = "401"
         /\ "code" \in DOMAIN Create403(r) /\ Create403(r).code = "403"
<1>1. "code" \in DOMAIN Reset(r)
  BY DEF Reset, Deallocate
<1>2. "code" \in DOMAIN Create401(r) /\ Create401(r).code = "401"
  <2>1. "code" \in DOMAIN SetContent(Reset(r), Zek)
    BY <1>1, CodeKept
  <2>2. QED BY <2>1 DEF Create401
<1>3. "code" \in DOMAIN Create403(r) /\ Create403(r).code = "403"
  <2> DEFINE q == [Reset(r) EXCEPT !.code = "403"]
  <2>1. "code" \in DOMAIN q /\ q.code = "403"
    BY <1>1
  <2> HIDE DEF q
  <2>2. "code" \in DOMAIN SetContent(q, Forbidden) /\ SetContent(q, Forbidden).code = "403"
    BY <2>1, CodeKept
  <2>3. QED BY <2>2 DEF Create403, q
<1>4. QED BY <1>2, <1>3

LEMMA FreshCode ==
  "code" \in DOMAIN HttpResponseNew /\ HttpResponseNew.code = "000"
BY DEF HttpResponseNew

-----------------------------------------------------------------------------
(* One thread moves *)

LEMMA FreeTyped ==
  Free \in Locals /\ Free.at = "free" /\ Free.given = NoPassword
    /\ Free.failed = FALSE /\ Free.steady = FALSE
<1>1. (CHOOSE s \in Sessions : TRUE) \in Sessions /\ (CHOOSE n \in Names : TRUE) \in Names
  BY AuthorizationAssumption
<1>2. QED BY <1>1 DEF Free, Locals, Maybe, Steps, Absent

LEMMA LoginInit == Init => LoginInv
<1> SUFFICES ASSUME Init PROVE LoginInv
  OBVIOUS
<1>1. Users \subseteq Names BY AuthorizationAssumption
<1>2. /\ table \in [Users -> Passwords]
      /\ cache = [n \in Names |-> NoPassword]
      /\ errors = [s \in Sessions |-> Absent]
      /\ work = [t \in Threads |-> Free]
      /\ response = [t \in Threads |-> HttpResponseNew]
      /\ had = [n \in Names |-> IF n \in Users THEN {table[n]} ELSE {}]
      /\ answer.login = "none" /\ answer.code = "000"
  BY DEF Init
<1>3. StoreTyped
  BY <1>1, <1>2, FreeTyped DEF StoreTyped, Maybe, Absent
<1>4. HadInv BY <1>1, <1>2 DEF HadInv
<1>5. \A t \in Threads : RequestInv(t)
  BY <1>2, FreeTyped, FreshCode DEF RequestInv
<1>6. AcceptedByTable /\ RightIsAccepted
  BY <1>2 DEF AcceptedByTable, RightIsAccepted, LetThrough
<1>7. QED BY <1>3, <1>4, <1>5, <1>6 DEF LoginInv

\* A step of thread t that keeps the invariant
Keeps(t) ==
  /\ work' \in [Threads -> Locals] /\ DOMAIN response' = Threads
  /\ \A u \in Threads \ {t} : work'[u] = work[u] /\ response'[u] = response[u]
  /\ table' = table /\ had' = had
  /\ cache' \in [Names -> Maybe] /\ errors' \in [Sessions -> Int]
  /\ \A n \in Names : cache'[n] # NoPassword => cache'[n] \in had[n]
  /\ RequestInv(t)'
  /\ AcceptedByTable' /\ RightIsAccepted'

LEMMA StepOfThread ==
  ASSUME LoginInv, NEW t \in Threads, Keeps(t) PROVE LoginInv'
<1>1. StoreTyped' BY DEF LoginInv, StoreTyped, Keeps
<1>2. HadInv' BY DEF LoginInv, HadInv, Keeps
<1>3. ASSUME NEW u \in Threads \ {t} PROVE RequestInv(u)'
  <2>1. RequestInv(u) BY DEF LoginInv
  <2>2. work'[u] = work[u] /\ response'[u] = response[u] /\ had' = had
    BY DEF Keeps
  <2>3. QED BY <2>1, <2>2 DEF RequestInv, Passed
<1>4. QED BY <1>1, <1>2, <1>3 DEF LoginInv, Keeps

(* A step that changes the locals of t alone.                               *)
LEMMA LocalStep ==
  ASSUME LoginInv, NEW t \in Threads,
         work' \in [Threads -> Locals],
         \A u \in Threads \ {t} : work'[u] = work[u],
         UNCHANGED <<shared, response, answer>>, RequestInv(t)'
  PROVE  Keeps(t)
BY DEF shared, LoginInv, StoreTyped, HadInv, AcceptedByTable, RightIsAccepted,
       LetThrough, Keeps

LEMMA GoToEffect ==
  ASSUME work \in [Threads -> Locals], NEW t \in Threads,
         NEW step \in Steps, GoTo(t, step)
  PROVE  /\ work' \in [Threads -> Locals]
         /\ \A u \in Threads \ {t} : work'[u] = work[u]
         /\ work'[t].at = step /\ work'[t].name = work[t].name
         /\ work'[t].given = work[t].given /\ work'[t].steady = work[t].steady
         /\ work'[t].failed = work[t].failed
         /\ work'[t].password = work[t].password
BY DEF GoTo, Locals

-----------------------------------------------------------------------------
(* The steps *)

LEMMA Typed ==
  ASSUME LoginInv
  PROVE  /\ table \in [Users -> Passwords] /\ cache \in [Names -> Maybe]
         /\ errors \in [Sessions -> Int] /\ had \in [Names -> SUBSET Passwords]
         /\ work \in [Threads -> Locals] /\ DOMAIN response = Threads
         /\ Users \subseteq Names /\ NoPassword \notin Passwords
BY AuthorizationAssumption DEF LoginInv, StoreTyped

LEMMA ArriveKeeps ==
  ASSUME LoginInv, NEW t \in Threads, Arrive(t) PROVE Keeps(t)
<1> USE Typed
<1>1. PICK s \in Sessions :
        work' = [work EXCEPT ![t] = [Free EXCEPT !.at = "begin", !.session = s]]
  BY DEF Arrive
<1> DEFINE w == [Free EXCEPT !.at = "begin", !.session = s]
<1>2. w \in Locals
  BY FreeTyped DEF Locals, Steps
<1>3. w.at = "begin" /\ w.given = NoPassword /\ w.failed = FALSE /\ w.steady = FALSE
  BY FreeTyped DEF Locals
<1> HIDE DEF w
<1>4. /\ work' \in [Threads -> Locals] /\ work'[t] = w
      /\ \A u \in Threads \ {t} : work'[u] = work[u]
  BY <1>1, <1>2 DEF w
<1>5. RequestInv(t)'
  <2>1. "code" \in DOMAIN response'[t]
    <3>1. RequestInv(t) BY DEF LoginInv
    <3>2. response' = [response EXCEPT ![t] = HttpResponseNew] BY DEF Arrive
    <3>3. response'[t] \in {HttpResponseNew, response[t]} BY <3>2
    <3>4. QED BY <3>1, <3>3, FreshCode DEF RequestInv
  <2>2. QED BY <1>3, <1>4, <2>1 DEF RequestInv
<1>6. DOMAIN response' = Threads /\ \A u \in Threads \ {t} : response'[u] = response[u]
  BY DEF Arrive
<1>7. QED
  BY <1>4, <1>5, <1>6
  DEF Arrive, shared, LoginInv, HadInv, AcceptedByTable, RightIsAccepted, LetThrough,
      Keeps

(* A step that puts the answer together and leaves the rest.                 *)
LEMMA AnsweringStep ==
  ASSUME LoginInv, NEW t \in Threads, GoTo(t, "send"),
         DOMAIN response' = Threads,
         \A u \in Threads \ {t} : response'[u] = response[u],
         "code" \in DOMAIN response'[t],
         UNCHANGED <<table, cache, had, answer>>, errors' \in [Sessions -> Int],
         IF response'[t].code \in {"200", "404"}
         THEN work[t].given \in had[work[t].name] /\ ~work[t].failed
         ELSE work[t].given = NoPassword \/ work[t].failed \/ ~work[t].steady
  PROVE  Keeps(t)
<1> USE Typed
<1>1. "send" \in Steps BY DEF Steps
<1>2. /\ work' \in [Threads -> Locals]
      /\ \A u \in Threads \ {t} : work'[u] = work[u]
      /\ work'[t].at = "send" /\ work'[t].name = work[t].name
      /\ work'[t].given = work[t].given /\ work'[t].steady = work[t].steady
      /\ work'[t].failed = work[t].failed
  BY <1>1, GoToEffect
<1>3. RequestInv(t)'
  BY <1>2 DEF LoginInv, RequestInv, Passed
<1>4. QED
  BY <1>2, <1>3
  DEF LoginInv, HadInv, AcceptedByTable, RightIsAccepted, LetThrough, Keeps

LEMMA NoCredentialsKeeps ==
  ASSUME LoginInv, NEW t \in Threads, NoCredentials(t) PROVE Keeps(t)
<1> USE Typed
<1>1. /\ work[t].at = "begin" /\ work[t].given = NoPassword
      /\ "code" \in DOMAIN response[t]
  BY DEF NoCredentials, At, LoginInv, RequestInv
<1>2. /\ GoTo(t, "send") /\ response' = [response EXCEPT ![t] = Create401(@)]
      /\ UNCHANGED <<table, cache, errors, had, answer>>
  BY DEF NoCredentials, shared
<1>3. /\ DOMAIN response' = Threads /\ response'[t] = Create401(response[t])
      /\ \A u \in Threads \ {t} : response'[u] = response[u]
  BY <1>2
<1>4. "code" \in DOMAIN response'[t] /\ response'[t].code = "401"
  BY <1>1, <1>3, Refusals
<1>5. QED BY <1>1, <1>2, <1>3, <1>4, AnsweringStep

LEMMA LoginKeeps ==
  ASSUME LoginInv, NEW t \in Threads, Login(t) PROVE Keeps(t)
<1> USE Typed
<1>1. PICK n \in Names, p \in Passwords :
        work' = [work EXCEPT ![t].at = "check", ![t].name = n, ![t].given = p,
                             ![t].steady = had[n] = {p}]
  BY DEF Login
<1>2. PICK b \in BOOLEAN : b = (had[n] = {p})
  OBVIOUS
<1>3. /\ work' \in [Threads -> Locals]
      /\ \A u \in Threads \ {t} : work'[u] = work[u]
      /\ work'[t].at = "check" /\ work'[t].name = n /\ work'[t].given = p
      /\ work'[t].steady = b /\ work'[t].failed = work[t].failed
  <2> DEFINE v == [work[t] EXCEPT !.at = "check", !.name = n]
             w == [v EXCEPT !.given = p, !.steady = b]
  <2>1. work[t] \in Locals OBVIOUS
  <2>2. v \in Locals /\ v.at = "check" /\ v.name = n /\ v.failed = work[t].failed
    BY <2>1 DEF Locals, Steps
  <2>3. p \in Maybe BY DEF Maybe
  <2>4. work' = [work EXCEPT ![t] = w]
    BY <1>1, <1>2
  <2> HIDE DEF v
  <2>5. w \in Locals /\ w.at = "check" /\ w.name = n /\ w.failed = work[t].failed
        /\ w.given = p /\ w.steady = b
    BY <2>2, <2>3 DEF Locals
  <2> HIDE DEF w
  <2>6. QED BY <2>4, <2>5
<1>4. ~work[t].failed /\ "code" \in DOMAIN response[t]
  BY DEF Login, At, LoginInv, RequestInv
<1>5. RequestInv(t)'
  BY <1>2, <1>3, <1>4 DEF Login, shared, RequestInv
<1>6. QED BY <1>3, <1>5, LocalStep DEF Login

LEMMA CheckCacheKeeps ==
  ASSUME LoginInv, NEW t \in Threads, CheckCache(t) PROVE Keeps(t)
<1> USE Typed
<1> DEFINE n == work[t].name
           p == cache[n]
           step == IF p = NoPassword THEN "query" ELSE "judge"
<1>1. n \in Names /\ p \in Maybe /\ step \in Steps
  BY DEF Locals, Steps
<1>2. work' = [work EXCEPT ![t].at = step, ![t].password = p]
  BY DEF CheckCache
<1>3. /\ work[t].given \in Passwords /\ ~work[t].failed
      /\ work[t].steady => had[n] = {work[t].given}
      /\ "code" \in DOMAIN response[t]
  BY DEF CheckCache, At, LoginInv, RequestInv
<1>4. p # NoPassword => p \in had[n]
  BY <1>1 DEF LoginInv, HadInv
<1> HIDE DEF n, p, step
<1>5. /\ work' \in [Threads -> Locals]
      /\ \A u \in Threads \ {t} : work'[u] = work[u]
      /\ work'[t].at = step /\ work'[t].name = n /\ work'[t].given = work[t].given
      /\ work'[t].steady = work[t].steady /\ work'[t].failed = work[t].failed
      /\ work'[t].password = p
  BY ZenonT(60), <1>1, <1>2 DEF Locals, n
<1>6. RequestInv(t)'
  BY <1>3, <1>4, <1>5 DEF CheckCache, shared, RequestInv, step
<1>7. QED BY <1>5, <1>6, LocalStep DEF CheckCache

LEMMA FindInMysqlKeeps ==
  ASSUME LoginInv, NEW t \in Threads, FindInMysql(t) PROVE Keeps(t)
<1> USE Typed
<1> DEFINE n == work[t].name
<1>1. /\ work[t].given \in Passwords /\ ~work[t].failed
      /\ work[t].password = NoPassword
      /\ work[t].steady => had[n] = {work[t].given}
      /\ "code" \in DOMAIN response[t]
      /\ n \in Names
  BY DEF FindInMysql, At, LoginInv, RequestInv, Locals
<1>2. UNCHANGED <<shared, response, answer>>
  BY DEF FindInMysql
<1>3. CASE n \in Users /\ work' = [work EXCEPT ![t].at = "put", ![t].password = table[n]]
  <2>1. table[n] \in Passwords /\ table[n] \in had[n]
    BY <1>3 DEF LoginInv, HadInv
  <2> DEFINE p == table[n]
  <2>0. p \in Maybe /\ work' = [work EXCEPT ![t].at = "put", ![t].password = p]
    BY <1>3, <2>1 DEF Maybe
  <2> HIDE DEF n, p
  <2>2. /\ work' \in [Threads -> Locals]
        /\ \A u \in Threads \ {t} : work'[u] = work[u]
        /\ work'[t].at = "put" /\ work'[t].name = work[t].name
        /\ work'[t].given = work[t].given /\ work'[t].steady = work[t].steady
        /\ work'[t].failed = work[t].failed /\ work'[t].password = p
    <3> DEFINE w == [work[t] EXCEPT !.at = "put", !.password = p]
    <3>1. /\ w \in Locals /\ w.at = "put" /\ w.name = work[t].name /\ w.given = work[t].given
          /\ w.steady = work[t].steady /\ w.failed = work[t].failed /\ w.password = p
      BY ZenonT(60), <2>0 DEF Locals, Steps
    <3>2. work' = [work EXCEPT ![t] = w] BY <2>0
    <3> HIDE DEF w
    <3>3. QED BY <3>1, <3>2
  <2>3. RequestInv(t)'
    BY <1>1, <1>2, <2>1, <2>2 DEF shared, RequestInv, n, p
  <2>4. QED BY <1>2, <2>2, <2>3, LocalStep
<1>4. CASE n \notin Users /\ GoTo(t, "judge")
  <2>1. had[n] = {} /\ "judge" \in Steps
    BY <1>1, <1>4 DEF LoginInv, HadInv, Steps
  <2>2. /\ work' \in [Threads -> Locals]
        /\ \A u \in Threads \ {t} : work'[u] = work[u]
        /\ work'[t].at = "judge" /\ work'[t].name = n /\ work'[t].given = work[t].given
        /\ work'[t].steady = work[t].steady /\ work'[t].failed = work[t].failed
        /\ work'[t].password = work[t].password
    BY <1>4, <2>1, GoToEffect
  <2>3. RequestInv(t)'
    BY <1>1, <1>2, <2>1, <2>2 DEF shared, RequestInv
  <2>4. QED BY <1>2, <2>2, <2>3, LocalStep
<1>5. CASE work' = [work EXCEPT ![t].at = "judge", ![t].failed = TRUE]
  <2>1. /\ work' \in [Threads -> Locals]
        /\ \A u \in Threads \ {t} : work'[u] = work[u]
        /\ work'[t].at = "judge" /\ work'[t].name = n /\ work'[t].given = work[t].given
        /\ work'[t].steady = work[t].steady /\ work'[t].failed = TRUE
        /\ work'[t].password = work[t].password
    <3> DEFINE w == [work[t] EXCEPT !.at = "judge", !.failed = TRUE]
    <3>1. /\ w \in Locals /\ w.at = "judge" /\ w.name = n /\ w.given = work[t].given
          /\ w.steady = work[t].steady /\ w.failed = TRUE /\ w.password = work[t].password
      BY ZenonT(60), SMTT(60) DEF Locals, Steps
    <3>2. work' = [work EXCEPT ![t] = w] BY <1>5
    <3> HIDE DEF w
    <3>3. QED BY <3>1, <3>2
  <2>2. RequestInv(t)'
    BY <1>1, <1>2, <2>1 DEF shared, RequestInv
  <2>3. QED BY <1>2, <2>1, <2>2, LocalStep
<1>6. QED BY <1>3, <1>4, <1>5 DEF FindInMysql

(* What is put into the cache is a password the user had.                    *)
LEMMA PutKeeps ==
  ASSUME LoginInv, NEW t \in Threads, Put(t) PROVE Keeps(t)
<1> USE Typed
<1> DEFINE n == work[t].name
<1>1. /\ work[t].given \in Passwords /\ ~work[t].failed
      /\ work[t].password \in had[n] /\ work[t].password \in Passwords
      /\ work[t].steady => had[n] = {work[t].given}
      /\ "code" \in DOMAIN response[t]
      /\ n \in Names
  <2>1. n \in Names BY DEF Locals
  <2>2. QED BY <2>1 DEF Put, At, LoginInv, RequestInv
<1>2. PICK out : cache' = [cache EXCEPT ![out] = NoPassword, ![n] = work[t].password]
  BY DEF Put
<1>3. /\ cache' \in [Names -> Maybe]
      /\ \A m \in Names : cache'[m] \in {cache[m], NoPassword} \/ m = n
      /\ cache'[n] = work[t].password
  BY <1>1, <1>2 DEF Maybe
<1>4. \A m \in Names : cache'[m] # NoPassword => cache'[m] \in had[m]
  BY <1>1, <1>3 DEF LoginInv, HadInv
<1>5. GoTo(t, "judge") /\ "judge" \in Steps
      /\ UNCHANGED <<table, errors, had, response, answer>>
  BY DEF Put, Steps
<1>6. /\ work' \in [Threads -> Locals]
      /\ \A u \in Threads \ {t} : work'[u] = work[u]
      /\ work'[t].at = "judge" /\ work'[t].name = n /\ work'[t].given = work[t].given
      /\ work'[t].steady = work[t].steady /\ work'[t].failed = work[t].failed
      /\ work'[t].password = work[t].password
  BY <1>5, GoToEffect
<1>7. RequestInv(t)'
  BY <1>1, <1>5, <1>6 DEF RequestInv
<1>8. QED
  BY <1>3, <1>4, <1>5, <1>6, <1>7
  DEF LoginInv, AcceptedByTable, RightIsAccepted, LetThrough, Keeps

LEMMA JudgeKeeps ==
  ASSUME LoginInv, NEW t \in Threads, Judge(t) PROVE Keeps(t)
<1> USE Typed
<1> DEFINE step == IF Correct(t) THEN "right" ELSE "wrong"
           count == errors[work[t].session]
<1>1. step \in Steps /\ count \in Int
  BY DEF Locals, Steps
<1>2. work' = [work EXCEPT ![t].at = step, ![t].seen = count]
  BY DEF Judge
<1>3. /\ work[t].given \in Passwords
      /\ IF work[t].password = NoPassword THEN work[t].steady => work[t].failed
         ELSE work[t].password \in had[work[t].name] /\ ~work[t].failed
      /\ work[t].steady => had[work[t].name] = {work[t].given}
      /\ "code" \in DOMAIN response[t]
  BY DEF Judge, At, LoginInv, RequestInv
<1> HIDE DEF step, count
<1>4. /\ work' \in [Threads -> Locals]
      /\ \A u \in Threads \ {t} : work'[u] = work[u]
      /\ work'[t].at = step /\ work'[t].name = work[t].name
      /\ work'[t].given = work[t].given
      /\ work'[t].steady = work[t].steady /\ work'[t].failed = work[t].failed
  BY ZenonT(60), <1>1, <1>2 DEF Locals
<1>5. RequestInv(t)'
  BY <1>3, <1>4 DEF Judge, shared, RequestInv, Correct, step
<1>6. QED BY <1>4, <1>5, LocalStep DEF Judge

LEMMA WrongKeeps ==
  ASSUME LoginInv, NEW t \in Threads, Wrong(t) PROVE Keeps(t)
<1> USE Typed
<1> DEFINE s == work[t].session
           n == Counted(t, s)
           r == IF n >= Limit THEN Create403(response[t]) ELSE Create401(response[t])
<1>1. s \in Sessions BY DEF Locals
<1>2. n \in Int BY <1>1 DEF Counted
<1>3. /\ work[t].steady => work[t].failed
      /\ "code" \in DOMAIN response[t]
  BY DEF Wrong, At, LoginInv, RequestInv
<1>4. /\ errors' = [errors EXCEPT ![s] = n] /\ response' = [response EXCEPT ![t] = r]
      /\ GoTo(t, "send") /\ UNCHANGED <<table, cache, had, answer>>
  BY DEF Wrong
<1>5. "code" \in DOMAIN r /\ r.code \in {"401", "403"}
  BY <1>3, Refusals
<1> HIDE DEF s, n, r
<1>6. /\ DOMAIN response' = Threads /\ response'[t] = r
      /\ \A u \in Threads \ {t} : response'[u] = response[u]
      /\ errors' \in [Sessions -> Int]
  BY <1>2, <1>4
<1>7. QED BY <1>3, <1>4, <1>5, <1>6, AnsweringStep

LEMMA RightKeeps ==
  ASSUME LoginInv, NEW t \in Threads, Right(t) PROVE Keeps(t)
<1> USE Typed
<1>1. /\ work[t].given \in Passwords /\ ~work[t].failed
      /\ work[t].given \in had[work[t].name]
      /\ work[t].steady => had[work[t].name] = {work[t].given}
      /\ "code" \in DOMAIN response[t]
  BY DEF Right, At, LoginInv, RequestInv
<1>2. /\ GoTo(t, "route") /\ "route" \in Steps
      /\ UNCHANGED <<table, cache, had, response, answer>>
  BY DEF Right, Steps
<1>3. /\ work' \in [Threads -> Locals]
      /\ \A u \in Threads \ {t} : work'[u] = work[u]
      /\ work'[t].at = "route" /\ work'[t].name = work[t].name
      /\ work'[t].given = work[t].given
      /\ work'[t].steady = work[t].steady /\ work'[t].failed = work[t].failed
  BY <1>2, GoToEffect
<1>4. errors' \in [Sessions -> Int]
  <2>1. PICK s : errors' = [errors EXCEPT ![s] = 0] \/ errors' = errors
    BY DEF Right
  <2>2. QED BY <2>1
<1>5. RequestInv(t)'
  BY <1>1, <1>2, <1>3 DEF RequestInv
<1>6. QED
  BY <1>2, <1>3, <1>4, <1>5
  DEF LoginInv, HadInv, AcceptedByTable, RightIsAccepted, LetThrough, Keeps

LEMMA CallbackKeeps ==
  ASSUME LoginInv, NEW t \in Threads, Callback(t) PROVE Keeps(t)
<1> USE Typed
<1>1. PICK c \in Contents, again \in Contents :
        \E r \in {SetContent(response[t], c), SetContent(SetContent(response[t], c), again)} :
          response' = [response EXCEPT ![t] = [r EXCEPT !.code = "200"]]
  BY DEF Callback
<1>2. /\ ~work[t].failed /\ work[t].given \in had[work[t].name]
      /\ "code" \in DOMAIN response[t]
  BY DEF Callback, At, LoginInv, RequestInv
<1>3. "code" \in DOMAIN SetContent(response[t], c)
  BY <1>2, CodeKept
<1>4. "code" \in DOMAIN SetContent(SetContent(response[t], c), again)
  BY <1>3, CodeKept
<1>5. PICK r : "code" \in DOMAIN r /\ response' = [response EXCEPT ![t] = [r EXCEPT !.code = "200"]]
  BY <1>1, <1>3, <1>4
<1>6. /\ DOMAIN response' = Threads
      /\ "code" \in DOMAIN response'[t] /\ response'[t].code = "200"
      /\ \A u \in Threads \ {t} : response'[u] = response[u]
  BY <1>5
<1>7. GoTo(t, "send") /\ UNCHANGED <<table, cache, errors, had, answer>>
  BY DEF Callback, shared
<1>8. QED BY <1>2, <1>6, <1>7, AnsweringStep

LEMMA NotFoundKeeps ==
  ASSUME LoginInv, NEW t \in Threads, NotFound(t) PROVE Keeps(t)
<1> USE Typed
<1>1. /\ ~work[t].failed /\ work[t].given \in had[work[t].name]
      /\ "code" \in DOMAIN response[t]
  BY DEF NotFound, At, LoginInv, RequestInv
<1>2. /\ DOMAIN response' = Threads
      /\ "code" \in DOMAIN response'[t] /\ response'[t].code = "404"
      /\ \A u \in Threads \ {t} : response'[u] = response[u]
  BY <1>1 DEF NotFound
<1>3. GoTo(t, "send") /\ UNCHANGED <<table, cache, errors, had, answer>>
  BY DEF NotFound, shared
<1>4. QED BY <1>1, <1>2, <1>3, AnsweringStep

LEMMA SendKeeps ==
  ASSUME LoginInv, NEW t \in Threads, Send(t) PROVE Keeps(t)
<1> USE Typed
<1> DEFINE w == work[t]
<1>1. /\ IF Passed(t) THEN w.given \in had[w.name] /\ ~w.failed
         ELSE w.given = NoPassword \/ w.failed \/ ~w.steady
      /\ w.name \in Names
  BY DEF Send, At, LoginInv, RequestInv, Locals
<1>2. had[w.name] \subseteq Passwords
  BY <1>1
<1>3. /\ answer'.code = response[t].code
      /\ answer'.login = IF w.given = NoPassword THEN "none"
                         ELSE IF w.failed THEN "unchecked"
                         ELSE IF w.steady THEN "steady"
                         ELSE IF w.given \in had[w.name] THEN "had" ELSE "never"
      /\ work' = [work EXCEPT ![t] = Free]
      /\ response' = [response EXCEPT ![t] = HttpResponseNew]
      /\ UNCHANGED <<table, cache, errors, had>>
  BY DEF Send, shared
<1>4. AcceptedByTable' /\ RightIsAccepted'
  <2>1. CASE Passed(t)
    <3>1. w.given # NoPassword /\ w.given \in had[w.name] /\ ~w.failed
      BY <1>1, <1>2, <2>1
    <3>2. answer'.login \in {"steady", "had"} /\ answer'.code \in {"200", "404"}
      BY <1>3, <2>1, <3>1 DEF Passed
    <3>3. QED BY <3>2 DEF AcceptedByTable, RightIsAccepted, LetThrough
  <2>2. CASE ~Passed(t)
    <3>1. answer'.login # "steady" /\ answer'.code \notin {"200", "404"}
      BY <1>1, <1>3, <2>2 DEF Passed
    <3>2. QED BY <3>1 DEF AcceptedByTable, RightIsAccepted, LetThrough
  <2>3. QED BY <2>1, <2>2
<1>5. /\ work' \in [Threads -> Locals] /\ work'[t] = Free
      /\ DOMAIN response' = Threads /\ response'[t] = HttpResponseNew
      /\ \A u \in Threads \ {t} : work'[u] = work[u] /\ response'[u] = response[u]
  BY <1>3, FreeTyped
<1>6. RequestInv(t)'
  BY <1>5, FreeTyped, FreshCode DEF RequestInv
<1>7. QED BY <1>3, <1>4, <1>5, <1>6 DEF LoginInv, HadInv, Keeps

(* A change of a password: what was true of the old one is no longer claimed, *)
(* and the old one stays among those the user had.                           *)
LEMMA ChangeKeeps ==
  ASSUME LoginInv, ChangePassword PROVE LoginInv'
<1> USE Typed
<1>1. PICK n \in Users, p \in Passwords :
        /\ table' = [table EXCEPT ![n] = p]
        /\ had' = [had EXCEPT ![n] = @ \cup {p}]
        /\ work' = [t \in Threads |-> [work[t] EXCEPT !.steady = @ /\ work[t].name # n]]
  BY DEF ChangePassword
<1>2. UNCHANGED <<cache, errors, response, answer>>
  BY DEF ChangePassword
<1>3. /\ had' \in [Names -> SUBSET Passwords] /\ table' \in [Users -> Passwords]
      /\ \A m \in Names : had[m] \subseteq had'[m] /\ (m # n => had'[m] = had[m])
      /\ table'[n] \in had'[n]
  BY <1>1
<1>4. HadInv'
  BY <1>1, <1>2, <1>3 DEF LoginInv, HadInv
<1>5. ASSUME NEW t \in Threads
      PROVE  /\ work'[t] \in Locals
             /\ work'[t].at = work[t].at /\ work'[t].name = work[t].name
             /\ work'[t].given = work[t].given /\ work'[t].failed = work[t].failed
             /\ work'[t].password = work[t].password
             /\ work'[t].steady => work[t].steady /\ work[t].name # n
  <2>1. PICK b \in BOOLEAN : b = (work[t].steady /\ work[t].name # n)
    OBVIOUS
  <2>2. work[t] \in Locals OBVIOUS
  <2>3. work'[t] = [work[t] EXCEPT !.steady = b]
    BY <1>1, <2>1
  <2>4. /\ work'[t] \in Locals /\ work'[t].steady = b
        /\ work'[t].at = work[t].at /\ work'[t].name = work[t].name
        /\ work'[t].given = work[t].given /\ work'[t].failed = work[t].failed
        /\ work'[t].password = work[t].password
    BY <2>2, <2>3 DEF Locals
  <2>5. QED BY <2>1, <2>4
<1>6. work' \in [Threads -> Locals]
  BY <1>1, <1>5
<1>7. ASSUME NEW t \in Threads PROVE RequestInv(t)'
  <2>1. RequestInv(t) BY DEF LoginInv
  <2>2. work[t].name \in Names BY DEF Locals
  <2>3. had[work[t].name] \subseteq had'[work[t].name]
        /\ (work'[t].steady => had'[work[t].name] = had[work[t].name])
    BY <1>3, <1>5, <2>2
  <2>4. QED BY <1>2, <1>5, <2>1, <2>3 DEF RequestInv, Passed
<1>8. QED
  BY <1>2, <1>3, <1>4, <1>6, <1>7
  DEF LoginInv, StoreTyped, AcceptedByTable, RightIsAccepted, LetThrough

LEMMA LoginStep == LoginInv /\ [Next]_vars => LoginInv'
<1> SUFFICES ASSUME LoginInv, [Next]_vars PROVE LoginInv'
  OBVIOUS
<1>1. CASE UNCHANGED vars
  BY <1>1
  DEF vars, LoginInv, StoreTyped, HadInv, RequestInv, Passed, AcceptedByTable,
      RightIsAccepted, LetThrough
<1>2. CASE ChangePassword
  BY <1>2, ChangeKeeps
<1>3. ASSUME NEW t \in Threads, Serve(t) PROVE LoginInv'
  <2>1. Keeps(t)
    BY <1>3, ArriveKeeps, NoCredentialsKeeps, LoginKeeps, CheckCacheKeeps,
       FindInMysqlKeeps, PutKeeps, JudgeKeeps, WrongKeeps, RightKeeps, CallbackKeeps,
       NotFoundKeeps, SendKeeps
    DEF Serve
  <2>2. QED BY <2>1, StepOfThread
<1>4. QED BY <1>1, <1>2, <1>3 DEF Next

-----------------------------------------------------------------------------
(* The theorems *)

\* Whatever the threads do to the cache and the table between the steps of a
\* login, each knows of its own login what LoginInv says.
THEOREM LoginHolds == Spec => []LoginInv
<1>1. LoginInv /\ [Next]_vars => LoginInv'
  BY LoginStep
<1>2. QED BY LoginInit, <1>1, PTL DEF Spec

\* getNameAndPassword and forware: a login is let through only with a password
\* its user has or had.
THEOREM Accepted == Spec => []AcceptedByTable
<1>1. LoginInv => AcceptedByTable BY DEF LoginInv
<1>2. QED BY <1>1, LoginHolds, PTL

\* getNameAndPassword and forware: a right login that nobody overtakes is refused
\* only if its own query failed.
THEOREM RightLogin == Spec => []RightIsAccepted
<1>1. LoginInv => RightIsAccepted BY DEF LoginInv
<1>2. QED BY <1>1, LoginHolds, PTL

-----------------------------------------------------------------------------
(* The response buffer *)

Bodies == {NoContent, Page, Other, Zek, Forbidden}
Codes  == {"000", "200", "401", "403", "404"}

Blocks    == [size : Nat, live : BOOLEAN, data : Bodies]
Responses == [ptr : Nat, capacity : Nat, len : Nat, blocks : Seq(Blocks), sound : BOOLEAN,
              code : Codes, set : Bodies]

\* A block is live, with room for size, and the others have been given back
HasRoom(r, size) ==
  /\ r \in Responses /\ r.sound
  /\ r.capacity \in 1 .. SizeMax /\ size < r.capacity
  /\ r.ptr \in 1 .. Len(r.blocks)
  /\ r.blocks[r.ptr].live /\ r.blocks[r.ptr].size = r.capacity
  /\ \A b \in 1 .. Len(r.blocks) : r.blocks[b].live => b = r.ptr

\* A response without a content, or with the one set last in the one live block
Holds(r) ==
  \/ /\ r \in Responses /\ r.sound
     /\ r.ptr = 0 /\ r.blocks = <<>> /\ r.capacity = 0 /\ r.len = 0 /\ r.set = NoContent
  \/ /\ HasRoom(r, r.set.size)
     /\ r.blocks[r.ptr].data = r.set /\ r.len = r.set.size

\* The bodies of this server fit a size_t.
LEMMA BodySizes == \A c \in Bodies : c.size \in Nat /\ c.size < SizeMax
<1>1. NoContent.size = 0 /\ 0 < SizeMax BY ContentsAssumption DEF NoContent, Forbidden
<1>2. QED BY <1>1, ContentsAssumption DEF Bodies

\* HttpResponse::HttpResponse.
LEMMA NewHolds == HttpResponseNew \in Responses /\ Holds(HttpResponseNew)
<1>1. <<>> \in Seq(Blocks) BY EmptySeq
<1>2. HttpResponseNew \in Responses
  BY <1>1 DEF HttpResponseNew, Responses, Bodies, Codes
<1>3. QED BY <1>2 DEF HttpResponseNew, Holds

\* Buffer::allocate leaves room for what is asked.
LEMMA AllocateRoom ==
  ASSUME NEW r \in Responses, r.sound, \A b \in 1 .. Len(r.blocks) : ~r.blocks[b].live,
         NEW size \in Nat, size < SizeMax
  PROVE  HasRoom(Allocate(r, size + 1), size) /\ Allocate(r, size + 1).code = r.code
<1> DEFINE e == [size |-> size + 1, live |-> TRUE, data |-> NoContent]
           z == Append(r.blocks, e)
           n == Len(r.blocks)
           q == Allocate(r, size + 1)
<1>1. e \in Blocks /\ e.live /\ e.size = size + 1 BY DEF Blocks, Bodies
<1>2. r.blocks \in Seq(Blocks) BY DEF Responses
<1> HIDE DEF e
<1>3. /\ z \in Seq(Blocks) /\ Len(z) = n + 1 /\ n \in Nat /\ z[n + 1] = e
      /\ \A b \in 1 .. n : z[b] = r.blocks[b]
  BY <1>1, <1>2, AppendProperties, LenProperties
<1>4. q = [r EXCEPT !.blocks = z, !.ptr = n + 1, !.capacity = size + 1]
  BY DEF Allocate, e
<1> HIDE DEF z
<1>5. /\ q \in Responses /\ q.sound /\ q.blocks = z /\ q.ptr = n + 1
      /\ q.capacity = size + 1 /\ q.code = r.code
  <2> DEFINE k == n + 1
             s == size + 1
  <2>1. k \in Nat /\ s \in Nat BY <1>3
  <2>2. q = [r EXCEPT !.blocks = z, !.ptr = k, !.capacity = s] BY <1>4
  <2> HIDE DEF q, k, s
  <2>3. /\ q \in Responses /\ q.sound /\ q.blocks = z /\ q.ptr = k
        /\ q.capacity = s /\ q.code = r.code
    BY <1>3, <2>1, <2>2 DEF Responses
  <2>4. QED BY <2>3 DEF k, s
<1> HIDE DEF q, n
<1>6. \A b \in 1 .. n + 1 : z[b].live => b = n + 1
  <2>1. \A b \in 1 .. n : ~z[b].live BY <1>3 DEF n
  <2>2. QED BY <1>3, <2>1
<1>7. q.capacity \in 1 .. SizeMax /\ size < q.capacity BY <1>5, ContentsAssumption
<1>8. HasRoom(q, size) BY <1>1, <1>3, <1>5, <1>6, <1>7 DEF HasRoom
<1>9. QED BY <1>5, <1>8 DEF q

\* Giving memory back keeps what is written.
LEMMA DeallocateRoom ==
  ASSUME NEW r, NEW size, HasRoom(r, size)
  PROVE  /\ Deallocate(r) \in Responses /\ Deallocate(r).sound
         /\ \A b \in 1 .. Len(Deallocate(r).blocks) : ~Deallocate(r).blocks[b].live
         /\ Deallocate(r).code = r.code
<1> DEFINE i == r.ptr
           z == [r.blocks EXCEPT ![i].live = FALSE]
           q == Deallocate(r)
           n == Len(r.blocks)
<1>1. /\ r \in Responses /\ r.blocks \in Seq(Blocks) /\ r.sound /\ i \in 1 .. n /\ n \in Nat
      /\ r.blocks[i].live /\ r.blocks[i].size = r.capacity
      /\ DOMAIN r.blocks = 1 .. n
      /\ \A b \in 1 .. n : r.blocks[b].live => b = i
      /\ \A b \in 1 .. n : r.blocks[b] \in Blocks
  BY LenProperties, ElementOfSeq DEF HasRoom, Responses
<1>2. r.blocks \in [1 .. n -> Blocks] BY <1>1, LenProperties
<1> HIDE DEF n
<1>3. z \in [1 .. n -> Blocks] /\ \A b \in 1 .. n : ~z[b].live
  <2>1. [r.blocks[i] EXCEPT !.live = FALSE] \in Blocks BY <1>1 DEF Blocks
  <2>2. z = [r.blocks EXCEPT ![i] = [r.blocks[i] EXCEPT !.live = FALSE]] BY <1>1, <1>2
  <2>3. z[i].live = FALSE BY <1>1, <1>2, <2>2 DEF Blocks
  <2>4. \A b \in 1 .. n : b # i => z[b] = r.blocks[b] BY <1>2
  <2>5. \A b \in 1 .. n : ~z[b].live BY <1>1, <2>3, <2>4
  <2>6. z \in [1 .. n -> Blocks] BY <1>2, <2>1, <2>2
  <2>7. QED BY <2>5, <2>6
<1>4. z \in Seq(Blocks) /\ Len(z) = n
  <2> HIDE DEF z
  <2>1. z \in Seq(Blocks) BY <1>1, <1>3, SeqDef
  <2>2. QED BY <1>1, <1>3, <2>1, LenProperties
<1>5. i \in Live(r) BY <1>1 DEF Live
<1>6. q = [r EXCEPT !.blocks = z, !.sound = TRUE]
  BY <1>1, <1>5 DEF Deallocate, Responses
<1> HIDE DEF z
<1>7. q \in Responses /\ q.sound /\ q.blocks = z /\ q.code = r.code
  BY <1>1, <1>4, <1>6 DEF Responses
<1> HIDE DEF q
<1>8. QED BY <1>3, <1>4, <1>7 DEF q

\* Room is made before anything is written.
LEMMA MakeRoomRoom ==
  ASSUME NEW r, Holds(r), NEW size \in Nat, size < SizeMax
  PROVE  HasRoom(MakeRoom(r, size), size) /\ MakeRoom(r, size).code = r.code
<1>1. CASE r.ptr = 0
  <2>1. r \in Responses /\ r.sound /\ r.blocks = <<>> BY <1>1 DEF Holds, HasRoom
  <2>2. Len(r.blocks) = 0 BY <2>1
  <2>3. \A b \in 1 .. Len(r.blocks) : ~r.blocks[b].live BY <2>2
  <2>4. MakeRoom(r, size) = Allocate(r, size + 1) BY <1>1 DEF MakeRoom
  <2>5. QED BY <2>1, <2>3, <2>4, AllocateRoom
<1>2. CASE r.ptr # 0
  <2>1. HasRoom(r, r.set.size) /\ r.capacity \in 1 .. SizeMax BY <1>2 DEF Holds, HasRoom
  <2>2. Minus1(r.capacity) = r.capacity - 1 BY <2>1, ContentsAssumption DEF Minus1
  <2>3. CASE r.capacity - 1 < size
    <3>1. MakeRoom(r, size) = Allocate(Deallocate(r), size + 1) BY <1>2, <2>2, <2>3 DEF MakeRoom
    <3>2. QED BY <2>1, <3>1, DeallocateRoom, AllocateRoom
  <2>4. CASE ~(r.capacity - 1 < size)
    <3>1. MakeRoom(r, size) = r BY <1>2, <2>2, <2>4 DEF MakeRoom
    <3>2. size < r.capacity BY <2>1, <2>4, ContentsAssumption
    <3>3. QED BY <2>1, <3>1, <3>2 DEF HasRoom
  <2>5. QED BY <2>3, <2>4
<1>3. QED BY <1>1, <1>2

\* setContent writes a body that is announced with its length.
LEMMA SetContentHolds ==
  ASSUME NEW r, Holds(r), NEW c \in Bodies
  PROVE  /\ Holds(SetContent(r, c)) /\ SetContent(r, c).set = c
         /\ SetContent(r, c).code = r.code
<1> DEFINE m == MakeRoom(r, c.size)
           i == m.ptr
           n == Len(m.blocks)
           z == [m.blocks EXCEPT ![i].data = c]
           q == Copy(m, c)
<1>0. c.size \in Nat /\ c.size < SizeMax BY BodySizes
<1>1. HasRoom(m, c.size) /\ m.code = r.code BY <1>0, MakeRoomRoom
<1> HIDE DEF m
<1>2. /\ m \in Responses /\ m.blocks \in Seq(Blocks) /\ m.sound /\ i \in 1 .. n /\ n \in Nat
      /\ m.blocks[i].live /\ m.blocks[i].size = m.capacity
      /\ DOMAIN m.blocks = 1 .. n /\ m.capacity \in 1 .. SizeMax /\ c.size < m.capacity
      /\ \A b \in 1 .. n : m.blocks[b].live => b = i
  BY <1>1, LenProperties DEF HasRoom, Responses
<1>3. m.blocks \in [1 .. n -> Blocks] BY <1>2, LenProperties
<1> HIDE DEF n
<1>4. /\ z \in [1 .. n -> Blocks] /\ \A b \in 1 .. n : z[b].live => b = i
      /\ z[i].live /\ z[i].size = m.capacity /\ z[i].data = c
  <2> DEFINE e == [m.blocks[i] EXCEPT !.data = c]
  <2>1. e \in Blocks /\ e.live /\ e.size = m.capacity /\ e.data = c BY <1>2, <1>3 DEF Blocks
  <2>2. z = [m.blocks EXCEPT ![i] = e] BY <1>2, <1>3
  <2> HIDE DEF e, z
  <2>3. z[i] = e /\ \A b \in 1 .. n : b # i => z[b] = m.blocks[b] BY <1>2, <1>3, <2>2
  <2>4. z \in [1 .. n -> Blocks] BY <1>3, <2>1, <2>2
  <2>5. \A b \in 1 .. n : z[b].live => b = i BY <1>2, <2>3
  <2>6. QED BY <2>1, <2>3, <2>4, <2>5
<1>5. z \in Seq(Blocks) /\ Len(z) = n
  <2> HIDE DEF z
  <2>1. z \in Seq(Blocks) BY <1>2, <1>4, SeqDef
  <2>2. QED BY <1>2, <1>4, <2>1, LenProperties
<1>6. i \in Live(m) BY <1>2 DEF Live
<1>7. c.size <= m.blocks[i].size BY <1>0, <1>2, ContentsAssumption
<1>8. q = [m EXCEPT !.blocks = z, !.len = c.size, !.set = c, !.sound = TRUE]
  BY <1>2, <1>6, <1>7 DEF Copy, Responses
<1> HIDE DEF z
<1>9. /\ q \in Responses /\ q.sound /\ q.blocks = z /\ q.code = m.code /\ q.ptr = i
      /\ q.capacity = m.capacity /\ q.set = c /\ q.len = c.size
  BY <1>0, <1>2, <1>5, <1>8 DEF Responses
<1> HIDE DEF q
<1>10. HasRoom(q, q.set.size) BY <1>2, <1>4, <1>5, <1>9 DEF HasRoom
<1>11. Holds(q) BY <1>4, <1>9, <1>10 DEF Holds
<1>12. QED BY <1>1, <1>9, <1>11 DEF SetContent, q, m

\* What is sent is what the buffer holds.
LEMMA HoldsSends ==
  ASSUME NEW r, Holds(r)
  PROVE  CreateResponse(r) = r.set /\ GivenBack(Destroy(r))
<1>1. CASE r.ptr = 0
  <2>1. r.sound /\ r.blocks = <<>> /\ r.set = NoContent BY <1>1 DEF Holds, HasRoom
  <2>2. QED BY <1>1, <2>1 DEF CreateResponse, Destroy, GivenBack, Live
<1>2. CASE r.ptr # 0
  <2>1. HasRoom(r, r.set.size) /\ r.blocks[r.ptr].data = r.set /\ r.len = r.set.size
    BY <1>2 DEF Holds
  <2>2. CreateResponse(r) = r.set BY <1>2, <2>1 DEF CreateResponse
  <2> DEFINE q == Deallocate(r)
  <2>3. q \in Responses /\ q.sound /\ \A b \in 1 .. Len(q.blocks) : ~q.blocks[b].live
    BY <2>1, DeallocateRoom
  <2>4. Destroy(r) = q BY <1>2 DEF Destroy
  <2> HIDE DEF q
  <2>5. DOMAIN q.blocks = 1 .. Len(q.blocks) BY <2>3, LenProperties DEF Responses
  <2>6. GivenBack(q) BY <2>3, <2>5 DEF GivenBack, Live
  <2>7. QED BY <2>2, <2>4, <2>6
<1>3. QED BY <1>1, <1>2

\* What Reset makes of a response that has held nothing
LEMMA ResetNew == Holds(Reset(HttpResponseNew))
<1> DEFINE r == HttpResponseNew
           q == Reset(r)
<1>1. /\ r \in Responses /\ r.ptr = 0 /\ r.sound /\ r.blocks = <<>>
      /\ r.set = NoContent
  BY NewHolds DEF HttpResponseNew
<1>2. q = [r EXCEPT !.capacity = 0, !.len = 0, !.code = "000", !.set = NoContent]
  BY <1>1 DEF Reset
<1> HIDE DEF r, q
<1>3. /\ q \in Responses /\ q.ptr = 0 /\ q.sound /\ q.blocks = <<>> /\ q.capacity = 0
      /\ q.len = 0 /\ q.set = NoContent
  BY <1>1, <1>2 DEF Responses, Bodies, Codes
<1>4. QED BY <1>3 DEF Holds, q, r

\* A status code changes nothing else.
LEMMA CodeSet ==
  ASSUME NEW r, Holds(r), NEW c \in Codes
  PROVE  LET q == [r EXCEPT !.code = c] IN Holds(q) /\ q.code = c /\ q.set = r.set
<1> DEFINE q == [r EXCEPT !.code = c]
<1>1. r \in Responses BY DEF Holds, HasRoom
<1>2. /\ q \in Responses /\ q.code = c /\ q.ptr = r.ptr /\ q.capacity = r.capacity
      /\ q.len = r.len /\ q.blocks = r.blocks /\ q.sound = r.sound /\ q.set = r.set
  BY <1>1 DEF Responses
<1> HIDE DEF q
<1>3. Holds(q) BY <1>2 DEF Holds, HasRoom
<1>4. QED BY <1>2, <1>3 DEF q

\* The answers of the middleware are responses like any other.
LEMMA RefusalsHold ==
  /\ Holds(Create401(HttpResponseNew)) /\ Create401(HttpResponseNew).set = Zek
  /\ Create401(HttpResponseNew).code = "401"
  /\ Holds(Create403(HttpResponseNew)) /\ Create403(HttpResponseNew).set = Forbidden
  /\ Create403(HttpResponseNew).code = "403"
<1> DEFINE New == Reset(HttpResponseNew)
           u == SetContent(New, Zek)
           q == [New EXCEPT !.code = "403"]
<1>1. Zek \in Bodies /\ Forbidden \in Bodies /\ "401" \in Codes /\ "403" \in Codes
  BY DEF Bodies, Codes
<1>2. Create401(HttpResponseNew) = [u EXCEPT !.code = "401"] BY DEF Create401
<1>3. Create403(HttpResponseNew) = SetContent(q, Forbidden) BY DEF Create403
<1>4. Holds(u) /\ u.set = Zek BY <1>1, ResetNew, SetContentHolds
<1>5. Holds(q) /\ q.code = "403" BY <1>1, ResetNew, CodeSet
<1> HIDE DEF u, q
<1>6. /\ Holds([u EXCEPT !.code = "401"]) /\ [u EXCEPT !.code = "401"].code = "401"
      /\ [u EXCEPT !.code = "401"].set = Zek
  BY <1>1, <1>4, CodeSet
<1>7. /\ Holds(SetContent(q, Forbidden)) /\ SetContent(q, Forbidden).set = Forbidden
      /\ SetContent(q, Forbidden).code = "403"
  BY <1>1, <1>5, SetContentHolds
<1>8. QED BY <1>2, <1>3, <1>6, <1>7

\* A response is put together by its thread in the step before it is sent, and
\* then holds what its code announces.
Announced(r) ==
  /\ Holds(r)
  /\ r.code = "401" => r.set = Zek
  /\ r.code = "403" => r.set = Forbidden

ResponseInv ==
  /\ \A t \in Threads :
       Announced(response[t]) /\ (work[t].at # "send" => response[t] = HttpResponseNew)
  /\ ResponseSound

\* A new response announces no body.
LEMMA NewAnnounced == Announced(HttpResponseNew)
BY NewHolds DEF Announced, HttpResponseNew

LEMMA ResponseInit == Init => ResponseInv
<1> SUFFICES ASSUME Init PROVE ResponseInv OBVIOUS
<1>1. \A t \in Threads : response[t] = HttpResponseNew BY DEF Init
<1>2. answer.body = answer.set /\ answer.code = "000" /\ answer.clean BY DEF Init
<1>3. ResponseSound BY <1>2 DEF ResponseSound
<1>4. QED BY <1>1, <1>3, NewAnnounced DEF ResponseInv

\* A step of thread t, which touches its own response alone
LEMMA ResponseOfThread ==
  ASSUME ResponseInv, NEW t \in Threads, Keeps(t), Announced(response'[t]),
         work'[t].at # "send" => response'[t] = HttpResponseNew, ResponseSound'
  PROVE  ResponseInv'
BY Zenon DEF ResponseInv, Keeps

LEMMA ResponseStep == LoginInv /\ ResponseInv /\ [Next]_vars => ResponseInv'
<1> SUFFICES ASSUME LoginInv, ResponseInv, [Next]_vars PROVE ResponseInv'
  OBVIOUS
<1> USE Typed
<1>1. CASE UNCHANGED vars
  BY <1>1 DEF vars, ResponseInv, ResponseSound
<1>2. CASE ChangePassword
  <2>1. \A t \in Threads : work'[t].at = work[t].at
    <3>1. PICK n : work' = [t \in Threads |-> [work[t] EXCEPT !.steady = @ /\ work[t].name # n]]
      BY <1>2 DEF ChangePassword
    <3>2. QED BY <3>1 DEF Locals
  <2>2. UNCHANGED <<response, answer>> BY <1>2 DEF ChangePassword
  <2>3. QED BY <2>1, <2>2 DEF ResponseInv, ResponseSound
<1>3. ASSUME NEW t \in Threads, Serve(t) PROVE ResponseInv'
  <2>0. Keeps(t)
    BY <1>3, ArriveKeeps, NoCredentialsKeeps, LoginKeeps, CheckCacheKeeps,
       FindInMysqlKeeps, PutKeeps, JudgeKeeps, WrongKeeps, RightKeeps, CallbackKeeps,
       NotFoundKeeps, SendKeeps
    DEF Serve
  <2>1. CASE Login(t) \/ CheckCache(t) \/ FindInMysql(t) \/ Put(t) \/ Judge(t) \/ Right(t)
    <3>1. work[t].at # "send" /\ UNCHANGED <<response, answer>>
      BY <2>1 DEF Login, CheckCache, FindInMysql, Put, Judge, Right, At, shared
    <3>2. response'[t] = HttpResponseNew /\ ResponseSound'
      BY <3>1 DEF ResponseInv, ResponseSound
    <3>3. QED BY <2>0, <3>2, NewAnnounced, ResponseOfThread
  <2>2. CASE Arrive(t) \/ Send(t)
    <3>1. response'[t] = HttpResponseNew BY <2>2 DEF Arrive, Send
    <3>2. ResponseSound'
      <4>1. CASE Arrive(t) BY <4>1 DEF Arrive, ResponseInv, ResponseSound
      <4>2. CASE Send(t)
        <5>1. Announced(response[t]) BY DEF ResponseInv
        <5>2. /\ CreateResponse(response[t]) = response[t].set
              /\ GivenBack(Destroy(response[t])) = TRUE
          BY <5>1, HoldsSends DEF Announced, GivenBack
        <5>3. /\ answer'.body = CreateResponse(response[t]) /\ answer'.set = response[t].set
              /\ answer'.code = response[t].code
              /\ answer'.clean = GivenBack(Destroy(response[t]))
          BY <4>2 DEF Send
        <5>4. QED BY <5>1, <5>2, <5>3 DEF ResponseSound, Announced
      <4>3. QED BY <2>2, <4>1, <4>2
    <3>3. QED BY <2>0, <3>1, <3>2, NewAnnounced, ResponseOfThread
  <2>3. CASE NoCredentials(t) \/ Wrong(t) \/ Callback(t) \/ NotFound(t)
    <3>1. /\ work[t].at # "send" /\ response[t] = HttpResponseNew
          /\ UNCHANGED answer /\ GoTo(t, "send")
      BY <2>3 DEF NoCredentials, Wrong, Callback, NotFound, At, ResponseInv
    <3>2. ResponseSound' /\ work'[t].at = "send"
      BY <3>1 DEF ResponseInv, ResponseSound, GoTo, Locals
    <3>3. Announced(response'[t])
      <4>1. CASE NoCredentials(t) \/ Wrong(t)
        <5>1. response'[t] \in {Create401(HttpResponseNew), Create403(HttpResponseNew)}
          BY <3>1, <4>1 DEF NoCredentials, Wrong
        <5>2. QED BY <5>1, RefusalsHold DEF Announced
      <4>2. CASE Callback(t)
        <5>1. PICK r : /\ \E c \in Contents, again \in Contents :
                            r \in {SetContent(HttpResponseNew, c),
                                   SetContent(SetContent(HttpResponseNew, c), again)}
                       /\ response'[t] = [r EXCEPT !.code = "200"]
          BY <3>1, <4>2 DEF Callback
        <5>2. Contents \subseteq Bodies BY DEF Contents, Bodies
        <5>3. Holds(r) BY <5>1, <5>2, NewHolds, SetContentHolds
        <5> DEFINE q == [r EXCEPT !.code = "200"]
        <5>4. Holds(q) /\ q.code = "200" BY <5>3, CodeSet DEF Codes
        <5> HIDE DEF q
        <5>5. QED BY <5>1, <5>4 DEF Announced, q
      <4>3. CASE NotFound(t)
        <5> DEFINE q == [HttpResponseNew EXCEPT !.code = "404"]
        <5>1. Holds(q) /\ q.code = "404" BY NewHolds, CodeSet DEF Codes
        <5>2. response'[t] = q BY <3>1, <4>3 DEF NotFound
        <5> HIDE DEF q
        <5>3. QED BY <5>1, <5>2 DEF Announced
      <4>4. QED BY <2>3, <4>1, <4>2, <4>3
    <3>4. QED BY <2>0, <3>2, <3>3, ResponseOfThread
  <2>4. QED BY <1>3, <2>1, <2>2, <2>3 DEF Serve
<1>4. QED BY <1>1, <1>2, <1>3 DEF Next

\* HttpResponse along every path through forware and sendHttpResponse: what is
\* sent is what was set last, 401 and 403 with the content of their constant
\* length, and the block is given back once with the size it was taken with.
THEOREM Responded == Spec => []ResponseSound
<1>1. ResponseInv => ResponseSound BY DEF ResponseInv
<1>2. QED BY <1>1, LoginInit, LoginStep, ResponseInit, ResponseStep, PTL DEF Spec

-----------------------------------------------------------------------------
(* The counters: the errors of a session and its requests that may still add *)
(* one are no more than the requests served.                                 *)

Unjudged == {"begin", "check", "query", "put", "judge", "wrong"}

\* The requests of session s that may still count an error
Pending(w, s) == {t \in Threads : w[t].at \in Unjudged /\ w[t].session = s}

Errors(e) == IF e = Absent THEN 0 ELSE e

CountInv ==
  /\ served \in 0 .. MaxRequests /\ changes \in 0 .. MaxChanges
  /\ \A s \in Sessions :
       /\ errors[s] \in {Absent} \cup Nat
       /\ IsFiniteSet(Pending(work, s))
       /\ Errors(errors[s]) + Cardinality(Pending(work, s)) <= served
  /\ \A t \in Threads :
       /\ work[t].seen \in {Absent} \cup 0 .. MaxRequests
       /\ work[t].at \in {"right", "wrong"} /\ work[t].seen # Absent => errors[work[t].session] # Absent

LEMMA CountInit == Init => CountInv
<1> SUFFICES ASSUME Init PROVE CountInv OBVIOUS
<1>1. /\ served = 0 /\ changes = 0 /\ work = [t \in Threads |-> Free]
      /\ errors = [s \in Sessions |-> Absent]
  BY DEF Init
<1>2. Free.at = "free" /\ Free.seen = Absent BY DEF Free
<1>3. ASSUME NEW s \in Sessions PROVE Pending(work, s) = {}
  BY <1>1, <1>2 DEF Pending, Unjudged
<1>4. IsFiniteSet({}) /\ Cardinality({}) = 0 BY FS_EmptySet
<1>5. ASSUME NEW s \in Sessions
      PROVE  /\ errors[s] \in {Absent} \cup Nat /\ IsFiniteSet(Pending(work, s))
             /\ Errors(errors[s]) + Cardinality(Pending(work, s)) <= served
  BY <1>1, <1>3, <1>4 DEF Errors
<1>6. ASSUME NEW t \in Threads PROVE work[t].at = "free" /\ work[t].seen = Absent
  BY <1>1, <1>2
<1>7. served \in 0 .. MaxRequests /\ changes \in 0 .. MaxChanges
  BY <1>1, AuthorizationAssumption
<1>8. QED BY <1>5, <1>6, <1>7 DEF CountInv

\* Errors are known to be numbers up to the requests served.
LEMMA CountBound ==
  ASSUME CountInv, NEW s \in Sessions
  PROVE  /\ Cardinality(Pending(work, s)) \in Nat /\ Errors(errors[s]) \in Nat
         /\ errors[s] \in {Absent} \cup 0 .. MaxRequests
<1>1. Cardinality(Pending(work, s)) \in Nat BY FS_CardinalityType DEF CountInv
<1>2. /\ errors[s] \in {Absent} \cup Nat /\ served \in 0 .. MaxRequests /\ MaxRequests \in Nat
      /\ Errors(errors[s]) + Cardinality(Pending(work, s)) <= served
  BY AuthorizationAssumption DEF CountInv
<1> DEFINE c == Cardinality(Pending(work, s))
<1> HIDE DEF c
<1>3. c \in Nat /\ Errors(errors[s]) + c <= served BY <1>1, <1>2 DEF c
<1>4. QED BY <1>1, <1>2, <1>3 DEF Errors

\* A step of thread t that adds no error and no request
LEMMA CountOfThread ==
  ASSUME CountInv, NEW t \in Threads, Keeps(t), UNCHANGED <<served, changes>>,
         work'[t].at \in Unjudged =>
           work[t].at \in Unjudged /\ work'[t].session = work[t].session,
         \A s \in Sessions : errors'[s] = errors[s] \/ (errors[s] # Absent /\ errors'[s] = 0),
         work'[t].seen \in {Absent} \cup 0 .. MaxRequests,
         work'[t].at \in {"right", "wrong"} /\ work'[t].seen # Absent => errors'[work'[t].session] # Absent,
         \A u \in Threads : work[u].session \in Sessions
  PROVE  CountInv'
<1>1. \A u \in Threads \ {t} : work'[u] = work[u] BY DEF Keeps
<1>2. ASSUME NEW s \in Sessions
      PROVE  /\ errors'[s] \in {Absent} \cup Nat /\ (errors[s] # Absent => errors'[s] # Absent)
             /\ IsFiniteSet(Pending(work', s))
             /\ Errors(errors'[s]) + Cardinality(Pending(work', s)) <= served
  <2> DEFINE P == Pending(work, s)
             Q == Pending(work', s)
  <2>1. Q \subseteq P BY <1>1 DEF Pending
  <2>2. IsFiniteSet(P) /\ Errors(errors[s]) + Cardinality(P) <= served
        /\ errors[s] \in {Absent} \cup Nat /\ served \in Nat
    BY AuthorizationAssumption DEF CountInv
  <2> HIDE DEF P, Q
  <2>3. /\ IsFiniteSet(Q) /\ Cardinality(Q) <= Cardinality(P)
        /\ Cardinality(P) \in Nat /\ Cardinality(Q) \in Nat
    BY <2>1, <2>2, FS_Subset, FS_CardinalityType
  <2> DEFINE c == Cardinality(P)
             d == Cardinality(Q)
  <2> HIDE DEF c, d
  <2>4. d <= c /\ c \in Nat /\ d \in Nat /\ Errors(errors[s]) + c <= served
    BY <2>2, <2>3 DEF c, d
  <2>5. errors'[s] \in {Absent} \cup Nat /\ (errors[s] # Absent => errors'[s] # Absent)
        /\ Errors(errors'[s]) + d <= served
    BY <2>2, <2>4 DEF Errors, Absent
  <2>6. QED BY <2>3, <2>5 DEF Q, d
<1>3. ASSUME NEW u \in Threads \ {t}
      PROVE  /\ work'[u].seen \in {Absent} \cup 0 .. MaxRequests
             /\ work'[u].at \in {"right", "wrong"} /\ work'[u].seen # Absent
                  => errors'[work'[u].session] # Absent
  BY <1>1, <1>2 DEF CountInv
<1>4. QED BY <1>2, <1>3 DEF CountInv

\* A request that arrives is counted.
LEMMA CountArrive ==
  ASSUME LoginInv, CountInv, NEW t \in Threads, Arrive(t)
  PROVE  CountInv'
<1> USE Typed
<1> DEFINE w(s) == [Free EXCEPT !.at = "begin", !.session = s]
<1>1. PICK x \in Sessions : work' = [work EXCEPT ![t] = w(x)] BY DEF Arrive
<1>2. w(x).at = "begin" /\ w(x).session = x /\ w(x).seen = Absent
  <2>1. Free \in Locals /\ Free.seen = Absent BY FreeTyped DEF Free
  <2>2. QED BY <2>1 DEF Locals
<1>3. /\ work[t].at = "free" /\ served < MaxRequests /\ served' = served + 1
      /\ UNCHANGED <<errors, changes>>
  BY DEF Arrive, At, shared
<1> HIDE DEF w
<1>4. /\ work'[t].at = "begin" /\ work'[t].session = x /\ work'[t].seen = Absent
      /\ \A u \in Threads \ {t} : work'[u] = work[u]
  BY <1>1, <1>2
<1>5. served' \in 0 .. MaxRequests BY <1>3, AuthorizationAssumption DEF CountInv
<1>6. ASSUME NEW s \in Sessions
      PROVE  /\ IsFiniteSet(Pending(work', s))
             /\ Errors(errors'[s]) + Cardinality(Pending(work', s)) <= served'
  <2> DEFINE P == Pending(work, s)
             Q == Pending(work', s)
             c == Cardinality(P)
             d == Cardinality(Q)
  <2>1. /\ IsFiniteSet(P) /\ Errors(errors[s]) + c <= served /\ served \in Nat
        /\ c \in Nat /\ Errors(errors[s]) \in Nat
    BY CountBound, AuthorizationAssumption DEF CountInv
  <2>2. t \notin P /\ Q \in {P, P \cup {t}}
    BY <1>3, <1>4 DEF Pending, Unjudged
  <2> HIDE DEF P, Q
  <2>3. IsFiniteSet(Q) /\ (d = c \/ d = c + 1) BY <2>1, <2>2, FS_AddElement
  <2> HIDE DEF c, d
  <2>4. Errors(errors'[s]) + d <= served + 1 BY <1>3, <2>1, <2>3
  <2>5. QED BY <1>3, <2>3, <2>4 DEF Q, d
<1>7. ASSUME NEW u \in Threads
      PROVE  /\ work'[u].seen \in {Absent} \cup 0 .. MaxRequests
             /\ work'[u].at \in {"right", "wrong"} /\ work'[u].seen # Absent
                  => errors'[work'[u].session] # Absent
  BY <1>3, <1>4 DEF CountInv
<1>8. QED BY <1>3, <1>5, <1>6, <1>7 DEF CountInv

\* A wrong login is counted, and only that.
LEMMA CountWrong ==
  ASSUME LoginInv, CountInv, NEW t \in Threads, Wrong(t)
  PROVE  CountInv'
<1> USE Typed
<1> DEFINE x == work[t].session
           n == Counted(t, x)
<1>1. x \in Sessions BY DEF Locals
<1>2. /\ work[t].at = "wrong" /\ errors' = [errors EXCEPT ![x] = n]
      /\ work' = [work EXCEPT ![t].at = "send"] /\ UNCHANGED <<served, changes>>
  BY DEF Wrong, At, GoTo
<1>3. /\ work'[t].at = "send" /\ work'[t].seen = work[t].seen
      /\ \A u \in Threads \ {t} : work'[u] = work[u]
  BY <1>2 DEF Locals
<1>4. n \in Nat /\ n <= Errors(errors[x]) + 1
  <2>1. errors[x] \in {Absent} \cup Nat /\ (errors[x] = Absent => work[t].seen = Absent)
    BY <1>1, <1>2 DEF CountInv
  <2>2. QED BY <2>1 DEF Counted, Errors, Absent
<1> HIDE DEF n
<1>5. errors'[x] = n /\ \A s \in Sessions : s # x => errors'[s] = errors[s] BY <1>1, <1>2
<1>6. ASSUME NEW s \in Sessions
      PROVE  /\ errors'[s] \in {Absent} \cup Nat /\ (errors[s] # Absent => errors'[s] # Absent)
             /\ IsFiniteSet(Pending(work', s))
             /\ Errors(errors'[s]) + Cardinality(Pending(work', s)) <= served'
  <2> DEFINE P == Pending(work, s)
             Q == Pending(work', s)
             c == Cardinality(P)
             d == Cardinality(Q)
  <2>1. /\ IsFiniteSet(P) /\ Errors(errors[s]) + c <= served /\ served \in Nat
        /\ c \in Nat /\ Errors(errors[s]) \in Nat /\ errors[s] \in {Absent} \cup Nat
    BY CountBound, AuthorizationAssumption DEF CountInv
  <2>2. Q = P \ {t} /\ (t \in P <=> s = x)
    BY <1>2, <1>3 DEF Pending, Unjudged
  <2> HIDE DEF P, Q
  <2>3. IsFiniteSet(Q) /\ d = (IF s = x THEN c - 1 ELSE c) BY <2>1, <2>2, FS_RemoveElement
  <2> HIDE DEF c, d, x
  <2>4. CASE s = x
    <3>1. errors'[s] = n /\ n \in Nat /\ n <= Errors(errors[s]) + 1 /\ d = c - 1
      BY <1>4, <1>5, <2>3, <2>4
    <3>2. errors'[s] # Absent /\ Errors(errors'[s]) = n BY <3>1 DEF Errors, Absent
    <3>3. Errors(errors'[s]) + d <= served BY <2>1, <3>1, <3>2
    <3>4. QED BY <1>2, <2>3, <3>1, <3>2, <3>3 DEF Q, d
  <2>5. CASE s # x
    <3>1. errors'[s] = errors[s] /\ d = c BY <1>5, <2>3, <2>5
    <3>2. QED BY <1>2, <2>1, <2>3, <3>1 DEF Q, d
  <2>6. QED BY <2>4, <2>5
<1>7. ASSUME NEW u \in Threads
      PROVE  /\ work'[u].seen \in {Absent} \cup 0 .. MaxRequests
             /\ work'[u].at \in {"right", "wrong"} /\ work'[u].seen # Absent
                  => errors'[work'[u].session] # Absent
  <2>1. work[u].session \in Sessions BY DEF Locals
  <2>2. CASE u = t BY <1>3, <2>2 DEF CountInv
  <2>3. CASE u # t BY <1>3, <1>6, <2>1, <2>3 DEF CountInv
  <2>4. QED BY <2>2, <2>3
<1>8. QED BY <1>2, <1>6, <1>7 DEF CountInv

LEMMA CountStep == LoginInv /\ CountInv /\ [Next]_vars => CountInv'
<1> SUFFICES ASSUME LoginInv, CountInv, [Next]_vars PROVE CountInv'
  OBVIOUS
<1> USE Typed
<1>0. \A u \in Threads : work[u].session \in Sessions BY DEF Locals
<1>1. CASE UNCHANGED vars
  BY <1>1 DEF vars, CountInv, Pending
<1>2. CASE ChangePassword
  <2>1. PICK n : work' = [t \in Threads |-> [work[t] EXCEPT !.steady = @ /\ work[t].name # n]]
    BY <1>2 DEF ChangePassword
  <2>2. \A t \in Threads : /\ work'[t].at = work[t].at /\ work'[t].session = work[t].session
                           /\ work'[t].seen = work[t].seen
    BY <2>1 DEF Locals
  <2>3. UNCHANGED <<errors, served>> /\ changes' = changes + 1 /\ changes < MaxChanges
    BY <1>2 DEF ChangePassword
  <2>4. changes' \in 0 .. MaxChanges BY <2>3, AuthorizationAssumption DEF CountInv
  <2>5. \A s \in Sessions : Pending(work', s) = Pending(work, s) BY <2>2 DEF Pending
  <2>6. QED BY <2>2, <2>3, <2>4, <2>5 DEF CountInv
<1>3. ASSUME NEW t \in Threads, Serve(t) PROVE CountInv'
  <2>0. Keeps(t)
    BY <1>3, ArriveKeeps, NoCredentialsKeeps, LoginKeeps, CheckCacheKeeps,
       FindInMysqlKeeps, PutKeeps, JudgeKeeps, WrongKeeps, RightKeeps, CallbackKeeps,
       NotFoundKeeps, SendKeeps
    DEF Serve
  <2>1. CASE Arrive(t) BY <2>1, CountArrive
  <2>2. CASE Wrong(t) BY <2>2, CountWrong
  <2>3. CASE NoCredentials(t) \/ Login(t) \/ CheckCache(t) \/ FindInMysql(t) \/ Put(t)
    <3>1. /\ UNCHANGED <<served, changes, errors>>
          /\ work[t].at \in {"begin", "check", "query", "put"}
      BY <2>3 DEF NoCredentials, Login, CheckCache, FindInMysql, Put, At, shared
    <3>2. /\ work'[t].session = work[t].session /\ work'[t].seen = work[t].seen
          /\ work'[t].at \notin {"right", "wrong"}
      <4>1. CASE NoCredentials(t) BY <4>1 DEF NoCredentials, GoTo, Locals
      <4>2. CASE Login(t)
        <5>1. PICK n \in Names, p \in Passwords :
                work' = [work EXCEPT ![t].at = "check", ![t].name = n, ![t].given = p,
                                     ![t].steady = had[n] = {p}]
          BY <4>2 DEF Login
        <5>2. PICK b \in BOOLEAN : b = (had[n] = {p}) OBVIOUS
        <5>3. work' = [work EXCEPT ![t].at = "check", ![t].name = n, ![t].given = p,
                                   ![t].steady = b]
          BY <5>1, <5>2
        <5>4. QED BY <5>3 DEF Locals
      <4>3. CASE CheckCache(t) BY <4>3 DEF CheckCache, Locals
      <4>4. CASE FindInMysql(t) BY <4>4 DEF FindInMysql, GoTo, Locals
      <4>5. CASE Put(t) BY <4>5 DEF Put, GoTo, Locals
      <4>6. QED BY <2>3, <4>1, <4>2, <4>3, <4>4, <4>5
    <3>3. work[t].seen \in {Absent} \cup 0 .. MaxRequests BY DEF CountInv
    <3>4. work[t].at \in Unjudged BY <3>1 DEF Unjudged
    <3>5. QED BY <1>0, <2>0, <3>1, <3>2, <3>3, <3>4, CountOfThread
  <2>4. CASE Judge(t)
    <3> DEFINE step == IF Correct(t) THEN "right" ELSE "wrong"
               e == errors[work[t].session]
    <3>1. /\ UNCHANGED <<served, changes, errors>> /\ work[t].at \in Unjudged
          /\ work' = [work EXCEPT ![t].at = step, ![t].seen = e]
      BY <2>4 DEF Judge, At, shared, Unjudged
    <3>2. e \in {Absent} \cup 0 .. MaxRequests BY <1>0, CountBound
    <3> HIDE DEF step
    <3>3. work'[t].session = work[t].session /\ work'[t].seen = e BY <3>1 DEF Locals
    <3>4. QED BY <1>0, <2>0, <3>1, <3>2, <3>3, CountOfThread
  <2>5. CASE Right(t)
    <3>1. /\ UNCHANGED <<served, changes>> /\ work' = [work EXCEPT ![t].at = "route"]
          /\ errors' = IF work[t].seen > 0 THEN [errors EXCEPT ![work[t].session] = 0] ELSE errors
      BY <2>5 DEF Right, GoTo
    <3>2. work'[t].at = "route" /\ work'[t].seen = work[t].seen BY <3>1 DEF Locals
    <3>3. work[t].seen \in {Absent} \cup 0 .. MaxRequests BY DEF CountInv
    <3>4. "route" \notin Unjudged BY DEF Unjudged
    <3>5. ASSUME NEW s \in Sessions
          PROVE  errors'[s] = errors[s] \/ (errors[s] # Absent /\ errors'[s] = 0)
      <4>1. work[t].seen # Absent => errors[work[t].session] # Absent
        BY <2>5 DEF Right, At, CountInv
      <4>2. work[t].seen > 0 => work[t].seen # Absent BY DEF Absent
      <4>3. QED BY <1>0, <3>1, <4>1, <4>2
    <3>6. QED BY <1>0, <2>0, <3>1, <3>2, <3>3, <3>4, <3>5, CountOfThread
  <2>6. CASE Callback(t) \/ NotFound(t)
    <3>1. /\ UNCHANGED <<served, changes, errors>> /\ work' = [work EXCEPT ![t].at = "send"]
      BY <2>6 DEF Callback, NotFound, GoTo, shared
    <3>2. work'[t].at = "send" /\ work'[t].seen = work[t].seen BY <3>1 DEF Locals
    <3>3. work[t].seen \in {Absent} \cup 0 .. MaxRequests BY DEF CountInv
    <3>4. "send" \notin Unjudged BY DEF Unjudged
    <3>5. QED BY <1>0, <2>0, <3>1, <3>2, <3>3, <3>4, CountOfThread
  <2>7. CASE Send(t)
    <3>1. /\ UNCHANGED <<served, changes, errors>> /\ work'[t] = Free
      BY <2>7 DEF Send, shared
    <3>2. Free.at = "free" /\ Free.seen = Absent BY DEF Free
    <3>3. "free" \notin Unjudged BY DEF Unjudged
    <3>4. QED BY <1>0, <2>0, <3>1, <3>2, <3>3, CountOfThread
  <2>8. QED BY <1>3, <2>1, <2>2, <2>3, <2>4, <2>5, <2>6, <2>7 DEF Serve
<1>4. QED BY <1>1, <1>2, <1>3 DEF Next

\* Every variable keeps its type: no session counts more errors than requests
\* were served, and no length of a response passes the largest size_t.
THEOREM Typing == Spec => []TypeOK
<1>1. ASSUME LoginInv, ResponseInv, CountInv PROVE TypeOK
  <2> USE <1>1, Typed
  <2>1. errors \in [Sessions -> {Absent} \cup 0 .. MaxRequests]
    BY CountBound
  <2>2. ASSUME NEW t \in Threads
        PROVE  /\ work[t] \in [at : Steps, session : Sessions, name : Names,
                     given : Passwords \cup {NoPassword}, steady : BOOLEAN, failed : BOOLEAN,
                     password : Passwords \cup {NoPassword}, seen : {Absent} \cup 0 .. MaxRequests]
    <3>1. work[t] \in Locals /\ work[t].seen \in {Absent} \cup 0 .. MaxRequests
      BY DEF CountInv
    <3>2. QED BY <3>1 DEF Locals, Maybe
  <2>3. ASSUME NEW t \in Threads
        PROVE  response[t].len <= SizeMax /\ response[t].capacity <= SizeMax
    <3>1. Holds(response[t]) BY DEF ResponseInv, Announced
    <3>2. CASE response[t].len = 0 /\ response[t].capacity = 0 BY <3>2, ContentsAssumption
    <3>3. CASE HasRoom(response[t], response[t].set.size) /\ response[t].len = response[t].set.size
      <4>1. response[t].set.size \in Nat BY <3>3, BodySizes DEF HasRoom, Responses
      <4>2. QED BY <3>3, <4>1, ContentsAssumption DEF HasRoom
    <3>4. QED BY <3>1, <3>2, <3>3 DEF Holds
  <2>4. served \in 0 .. MaxRequests /\ changes \in 0 .. MaxChanges BY DEF CountInv
  <2>5. QED BY <2>1, <2>2, <2>3, <2>4 DEF TypeOK, Maybe
<1>2. QED
  BY <1>1, LoginInit, LoginStep, ResponseInit, ResponseStep, CountInit, CountStep, PTL DEF Spec

=============================================================================
