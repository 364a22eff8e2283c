----------------------- MODULE SessionStoreRefinement -----------------------
(***************************************************************************)
(* SessionStore implements SessionDirectory: an id is known from the draw  *)
(* of it, while the thread that drew it holds it, then by the cache, and   *)
(* by the table if its INSERT succeeds.                                    *)
(***************************************************************************)
EXTENDS SessionStore

Known == db \cup {i \in Ids : cache[i] # NoSession} \cup (Drawn \cap Ids)

Stage(t) ==
  IF At(t, "free") THEN "free"
  ELSE IF work[t].session = NoSession
       THEN IF work[t].failed THEN "failed" ELSE "asked"
  ELSE IF work[t].at \in {"put", "insert"} THEN "writing" ELSE "served"

ServedAs(t) ==
  [at |-> Stage(t), cookie |-> work[t].cookie,
   id |-> IF work[t].session = NoSession THEN NoId ELSE Mine(t).id]

Directory == INSTANCE SessionDirectory
  WITH known <- Known, durable <- db, given <- issued,
       serving <- [t \in Threads |-> ServedAs(t)]

\* findSession looks up, reloads and generates in several steps that other
\* threads and a restart come between, and yet each request gets its session
\* as if in one step: that of its cookie whenever cache or table have the id
\* then and its SELECT, if it needs one, does not fail, else a new one under an
\* id nobody else has or was ever given, unless two threads draw at the same
\* time.
ImplementsDirectory == Directory!DirectorySpec

=============================================================================
