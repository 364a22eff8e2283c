--------------------------- MODULE ProxyPairProofs ---------------------------
(***************************************************************************)
(* Theorems about ProxyPair, with or without TLS and whatever browser and  *)
(* upstream may do.                                                        *)
(*                                                                         *)
(* Pairing ties the pointers of the node to the lives of the connections,  *)
(* as far as the pair is not in the hands of the task of a 403, which runs *)
(* without the mutex.                                                      *)
(***************************************************************************)
EXTENDS ProxyPair, TLAPS

\* The server half while it is not yet bound
Unbound ==
  /\ ~node.server /\ ~node.client /\ ~cli.bound
  /\ srv.conn # "bound"
  /\ spc \in {"found", "created"} =>
       /\ srv.conn = "accepted" /\ cli.conn # "none"
       /\ srv.ssl = (IF UseSSL THEN "connected" ELSE "absent")

\* Both halves are bound; a pointer is null exactly when its half has ended
Bound ==
  /\ cli.bound /\ cli.conn # "none" /\ srv.conn # "accepted"
  /\ node.server <=> srv.conn \notin {"destroyed", "freed"}
  /\ node.client <=> cli.conn \notin {"destroyed", "freed"}
  /\ node.life = "live" <=> node.server \/ node.client
  /\ srv.ssl = (IF UseSSL /\ node.server THEN "connected" ELSE "absent")
  /\ spc \in {"loop", "firstRead"}

Pairing ==
  /\ spc \notin TaskSteps
  /\ spc = "firstRead" => srv.conn = "bound"
  /\ IF node.life = "none" THEN Unbound ELSE Bound

PairInv ==
  /\ TypeOK /\ LiveObjectsOnly
  /\ Running /\ ~Forbidden => Pairing

-----------------------------------------------------------------------------
LEMMA PairInit == Init => PairInv
<1> SUFFICES ASSUME Init PROVE PairInv
  OBVIOUS
<1>1. /\ srv.conn = "accepted" /\ srv.ssl = "absent"
      /\ cli.conn = "none" /\ cli.bound = FALSE
      /\ node.life = "none" /\ node.server = FALSE /\ node.client = FALSE
      /\ spc = "loop" /\ faults = {}
  BY DEF Init
<1>2. TypeOK
  <2>1. srv \in [conn : ServerLives, ssl : SslStates, write : BOOLEAN]
    BY DEF Init, ServerLives, SslStates
  <2>2. cli \in [conn : ClientLives, bound : BOOLEAN, out : BOOLEAN, write : BOOLEAN]
    BY DEF Init, ClientLives
  <2>3. node \in [life : NodeLives, server : BOOLEAN, client : BOOLEAN]
    BY DEF Init, NodeLives
  <2>4. errors \in 0 .. MaxErrors /\ spc \in ServerSteps
    BY DEF Init, MaxErrors, ServerSteps
  <2>5. taskWrite \in BOOLEAN /\ authorized \in BOOLEAN /\ faults \subseteq FaultKinds
    BY DEF Init
  <2>6. QED BY <2>1, <2>2, <2>3, <2>4, <2>5 DEF TypeOK
<1>3. LiveObjectsOnly
  BY <1>1 DEF LiveObjectsOnly
<1>4. Pairing
  BY <1>1 DEF Pairing, Unbound, TaskSteps
<1>5. QED BY <1>2, <1>3, <1>4 DEF PairInv

(* What the common steps of the handlers leave in each record *)

Srv  == [conn : ServerLives, ssl : SslStates, write : BOOLEAN]
Cli  == [conn : ClientLives, bound : BOOLEAN, out : BOOLEAN, write : BOOLEAN]
Node == [life : NodeLives, server : BOOLEAN, client : BOOLEAN]

LEMMA Parts ==
  ASSUME TypeOK
  PROVE  srv \in Srv /\ cli \in Cli /\ node \in Node
BY DEF TypeOK, Srv, Cli, Node

LEMMA Ended ==
  ASSUME srv \in Srv, cli \in Cli
  PROVE  /\ ServerEnded \in Srv
         /\ ServerEnded.conn = "destroyed" /\ ServerEnded.ssl = "absent"
         /\ ClientEnded \in Cli
         /\ ClientEnded.conn = "destroyed" /\ ClientEnded.bound = cli.bound
BY DEF Srv, Cli, ServerLives, SslStates, ClientLives, ServerEnded, ClientEnded

LEMMA TriggeredHalf ==
  ASSUME srv \in Srv, cli \in Cli
  PROVE  /\ Triggered(srv) \in Srv
         /\ Triggered(srv).conn = srv.conn /\ Triggered(srv).ssl = srv.ssl
         /\ Triggered(cli) \in Cli
         /\ Triggered(cli).conn = cli.conn /\ Triggered(cli).bound = cli.bound
BY DEF Srv, Cli, Triggered

LEMMA Forgotten ==
  ASSUME node \in Node
  PROVE  /\ NodeDeleted \in Node /\ NodeDeleted.life = "deleted"
         /\ ~NodeDeleted.server /\ ~NodeDeleted.client
         /\ ServerGone \in Node /\ ServerGone.life = node.life
         /\ ~ServerGone.server /\ ServerGone.client = node.client
         /\ ClientGone \in Node /\ ClientGone.life = node.life
         /\ ~ClientGone.client /\ ClientGone.server = node.server
<1>1. /\ NodeDeleted \in Node /\ NodeDeleted.life = "deleted"
      /\ ~NodeDeleted.server /\ ~NodeDeleted.client
  BY DEF NodeDeleted, Node, NodeLives
<1>2. /\ ServerGone \in Node /\ ServerGone.life = node.life
      /\ ~ServerGone.server /\ ServerGone.client = node.client
  BY DEF ServerGone, Node
<1>3. /\ ClientGone \in Node /\ ClientGone.life = node.life
      /\ ~ClientGone.client /\ ClientGone.server = node.server
  BY DEF ClientGone, Node
<1>4. QED BY <1>1, <1>2, <1>3

(* An object that is alive when it is used is no fault.                      *)
LEMMA NoFault ==
  /\ node.life # "deleted" => NodeFault = {}
  /\ srv.conn \notin {"destroyed", "freed"} => ServerFault = {}
  /\ cli.conn \notin {"destroyed", "freed"} => ClientFault = {}
BY DEF NodeFault, ServerFault, ClientFault, If, Over

(* A connection that the running handler destroyed still has its id.         *)
LEMMA IdStands ==
  ASSUME NEW half, half.conn = "destroyed" PROVE IdFault(half) = {}
BY DEF IdFault, If

(* Only a handler that deletes its node unlocks a mutex that is gone.        *)
LEMMA UnlockOf ==
  ASSUME NEW n
  PROVE  /\ UnlockFault(n) \subseteq {"deadUnlock"}
         /\ n.life # "deleted" => UnlockFault(n) = {}
BY DEF UnlockFault, If

-----------------------------------------------------------------------------
(* The steps *)

(* The updates that handlers make on their own                              *)
LEMMA WriteFlags ==
  ASSUME srv \in Srv, cli \in Cli, NEW w \in BOOLEAN
  PROVE  /\ [srv EXCEPT !.write = w] \in Srv
         /\ [srv EXCEPT !.write = w].conn = srv.conn
         /\ [srv EXCEPT !.write = w].ssl = srv.ssl
         /\ [cli EXCEPT !.out = w, !.write = w] \in Cli
         /\ [cli EXCEPT !.out = w, !.write = w].conn = cli.conn
         /\ [cli EXCEPT !.out = w, !.write = w].bound = cli.bound
BY DEF Srv, Cli

LEMMA OtherUpdates ==
  ASSUME srv \in Srv, cli \in Cli
  PROVE  /\ [srv EXCEPT !.conn = "freed"] \in Srv
         /\ [srv EXCEPT !.conn = "freed"].conn = "freed"
         /\ [srv EXCEPT !.conn = "freed"].ssl = srv.ssl
         /\ [cli EXCEPT !.conn = "freed"] \in Cli
         /\ [cli EXCEPT !.conn = "freed"].conn = "freed"
         /\ [cli EXCEPT !.conn = "freed"].bound = cli.bound
         /\ [srv EXCEPT !.conn = "destroyed", !.write = FALSE] \in Srv
         /\ [srv EXCEPT !.conn = "destroyed", !.write = FALSE].conn = "destroyed"
         /\ [cli EXCEPT !.write = FALSE, !.out = FALSE] \in Cli
         /\ [cli EXCEPT !.write = FALSE, !.out = FALSE].conn = cli.conn
         /\ [cli EXCEPT !.write = FALSE, !.out = FALSE].bound = cli.bound
         /\ [cli EXCEPT !.conn = "up", !.write = cli.out] \in Cli
         /\ [cli EXCEPT !.conn = "up", !.write = cli.out].conn = "up"
         /\ [cli EXCEPT !.conn = "up", !.write = cli.out].bound = cli.bound
BY DEF Srv, Cli, ServerLives, ClientLives

LEMMA FaultsTyped ==
  NodeFault \subseteq FaultKinds /\ ServerFault \subseteq FaultKinds
    /\ ClientFault \subseteq FaultKinds /\ IdFault(srv) \subseteq FaultKinds
BY DEF NodeFault, ServerFault, ClientFault, IdFault, If, FaultKinds

\* No handler has used an ended object but for the three faults that the code
\* has, and the pointers agree with the lives
Sound ==
  /\ faults \subseteq {"assertClient", "bindDead", "deadUnlock"}
  /\ Running => Pairing

Keeps == TypeOK' /\ (~Forbidden' => Sound')

LEMMA PairStep ==
  ASSUME TypeOK, Running, ~Forbidden => Pairing, ServerThread \/ ClientThread
  PROVE  Keeps
<1> USE Parts
<1>0. spc \in ServerSteps /\ taskWrite \in BOOLEAN /\ authorized \in BOOLEAN
      /\ errors \in 0 .. MaxErrors /\ Forbidden \in BOOLEAN
      /\ faults \subseteq {"deadUnlock"} /\ faults \subseteq FaultKinds
  BY DEF TypeOK, Forbidden, Running
<1>1. CASE HandshakeFails
  <2>1. /\ srv' \in Srv /\ cli' \in Cli /\ node' \in Node
        /\ srv'.conn = "destroyed" /\ srv'.ssl = "absent"
        /\ cli' = cli /\ node' = node
        /\ spc' = spc /\ errors' = errors /\ faults' = faults
        /\ taskWrite' \in BOOLEAN /\ authorized' \in BOOLEAN
    BY <1>0, <1>1, Ended, IdStands
    DEF HandshakeFails, AtHandshake, sVars
  <2>2. TypeOK'
    BY <1>0, <2>1, FaultsTyped
    DEF TypeOK, Srv, Cli, Node, ServerSteps, FaultKinds, MaxErrors
  <2>3. ~Forbidden' => Sound'
    BY <1>0, <1>1, <2>1, NoFault
    DEF HandshakeFails, AtHandshake, Sound, Running, Pairing, Unbound, Bound, Forbidden,
        TaskSteps, MaxErrors
  <2>4. QED BY <2>2, <2>3 DEF Keeps
<1>2. CASE HandshakeReturns
  <2>1. /\ srv' \in Srv /\ cli' \in Cli /\ node' \in Node
        /\ srv'.conn = srv.conn
        /\ cli' = cli /\ node' = node
        /\ spc' = spc /\ errors' = errors /\ faults' = faults
        /\ taskWrite' \in BOOLEAN /\ authorized' \in BOOLEAN
    BY <1>0, <1>2
    DEF HandshakeReturns, AtHandshake, Srv, Cli, Node, ServerLives, SslStates,
        ClientLives, NodeLives, sVars
  <2>2. TypeOK'
    BY <1>0, <2>1, FaultsTyped
    DEF TypeOK, Srv, Cli, Node, ServerSteps, FaultKinds, MaxErrors
  <2>3. ~Forbidden' => Sound'
    BY <1>0, <1>2, <2>1, NoFault
    DEF HandshakeReturns, AtHandshake, Sound, Running, Pairing, Unbound, Bound,
        Forbidden, TaskSteps, MaxErrors
  <2>4. QED BY <2>2, <2>3 DEF Keeps
<1>3. CASE ConnectStarts
  <2>1. /\ srv' \in Srv /\ cli' \in Cli /\ node' \in Node
        /\ srv'.conn = srv.conn /\ srv'.ssl = (IF UseSSL THEN "connected" ELSE "absent")
        /\ cli'.conn = "connecting" /\ cli'.bound = cli.bound
        /\ node' = node /\ spc' = "found"
        /\ errors' = errors /\ faults' = faults
        /\ taskWrite' \in BOOLEAN /\ authorized' \in BOOLEAN
    BY <1>0, <1>3
    DEF ConnectStarts, AtHandshake, Srv, Cli, Node, ServerLives, SslStates,
        ClientLives, NodeLives, sVars
  <2>2. TypeOK'
    BY <1>0, <2>1, FaultsTyped
    DEF TypeOK, Srv, Cli, Node, ServerSteps, FaultKinds, MaxErrors
  <2>3. ~Forbidden' => Sound'
    BY <1>0, <1>3, <2>1, NoFault
    DEF ConnectStarts, AtHandshake, Sound, Running, Pairing, Unbound, Bound, Forbidden,
        TaskSteps, MaxErrors
  <2>4. QED BY <2>2, <2>3 DEF Keeps
<1>4. CASE ConnectFails
  <2>1. /\ srv' \in Srv /\ cli' \in Cli /\ node' \in Node
        /\ srv'.conn = "destroyed" /\ srv'.ssl = "absent"
        /\ cli' = cli /\ node' = node
        /\ spc' = spc /\ errors' = errors /\ faults' = faults
        /\ taskWrite' \in BOOLEAN /\ authorized' \in BOOLEAN
    BY <1>0, <1>4, Ended
    DEF ConnectFails, AtHandshake, sVars
  <2>2. TypeOK'
    BY <1>0, <2>1, FaultsTyped
    DEF TypeOK, Srv, Cli, Node, ServerSteps, FaultKinds, MaxErrors
  <2>3. ~Forbidden' => Sound'
    BY <1>0, <1>4, <2>1, NoFault
    DEF ConnectFails, AtHandshake, Sound, Running, Pairing, Unbound, Bound, Forbidden,
        TaskSteps, MaxErrors
  <2>4. QED BY <2>2, <2>3 DEF Keeps
<1>5. CASE FindClient
  <2>1. /\ srv' \in Srv /\ cli' \in Cli /\ node' \in Node
        /\ srv' = srv /\ cli' = cli /\ node' = node
        /\ spc' \in {spc, "created"}
        /\ Over(cli) => "assertClient" \in faults'
        /\ faults' \subseteq {"assertClient"} \cup faults
        /\ errors' = errors
        /\ taskWrite' \in BOOLEAN /\ authorized' \in BOOLEAN
    BY <1>0, <1>5
    DEF FindClient, Srv, Cli, Node, ServerLives, SslStates, ClientLives,
        NodeLives, sVars, If, FaultKinds
  <2>2. TypeOK'
    BY <1>0, <2>1, FaultsTyped
    DEF TypeOK, Srv, Cli, Node, ServerSteps, FaultKinds, MaxErrors
  <2>3. ~Forbidden' => Sound'
    BY <1>0, <1>5, <2>1, NoFault
    DEF FindClient, Over, Sound, Running, Pairing, Unbound, Bound, Forbidden, TaskSteps,
        MaxErrors
  <2>4. QED BY <2>2, <2>3 DEF Keeps
<1>6. CASE BindPair
  <2>1. /\ srv' \in Srv /\ cli' \in Cli /\ node' \in Node
        /\ srv'.conn = "bound" /\ srv'.ssl = srv.ssl
        /\ cli'.conn = cli.conn /\ cli'.bound = TRUE
        /\ node'.life = "live" /\ node'.server /\ node'.client
        /\ spc' = "firstRead" /\ errors' = errors
        /\ faults' = faults \cup If(Over(cli), "bindDead")
        /\ taskWrite' \in BOOLEAN /\ authorized' \in BOOLEAN
    BY <1>0, <1>6
    DEF BindPair, Srv, Cli, Node, ServerLives, SslStates, ClientLives,
        NodeLives, sVars
  <2>2. TypeOK'
    BY <1>0, <2>1, FaultsTyped
    DEF TypeOK, Srv, Cli, Node, ServerSteps, FaultKinds, MaxErrors, If
  <2>3. ~Forbidden' => Sound'
    BY <1>0, <1>6, <2>1, NoFault
    DEF BindPair, Over, Sound, Running, Pairing, Unbound, Bound, Forbidden, TaskSteps,
        MaxErrors, If
  <2>4. QED BY <2>2, <2>3 DEF Keeps
<1>7. CASE ReadNoClient
  <2>1. /\ srv' \in Srv /\ cli' \in Cli /\ node' \in Node
        /\ srv'.conn = "destroyed" /\ srv'.ssl = "absent"
        /\ cli' = cli
        /\ node'.life = "deleted" /\ ~node'.server /\ ~node'.client
        /\ spc' = "loop" /\ errors' = errors
        /\ faults' \subseteq faults \cup NodeFault \cup {"deadUnlock"}
        /\ taskWrite' \in BOOLEAN /\ authorized' \in BOOLEAN
    BY <1>0, <1>7, Ended, Forgotten, IdStands, UnlockOf
    DEF ReadNoClient, AtRead, sVars
  <2>2. TypeOK'
    BY <1>0, <2>1, FaultsTyped
    DEF TypeOK, Srv, Cli, Node, ServerSteps, FaultKinds, MaxErrors
  <2>3. ~Forbidden' => Sound'
    BY <1>0, <1>7, <2>1, NoFault
    DEF ReadNoClient, AtRead, Sound, Running, Pairing, Unbound, Bound, Forbidden,
        TaskSteps, MaxErrors
  <2>4. QED BY <2>2, <2>3 DEF Keeps
<1>8. CASE ReadEndsServer
  <2>1. /\ srv' \in Srv /\ cli' \in Cli /\ node' \in Node
        /\ srv'.conn = "destroyed" /\ srv'.ssl = "absent"
        /\ cli'.conn = cli.conn /\ cli'.bound = cli.bound
        /\ node'.life = node.life /\ ~node'.server /\ node'.client = node.client
        /\ spc' = "loop" /\ errors' = errors
        /\ faults' = faults \cup ClientFault
        /\ taskWrite' \in BOOLEAN /\ authorized' \in BOOLEAN
    BY <1>0, <1>8, Ended, IdStands, TriggeredHalf, Forgotten
    DEF ReadEndsServer, AtRead, sVars
  <2>2. TypeOK'
    BY <1>0, <2>1, FaultsTyped
    DEF TypeOK, Srv, Cli, Node, ServerSteps, FaultKinds, MaxErrors
  <2>3. ~Forbidden' => Sound'
    BY <1>0, <1>8, <2>1, NoFault
    DEF ReadEndsServer, AtRead, Sound, Running, Pairing, Unbound, Bound, Forbidden,
        TaskSteps, MaxErrors
  <2>4. QED BY <2>2, <2>3 DEF Keeps
<1>9. CASE ReadUnauthorized
  <2>1. /\ srv' \in Srv /\ cli' \in Cli /\ node' \in Node
        /\ srv' = srv /\ cli' = cli
        /\ node' = node /\ spc' = "loop"
        /\ errors' \in 0 .. MaxErrors
        /\ faults' = faults
        /\ taskWrite' \in BOOLEAN /\ authorized' \in BOOLEAN
    BY <1>0, <1>9
    DEF ReadUnauthorized, AtRead, Srv, Cli, Node, ServerLives, SslStates,
        ClientLives, NodeLives, sVars, MaxErrors
  <2>2. TypeOK'
    BY <1>0, <2>1, FaultsTyped
    DEF TypeOK, Srv, Cli, Node, ServerSteps, FaultKinds, MaxErrors
  <2>3. ~Forbidden' => Sound'
    BY <1>0, <1>9, <2>1, NoFault
    DEF ReadUnauthorized, AtRead, Sound, Running, Pairing, Unbound, Bound, Forbidden,
        TaskSteps, MaxErrors
  <2>4. QED BY <2>2, <2>3 DEF Keeps
<1>10. CASE ReadForbidden
  <2>1. /\ srv' \in Srv /\ cli' \in Cli /\ node' \in Node
        /\ srv' = srv /\ cli' = cli /\ node' = node
        /\ spc' \in TaskSteps
        /\ errors' = MaxErrors /\ faults' = faults
        /\ taskWrite' \in BOOLEAN /\ authorized' \in BOOLEAN
    BY <1>0, <1>10
    DEF ReadForbidden, AtRead, Srv, Cli, Node, ServerLives, SslStates,
        ClientLives, NodeLives, sVars, TaskSteps
  <2>2. TypeOK'
    BY <1>0, <2>1, FaultsTyped
    DEF TypeOK, Srv, Cli, Node, ServerSteps, FaultKinds, MaxErrors, TaskSteps
  <2>3. ~Forbidden' => Sound'
    BY <1>0, <1>10, <2>1, NoFault
    DEF ReadForbidden, AtRead, Sound, Running, Pairing, Unbound, Bound, Forbidden,
        TaskSteps, MaxErrors
  <2>4. QED BY <2>2, <2>3 DEF Keeps
<1>11. CASE ReadForward
  <2>1. /\ srv' \in Srv /\ cli' \in Cli /\ node' \in Node
        /\ srv' = srv
        /\ cli'.conn = cli.conn /\ cli'.bound = cli.bound
        /\ node' = node /\ spc' = "loop"
        /\ errors' = errors /\ faults' = faults
        /\ taskWrite' \in BOOLEAN /\ authorized' \in BOOLEAN
    BY <1>0, <1>11, WriteFlags
    DEF ReadForward, AtRead, sVars
  <2>2. TypeOK'
    BY <1>0, <2>1, FaultsTyped
    DEF TypeOK, Srv, Cli, Node, ServerSteps, FaultKinds, MaxErrors
  <2>3. ~Forbidden' => Sound'
    BY <1>0, <1>11, <2>1, NoFault
    DEF ReadForward, AtRead, Sound, Running, Pairing, Unbound, Bound, Forbidden,
        TaskSteps, MaxErrors
  <2>4. QED BY <2>2, <2>3 DEF Keeps
<1>12. CASE TaskSsl
  <2>1. /\ srv' \in Srv /\ cli' \in Cli /\ node' \in Node
        /\ srv'.conn = srv.conn
        /\ cli' = cli /\ node' = node
        /\ spc' = "taskDestroy" /\ errors' = errors
        /\ faults' \subseteq FaultKinds
        /\ taskWrite' \in BOOLEAN /\ authorized' \in BOOLEAN
    BY <1>0, <1>12
    DEF TaskSsl, Srv, Cli, Node, ServerLives, SslStates, ClientLives, NodeLives,
        sVars, If, FaultKinds
  <2>2. TypeOK'
    BY <1>0, <2>1, FaultsTyped
    DEF TypeOK, Srv, Cli, Node, ServerSteps, FaultKinds, MaxErrors, TaskSteps
  <2>3. ~Forbidden' => Sound'
    BY <1>0, <1>12, <2>1, NoFault
    DEF TaskSsl, Sound, Running, Pairing, Unbound, Bound, Forbidden, TaskSteps, MaxErrors
  <2>4. QED BY <2>2, <2>3 DEF Keeps
<1>13. CASE TaskDestroy
  <2>1. /\ srv' \in Srv /\ cli' \in Cli /\ node' \in Node
        /\ srv'.conn = "destroyed"
        /\ cli' = cli /\ node' = node
        /\ spc' = "taskNull" /\ errors' = errors
        /\ faults' \subseteq FaultKinds
        /\ taskWrite' \in BOOLEAN /\ authorized' \in BOOLEAN
    BY <1>0, <1>13, OtherUpdates
    DEF TaskDestroy, sVars, If, FaultKinds
  <2>2. TypeOK'
    BY <1>0, <2>1, FaultsTyped
    DEF TypeOK, Srv, Cli, Node, ServerSteps, FaultKinds, MaxErrors, TaskSteps
  <2>3. ~Forbidden' => Sound'
    BY <1>0, <1>13, <2>1, NoFault
    DEF TaskDestroy, Sound, Running, Pairing, Unbound, Bound, Forbidden, TaskSteps,
        MaxErrors
  <2>4. QED BY <2>2, <2>3 DEF Keeps
<1>14. CASE TaskNull
  <2>1. /\ srv' \in Srv /\ cli' \in Cli /\ node' \in Node
        /\ srv' = srv /\ cli' = cli
        /\ node'.life = node.life /\ ~node'.server /\ node'.client = node.client
        /\ spc' = "taskTrigger" /\ errors' = errors
        /\ faults' \subseteq FaultKinds
        /\ taskWrite' \in BOOLEAN /\ authorized' \in BOOLEAN
    BY <1>0, <1>14, Forgotten, FaultsTyped
    DEF TaskNull, sVars
  <2>2. TypeOK'
    BY <1>0, <2>1, FaultsTyped
    DEF TypeOK, Srv, Cli, Node, ServerSteps, FaultKinds, MaxErrors, TaskSteps
  <2>3. ~Forbidden' => Sound'
    BY <1>0, <1>14, <2>1, NoFault
    DEF TaskNull, Sound, Running, Pairing, Unbound, Bound, Forbidden, TaskSteps,
        MaxErrors
  <2>4. QED BY <2>2, <2>3 DEF Keeps
<1>15. CASE TaskTrigger
  <2>1. /\ srv' \in Srv /\ cli' \in Cli /\ node' \in Node
        /\ srv' = srv
        /\ cli'.conn = cli.conn /\ cli'.bound = cli.bound
        /\ node' = node /\ spc' = "loop" /\ errors' = errors
        /\ faults' \subseteq FaultKinds
        /\ taskWrite' \in BOOLEAN /\ authorized' \in BOOLEAN
    BY <1>0, <1>15, TriggeredHalf, FaultsTyped
    DEF TaskTrigger, sVars
  <2>2. TypeOK'
    BY <1>0, <2>1, FaultsTyped
    DEF TypeOK, Srv, Cli, Node, ServerSteps, FaultKinds, MaxErrors, TaskSteps
  <2>3. ~Forbidden' => Sound'
    BY <1>0, <1>15, <2>1, NoFault
    DEF TaskTrigger, Sound, Running, Pairing, Unbound, Bound, Forbidden, TaskSteps,
        MaxErrors
  <2>4. QED BY <2>2, <2>3 DEF Keeps
<1>16. CASE ServerClose
  <2>1. /\ srv' \in Srv /\ cli' \in Cli /\ node' \in Node
        /\ srv'.conn = "destroyed" /\ srv'.ssl = "absent"
        /\ IF node.client THEN node'.life = node.life /\ ~node'.server
                             /\ node'.client = node.client
           ELSE node'.life = "deleted" /\ ~node'.server /\ ~node'.client
        /\ cli'.conn = cli.conn /\ cli'.bound = cli.bound
        /\ spc' = spc /\ errors' = errors
        /\ faults' \subseteq faults \cup NodeFault \cup {"deadUnlock"}
                           \cup (IF node.client THEN ClientFault ELSE {})
        /\ taskWrite' \in BOOLEAN /\ authorized' \in BOOLEAN
    BY <1>0, <1>16, Ended, TriggeredHalf, Forgotten, UnlockOf
    DEF ServerClose, sVars
  <2>2. TypeOK'
    BY <1>0, <2>1, FaultsTyped
    DEF TypeOK, Srv, Cli, Node, ServerSteps, FaultKinds, MaxErrors
  <2>3. ~Forbidden' => Sound'
    BY <1>0, <1>16, <2>1, NoFault
    DEF ServerClose, Sound, Running, Pairing, Unbound, Bound, Forbidden, TaskSteps,
        MaxErrors
  <2>4. QED BY <2>2, <2>3 DEF Keeps
<1>17. CASE ServerCloseUnbound
  <2>1. /\ srv' \in Srv /\ cli' \in Cli /\ node' \in Node
        /\ srv'.conn = "destroyed"
        /\ cli' = cli /\ node' = node
        /\ spc' = spc /\ errors' = errors /\ faults' = faults
        /\ taskWrite' \in BOOLEAN /\ authorized' \in BOOLEAN
    BY <1>0, <1>17, OtherUpdates
    DEF ServerCloseUnbound, AtHandshake, sVars
  <2>2. TypeOK'
    BY <1>0, <2>1, FaultsTyped
    DEF TypeOK, Srv, Cli, Node, ServerSteps, FaultKinds, MaxErrors
  <2>3. ~Forbidden' => Sound'
    BY <1>0, <1>17, <2>1, NoFault
    DEF ServerCloseUnbound, AtHandshake, Sound, Running, Pairing, Unbound, Bound,
        Forbidden, TaskSteps, MaxErrors
  <2>4. QED BY <2>2, <2>3 DEF Keeps
<1>18. CASE ServerWritable
  <2>1. /\ srv' \in Srv /\ cli' \in Cli /\ node' \in Node
        /\ IF node.client THEN srv'.conn = srv.conn /\ srv'.ssl = srv.ssl
                             /\ node' = node
           ELSE srv'.conn = "destroyed" /\ srv'.ssl = "absent"
                /\ node'.life = "deleted" /\ ~node'.server /\ ~node'.client
        /\ cli' = cli /\ spc' = spc /\ errors' = errors
        /\ faults' \subseteq faults \cup NodeFault \cup {"deadUnlock"}
        /\ taskWrite' \in BOOLEAN /\ authorized' \in BOOLEAN
    BY <1>0, <1>18, Ended, Forgotten, WriteFlags, UnlockOf
    DEF ServerWritable, sVars
  <2>2. TypeOK'
    BY <1>0, <2>1, FaultsTyped
    DEF TypeOK, Srv, Cli, Node, ServerSteps, FaultKinds, MaxErrors
  <2>3. ~Forbidden' => Sound'
    BY <1>0, <1>18, <2>1, NoFault
    DEF ServerWritable, Sound, Running, Pairing, Unbound, Bound, Forbidden, TaskSteps,
        MaxErrors
  <2>4. QED BY <2>2, <2>3 DEF Keeps
<1>19. CASE ClientConnected
  <2>1. /\ srv' \in Srv /\ cli' \in Cli /\ node' \in Node
        /\ srv' = srv
        /\ cli'.conn = "up" /\ cli'.bound = cli.bound
        /\ node' = node /\ spc' = spc
        /\ errors' = errors /\ faults' = faults
        /\ taskWrite' \in BOOLEAN /\ authorized' \in BOOLEAN
    BY <1>0, <1>19, OtherUpdates
    DEF ClientConnected, sVars
  <2>2. TypeOK'
    BY <1>0, <2>1, FaultsTyped
    DEF TypeOK, Srv, Cli, Node, ServerSteps, FaultKinds, MaxErrors
  <2>3. ~Forbidden' => Sound'
    BY <1>0, <1>19, <2>1, NoFault
    DEF ClientConnected, Sound, Running, Pairing, Unbound, Bound, Forbidden, TaskSteps,
        MaxErrors
  <2>4. QED BY <2>2, <2>3 DEF Keeps
<1>20. CASE ConnectRefused
  <2>1. /\ srv' \in Srv /\ cli' \in Cli /\ node' \in Node
        /\ srv' = srv
        /\ cli'.conn = "refused" /\ cli'.bound = cli.bound
        /\ node' = node /\ spc' = spc
        /\ errors' = errors /\ faults' = faults
        /\ taskWrite' \in BOOLEAN /\ authorized' \in BOOLEAN
    BY <1>0, <1>20
    DEF ConnectRefused, Srv, Cli, Node, ServerLives, SslStates, ClientLives,
        NodeLives, sVars
  <2>2. TypeOK'
    BY <1>0, <2>1, FaultsTyped
    DEF TypeOK, Srv, Cli, Node, ServerSteps, FaultKinds, MaxErrors
  <2>3. ~Forbidden' => Sound'
    BY <1>0, <1>20, <2>1, NoFault
    DEF ConnectRefused, Sound, Running, Pairing, Unbound, Bound, Forbidden, TaskSteps,
        MaxErrors
  <2>4. QED BY <2>2, <2>3 DEF Keeps
<1>21. CASE ClientClose
  <2>1. /\ srv' \in Srv /\ cli' \in Cli /\ node' \in Node
        /\ cli'.conn = "destroyed" /\ cli'.bound = cli.bound
        /\ srv'.conn = srv.conn /\ srv'.ssl = srv.ssl
        /\ IF node.server THEN node'.life = node.life /\ ~node'.client
                             /\ node'.server = node.server
           ELSE node'.life = "deleted" /\ ~node'.server /\ ~node'.client
        /\ spc' = spc /\ errors' = errors
        /\ faults' \subseteq faults \cup NodeFault \cup {"deadUnlock"}
                           \cup (IF node.server THEN ServerFault ELSE {})
        /\ taskWrite' \in BOOLEAN /\ authorized' \in BOOLEAN
    BY <1>0, <1>21, Ended, TriggeredHalf, Forgotten, UnlockOf
    DEF ClientClose, sVars
  <2>2. TypeOK'
    BY <1>0, <2>1, FaultsTyped
    DEF TypeOK, Srv, Cli, Node, ServerSteps, FaultKinds, MaxErrors
  <2>3. ~Forbidden' => Sound'
    BY <1>0, <1>21, <2>1, NoFault
    DEF ClientClose, Sound, Running, Pairing, Unbound, Bound, Forbidden, TaskSteps,
        MaxErrors
  <2>4. QED BY <2>2, <2>3 DEF Keeps
<1>22. CASE ClientCloseUnbound
  <2>1. /\ srv' \in Srv /\ cli' \in Cli /\ node' \in Node
        /\ srv' = srv
        /\ cli'.conn = "destroyed" /\ cli'.bound = cli.bound
        /\ node' = node /\ spc' = spc
        /\ errors' = errors /\ faults' = faults
        /\ taskWrite' \in BOOLEAN /\ authorized' \in BOOLEAN
    BY <1>0, <1>22, Ended
    DEF ClientCloseUnbound, Srv, Cli, Node, ServerLives, SslStates, ClientLives,
        NodeLives, sVars
  <2>2. TypeOK'
    BY <1>0, <2>1, FaultsTyped
    DEF TypeOK, Srv, Cli, Node, ServerSteps, FaultKinds, MaxErrors
  <2>3. ~Forbidden' => Sound'
    BY <1>0, <1>22, <2>1, NoFault
    DEF ClientCloseUnbound, Sound, Running, Pairing, Unbound, Bound, Forbidden,
        TaskSteps, MaxErrors
  <2>4. QED BY <2>2, <2>3 DEF Keeps
<1>23. CASE ClientWritable
  <2>1. /\ srv' \in Srv /\ cli' \in Cli /\ node' \in Node
        /\ IF node.server THEN cli'.conn = cli.conn /\ cli'.bound = cli.bound
                             /\ node' = node
           ELSE cli'.conn = "destroyed" /\ cli'.bound = cli.bound
                /\ node'.life = "deleted" /\ ~node'.server /\ ~node'.client
        /\ srv' = srv /\ spc' = spc /\ errors' = errors
        /\ faults' \subseteq faults \cup NodeFault \cup {"deadUnlock"}
        /\ taskWrite' \in BOOLEAN /\ authorized' \in BOOLEAN
    BY <1>0, <1>23, Ended, Forgotten, OtherUpdates, UnlockOf
    DEF ClientWritable, sVars
  <2>2. TypeOK'
    BY <1>0, <2>1, FaultsTyped
    DEF TypeOK, Srv, Cli, Node, ServerSteps, FaultKinds, MaxErrors
  <2>3. ~Forbidden' => Sound'
    BY <1>0, <1>23, <2>1, NoFault
    DEF ClientWritable, Sound, Running, Pairing, Unbound, Bound, Forbidden, TaskSteps,
        MaxErrors
  <2>4. QED BY <2>2, <2>3 DEF Keeps
<1>24. CASE ClientReadNoServer
  <2>1. /\ srv' \in Srv /\ cli' \in Cli /\ node' \in Node
        /\ srv' = srv
        /\ cli'.conn = "destroyed" /\ cli'.bound = cli.bound
        /\ node'.life = "deleted" /\ ~node'.server /\ ~node'.client
        /\ spc' = spc /\ errors' = errors
        /\ faults' \subseteq faults \cup NodeFault \cup {"deadUnlock"}
        /\ taskWrite' \in BOOLEAN /\ authorized' \in BOOLEAN
    BY <1>0, <1>24, Ended, Forgotten, IdStands, UnlockOf
    DEF ClientReadNoServer, sVars
  <2>2. TypeOK'
    BY <1>0, <2>1, FaultsTyped
    DEF TypeOK, Srv, Cli, Node, ServerSteps, FaultKinds, MaxErrors
  <2>3. ~Forbidden' => Sound'
    BY <1>0, <1>24, <2>1, NoFault
    DEF ClientReadNoServer, Sound, Running, Pairing, Unbound, Bound, Forbidden,
        TaskSteps, MaxErrors
  <2>4. QED BY <2>2, <2>3 DEF Keeps
<1>25. CASE ClientReadForwards
  <2>0. PICK w \in BOOLEAN : srv' = [srv EXCEPT !.write = w]
    BY <1>25 DEF ClientReadForwards, Srv
  <2>1. /\ srv' \in Srv /\ cli' \in Cli /\ node' \in Node
        /\ srv'.conn = srv.conn /\ srv'.ssl = srv.ssl
        /\ cli' = cli /\ node' = node
        /\ spc' = spc /\ errors' = errors
        /\ faults' = faults \cup ServerFault
                            \cup If(UseSSL /\ srv.ssl # "connected", "deadSsl")
        /\ taskWrite' \in BOOLEAN /\ authorized' \in BOOLEAN
    BY <1>0, <1>25, <2>0, WriteFlags
    DEF ClientReadForwards, sVars
  <2>2. TypeOK'
    BY <1>0, <2>1, FaultsTyped
    DEF TypeOK, Srv, Cli, Node, ServerSteps, FaultKinds, MaxErrors, If
  <2>3. ~Forbidden' => Sound'
    BY <1>0, <1>25, <2>1, NoFault
    DEF ClientReadForwards, Sound, Running, Pairing, Unbound, Bound, Forbidden,
        TaskSteps, MaxErrors, If
  <2>4. QED BY <2>2, <2>3 DEF Keeps
<1>26. CASE ClientReadServerError
  <2>1. /\ srv' \in Srv /\ cli' \in Cli /\ node' \in Node
        /\ cli'.conn = "destroyed" /\ cli'.bound = cli.bound
        /\ srv'.conn = srv.conn /\ srv'.ssl = srv.ssl
        /\ node'.life = node.life /\ ~node'.client /\ node'.server = node.server
        /\ spc' = spc /\ errors' = errors
        /\ faults' = faults \cup ServerFault
        /\ taskWrite' \in BOOLEAN /\ authorized' \in BOOLEAN
    BY <1>0, <1>26, Ended, TriggeredHalf, Forgotten, IdStands
    DEF ClientReadServerError, sVars
  <2>2. TypeOK'
    BY <1>0, <2>1, FaultsTyped
    DEF TypeOK, Srv, Cli, Node, ServerSteps, FaultKinds, MaxErrors
  <2>3. ~Forbidden' => Sound'
    BY <1>0, <1>26, <2>1, NoFault
    DEF ClientReadServerError, Sound, Running, Pairing, Unbound, Bound, Forbidden,
        TaskSteps, MaxErrors
  <2>4. QED BY <2>2, <2>3 DEF Keeps
<1>27. CASE ServerFreed
  <2>1. /\ srv' \in Srv /\ cli' \in Cli /\ node' \in Node
        /\ srv'.conn = "freed" /\ srv'.ssl = srv.ssl
        /\ cli' = cli /\ node' = node
        /\ spc' = spc /\ errors' = errors /\ faults' = faults
        /\ taskWrite' \in BOOLEAN /\ authorized' \in BOOLEAN
    BY <1>0, <1>27, OtherUpdates
    DEF ServerFreed, sVars
  <2>2. TypeOK'
    BY <1>0, <2>1, FaultsTyped
    DEF TypeOK, Srv, Cli, Node, ServerSteps, FaultKinds, MaxErrors
  <2>3. ~Forbidden' => Sound'
    BY <1>0, <1>27, <2>1, NoFault
    DEF ServerFreed, Sound, Running, Pairing, Unbound, Bound, Forbidden,
        TaskSteps, MaxErrors
  <2>4. QED BY <2>2, <2>3 DEF Keeps
<1>28. CASE ClientFreed
  <2>1. /\ srv' \in Srv /\ cli' \in Cli /\ node' \in Node
        /\ srv' = srv
        /\ cli'.conn = "freed" /\ cli'.bound = cli.bound
        /\ node' = node
        /\ spc' = spc /\ errors' = errors /\ faults' = faults
        /\ taskWrite' \in BOOLEAN /\ authorized' \in BOOLEAN
    BY <1>0, <1>28, OtherUpdates
    DEF ClientFreed, sVars
  <2>2. TypeOK'
    BY <1>0, <2>1, FaultsTyped
    DEF TypeOK, Srv, Cli, Node, ServerSteps, FaultKinds, MaxErrors
  <2>3. ~Forbidden' => Sound'
    BY <1>0, <1>28, <2>1, NoFault
    DEF ClientFreed, Sound, Running, Pairing, Unbound, Bound, Forbidden,
        TaskSteps, MaxErrors
  <2>4. QED BY <2>2, <2>3 DEF Keeps
<1>29. QED
  BY <1>1, <1>2, <1>3, <1>4, <1>5, <1>6, <1>7, <1>8, <1>9, <1>10, <1>11,
     <1>12, <1>13, <1>14, <1>15, <1>16, <1>17, <1>18, <1>19, <1>20, <1>21,
     <1>22, <1>23, <1>24, <1>25, <1>26, <1>27, <1>28
  DEF ServerThread, ServerRead, ClientThread

(* A login that is forbidden hands the pair to a task that runs without the  *)
(* mutex; until then the pairing holds, and it says that nothing a handler   *)
(* uses has ended.                                                          *)
LEMMA PairInvStep == PairInv /\ [Next]_vars => PairInv'
<1> SUFFICES ASSUME PairInv, [Next]_vars PROVE PairInv'
  OBVIOUS
<1>1. CASE Next
  <2>1. TypeOK /\ Running /\ (~Forbidden => Pairing)
    BY <1>1 DEF PairInv, Next
  <2>2. ServerThread \/ ClientThread
    BY <1>1 DEF Next
  <2>3. Keeps BY <2>1, <2>2, PairStep
  <2>4. QED BY <2>3 DEF Keeps, Sound, PairInv, LiveObjectsOnly
<1>2. CASE UNCHANGED vars
  BY <1>2
  DEF vars, PairInv, TypeOK, LiveObjectsOnly, Forbidden, Running, Pairing, Unbound, Bound
<1>3. QED BY <1>1, <1>2

(* Pointers and connections agree until a login is forbidden.               *)
THEOREM Paired == Spec => []PairInv
BY PairInit, PairInvStep, PTL DEF Spec

(* Every variable keeps its type.                                           *)
THEOREM PairTyping == Spec => []TypeOK
<1>1. PairInv => TypeOK BY DEF PairInv
<1>2. QED BY <1>1, Paired, PTL

(* No handler of either thread uses an object after its end, but for the     *)
(* unlock of a deleted node's mutex and the two faults of the set-up.       *)
THEOREM Alive == Spec => []LiveObjectsOnly
<1>1. PairInv => LiveObjectsOnly BY DEF PairInv
<1>2. QED BY <1>1, Paired, PTL

(* The node's pointers name connections that live, and the node goes with    *)
(* the second of them.                                                      *)
THEOREM Mirrors == Spec => []NodeMirrorsHalves
<1>1. PairInv => NodeMirrorsHalves
  <2> SUFFICES ASSUME PairInv, ~Forbidden, Running
               PROVE  /\ node.server => srv.conn = "bound"
                      /\ node.client => ~Over(cli)
                      /\ node.life = "live" => node.server \/ node.client
                      /\ node.life # "none" =>
                           (srv.ssl = "connected" <=> UseSSL /\ node.server)
    BY DEF NodeMirrorsHalves
  <2>1. Pairing /\ srv.conn \in ServerLives
    BY Parts DEF PairInv, Srv
  <2>2. QED BY <2>1 DEF Pairing, Unbound, Bound, ServerLives, Over
<1>2. QED BY <1>1, Paired, PTL

=============================================================================
