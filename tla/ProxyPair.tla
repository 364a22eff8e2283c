------------------------------ MODULE ProxyPair ------------------------------
(***************************************************************************)
(* One ProxyNode of HttpsProxy (src/src/http/httpsproxy.cpp): the pair of  *)
(* a "server" connection accepted from a browser and the "client"          *)
(* connection opened to the upstream server for it.                        *)
(*                                                                         *)
(* The two connections belong to event loops of different threads: S runs  *)
(* the handlers of the server connection, C those of the client            *)
(* connection.  A handler holds proxy->mutex from its lookup to its end,   *)
(* so it is one action.  What runs without that mutex is split: the set-up *)
(* of the pair in handleProxyHandshake, whose connection attempt is        *)
(* already polled by C, and the task that follows a third wrong login.     *)
(* Either thread tells the other that its half is gone by registering      *)
(* WRITE on the channel of the other half.                                 *)
(*                                                                         *)
(* TcpServer, TcpClient and TcpConnection belong to an external library;   *)
(* they are modelled as HttpsProxy uses them.                              *)
(***************************************************************************)
EXTENDS Naturals

CONSTANTS
  UseSSL,      \* m_use_ssl
  Behaviours   \* what the outside may do: a subset of AllBehaviours

AllBehaviours == {"wrongLogin", "refuse"}

ASSUME BehavioursAssumption == UseSSL \in BOOLEAN /\ Behaviours \subseteq AllBehaviours

VARIABLES
  srv,         \* server connection: life, its SSLConnection, WRITE registered
  cli,         \* client connection: life, callbacks bound, write buffer, WRITE
  node,        \* the ProxyNode: life, and which of its pointers are not null
  spc,         \* what S is in the middle of
  taskWrite,   \* WRITE was polled in the batch that inserted the 403 task
  authorized,  \* HttpsProxyRequest::m_is_authorized
  errors,      \* HttpsProxyRequest::m_error_time
  faults       \* uses of an object after its end, and failed assertions

vars == <<srv, cli, node, spc, taskWrite, authorized, errors, faults>>
sVars == <<spc, taskWrite, authorized, errors>>

MaxErrors == 3

ServerLives == {"accepted", "bound", "destroyed", "freed"}
SslStates   == {"absent", "handshaking", "connected"}
ClientLives == {"none", "connecting", "refused", "up", "destroyed", "freed"}
NodeLives   == {"none", "live", "deleted"}
TaskSteps   == {"taskSsl", "taskDestroy", "taskNull", "taskTrigger"}
ServerSteps == {"loop", "found", "created", "firstRead"} \cup TaskSteps
FaultKinds  == {"assertClient", "bindDead", "deadClient", "deadServer",
                "deadSsl", "deadNode", "doubleDestroy", "deadId", "deadUnlock"}

TypeOK ==
  /\ srv \in [conn : ServerLives, ssl : SslStates, write : BOOLEAN]
  /\ cli \in [conn : ClientLives, bound : BOOLEAN, out : BOOLEAN, write : BOOLEAN]
  /\ node \in [life : NodeLives, server : BOOLEAN, client : BOOLEAN]
  /\ spc \in ServerSteps
  /\ taskWrite \in BOOLEAN /\ authorized \in BOOLEAN
  /\ errors \in 0 .. MaxErrors
  /\ faults \subseteq FaultKinds

Init ==
  /\ srv = [conn |-> "accepted", ssl |-> "absent", write |-> FALSE]
  /\ cli = [conn |-> "none", bound |-> FALSE, out |-> FALSE, write |-> FALSE]
  /\ node = [life |-> "none", server |-> FALSE, client |-> FALSE]
  /\ spc = "loop" /\ taskWrite = FALSE
  /\ authorized = FALSE /\ errors = 0
  /\ faults = {}

-----------------------------------------------------------------------------
(* Common steps of the handlers *)

\* m_ssl_connections.erase and destroyTcpConnection of the server connection:
\* it is shut down and leaves the table; a task of its loop frees it later
ServerEnded == [srv EXCEPT !.conn = "destroyed", !.ssl = "absent", !.write = FALSE]

ClientEnded == [cli EXCEPT !.conn = "destroyed", !.write = FALSE]

\* What-if variant: the closing handler forgets registerEvent
NotTriggered(half) == half

\* registerEvent(WRITE): the signal that starts the closing of a half
Triggered(half) == [half EXCEPT !.write = TRUE]

\* What-if variant: deleteProxyNode is missing
NodeKept == [life |-> "live", server |-> FALSE, client |-> FALSE]

\* ProxyManager::deleteProxyNode, called when both halves are gone
NodeDeleted == [life |-> "deleted", server |-> FALSE, client |-> FALSE]

\* What-if variant: proxy->server keeps pointing to the ended connection
ServerNotForgotten == node

\* proxy->server = nullptr
ServerGone == [node EXCEPT !.server = FALSE]

\* proxy->client = nullptr
ClientGone == [node EXCEPT !.client = FALSE]

\* destroyTcpConnection was called, or the library did the same on its own
Over(half) == half.conn \in {"destroyed", "freed"}

\* The fault of a step that uses something whose life is over
If(over, fault) == IF over THEN {fault} ELSE {}

\* getProxy finds no node and the handler dereferences the null pointer
NodeFault   == If(node.life = "deleted", "deadNode")
ServerFault == If(Over(srv), "deadServer")
ClientFault == If(Over(cli), "deadClient")

\* getConnectId() for the log, after destroyTcpConnection of that half
IdFault(half) == If(half.conn = "freed", "deadId")

\* At the end of the handler its lock_guard unlocks the mutex of its node
UnlockFault(n) == If(n.life = "deleted", "deadUnlock")

-----------------------------------------------------------------------------
(* S: handleProxyHandshake, the read callback until the pair is bound *)

AtHandshake == srv.conn = "accepted" /\ spc = "loop"

\* handleTLSHandshare reports an error: entry and connection are destroyed
HandshakeFails ==
  /\ AtHandshake /\ UseSSL /\ srv.ssl # "connected"
  /\ srv' = ServerEnded
  /\ faults' = faults \cup IdFault(srv')
  /\ UNCHANGED <<cli, node, sVars>>

\* The handshake wants more bytes, or is complete with none left over
HandshakeReturns ==
  /\ AtHandshake /\ UseSSL /\ srv.ssl # "connected"
  /\ \E s \in {"handshaking", "connected"} : srv' = [srv EXCEPT !.ssl = s]
  /\ UNCHANGED <<cli, node, sVars, faults>>

\* TLS is done (or not used) and there are bytes: connectServer, tried up to
\* six times, starts a non-blocking connect that C's loop polls from then on
ConnectStarts ==
  /\ AtHandshake
  /\ srv' = [srv EXCEPT !.ssl = IF UseSSL THEN "connected" ELSE "absent"]
  /\ cli' = [cli EXCEPT !.conn = "connecting", !.write = TRUE]
  /\ spc' = "found"
  /\ UNCHANGED <<node, taskWrite, authorized, errors, faults>>

\* All six attempts fail at once
ConnectFails ==
  /\ AtHandshake /\ "refuse" \in Behaviours
  /\ srv' = ServerEnded
  /\ UNCHANGED <<cli, node, sVars, faults>>

\* getConnection(client_fd) and assert(client_connection)
FindClient ==
  /\ spc = "found"
  /\ IF Over(cli)
     THEN faults' = faults \cup {"assertClient"} /\ spc' = spc
     ELSE faults' = faults /\ spc' = "created"
  /\ UNCHANGED <<srv, cli, node, taskWrite, authorized, errors>>

\* createProxyNode and bindProxyCallBack
BindPair ==
  /\ spc = "created"
  /\ faults' = faults \cup If(Over(cli), "bindDead")
  /\ node' = [life |-> "live", server |-> TRUE, client |-> TRUE]
  /\ srv' = [srv EXCEPT !.conn = "bound"]
  /\ cli' = [cli EXCEPT !.bound = TRUE]
  /\ spc' = "firstRead"
  /\ UNCHANGED <<taskWrite, authorized, errors>>

-----------------------------------------------------------------------------
(* S: handleServerRead *)

AtRead == srv.conn = "bound" /\ spc \in {"loop", "firstRead"}

\* The client half is gone: the server half and the node follow
ReadNoClient ==
  /\ AtRead /\ ~node.client
  /\ srv' = ServerEnded /\ node' = NodeDeleted
  /\ faults' = faults \cup NodeFault \cup IdFault(srv') \cup UnlockFault(node')
  /\ spc' = "loop"
  /\ UNCHANGED <<cli, taskWrite, authorized, errors>>

\* decryptData is given no complete record, or getsockopt reports that the
\* upstream connection failed: the server half ends and triggers the client half
ReadEndsServer ==
  /\ AtRead /\ node.client
  /\ UseSSL \/ cli.conn = "refused"
  /\ srv' = ServerEnded /\ node' = ServerGone
  /\ cli' = Triggered(cli)
  /\ faults' = faults \cup ClientFault \cup IdFault(srv')
  /\ spc' = "loop"
  /\ UNCHANGED <<taskWrite, authorized, errors>>

\* What-if variant: the test for the third error is missing
ReadUnauthorizedAlways ==
  /\ AtRead /\ node.client /\ ~authorized
  /\ \E e \in {0} \cup (IF "wrongLogin" \in Behaviours THEN {1} ELSE {}) :
       errors' = errors + e
  /\ spc' = "loop"
  /\ UNCHANGED <<srv, cli, node, taskWrite, authorized, faults>>

\* No or wrong credentials: a 401 and, if wrong, one more error
ReadUnauthorized ==
  /\ AtRead /\ node.client /\ ~authorized
  /\ \E e \in {0} \cup (IF "wrongLogin" \in Behaviours THEN {1} ELSE {}) :
       /\ errors + e < MaxErrors
       /\ errors' = errors + e
  /\ spc' = "loop"
  /\ UNCHANGED <<srv, cli, node, taskWrite, authorized, faults>>

\* The third wrong login: a 403, and a task inserted into S's loop
ReadForbidden ==
  /\ AtRead /\ node.client /\ ~authorized
  /\ "wrongLogin" \in Behaviours /\ errors + 1 >= MaxErrors
  /\ errors' = MaxErrors
  /\ taskWrite' = srv.write
  /\ spc' = IF UseSSL THEN "taskSsl" ELSE "taskDestroy"
  /\ UNCHANGED <<srv, cli, node, authorized, faults>>

\* The request goes to the upstream connection: sent if getsockopt reports no
\* error, buffered with WRITE registered if it reports EINPROGRESS
ReadForward ==
  /\ AtRead /\ node.client
  /\ cli.conn \in {"connecting", "up"}
  /\ authorized' = TRUE
  /\ \/ cli' = cli
     \/ cli' = [cli EXCEPT !.out = TRUE, !.write = TRUE]
  /\ spc' = "loop"
  /\ UNCHANGED <<srv, node, taskWrite, errors, faults>>

ServerRead ==
  \/ ReadNoClient \/ ReadEndsServer \/ ReadUnauthorized
  \/ ReadForbidden \/ ReadForward

-----------------------------------------------------------------------------
(* S: the task inserted with the 403; it does not hold proxy->mutex *)

TaskSsl ==
  /\ spc = "taskSsl"
  /\ srv' = [srv EXCEPT !.ssl = "absent"]
  /\ faults' = faults \cup If(srv.ssl = "absent", "deadSsl")
  /\ spc' = "taskDestroy"
  /\ UNCHANGED <<cli, node, taskWrite, authorized, errors>>

TaskDestroy ==
  /\ spc = "taskDestroy"
  /\ faults' = faults \cup If(Over(srv), "doubleDestroy")
  /\ srv' = [srv EXCEPT !.conn = "destroyed", !.write = FALSE]
  /\ spc' = "taskNull"
  /\ UNCHANGED <<cli, node, taskWrite, authorized, errors>>

TaskNull ==
  /\ spc = "taskNull"
  /\ faults' = faults \cup NodeFault \cup IdFault(srv)
  /\ node' = ServerGone
  /\ spc' = "taskTrigger"
  /\ UNCHANGED <<srv, cli, taskWrite, authorized, errors>>

\* client_connection was captured when the task was inserted
TaskTrigger ==
  /\ spc = "taskTrigger"
  /\ faults' = faults \cup ClientFault
  /\ cli' = Triggered(cli)
  /\ spc' = "loop"
  /\ UNCHANGED <<srv, node, taskWrite, authorized, errors>>

-----------------------------------------------------------------------------
(* S: the other events of the server connection *)

\* handleServerClose and the destruction after it
ServerClose ==
  /\ srv.conn = "bound" /\ spc = "loop"
  /\ srv' = ServerEnded
  /\ IF node.client
     THEN node' = ServerGone /\ cli' = Triggered(cli)
     ELSE node' = NodeDeleted /\ cli' = cli
  /\ faults' = faults \cup NodeFault \cup UnlockFault(node')
                   \cup (IF node.client THEN ClientFault ELSE {})
  /\ UNCHANGED sVars

\* The browser leaves before the pair is bound: the library's default
\* callback destroys the connection, the SSLConnection stays in the map
ServerCloseUnbound ==
  /\ AtHandshake
  /\ srv' = [srv EXCEPT !.conn = "destroyed", !.write = FALSE]
  /\ UNCHANGED <<cli, node, sVars, faults>>

\* The write buffer is drained: WRITE is unregistered, then handleServerWrite
\* runs.  The event may come in the same batch as the read event that
\* inserted the 403 task, before the task.
ServerWritable ==
  /\ srv.conn = "bound" /\ srv.write
  /\ spc = "loop" \/ (spc \in {"taskSsl", "taskDestroy"} /\ taskWrite)
  /\ IF node.client
     THEN srv' = [srv EXCEPT !.write = FALSE] /\ node' = node
     ELSE srv' = ServerEnded /\ node' = NodeDeleted
  /\ faults' = faults \cup NodeFault \cup UnlockFault(node')
  /\ UNCHANGED <<cli, sVars>>

\* The task that destroyTcpConnection inserted into the loop of its half
ServerFreed ==
  /\ srv.conn = "destroyed" /\ spc = "loop"
  /\ srv' = [srv EXCEPT !.conn = "freed"]
  /\ UNCHANGED <<cli, node, sVars, faults>>

-----------------------------------------------------------------------------
(* C: the events of the client connection *)

\* TcpClient's handshake callback: WRITE is unregistered, handleClientWrite
\* becomes the write callback, and WRITE returns only if data is buffered
ClientConnected ==
  /\ cli.conn = "connecting"
  /\ cli' = [cli EXCEPT !.conn = "up", !.write = cli.out]
  /\ UNCHANGED <<srv, node, sVars, faults>>

ConnectRefused ==
  /\ cli.conn = "connecting" /\ "refuse" \in Behaviours
  /\ cli' = [cli EXCEPT !.conn = "refused"]
  /\ UNCHANGED <<srv, node, sVars, faults>>

\* handleClientClose and the destruction after it: upstream closed the
\* connection, or it was refused after the callbacks were bound
ClientClose ==
  /\ cli.conn \in {"refused", "up"} /\ cli.bound
  /\ cli' = ClientEnded
  /\ IF node.server
     THEN node' = ClientGone /\ srv' = Triggered(srv)
     ELSE node' = NodeDeleted /\ srv' = srv
  /\ faults' = faults \cup NodeFault \cup UnlockFault(node')
                   \cup (IF node.server THEN ServerFault ELSE {})
  /\ UNCHANGED sVars

\* ... before they are bound: no callback, the library destroys it
ClientCloseUnbound ==
  /\ cli.conn \in {"refused", "up"} /\ ~cli.bound
  /\ cli' = ClientEnded
  /\ UNCHANGED <<srv, node, sVars, faults>>

\* The write buffer is drained, then handleClientWrite
ClientWritable ==
  /\ cli.conn = "up" /\ cli.write /\ cli.bound
  /\ IF node.server
     THEN cli' = [cli EXCEPT !.write = FALSE, !.out = FALSE] /\ node' = node
     ELSE cli' = ClientEnded /\ node' = NodeDeleted
  /\ faults' = faults \cup NodeFault \cup UnlockFault(node')
  /\ UNCHANGED <<srv, sVars>>

\* handleClientRead with the server half gone
ClientReadNoServer ==
  /\ cli.conn = "up" /\ cli.bound /\ ~node.server
  /\ cli' = ClientEnded /\ node' = NodeDeleted
  /\ faults' = faults \cup NodeFault \cup IdFault(cli') \cup UnlockFault(node')
  /\ UNCHANGED <<srv, sVars>>

\* ... with a response for the browser, which may leave WRITE registered
ClientReadForwards ==
  /\ cli.conn = "up" /\ cli.bound /\ node.server
  /\ \E w \in {srv.write, TRUE} : srv' = [srv EXCEPT !.write = w]
  /\ faults' = faults \cup ServerFault
                   \cup If(UseSSL /\ srv.ssl # "connected", "deadSsl")
  /\ UNCHANGED <<cli, node, sVars>>

\* ... with an error on the browser's socket
ClientReadServerError ==
  /\ cli.conn = "up" /\ cli.bound /\ node.server
  /\ cli' = ClientEnded /\ node' = ClientGone
  /\ srv' = Triggered(srv)
  /\ faults' = faults \cup ServerFault \cup IdFault(cli')
  /\ UNCHANGED sVars

ClientFreed ==
  /\ cli.conn = "destroyed"
  /\ cli' = [cli EXCEPT !.conn = "freed"]
  /\ UNCHANGED <<srv, node, sVars, faults>>

-----------------------------------------------------------------------------
ServerThread ==
  \/ HandshakeFails \/ HandshakeReturns \/ ConnectStarts \/ ConnectFails
  \/ FindClient \/ BindPair
  \/ ServerRead
  \/ TaskSsl \/ TaskDestroy \/ TaskNull \/ TaskTrigger
  \/ ServerClose \/ ServerCloseUnbound \/ ServerWritable \/ ServerFreed

ClientThread ==
  \/ ClientConnected \/ ConnectRefused
  \/ ClientClose \/ ClientCloseUnbound \/ ClientWritable
  \/ ClientReadNoServer \/ ClientReadForwards \/ ClientReadServerError
  \/ ClientFreed

\* After a fault the program has no defined behaviour.  The unlock of a freed
\* mutex that nobody contends for may also do nothing: then the program goes on.
Running == faults \subseteq {"deadUnlock"}

Next == Running /\ (ServerThread \/ ClientThread)

Spec == Init /\ [][Next]_vars

\* The loops run the tasks and the write events they are given, and a connect
\* ends one way or the other.  Nothing is assumed of browser and upstream:
\* they may stay silent for ever.
Fairness ==
  /\ WF_vars(Running /\ (FindClient \/ BindPair \/ TaskSsl \/ TaskDestroy
                          \/ TaskNull \/ TaskTrigger))
  /\ WF_vars(Running /\ spc = "firstRead" /\ ServerRead)
  /\ WF_vars(Running /\ ServerWritable)
  /\ WF_vars(Running /\ ClientWritable)
  /\ WF_vars(Running /\ ClientConnected)
  /\ WF_vars(Running /\ cli.conn = "refused" /\ (ClientClose \/ ClientCloseUnbound))

FairSpec == Spec /\ Fairness

-----------------------------------------------------------------------------
(* Properties *)

Forbidden == errors >= MaxErrors

\* As long as no login was forbidden, no handler of a bound pair touches the
\* other half, an SSLConnection or a node that is over, no connection is
\* destroyed twice, and one that a handler destroyed is still there when the
\* handler logs its id, however the handlers of both threads interleave.  What
\* the code does get wrong is named: the assertion in handleProxyHandshake, the
\* binding of a client half that is gone, and the lock_guard of the handler that
\* deletes the node, which unlocks the mutex after it was freed with the node.
LiveObjectsOnly ==
  ~Forbidden => faults \subseteq {"assertClient", "bindDead", "deadUnlock"}

\* The node mirrors the connections: a half that is not null is a connection
\* not yet destroyed, so the other thread may touch it under the mutex; and a
\* bound server connection has its SSLConnection exactly as long as it lives.
\* The node outlives its halves by nothing: when both are gone it is deleted,
\* by whichever of the two threads comes second.
NodeMirrorsHalves ==
  ~Forbidden /\ Running =>
    /\ node.server => srv.conn = "bound"
    /\ node.client => ~Over(cli)
    /\ node.life = "live" => node.server \/ node.client
    /\ node.life # "none" => (srv.ssl = "connected" <=> UseSSL /\ node.server)

\* A pair whose client half ended is torn down completely although the
\* browser stays silent: the WRITE trigger is never lost on this side.
ClientEndSpreads ==
  (node.life = "live" /\ ~node.client /\ ~Forbidden) ~> node.life = "deleted"

\* A pair whose server half ends when the upstream connection is established
\* is torn down completely although upstream stays silent.
ServerEndSpreads ==
  [](node.life = "live" /\ node.server /\ cli.conn = "up" /\ ~Forbidden
       => [](~node.server /\ ~Forbidden => <>(node.life = "deleted")))

\* The comment in handleServerClose: registering WRITE on the client
\* connection triggers its closing, so the client half follows.
CloseTriggered == (node.life = "live" /\ ~node.server) ~> node.life = "deleted"

\* The comment in the 403 task: it triggers the closing of the client half.
\* When the halves of a node are both gone nothing of the pair is left.
ForbidCloses == ~(node.life = "live" /\ ~node.server /\ ~node.client)

=============================================================================
