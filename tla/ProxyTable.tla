------------------------------- MODULE ProxyTable -------------------------------
(***************************************************************************)
(* What the pairs of HttpsProxy share (src/src/http/httpsproxy.cpp): the   *)
(* ProxyManager, whose nodes handlers look up by proxy id, and the map of  *)
(* SSLConnections, whose key is the descriptor of a browser's connection.  *)
(* A descriptor that is closed is given to the next browser.               *)
(*                                                                         *)
(* ProxyPair has the life of one pair in detail; here several pairs come   *)
(* one after the other and at the same time.  A handler is split where     *)
(* others can come between: the lookup of the node, then, with its mutex,  *)
(* the rest; and for the server half the entry of the map, then the        *)
(* descriptor.  Connections to the upstream server connect at once, TLS is *)
(* in use, and no login is wrong.  The map is taken as if it was locked.   *)
(***************************************************************************)
EXTENDS Integers, Sequences, FiniteSets

CONSTANTS
  Fds,             \* descriptors of browsers' connections
  MaxConnections   \* bound: connections ever accepted

ASSUME MaxConnectionsAssumption == MaxConnections \in Nat

VARIABLES
  conns,    \* the pairs ever begun, by the connection of their browser
  ssls,     \* the SSLConnections ever made
  map,      \* m_ssl_connections: an SSLConnection by descriptor, or 0
  left,     \* history: connections that left an SSLConnection in the map
  victims,  \* history: connections that used another's SSLConnection
  faults    \* uses of an object after its end, and failed assertions

vars == <<conns, ssls, map, left, victims, faults>>
history == <<left, victims>>

Lives   == {"accepted", "bound", "gone"}
SSteps  == {"idle", "looked", "failed", "ended", "closed"}
CSteps  == {"none", "idle", "looked", "gone"}
Nodes   == {"none", "live", "deleted"}

TypeOK ==
  /\ Len(conns) <= MaxConnections
  /\ \A i \in DOMAIN conns :
       conns[i] \in [fd : Fds, life : Lives, ssl : 0 .. Len(ssls), s : SSteps, c : CSteps,
                     node : Nodes, server : BOOLEAN, client : BOOLEAN]
  /\ \A i \in DOMAIN conns : conns[i].c = "none" <=> conns[i].node = "none"
  /\ \A e \in DOMAIN ssls :
       ssls[e] \in [for : DOMAIN conns, connected : BOOLEAN, live : BOOLEAN]
  /\ map \in [Fds -> 0 .. Len(ssls)]
  /\ left \subseteq DOMAIN conns /\ victims \subseteq DOMAIN conns

Init ==
  /\ conns = <<>> /\ ssls = <<>> /\ map = [fd \in Fds |-> 0]
  /\ left = {} /\ victims = {} /\ faults = {}

-----------------------------------------------------------------------------
Open == {i \in DOMAIN conns : conns[i].life # "gone"}

\* A browser connects: a descriptor that is not open
Accept ==
  /\ Len(conns) < MaxConnections
  /\ \E fd \in Fds \ {conns[i].fd : i \in Open} :
       conns' = Append(conns, [fd |-> fd, life |-> "accepted", ssl |-> 0, s |-> "idle",
                               c |-> "none", node |-> "none",
                               server |-> FALSE, client |-> FALSE])
  /\ UNCHANGED <<ssls, map, history, faults>>

\* The SSLConnection was made for another connection
Stale(i, e) == ssls[e].for # i

\* A handler of pair i goes by the entry of its descriptor
Victims(i) ==
  LET e == map[conns[i].fd] IN
  IF e # 0 /\ Stale(i, e) THEN victims \cup {i} ELSE victims

If(over, fault) == IF over THEN {fault} ELSE {}

-----------------------------------------------------------------------------
(* handleProxyHandshake, the read callback of a connection without a pair *)

Unbound(i) == conns[i].life = "accepted" /\ conns[i].s = "idle"

\* The entry of the descriptor, or a new one
Entry(i)   == IF map[conns[i].fd] = 0 THEN Len(ssls) + 1 ELSE map[conns[i].fd]
Ssls(i)    == IF map[conns[i].fd] = 0
              THEN Append(ssls, [for |-> i, connected |-> FALSE, live |-> TRUE]) ELSE ssls
Mapped(i)  == [map EXCEPT ![conns[i].fd] = Entry(i)]

\* Another's handshake never ends well
Handshake(i, connected) ==
  LET e == Entry(i) IN
  /\ Unbound(i) /\ ~Ssls(i)[e].connected
  /\ connected => Ssls(i)[e].for = i
  /\ ssls' = [Ssls(i) EXCEPT ![e].connected = connected]
  /\ map' = Mapped(i)
  /\ conns' = [conns EXCEPT ![i].ssl = e]
  /\ victims' = Victims(i)
  /\ UNCHANGED <<left, faults>>

\* What-if variant: the SSLConnection is deleted, its entry stays
EraseNot(i, m) == m

\* m_ssl_connections.erase(fd), and delete
Erase(i, m) == [m EXCEPT ![conns[i].fd] = 0]

\* What-if variant: only the connection is destroyed
HandshakeFailsKeeps(i) ==
  /\ Unbound(i)
  /\ map' = Mapped(i) /\ ssls' = Ssls(i)
  /\ conns' = [conns EXCEPT ![i].s = "failed", ![i].ssl = 0]
  /\ victims' = Victims(i)
  /\ UNCHANGED <<left, faults>>

\* The handshake fails, or connectServer does: first the entry goes ...
HandshakeFails(i) ==
  LET e == Entry(i) IN
  /\ Unbound(i)
  /\ map' = Erase(i, Mapped(i))
  /\ ssls' = [Ssls(i) EXCEPT ![e].live = FALSE]
  /\ conns' = [conns EXCEPT ![i].s = "failed", ![i].ssl = 0]
  /\ victims' = Victims(i)
  /\ UNCHANGED <<left, faults>>

\* What-if variant: the callbacks of the client half are not bound
BindPairHalf(i) ==
  LET e == Entry(i) IN
  /\ Unbound(i)
  /\ Ssls(i)[e].connected \/ Ssls(i)[e].for = i
  /\ ssls' = [Ssls(i) EXCEPT ![e].connected = TRUE] /\ map' = Mapped(i)
  /\ conns' = [conns EXCEPT ![i] = [@ EXCEPT !.life = "bound", !.ssl = e, !.s = "looked",
                                    !.node = "live", !.server = TRUE, !.client = TRUE]]
  /\ victims' = Victims(i)
  /\ UNCHANGED <<left, faults>>

\* The connect begins; createProxyNode, bindProxyCallBack, and S goes on with
\* handleServerRead.  Nobody asks whose handshake it was.
BindPair(i) ==
  LET e == Entry(i) IN
  /\ Unbound(i)
  /\ Ssls(i)[e].connected \/ Ssls(i)[e].for = i
  /\ ssls' = [Ssls(i) EXCEPT ![e].connected = TRUE] /\ map' = Mapped(i)
  /\ conns' = [conns EXCEPT ![i] = [@ EXCEPT !.life = "bound", !.ssl = e, !.s = "looked",
                                    !.c = "idle", !.node = "live",
                                    !.server = TRUE, !.client = TRUE]]
  /\ victims' = Victims(i)
  /\ UNCHANGED <<left, faults>>

\* The browser leaves: the default callback knows nothing of the map
LeaveUnbound(i) ==
  /\ Unbound(i)
  /\ conns' = [conns EXCEPT ![i].life = "gone", ![i].ssl = 0]
  /\ left' = IF map[conns[i].fd] = 0 THEN left ELSE left \cup {i}
  /\ UNCHANGED <<ssls, map, victims, faults>>

-----------------------------------------------------------------------------
(* The handlers of a bound pair.  S and C look the node up ... *)

\* The mutex of the node is not held by S.  Events come to either half at any
\* time, so WRITE, with which they tell each other of an end, needs no state.
Unlocked(i) == conns[i].s # "ended"

ServerLooks(i) ==
  /\ conns[i].life = "bound" /\ conns[i].s = "idle"
  /\ conns' = [conns EXCEPT ![i].s = "looked"]
  /\ faults' = faults \cup If(conns[i].node = "deleted", "noNode")
  /\ UNCHANGED <<ssls, map, history>>

ClientLooks(i) ==
  /\ conns[i].c = "idle"
  /\ conns' = [conns EXCEPT ![i].c = "looked"]
  /\ faults' = faults \cup If(conns[i].node = "deleted", "noNode")
  /\ UNCHANGED <<ssls, map, history>>

\* ... and go on with its mutex, on whatever became of it meanwhile
ServerHas(i) == conns[i].s = "looked" /\ Unlocked(i)
ClientHas(i) == conns[i].c = "looked" /\ Unlocked(i)
NodeFault(i) == If(conns[i].node = "deleted", "deadNode")

\* What-if variant: the node goes with the first half
DeletedFirst(pair) == [pair EXCEPT !.node = "deleted"]

\* deleteProxyNode, which the handlers call when the other half is gone
Deleted(pair) ==
  IF pair.server \/ pair.client THEN pair ELSE [pair EXCEPT !.node = "deleted"]

\* Nothing to end: data is passed on, by what the map has for the descriptor.
\* Of another's SSLConnection nothing can be read, but what cannot be read ends
\* no half: the handler goes on with nothing, and the pair with its life.
ServerPasses(i) ==
  LET e == map[conns[i].fd] IN
  /\ ServerHas(i) /\ conns[i].client
  /\ conns' = [conns EXCEPT ![i].s = "idle"]
  /\ victims' = Victims(i)
  /\ faults' = faults \cup NodeFault(i) \cup If(e = 0, "noSsl")
  /\ UNCHANGED <<ssls, map, left>>

ClientPasses(i) ==
  LET e == map[conns[i].fd] IN
  /\ ClientHas(i) /\ conns[i].server
  /\ conns' = [conns EXCEPT ![i].c = "idle"]
  /\ faults' = faults \cup NodeFault(i) \cup If(e = 0, "noSsl")
                      \cup If(conns[i].life = "gone", "deadServer")
  /\ victims' = Victims(i)
  /\ UNCHANGED <<ssls, map, left>>

\* handleServerRead with no complete record, an error upstream or no client
\* half; handleServerWrite with no client half: the entry goes ...
ServerEnds(i) ==
  LET e == map[conns[i].fd] IN
  /\ ServerHas(i)
  /\ map' = Erase(i, map)
  /\ ssls' = IF e = 0 THEN ssls ELSE [ssls EXCEPT ![e].live = FALSE]
  /\ conns' = [conns EXCEPT ![i].s = "ended"]
  /\ victims' = Victims(i)
  /\ faults' = faults \cup NodeFault(i) \cup If(e = 0, "noSsl")
  /\ UNCHANGED left

\* ... then the descriptor, and proxy->server, while the mutex is held
ServerDestroyed(i) ==
  /\ conns[i].s \in {"ended", "failed"}
  /\ conns' = [conns EXCEPT ![i] =
       IF @.s = "failed" THEN [@ EXCEPT !.life = "gone", !.s = "idle"]
       ELSE Deleted([@ EXCEPT !.life = "gone", !.s = "idle", !.ssl = 0, !.server = FALSE])]
  /\ UNCHANGED <<ssls, map, history, faults>>

\* What-if variant: the descriptor is closed before the entry goes
ServerCloseFirst(i) ==
  LET e == map[conns[i].fd] IN
  \/ /\ ServerHas(i)
     /\ conns' = [conns EXCEPT ![i] =
          Deleted([@ EXCEPT !.s = "closed", !.life = "gone", !.server = FALSE])]
     /\ left' = left \cup {i}
     /\ UNCHANGED <<ssls, map, victims, faults>>
  \/ /\ conns[i].s = "closed" /\ conns[i].life = "gone"
     /\ map' = Erase(i, map)
     /\ ssls' = IF e = 0 THEN ssls ELSE [ssls EXCEPT ![e].live = FALSE]
     /\ conns' = [conns EXCEPT ![i].s = "idle", ![i].ssl = 0]
     /\ UNCHANGED <<history, faults>>

\* handleServerClose: proxy->server and the entry with the mutex; the callback
\* closes the descriptor without it
ServerClose(i) ==
  LET e == map[conns[i].fd] IN
  /\ ServerHas(i)
  /\ map' = Erase(i, map)
  /\ ssls' = IF e = 0 THEN ssls ELSE [ssls EXCEPT ![e].live = FALSE]
  /\ conns' = [conns EXCEPT ![i] =
       Deleted([@ EXCEPT !.s = "closed", !.ssl = 0, !.server = FALSE])]
  /\ victims' = Victims(i)
  /\ faults' = faults \cup NodeFault(i)
  /\ UNCHANGED left

ServerClosed(i) ==
  /\ conns[i].s = "closed"
  /\ conns' = [conns EXCEPT ![i].life = "gone", ![i].s = "idle"]
  /\ UNCHANGED <<ssls, map, history, faults>>

\* handleClientClose, handleClientWrite and handleClientRead where they end
\* the client half
ClientEnds(i) ==
  /\ ClientHas(i)
  /\ conns' = [conns EXCEPT ![i] = Deleted([@ EXCEPT !.c = "gone", !.client = FALSE])]
  /\ faults' = faults \cup NodeFault(i)
  /\ UNCHANGED <<ssls, map, history>>

ServerThread(i) ==
  \/ \E connected \in BOOLEAN : Handshake(i, connected)
  \/ HandshakeFails(i) \/ BindPair(i) \/ LeaveUnbound(i)
  \/ ServerLooks(i) \/ ServerPasses(i) \/ ServerEnds(i) \/ ServerDestroyed(i)
  \/ ServerClose(i) \/ ServerClosed(i)

ClientThread(i) == ClientLooks(i) \/ ClientPasses(i) \/ ClientEnds(i)

Next == Accept \/ \E i \in DOMAIN conns : ServerThread(i) \/ ClientThread(i)

Spec == Init /\ [][Next]_vars

-----------------------------------------------------------------------------
(* Properties *)

\* Whoever looks a node up finds it, and still has it when the mutex is his,
\* although the other thread may end its half in between: the node goes only
\* with the second half.
NodeOutlivesHandlers == faults = {}

\* The map has exactly the SSLConnections there are, each under one descriptor:
\* none is used after its end and none is lost, on every way a connection ends.
MapIsExact ==
  /\ \A fd \in Fds : map[fd] # 0 => ssls[map[fd]].live
  /\ \A e \in DOMAIN ssls :
       ssls[e].live => Cardinality({fd \in Fds : map[fd] = e}) = 1

\* A bound pair keeps its SSLConnection until it ends itself: an earlier
\* connection of the same descriptor takes only its own entry with it.
EntryStays ==
  \A i \in Open :
    conns[i].life = "bound" /\ conns[i].s \in {"idle", "looked"}
      => map[conns[i].fd] = conns[i].ssl

\* A connection runs with another's SSLConnection only because a browser left
\* the descriptor before its pair was bound, and each that left so spoils one
\* later connection at most: with that one the SSLConnection goes, however long
\* the two live together, unless the spoiled one leaves unbound itself.
LeftHurtsOnce == Cardinality(victims) <= Cardinality(left)

=============================================================================
