--------------------------- MODULE ConnectionLease ---------------------------
(***************************************************************************)
(* What the connection pool promises its callers: a connection is leased   *)
(* to one client at a time, a client has at most one lease, and a client   *)
(* that asked may be made to wait.  How connections are queued, built and  *)
(* maintained is hidden.                                                   *)
(***************************************************************************)
CONSTANTS Clients, Conns, Nobody

VARIABLES
  lease,   \* who holds each connection
  asked    \* the clients made to wait

leaseVars == <<lease, asked>>

LeaseInit == lease = [c \in Conns |-> Nobody] /\ asked = {}

HasLease(t) == \E c \in Conns : lease[c] = t

Ask(t) ==
  /\ ~HasLease(t) /\ t \notin asked
  /\ asked' = asked \cup {t}
  /\ UNCHANGED lease

Obtain(t, c) ==
  /\ ~HasLease(t) /\ lease[c] = Nobody
  /\ lease' = [lease EXCEPT ![c] = t]
  /\ asked' = asked \ {t}

GiveBack(t, c) ==
  /\ lease[c] = t
  /\ lease' = [lease EXCEPT ![c] = Nobody]
  /\ UNCHANGED asked

LeaseNext ==
  \E t \in Clients : Ask(t) \/ \E c \in Conns : Obtain(t, c) \/ GiveBack(t, c)

LeaseSpec == LeaseInit /\ [][LeaseNext]_leaseVars

=============================================================================
