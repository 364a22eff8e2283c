------------------------- MODULE MysqlPoolRefinement -------------------------
(***************************************************************************)
(* MysqlPool implements ConnectionLease: a connection that is idle, in the *)
(* hands of the maintenance thread or not yet built is leased to nobody.   *)
(***************************************************************************)
EXTENDS MysqlPool

LeaseOf(c) ==
  IF \E t \in Clients : held[t] = c
  THEN CHOOSE t \in Clients : held[t] = c
  ELSE None

Lease == INSTANCE ConnectionLease
  WITH Nobody <- None,
       lease <- [c \in Conns |-> LeaseOf(c)],
       asked <- Waiting \cup Woken

\* The pool hands a connection only to a client that has none, only when no
\* other client has it, and takes it back only from its holder.
ImplementsLease == Lease!LeaseSpec

=============================================================================
