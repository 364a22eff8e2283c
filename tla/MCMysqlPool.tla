---------------------------- MODULE MCMysqlPool ----------------------------
(* A pool of two connections shared by three threads, as in the unit test   *)
(* of the pool (four threads, two connections).                              *)
EXTENDS MysqlPoolRefinement, TLC

CONSTANTS c1, c2, c3

MCClients == {c1, c2, c3}

=============================================================================
