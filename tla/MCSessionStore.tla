--------------------------- MODULE MCSessionStore ---------------------------
(* Two threads, and as many ids as sessions may be generated.               *)
EXTENDS SessionStoreRefinement, TLC

CONSTANTS t1, t2, x1, x2, x3

MCThreads == {t1, t2}
MCIds == {x1, x2, x3}
Symmetry == Permutations(MCThreads) \cup Permutations(MCIds)

=============================================================================
