------------------------------ MODULE MCProxyTable ------------------------------
EXTENDS ProxyTable, TLC

CONSTANTS f1, f2

MCFds == {f1, f2}

\* The descriptors are interchangeable
Symmetry == Permutations(MCFds)

=============================================================================
