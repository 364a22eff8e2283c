-------------------------------- MODULE MCNetDisk --------------------------------
EXTENDS NetDisk, TLC

CONSTANTS c1, c2, f1, f2

MCConnections == {c1, c2}
MCFiles == {f1, f2}

\* f1 is there at the start, with two blocks and a half
MCInitially == f1 :> 5

\* Empty, one block exactly, and more than an int counts
MCSizes == {0, 2, 7}

=============================================================================
