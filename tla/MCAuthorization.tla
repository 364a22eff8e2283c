---------------------------- MODULE MCAuthorization ----------------------------
EXTENDS Authorization, TLC

CONSTANTS t1, t2, s1, ann, bob, eve, pw1, pw2

MCThreads == {t1, t2}
MCSessions == {s1}
MCNames == {ann, bob, eve}
MCUsers == {ann, bob}
MCPasswords == {pw1, pw2}

\* Threads and passwords are interchangeable
Symmetry == Permutations(MCThreads) \cup Permutations(MCPasswords)

MCPage  == [text |-> "page", size |-> 5]
MCOther == [text |-> "other", size |-> 2]

=============================================================================
