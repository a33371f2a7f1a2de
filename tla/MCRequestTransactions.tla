------------------------ MODULE MCRequestTransactions -------------------------
\* Instances of RequestTransactions for TLC.
EXTENDS RequestTransactions, TLC

CONSTANTS th1, th2, c1, c2

TwoThreads == {th1, th2}
OneConnection == {c1}
TwoConnections == {c1, c2}

Symmetry == Permutations(Thread) \cup Permutations(Conn)
===============================================================================
