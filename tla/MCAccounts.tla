------------------------------ MODULE MCAccounts ------------------------------
\* Instances of Accounts for TLC.
EXTENDS Accounts, TLC

CONSTANTS a1, a2, s1, s2, q1, q2, x1, x2, x3, x4

OneAccount == {a1}
TwoAccounts == {a1, a2}
OneSession == {s1}
TwoSessions == {s1, s2}
TwoRequests == {q1, q2}
OnlyManager == {"Manager"}

Symmetry ==
  Permutations(Account) \cup Permutations(Session) \cup Permutations(Req)
===============================================================================
