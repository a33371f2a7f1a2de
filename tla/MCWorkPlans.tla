----------------------------- MODULE MCWorkPlans -----------------------------
\* Instances of WorkPlans for TLC.
EXTENDS PublicListings, TLC

CONSTANTS m1, m2, t1, t2, p1, w1, clean, spam

OneManager == {m1}
TwoManagers == {m1, m2}
OneTask == {t1}
TwoTasks == {t1, t2}
TaskSymmetry == Permutations(TwoTasks)
OnePlan == {p1}
OneTab == {w1}
CleanTitle == {clean}
BothTitles == {clean, spam}
SpamTitles == {spam}

SameManager == [w \in Tab |-> m1]

\* A workload that fits every window.
OneWorkload == {1}

\* With none everything is checked, with one the dates always, with two nothing.
None == {0}
NoneOrOne == {0, 1}
NoneToTwo == {0, 1, 2}
===============================================================================
