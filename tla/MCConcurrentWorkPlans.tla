------------------------ MODULE MCConcurrentWorkPlans -------------------------
\* Instances of ConcurrentWorkPlans for TLC.
EXTENDS ConcurrentWorkPlans

CONSTANTS m1, t1, p1, clean, tasks, workplans

OneManager == {m1}
OneTask == {t1}
OnePlan == {p1}
OneTitle == {clean}
NoTitle == {}
OneWorkload == {1}
BothControllers == {tasks, workplans}

TaskController == tasks
PlanController == workplans
===============================================================================
