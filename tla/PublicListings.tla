---------------------------- MODULE PublicListings ----------------------------
(***************************************************************************)
(* The pages about tasks and work plans that anyone can see.  They only    *)
(* read the tables of WorkPlans, so this module has operators and no       *)
(* actions: what each list contains, and which rows a page may show.      *)
(***************************************************************************)
EXTENDS WorkPlans

-----------------------------------------------------------------------------
(***************************************************************************)
(* Anonymous visitors.                                                     *)
(***************************************************************************)

\* anonymous/task/list
ActivePublicTasks ==
  {t \in Tasks : task[t].privacy = "PUBLIC" /\ task[t].ending >= now}

\* anonymous/work-plan/list
UnfinishedPublicPlans ==
  {p \in Plans : plan[p].privacy = "PUBLIC" /\ plan[p].ending >= now}

\* anonymous/task/list-task-workplan, of a public plan only
TasksListedOf(p) == {t \in TasksOf(p) : plan[p].privacy = "PUBLIC"}

\* anonymous/work-plan/show
AnonymousMayShowPlan(p) == plan[p].privacy = "PUBLIC"

\* anonymous/task/show
AnonymousMayShow(t) == task[t].privacy = "PUBLIC"

-----------------------------------------------------------------------------
(***************************************************************************)
(* Signed-in users.                                                        *)
(***************************************************************************)

\* authenticated/task/list
FinishedPublicTasks ==
  {t \in Tasks : task[t].privacy = "PUBLIC" /\ task[t].ending < now}

\* authenticated/task/show
AuthenticatedMayShow(t) == task[t].privacy = "PUBLIC" /\ task[t].ending < now

-----------------------------------------------------------------------------
(***************************************************************************)
(* Properties.                                                             *)
(***************************************************************************)

\* Whoever finds a row in a list can open it: the list of the tasks of a plan
\* looks at the privacy of the plan, the page of a task at the task's.
ListedRowsCanBeShown ==
  /\ \A p \in Plans \ replaced : \A t \in TasksListedOf(p) \ unchecked :
       AnonymousMayShow(t)
  /\ \A t \in ActivePublicTasks : AnonymousMayShow(t)
  /\ \A p \in UnfinishedPublicPlans : AnonymousMayShowPlan(p)
  /\ \A t \in FinishedPublicTasks : AuthenticatedMayShow(t)

\* As long as a task of a public plan is listed as active, so is its plan: the
\* two lists look at dates of different rows.
PlansOutlastTheirTasks ==
  \A p \in Plans \ replaced : \A t \in TasksListedOf(p) \ unchecked :
    t \in ActivePublicTasks => p \in UnfinishedPublicPlans
===============================================================================
