------------------------------ MODULE WorkPlans ------------------------------
(***************************************************************************)
(* The tasks and the work plans of the managers: the rows of the tables    *)
(* Task and WorkPlan, the join table between them, the pages a manager has *)
(* open, and the request handlers of features/manager/task and             *)
(* features/manager/workplan.                                              *)
(*                                                                         *)
(* One action is one POST request that the controller serves to its end:   *)
(* authorise, findOne, bind, validate, create / update / delete, commit.   *)
(* A request that is refused (not authorised, errors, stale version) is    *)
(* rolled back and is a stuttering step, so every check of the handler is  *)
(* a conjunct of the action's guard.  Requests are serial here.            *)
(***************************************************************************)
EXTENDS Integers

CONSTANTS
  Manager,        \* manager roles
  TaskId, PlanId, \* the ids the sequence may give to a Task, to a WorkPlan
  Tab,            \* browser tabs
  ManagerOf,      \* the manager signed in at each tab
  Title,          \* the titles a form may carry
  SpamTitle,      \* those that ValidateSpam calls spam
  Workload,       \* the workloads a form may carry, in minutes
  Separators,     \* the thousands separators a workload may be typed with
  WorkloadLimit,  \* 100 hours in the code
  MaxInstant,     \* bound on the clock and on the dates
  MaxVersion,     \* bound on the version counters
  Unborn,         \* an id that the sequence has not given yet
  Deleted,        \* an id whose row was deleted: never given again
  NoForm          \* no page is open

ASSUME ManagerOfAssumption == ManagerOf \in [Tab -> Manager]
ASSUME BoundsAssumption ==
  /\ MaxInstant \in Nat
  /\ MaxVersion \in Nat
  /\ WorkloadLimit \in Nat
  /\ Workload \subseteq Int
  /\ Separators \subseteq 0..2

Privacy == {"PUBLIC", "PRIVATE"}
Instant == 0..MaxInstant
Version == 0..MaxVersion

\* The many-to-many association is owned by Task.workPlans; WorkPlan.tasks is
\* its inverse side (mappedBy) and holds nothing of its own.
TaskRow ==
  [owner : Manager, title : Title, beginning : Instant, ending : Instant,
   workload : Workload, privacy : Privacy, workPlans : SUBSET PlanId,
   version : Version]

PlanRow ==
  [owner : Manager, title : Title, beginning : Instant, ending : Instant,
   privacy : Privacy, version : Version]

\* What a form posts.  "separators" counts the thousands separators that the
\* workload was typed with, e.g. one in 1,000.30: the form binder drops them
\* and accepts the number.  Two stands for more, too.
TaskInput ==
  [title : Title, beginning : Instant, ending : Instant,
   workload : Workload, separators : Separators, privacy : Privacy]

PlanInput ==
  [title : Title, beginning : Instant, ending : Instant, privacy : Privacy]

\* A page: the id and the row it was rendered from, with the row's version in
\* a hidden field that comes back with the form.
TaskForm == [id : TaskId, seen : TaskRow]
PlanForm == [id : PlanId, seen : PlanRow]

ASSUME NoValueAssumption ==
  /\ Unborn # Deleted
  /\ {Unborn, Deleted} \cap (TaskRow \cup PlanRow) = {}
  /\ NoForm \notin TaskForm \cup PlanForm

VARIABLES
  now,        \* the clock that new Date() reads
  task,       \* table Task with its rows of the join table
  plan,       \* table WorkPlan
  taskForm,   \* the task page open at each tab
  planForm,   \* the work plan page open at each tab
  unchecked,  \* history: tasks whose row was last written by a request whose
              \* validate gave up before its last checks (see TaskAccepted)
  replaced    \* history: plans that a create has overwritten while tasks were
              \* assigned to them (see OverwritePlan)

vars == <<now, task, plan, taskForm, planForm, unchecked, replaced>>

Tasks == {t \in TaskId : task[t] \notin {Unborn, Deleted}}
Plans == {p \in PlanId : plan[p] \notin {Unborn, Deleted}}
TasksOf(p) == {t \in Tasks : p \in task[t].workPlans}

TypeOK ==
  /\ now \in Instant
  /\ task \in [TaskId -> TaskRow \cup {Unborn, Deleted}]
  /\ plan \in [PlanId -> PlanRow \cup {Unborn, Deleted}]
  /\ taskForm \in [Tab -> TaskForm \cup {NoForm}]
  /\ planForm \in [Tab -> PlanForm \cup {NoForm}]
  /\ unchecked \subseteq TaskId
  /\ replaced \subseteq PlanId

Init ==
  /\ now = 0
  /\ task = [t \in TaskId |-> Unborn]
  /\ plan = [p \in PlanId |-> Unborn]
  /\ taskForm = [w \in Tab |-> NoForm]
  /\ planForm = [w \in Tab |-> NoForm]
  /\ unchecked = {}
  /\ replaced = {}

-----------------------------------------------------------------------------
(***************************************************************************)
(* Validation.                                                             *)
(***************************************************************************)

\* Both dates are later than now and the ending is later than the beginning.
DatesAccepted(s) ==
  /\ s.beginning > now
  /\ s.ending > now
  /\ s.ending > s.beginning

\* The privacy and the dates of a task row suit a plan row: no private task in
\* a public plan, and the task lies inside the window of the plan.
Suits(taskRow, planRow) ==
  /\ planRow.privacy = "PUBLIC" => taskRow.privacy = "PUBLIC"
  /\ planRow.beginning =< taskRow.beginning
  /\ taskRow.ending =< planRow.ending

WorkloadAccepted(s) ==
  /\ 0 < s.workload
  /\ s.workload < WorkloadLimit
  /\ s.workload =< s.ending - s.beginning

\* ManagerTaskCreateService.validate.  For a number with a thousands separator
\* Double.valueOf throws after the date checks, for one with two it throws
\* before them; the exception is swallowed and the checks that follow are never
\* made.
NewTaskAccepted(s) ==
  /\ s.separators < 2 => DatesAccepted(s)
  /\ s.separators = 0 => WorkloadAccepted(s) /\ s.title \notin SpamTitle

\* ManagerTaskUpdateService.validate: the same, and the new values must suit
\* every work plan the task is assigned to.
TaskAccepted(s, plans) ==
  /\ s.separators < 2 => DatesAccepted(s)
  /\ s.separators = 0 =>
       /\ WorkloadAccepted(s)
       /\ s.title \notin SpamTitle
       /\ \A p \in plans : Suits(s, plan[p])

NewPlanAccepted(s) ==
  /\ s.privacy = "PUBLIC" => s.title \notin SpamTitle
  /\ DatesAccepted(s)

\* Mutant: an update of a plan validated by its dates alone.
MutPlanAccepted(s, tasks) == DatesAccepted(s)

\* ManagerWorkplanUpdateService.validate: the new values must suit every task
\* assigned to the plan.
PlanAccepted(s, tasks) ==
  /\ s.privacy = "PUBLIC" => s.title \notin SpamTitle
  /\ DatesAccepted(s)
  /\ \A t \in tasks : Suits(task[t], s)

\* Mutant: authorise looks at the owner of the plan and not at the task's.
MutMayJoin(t, p) == t \notin TasksOf(p) /\ Suits(task[t], plan[p])

\* ManagerWorkplanTaskAddService: authorise, then validate.
MayJoin(t, p) ==
  /\ task[t].owner = plan[p].owner
  /\ t \notin TasksOf(p)
  /\ Suits(task[t], plan[p])

\* The tasks the work plan page offers in its selector
\* (ManagerWorkplanShowService and the queries of its repository).
Offered(p) ==
  {t \in Tasks \ TasksOf(p) :
     /\ task[t].owner = plan[p].owner
     /\ task[t].ending =< plan[p].ending
     /\ task[t].beginning >= plan[p].beginning
     /\ plan[p].privacy = "PUBLIC" => task[t].privacy = "PUBLIC"}

-----------------------------------------------------------------------------
(***************************************************************************)
(* Requests.                                                               *)
(***************************************************************************)

Tick ==
  /\ now < MaxInstant
  /\ now' = now + 1
  /\ UNCHANGED <<task, plan, taskForm, planForm, unchecked, replaced>>

\* GET management/task/show
ShowTask(w, t) ==
  /\ t \in Tasks
  /\ task[t].owner = ManagerOf[w]
  /\ taskForm' = [taskForm EXCEPT ![w] = [id |-> t, seen |-> task[t]]]
  /\ UNCHANGED <<now, task, plan, planForm, unchecked, replaced>>

\* GET management/workplan/show
ShowPlan(w, p) ==
  /\ p \in Plans
  /\ plan[p].owner = ManagerOf[w]
  /\ planForm' = [planForm EXCEPT ![w] = [id |-> p, seen |-> plan[p]]]
  /\ UNCHANGED <<now, task, plan, taskForm, unchecked, replaced>>

\* A create binds the posted id and version, like every request.  With the id 0
\* of its form, or with that of no stored row, the entity is stored as a new row
\* (its first version is taken as 0: versions of a row are only compared with
\* each other).
CreateTask(m, t, s) ==
  /\ task[t] = Unborn
  /\ NewTaskAccepted(s)
  /\ task' = [task EXCEPT ![t] =
       [owner |-> m, title |-> s.title, beginning |-> s.beginning,
        ending |-> s.ending, workload |-> s.workload, privacy |-> s.privacy,
        workPlans |-> {}, version |-> 0]]
  /\ unchecked' = IF s.separators > 0 THEN unchecked \cup {t} ELSE unchecked
  /\ UNCHANGED <<now, plan, taskForm, planForm, replaced>>

CreatePlan(m, p, s) ==
  /\ plan[p] = Unborn
  /\ NewPlanAccepted(s)
  /\ plan' = [plan EXCEPT ![p] =
       [owner |-> m, title |-> s.title, beginning |-> s.beginning,
        ending |-> s.ending, privacy |-> s.privacy, version |-> 0]]
  /\ UNCHANGED <<now, task, taskForm, planForm, unchecked, replaced>>

\* What a merge makes of a stored row when all that is bound is a new entity:
\* its owner is the manager in session, and its collection is null, which
\* empties the association a task owns.
MergedTask(row, m, s) ==
  LET new == [row EXCEPT !.owner = m, !.title = s.title,
                         !.beginning = s.beginning, !.ending = s.ending,
                         !.workload = s.workload, !.privacy = s.privacy,
                         !.workPlans = {}]
  IN  IF new = row THEN row ELSE [new EXCEPT !.version = @ + 1]

\* The collection of a plan is the inverse side: its tasks stay assigned.
MergedPlan(row, m, s) ==
  LET new == [row EXCEPT !.owner = m, !.title = s.title,
                         !.beginning = s.beginning, !.ending = s.ending,
                         !.privacy = s.privacy]
  IN  IF new = row THEN row ELSE [new EXCEPT !.version = @ + 1]

\* A create with the id and the version of a stored row: save merges what has an
\* id, whoever owns the row, and validates it as a new one.
OverwriteTask(m, t, s) ==
  /\ t \in Tasks
  /\ NewTaskAccepted(s)
  /\ task[t].version < MaxVersion
  /\ task' = [task EXCEPT ![t] = MergedTask(task[t], m, s)]
  /\ unchecked' = IF s.separators > 0 THEN unchecked \cup {t}
                                      ELSE unchecked \ {t}
  /\ UNCHANGED <<now, plan, taskForm, planForm, replaced>>

OverwritePlan(m, p, s) ==
  /\ p \in Plans
  /\ NewPlanAccepted(s)
  /\ plan[p].version < MaxVersion
  /\ plan' = [plan EXCEPT ![p] = MergedPlan(plan[p], m, s)]
  /\ replaced' = IF TasksOf(p) = {} THEN replaced ELSE replaced \cup {p}
  /\ UNCHANGED <<now, task, taskForm, planForm, unchecked>>

\* save merges the entity bound from the form, whose version is the one of the
\* page: the row must still be at that version.
FreshTaskForm(w) ==
  /\ taskForm[w] # NoForm
  /\ taskForm[w].id \in Tasks
  /\ taskForm[w].seen.version = task[taskForm[w].id].version

\* Mutant: the hidden version field is not bound.
MutFreshPlanForm(w) == planForm[w] # NoForm /\ planForm[w].id \in Plans

FreshPlanForm(w) ==
  /\ planForm[w] # NoForm
  /\ planForm[w].id \in Plans
  /\ planForm[w].seen.version = plan[planForm[w].id].version

\* Mutant: the posted entity replaces the row instead of being merged into it.
MutSavedTask(row, s) == s

\* The row with the values of the form and the next version; a row written
\* back as it was keeps its version.
SavedTask(row, s) ==
  IF /\ row.title = s.title
     /\ row.beginning = s.beginning /\ row.ending = s.ending
     /\ row.workload = s.workload /\ row.privacy = s.privacy
  THEN row
  ELSE [row EXCEPT !.title = s.title, !.beginning = s.beginning,
                   !.ending = s.ending, !.workload = s.workload,
                   !.privacy = s.privacy, !.version = @ + 1]

SavedPlan(row, s) ==
  IF /\ row.title = s.title /\ row.privacy = s.privacy
     /\ row.beginning = s.beginning /\ row.ending = s.ending
  THEN row
  ELSE [row EXCEPT !.title = s.title, !.beginning = s.beginning,
                   !.ending = s.ending, !.privacy = s.privacy,
                   !.version = @ + 1]

UpdateTask(w, s) ==
  LET t == taskForm[w].id
  IN  /\ FreshTaskForm(w)
      /\ task[t].owner = ManagerOf[w]
      /\ TaskAccepted(s, task[t].workPlans)
      /\ task[t].version < MaxVersion
      /\ task' = [task EXCEPT ![t] = SavedTask(task[t], s)]
      /\ unchecked' = IF s.separators > 0 THEN unchecked \cup {t}
                                          ELSE unchecked \ {t}
      /\ UNCHANGED <<now, plan, taskForm, planForm, replaced>>

UpdatePlan(w, s) ==
  LET p == planForm[w].id
  IN  /\ FreshPlanForm(w)
      /\ plan[p].owner = ManagerOf[w]
      /\ PlanAccepted(s, TasksOf(p))
      /\ plan[p].version < MaxVersion
      /\ plan' = [plan EXCEPT ![p] = SavedPlan(plan[p], s)]
      /\ UNCHANGED <<now, task, taskForm, planForm, unchecked, replaced>>

\* A DELETE request binds no form and compares no version.  The join rows of
\* the task go with it.
DeleteTask(m, t) ==
  /\ t \in Tasks
  /\ task[t].owner = m
  /\ task' = [task EXCEPT ![t] = Deleted]
  /\ UNCHANGED <<now, plan, taskForm, planForm, unchecked, replaced>>

\* Mutant: WorkPlan.tasks owns the association, so the task is not versioned.
MutJoined(row, p) == [row EXCEPT !.workPlans = @ \cup {p}]

\* The association lives in the task row: joining or leaving a plan gives the
\* task a new version and leaves the version of the plan alone.
Joined(row, p) ==
  [row EXCEPT !.workPlans = @ \cup {p}, !.version = @ + 1]
Left(row, p) ==
  [row EXCEPT !.workPlans = @ \ {p}, !.version = @ + 1]

\* DELETE of a plan first takes it out of every task assigned to it.
DeletePlan(m, p) ==
  /\ p \in Plans
  /\ plan[p].owner = m
  /\ \A t \in TasksOf(p) : task[t].version < MaxVersion
  /\ task' = [t \in TaskId |->
                IF t \in TasksOf(p) THEN Left(task[t], p) ELSE task[t]]
  /\ plan' = [plan EXCEPT ![p] = Deleted]
  /\ UNCHANGED <<now, taskForm, planForm, unchecked, replaced>>

\* POST add_task_workplan: an UPDATE of the plan, with the version of the page.
AddTask(w, t) ==
  LET p == planForm[w].id
  IN  /\ FreshPlanForm(w)
      /\ plan[p].owner = ManagerOf[w]
      /\ t \in Tasks
      /\ MayJoin(t, p)
      /\ task[t].version < MaxVersion
      /\ task' = [task EXCEPT ![t] = Joined(task[t], p)]
      /\ UNCHANGED <<now, plan, taskForm, planForm, unchecked, replaced>>

\* POST delete_task_workplan: a DELETE on the plan, so no version is compared;
\* only the plan's owner is checked, never the task's.
RemoveTask(m, p, t) ==
  /\ p \in Plans
  /\ plan[p].owner = m
  /\ t \in TasksOf(p)
  /\ task[t].version < MaxVersion
  /\ task' = [task EXCEPT ![t] = Left(task[t], p)]
  /\ UNCHANGED <<now, plan, taskForm, planForm, unchecked, replaced>>

\* What the requests of a manager may write that the application's forms send.
WriteBy(m) ==
  \/ \E t \in TaskId, s \in TaskInput : CreateTask(m, t, s)
  \/ \E p \in PlanId, s \in PlanInput : CreatePlan(m, p, s)
  \/ \E t \in TaskId : DeleteTask(m, t)
  \/ \E p \in PlanId : DeletePlan(m, p)
  \/ \E p \in PlanId, t \in TaskId : RemoveTask(m, p, t)
  \/ \E w \in Tab :
       /\ ManagerOf[w] = m
       /\ \/ \E s \in TaskInput : UpdateTask(w, s)
          \/ \E s \in PlanInput : UpdatePlan(w, s)
          \/ \E t \in TaskId : AddTask(w, t)

\* What a create that carries an id may write: no form of the application sends
\* one, but nothing in the handlers stops it.
OverwriteBy(m) ==
  \/ \E t \in TaskId, s \in TaskInput : OverwriteTask(m, t, s)
  \/ \E p \in PlanId, s \in PlanInput : OverwritePlan(m, p, s)

Next ==
  \/ Tick
  \/ \E w \in Tab, t \in TaskId : ShowTask(w, t)
  \/ \E w \in Tab, p \in PlanId : ShowPlan(w, p)
  \/ \E m \in Manager : WriteBy(m) \/ OverwriteBy(m)

Spec == Init /\ [][Next]_vars

-----------------------------------------------------------------------------
(***************************************************************************)
(* Properties.                                                             *)
(***************************************************************************)

\* A task is assigned only to stored work plans: deleting a plan leaves no join
\* row behind.  And they are its own manager's, since AddTask never mixes two
\* managers - unless a create has given the plan to another manager.
MembershipSound ==
  \A t \in Tasks : \A p \in task[t].workPlans :
    p \in Plans /\ (p \notin replaced => plan[p].owner = task[t].owner)

\* No private task is in a public plan, and no task sticks out of the window of
\* a plan it is assigned to, whichever of the task, the plan or the assignment
\* was written last - for every task whose last update was checked to the end
\* and every plan that no create has overwritten.
MembersSuitTheirPlans ==
  \A t \in Tasks \ unchecked : \A p \in task[t].workPlans \ replaced :
    Suits(task[t], plan[p])

\* A published plan never carries a title that the spam filter rejects, also
\* when the title was typed while the plan was still private.
PublicTitlesClean ==
  \A p \in Plans : plan[p].privacy = "PUBLIC" => plan[p].title \notin SpamTitle

\* Two contents of one row never have the same version: a page whose version
\* is still current shows the row as it is, join rows of a task included, and
\* no page is ahead of its row.
VersionIdentifiesRow ==
  \A w \in Tab :
    /\ taskForm[w] # NoForm =>
         LET t == taskForm[w].id
         IN  /\ task[t] # Unborn
             /\ t \in Tasks => taskForm[w].seen.version =< task[t].version
    /\ FreshTaskForm(w) => taskForm[w].seen = task[taskForm[w].id]
    /\ planForm[w] # NoForm =>
         LET p == planForm[w].id
         IN  /\ plan[p] # Unborn
             /\ p \in Plans => planForm[w].seen.version =< plan[p].version
    /\ FreshPlanForm(w) => planForm[w].seen = plan[planForm[w].id]

\* The page of a plan offers exactly the tasks that the add request would take.
OffersAreAcceptable ==
  \A p \in Plans : Offered(p) = {t \in Tasks : MayJoin(t, p)}

\* An update never overwrites what its author has not seen: the page it was
\* posted from shows the row that it replaces.
NoLostUpdate ==
  [][\A w \in Tab :
       /\ (\E s \in TaskInput : UpdateTask(w, s)) =>
            taskForm[w].seen = task[taskForm[w].id]
       /\ (\E s \in PlanInput : UpdatePlan(w, s)) =>
            planForm[w].seen = plan[planForm[w].id]]_vars

\* A request that a form of the application sends changes only rows of its
\* manager, although removing a task from a plan and deleting a plan never look
\* at the owner of the tasks.  Two managers meet in one plan only when a create
\* has overwritten it: then its tasks may be another manager's.
OnlyOwnRowsChange ==
  [][\A m \in Manager :
       \/ \E t \in Tasks : /\ task'[t] # task[t] /\ task[t].owner # m
                          /\ task[t].workPlans \cap replaced = {}
       \/ \E p \in Plans : plan'[p] # plan[p] /\ plan[p].owner # m
       => ~WriteBy(m)]_vars

(***************************************************************************)
(* What a message promises and a workload typed with a thousands separator *)
(* breaks.                                                                 *)
(***************************************************************************)

\* "The task is contained in one or more public workplans. Please remove it
\* from them before making it private".
NoPrivateTaskInPublicPlan ==
  \A t \in Tasks : \A p \in task[t].workPlans \ replaced :
    plan[p].privacy = "PUBLIC" => task[t].privacy = "PUBLIC"

\* The inductive invariant behind them.
IInv ==
  /\ TypeOK
  /\ MembershipSound
  /\ MembersSuitTheirPlans
  /\ PublicTitlesClean
  /\ VersionIdentifiesRow
=============================================================================
