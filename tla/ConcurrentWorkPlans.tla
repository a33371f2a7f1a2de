------------------------- MODULE ConcurrentWorkPlans --------------------------
(***************************************************************************)
(* The handlers of WorkPlans as the transactions they are.  A request      *)
(* begins a transaction, reads a snapshot (InnoDB's default isolation is   *)
(* repeatable read), validates on it and writes when it commits: every     *)
(* UPDATE and DELETE that Hibernate issues names the version it has read.  *)
(*                                                                         *)
(* A controller keeps its transaction in a field (RequestTransactions      *)
(* shows what follows from that), so what overlaps here is one request of  *)
(* the task controller and one of the work plan controller.  Every request *)
(* comes from the owner of its rows and from a page it has just opened:    *)
(* the others are refused in WorkPlans.  Creates carry no id.              *)
(***************************************************************************)
EXTENDS Naturals

CONSTANTS
  Manager, TaskId, PlanId, Title, SpamTitle, Workload, WorkloadLimit,
  MaxInstant, MaxVersion, Unborn, Deleted, NoForm,
  Controller,   \* the two controllers
  TaskOf, PlanOf, \* the task and the work plan controller
  Idle          \* no transaction is open

ASSUME ControllerAssumption == Controller = {TaskOf, PlanOf} /\ TaskOf # PlanOf

VARIABLES
  task, plan,   \* the tables, as in WorkPlans
  tx,           \* the transaction each controller has open
  skewed        \* history: <<t, p>> when a write of task t and a write of its
                \* plan p were both validated before either was committed

vars == <<task, plan, tx, skewed>>

\* The rows and the rules.  The clock stands still before every date, there
\* are no open pages and no workload with a thousands separator.
DB == INSTANCE WorkPlans
        WITH now <- 0, Tab <- {}, ManagerOf <- <<>>, taskForm <- <<>>,
             planForm <- <<>>, unchecked <- {}, replaced <- {}, Separators <- {0}

TaskTable == [TaskId -> DB!TaskRow \cup {Unborn, Deleted}]
PlanTable == [PlanId -> DB!PlanRow \cup {Unborn, Deleted}]

\* The tables a transaction has read and what it makes of them.
Transaction ==
  [task : TaskTable, plan : PlanTable,
   newTask : TaskTable, newPlan : PlanTable]

ASSUME ValuesAssumption ==
  /\ MaxVersion \in Nat
  /\ Unborn # Deleted
  /\ {Unborn, Deleted} \cap (DB!TaskRow \cup DB!PlanRow) = {}
  /\ NoForm \notin DB!TaskForm \cup DB!PlanForm
  /\ Idle \notin Transaction

TypeOK ==
  /\ task \in TaskTable
  /\ plan \in PlanTable
  /\ tx \in [Controller -> Transaction \cup {Idle}]
  /\ skewed \subseteq TaskId \X PlanId

Init ==
  /\ task = [t \in TaskId |-> Unborn]
  /\ plan = [p \in PlanId |-> Unborn]
  /\ tx = [c \in Controller |-> Idle]
  /\ skewed = {}

-----------------------------------------------------------------------------
(***************************************************************************)
(* The first half of a request: authorise, findOne, bind and validate on   *)
(* the snapshot; what it saves waits for the flush.                        *)
(***************************************************************************)

Begin(c, newTask, newPlan) ==
  /\ tx[c] = Idle
  /\ tx' = [tx EXCEPT ![c] = [task |-> task, plan |-> plan,
                              newTask |-> newTask, newPlan |-> newPlan]]
  /\ UNCHANGED <<task, plan, skewed>>

BeginCreateTask(m, t, s) ==
  /\ task[t] = Unborn
  /\ DB!NewTaskAccepted(s)
  /\ Begin(TaskOf,
           [task EXCEPT ![t] =
              [owner |-> m, title |-> s.title, beginning |-> s.beginning,
               ending |-> s.ending, workload |-> s.workload,
               privacy |-> s.privacy, workPlans |-> {}, version |-> 0]],
           plan)

BeginUpdateTask(t, s) ==
  /\ t \in DB!Tasks
  /\ DB!TaskAccepted(s, task[t].workPlans)
  /\ task[t].version < MaxVersion
  /\ Begin(TaskOf, [task EXCEPT ![t] = DB!SavedTask(task[t], s)], plan)

BeginDeleteTask(t) ==
  /\ t \in DB!Tasks
  /\ Begin(TaskOf, [task EXCEPT ![t] = Deleted], plan)

BeginCreatePlan(m, p, s) ==
  /\ plan[p] = Unborn
  /\ DB!NewPlanAccepted(s)
  /\ Begin(PlanOf, task,
           [plan EXCEPT ![p] =
              [owner |-> m, title |-> s.title, beginning |-> s.beginning,
               ending |-> s.ending, privacy |-> s.privacy, version |-> 0]])

BeginUpdatePlan(p, s) ==
  /\ p \in DB!Plans
  /\ DB!PlanAccepted(s, DB!TasksOf(p))
  /\ plan[p].version < MaxVersion
  /\ Begin(PlanOf, task, [plan EXCEPT ![p] = DB!SavedPlan(plan[p], s)])

BeginDeletePlan(p) ==
  /\ p \in DB!Plans
  /\ \A t \in DB!TasksOf(p) : task[t].version < MaxVersion
  /\ Begin(PlanOf,
           [t \in TaskId |-> IF t \in DB!TasksOf(p)
                             THEN DB!Left(task[t], p) ELSE task[t]],
           [plan EXCEPT ![p] = Deleted])

BeginAddTask(p, t) ==
  /\ p \in DB!Plans
  /\ t \in DB!Tasks
  /\ DB!MayJoin(t, p)
  /\ task[t].version < MaxVersion
  /\ Begin(PlanOf, [task EXCEPT ![t] = DB!Joined(task[t], p)], plan)

BeginRemoveTask(p, t) ==
  /\ p \in DB!Plans
  /\ t \in DB!TasksOf(p)
  /\ task[t].version < MaxVersion
  /\ Begin(PlanOf, [task EXCEPT ![t] = DB!Left(task[t], p)], plan)

-----------------------------------------------------------------------------
(***************************************************************************)
(* The second half: the flush and the commit, or a rollback.               *)
(***************************************************************************)

WrittenTasks(c) == {t \in TaskId : tx[c].newTask[t] # tx[c].task[t]}
WrittenPlans(c) == {p \in PlanId : tx[c].newPlan[p] # tx[c].plan[p]}

\* Mutant: the entities have no @Version attribute, so the UPDATE names the id
\* alone.
MutUnmoved(row, read) == TRUE

\* UPDATE ... WHERE id = ? AND version = ? finds its row: the stored row is
\* at the version that was read.
Unmoved(row, read) ==
  \/ row = read /\ row \in {Unborn, Deleted}
  \/ /\ row \notin {Unborn, Deleted} /\ read \notin {Unborn, Deleted}
     /\ row.version = read.version

\* The assignments that the transaction of c relied on and that the other
\* controller has changed at the far end since c took its snapshot.
Overlooked(c) ==
  {tp \in TaskId \X PlanId :
     /\ tp[1] \in DB!Tasks /\ tp[2] \in task[tp[1]].workPlans
     /\ \/ tp[1] \in WrittenTasks(c) /\ plan[tp[2]] # tx[c].plan[tp[2]]
        \/ tp[2] \in WrittenPlans(c) /\ task[tp[1]] # tx[c].task[tp[1]]}

Commit(c) ==
  /\ tx[c] # Idle
  /\ \A t \in WrittenTasks(c) : Unmoved(task[t], tx[c].task[t])
  /\ \A p \in WrittenPlans(c) : Unmoved(plan[p], tx[c].plan[p])
  /\ task' = [t \in TaskId |-> IF t \in WrittenTasks(c)
                               THEN tx[c].newTask[t] ELSE task[t]]
  /\ plan' = [p \in PlanId |-> IF p \in WrittenPlans(c)
                               THEN tx[c].newPlan[p] ELSE plan[p]]
  /\ skewed' = skewed \cup Overlooked(c)
  /\ tx' = [tx EXCEPT ![c] = Idle]

\* An exception - a stale version among them - rolls the transaction back.
Rollback(c) ==
  /\ tx[c] # Idle
  /\ tx' = [tx EXCEPT ![c] = Idle]
  /\ UNCHANGED <<task, plan, skewed>>

TaskRequest ==
  \E t \in TaskId :
    \/ \E m \in Manager, s \in DB!TaskInput : BeginCreateTask(m, t, s)
    \/ \E s \in DB!TaskInput : BeginUpdateTask(t, s)
    \/ BeginDeleteTask(t)

PlanRequest ==
  \E p \in PlanId :
    \/ \E m \in Manager, s \in DB!PlanInput : BeginCreatePlan(m, p, s)
    \/ \E s \in DB!PlanInput : BeginUpdatePlan(p, s)
    \/ BeginDeletePlan(p)
    \/ \E t \in TaskId : BeginAddTask(p, t) \/ BeginRemoveTask(p, t)

Next ==
  \/ TaskRequest
  \/ PlanRequest
  \/ \E c \in Controller : Commit(c) \/ Rollback(c)

Spec == Init /\ [][Next]_vars

-----------------------------------------------------------------------------
(***************************************************************************)
(* Properties.                                                             *)
(***************************************************************************)

\* A request that commits replaces the rows that it has validated, join rows
\* of a task included: no interleaving with a request of the other controller
\* makes it overwrite what it has not read.
CommitsReplaceWhatTheyRead ==
  [][\A c \in Controller :
       Commit(c) =>
         /\ \A t \in WrittenTasks(c) : task[t] = tx[c].task[t]
         /\ \A p \in WrittenPlans(c) : plan[p] = tx[c].plan[p]]_vars

\* A plan that is deleted while its tasks are edited leaves no join row to it,
\* whatever the order of the commits, and no foreign key is needed for it.
NoDanglingAssignment == DB!MembershipSound

\* When a task does not suit a plan it is assigned to, then the task and the
\* plan were edited at the same time: joining, leaving and deleting cannot
\* produce such a pair, in any interleaving.
OnlySkewBreaksTheRules ==
  \A t \in DB!Tasks : \A p \in task[t].workPlans :
    ~DB!Suits(task[t], plan[p]) => <<t, p>> \in skewed

\* The requests of WorkPlans, each served to its end before the next one, by
\* managers with the given pages open.
Alone(taskPage, planPage) ==
  INSTANCE WorkPlans
    WITH now <- 0, Tab <- Manager, ManagerOf <- [m \in Manager |-> m],
         taskForm <- [m \in Manager |-> taskPage],
         planForm <- [m \in Manager |-> planPage],
         unchecked <- {}, replaced <- {}, Separators <- {0}

TaskPages == {NoForm} \cup {[id |-> t, seen |-> task[t]] : t \in DB!Tasks}
PlanPages == {NoForm} \cup {[id |-> p, seen |-> plan[p]] : p \in DB!Plans}

ServedAlone ==
  \E f \in TaskPages, g \in PlanPages, m \in Manager : Alone(f, g)!WriteBy(m)

\* A commit that overlooks nothing does to the tables, as they are by then, what
\* one of the requests of WorkPlans does that is validated on these tables and
\* served alone: overlapping requests are serializable but for write skew.
SerialButForSkew ==
  [][\A c \in Controller :
       Commit(c) /\ Overlooked(c) = {} =>
         ServedAlone \/ UNCHANGED <<task, plan>>]_vars

\* "Cannot publish a workplan while there are private tasks": no published
\* plan has a private task.
NoPublishedPlanWithPrivateTasks ==
  \A p \in DB!Plans : plan[p].privacy = "PUBLIC" =>
    \A t \in DB!TasksOf(p) : task[t].privacy = "PUBLIC"

(***************************************************************************)
(* The inductive invariant behind them.                                    *)
(***************************************************************************)

Stored(row) == row \notin {Unborn, Deleted}
Assigned(row) == IF Stored(row) THEN row.workPlans ELSE {}

\* What a transaction may make of a row that it has read.
Advances(new, read) ==
  \/ new = read
  \/ read = Unborn /\ Stored(new)
  \/ Stored(read) /\ new = Deleted
  \/ /\ Stored(read) /\ Stored(new)
     /\ new.owner = read.owner /\ new.version = read.version + 1

\* What may have become of it meanwhile.
Follows(row, read) ==
  \/ row = read
  \/ read = Unborn
  \/ Stored(read) /\ row = Deleted
  \/ /\ Stored(read) /\ Stored(row)
     /\ row.owner = read.owner /\ row.version > read.version

\* A pair of a task and a plan that a transaction writes was validated by it,
\* or did not suit when it was read and was left like that.
Validated(x) ==
  \A t \in TaskId : \A p \in Assigned(x.newTask[t]) :
    x.newTask[t] # x.task[t] \/ x.newPlan[p] # x.plan[p] =>
      \/ DB!Suits(x.newTask[t], x.newPlan[p])
      \/ p \in Assigned(x.task[t]) /\ ~DB!Suits(x.task[t], x.plan[p])

Consistent(x) ==
  /\ \A t \in TaskId : Advances(x.newTask[t], x.task[t])
  /\ \A p \in PlanId : Advances(x.newPlan[p], x.plan[p])
  /\ Validated(x)

\* The task controller writes no plan and assigns no task.
AssignsNothing(x) ==
  /\ x.newPlan = x.plan
  /\ \A t \in TaskId : Assigned(x.newTask[t]) \subseteq Assigned(x.task[t])

\* What the work plan controller writes is sound by itself.
IsSound(x) ==
  \A t \in TaskId : \A p \in Assigned(x.newTask[t]) :
    Stored(x.newPlan[p]) /\ x.newPlan[p].owner = x.newTask[t].owner

Snapshots ==
  \A c \in Controller : tx[c] # Idle =>
    /\ Consistent(tx[c])
    /\ \A t \in TaskId : Follows(task[t], tx[c].task[t])
    /\ \A p \in PlanId : Follows(plan[p], tx[c].plan[p])

\* Between the snapshot and the commit of the work plan controller no plan
\* changes and no task is assigned.
PlanSnapshot ==
  tx[PlanOf] # Idle =>
    /\ IsSound(tx[PlanOf])
    /\ plan = tx[PlanOf].plan
    /\ \A t \in TaskId : Assigned(task[t]) \subseteq Assigned(tx[PlanOf].task[t])

IInv ==
  /\ TypeOK
  /\ NoDanglingAssignment
  /\ OnlySkewBreaksTheRules
  /\ Snapshots
  /\ PlanSnapshot
  /\ tx[TaskOf] # Idle => AssignsNothing(tx[TaskOf])
=============================================================================
