--------------------------- MODULE WorkPlans_proofs ---------------------------
(***************************************************************************)
(* Theorems about WorkPlans for every set of managers, ids, tabs, titles   *)
(* and workloads and for every bound.                                      *)
(***************************************************************************)
EXTENDS WorkPlans, TLAPS

\* Stored rows are records of their tables.
LEMMA StoredRows ==
  ASSUME TypeOK
  PROVE  /\ \A t \in Tasks : t \in TaskId /\ task[t] \in TaskRow
         /\ \A p \in Plans : p \in PlanId /\ plan[p] \in PlanRow
  BY DEF TypeOK, Tasks, Plans

\* A fresh page belongs to a stored row.
LEMMA FreshRows ==
  ASSUME TypeOK, NEW w \in Tab
  PROVE  /\ FreshTaskForm(w) => /\ taskForm[w].id \in TaskId
                                /\ task[taskForm[w].id] \in TaskRow
         /\ FreshPlanForm(w) => /\ planForm[w].id \in PlanId
                                /\ plan[planForm[w].id] \in PlanRow
  BY StoredRows DEF FreshTaskForm, FreshPlanForm

\* Writing the values of a form over a row below the version bound gives a row.
LEMMA SavedTaskType ==
  ASSUME NEW row \in TaskRow, NEW s \in TaskInput, row.version < MaxVersion
  PROVE  SavedTask(row, s) \in TaskRow
  <1>1. row.version \in Version /\ row.version + 1 \in Version
    BY BoundsAssumption DEF TaskRow, Version
  <1>2. QED
    BY <1>1 DEF SavedTask, TaskRow, TaskInput

\* The same for a plan.
LEMMA SavedPlanType ==
  ASSUME NEW row \in PlanRow, NEW s \in PlanInput, row.version < MaxVersion
  PROVE  SavedPlan(row, s) \in PlanRow
  <1>1. row.version \in Version /\ row.version + 1 \in Version
    BY BoundsAssumption DEF PlanRow, Version
  <1>2. QED
    BY <1>1 DEF SavedPlan, PlanRow, PlanInput

\* A row that a create is merged into takes the values of the form and the
\* manager in session, and its version stays or moves on by one; a task leaves
\* its plans.
LEMMA MergedTaskRow ==
  ASSUME NEW row \in TaskRow, NEW m \in Manager, NEW s \in TaskInput,
         row.version < MaxVersion
  PROVE  /\ MergedTask(row, m, s) \in TaskRow
         /\ MergedTask(row, m, s).workPlans = {}
         /\ \/ MergedTask(row, m, s) = row
            \/ MergedTask(row, m, s).version = row.version + 1
  <1>1. row.version \in Version /\ row.version + 1 \in Version
    BY BoundsAssumption DEF TaskRow, Version
  <1>2. QED
    BY <1>1 DEF MergedTask, TaskRow, TaskInput

\* The same for a plan.
LEMMA MergedPlanRow ==
  ASSUME NEW row \in PlanRow, NEW m \in Manager, NEW s \in PlanInput,
         row.version < MaxVersion
  PROVE  /\ MergedPlan(row, m, s) \in PlanRow
         /\ MergedPlan(row, m, s).title = s.title
         /\ MergedPlan(row, m, s).privacy = s.privacy
         /\ \/ MergedPlan(row, m, s) = row
            \/ MergedPlan(row, m, s).version = row.version + 1
  <1>1. row.version \in Version /\ row.version + 1 \in Version
    BY BoundsAssumption DEF PlanRow, Version
  <1>2. QED
    BY <1>1 DEF MergedPlan, PlanRow, PlanInput

\* A task that joins or leaves a plan is still a task row.
LEMMA JoinedLeftType ==
  ASSUME NEW row \in TaskRow, NEW p \in PlanId, row.version < MaxVersion
  PROVE  Joined(row, p) \in TaskRow /\ Left(row, p) \in TaskRow
  <1>1. row.version + 1 \in Version
    BY BoundsAssumption DEF TaskRow, Version
  <1>2. row.workPlans \cup {p} \in SUBSET PlanId
    BY DEF TaskRow
  <1>3. row.workPlans \ {p} \in SUBSET PlanId
    BY DEF TaskRow
  <1>4. Joined(row, p) \in TaskRow
    BY <1>1, <1>2 DEF Joined, TaskRow
  <1>5. Left(row, p) \in TaskRow
    BY <1>1, <1>3 DEF Left, TaskRow
  <1>6. QED
    BY <1>4, <1>5

-----------------------------------------------------------------------------

\* Every reachable state has rows, pages and a clock of the declared types.
THEOREM TypeCorrect == Spec => []TypeOK
<1>1. Init => TypeOK
  BY BoundsAssumption DEF Init, TypeOK, Instant
<1>2. TypeOK /\ [Next]_vars => TypeOK'
  <2> SUFFICES ASSUME TypeOK, [Next]_vars
               PROVE  TypeOK'
    OBVIOUS
  <2>1. CASE Tick
    BY <2>1, BoundsAssumption DEF Tick, TypeOK, Instant
  <2>2. ASSUME NEW w \in Tab, NEW t \in TaskId, ShowTask(w, t)
        PROVE  TypeOK'
    BY <2>2, StoredRows DEF ShowTask, TypeOK, TaskForm
  <2>3. ASSUME NEW w \in Tab, NEW p \in PlanId, ShowPlan(w, p)
        PROVE  TypeOK'
    BY <2>3, StoredRows DEF ShowPlan, TypeOK, PlanForm
  <2>4. ASSUME NEW m \in Manager, NEW t \in TaskId, NEW s \in TaskInput,
               CreateTask(m, t, s)
        PROVE  TypeOK'
    <3>1. [owner |-> m, title |-> s.title, beginning |-> s.beginning,
           ending |-> s.ending, workload |-> s.workload,
           privacy |-> s.privacy, workPlans |-> {}, version |-> 0] \in TaskRow
      BY BoundsAssumption DEF TaskRow, TaskInput, Version
    <3>2. QED
      BY <2>4, <3>1 DEF CreateTask, TypeOK
  <2>5. ASSUME NEW m \in Manager, NEW p \in PlanId, NEW s \in PlanInput,
               CreatePlan(m, p, s)
        PROVE  TypeOK'
    <3>1. [owner |-> m, title |-> s.title, beginning |-> s.beginning,
           ending |-> s.ending, privacy |-> s.privacy,
           version |-> 0] \in PlanRow
      BY BoundsAssumption DEF PlanRow, PlanInput, Version
    <3>2. QED
      BY <2>5, <3>1 DEF CreatePlan, TypeOK
  <2>6. ASSUME NEW w \in Tab, NEW s \in TaskInput, UpdateTask(w, s)
        PROVE  TypeOK'
    <3> DEFINE t == taskForm[w].id
    <3>1. t \in TaskId /\ task[t] \in TaskRow
      BY <2>6, FreshRows DEF UpdateTask
    <3>2. SavedTask(task[t], s) \in TaskRow
      BY <2>6, <3>1, SavedTaskType DEF UpdateTask
    <3>3. QED
      BY <2>6, <3>1, <3>2 DEF UpdateTask, TypeOK
  <2>7. ASSUME NEW w \in Tab, NEW s \in PlanInput, UpdatePlan(w, s)
        PROVE  TypeOK'
    <3> DEFINE p == planForm[w].id
    <3>1. p \in PlanId /\ plan[p] \in PlanRow
      BY <2>7, FreshRows DEF UpdatePlan
    <3>2. SavedPlan(plan[p], s) \in PlanRow
      BY <2>7, <3>1, SavedPlanType DEF UpdatePlan
    <3>3. QED
      BY <2>7, <3>1, <3>2 DEF UpdatePlan, TypeOK
  <2>8. ASSUME NEW m \in Manager, NEW t \in TaskId, DeleteTask(m, t)
        PROVE  TypeOK'
    BY <2>8 DEF DeleteTask, TypeOK
  <2>9. ASSUME NEW m \in Manager, NEW p \in PlanId, DeletePlan(m, p)
        PROVE  TypeOK'
    <3>1. \A t \in TasksOf(p) : Left(task[t], p) \in TaskRow
      BY <2>9, StoredRows, JoinedLeftType DEF DeletePlan, TasksOf
    <3>2. QED
      BY <2>9, <3>1 DEF DeletePlan, TypeOK
  <2>10. ASSUME NEW w \in Tab, NEW t \in TaskId, AddTask(w, t)
         PROVE  TypeOK'
    <3>1. Joined(task[t], planForm[w].id) \in TaskRow
      BY <2>10, StoredRows, FreshRows, JoinedLeftType DEF AddTask
    <3>2. QED
      BY <2>10, <3>1 DEF AddTask, TypeOK
  <2>11. ASSUME NEW m \in Manager, NEW p \in PlanId, NEW t \in TaskId,
                RemoveTask(m, p, t)
         PROVE  TypeOK'
    <3>1. Left(task[t], p) \in TaskRow
      BY <2>11, StoredRows, JoinedLeftType DEF RemoveTask, TasksOf
    <3>2. QED
      BY <2>11, <3>1 DEF RemoveTask, TypeOK
  <2>12. CASE UNCHANGED vars
    BY <2>12 DEF vars, TypeOK
  <2>13. ASSUME NEW m \in Manager, NEW t \in TaskId, NEW s \in TaskInput,
                OverwriteTask(m, t, s)
         PROVE  TypeOK'
    <3>1. MergedTask(task[t], m, s) \in TaskRow
      BY <2>13, StoredRows, MergedTaskRow DEF OverwriteTask
    <3>2. QED
      BY <2>13, <3>1 DEF OverwriteTask, TypeOK
  <2>14. ASSUME NEW m \in Manager, NEW p \in PlanId, NEW s \in PlanInput,
                OverwritePlan(m, p, s)
         PROVE  TypeOK'
    <3>1. MergedPlan(plan[p], m, s) \in PlanRow
      BY <2>14, StoredRows, MergedPlanRow DEF OverwritePlan
    <3>2. QED
      BY <2>14, <3>1 DEF OverwritePlan, TypeOK
  <2>15. QED
    BY <2>1, <2>2, <2>3, <2>4, <2>5, <2>6, <2>7, <2>8, <2>9, <2>10, <2>11,
       <2>12, <2>13, <2>14 DEF Next, WriteBy, OverwriteBy
<1>3. QED
  BY <1>1, <1>2, PTL DEF Spec
-----------------------------------------------------------------------------
(***************************************************************************)
(* What the row operators do to the fields of a row.                       *)
(***************************************************************************)

\* A saved task keeps its owner and its plans, takes the values of the form,
\* and its version stays or moves on by one.
LEMMA SavedTaskFields ==
  ASSUME NEW row \in TaskRow, NEW s \in TaskInput
  PROVE  /\ SavedTask(row, s).owner = row.owner
         /\ SavedTask(row, s).workPlans = row.workPlans
         /\ SavedTask(row, s).beginning = s.beginning
         /\ SavedTask(row, s).ending = s.ending
         /\ SavedTask(row, s).privacy = s.privacy
         /\ SavedTask(row, s).version \in {row.version, row.version + 1}
  BY DEF SavedTask, TaskRow

\* A saved plan keeps its owner and takes the values of the form.
LEMMA SavedPlanFields ==
  ASSUME NEW row \in PlanRow, NEW s \in PlanInput
  PROVE  /\ SavedPlan(row, s).owner = row.owner
         /\ SavedPlan(row, s).title = s.title
         /\ SavedPlan(row, s).beginning = s.beginning
         /\ SavedPlan(row, s).ending = s.ending
         /\ SavedPlan(row, s).privacy = s.privacy
         /\ SavedPlan(row, s).version \in {row.version, row.version + 1}
  BY DEF SavedPlan, PlanRow

\* A save that leaves the version alone leaves the row alone.
LEMMA SavedTaskSame ==
  ASSUME NEW row \in TaskRow, NEW s \in TaskInput,
         SavedTask(row, s).version = row.version
  PROVE  SavedTask(row, s) = row
  BY BoundsAssumption DEF SavedTask, TaskRow, Version

\* The same for a plan.
LEMMA SavedPlanSame ==
  ASSUME NEW row \in PlanRow, NEW s \in PlanInput,
         SavedPlan(row, s).version = row.version
  PROVE  SavedPlan(row, s) = row
  BY BoundsAssumption DEF SavedPlan, PlanRow, Version

\* Joining a plan adds the plan, moves the version on and changes nothing else.
LEMMA JoinedFields ==
  ASSUME NEW row \in TaskRow, NEW p \in PlanId
  PROVE  /\ Joined(row, p).owner = row.owner
         /\ Joined(row, p).workPlans = row.workPlans \cup {p}
         /\ Joined(row, p).beginning = row.beginning
         /\ Joined(row, p).ending = row.ending
         /\ Joined(row, p).privacy = row.privacy
         /\ Joined(row, p).version = row.version + 1
  BY DEF Joined, TaskRow

\* Leaving a plan removes the plan, moves the version on and changes nothing
\* else.
LEMMA LeftFields ==
  ASSUME NEW row \in TaskRow, NEW p \in PlanId
  PROVE  /\ Left(row, p).owner = row.owner
         /\ Left(row, p).workPlans = row.workPlans \ {p}
         /\ Left(row, p).beginning = row.beginning
         /\ Left(row, p).ending = row.ending
         /\ Left(row, p).privacy = row.privacy
         /\ Left(row, p).version = row.version + 1
  BY DEF Left, TaskRow

-----------------------------------------------------------------------------
(***************************************************************************)
(* Every step preserves each conjunct of IInv.  IStep collects what a      *)
(* preservation lemma starts from.                                         *)
(***************************************************************************)

IStep == IInv /\ TypeOK' /\ [Next]_vars

\* Assignments lead to stored plans of the same manager after every request.
LEMMA MembershipStep ==
  ASSUME IStep
  PROVE  MembershipSound'
<1> USE DEF IStep, IInv
<1>1. CASE Tick
  BY <1>1 DEF Tick, MembershipSound, Tasks, Plans
<1>2. ASSUME NEW w \in Tab, NEW t \in TaskId, ShowTask(w, t)
      PROVE  MembershipSound'
  BY <1>2 DEF ShowTask, MembershipSound, Tasks, Plans
<1>3. ASSUME NEW w \in Tab, NEW p \in PlanId, ShowPlan(w, p)
      PROVE  MembershipSound'
  BY <1>3 DEF ShowPlan, MembershipSound, Tasks, Plans
<1>4. ASSUME NEW m \in Manager, NEW t \in TaskId, NEW s \in TaskInput,
             CreateTask(m, t, s)
      PROVE  MembershipSound'
  <2>1. task'[t].workPlans = {}
    BY <1>4 DEF CreateTask, TypeOK
  <2>2. \A u \in Tasks' \ {t} : u \in Tasks /\ task'[u] = task[u]
    BY <1>4 DEF CreateTask, TypeOK, Tasks
  <2>3. QED
    BY <1>4, <2>1, <2>2 DEF CreateTask, MembershipSound, Plans
<1>5. ASSUME NEW m \in Manager, NEW p \in PlanId, NEW s \in PlanInput,
             CreatePlan(m, p, s)
      PROVE  MembershipSound'
  <2>1. Tasks' = Tasks /\ task' = task /\ replaced' = replaced
    BY <1>5 DEF CreatePlan, Tasks
  <2>2. \A q \in Plans : q \in Plans' /\ plan'[q] = plan[q]
    BY <1>5 DEF CreatePlan, TypeOK, Plans
  <2>3. QED
    BY <2>1, <2>2 DEF MembershipSound
<1>6. ASSUME NEW w \in Tab, NEW s \in TaskInput, UpdateTask(w, s)
      PROVE  MembershipSound'
  <2> DEFINE t == taskForm[w].id
  <2>1. t \in Tasks /\ t \in TaskId /\ task[t] \in TaskRow
    BY <1>6, FreshRows DEF UpdateTask, FreshTaskForm
  <2>2. task'[t].workPlans = task[t].workPlans /\ task'[t].owner = task[t].owner
    BY <1>6, <2>1, SavedTaskFields DEF UpdateTask, TypeOK
  <2>3. \A u \in Tasks' \ {t} : u \in Tasks /\ task'[u] = task[u]
    BY <1>6 DEF UpdateTask, TypeOK, Tasks
  <2>4. QED
    BY <1>6, <2>1, <2>2, <2>3 DEF UpdateTask, MembershipSound, Plans
<1>7. ASSUME NEW w \in Tab, NEW s \in PlanInput, UpdatePlan(w, s)
      PROVE  MembershipSound'
  <2> DEFINE p == planForm[w].id
  <2>1. p \in Plans /\ p \in PlanId /\ plan[p] \in PlanRow
    BY <1>7, FreshRows DEF UpdatePlan, FreshPlanForm
  <2>2. SavedPlan(plan[p], s) \in PlanRow
    BY <1>7, <2>1, SavedPlanType DEF UpdatePlan
  <2>3. plan'[p] \in PlanRow /\ plan'[p].owner = plan[p].owner
    BY <1>7, <2>1, <2>2, SavedPlanFields DEF UpdatePlan, TypeOK
  <2>4. \A q \in Plans : q \in Plans' /\ plan'[q].owner = plan[q].owner
    BY <1>7, <2>1, <2>3, NoValueAssumption DEF UpdatePlan, Plans, TypeOK
  <2>5. task' = task /\ Tasks' = Tasks /\ replaced' = replaced
    BY <1>7 DEF UpdatePlan, Tasks
  <2>6. QED
    BY <2>4, <2>5 DEF MembershipSound
<1>8. ASSUME NEW m \in Manager, NEW t \in TaskId, DeleteTask(m, t)
      PROVE  MembershipSound'
  BY <1>8 DEF DeleteTask, MembershipSound, Tasks, Plans, TypeOK
<1>9. ASSUME NEW m \in Manager, NEW p \in PlanId, DeletePlan(m, p)
      PROVE  MembershipSound'
  <2>1. \A t \in Tasks' : t \in Tasks
    BY <1>9, StoredRows DEF DeletePlan, Tasks, TasksOf
  <2>2. \A t \in Tasks : /\ task'[t].owner = task[t].owner
                         /\ task'[t].workPlans = task[t].workPlans \ {p}
    BY <1>9, StoredRows, LeftFields DEF DeletePlan, TasksOf, TaskRow
  <2>3. \A q \in Plans \ {p} : q \in Plans' /\ plan'[q] = plan[q]
    BY <1>9 DEF DeletePlan, Plans, TypeOK
  <2>4. replaced' = replaced
    BY <1>9 DEF DeletePlan
  <2>5. QED
    BY <2>1, <2>2, <2>3, <2>4 DEF MembershipSound
<1>10. ASSUME NEW w \in Tab, NEW t \in TaskId, AddTask(w, t)
       PROVE  MembershipSound'
  <2> DEFINE p == planForm[w].id
  <2>1. p \in Plans /\ p \in PlanId /\ t \in Tasks /\ task[t] \in TaskRow
    BY <1>10, FreshRows, StoredRows DEF AddTask, FreshPlanForm
  <2>2. /\ task'[t].workPlans = task[t].workPlans \cup {p}
        /\ task'[t].owner = task[t].owner
    BY <1>10, <2>1, JoinedFields DEF AddTask, TypeOK
  <2>3. \A u \in Tasks' \ {t} : u \in Tasks /\ task'[u] = task[u]
    BY <1>10 DEF AddTask, TypeOK, Tasks
  <2>4. plan' = plan /\ Plans' = Plans
    BY <1>10 DEF AddTask, Plans
  <2>5. QED
    BY <1>10, <2>1, <2>2, <2>3, <2>4 DEF AddTask, MayJoin, MembershipSound
<1>11. ASSUME NEW m \in Manager, NEW p \in PlanId, NEW t \in TaskId,
              RemoveTask(m, p, t)
       PROVE  MembershipSound'
  <2>1. t \in Tasks /\ task[t] \in TaskRow
    BY <1>11, StoredRows DEF RemoveTask, TasksOf
  <2>2. /\ task'[t].workPlans \subseteq task[t].workPlans
        /\ task'[t].owner = task[t].owner
    BY <1>11, <2>1, LeftFields DEF RemoveTask, TypeOK
  <2>3. \A u \in Tasks' \ {t} : u \in Tasks /\ task'[u] = task[u]
    BY <1>11 DEF RemoveTask, TypeOK, Tasks
  <2>4. plan' = plan /\ Plans' = Plans /\ replaced' = replaced
    BY <1>11 DEF RemoveTask, Plans
  <2>5. QED
    BY <2>1, <2>2, <2>3, <2>4 DEF MembershipSound
<1>12. CASE UNCHANGED vars
  BY <1>12 DEF vars, MembershipSound, Tasks, Plans
<1>13. ASSUME NEW m \in Manager, NEW t \in TaskId, NEW s \in TaskInput,
              OverwriteTask(m, t, s)
       PROVE  MembershipSound'
  <2>1. t \in Tasks /\ task[t] \in TaskRow
    BY <1>13, StoredRows DEF OverwriteTask
  <2>2. task'[t].workPlans = {}
    BY <1>13, <2>1, MergedTaskRow DEF OverwriteTask, TypeOK
  <2>3. \A u \in Tasks' \ {t} : /\ u \in Tasks /\ task'[u] = task[u]
                                /\ u \in unchecked => u \in unchecked'
    BY <1>13 DEF OverwriteTask, TypeOK, Tasks
  <2>4. plan' = plan /\ Plans' = Plans /\ replaced' = replaced
    BY <1>13 DEF OverwriteTask, Plans
  <2>5. QED
    BY <2>2, <2>3, <2>4 DEF MembershipSound
<1>14. ASSUME NEW m \in Manager, NEW p \in PlanId, NEW s \in PlanInput,
              OverwritePlan(m, p, s)
       PROVE  MembershipSound'
  <2>1. p \in Plans /\ plan[p] \in PlanRow
    BY <1>14, StoredRows DEF OverwritePlan
  <2>2. plan'[p] \in PlanRow
    BY <1>14, <2>1, MergedPlanRow DEF OverwritePlan, TypeOK
  <2>3. \A q \in Plans : q \in Plans' /\ (q # p => plan'[q] = plan[q])
    BY <1>14, <2>1, <2>2, NoValueAssumption DEF OverwritePlan, Plans, TypeOK
  <2>4. /\ task' = task /\ Tasks' = Tasks /\ unchecked' = unchecked
        /\ replaced \subseteq replaced'
    BY <1>14 DEF OverwritePlan, Tasks
  <2>5. \A t \in Tasks : p \in task[t].workPlans => p \in replaced'
    BY <1>14 DEF OverwritePlan, TasksOf
  <2>6. QED
    BY <2>3, <2>4, <2>5 DEF MembershipSound
<1>15. QED
  BY <1>1, <1>2, <1>3, <1>4, <1>5, <1>6, <1>7, <1>8, <1>9, <1>10, <1>11,
     <1>12, <1>13, <1>14 DEF Next, WriteBy, OverwriteBy

\* Every request leaves the fully checked tasks suitable for their plans.
LEMMA SuitStep ==
  ASSUME IStep
  PROVE  MembersSuitTheirPlans'
<1> USE DEF IStep, IInv
<1>1. CASE Tick
  BY <1>1 DEF Tick, MembersSuitTheirPlans, Tasks, Suits
<1>2. ASSUME NEW w \in Tab, NEW t \in TaskId, ShowTask(w, t)
      PROVE  MembersSuitTheirPlans'
  BY <1>2 DEF ShowTask, MembersSuitTheirPlans, Tasks, Suits
<1>3. ASSUME NEW w \in Tab, NEW p \in PlanId, ShowPlan(w, p)
      PROVE  MembersSuitTheirPlans'
  BY <1>3 DEF ShowPlan, MembersSuitTheirPlans, Tasks, Suits
<1>4. ASSUME NEW m \in Manager, NEW t \in TaskId, NEW s \in TaskInput,
             CreateTask(m, t, s)
      PROVE  MembersSuitTheirPlans'
  <2>1. task'[t].workPlans = {}
    BY <1>4 DEF CreateTask, TypeOK
  <2>2. \A u \in Tasks' \ {t} : u \in Tasks /\ task'[u] = task[u]
    BY <1>4 DEF CreateTask, TypeOK, Tasks
  <2>3. plan' = plan /\ unchecked \subseteq unchecked' /\ replaced' = replaced
    BY <1>4 DEF CreateTask
  <2>4. QED
    BY <2>1, <2>2, <2>3 DEF MembersSuitTheirPlans, Suits
<1>5. ASSUME NEW m \in Manager, NEW p \in PlanId, NEW s \in PlanInput,
             CreatePlan(m, p, s)
      PROVE  MembersSuitTheirPlans'
  <2>1. Tasks' = Tasks /\ task' = task /\ unchecked' = unchecked /\ replaced' = replaced
    BY <1>5 DEF CreatePlan, Tasks
  <2>2. \A q \in Plans : plan'[q] = plan[q]
    BY <1>5 DEF CreatePlan, TypeOK, Plans
  <2>3. QED
    BY <2>1, <2>2 DEF MembersSuitTheirPlans, MembershipSound, Suits
<1>6. ASSUME NEW w \in Tab, NEW s \in TaskInput, UpdateTask(w, s)
      PROVE  MembersSuitTheirPlans'
  <2> DEFINE t == taskForm[w].id
  <2>1. t \in Tasks /\ t \in TaskId /\ task[t] \in TaskRow
    BY <1>6, FreshRows DEF UpdateTask, FreshTaskForm
  <2>2. /\ task'[t].workPlans = task[t].workPlans
        /\ task'[t].privacy = s.privacy
        /\ task'[t].beginning = s.beginning
        /\ task'[t].ending = s.ending
    BY <1>6, <2>1, SavedTaskFields DEF UpdateTask, TypeOK
  <2>3. plan' = plan /\ replaced' = replaced
    BY <1>6 DEF UpdateTask
  <2>4. ASSUME t \notin unchecked', NEW q \in task'[t].workPlans
        PROVE  Suits(task'[t], plan'[q])
    <3>1. s.separators = 0
      <4>1. s.separators \in 0..2
        BY BoundsAssumption DEF TaskInput
      <4>2. ~ (s.separators > 0)
        BY <1>6, <2>1, <2>4 DEF UpdateTask
      <4>3. QED
        BY <4>1, <4>2
    <3>2. Suits(s, plan[q])
      BY <1>6, <2>2, <2>4, <3>1 DEF UpdateTask, TaskAccepted
    <3>3. QED
      BY <2>2, <2>3, <3>2 DEF Suits
  <2>5. \A u \in Tasks' \ {t} : /\ u \in Tasks /\ task'[u] = task[u]
                                /\ u \in unchecked => u \in unchecked'
    BY <1>6 DEF UpdateTask, TypeOK, Tasks
  <2>6. QED
    BY <2>3, <2>4, <2>5 DEF MembersSuitTheirPlans, Suits
<1>7. ASSUME NEW w \in Tab, NEW s \in PlanInput, UpdatePlan(w, s)
      PROVE  MembersSuitTheirPlans'
  <2> DEFINE p == planForm[w].id
  <2>1. p \in Plans /\ p \in PlanId /\ plan[p] \in PlanRow
    BY <1>7, FreshRows DEF UpdatePlan, FreshPlanForm
  <2>2. /\ plan'[p].privacy = s.privacy
        /\ plan'[p].beginning = s.beginning
        /\ plan'[p].ending = s.ending
    BY <1>7, <2>1, SavedPlanFields DEF UpdatePlan, TypeOK
  <2>3. \A q \in Plans \ {p} : plan'[q] = plan[q]
    BY <1>7 DEF UpdatePlan, TypeOK, Plans
  <2>4. task' = task /\ Tasks' = Tasks /\ unchecked' = unchecked /\ replaced' = replaced
    BY <1>7 DEF UpdatePlan, Tasks
  <2>5. \A t \in TasksOf(p) : Suits(task[t], s)
    BY <1>7 DEF UpdatePlan, PlanAccepted
  <2>6. \A t \in TasksOf(p) : Suits(task'[t], plan'[p])
    BY <2>2, <2>4, <2>5 DEF Suits
  <2>7. QED
    BY <2>3, <2>4, <2>6
       DEF MembersSuitTheirPlans, MembershipSound, TasksOf, Suits
<1>8. ASSUME NEW m \in Manager, NEW t \in TaskId, DeleteTask(m, t)
      PROVE  MembersSuitTheirPlans'
  BY <1>8 DEF DeleteTask, MembersSuitTheirPlans, Tasks, TypeOK, Suits
<1>9. ASSUME NEW m \in Manager, NEW p \in PlanId, DeletePlan(m, p)
      PROVE  MembersSuitTheirPlans'
  <2>1. \A t \in Tasks' : t \in Tasks
    BY <1>9, StoredRows DEF DeletePlan, Tasks, TasksOf
  <2>2. \A t \in Tasks : /\ task'[t].privacy = task[t].privacy
                         /\ task'[t].beginning = task[t].beginning
                         /\ task'[t].ending = task[t].ending
                         /\ task'[t].workPlans = task[t].workPlans \ {p}
    BY <1>9, StoredRows, LeftFields DEF DeletePlan, TasksOf, TaskRow
  <2>3. \A q \in Plans \ {p} : plan'[q] = plan[q]
    BY <1>9 DEF DeletePlan, Plans, TypeOK
  <2>4. unchecked' = unchecked /\ replaced' = replaced
    BY <1>9 DEF DeletePlan
  <2>5. QED
    BY <2>1, <2>2, <2>3, <2>4
       DEF MembersSuitTheirPlans, MembershipSound, Suits
<1>10. ASSUME NEW w \in Tab, NEW t \in TaskId, AddTask(w, t)
       PROVE  MembersSuitTheirPlans'
  <2> DEFINE p == planForm[w].id
  <2>1. p \in Plans /\ p \in PlanId /\ t \in Tasks /\ task[t] \in TaskRow
    BY <1>10, FreshRows, StoredRows DEF AddTask, FreshPlanForm
  <2>2. /\ task'[t].workPlans = task[t].workPlans \cup {p}
        /\ task'[t].privacy = task[t].privacy
        /\ task'[t].beginning = task[t].beginning
        /\ task'[t].ending = task[t].ending
    BY <1>10, <2>1, JoinedFields DEF AddTask, TypeOK
  <2>3. \A u \in Tasks' \ {t} : u \in Tasks /\ task'[u] = task[u]
    BY <1>10 DEF AddTask, TypeOK, Tasks
  <2>4. plan' = plan /\ unchecked' = unchecked
    BY <1>10 DEF AddTask
  <2>5. QED
    BY <1>10, <2>1, <2>2, <2>3, <2>4
       DEF AddTask, MayJoin, MembersSuitTheirPlans, Suits
<1>11. ASSUME NEW m \in Manager, NEW p \in PlanId, NEW t \in TaskId,
              RemoveTask(m, p, t)
       PROVE  MembersSuitTheirPlans'
  <2>1. t \in Tasks /\ task[t] \in TaskRow
    BY <1>11, StoredRows DEF RemoveTask, TasksOf
  <2>2. /\ task'[t].workPlans \subseteq task[t].workPlans
        /\ task'[t].privacy = task[t].privacy
        /\ task'[t].beginning = task[t].beginning
        /\ task'[t].ending = task[t].ending
    BY <1>11, <2>1, LeftFields DEF RemoveTask, TypeOK
  <2>3. \A u \in Tasks' \ {t} : u \in Tasks /\ task'[u] = task[u]
    BY <1>11 DEF RemoveTask, TypeOK, Tasks
  <2>4. plan' = plan /\ unchecked' = unchecked /\ replaced' = replaced
    BY <1>11 DEF RemoveTask
  <2>5. QED
    BY <2>1, <2>2, <2>3, <2>4 DEF MembersSuitTheirPlans, Suits
<1>12. CASE UNCHANGED vars
  BY <1>12 DEF vars, MembersSuitTheirPlans, Tasks, Suits
<1>13. ASSUME NEW m \in Manager, NEW t \in TaskId, NEW s \in TaskInput,
              OverwriteTask(m, t, s)
       PROVE  MembersSuitTheirPlans'
  <2>1. t \in Tasks /\ task[t] \in TaskRow
    BY <1>13, StoredRows DEF OverwriteTask
  <2>2. task'[t].workPlans = {}
    BY <1>13, <2>1, MergedTaskRow DEF OverwriteTask, TypeOK
  <2>3. \A u \in Tasks' \ {t} : /\ u \in Tasks /\ task'[u] = task[u]
                                /\ u \in unchecked => u \in unchecked'
    BY <1>13 DEF OverwriteTask, TypeOK, Tasks
  <2>4. plan' = plan /\ Plans' = Plans /\ replaced' = replaced
    BY <1>13 DEF OverwriteTask, Plans
  <2>5. QED
    BY <2>2, <2>3, <2>4 DEF MembersSuitTheirPlans, Suits
<1>14. ASSUME NEW m \in Manager, NEW p \in PlanId, NEW s \in PlanInput,
              OverwritePlan(m, p, s)
       PROVE  MembersSuitTheirPlans'
  <2>1. p \in Plans /\ plan[p] \in PlanRow
    BY <1>14, StoredRows DEF OverwritePlan
  <2>2. plan'[p] \in PlanRow
    BY <1>14, <2>1, MergedPlanRow DEF OverwritePlan, TypeOK
  <2>3. \A q \in Plans : q \in Plans' /\ (q # p => plan'[q] = plan[q])
    BY <1>14, <2>1, <2>2, NoValueAssumption DEF OverwritePlan, Plans, TypeOK
  <2>4. /\ task' = task /\ Tasks' = Tasks /\ unchecked' = unchecked
        /\ replaced \subseteq replaced'
    BY <1>14 DEF OverwritePlan, Tasks
  <2>5. \A t \in Tasks : p \in task[t].workPlans => p \in replaced'
    BY <1>14 DEF OverwritePlan, TasksOf
  <2>6. QED
    BY <2>3, <2>4, <2>5 DEF MembersSuitTheirPlans, MembershipSound, Suits
<1>15. QED
  BY <1>1, <1>2, <1>3, <1>4, <1>5, <1>6, <1>7, <1>8, <1>9, <1>10, <1>11,
     <1>12, <1>13, <1>14 DEF Next, WriteBy, OverwriteBy

\* No request publishes a spam title.
LEMMA TitlesStep ==
  ASSUME IStep
  PROVE  PublicTitlesClean'
<1> USE DEF IStep, IInv
<1>1. CASE plan' = plan
  BY <1>1 DEF PublicTitlesClean, Plans
<1>2. ASSUME NEW m \in Manager, NEW p \in PlanId, NEW s \in PlanInput,
             CreatePlan(m, p, s)
      PROVE  PublicTitlesClean'
  <2>1. plan'[p].title = s.title /\ plan'[p].privacy = s.privacy
    BY <1>2 DEF CreatePlan, TypeOK
  <2>2. \A q \in Plans' \ {p} : q \in Plans /\ plan'[q] = plan[q]
    BY <1>2 DEF CreatePlan, TypeOK, Plans
  <2>3. QED
    BY <1>2, <2>1, <2>2 DEF CreatePlan, NewPlanAccepted, PublicTitlesClean
<1>3. ASSUME NEW w \in Tab, NEW s \in PlanInput, UpdatePlan(w, s)
      PROVE  PublicTitlesClean'
  <2> DEFINE p == planForm[w].id
  <2>1. p \in PlanId /\ plan[p] \in PlanRow
    BY <1>3, FreshRows DEF UpdatePlan
  <2>2. plan'[p].title = s.title /\ plan'[p].privacy = s.privacy
    BY <1>3, <2>1, SavedPlanFields DEF UpdatePlan, TypeOK
  <2>3. \A q \in Plans' \ {p} : q \in Plans /\ plan'[q] = plan[q]
    BY <1>3 DEF UpdatePlan, TypeOK, Plans
  <2>4. QED
    BY <1>3, <2>2, <2>3 DEF UpdatePlan, PlanAccepted, PublicTitlesClean
<1>4. ASSUME NEW m \in Manager, NEW p \in PlanId, DeletePlan(m, p)
      PROVE  PublicTitlesClean'
  BY <1>4 DEF DeletePlan, TypeOK, Plans, PublicTitlesClean
<1>5. ASSUME NEW m \in Manager, NEW p \in PlanId, NEW s \in PlanInput,
             OverwritePlan(m, p, s)
      PROVE  PublicTitlesClean'
  <2>1. plan[p] \in PlanRow
    BY <1>5, StoredRows DEF OverwritePlan
  <2>2. plan'[p].title = s.title /\ plan'[p].privacy = s.privacy
    BY <1>5, <2>1, MergedPlanRow DEF OverwritePlan, TypeOK
  <2>3. \A q \in Plans' \ {p} : q \in Plans /\ plan'[q] = plan[q]
    BY <1>5 DEF OverwritePlan, TypeOK, Plans
  <2>4. QED
    BY <1>5, <2>2, <2>3 DEF OverwritePlan, NewPlanAccepted, PublicTitlesClean
<1>6. QED
  BY <1>1, <1>2, <1>3, <1>4, <1>5
     DEF Next, WriteBy, OverwriteBy, vars, Tick, ShowTask, ShowPlan,
         CreateTask, UpdateTask, DeleteTask, AddTask, RemoveTask, OverwriteTask

-----------------------------------------------------------------------------
(***************************************************************************)
(* Pages and versions: a row only ever moves forward.                      *)
(***************************************************************************)

TaskRowsAdvance ==
  \A t \in TaskId : task[t] # Unborn =>
    /\ task'[t] # Unborn
    /\ t \in Tasks' => /\ t \in Tasks
                       /\ \/ task'[t] = task[t]
                          \/ task'[t].version = task[t].version + 1

PlanRowsAdvance ==
  \A p \in PlanId : plan[p] # Unborn =>
    /\ plan'[p] # Unborn
    /\ p \in Plans' => /\ p \in Plans
                       /\ \/ plan'[p] = plan[p]
                          \/ plan'[p].version = plan[p].version + 1

\* No step turns a row back: it is unchanged, deleted, or at the next version.
LEMMA RowsAdvance ==
  ASSUME IStep
  PROVE  TaskRowsAdvance /\ PlanRowsAdvance
<1> USE DEF IStep, IInv
<1>1. TaskRowsAdvance
  <2>1. CASE task' = task
    BY <2>1 DEF TaskRowsAdvance, Tasks
  <2>2. ASSUME NEW m \in Manager, NEW t \in TaskId, NEW s \in TaskInput,
               CreateTask(m, t, s)
        PROVE  TaskRowsAdvance
    BY <2>2 DEF CreateTask, TypeOK, TaskRowsAdvance, Tasks
  <2>3. ASSUME NEW w \in Tab, NEW s \in TaskInput, UpdateTask(w, s)
        PROVE  TaskRowsAdvance
    <3> DEFINE t == taskForm[w].id
               row == SavedTask(task[t], s)
    <3>1. t \in Tasks /\ t \in TaskId /\ task[t] \in TaskRow
      BY <2>3, FreshRows DEF UpdateTask, FreshTaskForm
    <3>2. row \in TaskRow
      BY <2>3, <3>1, SavedTaskType DEF UpdateTask
    <3>3. row = task[t] \/ row.version = task[t].version + 1
      BY <3>1, SavedTaskSame, SavedTaskFields
    <3>4. task' = [task EXCEPT ![t] = row]
      BY <2>3 DEF UpdateTask
    <3> HIDE DEF t, row
    <3>5. QED
      BY <3>1, <3>2, <3>3, <3>4, NoValueAssumption
         DEF TaskRowsAdvance, TypeOK, Tasks
  <2>4. ASSUME NEW m \in Manager, NEW t \in TaskId, DeleteTask(m, t)
        PROVE  TaskRowsAdvance
    BY <2>4, NoValueAssumption DEF DeleteTask, TypeOK, TaskRowsAdvance, Tasks
  <2>5. ASSUME NEW m \in Manager, NEW p \in PlanId, DeletePlan(m, p)
        PROVE  TaskRowsAdvance
    <3>1. \A t \in TasksOf(p) : /\ Left(task[t], p) \in TaskRow
                                /\ Left(task[t], p).version = task[t].version + 1
      BY <2>5, StoredRows, JoinedLeftType, LeftFields DEF DeletePlan, TasksOf
    <3>2. \A t \in TaskId :
            task'[t] = IF t \in TasksOf(p) THEN Left(task[t], p) ELSE task[t]
      BY <2>5 DEF DeletePlan
    <3>3. QED
      BY <3>1, <3>2, NoValueAssumption DEF TaskRowsAdvance, Tasks, TasksOf
  <2>6. ASSUME NEW w \in Tab, NEW t \in TaskId, AddTask(w, t)
        PROVE  TaskRowsAdvance
    <3> DEFINE row == Joined(task[t], planForm[w].id)
    <3>1. t \in Tasks /\ row \in TaskRow /\ row.version = task[t].version + 1
      BY <2>6, StoredRows, FreshRows, JoinedLeftType, JoinedFields DEF AddTask
    <3>2. task' = [task EXCEPT ![t] = row]
      BY <2>6 DEF AddTask
    <3> HIDE DEF row
    <3>3. QED
      BY <3>1, <3>2, NoValueAssumption DEF TaskRowsAdvance, TypeOK, Tasks
  <2>7. ASSUME NEW m \in Manager, NEW p \in PlanId, NEW t \in TaskId,
               RemoveTask(m, p, t)
        PROVE  TaskRowsAdvance
    <3> DEFINE row == Left(task[t], p)
    <3>1. t \in Tasks /\ row \in TaskRow /\ row.version = task[t].version + 1
      BY <2>7, StoredRows, JoinedLeftType, LeftFields DEF RemoveTask, TasksOf
    <3>2. task' = [task EXCEPT ![t] = row]
      BY <2>7 DEF RemoveTask
    <3> HIDE DEF row
    <3>3. QED
      BY <3>1, <3>2, NoValueAssumption DEF TaskRowsAdvance, TypeOK, Tasks
  <2>8. ASSUME NEW m \in Manager, NEW t \in TaskId, NEW s \in TaskInput,
               OverwriteTask(m, t, s)
        PROVE  TaskRowsAdvance
    <3> DEFINE row == MergedTask(task[t], m, s)
    <3>1. t \in Tasks /\ task[t] \in TaskRow
      BY <2>8, StoredRows DEF OverwriteTask
    <3>2. row \in TaskRow /\ (row = task[t] \/ row.version = task[t].version + 1)
      BY <2>8, <3>1, MergedTaskRow DEF OverwriteTask
    <3>3. task' = [task EXCEPT ![t] = row]
      BY <2>8 DEF OverwriteTask
    <3> HIDE DEF row
    <3>4. QED
      BY <3>1, <3>2, <3>3, NoValueAssumption DEF TaskRowsAdvance, TypeOK, Tasks
  <2>9. QED
    BY <2>1, <2>2, <2>3, <2>4, <2>5, <2>6, <2>7, <2>8
       DEF Next, WriteBy, OverwriteBy, vars, Tick, ShowTask, ShowPlan,
           CreatePlan, UpdatePlan, OverwritePlan
<1>2. PlanRowsAdvance
  <2>1. CASE plan' = plan
    BY <2>1 DEF PlanRowsAdvance, Plans
  <2>2. ASSUME NEW m \in Manager, NEW p \in PlanId, NEW s \in PlanInput,
               CreatePlan(m, p, s)
        PROVE  PlanRowsAdvance
    BY <2>2 DEF CreatePlan, TypeOK, PlanRowsAdvance, Plans
  <2>3. ASSUME NEW w \in Tab, NEW s \in PlanInput, UpdatePlan(w, s)
        PROVE  PlanRowsAdvance
    <3> DEFINE p == planForm[w].id
               row == SavedPlan(plan[p], s)
    <3>1. p \in Plans /\ p \in PlanId /\ plan[p] \in PlanRow
      BY <2>3, FreshRows DEF UpdatePlan, FreshPlanForm
    <3>2. row \in PlanRow
      BY <2>3, <3>1, SavedPlanType DEF UpdatePlan
    <3>3. row = plan[p] \/ row.version = plan[p].version + 1
      BY <3>1, SavedPlanSame, SavedPlanFields
    <3>4. plan' = [plan EXCEPT ![p] = row]
      BY <2>3 DEF UpdatePlan
    <3> HIDE DEF p, row
    <3>5. QED
      BY <3>1, <3>2, <3>3, <3>4, NoValueAssumption
         DEF PlanRowsAdvance, TypeOK, Plans
  <2>4. ASSUME NEW m \in Manager, NEW p \in PlanId, DeletePlan(m, p)
        PROVE  PlanRowsAdvance
    BY <2>4, NoValueAssumption DEF DeletePlan, TypeOK, PlanRowsAdvance, Plans
  <2>5. ASSUME NEW m \in Manager, NEW p \in PlanId, NEW s \in PlanInput,
               OverwritePlan(m, p, s)
        PROVE  PlanRowsAdvance
    <3> DEFINE row == MergedPlan(plan[p], m, s)
    <3>1. p \in Plans /\ plan[p] \in PlanRow
      BY <2>5, StoredRows DEF OverwritePlan
    <3>2. row \in PlanRow /\ (row = plan[p] \/ row.version = plan[p].version + 1)
      BY <2>5, <3>1, MergedPlanRow DEF OverwritePlan
    <3>3. plan' = [plan EXCEPT ![p] = row]
      BY <2>5 DEF OverwritePlan
    <3> HIDE DEF row
    <3>4. QED
      BY <3>1, <3>2, <3>3, NoValueAssumption DEF PlanRowsAdvance, TypeOK, Plans
  <2>6. QED
    BY <2>1, <2>2, <2>3, <2>4, <2>5
       DEF Next, WriteBy, OverwriteBy, vars, Tick, ShowTask, ShowPlan,
           CreateTask, UpdateTask, DeleteTask, AddTask, RemoveTask, OverwriteTask
<1>3. QED
  BY <1>1, <1>2

\* Pages stay behind their rows: old pages because rows advance, a new page
\* because it shows the row as it is.
LEMMA PagesStep ==
  ASSUME IStep
  PROVE  VersionIdentifiesRow'
<1> USE DEF IStep, IInv
<1>1. TaskRowsAdvance /\ PlanRowsAdvance
  BY RowsAdvance
<1> SUFFICES ASSUME NEW v \in Tab
             PROVE  /\ taskForm'[v] # NoForm =>
                         /\ task'[taskForm'[v].id] # Unborn
                         /\ taskForm'[v].id \in Tasks' =>
                              taskForm'[v].seen.version
                                =< task'[taskForm'[v].id].version
                    /\ FreshTaskForm(v)' =>
                         taskForm'[v].seen = task'[taskForm'[v].id]
                    /\ planForm'[v] # NoForm =>
                         /\ plan'[planForm'[v].id] # Unborn
                         /\ planForm'[v].id \in Plans' =>
                              planForm'[v].seen.version
                                =< plan'[planForm'[v].id].version
                    /\ FreshPlanForm(v)' =>
                         planForm'[v].seen = plan'[planForm'[v].id]
  BY DEF VersionIdentifiesRow
<1>2. CASE taskForm'[v] = taskForm[v] /\ planForm'[v] = planForm[v]
  <2>1. /\ taskForm[v] # NoForm => /\ taskForm[v].id \in TaskId
                                   /\ taskForm[v].seen \in TaskRow
        /\ planForm[v] # NoForm => /\ planForm[v].id \in PlanId
                                   /\ planForm[v].seen \in PlanRow
    BY DEF TypeOK, TaskForm, PlanForm
  <2>2. \A row \in TaskRow \cup PlanRow : row.version \in Nat
    BY BoundsAssumption DEF TaskRow, PlanRow, Version
  <2>3. taskForm[v] # NoForm =>
          /\ task'[taskForm[v].id] # Unborn
          /\ taskForm[v].id \in Tasks' =>
               /\ taskForm[v].seen.version =< task'[taskForm[v].id].version
               /\ taskForm[v].seen.version = task'[taskForm[v].id].version =>
                    taskForm[v].seen = task'[taskForm[v].id]
    BY <1>1, <2>1, <2>2, StoredRows
       DEF TaskRowsAdvance, VersionIdentifiesRow, FreshTaskForm
  <2>4. planForm[v] # NoForm =>
          /\ plan'[planForm[v].id] # Unborn
          /\ planForm[v].id \in Plans' =>
               /\ planForm[v].seen.version =< plan'[planForm[v].id].version
               /\ planForm[v].seen.version = plan'[planForm[v].id].version =>
                    planForm[v].seen = plan'[planForm[v].id]
    BY <1>1, <2>1, <2>2, StoredRows
       DEF PlanRowsAdvance, VersionIdentifiesRow, FreshPlanForm
  <2>5. QED
    BY <1>2, <2>3, <2>4 DEF FreshTaskForm, FreshPlanForm
<1>3. ASSUME NEW w \in Tab, NEW t \in TaskId, ShowTask(w, t)
      PROVE  VersionIdentifiesRow'
  <2>1. /\ task' = task /\ plan' = plan /\ planForm' = planForm
        /\ Tasks' = Tasks /\ Plans' = Plans
    BY <1>3 DEF ShowTask, Tasks, Plans
  <2>2. task[t] # Unborn /\ task[t] \in TaskRow /\ task[t].version \in Nat
    BY <1>3, StoredRows, BoundsAssumption DEF ShowTask, Tasks, TaskRow, Version
  <2>3. taskForm' = [taskForm EXCEPT ![w] = [id |-> t, seen |-> task[t]]]
    BY <1>3 DEF ShowTask
  <2>4. QED
    BY <2>1, <2>2, <2>3
       DEF VersionIdentifiesRow, FreshTaskForm, FreshPlanForm, TypeOK
<1>4. ASSUME NEW w \in Tab, NEW p \in PlanId, ShowPlan(w, p)
      PROVE  VersionIdentifiesRow'
  <2>1. /\ task' = task /\ plan' = plan /\ taskForm' = taskForm
        /\ Tasks' = Tasks /\ Plans' = Plans
    BY <1>4 DEF ShowPlan, Tasks, Plans
  <2>2. plan[p] # Unborn /\ plan[p] \in PlanRow /\ plan[p].version \in Nat
    BY <1>4, StoredRows, BoundsAssumption DEF ShowPlan, Plans, PlanRow, Version
  <2>3. planForm' = [planForm EXCEPT ![w] = [id |-> p, seen |-> plan[p]]]
    BY <1>4 DEF ShowPlan
  <2>4. QED
    BY <2>1, <2>2, <2>3
       DEF VersionIdentifiesRow, FreshTaskForm, FreshPlanForm, TypeOK
<1>5. QED
  BY <1>2, <1>3, <1>4
     DEF Next, WriteBy, OverwriteBy, vars, Tick, CreateTask, CreatePlan,
         UpdateTask, UpdatePlan, DeleteTask, DeletePlan, AddTask, RemoveTask,
         OverwriteTask, OverwritePlan, VersionIdentifiesRow

-----------------------------------------------------------------------------

\* IInv is an inductive invariant.
THEOREM Inductive == Spec => []IInv
<1>1. Init => IInv
  BY BoundsAssumption, NoValueAssumption
     DEF Init, IInv, TypeOK, Instant, MembershipSound, MembersSuitTheirPlans,
         PublicTitlesClean, VersionIdentifiesRow, Tasks, Plans,
         FreshTaskForm, FreshPlanForm
<1>2. TypeOK /\ TypeOK' /\ IInv /\ [Next]_vars => IInv'
  BY MembershipStep, SuitStep, TitlesStep, PagesStep DEF IStep, IInv
<1>3. QED
  BY <1>1, <1>2, TypeCorrect, PTL DEF Spec

\* A task is only ever assigned to stored plans, and to its own manager's
\* unless a create has overwritten the plan.
THEOREM MembershipIsSound == Spec => []MembershipSound
  BY Inductive, PTL DEF IInv

\* Public plans hold public tasks only, and tasks lie inside the windows of
\* their plans, unless validate gave up on the task's last update or a create
\* has overwritten the plan.
THEOREM MembersSuit == Spec => []MembersSuitTheirPlans
  BY Inductive, PTL DEF IInv

\* A public plan never has a spam title.
THEOREM PublishedTitlesAreClean == Spec => []PublicTitlesClean
  BY Inductive, PTL DEF IInv

\* A page with the current version shows the current row.
THEOREM VersionsIdentifyRows == Spec => []VersionIdentifiesRow
  BY Inductive, PTL DEF IInv

\* An update replaces exactly the row that its author was shown.
THEOREM UpdatesSeeWhatTheyReplace == Spec => NoLostUpdate
<1>1. IInv /\ [Next]_vars =>
        [\A w \in Tab :
           /\ (\E s \in TaskInput : UpdateTask(w, s)) =>
                taskForm[w].seen = task[taskForm[w].id]
           /\ (\E s \in PlanInput : UpdatePlan(w, s)) =>
                planForm[w].seen = plan[planForm[w].id]]_vars
  BY DEF IInv, VersionIdentifiesRow, UpdateTask, UpdatePlan
<1>2. QED
  BY <1>1, Inductive, PTL DEF Spec, NoLostUpdate

-----------------------------------------------------------------------------

\* The tasks a request of manager m may change.
MayChange(m, t) == task[t].owner = m \/ task[t].workPlans \cap replaced # {}

\* The tasks and plans that a request of manager m changes belong to m, but for
\* the tasks of a plan that a create has overwritten.
LEMMA OwnRows ==
  ASSUME IInv, NEW m \in Manager, WriteBy(m)
  PROVE  /\ \A t \in Tasks : task'[t] # task[t] => MayChange(m, t)
         /\ \A p \in Plans : plan'[p] # plan[p] => plan[p].owner = m
<1> USE DEF IInv
<1>1. ASSUME NEW t \in TaskId, NEW s \in TaskInput, CreateTask(m, t, s)
      PROVE  /\ \A u \in Tasks : task'[u] = task[u]
             /\ plan' = plan
  BY <1>1 DEF CreateTask, Tasks, TypeOK
<1>2. ASSUME NEW p \in PlanId, NEW s \in PlanInput, CreatePlan(m, p, s)
      PROVE  /\ task' = task
             /\ \A q \in Plans : plan'[q] = plan[q]
  BY <1>2 DEF CreatePlan, Plans, TypeOK
<1>3. ASSUME NEW t \in TaskId, DeleteTask(m, t)
      PROVE  /\ \A u \in Tasks : task'[u] # task[u] => MayChange(m, u)
             /\ plan' = plan
  BY <1>3 DEF DeleteTask, Tasks, TypeOK, MayChange
<1>4. ASSUME NEW p \in PlanId, DeletePlan(m, p)
      PROVE  /\ \A u \in Tasks : task'[u] # task[u] => MayChange(m, u)
             /\ \A q \in Plans : plan'[q] # plan[q] => plan[q].owner = m
  <2>1. \A u \in TasksOf(p) : MayChange(m, u)
    BY <1>4 DEF DeletePlan, TasksOf, MembershipSound, MayChange
  <2>2. QED
    BY <1>4, <2>1 DEF DeletePlan, Tasks, Plans, TypeOK
<1>5. ASSUME NEW p \in PlanId, NEW t \in TaskId, RemoveTask(m, p, t)
      PROVE  /\ \A u \in Tasks : task'[u] # task[u] => MayChange(m, u)
             /\ plan' = plan
  <2>1. MayChange(m, t)
    BY <1>5 DEF RemoveTask, TasksOf, MembershipSound, MayChange
  <2>2. QED
    BY <1>5, <2>1 DEF RemoveTask, Tasks, TypeOK
<1>6. ASSUME NEW w \in Tab, ManagerOf[w] = m, NEW s \in TaskInput,
             UpdateTask(w, s)
      PROVE  /\ \A u \in Tasks : task'[u] # task[u] => MayChange(m, u)
             /\ plan' = plan
  BY <1>6 DEF UpdateTask, Tasks, TypeOK, MayChange
<1>7. ASSUME NEW w \in Tab, ManagerOf[w] = m, NEW s \in PlanInput,
             UpdatePlan(w, s)
      PROVE  /\ task' = task
             /\ \A q \in Plans : plan'[q] # plan[q] => plan[q].owner = m
  BY <1>7 DEF UpdatePlan, Plans, TypeOK
<1>8. ASSUME NEW w \in Tab, ManagerOf[w] = m, NEW t \in TaskId, AddTask(w, t)
      PROVE  /\ \A u \in Tasks : task'[u] # task[u] => MayChange(m, u)
             /\ plan' = plan
  BY <1>8 DEF AddTask, MayJoin, Tasks, TypeOK, MayChange
<1>9. QED
  BY <1>1, <1>2, <1>3, <1>4, <1>5, <1>6, <1>7, <1>8 DEF WriteBy

\* No request that a form of the application sends changes a plan of another
\* manager, nor a task of another manager unless a create has overwritten one
\* of its plans.
THEOREM OthersRowsAreSafe == Spec => OnlyOwnRowsChange
<1>1. IInv /\ [Next]_vars =>
        [\A m \in Manager :
           \/ \E t \in Tasks : /\ task'[t] # task[t] /\ task[t].owner # m
                              /\ task[t].workPlans \cap replaced = {}
           \/ \E p \in Plans : plan'[p] # plan[p] /\ plan[p].owner # m
           => ~WriteBy(m)]_vars
  BY OwnRows DEF MayChange
<1>2. QED
  BY <1>1, Inductive, PTL DEF Spec, OnlyOwnRowsChange

\* What the page of a plan offers, found by queries, is what the add request
\* accepts.
THEOREM OffersAreAccepted == Spec => []OffersAreAcceptable
<1>1. TypeOK => OffersAreAcceptable
  <2> SUFFICES ASSUME TypeOK, NEW p \in Plans, NEW t \in Tasks
               PROVE  t \in Offered(p) <=> MayJoin(t, p)
    BY DEF OffersAreAcceptable, Offered
  <2>1. /\ task[t].beginning \in Int /\ task[t].ending \in Int
        /\ plan[p].beginning \in Int /\ plan[p].ending \in Int
    BY StoredRows, BoundsAssumption DEF TaskRow, PlanRow, Instant
  <2>2. QED BY <2>1 DEF Offered, MayJoin, Suits
<1>2. QED BY <1>1, TypeCorrect, PTL
=============================================================================
