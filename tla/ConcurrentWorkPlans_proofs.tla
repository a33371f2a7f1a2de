----------------------- MODULE ConcurrentWorkPlans_proofs -----------------------
(***************************************************************************)
(* Theorems about the overlapping transactions of the two controllers, for *)
(* every number of managers, tasks and plans and every bound.              *)
(***************************************************************************)
EXTENDS ConcurrentWorkPlans, TLAPS

TaskRows == DB!TaskRow \cup {Unborn, Deleted}
PlanRows == DB!PlanRow \cup {Unborn, Deleted}

\* A row is stored when it is a record of its table.
LEMMA StoredTask ==
  ASSUME NEW row \in TaskRows
  PROVE  /\ Stored(row) <=> row \in DB!TaskRow
         /\ Stored(row) => /\ row.owner \in Manager
                           /\ row.workPlans \subseteq PlanId
                           /\ row.version \in 0 .. MaxVersion
<1>1. Stored(row) <=> row \in DB!TaskRow
  BY ValuesAssumption DEF TaskRows, Stored
<1>2. row \in DB!TaskRow => /\ row.owner \in Manager
                            /\ row.workPlans \subseteq PlanId
                            /\ row.version \in 0 .. MaxVersion
  BY DEF DB!TaskRow, DB!Version
<1>3. QED BY <1>1, <1>2

LEMMA StoredPlan ==
  ASSUME NEW row \in PlanRows
  PROVE  /\ Stored(row) <=> row \in DB!PlanRow
         /\ Stored(row) => row.owner \in Manager /\ row.version \in 0 .. MaxVersion
<1>1. Stored(row) <=> row \in DB!PlanRow
  BY ValuesAssumption DEF PlanRows, Stored
<1>2. row \in DB!PlanRow => row.owner \in Manager /\ row.version \in 0 .. MaxVersion
  BY DEF DB!PlanRow, DB!Version
<1>3. QED BY <1>1, <1>2

\* The tables, row by row.
LEMMA TableFacts ==
  ASSUME NEW table
  PROVE  /\ table \in TaskTable =>
              /\ DOMAIN table = TaskId
              /\ \A t \in TaskId : table[t] \in TaskRows
         /\ table \in PlanTable =>
              /\ DOMAIN table = PlanId
              /\ \A p \in PlanId : table[p] \in PlanRows
BY DEF TaskTable, PlanTable, TaskRows, PlanRows

\* An open transaction is made of four tables.
LEMMA TransactionFacts ==
  ASSUME TypeOK, NEW c \in Controller, tx[c] # Idle
  PROVE  /\ tx[c] \in Transaction
         /\ tx[c].task \in TaskTable /\ tx[c].newTask \in TaskTable
         /\ tx[c].plan \in PlanTable /\ tx[c].newPlan \in PlanTable
         /\ \A t \in TaskId : /\ tx[c].task[t] \in TaskRows
                              /\ tx[c].newTask[t] \in TaskRows
                              /\ task[t] \in TaskRows
         /\ \A p \in PlanId : /\ tx[c].plan[p] \in PlanRows
                              /\ tx[c].newPlan[p] \in PlanRows
                              /\ plan[p] \in PlanRows
<1>1. tx[c] \in Transaction
  BY DEF TypeOK
<1>2. /\ tx[c].task \in TaskTable /\ tx[c].newTask \in TaskTable
      /\ tx[c].plan \in PlanTable /\ tx[c].newPlan \in PlanTable
  BY <1>1 DEF Transaction
<1>3. QED BY <1>1, <1>2, TableFacts DEF TypeOK

-----------------------------------------------------------------------------
(***************************************************************************)
(* Rows and versions.                                                      *)
(***************************************************************************)

\* A stored row has a natural version.
Versioned(row) == Stored(row) => row.version \in Nat

LEMMA RowsAreVersioned ==
  /\ \A row \in TaskRows : Versioned(row)
  /\ \A row \in PlanRows : Versioned(row)
BY StoredTask, StoredPlan, ValuesAssumption DEF Versioned

\* A row at the version that was read is the row that was read.
LEMMA UnmovedIsSame ==
  ASSUME NEW row, NEW read, Versioned(row), Versioned(read),
         Follows(row, read), Unmoved(row, read)
  PROVE  row = read
BY DEF Versioned, Follows, Unmoved, Stored

\* What a transaction makes of a row follows all that the row has followed.
LEMMA FollowsStep ==
  ASSUME NEW new, NEW row, NEW read,
         Versioned(new), Versioned(row), Versioned(read),
         Advances(new, row), Follows(row, read)
  PROVE  Follows(new, read)
BY ValuesAssumption DEF Versioned, Follows, Advances, Stored

-----------------------------------------------------------------------------
(***************************************************************************)
(* The properties, pair by pair.                                           *)
(***************************************************************************)

SoundPairs ==
  \A t \in TaskId : \A p \in Assigned(task[t]) :
    Stored(plan[p]) /\ plan[p].owner = task[t].owner

SkewedPairs ==
  \A t \in TaskId : \A p \in Assigned(task[t]) :
    ~DB!Suits(task[t], plan[p]) => <<t, p>> \in skewed

LEMMA Pairs ==
  /\ TypeOK => (NoDanglingAssignment <=> SoundPairs)
  /\ TypeOK' => (NoDanglingAssignment' <=> SoundPairs')
  /\ OnlySkewBreaksTheRules <=> SkewedPairs
  /\ OnlySkewBreaksTheRules' <=> SkewedPairs'
<1>1. TypeOK => (NoDanglingAssignment <=> SoundPairs)
  <2>1. TypeOK => \A t \in TaskId : Assigned(task[t]) \subseteq PlanId
    BY TableFacts, StoredTask DEF TypeOK, Assigned
  <2>2. QED
    BY <2>1 DEF NoDanglingAssignment, DB!MembershipSound, DB!Tasks, DB!Plans,
                SoundPairs, Assigned, Stored
<1>2. TypeOK' => (NoDanglingAssignment' <=> SoundPairs')
  <2>1. TypeOK' => \A t \in TaskId : Assigned(task'[t]) \subseteq PlanId
    BY TableFacts, StoredTask DEF TypeOK, Assigned
  <2>2. QED
    BY <2>1 DEF NoDanglingAssignment, DB!MembershipSound, DB!Tasks, DB!Plans,
                SoundPairs, Assigned, Stored
<1>3. OnlySkewBreaksTheRules <=> SkewedPairs
  BY DEF OnlySkewBreaksTheRules, SkewedPairs, DB!Tasks, Assigned, Stored
<1>4. OnlySkewBreaksTheRules' <=> SkewedPairs'
  BY DEF OnlySkewBreaksTheRules, SkewedPairs, DB!Tasks, Assigned, Stored
<1>5. QED BY <1>1, <1>2, <1>3, <1>4

-----------------------------------------------------------------------------
(***************************************************************************)
(* The second half of a request.                                           *)
(***************************************************************************)

\* The version column alone makes a commit replace what its request has read.
LEMMA CommitReads ==
  ASSUME IInv, NEW c \in Controller, Commit(c)
  PROVE  /\ \A t \in WrittenTasks(c) : task[t] = tx[c].task[t]
         /\ \A p \in WrittenPlans(c) : plan[p] = tx[c].plan[p]
<1>1. tx[c] # Idle /\ TypeOK
  BY DEF Commit, IInv
<1>2. /\ \A t \in TaskId : Follows(task[t], tx[c].task[t])
      /\ \A p \in PlanId : Follows(plan[p], tx[c].plan[p])
  BY <1>1 DEF IInv, Snapshots
<1>3. /\ \A t \in TaskId : Versioned(task[t]) /\ Versioned(tx[c].task[t])
      /\ \A p \in PlanId : Versioned(plan[p]) /\ Versioned(tx[c].plan[p])
  BY <1>1, TransactionFacts, RowsAreVersioned
<1>4. /\ \A t \in WrittenTasks(c) : t \in TaskId /\ Unmoved(task[t], tx[c].task[t])
      /\ \A p \in WrittenPlans(c) : p \in PlanId /\ Unmoved(plan[p], tx[c].plan[p])
  BY DEF Commit, WrittenTasks, WrittenPlans
<1>5. QED BY <1>2, <1>3, <1>4, UnmovedIsSame

\* Row by row, a commit stores what the transaction made of what is stored.
LEMMA CommitRows ==
  ASSUME IInv, NEW c \in Controller, Commit(c)
  PROVE  /\ TypeOK'
         /\ \A t \in TaskId :
              /\ Advances(task'[t], task[t])
              /\ \/ task'[t] = task[t] /\ tx[c].newTask[t] = tx[c].task[t]
                 \/ /\ task[t] = tx[c].task[t] /\ task'[t] = tx[c].newTask[t]
                    /\ t \in WrittenTasks(c)
         /\ \A p \in PlanId :
              /\ Advances(plan'[p], plan[p])
              /\ \/ plan'[p] = plan[p] /\ tx[c].newPlan[p] = tx[c].plan[p]
                 \/ /\ plan[p] = tx[c].plan[p] /\ plan'[p] = tx[c].newPlan[p]
                    /\ p \in WrittenPlans(c)
<1>1. tx[c] # Idle /\ TypeOK
  BY DEF Commit, IInv
<1>2. /\ \A t \in TaskId : task'[t] = IF t \in WrittenTasks(c)
                                      THEN tx[c].newTask[t] ELSE task[t]
      /\ \A p \in PlanId : plan'[p] = IF p \in WrittenPlans(c)
                                      THEN tx[c].newPlan[p] ELSE plan[p]
  BY DEF Commit
<1>3. /\ \A t \in TaskId : Advances(tx[c].newTask[t], tx[c].task[t])
      /\ \A p \in PlanId : Advances(tx[c].newPlan[p], tx[c].plan[p])
  BY <1>1 DEF IInv, Snapshots, Consistent
<1>4. TypeOK'
  <2>1. task' \in TaskTable /\ plan' \in PlanTable
    BY <1>1, TransactionFacts DEF Commit, TaskTable, PlanTable, TaskRows, PlanRows
  <2>2. tx' \in [Controller -> Transaction \cup {Idle}]
    BY <1>1 DEF Commit, TypeOK
  <2>3. skewed' \subseteq TaskId \X PlanId
    BY <1>1 DEF Commit, TypeOK, Overlooked
  <2>4. QED BY <2>1, <2>2, <2>3 DEF TypeOK
<1>5. \A t \in TaskId :
        /\ Advances(task'[t], task[t])
        /\ \/ task'[t] = task[t] /\ tx[c].newTask[t] = tx[c].task[t]
           \/ /\ task[t] = tx[c].task[t] /\ task'[t] = tx[c].newTask[t]
              /\ t \in WrittenTasks(c)
  <2> SUFFICES ASSUME NEW t \in TaskId
               PROVE  /\ Advances(task'[t], task[t])
                      /\ \/ /\ task'[t] = task[t]
                            /\ tx[c].newTask[t] = tx[c].task[t]
                         \/ /\ task[t] = tx[c].task[t]
                            /\ task'[t] = tx[c].newTask[t]
                            /\ t \in WrittenTasks(c)
    OBVIOUS
  <2>1. CASE t \in WrittenTasks(c)
    BY <1>2, <1>3, <2>1, CommitReads
  <2>2. CASE t \notin WrittenTasks(c)
    BY <1>2, <2>2 DEF WrittenTasks, Advances
  <2>3. QED BY <2>1, <2>2
<1>6. \A p \in PlanId :
        /\ Advances(plan'[p], plan[p])
        /\ \/ plan'[p] = plan[p] /\ tx[c].newPlan[p] = tx[c].plan[p]
           \/ /\ plan[p] = tx[c].plan[p] /\ plan'[p] = tx[c].newPlan[p]
              /\ p \in WrittenPlans(c)
  <2> SUFFICES ASSUME NEW p \in PlanId
               PROVE  /\ Advances(plan'[p], plan[p])
                      /\ \/ /\ plan'[p] = plan[p]
                            /\ tx[c].newPlan[p] = tx[c].plan[p]
                         \/ /\ plan[p] = tx[c].plan[p]
                            /\ plan'[p] = tx[c].newPlan[p]
                            /\ p \in WrittenPlans(c)
    OBVIOUS
  <2>1. CASE p \in WrittenPlans(c)
    BY <1>2, <1>3, <2>1, CommitReads
  <2>2. CASE p \notin WrittenPlans(c)
    BY <1>2, <2>2 DEF WrittenPlans, Advances
  <2>3. QED BY <2>1, <2>2
<1>7. QED BY <1>4, <1>5, <1>6

\* The other controller's snapshot grows older.
LEMMA CommitAges ==
  ASSUME IInv, NEW c \in Controller, Commit(c)
  PROVE  Snapshots'
<1> SUFFICES ASSUME NEW d \in Controller, tx'[d] # Idle
             PROVE  /\ Consistent(tx'[d])
                    /\ \A t \in TaskId : Follows(task'[t], tx'[d].task[t])
                    /\ \A p \in PlanId : Follows(plan'[p], tx'[d].plan[p])
  BY DEF Snapshots, Consistent, Validated, Advances, Follows
<1>1. tx'[d] = tx[d] /\ tx[d] # Idle
  BY DEF Commit, IInv, TypeOK
<1>2. /\ TypeOK /\ TypeOK'
      /\ \A t \in TaskId : Advances(task'[t], task[t])
      /\ \A p \in PlanId : Advances(plan'[p], plan[p])
  BY CommitRows DEF IInv
<1>3. /\ Consistent(tx[d])
      /\ \A t \in TaskId : Follows(task[t], tx[d].task[t])
      /\ \A p \in PlanId : Follows(plan[p], tx[d].plan[p])
  BY <1>1 DEF IInv, Snapshots
<1>4. /\ \A t \in TaskId : /\ Versioned(task[t]) /\ Versioned(task'[t])
                           /\ Versioned(tx[d].task[t])
      /\ \A p \in PlanId : /\ Versioned(plan[p]) /\ Versioned(plan'[p])
                           /\ Versioned(tx[d].plan[p])
  <2>1. /\ \A t \in TaskId : task'[t] \in TaskRows
        /\ \A p \in PlanId : plan'[p] \in PlanRows
    BY <1>2, TableFacts DEF TypeOK
  <2>2. QED BY <1>1, <1>2, <2>1, TransactionFacts, RowsAreVersioned
<1>5. QED BY <1>1, <1>2, <1>3, <1>4, FollowsStep

\* The rows of the task controller are never assigned to a plan by a commit of
\* its own, and their owner stays.
LEMMA CommitOfTask ==
  ASSUME IInv, Commit(TaskOf)
  PROVE  /\ plan' = plan
         /\ \A t \in TaskId :
              /\ Assigned(task'[t]) \subseteq Assigned(task[t])
              /\ Assigned(task'[t]) # {} => task'[t].owner = task[t].owner
<1>1. TaskOf \in Controller /\ TypeOK /\ tx[TaskOf] # Idle
  BY ControllerAssumption DEF Commit, IInv
<1>2. AssignsNothing(tx[TaskOf])
  BY <1>1 DEF IInv
<1>3. plan' = plan
  <2>1. WrittenPlans(TaskOf) = {}
    BY <1>2 DEF WrittenPlans, AssignsNothing
  <2>2. QED BY <1>1, <2>1, TableFacts DEF Commit, TypeOK, PlanTable
<1>4. \A t \in TaskId : Assigned(task'[t]) \subseteq Assigned(task[t])
  BY <1>1, <1>2, CommitRows DEF AssignsNothing
<1>5. \A t \in TaskId : Advances(task'[t], task[t])
  BY <1>1, CommitRows
<1>6. \A t \in TaskId : Assigned(task'[t]) # {} => task'[t].owner = task[t].owner
  BY <1>4, <1>5 DEF Advances, Assigned, Stored
<1>7. QED BY <1>3, <1>4, <1>6

LEMMA CommitOfPlan ==
  ASSUME IInv, Commit(PlanOf)
  PROVE  /\ \A p \in PlanId : plan'[p] = tx[PlanOf].newPlan[p]
         /\ \A t \in TaskId :
              Assigned(task'[t]) \subseteq Assigned(tx[PlanOf].newTask[t])
<1>1. PlanOf \in Controller /\ TypeOK /\ tx[PlanOf] # Idle
  BY ControllerAssumption DEF Commit, IInv
<1>2. /\ plan = tx[PlanOf].plan
      /\ \A t \in TaskId : Assigned(task[t]) \subseteq Assigned(tx[PlanOf].task[t])
  BY <1>1 DEF IInv, PlanSnapshot
<1>3. \A p \in PlanId : plan'[p] = tx[PlanOf].newPlan[p]
  BY <1>1, <1>2, CommitRows
<1>4. \A t \in TaskId : Assigned(task'[t]) \subseteq Assigned(tx[PlanOf].newTask[t])
  BY <1>1, <1>2, CommitRows
<1>5. QED BY <1>3, <1>4

\* No commit leaves a join row to a plan that is not stored.
LEMMA CommitIsSound ==
  ASSUME IInv, NEW c \in Controller, Commit(c)
  PROVE  SoundPairs'
<1>1. SoundPairs /\ TypeOK /\ TypeOK' /\ tx[c] # Idle
  BY Pairs, CommitRows DEF IInv, Commit
<1> SUFFICES ASSUME NEW t \in TaskId, NEW p \in Assigned(task'[t])
             PROVE  Stored(plan'[p]) /\ plan'[p].owner = task'[t].owner
  BY DEF SoundPairs, Assigned, Stored
<1>2. CASE c = TaskOf
  BY <1>1, <1>2, CommitOfTask DEF SoundPairs
<1>3. CASE c = PlanOf
  <2>1. IsSound(tx[PlanOf]) /\ tx[c].newTask[t] \in TaskRows
    BY <1>1, <1>3, TransactionFacts DEF IInv, PlanSnapshot
  <2>2. p \in Assigned(tx[PlanOf].newTask[t])
    BY <1>3, CommitOfPlan
  <2>3. p \in PlanId
    BY <1>3, <2>1, <2>2, StoredTask DEF Assigned
  <2>4. /\ Stored(plan'[p])
        /\ plan'[p].owner = tx[PlanOf].newTask[t].owner
    BY <1>3, <2>1, <2>2, <2>3, CommitOfPlan DEF IsSound
  <2>5. task'[t].owner = tx[PlanOf].newTask[t].owner
    <3>1. CASE task'[t] = tx[PlanOf].newTask[t]
      BY <3>1
    <3>2. CASE task'[t] = task[t] /\ tx[PlanOf].newTask[t] = tx[PlanOf].task[t]
      <4>1. Follows(task[t], tx[PlanOf].task[t])
        BY <1>1, <1>3 DEF IInv, Snapshots
      <4>2. Stored(task[t]) /\ Stored(tx[PlanOf].task[t])
        BY <2>2, <3>2 DEF Assigned
      <4>3. QED BY <3>2, <4>1, <4>2 DEF Follows, Stored
    <3>3. QED BY <1>3, <3>1, <3>2, CommitRows
  <2>6. QED BY <2>4, <2>5
<1>4. QED BY <1>2, <1>3, ControllerAssumption

\* A pair whose two rows are stored as the transaction of c read them, and
\* become what it made of them, suits or did not suit before.
LEMMA ReadPairs ==
  ASSUME IInv, NEW c \in Controller, Commit(c),
         NEW t \in TaskId, NEW p \in Assigned(task'[t]), p \in PlanId,
         task[t] = tx[c].task[t], task'[t] = tx[c].newTask[t],
         plan[p] = tx[c].plan[p], plan'[p] = tx[c].newPlan[p],
         ~DB!Suits(task'[t], plan'[p])
  PROVE  <<t, p>> \in skewed
<1>1. SkewedPairs /\ tx[c] # Idle
  BY Pairs DEF IInv, Commit
<1>2. Validated(tx[c])
  BY <1>1 DEF IInv, Snapshots, Consistent
<1>3. CASE task'[t] = task[t] /\ plan'[p] = plan[p]
  BY <1>1, <1>3 DEF SkewedPairs
<1>4. CASE ~(task'[t] = task[t] /\ plan'[p] = plan[p])
  <2>1. p \in Assigned(tx[c].task[t]) /\ ~DB!Suits(tx[c].task[t], tx[c].plan[p])
    BY <1>2, <1>4 DEF Validated
  <2>2. QED BY <1>1, <2>1 DEF SkewedPairs
<1>5. QED BY <1>3, <1>4

\* A pair that stops suiting is in skewed from then on.
LEMMA CommitIsSkewed ==
  ASSUME IInv, NEW c \in Controller, Commit(c)
  PROVE  SkewedPairs'
<1>1. SkewedPairs /\ TypeOK /\ TypeOK' /\ tx[c] # Idle
  BY Pairs, CommitRows DEF IInv, Commit
<1>2. skewed' = skewed \cup Overlooked(c)
  BY DEF Commit
<1> SUFFICES ASSUME NEW t \in TaskId, NEW p \in Assigned(task'[t]),
                    ~DB!Suits(task'[t], plan'[p])
             PROVE  <<t, p>> \in skewed'
  BY DEF SkewedPairs, Assigned, Stored, DB!Suits
<1>3. p \in PlanId
  <2>1. task'[t] \in TaskRows
    BY <1>1, TableFacts DEF TypeOK
  <2>2. QED BY <2>1, StoredTask DEF Assigned
<1>4. \/ task'[t] = task[t] /\ tx[c].newTask[t] = tx[c].task[t]
      \/ /\ task[t] = tx[c].task[t] /\ task'[t] = tx[c].newTask[t]
         /\ t \in WrittenTasks(c)
  BY CommitRows
<1>5. \/ plan'[p] = plan[p] /\ tx[c].newPlan[p] = tx[c].plan[p]
      \/ /\ plan[p] = tx[c].plan[p] /\ plan'[p] = tx[c].newPlan[p]
         /\ p \in WrittenPlans(c)
  BY <1>3, CommitRows
<1>6. CASE task'[t] = task[t] /\ plan'[p] = plan[p]
  BY <1>1, <1>2, <1>6 DEF SkewedPairs
<1>7. CASE c = TaskOf /\ task'[t] # task[t]
  <2>1. plan' = plan /\ p \in Assigned(task[t])
    BY <1>7, CommitOfTask
  <2>2. CASE plan[p] = tx[c].plan[p]
    <3>1. plan'[p] = tx[c].newPlan[p]
      BY <1>5, <2>1, <2>2
    <3>2. QED BY <1>2, <1>3, <1>4, <1>7, <2>2, <3>1, ReadPairs
  <2>3. CASE plan[p] # tx[c].plan[p]
    <3>1. <<t, p>> \in Overlooked(c)
      BY <1>3, <1>4, <1>7, <2>1, <2>3 DEF Overlooked, DB!Tasks, Assigned, Stored
    <3>2. QED BY <1>2, <3>1
  <2>4. QED BY <2>2, <2>3
<1>8. CASE c = PlanOf /\ ~(task'[t] = task[t] /\ plan'[p] = plan[p])
  <2>1. /\ plan = tx[c].plan /\ plan'[p] = tx[c].newPlan[p]
    BY <1>1, <1>3, <1>8, CommitOfPlan DEF IInv, PlanSnapshot
  <2>2. CASE task[t] = tx[c].task[t]
    <3>1. task'[t] = tx[c].newTask[t]
      BY <1>4, <2>2
    <3>2. QED BY <1>2, <1>3, <2>1, <2>2, <3>1, ReadPairs
  <2>3. CASE task[t] # tx[c].task[t]
    <3>1. task'[t] = task[t] /\ p \in WrittenPlans(c)
      BY <1>4, <1>5, <1>8, <2>3
    <3>2. <<t, p>> \in Overlooked(c)
      BY <1>3, <2>3, <3>1 DEF Overlooked, DB!Tasks, Assigned, Stored
    <3>3. QED BY <1>2, <3>2
  <2>4. QED BY <2>2, <2>3
<1>9. c = TaskOf => plan' = plan
  BY CommitOfTask
<1>10. QED BY <1>6, <1>7, <1>8, <1>9, ControllerAssumption

\* The snapshot of the work plan controller still has every plan as it is, and
\* no task has been assigned since.
LEMMA CommitLeavesPlans ==
  ASSUME IInv, NEW c \in Controller, Commit(c)
  PROVE  PlanSnapshot'
<1> SUFFICES ASSUME tx'[PlanOf] # Idle
             PROVE  /\ IsSound(tx'[PlanOf])
                    /\ plan' = tx'[PlanOf].plan
                    /\ \A t \in TaskId :
                         Assigned(task'[t]) \subseteq Assigned(tx'[PlanOf].task[t])
  BY DEF PlanSnapshot, IsSound, Assigned, Stored
<1>1. c = TaskOf /\ tx'[PlanOf] = tx[PlanOf] /\ tx[PlanOf] # Idle
  BY ControllerAssumption DEF Commit, IInv, TypeOK
<1>2. /\ IsSound(tx[PlanOf])
      /\ plan = tx[PlanOf].plan
      /\ \A t \in TaskId : Assigned(task[t]) \subseteq Assigned(tx[PlanOf].task[t])
  BY <1>1 DEF IInv, PlanSnapshot
<1>3. /\ plan' = plan
      /\ \A t \in TaskId : Assigned(task'[t]) \subseteq Assigned(task[t])
  BY <1>1, CommitOfTask
<1>4. QED BY <1>1, <1>2, <1>3

LEMMA CommitKeeps ==
  ASSUME IInv, NEW c \in Controller, Commit(c)
  PROVE  IInv'
<1>1. TypeOK' /\ Snapshots' /\ PlanSnapshot'
  BY CommitRows, CommitAges, CommitLeavesPlans
<1>2. NoDanglingAssignment' /\ OnlySkewBreaksTheRules'
  BY <1>1, CommitIsSound, CommitIsSkewed, Pairs
<1>3. (tx[TaskOf] # Idle => AssignsNothing(tx[TaskOf]))'
  BY DEF Commit, IInv, TypeOK, AssignsNothing
<1>4. QED BY <1>1, <1>2, <1>3 DEF IInv

LEMMA RollbackKeeps ==
  ASSUME IInv, NEW c \in Controller, Rollback(c)
  PROVE  IInv'
<1>1. /\ task' = task /\ plan' = plan /\ skewed' = skewed
      /\ \A d \in Controller : tx'[d] \in {tx[d], Idle}
      /\ TypeOK'
  BY DEF Rollback, IInv, TypeOK
<1>2. NoDanglingAssignment' /\ OnlySkewBreaksTheRules'
  BY <1>1, Pairs DEF IInv, SoundPairs, SkewedPairs
<1>3. Snapshots'
  BY <1>1 DEF IInv, Snapshots
<1>4. PlanSnapshot' /\ (tx[TaskOf] # Idle => AssignsNothing(tx[TaskOf]))'
  BY <1>1, ControllerAssumption DEF IInv, PlanSnapshot
<1>5. QED BY <1>1, <1>2, <1>3, <1>4 DEF IInv

-----------------------------------------------------------------------------
(***************************************************************************)
(* The first half of a request.                                            *)
(***************************************************************************)

\* The transaction that is open after Begin.
Opened(newTask, newPlan) ==
  [task |-> task, plan |-> plan, newTask |-> newTask, newPlan |-> newPlan]

LEMMA BeginKeeps ==
  ASSUME IInv, NEW c \in Controller,
         NEW newTask \in TaskTable, NEW newPlan \in PlanTable,
         Begin(c, newTask, newPlan), Consistent(Opened(newTask, newPlan)),
         c = TaskOf => AssignsNothing(Opened(newTask, newPlan)),
         c = PlanOf => IsSound(Opened(newTask, newPlan))
  PROVE  IInv'
<1>1. /\ task' = task /\ plan' = plan /\ skewed' = skewed
      /\ tx' = [tx EXCEPT ![c] = Opened(newTask, newPlan)]
  BY DEF Begin, Opened
<1>2. TypeOK /\ Opened(newTask, newPlan) \in Transaction
  BY DEF IInv, TypeOK, Opened, Transaction
<1>3. TypeOK'
  BY <1>1, <1>2 DEF TypeOK
<1>4. /\ tx'[c] = Opened(newTask, newPlan)
      /\ tx'[c].task = task /\ tx'[c].plan = plan
      /\ \A d \in Controller \ {c} : tx'[d] = tx[d]
  BY <1>1, <1>2 DEF TypeOK, Opened
<1>5. NoDanglingAssignment' /\ OnlySkewBreaksTheRules'
  BY <1>1, <1>2, <1>3, Pairs DEF IInv, SoundPairs, SkewedPairs
<1>6. Snapshots'
  <2> SUFFICES ASSUME NEW d \in Controller, tx'[d] # Idle
               PROVE  /\ Consistent(tx'[d])
                      /\ \A t \in TaskId : Follows(task'[t], tx'[d].task[t])
                      /\ \A p \in PlanId : Follows(plan'[p], tx'[d].plan[p])
    BY DEF Snapshots, Consistent, Validated, Advances, Follows
  <2>1. CASE d = c
    BY <1>1, <1>4, <2>1 DEF Follows
  <2>2. CASE d # c
    BY <1>1, <1>4, <2>2 DEF IInv, Snapshots
  <2>3. QED BY <2>1, <2>2
<1>7. PlanSnapshot'
  <2> SUFFICES ASSUME tx'[PlanOf] # Idle
               PROVE  /\ IsSound(tx'[PlanOf])
                      /\ plan' = tx'[PlanOf].plan
                      /\ \A t \in TaskId :
                           Assigned(task'[t]) \subseteq Assigned(tx'[PlanOf].task[t])
    BY DEF PlanSnapshot, IsSound, Assigned, Stored
  <2>1. CASE c = PlanOf
    BY <1>1, <1>4, <2>1
  <2>2. CASE c # PlanOf
    BY <1>1, <1>4, <2>2, ControllerAssumption DEF IInv, PlanSnapshot
  <2>3. QED BY <2>1, <2>2
<1>8. (tx[TaskOf] # Idle => AssignsNothing(tx[TaskOf]))'
  <2>1. tx'[TaskOf] # Idle => AssignsNothing(tx'[TaskOf])
    BY <1>4, ControllerAssumption DEF IInv
  <2>2. QED BY <2>1 DEF AssignsNothing, Assigned, Stored
<1>9. QED BY <1>3, <1>5, <1>6, <1>7, <1>8 DEF IInv

\* A request that makes r of the row of one task and writes no plan.
LEMMA OneTask ==
  ASSUME IInv, NEW t \in TaskId, NEW r \in TaskRows, Advances(r, task[t]),
         \A p \in Assigned(r) : r # task[t] =>
            \/ DB!Suits(r, plan[p])
            \/ p \in Assigned(task[t]) /\ ~DB!Suits(task[t], plan[p])
  PROVE  LET new == [task EXCEPT ![t] = r]
         IN  /\ new \in TaskTable /\ plan \in PlanTable
             /\ Consistent(Opened(new, plan))
             /\ Assigned(r) \subseteq Assigned(task[t])
                  => AssignsNothing(Opened(new, plan))
             /\ (\A p \in Assigned(r) : Stored(plan[p]) /\ plan[p].owner = r.owner)
                  => IsSound(Opened(new, plan))
<1> DEFINE new == [task EXCEPT ![t] = r]
           x == Opened(new, plan)
<1>1. TypeOK /\ SoundPairs
  BY Pairs DEF IInv
<1>2. /\ x.task = task /\ x.newTask = new /\ x.plan = plan /\ x.newPlan = plan
      /\ new[t] = r /\ \A u \in TaskId \ {t} : new[u] = task[u]
  BY <1>1 DEF Opened, TypeOK, TaskTable
<1>3. new \in TaskTable /\ plan \in PlanTable
  BY <1>1 DEF TypeOK, TaskTable, TaskRows
<1> HIDE DEF new, x
<1>4. Consistent(x)
  <2>1. \A u \in TaskId : Advances(x.newTask[u], x.task[u])
    BY <1>2 DEF Advances
  <2>2. \A p \in PlanId : Advances(x.newPlan[p], x.plan[p])
    BY <1>2 DEF Advances
  <2>3. Validated(x)
    BY <1>2 DEF Validated
  <2>4. QED BY <2>1, <2>2, <2>3 DEF Consistent
<1>5. Assigned(r) \subseteq Assigned(task[t]) => AssignsNothing(x)
  BY <1>2 DEF AssignsNothing
<1>6. (\A p \in Assigned(r) : Stored(plan[p]) /\ plan[p].owner = r.owner)
        => IsSound(x)
  BY <1>1, <1>2 DEF IsSound, SoundPairs
<1>7. QED BY <1>3, <1>4, <1>5, <1>6 DEF new, x

\* A request that makes r of the row of one plan and writes no task.
LEMMA OnePlan ==
  ASSUME IInv, NEW p \in PlanId, NEW r \in PlanRows, Advances(r, plan[p]),
         Stored(r),
         \A t \in TaskId : p \in Assigned(task[t]) /\ r # plan[p] =>
            DB!Suits(task[t], r)
  PROVE  LET new == [plan EXCEPT ![p] = r]
         IN  /\ new \in PlanTable /\ task \in TaskTable
             /\ Consistent(Opened(task, new)) /\ IsSound(Opened(task, new))
<1> DEFINE new == [plan EXCEPT ![p] = r]
           x == Opened(task, new)
<1>1. TypeOK /\ SoundPairs
  BY Pairs DEF IInv
<1>2. /\ x.task = task /\ x.newTask = task /\ x.plan = plan /\ x.newPlan = new
      /\ new[p] = r /\ \A q \in PlanId \ {p} : new[q] = plan[q]
  BY <1>1 DEF Opened, TypeOK, PlanTable
<1>3. new \in PlanTable /\ task \in TaskTable
  BY <1>1 DEF TypeOK, PlanTable, PlanRows
<1>4. \A t \in TaskId : Assigned(task[t]) \subseteq PlanId
  BY <1>1, TableFacts, StoredTask DEF TypeOK, Assigned
<1> HIDE DEF new, x
<1>5. Consistent(x)
  <2>1. \A t \in TaskId : Advances(x.newTask[t], x.task[t])
    BY <1>2 DEF Advances
  <2>2. \A q \in PlanId : Advances(x.newPlan[q], x.plan[q])
    BY <1>2 DEF Advances
  <2>3. Validated(x)
    BY <1>2, <1>4 DEF Validated
  <2>4. QED BY <2>1, <2>2, <2>3 DEF Consistent
<1>6. IsSound(x)
  <2> SUFFICES ASSUME NEW t \in TaskId, NEW q \in Assigned(task[t])
               PROVE  Stored(new[q]) /\ new[q].owner = task[t].owner
    BY <1>2 DEF IsSound
  <2>1. Stored(plan[q]) /\ plan[q].owner = task[t].owner /\ q \in PlanId
    BY <1>1, <1>4 DEF SoundPairs
  <2>2. CASE q = p
    BY <1>2, <2>1, <2>2 DEF Advances, Stored
  <2>3. CASE q # p
    BY <1>2, <2>1, <2>3
  <2>4. QED BY <2>2, <2>3
<1>7. QED BY <1>3, <1>5, <1>6 DEF new, x

\* A saved task advances, keeps its plans and takes the values of the form.
LEMMA SavedTaskAdvances ==
  ASSUME NEW row \in DB!TaskRow, NEW s \in DB!TaskInput, row.version < MaxVersion
  PROVE  /\ DB!SavedTask(row, s) \in DB!TaskRow
         /\ Advances(DB!SavedTask(row, s), row)
         /\ DB!SavedTask(row, s).workPlans = row.workPlans
         /\ \A planRow : DB!Suits(s, planRow)
                         => DB!Suits(DB!SavedTask(row, s), planRow)
<1> DEFINE new == [row EXCEPT !.title = s.title, !.beginning = s.beginning,
                     !.ending = s.ending, !.workload = s.workload,
                     !.privacy = s.privacy, !.version = @ + 1]
<1>1. row \in TaskRows /\ Stored(row) /\ row.version \in 0 .. MaxVersion
  BY StoredTask DEF TaskRows
<1>2. row.version + 1 \in 0 .. MaxVersion
  BY <1>1, ValuesAssumption
<1>3. /\ new \in DB!TaskRow
      /\ new.owner = row.owner /\ new.version = row.version + 1
      /\ new.workPlans = row.workPlans
      /\ new.beginning = s.beginning /\ new.ending = s.ending
      /\ new.privacy = s.privacy
  BY <1>2 DEF DB!TaskRow, DB!TaskInput, DB!Version
<1>4. CASE DB!SavedTask(row, s) = new
  <2>1. Advances(new, row)
    BY <1>1, <1>3, StoredTask DEF Advances, TaskRows
  <2>2. QED BY <1>3, <1>4, <2>1 DEF DB!Suits
<1>5. CASE /\ DB!SavedTask(row, s) = row
           /\ row.beginning = s.beginning /\ row.ending = s.ending
           /\ row.privacy = s.privacy
  BY <1>5 DEF Advances, DB!Suits
<1>6. QED BY <1>4, <1>5 DEF DB!SavedTask

LEMMA SavedPlanAdvances ==
  ASSUME NEW row \in DB!PlanRow, NEW s \in DB!PlanInput, row.version < MaxVersion
  PROVE  /\ DB!SavedPlan(row, s) \in DB!PlanRow
         /\ Advances(DB!SavedPlan(row, s), row)
         /\ \A taskRow : DB!Suits(taskRow, s)
                         => DB!Suits(taskRow, DB!SavedPlan(row, s))
<1> DEFINE new == [row EXCEPT !.title = s.title, !.beginning = s.beginning,
                     !.ending = s.ending, !.privacy = s.privacy,
                     !.version = @ + 1]
<1>1. row \in PlanRows /\ Stored(row) /\ row.version \in 0 .. MaxVersion
  BY StoredPlan DEF PlanRows
<1>2. row.version + 1 \in 0 .. MaxVersion
  BY <1>1, ValuesAssumption
<1>3. /\ new \in DB!PlanRow
      /\ new.owner = row.owner /\ new.version = row.version + 1
      /\ new.beginning = s.beginning /\ new.ending = s.ending
      /\ new.privacy = s.privacy
  BY <1>2 DEF DB!PlanRow, DB!PlanInput, DB!Version
<1>4. CASE DB!SavedPlan(row, s) = new
  <2>1. Advances(new, row)
    BY <1>1, <1>3, StoredPlan DEF Advances, PlanRows
  <2>2. QED BY <1>3, <1>4, <2>1 DEF DB!Suits
<1>5. CASE /\ DB!SavedPlan(row, s) = row
           /\ row.beginning = s.beginning /\ row.ending = s.ending
           /\ row.privacy = s.privacy
  BY <1>5 DEF Advances, DB!Suits
<1>6. QED BY <1>4, <1>5 DEF DB!SavedPlan

\* A task that joins or leaves a plan advances.
LEMMA JoinedLeftAdvance ==
  ASSUME NEW row \in DB!TaskRow, NEW p \in PlanId, row.version < MaxVersion
  PROVE  /\ DB!Joined(row, p) \in DB!TaskRow /\ DB!Left(row, p) \in DB!TaskRow
         /\ Advances(DB!Joined(row, p), row) /\ Advances(DB!Left(row, p), row)
         /\ DB!Joined(row, p).workPlans = row.workPlans \cup {p}
         /\ DB!Left(row, p).workPlans = row.workPlans \ {p}
         /\ DB!Joined(row, p).owner = row.owner /\ DB!Left(row, p).owner = row.owner
         /\ \A planRow :
              /\ DB!Suits(DB!Joined(row, p), planRow) <=> DB!Suits(row, planRow)
              /\ DB!Suits(DB!Left(row, p), planRow) <=> DB!Suits(row, planRow)
<1>1. row \in TaskRows /\ Stored(row) /\ row.version \in 0 .. MaxVersion
  BY StoredTask DEF TaskRows
<1>2. row.version + 1 \in 0 .. MaxVersion
  BY <1>1, ValuesAssumption
<1>3. /\ row.workPlans \cup {p} \in SUBSET PlanId
      /\ row.workPlans \ {p} \in SUBSET PlanId
  BY DEF DB!TaskRow
<1>4. /\ DB!Joined(row, p) \in DB!TaskRow
      /\ DB!Joined(row, p).workPlans = row.workPlans \cup {p}
      /\ DB!Joined(row, p).owner = row.owner
      /\ DB!Joined(row, p).version = row.version + 1
      /\ DB!Joined(row, p).beginning = row.beginning
      /\ DB!Joined(row, p).ending = row.ending
      /\ DB!Joined(row, p).privacy = row.privacy
  BY <1>2, <1>3 DEF DB!Joined, DB!TaskRow, DB!Version
<1>5. /\ DB!Left(row, p) \in DB!TaskRow
      /\ DB!Left(row, p).workPlans = row.workPlans \ {p}
      /\ DB!Left(row, p).owner = row.owner
      /\ DB!Left(row, p).version = row.version + 1
      /\ DB!Left(row, p).beginning = row.beginning
      /\ DB!Left(row, p).ending = row.ending
      /\ DB!Left(row, p).privacy = row.privacy
  BY <1>2, <1>3 DEF DB!Left, DB!TaskRow, DB!Version
<1>6. Advances(DB!Joined(row, p), row) /\ Advances(DB!Left(row, p), row)
  BY <1>1, <1>4, <1>5, StoredTask DEF Advances, TaskRows
<1>7. QED BY <1>4, <1>5, <1>6 DEF DB!Suits

\* The sets of WorkPlans in terms of stored rows.
LEMMA StoredIds ==
  ASSUME TypeOK
  PROVE  /\ \A t \in TaskId : /\ t \in DB!Tasks <=> Stored(task[t])
                              /\ t \in DB!Tasks <=> task[t] \in DB!TaskRow
                              /\ task[t] \in TaskRows
         /\ \A p \in PlanId : /\ p \in DB!Plans <=> Stored(plan[p])
                              /\ p \in DB!Plans <=> plan[p] \in DB!PlanRow
                              /\ plan[p] \in PlanRows
         /\ \A t \in TaskId, p \in PlanId :
              t \in DB!TasksOf(p) <=> p \in Assigned(task[t])
<1>1. /\ \A t \in TaskId : task[t] \in TaskRows
      /\ \A p \in PlanId : plan[p] \in PlanRows
  BY TableFacts DEF TypeOK
<1>2. /\ \A t \in TaskId : t \in DB!Tasks <=> Stored(task[t])
      /\ \A p \in PlanId : p \in DB!Plans <=> Stored(plan[p])
  BY DEF DB!Tasks, DB!Plans, Stored
<1>3. \A t \in TaskId, p \in PlanId :
        t \in DB!TasksOf(p) <=> p \in Assigned(task[t])
  BY <1>2 DEF DB!TasksOf, Assigned
<1>4. QED BY <1>1, <1>2, <1>3, StoredTask, StoredPlan

-----------------------------------------------------------------------------
(***************************************************************************)
(* The requests.                                                           *)
(***************************************************************************)

\* The task controller: a request that makes r of one row, of the plans the
\* task had or fewer.
LEMMA TaskWriteKeeps ==
  ASSUME IInv, NEW t \in TaskId, NEW r \in TaskRows, Advances(r, task[t]),
         Begin(TaskOf, [task EXCEPT ![t] = r], plan),
         Assigned(r) \subseteq Assigned(task[t]),
         \A p \in Assigned(r) : r # task[t] => DB!Suits(r, plan[p])
  PROVE  IInv'
<1> DEFINE new == [task EXCEPT ![t] = r]
<1>1. /\ new \in TaskTable /\ plan \in PlanTable
      /\ Consistent(Opened(new, plan)) /\ AssignsNothing(Opened(new, plan))
  BY OneTask
<1>2. Begin(TaskOf, new, plan)
  OBVIOUS
<1> HIDE DEF new
<1>3. QED BY <1>1, <1>2, BeginKeeps, ControllerAssumption

LEMMA CreateTaskKeeps ==
  ASSUME IInv, NEW m \in Manager, NEW t \in TaskId, NEW s \in DB!TaskInput,
         BeginCreateTask(m, t, s)
  PROVE  IInv'
<1> DEFINE r == [owner |-> m, title |-> s.title, beginning |-> s.beginning,
                 ending |-> s.ending, workload |-> s.workload,
                 privacy |-> s.privacy, workPlans |-> {}, version |-> 0]
<1>1. r \in DB!TaskRow
  BY ValuesAssumption DEF DB!TaskRow, DB!TaskInput, DB!Version
<1>2. Begin(TaskOf, [task EXCEPT ![t] = r], plan) /\ task[t] = Unborn
  BY DEF BeginCreateTask
<1>3. Assigned(r) = {}
  BY DEF Assigned
<1> HIDE DEF r
<1>4. r \in TaskRows /\ Advances(r, task[t])
  BY <1>1, <1>2, StoredTask DEF Advances, TaskRows
<1>5. QED BY <1>2, <1>3, <1>4, TaskWriteKeeps

LEMMA UpdateTaskKeeps ==
  ASSUME IInv, NEW t \in TaskId, NEW s \in DB!TaskInput, BeginUpdateTask(t, s)
  PROVE  IInv'
<1> DEFINE r == DB!SavedTask(task[t], s)
<1>1. /\ t \in DB!Tasks /\ task[t].version < MaxVersion
      /\ DB!TaskAccepted(s, task[t].workPlans)
      /\ Begin(TaskOf, [task EXCEPT ![t] = r], plan)
  BY DEF BeginUpdateTask
<1>2. task[t] \in DB!TaskRow /\ Stored(task[t])
  BY <1>1, StoredIds DEF IInv
<1>3. /\ r \in DB!TaskRow /\ Advances(r, task[t])
      /\ r.workPlans = task[t].workPlans
      /\ \A planRow : DB!Suits(s, planRow) => DB!Suits(r, planRow)
  BY <1>1, <1>2, SavedTaskAdvances
<1>4. s.separators = 0
  BY DEF DB!TaskInput
<1>5. \A p \in task[t].workPlans : DB!Suits(s, plan[p])
  BY <1>1, <1>4 DEF DB!TaskAccepted
<1> HIDE DEF r
<1>6. r \in TaskRows
  BY <1>3 DEF TaskRows
<1>7. Assigned(r) = task[t].workPlans /\ Assigned(task[t]) = task[t].workPlans
  BY <1>2, <1>3, <1>6, StoredTask DEF Assigned
<1>8. \A p \in Assigned(r) : DB!Suits(r, plan[p])
  BY <1>3, <1>5, <1>7
<1>9. QED BY <1>1, <1>3, <1>6, <1>7, <1>8, TaskWriteKeeps

LEMMA DeleteTaskKeeps ==
  ASSUME IInv, NEW t \in TaskId, BeginDeleteTask(t)
  PROVE  IInv'
<1>1. t \in DB!Tasks /\ Begin(TaskOf, [task EXCEPT ![t] = Deleted], plan)
  BY DEF BeginDeleteTask
<1>2. Stored(task[t])
  BY <1>1, StoredIds DEF IInv
<1>3. /\ Deleted \in TaskRows /\ Advances(Deleted, task[t])
      /\ Assigned(Deleted) = {}
  BY <1>2 DEF TaskRows, Advances, Assigned, Stored
<1>4. QED BY <1>1, <1>3, TaskWriteKeeps

\* The work plan controller: a request that makes r of the row of one plan.
LEMMA PlanWriteKeeps ==
  ASSUME IInv, NEW p \in PlanId, NEW r \in PlanRows, Advances(r, plan[p]),
         Stored(r), Begin(PlanOf, task, [plan EXCEPT ![p] = r]),
         \A t \in TaskId : p \in Assigned(task[t]) /\ r # plan[p] =>
            DB!Suits(task[t], r)
  PROVE  IInv'
<1> DEFINE new == [plan EXCEPT ![p] = r]
<1>1. /\ new \in PlanTable /\ task \in TaskTable
      /\ Consistent(Opened(task, new)) /\ IsSound(Opened(task, new))
  BY OnePlan
<1>2. Begin(PlanOf, task, new)
  OBVIOUS
<1> HIDE DEF new
<1>3. QED BY <1>1, <1>2, BeginKeeps, ControllerAssumption

LEMMA CreatePlanKeeps ==
  ASSUME IInv, NEW m \in Manager, NEW p \in PlanId, NEW s \in DB!PlanInput,
         BeginCreatePlan(m, p, s)
  PROVE  IInv'
<1> DEFINE r == [owner |-> m, title |-> s.title, beginning |-> s.beginning,
                 ending |-> s.ending, privacy |-> s.privacy, version |-> 0]
<1>1. r \in DB!PlanRow
  BY ValuesAssumption DEF DB!PlanRow, DB!PlanInput, DB!Version
<1>2. Begin(PlanOf, task, [plan EXCEPT ![p] = r]) /\ plan[p] = Unborn
  BY DEF BeginCreatePlan
<1>3. \A t \in TaskId : p \notin Assigned(task[t])
  <2>1. SoundPairs
    BY Pairs DEF IInv
  <2>2. QED BY <1>2, <2>1 DEF SoundPairs, Stored
<1> HIDE DEF r
<1>4. r \in PlanRows /\ Stored(r) /\ Advances(r, plan[p])
  BY <1>1, <1>2, StoredPlan DEF Advances, PlanRows
<1>5. QED BY <1>2, <1>3, <1>4, PlanWriteKeeps

LEMMA UpdatePlanKeeps ==
  ASSUME IInv, NEW p \in PlanId, NEW s \in DB!PlanInput, BeginUpdatePlan(p, s)
  PROVE  IInv'
<1> DEFINE r == DB!SavedPlan(plan[p], s)
<1>1. /\ p \in DB!Plans /\ plan[p].version < MaxVersion
      /\ DB!PlanAccepted(s, DB!TasksOf(p))
      /\ Begin(PlanOf, task, [plan EXCEPT ![p] = r])
  BY DEF BeginUpdatePlan
<1>2. plan[p] \in DB!PlanRow
  BY <1>1, StoredIds DEF IInv
<1>3. /\ r \in DB!PlanRow /\ Advances(r, plan[p])
      /\ \A taskRow : DB!Suits(taskRow, s) => DB!Suits(taskRow, r)
  BY <1>1, <1>2, SavedPlanAdvances
<1>4. \A t \in TaskId : p \in Assigned(task[t]) => DB!Suits(task[t], s)
  BY <1>1, StoredIds DEF DB!PlanAccepted, IInv
<1> HIDE DEF r
<1>5. r \in PlanRows /\ Stored(r)
  BY <1>3, StoredPlan DEF PlanRows
<1>6. QED BY <1>1, <1>3, <1>4, <1>5, PlanWriteKeeps

\* A request that makes r of the row of one task, all of whose plans are stored
\* plans of its owner.
LEMMA JoinWriteKeeps ==
  ASSUME IInv, NEW t \in TaskId, NEW r \in TaskRows, Advances(r, task[t]),
         Begin(PlanOf, [task EXCEPT ![t] = r], plan),
         \A p \in Assigned(r) : /\ Stored(plan[p]) /\ plan[p].owner = r.owner
                                /\ \/ DB!Suits(r, plan[p])
                                   \/ /\ p \in Assigned(task[t])
                                      /\ ~DB!Suits(task[t], plan[p])
  PROVE  IInv'
<1> DEFINE new == [task EXCEPT ![t] = r]
<1>1. /\ new \in TaskTable /\ plan \in PlanTable
      /\ Consistent(Opened(new, plan)) /\ IsSound(Opened(new, plan))
  BY OneTask
<1>2. Begin(PlanOf, new, plan)
  OBVIOUS
<1> HIDE DEF new
<1>3. QED BY <1>1, <1>2, BeginKeeps, ControllerAssumption

LEMMA AddTaskKeeps ==
  ASSUME IInv, NEW p \in PlanId, NEW t \in TaskId, BeginAddTask(p, t)
  PROVE  IInv'
<1> DEFINE r == DB!Joined(task[t], p)
<1>1. /\ p \in DB!Plans /\ t \in DB!Tasks /\ DB!MayJoin(t, p)
      /\ task[t].version < MaxVersion
      /\ Begin(PlanOf, [task EXCEPT ![t] = r], plan)
  BY DEF BeginAddTask
<1>2. task[t] \in DB!TaskRow /\ Stored(task[t]) /\ Stored(plan[p])
  BY <1>1, StoredIds DEF IInv
<1>3. /\ r \in DB!TaskRow /\ Advances(r, task[t])
      /\ r.workPlans = task[t].workPlans \cup {p} /\ r.owner = task[t].owner
      /\ \A planRow : DB!Suits(r, planRow) <=> DB!Suits(task[t], planRow)
  BY <1>1, <1>2, JoinedLeftAdvance
<1>4. task[t].owner = plan[p].owner /\ DB!Suits(task[t], plan[p])
  BY <1>1 DEF DB!MayJoin
<1> HIDE DEF r
<1>5. r \in TaskRows
  BY <1>3 DEF TaskRows
<1>6. Assigned(r) = Assigned(task[t]) \cup {p}
  BY <1>2, <1>3, <1>5, StoredTask DEF Assigned
<1>7. SoundPairs
  BY Pairs DEF IInv
<1>8. \A q \in Assigned(r) :
        /\ Stored(plan[q]) /\ plan[q].owner = r.owner
        /\ \/ DB!Suits(r, plan[q])
           \/ q \in Assigned(task[t]) /\ ~DB!Suits(task[t], plan[q])
  BY <1>2, <1>3, <1>4, <1>6, <1>7 DEF SoundPairs
<1>9. QED BY <1>1, <1>3, <1>5, <1>8, JoinWriteKeeps

LEMMA RemoveTaskKeeps ==
  ASSUME IInv, NEW p \in PlanId, NEW t \in TaskId, BeginRemoveTask(p, t)
  PROVE  IInv'
<1> DEFINE r == DB!Left(task[t], p)
<1>1. /\ t \in DB!TasksOf(p) /\ task[t].version < MaxVersion
      /\ Begin(PlanOf, [task EXCEPT ![t] = r], plan)
  BY DEF BeginRemoveTask
<1>2. p \in Assigned(task[t]) /\ task[t] \in TaskRows
  BY <1>1, StoredIds DEF IInv
<1>3. task[t] \in DB!TaskRow /\ Stored(task[t])
  BY <1>2, StoredTask DEF Assigned
<1>4. /\ r \in DB!TaskRow /\ Advances(r, task[t])
      /\ r.workPlans = task[t].workPlans \ {p} /\ r.owner = task[t].owner
      /\ \A planRow : DB!Suits(r, planRow) <=> DB!Suits(task[t], planRow)
  BY <1>1, <1>3, JoinedLeftAdvance
<1> HIDE DEF r
<1>5. r \in TaskRows
  BY <1>4 DEF TaskRows
<1>6. Assigned(r) = Assigned(task[t]) \ {p}
  BY <1>3, <1>4, <1>5, StoredTask DEF Assigned
<1>7. SoundPairs
  BY Pairs DEF IInv
<1>8. \A q \in Assigned(r) :
        /\ Stored(plan[q]) /\ plan[q].owner = r.owner
        /\ \/ DB!Suits(r, plan[q])
           \/ q \in Assigned(task[t]) /\ ~DB!Suits(task[t], plan[q])
  BY <1>4, <1>6, <1>7 DEF SoundPairs
<1>9. QED BY <1>1, <1>4, <1>5, <1>8, JoinWriteKeeps

LEMMA DeletePlanKeeps ==
  ASSUME IInv, NEW p \in PlanId, BeginDeletePlan(p)
  PROVE  IInv'
<1> DEFINE newTask == [t \in TaskId |-> IF t \in DB!TasksOf(p)
                                       THEN DB!Left(task[t], p) ELSE task[t]]
           newPlan == [plan EXCEPT ![p] = Deleted]
           x == Opened(newTask, newPlan)
<1>1. /\ p \in DB!Plans /\ \A t \in DB!TasksOf(p) : task[t].version < MaxVersion
      /\ Begin(PlanOf, newTask, newPlan)
  BY DEF BeginDeletePlan
<1>2. TypeOK /\ SoundPairs
  BY Pairs DEF IInv
<1>3. \A t \in TaskId :
        /\ task[t] \in TaskRows /\ Assigned(task[t]) \subseteq PlanId
        /\ p \in Assigned(task[t]) =>
             /\ newTask[t] \in TaskRows /\ Advances(newTask[t], task[t])
             /\ Assigned(newTask[t]) = Assigned(task[t]) \ {p}
             /\ newTask[t].owner = task[t].owner
             /\ \A planRow :
                  DB!Suits(newTask[t], planRow) <=> DB!Suits(task[t], planRow)
        /\ p \notin Assigned(task[t]) => newTask[t] = task[t]
  <2> SUFFICES ASSUME NEW t \in TaskId
               PROVE  /\ task[t] \in TaskRows /\ Assigned(task[t]) \subseteq PlanId
                      /\ p \in Assigned(task[t]) =>
                           /\ newTask[t] \in TaskRows
                           /\ Advances(newTask[t], task[t])
                           /\ Assigned(newTask[t]) = Assigned(task[t]) \ {p}
                           /\ newTask[t].owner = task[t].owner
                           /\ \A planRow : DB!Suits(newTask[t], planRow)
                                            <=> DB!Suits(task[t], planRow)
                      /\ p \notin Assigned(task[t]) => newTask[t] = task[t]
    OBVIOUS
  <2>1. task[t] \in TaskRows /\ (t \in DB!TasksOf(p) <=> p \in Assigned(task[t]))
    BY <1>2, StoredIds
  <2>2. Assigned(task[t]) \subseteq PlanId
    BY <2>1, StoredTask DEF Assigned
  <2>3. ASSUME p \in Assigned(task[t])
        PROVE  /\ newTask[t] \in TaskRows /\ Advances(newTask[t], task[t])
               /\ Assigned(newTask[t]) = Assigned(task[t]) \ {p}
               /\ newTask[t].owner = task[t].owner
               /\ \A planRow : DB!Suits(newTask[t], planRow)
                                <=> DB!Suits(task[t], planRow)
    <3> DEFINE r == DB!Left(task[t], p)
    <3>1. Stored(task[t]) /\ task[t] \in DB!TaskRow /\ task[t].version < MaxVersion
      BY <1>1, <2>1, <2>3, StoredTask DEF Assigned
    <3>2. /\ r \in DB!TaskRow /\ Advances(r, task[t])
          /\ r.workPlans = task[t].workPlans \ {p} /\ r.owner = task[t].owner
          /\ \A planRow : DB!Suits(r, planRow) <=> DB!Suits(task[t], planRow)
      BY <3>1, JoinedLeftAdvance
    <3>3. newTask[t] = r
      BY <2>1, <2>3
    <3> HIDE DEF r, newTask
    <3>4. r \in TaskRows
      BY <3>2 DEF TaskRows
    <3>5. Assigned(r) = Assigned(task[t]) \ {p}
      BY <3>1, <3>2, <3>4, StoredTask DEF Assigned
    <3>6. QED BY <3>2, <3>3, <3>4, <3>5
  <2>4. p \notin Assigned(task[t]) => newTask[t] = task[t]
    BY <2>1
  <2> HIDE DEF newTask
  <2>5. QED BY <2>1, <2>2, <2>3, <2>4
<1>4. /\ newPlan[p] = Deleted /\ Advances(Deleted, plan[p])
      /\ newPlan \in PlanTable
      /\ \A q \in PlanId \ {p} : newPlan[q] = plan[q]
  <2>1. Stored(plan[p])
    BY <1>1, <1>2, StoredIds
  <2>2. QED BY <1>2, <2>1 DEF TypeOK, PlanTable, Advances
<1>5. newTask \in TaskTable
  <2>1. \A t \in TaskId : newTask[t] \in TaskRows
    BY <1>3
  <2>2. QED BY <2>1 DEF TaskTable, TaskRows
<1>6. /\ x.task = task /\ x.newTask = newTask
      /\ x.plan = plan /\ x.newPlan = newPlan
  BY DEF Opened
<1> HIDE DEF newTask, newPlan, x
<1>7. Consistent(x)
  <2>1. \A t \in TaskId : Advances(x.newTask[t], x.task[t])
    BY <1>3, <1>6 DEF Advances
  <2>2. \A q \in PlanId : Advances(x.newPlan[q], x.plan[q])
    BY <1>4, <1>6 DEF Advances
  <2>3. Validated(x)
    <3> SUFFICES ASSUME NEW t \in TaskId, NEW q \in Assigned(newTask[t]),
                        newTask[t] # task[t] \/ newPlan[q] # plan[q]
                 PROVE  \/ DB!Suits(newTask[t], newPlan[q])
                        \/ /\ q \in Assigned(task[t])
                           /\ ~DB!Suits(task[t], plan[q])
      BY <1>6 DEF Validated
    <3>1. q # p /\ q \in Assigned(task[t]) /\ q \in PlanId
      BY <1>3
    <3>2. newPlan[q] = plan[q] /\ p \in Assigned(task[t])
      BY <1>3, <1>4, <3>1
    <3>3. QED BY <1>3, <3>1, <3>2
  <2>4. QED BY <2>1, <2>2, <2>3 DEF Consistent
<1>8. IsSound(x)
  <2> SUFFICES ASSUME NEW t \in TaskId, NEW q \in Assigned(newTask[t])
               PROVE  Stored(newPlan[q]) /\ newPlan[q].owner = newTask[t].owner
    BY <1>6 DEF IsSound
  <2>1. /\ q # p /\ q \in Assigned(task[t]) /\ q \in PlanId
        /\ newTask[t].owner = task[t].owner
    BY <1>3
  <2>2. QED BY <1>2, <1>4, <2>1 DEF SoundPairs
<1>9. Consistent(Opened(newTask, newPlan)) /\ IsSound(Opened(newTask, newPlan))
  BY <1>7, <1>8 DEF x
<1>10. QED BY <1>1, <1>4, <1>5, <1>9, BeginKeeps, ControllerAssumption

-----------------------------------------------------------------------------

\* Snapshots, what is made of them and what is stored agree at every step.
THEOREM Inductive == Spec => []IInv
<1>1. Init => IInv
  <2> SUFFICES ASSUME Init PROVE IInv
    OBVIOUS
  <2>1. TypeOK
    BY DEF Init, TypeOK, TaskTable, PlanTable
  <2>2. \A c \in Controller : tx[c] = Idle
    BY DEF Init
  <2>3. NoDanglingAssignment /\ OnlySkewBreaksTheRules
    BY DEF Init, NoDanglingAssignment, OnlySkewBreaksTheRules,
           DB!MembershipSound, DB!Tasks
  <2>4. QED
    BY <2>1, <2>2, <2>3, ControllerAssumption DEF IInv, Snapshots, PlanSnapshot
<1>2. IInv /\ [Next]_vars => IInv'
  <2> SUFFICES ASSUME IInv, [Next]_vars PROVE IInv'
    OBVIOUS
  <2>1. CASE TaskRequest
    BY <2>1, CreateTaskKeeps, UpdateTaskKeeps, DeleteTaskKeeps DEF TaskRequest
  <2>2. CASE PlanRequest
    BY <2>2, CreatePlanKeeps, UpdatePlanKeeps, DeletePlanKeeps, AddTaskKeeps,
       RemoveTaskKeeps DEF PlanRequest
  <2>3. ASSUME NEW c \in Controller, Commit(c) PROVE IInv'
    BY <2>3, CommitKeeps
  <2>4. ASSUME NEW c \in Controller, Rollback(c) PROVE IInv'
    BY <2>4, RollbackKeeps
  <2>5. CASE UNCHANGED vars
    <3>1. /\ TypeOK' /\ task' = task /\ plan' = plan /\ skewed' = skewed
          /\ tx' = tx
      BY <2>5 DEF vars, IInv, TypeOK
    <3>2. NoDanglingAssignment' /\ OnlySkewBreaksTheRules'
      BY <3>1, Pairs DEF IInv, SoundPairs, SkewedPairs
    <3>3. Snapshots' /\ PlanSnapshot'
      BY <3>1 DEF IInv, Snapshots, PlanSnapshot
    <3>4. (tx[TaskOf] # Idle => AssignsNothing(tx[TaskOf]))'
      BY <3>1 DEF IInv
    <3>5. QED BY <3>1, <3>2, <3>3, <3>4 DEF IInv
  <2>6. QED BY <2>1, <2>2, <2>3, <2>4, <2>5 DEF Next
<1>3. QED BY <1>1, <1>2, PTL DEF Spec

\* Tables and open transactions have the declared types.
THEOREM TypeCorrect == Spec => []TypeOK
<1>1. IInv => TypeOK
  BY DEF IInv
<1>2. QED BY <1>1, Inductive, PTL

\* A plan that is deleted while its tasks are edited leaves no join row to it,
\* in any interleaving of the two controllers.
THEOREM NothingDangles == Spec => []NoDanglingAssignment
<1>1. IInv => NoDanglingAssignment
  BY DEF IInv
<1>2. QED BY <1>1, Inductive, PTL

\* A task that does not suit its plan comes from a simultaneous edit of both
\* and from nothing else.
THEOREM SkewAlone == Spec => []OnlySkewBreaksTheRules
<1>1. IInv => OnlySkewBreaksTheRules
  BY DEF IInv
<1>2. QED BY <1>1, Inductive, PTL

\* A commit replaces only rows that its request has read: the version column
\* alone makes sure of it.
THEOREM NothingUnreadIsReplaced == Spec => CommitsReplaceWhatTheyRead
<1> DEFINE Read ==
      \A c \in Controller :
        Commit(c) =>
          /\ \A t \in WrittenTasks(c) : task[t] = tx[c].task[t]
          /\ \A p \in WrittenPlans(c) : plan[p] = tx[c].plan[p]
<1>1. IInv => Read
  BY CommitReads
<1>2. IInv /\ [Next]_vars => [Read]_vars
  BY <1>1
<1>3. QED BY <1>2, Inductive, PTL DEF Spec, CommitsReplaceWhatTheyRead

-----------------------------------------------------------------------------
(***************************************************************************)
(* A commit that overlooks nothing is a request served alone.              *)
(***************************************************************************)

NewTaskRow(m, s) ==
  [owner |-> m, title |-> s.title, beginning |-> s.beginning,
   ending |-> s.ending, workload |-> s.workload, privacy |-> s.privacy,
   workPlans |-> {}, version |-> 0]

NewPlanRow(m, s) ==
  [owner |-> m, title |-> s.title, beginning |-> s.beginning,
   ending |-> s.ending, privacy |-> s.privacy, version |-> 0]

\* What a transaction of the task controller has validated on its snapshot and
\* makes of the row of one task.
WritesTask(x, t, r) ==
  x.newTask = [x.task EXCEPT ![t] = r] /\ x.newPlan = x.plan

AskedTask(x) ==
  \E t \in TaskId :
    \/ \E m \in Manager, s \in DB!TaskInput :
         /\ x.task[t] = Unborn /\ DB!NewTaskAccepted(s)
         /\ WritesTask(x, t, NewTaskRow(m, s))
    \/ \E s \in DB!TaskInput :
         /\ Stored(x.task[t]) /\ x.task[t].version < MaxVersion
         /\ DB!NewTaskAccepted(s)
         /\ \A p \in x.task[t].workPlans : DB!Suits(s, x.plan[p])
         /\ WritesTask(x, t, DB!SavedTask(x.task[t], s))
    \/ Stored(x.task[t]) /\ WritesTask(x, t, Deleted)

\* The same of the work plan controller.
WritesPlan(x, p, r) ==
  x.newPlan = [x.plan EXCEPT ![p] = r] /\ x.newTask = x.task

Leaves(x, p, t) == p \in Assigned(x.task[t])

AskedPlan(x) ==
  \E p \in PlanId :
    \/ \E m \in Manager, s \in DB!PlanInput :
         /\ x.plan[p] = Unborn /\ DB!NewPlanAccepted(s)
         /\ WritesPlan(x, p, NewPlanRow(m, s))
    \/ \E s \in DB!PlanInput :
         /\ Stored(x.plan[p]) /\ x.plan[p].version < MaxVersion
         /\ DB!NewPlanAccepted(s)
         /\ \A t \in TaskId : Leaves(x, p, t) => DB!Suits(x.task[t], s)
         /\ WritesPlan(x, p, DB!SavedPlan(x.plan[p], s))
    \/ /\ Stored(x.plan[p])
       /\ \A t \in TaskId : Leaves(x, p, t) => x.task[t].version < MaxVersion
       /\ x.newTask = [t \in TaskId |-> IF Leaves(x, p, t)
                                        THEN DB!Left(x.task[t], p) ELSE x.task[t]]
       /\ x.newPlan = [x.plan EXCEPT ![p] = Deleted]
    \/ \E t \in TaskId :
         /\ Stored(x.plan[p]) /\ Stored(x.task[t]) /\ ~Leaves(x, p, t)
         /\ x.task[t].version < MaxVersion
         /\ x.task[t].owner = x.plan[p].owner /\ DB!Suits(x.task[t], x.plan[p])
         /\ WritesTask(x, t, DB!Joined(x.task[t], p))
    \/ \E t \in TaskId :
         /\ Stored(x.plan[p]) /\ Leaves(x, p, t) /\ x.task[t].version < MaxVersion
         /\ WritesTask(x, t, DB!Left(x.task[t], p))

Asked ==
  /\ tx[TaskOf] # Idle => AskedTask(tx[TaskOf])
  /\ tx[PlanOf] # Idle => AskedPlan(tx[PlanOf])

\* Rows that are not written stay.
LEMMA NoTaskWritten ==
  ASSUME IInv, NEW c \in Controller, Commit(c), tx[c].newTask = tx[c].task
  PROVE  task' = task
<1>1. WrittenTasks(c) = {}
  BY DEF WrittenTasks
<1>2. QED BY <1>1 DEF Commit, IInv, TypeOK, TaskTable

LEMMA NoPlanWritten ==
  ASSUME IInv, NEW c \in Controller, Commit(c), tx[c].newPlan = tx[c].plan
  PROVE  plan' = plan
<1>1. WrittenPlans(c) = {}
  BY DEF WrittenPlans
<1>2. QED BY <1>1 DEF Commit, IInv, TypeOK, PlanTable

\* A transaction that makes r of one row writes that row as it has read it, or
\* nothing.
LEMMA OneTaskWritten ==
  ASSUME IInv, NEW c \in Controller, Commit(c), NEW t \in TaskId, NEW r,
         tx[c].newTask = [tx[c].task EXCEPT ![t] = r]
  PROVE  \/ task' = task
         \/ /\ t \in WrittenTasks(c) /\ task[t] = tx[c].task[t]
            /\ task' = [task EXCEPT ![t] = r]
<1>1. /\ task \in TaskTable /\ tx[c].task \in TaskTable
      /\ tx[c].newTask \in TaskTable
  BY TransactionFacts DEF IInv, TypeOK, Commit
<1>2. /\ DOMAIN tx[c].task = TaskId /\ DOMAIN task = TaskId
      /\ tx[c].newTask[t] = r
      /\ \A u \in TaskId \ {t} : tx[c].newTask[u] = tx[c].task[u]
  BY <1>1 DEF TaskTable
<1>3. WrittenTasks(c) \subseteq {t}
  BY <1>2 DEF WrittenTasks
<1>4. task' = [u \in TaskId |-> IF u \in WrittenTasks(c)
                                THEN tx[c].newTask[u] ELSE task[u]]
  BY DEF Commit
<1>5. CASE t \in WrittenTasks(c)
  <2>1. task' = [task EXCEPT ![t] = r]
    BY <1>1, <1>2, <1>3, <1>4, <1>5 DEF TaskTable
  <2>2. QED BY <1>3, <1>5, <2>1, CommitReads
<1>6. CASE t \notin WrittenTasks(c)
  BY <1>1, <1>3, <1>4, <1>6 DEF TaskTable
<1>7. QED BY <1>5, <1>6

LEMMA OnePlanWritten ==
  ASSUME IInv, NEW c \in Controller, Commit(c), NEW p \in PlanId, NEW r,
         tx[c].newPlan = [tx[c].plan EXCEPT ![p] = r]
  PROVE  \/ plan' = plan
         \/ /\ p \in WrittenPlans(c) /\ plan[p] = tx[c].plan[p]
            /\ plan' = [plan EXCEPT ![p] = r]
<1>1. /\ plan \in PlanTable /\ tx[c].plan \in PlanTable
      /\ tx[c].newPlan \in PlanTable
  BY TransactionFacts DEF IInv, TypeOK, Commit
<1>2. /\ DOMAIN tx[c].plan = PlanId /\ DOMAIN plan = PlanId
      /\ tx[c].newPlan[p] = r
      /\ \A q \in PlanId \ {p} : tx[c].newPlan[q] = tx[c].plan[q]
  BY <1>1 DEF PlanTable
<1>3. WrittenPlans(c) \subseteq {p}
  BY <1>2 DEF WrittenPlans
<1>4. plan' = [q \in PlanId |-> IF q \in WrittenPlans(c)
                                THEN tx[c].newPlan[q] ELSE plan[q]]
  BY DEF Commit
<1>5. CASE p \in WrittenPlans(c)
  <2>1. plan' = [plan EXCEPT ![p] = r]
    BY <1>1, <1>2, <1>3, <1>4, <1>5 DEF PlanTable
  <2>2. QED BY <1>3, <1>5, <2>1, CommitReads
<1>6. CASE p \notin WrittenPlans(c)
  BY <1>1, <1>3, <1>4, <1>6 DEF PlanTable
<1>7. QED BY <1>5, <1>6

\* Opening a transaction, closing one or leaving both alone keeps what the open
\* ones have asked for.
LEMMA AskedStays ==
  ASSUME Asked,
         tx'[TaskOf] \in {Idle, tx[TaskOf]} \/ AskedTask(tx'[TaskOf]),
         tx'[PlanOf] \in {Idle, tx[PlanOf]} \/ AskedPlan(tx'[PlanOf])
  PROVE  Asked'
<1>1. tx'[TaskOf] # Idle => AskedTask(tx'[TaskOf])
  BY DEF Asked
<1>2. tx'[PlanOf] # Idle => AskedPlan(tx'[PlanOf])
  BY DEF Asked
<1>3. (tx[TaskOf] # Idle => AskedTask(tx[TaskOf]))'
  BY <1>1 DEF AskedTask, WritesTask, NewTaskRow, Stored, DB!NewTaskAccepted,
              DB!DatesAccepted, DB!WorkloadAccepted, DB!Suits, DB!SavedTask,
              DB!TaskInput, DB!Instant, DB!Privacy
<1>4. (tx[PlanOf] # Idle => AskedPlan(tx[PlanOf]))'
  BY <1>2 DEF AskedPlan, WritesTask, WritesPlan, NewPlanRow, Stored, Leaves,
              Assigned, DB!NewPlanAccepted, DB!DatesAccepted, DB!Suits,
              DB!SavedPlan, DB!Left, DB!Joined, DB!PlanInput, DB!Instant,
              DB!Privacy
<1>5. QED BY <1>3, <1>4 DEF Asked

LEMMA BeginAsks ==
  ASSUME IInv, Asked, NEW c \in Controller,
         NEW newTask, NEW newPlan, Begin(c, newTask, newPlan),
         c = TaskOf => AskedTask(Opened(newTask, newPlan)),
         c = PlanOf => AskedPlan(Opened(newTask, newPlan))
  PROVE  Asked'
<1>1. /\ tx'[c] = Opened(newTask, newPlan)
      /\ \A d \in Controller \ {c} : tx'[d] = tx[d]
  BY DEF Begin, Opened, IInv, TypeOK
<1>2. QED BY <1>1, AskedStays, ControllerAssumption

LEMMA OpenedParts ==
  ASSUME NEW newTask, NEW newPlan
  PROVE  /\ Opened(newTask, newPlan).task = task
         /\ Opened(newTask, newPlan).plan = plan
         /\ Opened(newTask, newPlan).newTask = newTask
         /\ Opened(newTask, newPlan).newPlan = newPlan
BY DEF Opened

\* What the task controller validates on its snapshot.
LEMMA TaskRequestAsks ==
  ASSUME IInv, Asked, TaskRequest
  PROVE  Asked'
<1> PICK t \in TaskId :
      \/ \E m \in Manager, s \in DB!TaskInput : BeginCreateTask(m, t, s)
      \/ \E s \in DB!TaskInput : BeginUpdateTask(t, s)
      \/ BeginDeleteTask(t)
  BY DEF TaskRequest
<1>1. TypeOK /\ \A s \in DB!TaskInput : s.separators = 0
  BY DEF IInv, DB!TaskInput
<1>2. ASSUME NEW m \in Manager, NEW s \in DB!TaskInput, BeginCreateTask(m, t, s)
      PROVE  Asked'
  <2>1. /\ task[t] = Unborn /\ DB!NewTaskAccepted(s)
        /\ Begin(TaskOf, [task EXCEPT ![t] = NewTaskRow(m, s)], plan)
    BY <1>2 DEF BeginCreateTask, NewTaskRow
  <2>2. AskedTask(Opened([task EXCEPT ![t] = NewTaskRow(m, s)], plan))
    <3> DEFINE x == Opened([task EXCEPT ![t] = NewTaskRow(m, s)], plan)
    <3>1. /\ x.task = task /\ x.newTask = [task EXCEPT ![t] = NewTaskRow(m, s)]
          /\ x.plan = plan /\ x.newPlan = plan
      BY OpenedParts
    <3> HIDE DEF x
    <3>2. AskedTask(x)
      BY <2>1, <3>1 DEF AskedTask, WritesTask
    <3>3. QED BY <3>2 DEF x
  <2>3. QED BY <2>1, <2>2, BeginAsks, ControllerAssumption
<1>3. ASSUME NEW s \in DB!TaskInput, BeginUpdateTask(t, s)
      PROVE  Asked'
  <2>1. /\ t \in DB!Tasks /\ DB!TaskAccepted(s, task[t].workPlans)
        /\ task[t].version < MaxVersion
        /\ Begin(TaskOf, [task EXCEPT ![t] = DB!SavedTask(task[t], s)], plan)
    BY <1>3 DEF BeginUpdateTask
  <2>2. /\ DB!NewTaskAccepted(s) /\ Stored(task[t])
        /\ \A p \in task[t].workPlans : DB!Suits(s, plan[p])
    BY <1>1, <2>1, StoredIds DEF DB!TaskAccepted, DB!NewTaskAccepted
  <2>3. AskedTask(Opened([task EXCEPT ![t] = DB!SavedTask(task[t], s)], plan))
    <3> DEFINE x == Opened([task EXCEPT ![t] = DB!SavedTask(task[t], s)], plan)
    <3>1. /\ x.task = task /\ x.newTask = [task EXCEPT ![t] = DB!SavedTask(task[t], s)]
          /\ x.plan = plan /\ x.newPlan = plan
      BY OpenedParts
    <3> HIDE DEF x
    <3>2. AskedTask(x)
      BY <2>1, <2>2, <3>1 DEF AskedTask, WritesTask
    <3>3. QED BY <3>2 DEF x
  <2>4. QED BY <2>1, <2>3, BeginAsks, ControllerAssumption
<1>4. ASSUME BeginDeleteTask(t)
      PROVE  Asked'
  <2>1. t \in DB!Tasks /\ Begin(TaskOf, [task EXCEPT ![t] = Deleted], plan)
    BY <1>4 DEF BeginDeleteTask
  <2>2. AskedTask(Opened([task EXCEPT ![t] = Deleted], plan))
    <3> DEFINE x == Opened([task EXCEPT ![t] = Deleted], plan)
    <3>1. /\ x.task = task /\ x.newTask = [task EXCEPT ![t] = Deleted]
          /\ x.plan = plan /\ x.newPlan = plan
      BY OpenedParts
    <3> HIDE DEF x
    <3>2. AskedTask(x)
      BY <1>1, <2>1, StoredIds, <3>1 DEF AskedTask, WritesTask
    <3>3. QED BY <3>2 DEF x
  <2>3. QED BY <2>1, <2>2, BeginAsks, ControllerAssumption
<1>5. QED BY <1>2, <1>3, <1>4

\* What the work plan controller validates on its snapshot.
LEMMA PlanRequestAsks ==
  ASSUME IInv, Asked, PlanRequest
  PROVE  Asked'
<1> PICK p \in PlanId :
      \/ \E m \in Manager, s \in DB!PlanInput : BeginCreatePlan(m, p, s)
      \/ \E s \in DB!PlanInput : BeginUpdatePlan(p, s)
      \/ BeginDeletePlan(p)
      \/ \E t \in TaskId : BeginAddTask(p, t) \/ BeginRemoveTask(p, t)
  BY DEF PlanRequest
<1>1. TypeOK
  BY DEF IInv
<1>2. ASSUME NEW m \in Manager, NEW s \in DB!PlanInput, BeginCreatePlan(m, p, s)
      PROVE  Asked'
  <2>1. /\ plan[p] = Unborn /\ DB!NewPlanAccepted(s)
        /\ Begin(PlanOf, task, [plan EXCEPT ![p] = NewPlanRow(m, s)])
    BY <1>2 DEF BeginCreatePlan, NewPlanRow
  <2>2. AskedPlan(Opened(task, [plan EXCEPT ![p] = NewPlanRow(m, s)]))
    <3> DEFINE x == Opened(task, [plan EXCEPT ![p] = NewPlanRow(m, s)])
    <3>1. /\ x.task = task /\ x.newTask = task
          /\ x.plan = plan /\ x.newPlan = [plan EXCEPT ![p] = NewPlanRow(m, s)]
      BY OpenedParts
    <3> HIDE DEF x
    <3>2. AskedPlan(x)
      BY <2>1, <3>1 DEF AskedPlan, WritesPlan
    <3>3. QED BY <3>2 DEF x
  <2>3. QED BY <2>1, <2>2, BeginAsks, ControllerAssumption
<1>3. ASSUME NEW s \in DB!PlanInput, BeginUpdatePlan(p, s)
      PROVE  Asked'
  <2>1. /\ p \in DB!Plans /\ DB!PlanAccepted(s, DB!TasksOf(p))
        /\ plan[p].version < MaxVersion
        /\ Begin(PlanOf, task, [plan EXCEPT ![p] = DB!SavedPlan(plan[p], s)])
    BY <1>3 DEF BeginUpdatePlan
  <2>2. /\ DB!NewPlanAccepted(s) /\ Stored(plan[p])
        /\ \A t \in TaskId : p \in Assigned(task[t]) => DB!Suits(task[t], s)
    BY <1>1, <2>1, StoredIds DEF DB!PlanAccepted, DB!NewPlanAccepted
  <2>3. AskedPlan(Opened(task, [plan EXCEPT ![p] = DB!SavedPlan(plan[p], s)]))
    <3> DEFINE x == Opened(task, [plan EXCEPT ![p] = DB!SavedPlan(plan[p], s)])
    <3>1. /\ x.task = task /\ x.newTask = task
          /\ x.plan = plan /\ x.newPlan = [plan EXCEPT ![p] = DB!SavedPlan(plan[p], s)]
      BY OpenedParts
    <3> HIDE DEF x
    <3>2. AskedPlan(x)
      BY <2>1, <2>2, <3>1 DEF AskedPlan, WritesPlan, Leaves
    <3>3. QED BY <3>2 DEF x
  <2>4. QED BY <2>1, <2>3, BeginAsks, ControllerAssumption
<1>4. ASSUME BeginDeletePlan(p)
      PROVE  Asked'
  <2> DEFINE newTask == [t \in TaskId |-> IF t \in DB!TasksOf(p)
                                         THEN DB!Left(task[t], p) ELSE task[t]]
             newPlan == [plan EXCEPT ![p] = Deleted]
             x == Opened(newTask, newPlan)
  <2>1. /\ p \in DB!Plans /\ \A t \in DB!TasksOf(p) : task[t].version < MaxVersion
        /\ Begin(PlanOf, newTask, newPlan)
    BY <1>4 DEF BeginDeletePlan
  <2>2. x.task = task /\ x.plan = plan /\ x.newTask = newTask /\ x.newPlan = newPlan
    BY OpenedParts
  <2>3. \A t \in TaskId : Leaves(x, p, t) <=> t \in DB!TasksOf(p)
    BY <1>1, <2>2, StoredIds DEF Leaves
  <2>4. x.newTask = [t \in TaskId |-> IF Leaves(x, p, t)
                                      THEN DB!Left(x.task[t], p) ELSE x.task[t]]
    BY <2>2, <2>3
  <2>5. Stored(x.plan[p])
    BY <1>1, <2>1, <2>2, StoredIds
  <2>6. \A t \in TaskId : Leaves(x, p, t) => x.task[t].version < MaxVersion
    BY <2>1, <2>2, <2>3
  <2>7. x.newPlan = [x.plan EXCEPT ![p] = Deleted]
    BY <2>2
  <2> HIDE DEF x
  <2>8. AskedPlan(x)
    BY <2>4, <2>5, <2>6, <2>7 DEF AskedPlan
  <2>9. QED BY <2>1, <2>8, BeginAsks, ControllerAssumption DEF x
<1>5. ASSUME NEW t \in TaskId, BeginAddTask(p, t)
      PROVE  Asked'
  <2>1. /\ p \in DB!Plans /\ t \in DB!Tasks /\ DB!MayJoin(t, p)
        /\ task[t].version < MaxVersion
        /\ Begin(PlanOf, [task EXCEPT ![t] = DB!Joined(task[t], p)], plan)
    BY <1>5 DEF BeginAddTask
  <2>2. /\ Stored(plan[p]) /\ Stored(task[t]) /\ p \notin Assigned(task[t])
        /\ task[t].owner = plan[p].owner /\ DB!Suits(task[t], plan[p])
    BY <1>1, <2>1, StoredIds DEF DB!MayJoin
  <2>3. AskedPlan(Opened([task EXCEPT ![t] = DB!Joined(task[t], p)], plan))
    <3> DEFINE x == Opened([task EXCEPT ![t] = DB!Joined(task[t], p)], plan)
    <3>1. /\ x.task = task /\ x.newTask = [task EXCEPT ![t] = DB!Joined(task[t], p)]
          /\ x.plan = plan /\ x.newPlan = plan
      BY OpenedParts
    <3> HIDE DEF x
    <3>2. AskedPlan(x)
      BY <2>1, <2>2, <3>1 DEF AskedPlan, WritesTask, Leaves
    <3>3. QED BY <3>2 DEF x
  <2>4. QED BY <2>1, <2>3, BeginAsks, ControllerAssumption
<1>6. ASSUME NEW t \in TaskId, BeginRemoveTask(p, t)
      PROVE  Asked'
  <2>1. /\ p \in DB!Plans /\ t \in DB!TasksOf(p) /\ task[t].version < MaxVersion
        /\ Begin(PlanOf, [task EXCEPT ![t] = DB!Left(task[t], p)], plan)
    BY <1>6 DEF BeginRemoveTask
  <2>2. Stored(plan[p]) /\ p \in Assigned(task[t])
    BY <1>1, <2>1, StoredIds
  <2>3. AskedPlan(Opened([task EXCEPT ![t] = DB!Left(task[t], p)], plan))
    <3> DEFINE x == Opened([task EXCEPT ![t] = DB!Left(task[t], p)], plan)
    <3>1. /\ x.task = task /\ x.newTask = [task EXCEPT ![t] = DB!Left(task[t], p)]
          /\ x.plan = plan /\ x.newPlan = plan
      BY OpenedParts
    <3> HIDE DEF x
    <3>2. AskedPlan(x)
      BY <2>1, <2>2, <3>1 DEF AskedPlan, WritesTask, Leaves
    <3>3. QED BY <3>2 DEF x
  <2>4. QED BY <2>1, <2>3, BeginAsks, ControllerAssumption
<1>7. QED BY <1>2, <1>3, <1>4, <1>5, <1>6

LEMMA StepAsks ==
  ASSUME IInv, Asked, [Next]_vars
  PROVE  Asked'
<1>1. CASE TaskRequest \/ PlanRequest
  BY <1>1, TaskRequestAsks, PlanRequestAsks
<1>2. ASSUME NEW c \in Controller, Commit(c) \/ Rollback(c) PROVE Asked'
  <2>1. \A d \in Controller : tx'[d] \in {Idle, tx[d]}
    BY <1>2 DEF Commit, Rollback, IInv, TypeOK
  <2>2. QED BY <2>1, AskedStays, ControllerAssumption
<1>3. CASE UNCHANGED vars
  BY <1>3, AskedStays DEF vars
<1>4. QED BY <1>1, <1>2, <1>3 DEF Next

-----------------------------------------------------------------------------
(***************************************************************************)
(* The requests served alone, on the tables as they are.                   *)
(***************************************************************************)

\* The rules do not depend on the pages that are open.
LEMMA AloneRules ==
  ASSUME NEW f, NEW g
  PROVE  /\ Alone(f, g)!Tasks = DB!Tasks /\ Alone(f, g)!Plans = DB!Plans
         /\ \A p : Alone(f, g)!TasksOf(p) = DB!TasksOf(p)
         /\ Alone(f, g)!TaskInput = DB!TaskInput
         /\ Alone(f, g)!PlanInput = DB!PlanInput
         /\ \A s : /\ Alone(f, g)!NewTaskAccepted(s) <=> DB!NewTaskAccepted(s)
                   /\ Alone(f, g)!NewPlanAccepted(s) <=> DB!NewPlanAccepted(s)
         /\ \A row, s : /\ Alone(f, g)!SavedTask(row, s) = DB!SavedTask(row, s)
                        /\ Alone(f, g)!SavedPlan(row, s) = DB!SavedPlan(row, s)
                        /\ Alone(f, g)!Suits(row, s) <=> DB!Suits(row, s)
         /\ \A row, p : /\ Alone(f, g)!Joined(row, p) = DB!Joined(row, p)
                        /\ Alone(f, g)!Left(row, p) = DB!Left(row, p)
<1>1. Alone(f, g)!Tasks = DB!Tasks /\ Alone(f, g)!Plans = DB!Plans
  BY DEF Alone!Tasks, Alone!Plans, DB!Tasks, DB!Plans
<1>2. \A p : Alone(f, g)!TasksOf(p) = DB!TasksOf(p)
  BY <1>1 DEF Alone!TasksOf, DB!TasksOf
<1>3. /\ Alone(f, g)!TaskInput = DB!TaskInput
      /\ Alone(f, g)!PlanInput = DB!PlanInput
  BY DEF Alone!TaskInput, Alone!PlanInput, DB!TaskInput, DB!PlanInput,
         Alone!Instant, DB!Instant, Alone!Privacy, DB!Privacy
<1>4. \A s : /\ Alone(f, g)!NewTaskAccepted(s) <=> DB!NewTaskAccepted(s)
             /\ Alone(f, g)!NewPlanAccepted(s) <=> DB!NewPlanAccepted(s)
  BY DEF Alone!NewTaskAccepted, Alone!NewPlanAccepted, Alone!DatesAccepted,
         Alone!WorkloadAccepted, DB!NewTaskAccepted, DB!NewPlanAccepted,
         DB!DatesAccepted, DB!WorkloadAccepted
<1>5. \A row, s : /\ Alone(f, g)!SavedTask(row, s) = DB!SavedTask(row, s)
                  /\ Alone(f, g)!SavedPlan(row, s) = DB!SavedPlan(row, s)
                  /\ Alone(f, g)!Suits(row, s) <=> DB!Suits(row, s)
  BY DEF Alone!SavedTask, Alone!SavedPlan, Alone!Suits, DB!SavedTask,
         DB!SavedPlan, DB!Suits
<1>6. \A row, p : /\ Alone(f, g)!Joined(row, p) = DB!Joined(row, p)
                  /\ Alone(f, g)!Left(row, p) = DB!Left(row, p)
  BY DEF Alone!Joined, Alone!Left, DB!Joined, DB!Left
<1>7. QED BY <1>1, <1>2, <1>3, <1>4, <1>5, <1>6

LEMMA WritesAreServed ==
  ASSUME NEW f \in TaskPages, NEW g \in PlanPages, NEW m \in Manager,
         Alone(f, g)!WriteBy(m)
  PROVE  ServedAlone
BY DEF ServedAlone

LEMMA CreateTaskAlone ==
  ASSUME NEW m \in Manager, NEW t \in TaskId, NEW s \in DB!TaskInput,
         task[t] = Unborn, DB!NewTaskAccepted(s),
         task' = [task EXCEPT ![t] = NewTaskRow(m, s)], plan' = plan
  PROVE  ServedAlone
<1> PICK f \in TaskPages, g \in PlanPages : f = NoForm /\ g = NoForm
  BY DEF TaskPages, PlanPages
<1>1. s.separators = 0 /\ ~(s.separators > 0)
  BY DEF DB!TaskInput
<1>2. Alone(f, g)!NewTaskAccepted(s)
  BY AloneRules
<1>3. Alone(f, g)!CreateTask(m, t, s)
  BY <1>1, <1>2 DEF Alone!CreateTask, NewTaskRow
<1>4. Alone(f, g)!WriteBy(m)
  BY <1>3, AloneRules DEF Alone!WriteBy
<1>5. QED BY <1>4, WritesAreServed

LEMMA UpdateTaskAlone ==
  ASSUME TypeOK, NEW t \in TaskId, NEW s \in DB!TaskInput,
         Stored(task[t]), task[t].version < MaxVersion, DB!NewTaskAccepted(s),
         \A p \in task[t].workPlans : DB!Suits(s, plan[p]),
         task' = [task EXCEPT ![t] = DB!SavedTask(task[t], s)], plan' = plan
  PROVE  ServedAlone
<1>1. t \in DB!Tasks /\ task[t].owner \in Manager
  BY StoredIds, StoredTask
<1> PICK f \in TaskPages, g \in PlanPages :
      f = [id |-> t, seen |-> task[t]] /\ g = NoForm
  BY <1>1 DEF TaskPages, PlanPages
<1> PICK w \in Manager : w = task[t].owner
  BY <1>1
<1>2. f # NoForm
  <2>1. task[t] \in DB!TaskRow
    BY <1>1, StoredIds
  <2>2. f \in DB!TaskForm
    BY <2>1 DEF DB!TaskForm
  <2>3. QED BY <2>2, ValuesAssumption
<1>3. Alone(f, g)!FreshTaskForm(w)
  BY <1>1, <1>2, AloneRules DEF Alone!FreshTaskForm
<1>4. s.separators = 0 /\ ~(s.separators > 0)
  BY DEF DB!TaskInput
<1>5. Alone(f, g)!TaskAccepted(s, task[t].workPlans)
  <2>1. Alone(f, g)!NewTaskAccepted(s)
    BY AloneRules
  <2>2. \A p \in task[t].workPlans : Alone(f, g)!Suits(s, plan[p])
    BY AloneRules
  <2>3. QED BY <2>1, <2>2 DEF Alone!TaskAccepted, Alone!NewTaskAccepted
<1>6. Alone(f, g)!SavedTask(task[t], s) = DB!SavedTask(task[t], s)
  BY AloneRules
<1>7. Alone(f, g)!UpdateTask(w, s)
  BY <1>3, <1>4, <1>5, <1>6 DEF Alone!UpdateTask
<1>8. Alone(f, g)!WriteBy(w)
  BY <1>7, AloneRules DEF Alone!WriteBy
<1>9. QED BY <1>8, WritesAreServed

LEMMA DeleteTaskAlone ==
  ASSUME TypeOK, NEW t \in TaskId, Stored(task[t]),
         task' = [task EXCEPT ![t] = Deleted], plan' = plan
  PROVE  ServedAlone
<1>1. t \in DB!Tasks /\ task[t].owner \in Manager
  BY StoredIds, StoredTask
<1> PICK f \in TaskPages, g \in PlanPages : f = NoForm /\ g = NoForm
  BY DEF TaskPages, PlanPages
<1> PICK m \in Manager : m = task[t].owner
  BY <1>1
<1>2. Alone(f, g)!DeleteTask(m, t)
  BY <1>1, AloneRules DEF Alone!DeleteTask
<1>3. Alone(f, g)!WriteBy(m)
  BY <1>2 DEF Alone!WriteBy
<1>4. QED BY <1>3, WritesAreServed

LEMMA CreatePlanAlone ==
  ASSUME NEW m \in Manager, NEW p \in PlanId, NEW s \in DB!PlanInput,
         plan[p] = Unborn, DB!NewPlanAccepted(s),
         plan' = [plan EXCEPT ![p] = NewPlanRow(m, s)], task' = task
  PROVE  ServedAlone
<1> PICK f \in TaskPages, g \in PlanPages : f = NoForm /\ g = NoForm
  BY DEF TaskPages, PlanPages
<1>1. Alone(f, g)!NewPlanAccepted(s)
  BY AloneRules
<1>2. Alone(f, g)!CreatePlan(m, p, s)
  BY <1>1 DEF Alone!CreatePlan, NewPlanRow
<1>3. Alone(f, g)!WriteBy(m)
  BY <1>2, AloneRules DEF Alone!WriteBy
<1>4. QED BY <1>3, WritesAreServed

\* The page of a plan, opened by its owner, is fresh.
LEMMA PlanPage ==
  ASSUME TypeOK, NEW p \in PlanId, Stored(plan[p])
  PROVE  \E f \in TaskPages, g \in PlanPages, w \in Manager :
            /\ g.id = p /\ w = plan[p].owner
            /\ Alone(f, g)!FreshPlanForm(w)
<1>1. p \in DB!Plans /\ plan[p].owner \in Manager
  BY StoredIds, StoredPlan
<1> PICK f \in TaskPages, g \in PlanPages :
      f = NoForm /\ g = [id |-> p, seen |-> plan[p]]
  BY <1>1 DEF TaskPages, PlanPages
<1> PICK w \in Manager : w = plan[p].owner
  BY <1>1
<1>2. g # NoForm
  <2>1. plan[p] \in DB!PlanRow
    BY <1>1, StoredIds
  <2>2. g \in DB!PlanForm
    BY <2>1 DEF DB!PlanForm
  <2>3. QED BY <2>2, ValuesAssumption
<1>3. Alone(f, g)!FreshPlanForm(w)
  BY <1>1, <1>2, AloneRules DEF Alone!FreshPlanForm
<1>4. QED BY <1>3

LEMMA UpdatePlanAlone ==
  ASSUME TypeOK, NEW p \in PlanId, NEW s \in DB!PlanInput,
         Stored(plan[p]), plan[p].version < MaxVersion, DB!NewPlanAccepted(s),
         \A t \in TaskId : p \in Assigned(task[t]) => DB!Suits(task[t], s),
         plan' = [plan EXCEPT ![p] = DB!SavedPlan(plan[p], s)], task' = task
  PROVE  ServedAlone
<1> PICK f \in TaskPages, g \in PlanPages, w \in Manager :
      g.id = p /\ w = plan[p].owner /\ Alone(f, g)!FreshPlanForm(w)
  BY PlanPage
<1>1. Alone(f, g)!PlanAccepted(s, Alone(f, g)!TasksOf(p))
  <2>1. Alone(f, g)!NewPlanAccepted(s)
    BY AloneRules
  <2>2. \A t \in Alone(f, g)!TasksOf(p) : t \in TaskId /\ t \in DB!TasksOf(p)
    BY AloneRules DEF DB!TasksOf, DB!Tasks
  <2>3. \A t \in Alone(f, g)!TasksOf(p) : Alone(f, g)!Suits(task[t], s)
    BY <2>2, StoredIds, AloneRules
  <2>4. QED BY <2>1, <2>3 DEF Alone!PlanAccepted, Alone!NewPlanAccepted
<1>2. Alone(f, g)!SavedPlan(plan[p], s) = DB!SavedPlan(plan[p], s)
  BY AloneRules
<1>3. Alone(f, g)!UpdatePlan(w, s)
  BY <1>1, <1>2 DEF Alone!UpdatePlan
<1>4. Alone(f, g)!WriteBy(w)
  BY <1>3, AloneRules DEF Alone!WriteBy
<1>5. QED BY <1>4, WritesAreServed

LEMMA DeletePlanAlone ==
  ASSUME TypeOK, NEW p \in PlanId, Stored(plan[p]),
         \A t \in TaskId : p \in Assigned(task[t]) => task[t].version < MaxVersion,
         task' = [t \in TaskId |-> IF p \in Assigned(task[t])
                                   THEN DB!Left(task[t], p) ELSE task[t]],
         plan' = [plan EXCEPT ![p] = Deleted]
  PROVE  ServedAlone
<1>1. p \in DB!Plans /\ plan[p].owner \in Manager
  BY StoredIds, StoredPlan
<1> PICK f \in TaskPages, g \in PlanPages : f = NoForm /\ g = NoForm
  BY DEF TaskPages, PlanPages
<1> PICK m \in Manager : m = plan[p].owner
  BY <1>1
<1>2. \A t \in TaskId : t \in Alone(f, g)!TasksOf(p) <=> p \in Assigned(task[t])
  BY StoredIds, AloneRules
<1>3. \A t \in Alone(f, g)!TasksOf(p) : t \in TaskId
  BY AloneRules DEF DB!TasksOf, DB!Tasks
<1>4. task' = [t \in TaskId |-> IF t \in Alone(f, g)!TasksOf(p)
                                THEN Alone(f, g)!Left(task[t], p) ELSE task[t]]
  BY <1>2, AloneRules
<1>5. \A t \in Alone(f, g)!TasksOf(p) : task[t].version < MaxVersion
  BY <1>2, <1>3
<1>6. p \in Alone(f, g)!Plans
  BY <1>1, AloneRules
<1>7. Alone(f, g)!DeletePlan(m, p)
  BY <1>4, <1>5, <1>6 DEF Alone!DeletePlan
<1>8. Alone(f, g)!WriteBy(m)
  BY <1>7 DEF Alone!WriteBy
<1>9. QED BY <1>8, WritesAreServed

LEMMA AddTaskAlone ==
  ASSUME TypeOK, NEW p \in PlanId, NEW t \in TaskId,
         Stored(plan[p]), Stored(task[t]), p \notin Assigned(task[t]),
         task[t].version < MaxVersion, task[t].owner = plan[p].owner,
         DB!Suits(task[t], plan[p]),
         task' = [task EXCEPT ![t] = DB!Joined(task[t], p)], plan' = plan
  PROVE  ServedAlone
<1> PICK f \in TaskPages, g \in PlanPages, w \in Manager :
      g.id = p /\ w = plan[p].owner /\ Alone(f, g)!FreshPlanForm(w)
  BY PlanPage
<1>1. t \in Alone(f, g)!Tasks
  BY StoredIds, AloneRules
<1>2. Alone(f, g)!MayJoin(t, p)
  <2>1. t \notin Alone(f, g)!TasksOf(p)
    BY StoredIds, AloneRules
  <2>2. Alone(f, g)!Suits(task[t], plan[p])
    BY AloneRules
  <2>3. QED BY <2>1, <2>2 DEF Alone!MayJoin
<1>3. Alone(f, g)!Joined(task[t], p) = DB!Joined(task[t], p)
  BY AloneRules
<1>4. Alone(f, g)!AddTask(w, t)
  BY <1>1, <1>2, <1>3 DEF Alone!AddTask
<1>5. Alone(f, g)!WriteBy(w)
  BY <1>4 DEF Alone!WriteBy
<1>6. QED BY <1>5, WritesAreServed

LEMMA RemoveTaskAlone ==
  ASSUME TypeOK, NEW p \in PlanId, NEW t \in TaskId,
         Stored(plan[p]), p \in Assigned(task[t]), task[t].version < MaxVersion,
         task' = [task EXCEPT ![t] = DB!Left(task[t], p)], plan' = plan
  PROVE  ServedAlone
<1>1. p \in DB!Plans /\ plan[p].owner \in Manager /\ t \in DB!TasksOf(p)
  BY StoredIds, StoredPlan
<1> PICK f \in TaskPages, g \in PlanPages : f = NoForm /\ g = NoForm
  BY DEF TaskPages, PlanPages
<1> PICK m \in Manager : m = plan[p].owner
  BY <1>1
<1>2. /\ p \in Alone(f, g)!Plans /\ t \in Alone(f, g)!TasksOf(p)
      /\ Alone(f, g)!Left(task[t], p) = DB!Left(task[t], p)
  BY <1>1, AloneRules
<1>3. Alone(f, g)!RemoveTask(m, p, t)
  BY <1>2 DEF Alone!RemoveTask
<1>4. Alone(f, g)!WriteBy(m)
  BY <1>3 DEF Alone!WriteBy
<1>5. QED BY <1>4, WritesAreServed

-----------------------------------------------------------------------------
(***************************************************************************)
(* The commits.                                                            *)
(***************************************************************************)

LEMMA TaskCommitIsServed ==
  ASSUME IInv, Asked, Commit(TaskOf), Overlooked(TaskOf) = {}
  PROVE  ServedAlone \/ UNCHANGED <<task, plan>>
<1> DEFINE x == tx[TaskOf]
<1>1. TaskOf \in Controller /\ TypeOK /\ x # Idle
  BY ControllerAssumption DEF Commit, IInv
<1>2. plan' = plan
  BY CommitOfTask
<1>3. AskedTask(x)
  BY <1>1 DEF Asked
<1>4. /\ \A t \in WrittenTasks(TaskOf) : t \in TaskId
      /\ \A t \in WrittenTasks(TaskOf) : Stored(task[t]) =>
           \A p \in task[t].workPlans : p \in PlanId /\ plan[p] = x.plan[p]
  <2>1. WrittenTasks(TaskOf) \subseteq TaskId
    BY DEF WrittenTasks
  <2> SUFFICES ASSUME NEW t \in WrittenTasks(TaskOf), Stored(task[t]),
                      NEW p \in task[t].workPlans
               PROVE  p \in PlanId /\ plan[p] = x.plan[p]
    BY <2>1
  <2>2. t \in TaskId /\ t \in DB!Tasks /\ p \in PlanId
    BY <1>1, <2>1, StoredIds, StoredTask
  <2>3. <<t, p>> \notin Overlooked(TaskOf)
    OBVIOUS
  <2>4. QED BY <2>2, <2>3 DEF Overlooked
<1> PICK t \in TaskId :
      \/ \E m \in Manager, s \in DB!TaskInput :
           /\ x.task[t] = Unborn /\ DB!NewTaskAccepted(s)
           /\ WritesTask(x, t, NewTaskRow(m, s))
      \/ \E s \in DB!TaskInput :
           /\ Stored(x.task[t]) /\ x.task[t].version < MaxVersion
           /\ DB!NewTaskAccepted(s)
           /\ \A p \in x.task[t].workPlans : DB!Suits(s, x.plan[p])
           /\ WritesTask(x, t, DB!SavedTask(x.task[t], s))
      \/ Stored(x.task[t]) /\ WritesTask(x, t, Deleted)
  BY <1>3 DEF AskedTask
<1>5. ASSUME NEW r, WritesTask(x, t, r), task' # task
      PROVE  /\ t \in WrittenTasks(TaskOf) /\ task[t] = x.task[t]
             /\ task' = [task EXCEPT ![t] = r]
  BY <1>1, <1>5, OneTaskWritten DEF WritesTask
<1> HIDE DEF x
<1> SUFFICES ASSUME task' # task
             PROVE  ServedAlone
  BY <1>2
<1>6. ASSUME NEW m \in Manager, NEW s \in DB!TaskInput,
             x.task[t] = Unborn, DB!NewTaskAccepted(s),
             WritesTask(x, t, NewTaskRow(m, s))
      PROVE  ServedAlone
  BY <1>2, <1>5, <1>6, CreateTaskAlone
<1>7. ASSUME NEW s \in DB!TaskInput,
             Stored(x.task[t]), x.task[t].version < MaxVersion,
             DB!NewTaskAccepted(s),
             \A p \in x.task[t].workPlans : DB!Suits(s, x.plan[p]),
             WritesTask(x, t, DB!SavedTask(x.task[t], s))
      PROVE  ServedAlone
  <2>1. /\ t \in WrittenTasks(TaskOf) /\ task[t] = x.task[t]
        /\ task' = [task EXCEPT ![t] = DB!SavedTask(task[t], s)]
    BY <1>5, <1>7
  <2>2. \A p \in task[t].workPlans : DB!Suits(s, plan[p])
    BY <1>4, <1>7, <2>1
  <2>3. QED BY <1>1, <1>2, <1>7, <2>1, <2>2, UpdateTaskAlone
<1>8. ASSUME Stored(x.task[t]), WritesTask(x, t, Deleted)
      PROVE  ServedAlone
  BY <1>1, <1>2, <1>5, <1>8, DeleteTaskAlone
<1>9. QED BY <1>6, <1>7, <1>8

\* The rows of the tasks that a deleted plan is taken out of.
LEMMA LeftRows ==
  ASSUME IInv, Commit(PlanOf), NEW p \in PlanId,
         \A t \in TaskId : Leaves(tx[PlanOf], p, t) =>
            tx[PlanOf].task[t].version < MaxVersion,
         tx[PlanOf].newTask =
           [t \in TaskId |-> IF Leaves(tx[PlanOf], p, t)
                             THEN DB!Left(tx[PlanOf].task[t], p)
                             ELSE tx[PlanOf].task[t]],
         NEW t \in TaskId
  PROVE  /\ p \in Assigned(task[t]) =>
              /\ task[t].version < MaxVersion
              /\ task'[t] = DB!Left(task[t], p)
         /\ p \notin Assigned(task[t]) => task'[t] = task[t]
<1> DEFINE x == tx[PlanOf]
<1>1. PlanOf \in Controller /\ TypeOK /\ x # Idle
  BY ControllerAssumption DEF Commit, IInv
<1>2. Assigned(task[t]) \subseteq Assigned(x.task[t]) /\ x.task[t] \in TaskRows
  BY <1>1, TransactionFacts DEF IInv, PlanSnapshot
<1>3. task'[t] = IF t \in WrittenTasks(PlanOf) THEN x.newTask[t] ELSE task[t]
  BY DEF Commit
<1>4. CASE p \in Assigned(x.task[t])
  <2>1. x.newTask[t] = DB!Left(x.task[t], p) /\ x.task[t].version < MaxVersion
    BY <1>4 DEF Leaves
  <2>2. Stored(x.task[t]) /\ x.task[t] \in DB!TaskRow /\ p \in x.task[t].workPlans
    BY <1>2, <1>4, StoredTask DEF Assigned
  <2>3. x.newTask[t].workPlans = x.task[t].workPlans \ {p}
    BY <2>1, <2>2, JoinedLeftAdvance
  <2>4. t \in WrittenTasks(PlanOf)
    BY <2>2, <2>3 DEF WrittenTasks
  <2>5. task[t] = x.task[t]
    BY <1>1, <2>4, CommitReads
  <2>6. QED BY <1>3, <1>4, <2>1, <2>4, <2>5
<1>5. CASE p \notin Assigned(x.task[t])
  <2>1. x.newTask[t] = x.task[t]
    BY <1>5 DEF Leaves
  <2>2. t \notin WrittenTasks(PlanOf)
    BY <2>1 DEF WrittenTasks
  <2>3. QED BY <1>2, <1>3, <1>5, <2>2
<1>6. QED BY <1>4, <1>5

LEMMA PlanCommitIsServed ==
  ASSUME IInv, Asked, Commit(PlanOf), Overlooked(PlanOf) = {}
  PROVE  ServedAlone \/ UNCHANGED <<task, plan>>
<1> DEFINE x == tx[PlanOf]
<1>1. PlanOf \in Controller /\ TypeOK /\ x # Idle /\ x.plan = plan
  BY ControllerAssumption DEF Commit, IInv, PlanSnapshot
<1>2. AskedPlan(x)
  BY <1>1 DEF Asked
<1>3. \A p \in WrittenPlans(PlanOf), t \in TaskId :
        p \in Assigned(task[t]) => task[t] = x.task[t]
  <2> SUFFICES ASSUME NEW p \in WrittenPlans(PlanOf), NEW t \in TaskId,
                      p \in Assigned(task[t])
               PROVE  task[t] = x.task[t]
    OBVIOUS
  <2>1. p \in PlanId /\ t \in DB!Tasks /\ p \in task[t].workPlans
    BY <1>1, StoredIds DEF WrittenPlans, Assigned
  <2>2. <<t, p>> \notin Overlooked(PlanOf)
    OBVIOUS
  <2>3. QED BY <2>1, <2>2 DEF Overlooked
<1> PICK p \in PlanId :
    \/ \E m \in Manager, s \in DB!PlanInput :
         /\ x.plan[p] = Unborn /\ DB!NewPlanAccepted(s)
         /\ WritesPlan(x, p, NewPlanRow(m, s))
    \/ \E s \in DB!PlanInput :
         /\ Stored(x.plan[p]) /\ x.plan[p].version < MaxVersion
         /\ DB!NewPlanAccepted(s)
         /\ \A t \in TaskId : Leaves(x, p, t) => DB!Suits(x.task[t], s)
         /\ WritesPlan(x, p, DB!SavedPlan(x.plan[p], s))
    \/ /\ Stored(x.plan[p])
       /\ \A t \in TaskId : Leaves(x, p, t) => x.task[t].version < MaxVersion
       /\ x.newTask = [t \in TaskId |-> IF Leaves(x, p, t)
                                        THEN DB!Left(x.task[t], p)
                                        ELSE x.task[t]]
       /\ x.newPlan = [x.plan EXCEPT ![p] = Deleted]
    \/ \E t \in TaskId :
         /\ Stored(x.plan[p]) /\ Stored(x.task[t]) /\ ~Leaves(x, p, t)
         /\ x.task[t].version < MaxVersion
         /\ x.task[t].owner = x.plan[p].owner
         /\ DB!Suits(x.task[t], x.plan[p])
         /\ WritesTask(x, t, DB!Joined(x.task[t], p))
    \/ \E t \in TaskId :
         /\ Stored(x.plan[p]) /\ Leaves(x, p, t)
         /\ x.task[t].version < MaxVersion
         /\ WritesTask(x, t, DB!Left(x.task[t], p))
  BY <1>2 DEF AskedPlan
<1>4. ASSUME NEW r, WritesPlan(x, p, r)
      PROVE  /\ task' = task
             /\ \/ plan' = plan
                \/ p \in WrittenPlans(PlanOf) /\ plan' = [plan EXCEPT ![p] = r]
  <2>1. x.newTask = x.task /\ x.newPlan = [x.plan EXCEPT ![p] = r]
    BY <1>4 DEF WritesPlan
  <2>2. task' = task
    BY <1>1, <2>1, NoTaskWritten
  <2>3. \/ plan' = plan
        \/ p \in WrittenPlans(PlanOf) /\ plan' = [plan EXCEPT ![p] = r]
    <3>1. PlanOf \in Controller /\ x.newPlan = [x.plan EXCEPT ![p] = r]
      BY <1>1, <2>1
    <3>2. QED BY <3>1, OnePlanWritten
  <2>4. QED BY <2>2, <2>3
<1>5. ASSUME NEW t \in TaskId, NEW r, WritesTask(x, t, r)
      PROVE  /\ plan' = plan
             /\ \/ task' = task
                \/ task[t] = x.task[t] /\ task' = [task EXCEPT ![t] = r]
  BY <1>1, <1>5, NoPlanWritten, OneTaskWritten DEF WritesTask
<1>6. ASSUME Stored(x.plan[p]),
             \A t \in TaskId : Leaves(x, p, t) => x.task[t].version < MaxVersion,
             x.newTask = [t \in TaskId |-> IF Leaves(x, p, t)
                                           THEN DB!Left(x.task[t], p)
                                           ELSE x.task[t]],
             x.newPlan = [x.plan EXCEPT ![p] = Deleted]
      PROVE  ServedAlone
  <2>1. \A t \in TaskId :
          /\ p \in Assigned(task[t]) => /\ task[t].version < MaxVersion
                                        /\ task'[t] = DB!Left(task[t], p)
          /\ p \notin Assigned(task[t]) => task'[t] = task[t]
    BY <1>6, LeftRows
  <2>2. DOMAIN task' = TaskId /\ task' = [t \in TaskId |-> task'[t]]
    BY DEF Commit
  <2>3. task' = [t \in TaskId |-> IF p \in Assigned(task[t])
                                  THEN DB!Left(task[t], p) ELSE task[t]]
    BY <2>1, <2>2
  <2>4. p \in WrittenPlans(PlanOf)
    <3>1. x.newPlan[p] = Deleted /\ x.plan[p] # Deleted
      BY <1>1, <1>6 DEF TypeOK, PlanTable, Stored
    <3>2. QED BY <3>1 DEF WrittenPlans
  <2>5. plan' = [plan EXCEPT ![p] = Deleted]
    <3>1. plan'[p] = Deleted
      BY <1>1, <1>6, <2>4 DEF Commit, TypeOK, PlanTable
    <3>2. plan[p] # Deleted
      BY <1>1, <1>6 DEF Stored
    <3>3. QED BY <1>1, <1>6, <3>1, <3>2, OnePlanWritten
  <2>6. QED BY <1>1, <1>6, <2>1, <2>3, <2>5, DeletePlanAlone
<1> HIDE DEF x
<1> SUFFICES ASSUME ~UNCHANGED <<task, plan>>
             PROVE  ServedAlone
  OBVIOUS
<1>7. ASSUME NEW m \in Manager, NEW s \in DB!PlanInput,
             x.plan[p] = Unborn, DB!NewPlanAccepted(s),
             WritesPlan(x, p, NewPlanRow(m, s))
      PROVE  ServedAlone
  BY <1>1, <1>4, <1>7, CreatePlanAlone
<1>8. ASSUME NEW s \in DB!PlanInput,
             Stored(x.plan[p]), x.plan[p].version < MaxVersion,
             DB!NewPlanAccepted(s),
             \A t \in TaskId : Leaves(x, p, t) => DB!Suits(x.task[t], s),
             WritesPlan(x, p, DB!SavedPlan(x.plan[p], s))
      PROVE  ServedAlone
  <2>1. /\ task' = task /\ p \in WrittenPlans(PlanOf)
        /\ plan' = [plan EXCEPT ![p] = DB!SavedPlan(plan[p], s)]
    BY <1>1, <1>4, <1>8
  <2>2. \A t \in TaskId : p \in Assigned(task[t]) => DB!Suits(task[t], s)
    BY <1>3, <1>8, <2>1 DEF Leaves
  <2>3. QED BY <1>1, <1>8, <2>1, <2>2, UpdatePlanAlone
<1>9. ASSUME NEW t \in TaskId,
             Stored(x.plan[p]), Stored(x.task[t]), ~Leaves(x, p, t),
             x.task[t].version < MaxVersion, x.task[t].owner = x.plan[p].owner,
             DB!Suits(x.task[t], x.plan[p]),
             WritesTask(x, t, DB!Joined(x.task[t], p))
      PROVE  ServedAlone
  <2>1. /\ task[t] = x.task[t] /\ plan' = plan
        /\ task' = [task EXCEPT ![t] = DB!Joined(task[t], p)]
    BY <1>5, <1>9
  <2>2. p \notin Assigned(task[t])
    BY <1>9, <2>1 DEF Leaves
  <2>3. QED BY <1>1, <1>9, <2>1, <2>2, AddTaskAlone
<1>10. ASSUME NEW t \in TaskId,
              Stored(x.plan[p]), Leaves(x, p, t), x.task[t].version < MaxVersion,
              WritesTask(x, t, DB!Left(x.task[t], p))
       PROVE  ServedAlone
  <2>1. /\ task[t] = x.task[t] /\ plan' = plan
        /\ task' = [task EXCEPT ![t] = DB!Left(task[t], p)]
    BY <1>5, <1>10
  <2>2. p \in Assigned(task[t])
    BY <1>10, <2>1 DEF Leaves
  <2>3. QED BY <1>1, <1>10, <2>1, <2>2, RemoveTaskAlone
<1>11. QED BY <1>6, <1>7, <1>8, <1>9, <1>10

\* Whatever the interleaving, a commit is one of the requests of WorkPlans
\* served alone on the tables as they are by then, or the other controller has
\* changed the far end of an assignment that it has validated.
THEOREM SerialOrSkewed == Spec => SerialButForSkew
<1> DEFINE Serial ==
      \A c \in Controller :
        Commit(c) /\ Overlooked(c) = {} =>
          ServedAlone \/ UNCHANGED <<task, plan>>
<1>1. IInv /\ Asked /\ [Next]_vars => [Serial]_vars
  BY TaskCommitIsServed, PlanCommitIsServed, ControllerAssumption
<1>2. Init => Asked
  BY ControllerAssumption DEF Init, Asked
<1>3. IInv /\ Asked /\ [Next]_vars => Asked'
  BY StepAsks
<1>4. QED BY <1>1, <1>2, <1>3, Inductive, PTL DEF Spec, SerialButForSkew
===============================================================================
