------------------------ MODULE PublicListings_proofs -------------------------
(***************************************************************************)
(* The public pages agree with each other, for any number of tasks and     *)
(* plans: a consequence of the invariants of WorkPlans.                    *)
(***************************************************************************)
EXTENDS PublicListings, WorkPlans_proofs

\* Both properties follow from the rules that tie a task to its plans.
LEMMA ListsAgree ==
  ASSUME TypeOK, MembershipSound, MembersSuitTheirPlans
  PROVE  ListedRowsCanBeShown /\ PlansOutlastTheirTasks
<1>1. ASSUME NEW p \in Plans \ replaced, NEW t \in TasksListedOf(p) \ unchecked
      PROVE  /\ plan[p].privacy = "PUBLIC" /\ t \in Tasks \ unchecked
             /\ Suits(task[t], plan[p])
  BY <1>1 DEF TasksListedOf, TasksOf, MembersSuitTheirPlans
<1>2. ListedRowsCanBeShown
  BY <1>1 DEF ListedRowsCanBeShown, AnonymousMayShow, AnonymousMayShowPlan,
              AuthenticatedMayShow, ActivePublicTasks, UnfinishedPublicPlans, FinishedPublicTasks, Suits
<1>3. ASSUME NEW p \in Plans \ replaced, NEW t \in TasksListedOf(p) \ unchecked,
             t \in ActivePublicTasks
      PROVE  p \in UnfinishedPublicPlans
  <2>1. task[t] \in TaskRow /\ plan[p] \in PlanRow /\ now \in Int
    BY <1>1, <1>3, BoundsAssumption DEF TypeOK, Tasks, Plans, Instant
  <2>2. task[t].ending \in Int /\ plan[p].ending \in Int
    BY <2>1, BoundsAssumption DEF TaskRow, PlanRow, Instant
  <2>3. task[t].ending >= now /\ task[t].ending =< plan[p].ending
    BY <1>1, <1>3 DEF ActivePublicTasks, Suits
  <2>4. plan[p].ending >= now
    BY <2>1, <2>2, <2>3
  <2>5. QED
    BY <1>1, <1>3, <2>4 DEF UnfinishedPublicPlans
<1>4. QED
  BY <1>2, <1>3 DEF PlansOutlastTheirTasks

\* Whoever finds a row in a public list can open it.
THEOREM ListedRowsOpen == Spec => []ListedRowsCanBeShown
<1>1. IInv => ListedRowsCanBeShown
  BY ListsAgree DEF IInv
<1>2. QED
  BY <1>1, Inductive, PTL

\* A plan is in the public list as long as any of its listed tasks is active.
THEOREM PlansOutlastTasks == Spec => []PlansOutlastTheirTasks
<1>1. IInv => PlansOutlastTheirTasks
  BY ListsAgree DEF IInv
<1>2. QED
  BY <1>1, Inductive, PTL
===============================================================================
