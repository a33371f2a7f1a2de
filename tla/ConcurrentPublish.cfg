\* The privacy rule that the message states.
CONSTANTS
  m1 = m1
  t1 = t1
  p1 = p1
  clean = clean
  tasks = tasks
  workplans = workplans
  Unborn = Unborn
  Deleted = Deleted
  NoForm = NoForm
  Idle = Idle
  Manager <- OneManager
  TaskId <- OneTask
  PlanId <- OnePlan
  Title <- OneTitle
  SpamTitle <- NoTitle
  Workload <- OneWorkload
  Controller <- BothControllers
  TaskOf <- TaskController
  PlanOf <- PlanController
  WorkloadLimit = 3
  MaxInstant = 2
  MaxVersion = 2
SPECIFICATION Spec
INVARIANTS NoPublishedPlanWithPrivateTasks
\* Every id may be used up.
CHECK_DEADLOCK FALSE
