\* The rules between a task and a plan: privacy, dates, assignment.
CONSTANTS
  m1 = m1
  m2 = m2
  t1 = t1
  t2 = t2
  p1 = p1
  w1 = w1
  clean = clean
  spam = spam
  Unborn = Unborn
  Deleted = Deleted
  NoForm = NoForm
  Manager <- OneManager
  TaskId <- OneTask
  PlanId <- OnePlan
  Tab <- OneTab
  ManagerOf <- SameManager
  Title <- CleanTitle
  SpamTitle <- SpamTitles
  Workload <- OneWorkload
  Separators <- NoneOrOne
  WorkloadLimit = 3
  MaxInstant = 3
  MaxVersion = 2
SPECIFICATION Spec
INVARIANTS TypeOK MembersSuitTheirPlans ListedRowsCanBeShown PlansOutlastTheirTasks
\* The clock stops at its bound and every id may be used up.
CHECK_DEADLOCK FALSE
