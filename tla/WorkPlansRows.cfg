\* Two managers with their rows, titles, and pages that grow old.
CONSTANTS
  m1 = m1
  m2 = m2
  t1 = t1
  t2 = t2
  p1 = p1
  w1 = w1
  clean = clean
  spam = spam
  Unborn = Unborn
  Deleted = Deleted
  NoForm = NoForm
  Manager <- TwoManagers
  TaskId <- TwoTasks
  PlanId <- OnePlan
  Tab <- OneTab
  ManagerOf <- SameManager
  Title <- BothTitles
  SpamTitle <- SpamTitles
  Workload <- OneWorkload
  Separators <- None
  WorkloadLimit = 3
  MaxInstant = 2
  MaxVersion = 2
SYMMETRY TaskSymmetry
SPECIFICATION Spec
INVARIANTS MembershipSound OffersAreAcceptable VersionIdentifiesRow PublicTitlesClean
PROPERTIES NoLostUpdate OnlyOwnRowsChange
\* The clock stops at its bound and every id may be used up.
CHECK_DEADLOCK FALSE
