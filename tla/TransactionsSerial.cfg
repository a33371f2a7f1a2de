\* One request at a time, from either thread.
CONSTANTS
  th1 = th1
  th2 = th2
  c1 = c1
  c2 = c2
  None = None
  Stale = Stale
  Thread <- TwoThreads
  Conn <- TwoConnections
  Serial = TRUE
SPECIFICATION Spec
INVARIANTS TypeOK NothingLeaks RepliesAreTrue ActiveAtCommit FreshTransactions
PROPERTIES KeepsTheContract
