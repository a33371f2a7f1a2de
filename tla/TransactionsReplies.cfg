\* Two requests at a time: a reply and what was committed.
CONSTANTS
  th1 = th1
  th2 = th2
  c1 = c1
  c2 = c2
  None = None
  Stale = Stale
  Thread <- TwoThreads
  Conn <- TwoConnections
  Serial = FALSE
SPECIFICATION Spec
SYMMETRY Symmetry
INVARIANTS RepliesAreTrue
