\* Two requests at a time and one connection: every request is answered.
CONSTANTS
  th1 = th1
  th2 = th2
  c1 = c1
  c2 = c2
  None = None
  Stale = Stale
  Thread <- TwoThreads
  Conn <- OneConnection
  Serial = FALSE
SPECIFICATION FairSpec
PROPERTIES EveryRequestIsAnswered
