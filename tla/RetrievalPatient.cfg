SPECIFICATION FairSpec
CONSTANTS
  App = App
  Free = Free
  None = None
  Views = {v1}
  Threads = {t1, t2, t3}
  NumRows = 2
  MaxClicks = 3
  Eager = FALSE
  Syntax = FALSE
  RunFails = FALSE
INVARIANTS
  NoFault
  SettledClean
  HandlerTracksThread
PROPERTIES
  RetrievalEnds
  HandlerReturns
\* The system stops when the last view has settled.
CHECK_DEADLOCK FALSE
