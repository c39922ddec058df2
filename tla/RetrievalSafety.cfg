SPECIFICATION Spec
CONSTANTS
  App = App
  Free = Free
  None = None
  Views = {v1, v2}
  Threads = {t1, t2, t3}
  NumRows = 2
  MaxClicks = 2
  Eager = TRUE
  Syntax = TRUE
  RunFails = TRUE
SYMMETRY Symmetry
INVARIANTS
  TypeOK
  ConnectionExclusive
  RowHandshake
  HandlerAlive
\* Deadlocks are real in this code (see the run RetrievalTwoViews).
CHECK_DEADLOCK FALSE
