SPECIFICATION Spec
CONSTANTS
  App = App
  Free = Free
  None = None
  Views = {v1}
  Threads = {t1, t2}
  NumRows = 1
  MaxClicks = 2
  Eager = TRUE
  Syntax = FALSE
  RunFails = FALSE
INVARIANT HandlerTracksThread
CHECK_DEADLOCK FALSE
