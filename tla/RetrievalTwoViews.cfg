SPECIFICATION FairSpec
CONSTANTS
  App = App
  Free = Free
  None = None
  Views = {v1, v2}
  Threads = {t1, t2}
  NumRows = 1
  MaxClicks = 0
  Eager = FALSE
  Syntax = FALSE
  RunFails = FALSE
PROPERTY HandlerReturns
CHECK_DEADLOCK FALSE
