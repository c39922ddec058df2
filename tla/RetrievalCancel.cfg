SPECIFICATION Spec
CONSTANTS
  App = App
  Free = Free
  None = None
  Views = {v1}
  Threads = {t1}
  NumRows = 1
  MaxClicks = 1
  Eager = TRUE
  Syntax = FALSE
  RunFails = FALSE
INVARIANT CancelFindsThread
CHECK_DEADLOCK FALSE
