SPECIFICATION Spec
CONSTANTS
  Sys = Sys
  Tables = {a}
  Views = {}
  Shapes = 1
  Changes = {"drop"}
  InWindow = FALSE
  MaxVersion = 3
INVARIANT NoFalseAlarm
CHECK_DEADLOCK FALSE
