SPECIFICATION Spec
CONSTANTS
  Sys = Sys
  Tables = {a, b, c, v}
  Views = {v}
  Shapes = 2
  Changes = {"create", "drop", "alter", "rename"}
  InWindow = TRUE
  MaxVersion = 6
SYMMETRY Symmetry
INVARIANT TypeOK
PROPERTY LiveTableKept
\* Nothing happens after the last change, or after a crash.
CHECK_DEADLOCK FALSE
