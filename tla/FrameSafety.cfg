SPECIFICATION Spec
CONSTANTS
  Free = Free
  None = None
  Databases = {d1, d2, d3}
  Pollers = {p1, p2, p3}
  Docs = {o1, o2}
  Careful = FALSE
SYMMETRY Symmetry
INVARIANTS
  TypeOK
  PollerPointersValid
  DeleteFindsThread
  OnePoller
  ConnectedIsPolled
  NoDatabaseLeft
\* The program ends when the frame is gone.
CHECK_DEADLOCK FALSE
