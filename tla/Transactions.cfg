SPECIFICATION Spec
CONSTANTS
  None = None
  Calls = {c1, c2, c3}
  Failures = {"read", "write", "commit", "analyze"}
SYMMETRY Symmetry
INVARIANTS
  TypeOK
  ShownIsSaved
PROPERTY
  CallsAreAtomic
\* The program ends when all calls are made and the database is closed.
CHECK_DEADLOCK FALSE
