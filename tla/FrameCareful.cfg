SPECIFICATION ProgramFairSpec
CONSTANTS
  Free = Free
  None = None
  Databases = {d1, d2}
  Pollers = {p1, p2}
  Docs = {o1, o2}
  Retrievals = {r1, r2}
  Careful = TRUE
  CreatesDatabases = TRUE
INVARIANTS
  ProgramTypeOK
  DocumentsShareDatabase
  DatabasesOutliveThreads
  PollExcludesRetrieval
PROPERTY MainReturnsUnlessBlocked
\* The program ends when the frame is gone.
CHECK_DEADLOCK FALSE
