SPECIFICATION FairSpec
CONSTANTS
  Sys = Sys
  Tables = {a, b, c, v}
  Views = {v}
  Shapes = 2
  Changes = {"create"}
  InWindow = FALSE
  MaxVersion = 4
INVARIANTS
  CatalogExact
  PollSurvives
PROPERTY CreatedIsListed
\* Nothing happens after the last change.
CHECK_DEADLOCK FALSE
