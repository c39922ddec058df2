CONSTANTS
  Tables = {"orders", "customers"}
  Columns <- MCColumns
  MaxQuery = 4
SPECIFICATION Spec
INVARIANTS
  TypeOK
  PageAndDocumentAgree
  ColumnsConserved
  
  QueryFollowsDiagram
  
CONSTRAINT NotBoth
CHECK_DEADLOCK FALSE
