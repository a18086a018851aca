CONSTANTS
  Vals = {0, 1, 2, 3, 4}
  Typ <- MCTyp
  PKs = {1, 2, 3}
  Datas = {0, 1, 2, 3, 4}
  Docs = {0, 1, 2, 3, 4}
  ScanKinds <- MCPKCompareKinds

SPECIFICATION Spec
\* A scan returns once; nothing follows it in this model.
CHECK_DEADLOCK FALSE

PROPERTY ScanRefinesSpec
