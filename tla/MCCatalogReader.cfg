CONSTANTS
  n1 = n1
  n2 = n2
  n3 = n3
  sysCatalog = sysCatalog
  sysSequence = sysSequence
  p1 = p1
  UserNames <- MCUserNames
  CatalogTableName <- sysCatalog
  SequenceTableName <- sysSequence
  Paths <- MCPaths
  CreateConstraints <- MCCreateConstraints
  MaxTxOps = 2

SPECIFICATION ReaderSpec
SYMMETRY MCSymmetry

INVARIANT CatalogViewsConsistent
