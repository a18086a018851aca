CONSTANTS
  NKeys = 3
  Vals <- MCVals
  Fields <- MCFields
  Missing = Missing
  BufferSize = 2
  MaxUpdates = 3

SPECIFICATION Spec
\* Run returns after its last batch; nothing follows in this model.
CHECK_DEADLOCK FALSE

PROPERTY UpdateMatchesSpec
