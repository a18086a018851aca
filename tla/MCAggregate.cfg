CONSTANTS
  NRows = 3
  Inputs <- MCInputs
  W = 3

SPECIFICATION Spec
\* The group ends after its last row; Eval is read in the final state.
CHECK_DEADLOCK FALSE

INVARIANT MinMaxAreExtremes
INVARIANT AvgIsMean
