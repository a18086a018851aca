CONSTANTS
  none = none
  Enc <- MCEnc
  None <- none
  MaxRanges = 2

SPECIFICATION Spec
\* A list stops growing at MaxRanges; the planner then runs the scan.
CHECK_DEADLOCK FALSE




INVARIANT ValueRangesMatchSpec
