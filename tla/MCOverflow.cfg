CONSTANTS
  W = 4

SPECIFICATION OverflowSpec
\* Each evaluation and the group end; nothing follows.
CHECK_DEADLOCK FALSE

INVARIANT ArithmeticIsExact
