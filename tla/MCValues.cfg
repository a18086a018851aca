CONSTANTS
  W = 4

SPECIFICATION Spec
\* One evaluation per pair of operands; the expression is then done.
CHECK_DEADLOCK FALSE

INVARIANT ExactInRange
INVARIANT PredicatesMatchSpec
