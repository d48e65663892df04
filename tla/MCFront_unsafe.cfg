CONSTANT
  Plans <- UnsafePlan
SPECIFICATION Spec
INVARIANT
  AcceptedIsSafe
CHECK_DEADLOCK FALSE
