CONSTANTS
  MaxNarrow = 3
  Garbage <- SmallGarbage
  Lengths <- SmallLengths
  Spans <- SmallSpans
  MaxMade = 3
  MaxTexts = 3
SPECIFICATION Spec
INVARIANTS
  TypeOK
  FirstSourceKept
PROPERTIES
  NarrowIsStable
CHECK_DEADLOCK FALSE
