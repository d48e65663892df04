CONSTANTS
  PerFrame = 3
  NFrames = 2
  Objs <- SomeObjs
  Padding = 1000
  Junk = 700
  MaxBeyond = 2
SPECIFICATION Spec
INVARIANTS
  HandlesHold
PROPERTIES
  IsHandleStack
CHECK_DEADLOCK FALSE
