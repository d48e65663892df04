CONSTANTS
  Chunks <- Bytes
  Syms = {7}
  AspMax = 6
  RspMax = 8
  WordBytes = 1
  MaxHandles = 2
  MaxCode = 1
SPECIFICATION FSpec
INVARIANTS
  TypeOK
  NoDangling
  FramesFound
PROPERTIES
  ClosureKeepsScope
  EndLetDropsInnermost
  MachineSpec
CHECK_DEADLOCK FALSE
