CONSTANTS
  Alone <- DeepSource
  Together = {}
  Chunks <- SessionChunks
  Syms = {}
  AspMax = 128
  RspMax = 128
  WordBytes = 8
  MaxHandles = 2
  MaxCode = 1
SPECIFICATION SessionSpec
INVARIANT
  ReturnsFinalValue
CHECK_DEADLOCK FALSE
