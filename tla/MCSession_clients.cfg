CONSTANTS
  Alone <- SmallSources
  Together <- ProjectSources
  Chunks <- SessionChunks
  Syms = {101, 102}
  AspMax = 4
  RspMax = 4
  WordBytes = 1
  MaxHandles = 6
  MaxCode = 1000
SPECIFICATION SessionSpec
INVARIANTS
  FaultsOnlyWhenDeviant
  FaultsExplained
  BalancedAtReturn
PROPERTIES
  CompilesWellFormed
  KeepsPromise
  Terminates
CHECK_DEADLOCK FALSE
