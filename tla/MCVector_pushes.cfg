CONSTANTS
  Bytes <- SomeBytes
  Arrays <- SomeArrays
  InitSizes <- SomeSizes
  Junk = junk
  MaxUsed = 9
SPECIFICATION Spec
INVARIANTS
  SizesAreTrue
PROPERTIES
  IsGrowingSeq
  PushEnds
CHECK_DEADLOCK FALSE
