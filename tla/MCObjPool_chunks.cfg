CONSTANTS
  c1 = c1
  c2 = c2
  c3 = c3
  Null = Null
  Chunks <- ThreeChunks
  ChunkLen = 2
  Words <- OneWord
SYMMETRY Symmetry
SPECIFICATION Spec
INVARIANTS
  TypeOK
  FreeListIntact
PROPERTIES
  HandsOutOnce
CHECK_DEADLOCK FALSE
