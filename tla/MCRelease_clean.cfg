CONSTANT
  Programs <- SomePrograms
SPECIFICATION Spec
CHECK_DEADLOCK FALSE
INVARIANT
  ReleaseIsClean
