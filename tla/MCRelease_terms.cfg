CONSTANT
  Programs <- SomePrograms
SPECIFICATION Spec
INVARIANTS
  ReleasedOnce
  TypesSurvive
  AgreesWithSema
  DiagnosticsSurvive
CHECK_DEADLOCK FALSE
