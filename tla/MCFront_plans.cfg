CONSTANT
  Plans <- SomePlans
SPECIFICATION Spec
INVARIANTS
  NeverGoesWrong
  ResolvesNames
  InfersPrincipalType
  DeclarationsAreFound
CHECK_DEADLOCK FALSE
