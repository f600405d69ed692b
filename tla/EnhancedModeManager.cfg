SPECIFICATION Spec
INVARIANTS
  AppliedIsTrue
  RemovalIsTrue
PROPERTIES
  OperationEnds
