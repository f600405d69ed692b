CONSTANTS
  Lifetime = 1
  MaxTime = 3
  MaxRequests = 4
  MaxGeneration = 3
  MaxLives = 2
SPECIFICATION Spec
INVARIANTS
  KnowledgeIsTrue
PROPERTIES
  SkipIsRecent
  ImplementsToken
  PowerCallReturns
CHECK_DEADLOCK FALSE
