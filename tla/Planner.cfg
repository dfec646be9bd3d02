SPECIFICATION Spec
CONSTANTS
  MaxSqlAttempts = 5
  RecursionLimit = 20
  MaxBatch = 2
  MaxClaims = 2
CHECK_DEADLOCK FALSE
INVARIANTS
  EveryCallAnswered
  WithinRecursionLimit
  OnlyMisfitsDropped
PROPERTY ImplementsBudget
