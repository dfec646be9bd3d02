SPECIFICATION Spec
CONSTANTS
  MaxSqlAttempts = 6
  RecursionLimit = 17
  MaxBatch = 3
CHECK_DEADLOCK FALSE
INVARIANTS
  EveryCallAnswered
  OnlyIdleRoundsRunOut
PROPERTY ImplementsBudget
