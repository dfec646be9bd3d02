SPECIFICATION Spec
CONSTANTS
  Runs = {r1, r2, r3}
  MaxFaults = 2
  MaxWorkers = 2
  MaxCrashes = 1
SYMMETRY RunSymmetry
INVARIANTS
  AnsweredIffJudgeScheduled
  EndedRunIsClosed
  LogOpenWhileInUse
PROPERTIES
  ImplementsRecord
  JudgeStatusAdvances
