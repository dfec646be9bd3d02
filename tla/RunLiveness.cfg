SPECIFICATION FairSpec
CONSTANTS
  Runs = {r1, r2}
  MaxFaults = 1
  MaxWorkers = 1
  MaxCrashes = 1
PROPERTIES
  RequestsEnd
  JudgesReport
  ShutdownEnds
