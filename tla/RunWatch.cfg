SPECIFICATION WatchFairSpec
CONSTANTS
  Runs = {r1, r2}
  NoRun = NoRun
  MaxFailures = 2
CHECK_DEADLOCK FALSE
INVARIANTS
  ShownCompletedHasPlan
  SelectedIsShown
PROPERTIES
  VerificationIsNotTakenBack
  VerdictIsShown
