CONSTANTS
  Job = {j1, j2}
  MaxRuns = 2
  Budget = 2
  LaunchLockAt = 1
  MaxOthers = 1
  Setups <- MCSetups
  MaxCrashes = 1
  MaxFaults = 1
  None = None
SPECIFICATION FairSpec
INVARIANTS
  TypeOK
  OneRunPerAttempt
  OwnRunningIsBounded
  StatusIsTruthful
PROPERTIES
  NoSecondLaunch
  TicksComplete
  ImplementsLedger
