CONSTANTS
  Job = {j1, j2}
  MaxRuns = 2
  Budget = 2
  LaunchLockAt = 1
  MaxOthers = 1
  Setups <- MCSetups
  MaxCrashes = 0
  MaxFaults = 0
  None = None
SPECIFICATION Spec
INVARIANT
  OverlapIsRejected
