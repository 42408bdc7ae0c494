SPECIFICATION FairPoolSpec
CONSTANTS
    Attempt <- MCAttempt
    StartTask = {t1, t2, t3}
    Sandbox = {b1, b2, b3}
    None = None
    Strategies <- MCStrategies
    LaunchLockAt = 1
    Dispatch = 2
    ControlledDwell = FALSE
    MaxFaults = 1
    MaxCrashes = 0
    Seed = 1
INVARIANTS
    OvershootIsBounded
    SuccessMeansClean
PROPERTIES
    NobodyLosesItsSandbox
    BatchEnds
CHECK_DEADLOCK FALSE
