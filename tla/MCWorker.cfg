SPECIFICATION FairSpec
CONSTANTS
    Attempt <- MCAttempt
    StartTask = {t1, t2, t3, t4}
    Sandbox = {b1, b2, b3}
    None = None
    Strategies <- MCStrategies
    LaunchLockAt = 1
    Dispatch = 1
    ControlledDwell = TRUE
    MaxCrashes = 1
    MaxFaults = 1
INVARIANTS
    TypeOK
    CompletedIsPaused
    EndedWorkIsKept
    DwellBeforeCleanup
PROPERTIES
    AttemptsAreRecorded
CHECK_DEADLOCK FALSE
