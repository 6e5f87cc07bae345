SPECIFICATION Spec
CONSTANTS
    RecoverOnStart = FALSE
    PrepareSyncFails = FALSE
    MaxFaults = 1
    MaxCrashes = 1
INVARIANTS ServedStateIsWhole
CHECK_DEADLOCK FALSE
