SPECIFICATION Spec
CONSTANTS
    RecoverOnStart = TRUE
    PrepareSyncFails = FALSE
    MaxFaults = 3
    MaxCrashes = 2
INVARIANTS MutationIsReversible ServedStateIsWhole PromiseKept NothingLeftBehind
PROPERTIES ImplementsAtomicRestore CleanupIsRetried
CHECK_DEADLOCK FALSE
