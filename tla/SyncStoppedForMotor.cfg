CONSTANTS
    PausePolls = 1
    ReopenRetries = 1
    MaxErrors = 1
SPECIFICATION Spec
CHECK_DEADLOCK FALSE
INVARIANT SyncStoppedForMotor
