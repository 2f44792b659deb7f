CONSTANTS
    PausePolls = 1
    ReopenRetries = 2
    MaxErrors = 1
SPECIFICATION Spec
CHECK_DEADLOCK FALSE
INVARIANTS
    TypeOK
    PcmNeverUsedAfterClose
    NoHandleLeaked
    AckedPauseKeepsAlsaClosed
    ParkedMainKeepsSyncStopped
    CleanShutdown
