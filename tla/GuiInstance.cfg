CONSTANTS
    Procs = {p1, p2, p3}
    None = None
    Stale = Stale
    Reused = Reused
SPECIFICATION FairSpec
CHECK_DEADLOCK FALSE
INVARIANTS
    InstanceCanBeFound
PROPERTY StartsShowAWindow
