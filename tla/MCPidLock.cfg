CONSTANTS
    p1 = p1
    p2 = p2
    p3 = p3
    root = root
    user = user
    Processes <- MCProcesses
    Users <- MCUsers
    Root <- root
    None = None
    MaxRemovals = 2
SPECIFICATION Spec
INVARIANTS
    DaemonsCounted
    FileNamesDaemon
    SomeoneGetsIn
PROPERTY RefusedForAReason
SYMMETRY MCSymmetry
CONSTRAINT MCPromised
