CONSTANTS
    poll = poll
    tilt = tilt
    Pollers <- MCPoll
    Commanders <- MCTilt
SPECIFICATION Spec
CHECK_DEADLOCK FALSE
INVARIANTS
    TimelyUnlessDelayed
