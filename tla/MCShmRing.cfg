CONSTANTS
    driver = driver
    view = view
    RingSize = 3
    Followers <- MCFollowers
    Peekers <- MCPeekers
    MaxFrames = 4
SPECIFICATION FairSpec
CHECK_DEADLOCK FALSE
INVARIANTS
    WholeUnlessLapped
    NeverOlderThanSeq
    AtMostThreeTimes
PROPERTIES
    NeverBackwards
    ImplementsMailbox
    FollowersCatchUp
