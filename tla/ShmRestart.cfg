CONSTANTS
    Objects = {o1, o2}
    None = None
    RingSize = 3
    SeqHalf = 3
SPECIFICATION FairSpec
INVARIANTS
    NoBlankFrames
PROPERTY StreamFollowsRestarts
