CONSTANTS
    ImageChunks = 3
    PageChunks = 2
    MaxModules = 1
    MaxPushed = 2
SPECIFICATION FairLifeSpec
INVARIANTS
    LaunchedImageHasNoHole
    HostKeepsStep
    NothingLeftOpen
    ExitLeavesNothing
    CleanRunRecovers
    FramesFitDevice
    BufferOutlivesLoop
    TornByOneFrame
PROPERTIES
    LateCallsOnlyInTeardown
    PhasesEnd
