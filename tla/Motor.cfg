CONSTANTS
    MaxAngle = 2
    ClaimAttempts = 2
SPECIFICATION Spec
INVARIANTS
    NothingLeftHeld
    DescendsFromZeroWhileTracked
    UndefinedOnlyAfterUsbError
