CONSTANTS
    p = p
    a = a
    b = b
    d1 = d1
    d2 = d2
    NoOwner = NoOwner
    NoOne = NoOwner
    Roots <- OneRoot
    Work <- OneItem
    Drains <- TwoDrains
    Capacity = 1
    MaxAttempts = 2
    MaxDepth = 2
    MaxItems = 2
    MaxCrashes = 2
    Answers = {"completed", "abstained", "cancelled", "exhausted", "interrupted", "failed"}
SYMMETRY DrainSymmetry
SPECIFICATION Spec
CHECK_DEADLOCK FALSE
INVARIANTS CompletedHasResult SingleExecutor
PROPERTIES SettledIsFinal WaitIsDurable LiveLeaseEndsWithItsOwner
