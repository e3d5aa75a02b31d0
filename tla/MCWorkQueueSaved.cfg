CONSTANTS
    p = p
    a = a
    b = b
    d1 = d1
    d2 = d2
    NoOwner = NoOwner
    NoOne = NoOwner
    Roots <- OneRoot
    Work <- OneItem
    Drains <- OneDrain
    Capacity = 1
    MaxAttempts = 3
    MaxDepth = 1
    MaxItems = 1
    MaxCrashes = 3
    Answers = {"completed"}
SPECIFICATION Spec
CHECK_DEADLOCK FALSE
INVARIANTS SavedResultIsRecorded
