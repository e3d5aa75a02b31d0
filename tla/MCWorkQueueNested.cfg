CONSTANTS
    p = p
    a = a
    b = b
    d1 = d1
    d2 = d2
    NoOwner = NoOwner
    NoOne = NoOwner
    Roots <- OneRoot
    Work <- TwoItems
    Drains = {}
    Capacity = 1
    MaxAttempts = 1
    MaxDepth = 2
    MaxItems = 2
    MaxCrashes = 1
    Answers = {"completed", "interrupted"}
SPECIFICATION FairSpec
CHECK_DEADLOCK FALSE
INVARIANTS ChildrenBeforeParent SomeoneBelowCanMove
PROPERTIES  StoppedParentClosesChildren ParkedRunProceeds
