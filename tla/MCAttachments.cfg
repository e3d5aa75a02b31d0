CONSTANTS
    a = a
    b = b
    v = v
    w = w
    None = None
    Attachments <- TwoAttachments
    Work <- TwoItems
    CoordinatedWrites = TRUE
    Steering = FALSE
    Kinds = {"tool"}
    BatchSize = 1
    MaxBacklog = 1
    MaxAttempts = 1
    MaxDeliveries = 1
    Answers = {"completed"}
    Outcomes = {}
    Parking = FALSE
    Disturbances = {"handoff deadline"}
    MaxEvents = 1
    MaxStarts = 2
SYMMETRY AllSymmetry
SPECIFICATION Spec
CHECK_DEADLOCK FALSE
INVARIANTS LiveWriteNeedsHold SingleCoordinator
