CONSTANTS
    a = a
    b = b
    v = v
    w = w
    None = None
    Attachments <- OneAttachment
    Work <- OneItem
    CoordinatedWrites = TRUE
    Steering = TRUE
    Kinds = {"started", "completed"}
    BatchSize = 1
    MaxBacklog = 2
    MaxAttempts = 2
    MaxDeliveries = 2
    Answers = {"completed", "cancelled", "interrupted"}
    Outcomes = {"acknowledged", "unknown"}
    Parking = TRUE
    Disturbances = {"deadline", "outdated", "source deleted"}
    MaxEvents = 2
    MaxStarts = 2
SPECIFICATION FairSpec
CHECK_DEADLOCK FALSE
INVARIANTS   CompletedIsQuiet
  
