CONSTANTS
    a = a
    o1 = o1
    e1 = e1
    c1 = c1
    c2 = c2
    c3 = c3
    c4 = c4
    c5 = c5
    None = None
    Records <- OneRecord
    Results <- OneResult
    Events <- OneEvent
    Activities <- FiveActivities
    Exports = {}
    Given <- Written
    Withdrawable = {a}
    MaxRevisions <- TwoEach
    MaxFaults = 0
    MaxRuns = 2
    Window = 1
    Batch = 8
SPECIFICATION SessionSpec
CHECK_DEADLOCK FALSE
INVARIANTS AvailableIsClean CompletedDeletionIsTotal ProviderContentWasAvailable ViewIsWhole
