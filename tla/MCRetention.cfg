CONSTANTS
    a = a
    m = m
    o1 = o1
    x1 = x1
    None = None
    Records <- TwoRecords
    Results <- OneResult
    Events = {}
    Activities = {}
    Exports <- OneExport
    Given <- Written
    Withdrawable = {a}
    MaxRevisions <- Revisions
    MaxFaults = 1
    Batch = 2
SPECIFICATION FairSpec
CHECK_DEADLOCK FALSE
INVARIANTS TypeOK AvailableIsClean CompletedDeletionIsTotal ExportFilesAreOwned OpenJobsHaveWork
PROPERTIES WithdrawalStands DeletionFinishes
