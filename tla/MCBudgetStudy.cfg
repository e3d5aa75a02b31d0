CONSTANTS
    root = root
    home1 = home1
    home2 = home2
    window = window
    case = case
    r1 = r1
    r2 = r2
    c1 = c1
    c2 = c2
    c3 = c3
    Accounts <- StudyAccounts
    Root = root
    Up <- StudyUp
    Above <- StudyAbove
    Ceiling <- StudyCeiling
    MaxLevels = 4
    Runs <- OneRun
    Home <- OneHome
    Calls <- StudyCalls
    By <- StudyBy
    Pays <- StudyPays
    Asked <- StudyAsked
    Bills = {3}
    Compaction <- WindowCall
    Legacy <- OldCall
    External <- CaseCall
    Ends = {"cancelled"}
    MaxCrashes = 0
SPECIFICATION FairSpec
CHECK_DEADLOCK FALSE
PROPERTIES StoppedSubtreeOnlySettles ReportsAreRecorded
