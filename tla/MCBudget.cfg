CONSTANTS
    root = root
    home1 = home1
    home2 = home2
    window = window
    case = case
    r1 = r1
    r2 = r2
    c1 = c1
    c2 = c2
    c3 = c3
    Accounts <- TreeAccounts
    Root = root
    Up <- TreeUp
    Above <- TreeAbove
    Ceiling <- TreeCeiling
    MaxLevels = 4
    Runs <- BothRuns
    Home <- TheirHomes
    Calls <- TreeCalls
    By <- TreeBy
    Pays <- TreePays
    Asked <- TreeAsked
    Bills = {0, 3}
    Compaction = {}
    Legacy = {}
    External <- OuterCall
    Ends = {"cancelled", "completed", "interrupted"}
    MaxCrashes = 1
SPECIFICATION Spec
CHECK_DEADLOCK FALSE
INVARIANTS WithinCeilings PaidIsFunded NothingSentIsGivenBack
PROPERTIES ImplementsCallLedger
