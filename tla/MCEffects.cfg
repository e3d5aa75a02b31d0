CONSTANTS
    r1 = r1
    r2 = r2
    report = report
    source = source
    ob = ob
    none = none
    live_workspace = live_workspace
    op_edit = op_edit
    op_tool = op_tool
    op_check = op_check
    op_branch = op_branch
    op_draft = op_draft
    op_apply = op_apply
    op_gate = op_gate
    Runs <- TwoRuns
    Ops <- DispatchOps
    NoOp = none
    Action <- DispatchRequests
    Live = live_workspace
    Paths <- TwoPaths
    Versions <- TwoVersions
    DependsOn <- SourceToReport
    About <- Declared
    MaxCrashes = 2
    MaxPins = 0
    MaxStrays = 1
SYMMETRY RunSymmetry
SPECIFICATION Spec
CHECK_DEADLOCK FALSE
INVARIANTS SingleLiveWriter
PROPERTIES ImplementsLedger
