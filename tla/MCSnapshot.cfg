CONSTANTS
    None = None
    v1 = v1
    v2 = v2
    ss = ss
    FollowerPid = 1
    Ballots <- MCBallots
    Values = {v1, v2}
    StopSignValue = ss
    RollbackMayFail = FALSE
    DebugBuild = TRUE
    UseSnapshots = TRUE
    StorageFaults = FALSE
    MaxFaults = 0
    MaxPending = 0
    MaxLogLen = 2
    MaxProposals = 2
    MaxSessions = 2
    MaxChan = 2
    MaxNetFaults = 0
    LinkFaults = {"Lose"}
    StopSignEnabled = FALSE
    CompactionEnabled = TRUE
SPECIFICATION Spec
PROPERTIES
    AcceptorRefinement
INVARIANTS
    DecidedWithinLog
    CachedAcceptedValid
    NoLogicPanic
    ReadSplicesVirtualLog
SYMMETRY ValueSymmetry
CHECK_DEADLOCK FALSE
