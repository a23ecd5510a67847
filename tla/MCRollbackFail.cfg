CONSTANTS
    None = None
    v1 = v1
    v2 = v2
    ss = ss
    FollowerPid = 1
    Ballots <- MCBallots
    Values = {v1, v2}
    StopSignValue = ss
    RollbackMayFail = TRUE
    DebugBuild = TRUE
    UseSnapshots = FALSE
    StorageFaults = TRUE
    MaxFaults = 1
    MaxPending = 0
    MaxLogLen = 2
    MaxProposals = 1
    MaxSessions = 2
    MaxChan = 2
    MaxNetFaults = 0
    LinkFaults = {"Lose"}
    StopSignEnabled = FALSE
    CompactionEnabled = FALSE
SPECIFICATION Spec
INVARIANTS
    DecidedWithinLog
SYMMETRY ValueSymmetry
CHECK_DEADLOCK FALSE
