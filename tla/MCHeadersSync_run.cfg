SPECIFICATION MCSpec
CONSTANTS
    none = none
    NoBlock = none
    Algos = {0, 1, 2}
    OldAlgo = 1
    NewAlgo = 2
    NumAlgos = 2
    SwapHeight = 10
    AlgoLock = 8
    WorkChange = 8
    AveragingInterval = 1
    MedianTimeSpan = 3
    TargetSpacing = 10
    TargetTimespan = 20
    MinTimespan = 18
    MaxTimespan = 23
    LocalAdjustment = 4
    PowLimit = 1000
    InitialTarget <- Initials
    WorkFactor <- Factors
    MaxHash = 100000
    Base <- MCBase
    MinWork = 44500
    MaxHeaders = 2
    MaxAnnounce = 1
    CommitmentPeriod = 2
    MaxCommitments = 6
    BufferSize = 1
    OldBlocks <- MCOldBlocks
    Ahead = 4
    NewBlocks <- MCNewBlocks
    MaxChanges = 1
    MaxCrossed = 2
INVARIANTS WorkIsExact AbsenceEases
PROPERTIES ReleasedOnEvidence SyncCompletes
CHECK_DEADLOCK FALSE
