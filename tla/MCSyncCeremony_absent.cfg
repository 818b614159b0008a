SPECIFICATION FairSyncSpec
CONSTANTS
    n1 = n1  n2 = n2  n3 = n3
    genesis = genesis  tipA = tipA
    Oracles = {1, 2, 3, 4}
    Seeds = {genesis, tipA}
    GenesisSeed = genesis
    Score <- MCScore
    Values = {1, 2}
    MinSigners = 2
    TimeoutBlocks = 100
    Nodes = {n1, n2, n3}
    Local <- LocalAbsent
    ChainSeeds = {tipA}
    EpochStart = 6
    StartHeight = 0
    MaxHeight = 10
    ReorgDepths = {0}
    PreStartWindow = 5
    NonceGraceBlocks = 2
    RoundBlocks = 2
    MaxAttempts = 8
    MaxPendingPerContext = 40
    MaxPendingContexts = 8
    MaxPendingPerEpoch = 128
    MaxProposals = 32
    PriceGaps = FALSE
    LibResults = {TRUE}
    Flaky = {}
    MaxCrashes = 0
    Deadline = 9
INVARIANTS
    CompleteByDeadline
    CompletedBundleVerifies
PROPERTY
    CeremonySucceeds
CHECK_DEADLOCK FALSE
