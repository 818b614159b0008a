SPECIFICATION ThreadsSpec
CONSTANTS
    n1 = n1  n2 = n2
    genesis = genesis  tipA = tipA  tipB = tipB
    Oracles = {1, 2}
    Seeds = {genesis, tipA, tipB}
    GenesisSeed = genesis
    Score <- MCScorePair
    Values = {1}
    MinSigners = 2
    TimeoutBlocks = 3
    Nodes = {n1, n2}
    Local <- LocalPair
    ChainSeeds = {tipA}
    EpochStart = 2
    StartHeight = 0
    MaxHeight = 4
    ReorgDepths = {0}
    PreStartWindow = 1
    NonceGraceBlocks = 1
    RoundBlocks = 1
    MaxAttempts = 2
    MaxPendingPerContext = 2
    MaxPendingContexts = 2
    MaxPendingPerEpoch = 3
    MaxProposals = 3
    PriceGaps = FALSE
    LibResults = {TRUE}
    Flaky = {}
    MaxCrashes = 0
INVARIANT EarlyPsigNotLost
CHECK_DEADLOCK FALSE
