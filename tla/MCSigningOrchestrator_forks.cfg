SPECIFICATION AtomicSpec
CONSTANTS
    n1 = n1  n2 = n2
    genesis = genesis  tipA = tipA  tipB = tipB
    Oracles = {1, 2}
    Seeds = {genesis, tipA, tipB}
    GenesisSeed = genesis
    Score <- MCScorePair
    Values = {1}
    MinSigners = 2
    TimeoutBlocks = 2
    Nodes = {n1, n2}
    Local <- LocalPair
    ChainSeeds = {tipA, tipB}
    EpochStart = 2
    StartHeight = 0
    MaxHeight = 3
    ReorgDepths = {0, 1}
    PreStartWindow = 1
    NonceGraceBlocks = 1
    RoundBlocks = 1
    MaxAttempts = 2
    MaxPendingPerContext = 2
    MaxPendingContexts = 2
    MaxPendingPerEpoch = 3
    MaxProposals = 3
    PriceGaps = TRUE
    LibResults = {TRUE}
    Flaky = {n1}
    MaxCrashes = 0
INVARIANTS
    CompletedBundleVerifies
    
    AttemptCoherence
    OwnNonceOutOrHeld
    OwnPsigOutOrHeld
    OwnContextOutOrHeld
    TypeOK
PROPERTY
    ImplementsThresholdSignature
CHECK_DEADLOCK FALSE
