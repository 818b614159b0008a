SPECIFICATION MCSpec
CONSTANTS
    i1 = i1  o1 = o1  o2 = o2  t1 = t1  none = none
    Peers = {i1, o1, o2}
    InboundPeers = {i1}
    NoPeer = none
    MaxDestinations = 2
    MaxShuffles = 2
    Txs = {t1}
    NoTx = none
    Spends <- Unrelated
    Relaying = {o1, o2}
    MaxInputs = 2
INVARIANTS
    RoutesAreLive
    
    OpenFateIsEmbargoed
PROPERTY
    StemPhaseEnds
CHECK_DEADLOCK FALSE
