SPECIFICATION MCSpec
CONSTANTS
    n1 = n1  n2 = n2  n3 = n3  none = none
    Nodes = {n1, n2, n3}
    Oracles = {1, 2}
    Host <- Ends
    Peers <- Line
    NoQuote = none
    MinOracles = 2
    StaleAge = 2
    CleanAge = 2
    MaxAge = 5
    MaxSeen = 3
    MaxFaults = 1
    Prices = {0, 1, 2, 3, 5, 8}
    MaxQuotes = 8
INVARIANTS
    QuorumReturns
    ConsensusIsRecent
    ConsensusPriceIsRobust
