SPECIFICATION FairSpec
CONSTANTS
    v1 = v1  v2 = v2  v3 = v3  none = none
    Blocks <- MCBlocks
    Genesis = "g"
    Parent <- MCParent
    Height <- MCHeight
    Branch <- MCBranch
    Txs <- MCTxs
    Follows <- MCFollows
    ThawHeight = 0
    OtherHeights = {3}
    Vaults = {v1, v2, v3}
    Principal <- MCPrincipal
    Collateral <- MCCollateral
    Burn <- MCPrincipal
    MaxAmount = 100
    MaxMoney = 17
    NoRecord = none
    ImportDuringInit = TRUE
    MaxStops = 4
INVARIANTS
    CheckedHistoryIsClean
    RunningIsReady
PROPERTIES
    AlwaysRunsAgain
