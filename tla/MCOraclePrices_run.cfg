SPECIFICATION Spec
CONSTANTS
    Offers <- MCOffers
    Gaps = {1800, 3600}
    MaxHeight = 5
    MaxStops = 1
    ThawHeight = 5
    ScanDepth = 10
    ValidityBlocks = 2
    CacheSize = 3
    MinInterval = 3600
    Hour = 3600
    Day = 7200
    Week = 7200
    MaxAge = 2592000
    MaxPoints = 720
    Cooldown = 0
    MinDepth = 1
    MaxDepth = 3
    Samples = 2
    ImportDuringInit = FALSE
INVARIANTS
    HistoryMatchesScan
    FreezeFollowsHistory
    CachedPriceIsNewest

    
