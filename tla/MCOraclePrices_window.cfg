SPECIFICATION Spec
CONSTANTS
    Offers <- MCOffers
    Gaps = {1800, 3600}
    MaxHeight = 4
    MaxStops = 0
    ThawHeight = 9
    ScanDepth = 3
    ValidityBlocks = 2
    CacheSize = 3
    MinInterval = 3600
    Hour = 3600
    Day = 5400
    Week = 5400
    MaxAge = 5400
    MaxPoints = 720
    Cooldown = 1
    MinDepth = 1
    MaxDepth = 3
    Samples = 2
    ImportDuringInit = FALSE
INVARIANT RestartKeepsVerdicts
