SPECIFICATION Spec
CONSTANTS
    LeafCap = 3
    InnerCap = 3
    OverflowCap = 1
    Null = Null
    NoIndex = NoIndex
    Keys <- TenKeys
    Locations <- OneLocation
    Tables <- NoRows
    Inserts <- TenPairs
INVARIANTS TreeIsWellFormed CallsAreExact
