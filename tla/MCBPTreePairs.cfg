SPECIFICATION Spec
CONSTANTS
    LeafCap = 3
    InnerCap = 3
    OverflowCap = 1
    Null = Null
    NoIndex = NoIndex
    Keys <- FiveKeys
    Locations <- ThreeLocations
    Tables <- SomeTables
    Inserts <- ManyPairs
INVARIANTS TypeOK NoPageIsLost CallsAreExact RangeIsExactOrEmpty
PROPERTY ImplementsMultimap
