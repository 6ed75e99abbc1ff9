SPECIFICATION Spec
CONSTANTS
    MemPages = 4
    Cap = 2
    t1 = t1
    t2 = t2
    r1 = r1
    r2 = r2
    Tables <- TwoTables
    Rows <- OneRow
    NoRow = NoRow
    Null = Null
    Closed = Closed
    Broken = Broken
    Exhausts = FALSE
SYMMETRY NameSymmetry
INVARIANTS TypeOK ChainsAreLinked NoPageIsLost ObjectsKnowTheirChain
PROPERTIES ImplementsTableStore InsertsStore
