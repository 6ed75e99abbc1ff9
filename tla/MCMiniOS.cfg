SPECIFICATION Spec
CONSTANTS
    MemPages = 3
    c1 = c1
    c2 = c2
    Contents <- TwoContents
    Zero = c1
    Null = Null
    NoFile = NoFile
INVARIANTS TypeOK ThrowsOnlyWhenFull
PROPERTIES ImplementsPageStore
