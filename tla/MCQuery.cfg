SPECIFICATION SpecQuery
CONSTANTS
    Unit = 4
    Epsilon = 1
    MinInt <- MCMinInt
    MaxInt = 7
    Columns <- MCColumns
    Slots <- MCSlots
    NoRow = NoRow
    MaxTxn = 1
    MaxInserts = 1
    Programs <- MCPrograms
    OtherLines <- MCOtherLines
    Sentences <- MCSentences
    Texts <- MCTexts
    RowsOf <- MCRowsOf
    HashFrom = 3
VIEW View
INVARIANTS LinesAreUnderstood RowsCompareLikeSQL
PROPERTIES SelectAnswers JoinAnswers ChangesAreExact
CHECK_DEADLOCK FALSE
