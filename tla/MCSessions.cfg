SPECIFICATION Spec
CONSTANTS
    Unit = 4
    Epsilon = 2
    MinInt <- MCMinInt
    MaxInt = 7
    Columns <- MCColumns
    Slots <- MCSlots
    NoRow = NoRow
    MaxTxn = 2
    MaxInserts = 2
    InsertedRows <- MCInsertedRows
    Comparisons <- MCComparisons
    UpdatedColumns <- MCUpdatedColumns
VIEW View
INVARIANTS TypeOK IndexesFindWhatScansFind
PROPERTIES EntriesFollowRows ChangesFollowTheCondition UpdatesKeepViews
CHECK_DEADLOCK FALSE
