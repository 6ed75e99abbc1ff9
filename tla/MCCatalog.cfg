SPECIFICATION Spec
CONSTANTS
    TableNames <- ThreeTables
    ColumnNames <- TwoColumns
    Truncated <- CutTo2
    TruncatedIndex <- CutIndexNames
    NoColumn = 9
    Schemas <- OneSchema
    TxnColumn = 0
    PageIDs <- Pages
    TableSlots = 2
    IndexSlots = 2
    Null <- NoPage
VIEW View
CHECK_DEADLOCK FALSE
INVARIANTS TypeOK NamesLeadToTheirPages IndexListsAgree NothingIsLost ColumnsKeepTheirOrder
PROPERTIES RestartsKeepNames
