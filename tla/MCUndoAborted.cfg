SPECIFICATION Spec
CONSTANTS
    NoRow = NoRow
    s1 = s1
    s2 = s2
    s3 = s3
    Slots <- TwoSlots
    MaxTxn = 3
    LogCap = 6
    Deletes = FALSE
    StaleRestarts = TRUE
CHECK_DEADLOCK FALSE
SYMMETRY SlotSymmetry
PROPERTIES KeepsCommitted
