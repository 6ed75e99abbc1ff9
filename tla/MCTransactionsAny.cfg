SPECIFICATION Spec
CONSTANTS
    NoRow = NoRow
    s1 = s1
    s2 = s2
    s3 = s3
    Slots <- TwoSlots
    MaxTxn = 3
    LogCap = 5
    Deletes = TRUE
    StaleRestarts = TRUE
CHECK_DEADLOCK FALSE
SYMMETRY SlotSymmetry
INVARIANTS TypeOK
PROPERTIES NoPhantoms
