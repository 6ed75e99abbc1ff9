SPECIFICATION Spec
CONSTANTS
    NoRow = NoRow
    s1 = s1
    s2 = s2
    s3 = s3
    Slots <- ThreeSlots
    MaxTxn = 3
    LogCap = 6
    Deletes = FALSE
    StaleRestarts = FALSE
CHECK_DEADLOCK FALSE
SYMMETRY SlotSymmetry
INVARIANTS RolledBack
PROPERTIES RepeatableRead KeepsCommitted ImplementsSnapshotStore
