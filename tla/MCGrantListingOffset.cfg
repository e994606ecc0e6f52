CONSTANTS
    Requests = {r1, r2}
    Tuples <- MCTuples
    Seqs = {1, 3, 4}
    Times = {1}
    InitialTables <- MCTables
    Principals = {"p1", "p2", "team"}
    ByteOrder <- MCByteOrder
    Filters <- MCFilters
    Limits = {0, 2}
    Starts = {0, 1}
    MaxOffset = 8
SPECIFICATION Spec
CHECK_DEADLOCK FALSE
INVARIANT
    OffsetIsHonoured
