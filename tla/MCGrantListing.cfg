CONSTANTS
    Requests = {r1, r2, r3}
    Tuples <- MCTuples
    Seqs = {1, 3, 4}
    Times = {1}
    InitialTables <- MCTables
    Principals = {"p1", "p2", "team"}
    ByteOrder <- MCByteOrder
    Filters <- MCFilters
    Limits = {1, 2}
    Starts = {0}
    MaxOffset = 8
SYMMETRY Symmetry
SPECIFICATION Spec
CHECK_DEADLOCK FALSE
INVARIANTS
    MissesAreRevokes
    RepeatsAreGrants
    EffectiveOrderIsTotal
PROPERTIES
    HealthNeverGoesBack
