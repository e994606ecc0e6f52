CONSTANTS
    Requests = {r1, r2}
    NoRequest = NoRequest
    t1 = t1
    t2 = t2
    Tuples = {t1, t2}
    Seqs = {1, 2}
    MaxClock = 1
    InitialTables <- MCTables
SPECIFICATION Spec
CHECK_DEADLOCK FALSE
INVARIANTS
    RevokedIsRevoked
