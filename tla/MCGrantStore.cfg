CONSTANTS
    Requests = {r1, r2, r3}
    NoRequest = NoRequest
    t1 = t1
    t2 = t2
    Tuples = {t1, t2}
    Seqs = {1, 2}
    MaxClock = 2
    InitialTables <- MCTables
SYMMETRY Symmetry
SPECIFICATION Spec
CHECK_DEADLOCK FALSE
INVARIANTS
    TypeOK
    OneActiveRowPerTuple
    SeqsNumberTheRows
    InsertNeverCollides
    LockFollowsTheTransaction
    GrantedInSeqOrder
    CreateAnswersTellWhatWasWritten
    RevokeAnswersAgree
PROPERTIES
    HistoryOnlyGrows
    RegistryPromises
