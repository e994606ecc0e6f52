CONSTANTS
    Requests = {r1}
    NoRequest = NoRequest
    Seqs = {1, 2, 3}
    MaxClock = 2
    InitialTables <- OneTable
    Tuples <- ManyTuples
    Calls <- EveryCall
    IdShape <- MCIdShape
    Ids <- MCIds
    Groups <- MCGroups
    Administrators = {"root"}
    CallerKinds = {"p1", "p2", "root"}
    GrantKinds = {"p1", "p2", "team", "root"}
    InitialIds = {"p1", "p2", "team", "root", "contact", "b1", "t7", "a9", "classify"}
    InitialMembers <- MCMembers
    Deletable = {"b1", "t7", "a9", "ghost"}
    MaxChanges = 2
SPECIFICATION Spec
CHECK_DEADLOCK FALSE
INVARIANTS
    TypeOK
    RowsNameConfirmedIds
    BadRequestIsTheCallersFault
    CallersAct
PROPERTIES
    EveryCallIsAnswered
