CONSTANTS
    Requests = {r1}
    NoRequest = NoRequest
    Seqs = {1, 2, 3}
    MaxClock = 1
    InitialTables <- OneTable
    Tuples <- EverybodysTuples
    Calls <- RaceCalls
    IdShape <- MCIdShape
    Ids <- MCIds
    Groups <- MCGroups
    Administrators = {"root"}
    CallerKinds = {"p1", "p2", "root"}
    GrantKinds = {"p1", "p2", "team", "root"}
    InitialIds = {"p1", "p2", "team", "root", "contact", "b1", "t7", "a9", "classify"}
    InitialMembers <- MCMembers
    Deletable = {"b1"}
    MaxChanges = 0
SPECIFICATION Spec
CHECK_DEADLOCK FALSE
INVARIANTS
    RevokeNeedsNoOwner
