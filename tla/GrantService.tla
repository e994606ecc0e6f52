---------------------------- MODULE GrantService ----------------------------
(* grant-store's HTTP handlers over its database layer: src/server.go,       *)
(* src/principal_enforcement.go, and Store.Create, Store.Effective,          *)
(* Store.List and Store.Get as they call them (src/grant.go).                *)
(*                                                                           *)
(* A handler is a goroutine.  Between two of its owner calls or statements   *)
(* anything may happen: other handlers write, a human joins or leaves a      *)
(* group, is disabled, a board is deleted.  One action below is one such     *)
(* call with the code that follows it, up to the next; from BEGIN on, the    *)
(* statements are those of GrantStore.                                       *)
EXTENDS GrantQueries, GrantVocabulary, OwnerAnswers

CONSTANTS
    Requests, NoRequest, Seqs, MaxClock, InitialTables,   \* as in GrantStore
    Tuples,          \* the bodies callers may POST, well described or not
    Calls,           \* the calls callers may make: see CallsAssumption
    Ids,             \* every principal and resource id
    Groups,          \* the principals that are groups
    Administrators,  \* principal-store's is_administrator
    CallerKinds,     \* principals whose kind acts as a caller
    GrantKinds,      \* principals whose kind acts in this deployment
    InitialIds,      \* the ids there are to begin with
    InitialMembers,  \* principal -> the groups it is in, to begin with
    Deletable,       \* the resources that may be deleted
    MaxChanges       \* bound: changes at the owners

VARIABLES
    grants, writeLock, pc, ask, nextSeq, stamp, answer, clock, up,
    existing,        \* the ids their owners have
    disabled,        \* the principals disabled
    memberOf,        \* principal -> the groups it is in
    changes,         \* how many times an owner has changed
    call,            \* what each request asks over HTTP
    stage,           \* where its handler is
    unrestricted,    \* grantCaller.unrestricted
    holders,         \* Effective's local holders
    found,           \* the row revokeGrant or getGrant has read, if any
    reply,           \* the HTTP status and the rows of the answer
    window           \* history: what was so while each request was in flight

Store == INSTANCE GrantStore

ASSUME StoreAssumption ==
    Store!RequestsAssumption /\ Store!BoundsAssumption /\ Store!TablesAssumption

storeVars == <<grants, writeLock, pc, ask, nextSeq, stamp, answer, clock, up>>

ownerVars == <<existing, disabled, memberOf, changes>>

handlerVars == <<call, stage, unrestricted, holders, found, reply>>

vars == <<storeVars, ownerVars, handlerVars, window>>

\* A caller presents the service token, or nothing that is one, or an id.
Service == "service token"

Strangers == {"wrong token", "no header"}

\* What a body or a header names is an id, or is none.
ASSUME IdsAssumption ==
    /\ (Strangers \cup {Service, AllResources, ""}) \cap Ids = {}
    /\ \A t \in Tuples :
         {t.principal_id, t.resource_id} \subseteq Ids \cup {AllResources, ""}

ASSUME OwnersAssumption ==
    /\ Groups \cup InitialIds \cup Deletable \cup DOMAIN InitialMembers \subseteq Ids
    /\ InitialMembers \in [DOMAIN InitialMembers -> SUBSET Groups]
    /\ MaxChanges \in Nat

\* A body may not decode.  The words of a query string are anybody's, "" where
\* one is left out; limit and offset are GrantListing's.
ASSUME CallsAssumption ==
    \A c \in Calls :
        /\ c.caller \in {Service} \cup Strangers \cup Ids
        /\ \/ c.op = "create" /\ c.wish \in Tuples /\ c.decodes \in BOOLEAN
           \/ c.op \in {"get", "revoke"} /\ c.seq \in Seqs
           \/ c.op = "list" /\ DOMAIN c.filter = {"by", "include_revoked"}
           \/ c.op = "effective" /\ c.principal_id \in Ids
                                 /\ {"relation", "resource_type"} \subseteq DOMAIN c
           \/ c.op = "settings"

NoCall == [op |-> "none", caller |-> Service]

NotReplied == [status |-> 0, rows |-> {}]

-----------------------------------------------------------------------------
(* What the handlers read.                                                   *)

ActiveRows == {row \in grants : Store!Active(row)}

\* The active groups of p, as principal-store expands them.
GroupsOf(p) == IF p \in DOMAIN memberOf THEN memberOf[p] \ disabled ELSE {}

\* A mutant of the next: the groups dropped on the way to the query.
HolderAlone(p) == {p}

\* Another: groups cached when the process began, and not asked for again.
HoldersOnceOf(p) ==
    {p} \cup IF p \in DOMAIN InitialMembers THEN InitialMembers[p] ELSE {}

\* Effective's local holders.
HoldersOf(p) == {p} \cup GroupsOf(p)

\* The rows that make a holder an administrator of a board.
Administering(rows, board) ==
    {row \in rows : /\ row.tuple.relation = "can_administer"
                    /\ row.tuple.resource_type = "board"
                    /\ row.tuple.resource_id = board}

RowsNumbered(s) == {row \in grants : row.seq = s}

OnBoard(row) == row.tuple.resource_type = "board"

\* The board whose can_administer a restricted call needs.
BoardOf(r) ==
    CASE call[r].op = "create" -> call[r].wish.resource_id
      [] call[r].op = "list"   -> call[r].filter.by.resource_id
      [] OTHER -> (CHOOSE row \in found[r] : TRUE).tuple.resource_id

\* The filters of a query that must be words of the vocabulary, if they are there.
KnowsWords(relation, type) ==
    relation \in Relations \cup {""} /\ type \in ResourceTypes \cup {""}

\* Whose grants Effective reads: a principal's own, or the caller's authority.
SubjectOf(c) == IF c.op = "effective" THEN c.principal_id ELSE c.caller

-----------------------------------------------------------------------------
(* How a handler moves.                                                      *)

Respond(r, status, rows) ==
    /\ stage' = [stage EXCEPT ![r] = "done"]
    /\ reply' = [reply EXCEPT ![r] = [status |-> status, rows |-> rows]]

GoOn(r, step) == stage' = [stage EXCEPT ![r] = step] /\ UNCHANGED reply

InHandler(r) == stage[r] \notin {"idle", "done"}

\* A request is being served until its handler, or the store, has answered.
Serving(r) == InHandler(r) /\ ~(stage[r] = "store" /\ pc[r] = "done")

\* The first thing each handler does once it knows its caller, who is free of
\* every rule or is not.  A create reads its body first, free or not.
AdmitRevoke(r, free) == GoOn(r, IF free THEN "revoke" ELSE "existing")

AdmitList(r, free) ==
    LET by == call[r].filter.by IN
    IF free \/ by.principal_id = call[r].caller THEN GoOn(r, "list")
    ELSE IF by.resource_type = "board" /\ by.resource_id # ""
    THEN GoOn(r, "adm_lookup")
    ELSE Respond(r, 403, {})

AdmitEffective(r, free) ==
    LET c == call[r] IN
    IF ~free /\ c.principal_id # c.caller THEN Respond(r, 403, {})
    ELSE IF KnowsWords(c.relation, c.resource_type) THEN GoOn(r, "eff_lookup")
    ELSE Respond(r, 400, {})

AdmitSettings(r, free) == Respond(r, IF free THEN 200 ELSE 403, {})

Admit(r, free) ==
    \/ call[r].op = "create"    /\ GoOn(r, "body")
    \/ call[r].op = "get"       /\ GoOn(r, "existing")
    \/ call[r].op = "revoke"    /\ AdmitRevoke(r, free)
    \/ call[r].op = "list"      /\ AdmitList(r, free)
    \/ call[r].op = "effective" /\ AdmitEffective(r, free)
    \/ call[r].op = "settings"  /\ AdmitSettings(r, free)

\* A mutant of the next: the same status as for a write that is refused.
Told == 403

\* Another: 410, for a grant that was there.
Gone == 410

\* The status of a grant that may not be read: that of one that is not there.
Hidden == 404

\* A mutant of the next: the grant read afresh once its reader's groups are known.
ReadAgainAfter(step) ==
    CASE step = "adm_lookup" -> "adm_query"
      [] step = "may_lookup" -> "existing"
      [] step = "eff_lookup" -> "eff_query"

\* The query after each lookup.
QueryAfter(step) ==
    CASE step = "adm_lookup" -> "adm_query"
      [] step = "may_lookup" -> "may_query"
      [] step = "eff_lookup" -> "eff_query"

-----------------------------------------------------------------------------
(* The history each answer is judged by.                                     *)

\* The rows that any of these principals holds.
RowsOf(rows, principals) ==
    {row \in rows : row.tuple.principal_id \in principals}

\* What is so at the moment the call of r arrives...
Opened(r) ==
    LET p     == SubjectOf(call[r])
        whose == {p} \cup GroupsOf(p) IN
    [lasting |-> ActiveRows, stays |-> GroupsOf(p), whose |-> whose,
     held |-> RowsOf(ActiveRows, whose), at_once |-> RowsOf(ActiveRows, whose),
     present |-> existing, absent |-> Ids \ existing,
     acting |-> existing \ disabled]

\* ...and what was so at some moment, or at every one, until it is answered.
\* A row is held if it was active at a moment of the call, and at that moment
\* or an earlier one its holder was the subject or a group the subject was in.
\* That is two moments, as a lookup and the query after it are; a row is held
\* at once if one moment was both.
Widened(w, now) ==
    LET whose == w.whose \cup now.whose IN
    [lasting |-> w.lasting \cap now.lasting, stays |-> w.stays \cap now.stays,
     whose   |-> whose,
     held    |-> w.held \cup RowsOf(now.lasting, whose),
     at_once |-> w.at_once \cup now.at_once,
     present |-> w.present \cup now.present, absent |-> w.absent \cup now.absent,
     acting  |-> w.acting \cup now.acting]

Watch ==
    window' = [r \in Requests |->
                 CASE ~Serving(r)' -> window[r]
                   [] Serving(r)' /\ stage[r] = "idle" -> Opened(r)'
                   [] Serving(r)' /\ stage[r] # "idle" ->
                        Widened(window[r], Opened(r)')]

\* A step of a handler that only reads.
Reading == UNCHANGED <<storeVars, ownerVars, call, unrestricted, holders, found>>

-----------------------------------------------------------------------------

Init ==
    /\ Store!Init
    /\ existing = InitialIds
    /\ disabled = {}
    /\ memberOf = InitialMembers
    /\ changes = 0
    /\ call = [r \in Requests |-> NoCall]
    /\ stage = [r \in Requests |-> "idle"]
    /\ unrestricted = [r \in Requests |-> FALSE]
    /\ holders = [r \in Requests |-> {}]
    /\ found = [r \in Requests |-> {}]
    /\ reply = [r \in Requests |-> NotReplied]
    /\ window = [r \in Requests |-> {}]

Arrive(r, c) ==
    /\ up /\ stage[r] = "idle"
    /\ call' = [call EXCEPT ![r] = c]
    /\ GoOn(r, "identify")
    /\ UNCHANGED <<storeVars, ownerVars, unrestricted, holders, found>>
    /\ Watch

-----------------------------------------------------------------------------
(* identifyCaller.                                                           *)

\* The service token, or no caller at all: nobody is asked.
IdentifyByToken(r) ==
    /\ up /\ stage[r] = "identify"
    /\ \/ /\ call[r].caller = Service
          /\ unrestricted' = [unrestricted EXCEPT ![r] = TRUE]
          /\ Admit(r, TRUE)
       \/ /\ \/ call[r].caller \in Strangers
             \/ call[r].caller \in Ids /\ ~CallerIDIsValid(call[r].caller)
          /\ Respond(r, 401, {})
          /\ UNCHANGED unrestricted
    /\ UNCHANGED <<storeVars, ownerVars, call, holders, found>>
    /\ Watch

\* A mutant of the next: a caller once disabled acts on.
ActsEvenDisabled(p) == p \in CallerKinds

\* acts_as_caller and no disabled_at.
ActsAsCaller(p) == p \in CallerKinds /\ p \notin disabled

\* An id: principal-store says whether it is there, acts, and administers.
IdentifyByLookup(r) ==
    LET p == call[r].caller IN
    /\ up /\ stage[r] = "identify"
    /\ p \in Ids /\ CallerIDIsValid(p)
    /\ \E a \in LookupAnswers(p \in existing) :
         \/ /\ LookupVerdict(a) = "unknown" /\ Respond(r, 502, {})
            /\ UNCHANGED unrestricted
         \/ /\ \/ LookupVerdict(a) = "missing"
               \/ LookupVerdict(a) = "found" /\ ~ActsAsCaller(p)
            /\ Respond(r, 401, {})
            /\ UNCHANGED unrestricted
         \/ /\ LookupVerdict(a) = "found" /\ ActsAsCaller(p)
            /\ unrestricted' =
                 [unrestricted EXCEPT ![r] = p \in Administrators]
            /\ Admit(r, p \in Administrators)
    /\ UNCHANGED <<storeVars, ownerVars, call, holders, found>>
    /\ Watch

-----------------------------------------------------------------------------
(* The body of a create.                                                     *)

\* The client has sent it, or has sent what does not decode.  It may also never
\* come: nothing but its headers has a deadline, so this step is under no
\* fairness.
ReadBody(r) ==
    /\ up /\ stage[r] = "body"
    /\ IF ~call[r].decodes THEN Respond(r, 400, {})
       ELSE IF unrestricted[r] THEN GoOn(r, "grantee")
       ELSE IF call[r].wish.resource_type = "board" THEN GoOn(r, "adm_lookup")
       ELSE Respond(r, 403, {})
    /\ Reading /\ Watch

-----------------------------------------------------------------------------
(* Effective, as the caller's authority and as an answer.                    *)

\* Its lookup.  A caller gone since it was identified is a 404 here.
LookUpHolders(r) ==
    LET p == SubjectOf(call[r]) IN
    /\ up /\ stage[r] \in {"adm_lookup", "may_lookup", "eff_lookup"}
    /\ \E a \in LookupAnswers(p \in existing) :
         \/ /\ LookupVerdict(a) = "unknown" /\ Respond(r, 502, {})
            /\ UNCHANGED holders
         \/ /\ LookupVerdict(a) = "missing" /\ Respond(r, 404, {})
            /\ UNCHANGED holders
         \/ /\ LookupVerdict(a) = "found"
            /\ holders' = [holders EXCEPT ![r] = HoldersOf(p)]
            /\ GoOn(r, QueryAfter(stage[r]))
    /\ UNCHANGED <<storeVars, ownerVars, call, unrestricted, found>>
    /\ Watch

Administers(r) ==
    \E row \in RowsHeldBy(grants, holders[r], "can_administer", "board") :
        row.tuple.resource_id = BoardOf(r)

\* Its query, for callerAdministersBoard before a create, a list or a revoke.
QueryAdministers(r) ==
    /\ up /\ stage[r] = "adm_query"
    /\ IF Administers(r)
         THEN GoOn(r, CASE call[r].op = "create" -> "grantee"
                        [] call[r].op = "list"   -> "list"
                        [] call[r].op = "revoke" -> "revoke")
         ELSE Respond(r, 403, {})
    /\ Reading /\ Watch

\* Its query, for callerMayReadGrant: a grant that may not be read is a 404.
QueryMayRead(r) ==
    /\ up /\ stage[r] = "may_query"
    /\ CASE ~Administers(r)                         -> Respond(r, Hidden, {})
         [] Administers(r) /\ call[r].op = "get"    -> Respond(r, 200, found[r])
         [] Administers(r) /\ call[r].op = "revoke" -> GoOn(r, "adm_lookup")
    /\ Reading /\ Watch

\* Its query, as the answer to GET /principals/{id}/effective.
QueryEffective(r) ==
    /\ up /\ stage[r] = "eff_query"
    /\ Respond(r, 200, RowsHeldBy(grants, holders[r], call[r].relation,
                                  call[r].resource_type))
    /\ Reading /\ Watch

-----------------------------------------------------------------------------
(* Reading, and revoking what was read.                                      *)

QueryList(r) ==
    /\ up /\ stage[r] = "list"
    /\ LET filter == call[r].filter IN
       IF KnowsWords(filter.by.relation, filter.by.resource_type)
         THEN Respond(r, 200, ListRows(grants, filter)) ELSE Respond(r, 400, {})
    /\ Reading /\ Watch

\* Store.Get at the head of getGrant and of a restricted revokeGrant.
ReadExisting(r) ==
    /\ up /\ stage[r] = "existing"
    /\ \/ /\ RowsNumbered(call[r].seq) = {}
          /\ Respond(r, 404, {})
          /\ UNCHANGED found
       \/ \E row \in RowsNumbered(call[r].seq) :
            LET own == row.tuple.principal_id = call[r].caller IN
            /\ found' = [found EXCEPT ![r] = {row}]
            /\ CASE call[r].op = "get" /\ (unrestricted[r] \/ own)
                                                -> Respond(r, 200, {row})
                 [] call[r].op = "revoke" /\ own ->
                      IF OnBoard(row) THEN GoOn(r, "adm_lookup")
                                      ELSE Respond(r, 403, {})
                 [] OTHER -> IF OnBoard(row) THEN GoOn(r, "may_lookup")
                                             ELSE Respond(r, Hidden, {})
    /\ UNCHANGED <<storeVars, ownerVars, call, unrestricted, holders>>
    /\ Watch

\* A SELECT of a handler fails.
QueryError(r) ==
    /\ up
    /\ stage[r] \in {"adm_query", "may_query", "eff_query", "list", "existing"}
    /\ Respond(r, 500, {})
    /\ Reading /\ Watch

\* Store.Revoke: the handler waits for the database from here on.
Revoke(r) ==
    /\ stage[r] = "revoke"
    /\ Store!StartRevoke(r, call[r].seq)
    /\ GoOn(r, "store")
    /\ UNCHANGED <<ownerVars, call, unrestricted, holders, found>>
    /\ Watch

-----------------------------------------------------------------------------
(* Store.Create.                                                             *)

\* The checks of the words, then principal-store on the grant's principal.
ConfirmPrincipal(r) ==
    LET wish == call[r].wish IN
    /\ up /\ stage[r] = "grantee"
    /\ \/ ~IsDescribed(wish) /\ Respond(r, 400, {})
       \/ /\ IsDescribed(wish)
          /\ \E a \in LookupAnswers(wish.principal_id \in existing) :
               CASE LookupVerdict(a) = "unknown" -> Respond(r, 502, {})
                 [] LookupVerdict(a) = "missing" -> Respond(r, 400, {})
                 [] LookupVerdict(a) = "found" ->
                      IF wish.principal_id \notin GrantKinds
                        THEN Respond(r, 400, {})
                        ELSE GoOn(r, IF wish.resource_id = AllResources
                                       THEN "create" ELSE "resource")
    /\ Reading /\ Watch

\* The owner of the resource, on the resource.
ConfirmResource(r) ==
    LET wish == call[r].wish IN
    /\ up /\ stage[r] = "resource"
    /\ \E a \in CheckAnswers(wish.resource_type, wish.resource_id \in existing) :
         CASE CheckVerdict(wish.resource_type, a) = "unknown" ->
                Respond(r, 502, {})
           [] CheckVerdict(wish.resource_type, a) = "missing" ->
                Respond(r, 400, {})
           [] CheckVerdict(wish.resource_type, a) = "found" ->
                GoOn(r, "create")
    /\ Reading /\ Watch

\* Both confirmed: the handler waits for the database from here on.
Create(r) ==
    /\ stage[r] = "create"
    /\ Store!StartCreate(r, call[r].wish)
    /\ GoOn(r, "store")
    /\ UNCHANGED <<ownerVars, call, unrestricted, holders, found>>
    /\ Watch

-----------------------------------------------------------------------------
(* The database at work, and the process dying under its handlers.           *)

InStore(r) ==
    /\ stage[r] = "store"
    /\ Store!Proceed(r) \/ Store!SqlError(r) \/ Store!ReadError(r)
    /\ UNCHANGED <<ownerVars, handlerVars>>
    /\ Watch

Crash ==
    /\ Store!Crash
    /\ stage' = [r \in Requests |-> IF Serving(r) THEN "done" ELSE stage[r]]
    /\ UNCHANGED <<ownerVars, call, unrestricted, holders, found, reply>>
    /\ Watch

Restart == Store!Open /\ UNCHANGED <<ownerVars, handlerVars>> /\ Watch

Tick == Store!Tick /\ UNCHANGED <<ownerVars, handlerVars>> /\ Watch

-----------------------------------------------------------------------------
(* The owners, which nobody here can stop.                                   *)

OwnerChange ==
    /\ changes < MaxChanges
    /\ changes' = changes + 1
    /\ \/ \E p \in DOMAIN memberOf, g \in Groups :
            /\ memberOf' = [memberOf EXCEPT ![p] =
                              IF g \in @ THEN @ \ {g} ELSE @ \cup {g}]
            /\ UNCHANGED <<existing, disabled>>
       \/ \E p \in DOMAIN memberOf \cup Groups :
            /\ disabled' = IF p \in disabled THEN disabled \ {p}
                                             ELSE disabled \cup {p}
            /\ UNCHANGED <<existing, memberOf>>
       \/ \E id \in Deletable :
            /\ existing' = IF id \in existing THEN existing \ {id}
                                              ELSE existing \cup {id}
            /\ UNCHANGED <<disabled, memberOf>>
    /\ UNCHANGED <<storeVars, handlerVars>>
    /\ Watch

-----------------------------------------------------------------------------

\* What a handler does by itself once its call is in, as long as nothing fails.
Handle(r) ==
    \/ IdentifyByToken(r) \/ IdentifyByLookup(r)
    \/ LookUpHolders(r) \/ QueryAdministers(r) \/ QueryMayRead(r)
    \/ QueryEffective(r) \/ QueryList(r) \/ ReadExisting(r)
    \/ ConfirmPrincipal(r) \/ ConfirmResource(r) \/ Create(r) \/ Revoke(r)

Next ==
    \/ \E r \in Requests :
         \/ \E c \in Calls : Arrive(r, c)
         \/ ReadBody(r) \/ Handle(r) \/ QueryError(r) \/ InStore(r)
    \/ Crash \/ Restart \/ Tick \/ OwnerChange

\* Every owner call ends within its three seconds, answered or not, and every
\* wait for the lock within the busy timeout; the rest of a handler's own steps
\* wait for nobody.  Its body may never come, and no fairness says it does.
Fairness ==
    \A r \in Requests : WF_vars(Handle(r)) /\ WF_vars(InStore(r))

Spec == Init /\ [][Next]_vars /\ Fairness

-----------------------------------------------------------------------------
(* Properties.                                                               *)

\* The status a client sees: the handler's own, or the store's outcome.
Status(r) ==
    IF stage[r] # "store" THEN reply[r].status
    ELSE CASE answer[r].outcome = "created"               -> 201
           [] answer[r].outcome \in {"existing", "revoked"} -> 200
           [] answer[r].outcome = "not_found"             -> 404
           [] answer[r].outcome \in {"failed", "unread"}   -> 500
           [] answer[r].outcome \in {"none", "lost"}       -> 0

Stages == {"idle", "identify", "body", "adm_lookup", "may_lookup", "eff_lookup",
           "adm_query", "may_query", "eff_query", "list", "existing",
           "grantee", "resource", "create", "revoke", "store", "done"}

TypeOK ==
    /\ Store!TypeOK
    /\ existing \subseteq Ids /\ disabled \subseteq Ids
    /\ memberOf \in [DOMAIN InitialMembers -> SUBSET Groups]
    /\ changes \in 0..MaxChanges
    /\ call \in [Requests -> Calls \cup {NoCall}]
    /\ stage \in [Requests -> Stages]
    /\ unrestricted \in [Requests -> BOOLEAN]
    /\ holders \in [Requests -> SUBSET Ids]
    /\ found \in [Requests -> SUBSET Store!Row]
    /\ reply \in [Requests -> [status : {0, 200, 400, 401, 403, 404, 500, 502},
                              rows : SUBSET Store!Row]]

\* A can_administer on the board was active at a moment of the call, and at that
\* moment or an earlier one its holder was the caller or a group of the caller's.
HadAuthority(r, board) == Administering(window[r].held, board) # {}

\* A principal's write reaches the database only on two moments of its call, as
\* HadAuthority orders them: a grant revoked, or a group left, before the call
\* arrived never serves it, nor does a grant revoked before the caller was in
\* the group that holds it (server.go:113-126, 163-187).  No one moment need be
\* both: see WritersAdministerAtOnce.
WritersAdminister ==
    \A r \in Requests :
        stage[r] = "store" /\ ~unrestricted[r] =>
            \/ /\ call[r].op = "create" /\ call[r].wish.resource_type = "board"
               /\ HadAuthority(r, call[r].wish.resource_id)
            \/ /\ call[r].op = "revoke"
               /\ \E row \in RowsNumbered(call[r].seq) :
                    OnBoard(row) /\ HadAuthority(r, row.tuple.resource_id)

\* What principal_enforcement.go:29-30 says of a create: the board is one the
\* caller holds can_administer on, itself or by a group, at one moment at least.
\* It may be none: the group is looked up first, and its grant queried later.
WritersAdministerAtOnce ==
    \A r \in Requests :
        stage[r] = "store" /\ ~unrestricted[r] /\ call[r].op = "create" =>
            Administering(window[r].at_once, call[r].wish.resource_id) # {}

\* A row the caller may learn of: its own, or one of a board it administered, by
\* two moments as above.
MayLearn(r, row) ==
    \/ row.tuple.principal_id = call[r].caller
    \/ OnBoard(row) /\ HadAuthority(r, row.tuple.resource_id)

\* A principal is shown a grant, by 200 or in a list, or is told by 403 that it
\* may not revoke it, only if it may learn of it.  That a lookup or a query
\* failed, 502 or 500, it is told of any board grant (principal_enforcement.go:
\* 118-127): see HiddenLooksMissing.
ReadersMayRead ==
    \A r \in Requests :
        LET learnt ==
              CASE call[r].op = "list"              -> reply[r].rows
                [] call[r].op \in {"get", "revoke"} ->
                     IF Status(r) \in {200, 403} THEN RowsNumbered(call[r].seq) ELSE {}
                [] OTHER                            -> {} IN
        ~unrestricted[r] => \A row \in learnt : MayLearn(r, row)

\* What principal_enforcement.go:38 says: a grant that is there and that the
\* caller may not read is answered as one that does not exist, 404.
HiddenLooksMissing ==
    \A r \in Requests :
        ~unrestricted[r] /\ (\E row \in found[r] : ~MayLearn(r, row)) =>
            Status(r) \in {0, 404}

\* Nobody is served who could not act at any moment of the call: a caller that
\* is unknown, disabled, or of a kind that does not act gets a 401 or, while
\* principal-store cannot say, a 502 (principal_enforcement.go:82-96).
CallersAct ==
    \A r \in Requests :
        call[r].caller \in Ids /\ (Status(r) \notin {0, 401, 502} \/ stage[r] = "store")
          => call[r].caller \in window[r].acting \cap CallerKinds

\* No row names an id its owner did not have while the call was in flight, or
\* a principal that holds no grants, however owners answer or fail
\* (schema.sql:13-16, grant.go:81-101).
RowsNameConfirmedIds ==
    \A row \in grants :
        row.note # NoRequest =>
            /\ IsDescribed(row.tuple)
            /\ row.tuple.principal_id \in window[row.note].present \cap GrantKinds
            /\ row.tuple.resource_id \in
                 window[row.note].present \cup {AllResources}

\* A call is the caller's fault (400) only when it is: the body or a word is
\* wrong, or an id was truly missing or holds no grants.  An owner in trouble
\* is never taken for a missing id (resource_checker.go:15-22, 180-188).
BadRequestIsTheCallersFault ==
    \A r \in Requests :
        LET c == call[r] IN
        Status(r) = 400 =>
            CASE c.op = "create" ->
                   \/ ~c.decodes \/ ~IsDescribed(c.wish)
                   \/ c.wish.principal_id \notin GrantKinds
                   \/ {c.wish.principal_id, c.wish.resource_id}
                        \cap window[r].absent # {}
              [] c.op = "list" ->
                   ~KnowsWords(c.filter.by.relation, c.filter.by.resource_type)
              [] c.op = "effective" -> ~KnowsWords(c.relation, c.resource_type)
              [] OTHER -> FALSE

\* The effective set leaves nothing out: a grant active all along, held by the
\* principal or by a group it was in all along, is in the answer
\* (grant.go:227-242).
EffectiveMissesNothing ==
    \A r \in Requests :
        call[r].op = "effective" /\ Status(r) = 200 =>
            RowsHeldBy(window[r].lasting, {call[r].principal_id} \cup window[r].stays,
                       call[r].relation, call[r].resource_type)
              \subseteq reply[r].rows

\* It is no snapshot, but it follows its two reads: a grant in it was active at
\* some moment of the call, and at that moment or an earlier one its holder was
\* the principal or a group the principal was in.  A group left before the call,
\* or a grant revoked before the principal joined its holder, adds nothing
\* (grant.go:254-281).
EffectiveFollowsItsLookup ==
    \A r \in Requests :
        call[r].op = "effective" /\ Status(r) = 200 =>
            reply[r].rows \subseteq
              RowsHeldBy(window[r].held, window[r].whose,
                         call[r].relation, call[r].resource_type)

\* Every call is answered, waits for its client's body, or dies with the process,
\* whatever its owners do; and once the body is in, it is answered.  Writing the
\* answer to a client that may not read it is ServiceLifecycle's.
EveryCallIsAnswered ==
    \A r \in Requests : InHandler(r) ~> ~Serving(r) \/ stage[r] = "body"

\* What CONTRACT.md:176-178 says of a revoke: it never waits on an owner, so
\* one that is down cannot pin a grant in place.
RevokeNeedsNoOwner ==
    \A r \in Requests : call[r].op = "revoke" => Status(r) # 502
=============================================================================
