------------------------- MODULE GrantServiceParts -------------------------
(* Each part of RequestInv, kept by the steps of the request itself.  A step *)
(* sees the owners and the table as they are now, and the window of a call   *)
(* in flight covers now: what a handler concludes was so during the call.    *)
EXTENDS GrantServiceSteps

-----------------------------------------------------------------------------
(* The parts: where a request is, whose call it is, what it has looked up.   *)

\* A caller identified is the service, or an id that acts now.
LEMMA Identified ==
    ASSUME TypeOK, NEW r \in Requests,
           IdentifyByToken(r) \/ IdentifyByLookup(r)
    PROVE  \/ /\ stage'[r] = "done" /\ UNCHANGED unrestricted
              /\ \E status \in {401, 502} :
                   reply'[r] = [status |-> status, rows |-> {}]
           \/ /\ call[r].caller = Service \/
                   call[r].caller \in Ids \cap CallerKinds \cap (existing \ disabled)
              /\ call[r].caller = Service => unrestricted'[r]
              /\ Admit(r, unrestricted'[r])
<1>1. ASSUME NEW status, Respond(r, status, {})
      PROVE  /\ stage'[r] = "done"
             /\ reply'[r] = [status |-> status, rows |-> {}]
  BY <1>1, RespondMoves
<1>2. r \in DOMAIN unrestricted
  BY DEF TypeOK
<1>3. CASE IdentifyByToken(r)
  <2>1. CASE Respond(r, 401, {}) /\ UNCHANGED unrestricted
    BY <1>1, <2>1
  <2>2. CASE /\ call[r].caller = Service /\ Admit(r, TRUE)
             /\ unrestricted' = [unrestricted EXCEPT ![r] = TRUE]
    <3>1. unrestricted'[r] = TRUE
      BY <1>2, <2>2
    <3>2. Admit(r, unrestricted'[r])
      BY <2>2, <3>1, Zenon
    <3> QED
      BY <2>2, <3>1, <3>2
  <2> QED
    BY <1>3, <2>1, <2>2 DEF IdentifyByToken
<1>4. CASE IdentifyByLookup(r)
  <2> DEFINE p == call[r].caller
  <2>1. ASSUME unrestricted' = [unrestricted EXCEPT ![r] = p \in Administrators]
        PROVE  unrestricted'[r] = (p \in Administrators)
    BY <1>2, <2>1, Zenon
  <2>2. p \in Ids /\ p # Service
    BY <1>4, IdsAssumption DEF IdentifyByLookup
  <2>3. PICK a \in LookupAnswers(p \in existing) :
         \/ /\ Respond(r, 502, {}) \/ Respond(r, 401, {})
            /\ UNCHANGED unrestricted
         \/ /\ LookupVerdict(a) = "found" /\ ActsAsCaller(p)
            /\ unrestricted' =
                 [unrestricted EXCEPT ![r] = p \in Administrators]
            /\ Admit(r, p \in Administrators)
    BY <1>4 DEF IdentifyByLookup
  <2>4. LookupVerdict(a) = "found" => p \in existing
    BY LookupsAreTrue
  <2>5. CASE /\ Respond(r, 502, {}) \/ Respond(r, 401, {})
             /\ UNCHANGED unrestricted
    BY <1>1, <2>5
  <2>6. CASE /\ LookupVerdict(a) = "found" /\ ActsAsCaller(p)
             /\ unrestricted' =
                  [unrestricted EXCEPT ![r] = p \in Administrators]
             /\ Admit(r, p \in Administrators)
    <3>1. p \in Ids \cap CallerKinds \cap (existing \ disabled)
      BY <2>2, <2>4, <2>6 DEF ActsAsCaller
    <3>2. Admit(r, unrestricted'[r])
      BY <2>1, <2>6, Zenon
    <3> QED
      BY <2>2, <3>1, <3>2
  <2> QED
    BY <2>3, <2>5, <2>6
<1> QED
  BY <1>3, <1>4

\* The window of a request in flight covers this moment.
LEMMA NowInWindow ==
    ASSUME NEW r \in Requests, RequestInv(r),
           stage[r] \notin {"idle", "store", "done"}
    PROVE  LET p == SubjectOf(call[r]) IN
           /\ window[r].lasting \subseteq ActiveRows
           /\ window[r].stays \subseteq GroupsOf(p)
           /\ {p} \cup GroupsOf(p) \subseteq window[r].whose
           /\ RowsOf(ActiveRows, window[r].whose) \subseteq window[r].held
           /\ existing \subseteq window[r].present
           /\ Ids \ existing \subseteq window[r].absent
           /\ existing \ disabled \subseteq window[r].acting
BY DEF RequestInv, WindowInv, Serving, InHandler

\* The steps of a request in flight open its window, and it keeps its caller.
LEMMA OwnWindow ==
    ASSUME TypeOK, NEW r \in Requests, RequestInv(r), StepOf(r), stage[r] # "idle"
    PROVE  /\ Opens(r) /\ UNCHANGED call
           /\ \A board : HadAuthority(r, board) => HadAuthority(r, board)'
           /\ \A row : MayLearn(r, row) => MayLearn(r, row)'
<1>1. Watch /\ UNCHANGED call
  <2>1. StageInv(r)
    BY DEF RequestInv
  <2> QED
    BY <2>1, ArriveLeads, InStoreLeads, HandlerMoves DEF StepOf, handlerVars
<1>2. Opens(r)
  BY <1>1, WatchOpens
<1>3. \A board : HadAuthority(r, board) => HadAuthority(r, board)'
  BY <1>1, <1>2, OpensKeepsAuthority
<1>4. \A row : MayLearn(r, row) => MayLearn(r, row)'
  BY <1>1, <1>3 DEF MayLearn
<1> QED
  BY <1>1, <1>2, <1>3, <1>4

\* The holders looked up are those of that moment.
LEMMA OwnHoldersInv ==
    ASSUME TypeOK, NEW r \in Requests, RequestInv(r), StepOf(r)
    PROVE  HoldersInv(r)'
<1>0. StageInv(r) /\ WindowInv(r)
  BY DEF RequestInv
<1> SUFFICES ASSUME stage'[r] \in {"adm_query", "may_query", "eff_query"}
             PROVE  HoldersInv(r)'
  BY DEF HoldersInv
<1>1. LookUpHolders(r)
  BY <1>0, ArriveLeads, InStoreLeads, HandlerLeads DEF StepOf, handlerVars
<1>2. holders'[r] = HoldersOf(SubjectOf(call[r]))
  <2>1. \A status : ~Respond(r, status, {})
    BY RespondMoves
  <2>2. holders' = [holders EXCEPT ![r] = HoldersOf(SubjectOf(call[r]))]
    BY <1>1, <2>1 DEF LookUpHolders
  <2> QED
    BY <2>2 DEF TypeOK
<1>3. stage[r] \notin {"idle", "store", "done"}
  BY <1>1 DEF LookUpHolders
<1>4. Opens(r) /\ UNCHANGED call
  BY <1>3, OwnWindow
<1>5. /\ window'[r].stays \subseteq GroupsOf(SubjectOf(call[r]))
      /\ HoldersOf(SubjectOf(call[r])) \subseteq window'[r].whose
  BY <1>3, <1>4, NowInWindow DEF Opens, HoldersOf
<1> QED
  BY <1>2, <1>4, <1>5 DEF HoldersInv, HoldersOf

\* A caller goes on from identifyCaller only if it acts now.
LEMMA OwnCallerInv ==
    ASSUME TypeOK, NEW r \in Requests, RequestInv(r), StepOf(r)
    PROVE  CallerInv(r)'
<1> USE DEF CallerInv
<1>0. StageInv(r) /\ CallerInv(r) /\ WindowInv(r) /\ QuietInv(r)
  BY DEF RequestInv
<1>1. ASSUME NEW c \in Calls, Arrive(r, c)
      PROVE  CallerInv(r)'
  BY <1>1, ArriveLeads
<1>2. ASSUME stage[r] \notin {"idle", "identify"}
      PROVE  CallerInv(r)'
  <2>1. Opens(r) /\ UNCHANGED call
    BY <1>2, OwnWindow
  <2>2. CASE InStore(r)
    BY <1>0, <2>1, <2>2, InStoreLeads DEF handlerVars, Opens
  <2>3. CASE HandlerStep(r)
    <3>1. UNCHANGED unrestricted /\ stage[r] # "done"
      BY <1>0, <1>2, <2>3, HandlerMoves DEF IdentifyByToken, IdentifyByLookup
    <3> QED
      BY <1>0, <1>2, <2>1, <3>1 DEF Opens
  <2> QED
    BY <1>2, <2>2, <2>3, ArriveLeads DEF StepOf
<1>3. CASE IdentifyByToken(r) \/ IdentifyByLookup(r)
  <2>0. stage[r] = "identify"
    BY <1>3 DEF IdentifyByToken, IdentifyByLookup
  <2>1. Opens(r) /\ UNCHANGED call
    BY <2>0, OwnWindow
  <2>2. existing \ disabled \subseteq window'[r].acting
    BY <2>0, <2>1, NowInWindow DEF Opens
  <2>3. CASE stage'[r] = "done" /\ reply'[r].status \in {401, 502}
    BY <2>3
  <2>4. CASE call[r].caller = Service /\ unrestricted'[r]
    BY <2>1, <2>4, IdsAssumption
  <2>5. CASE call[r].caller \in Ids \cap CallerKinds \cap (existing \ disabled)
    BY <2>1, <2>2, <2>5
  <2> QED
    BY <1>3, <2>3, <2>4, <2>5, Identified
<1>4. HandlerStep(r) =>
        \/ IdentifyByToken(r) \/ IdentifyByLookup(r)
        \/ stage[r] \notin {"idle", "identify"}
  BY DEF HandlerStep, Handle, QueryError, ReadBody, LookUpHolders,
         QueryAdministers, QueryMayRead, QueryEffective, QueryList,
         ReadExisting, ConfirmPrincipal, ConfirmResource, Create, Revoke
<1> QED
  BY <1>1, <1>2, <1>3, <1>4, InStoreLeads DEF StepOf

\* What Store.Get at the head of a handler has established when it goes on.
ReadsOn(r, row) ==
    LET own == row.tuple.principal_id = call[r].caller IN
    \/ /\ call[r].op = "get" /\ (unrestricted[r] \/ own)
       /\ Respond(r, 200, {row})
    \/ /\ call[r].op = "revoke" /\ own
       /\ \/ OnBoard(row) /\ GoOn(r, "adm_lookup")
          \/ Respond(r, 403, {})
    \/ OnBoard(row) /\ GoOn(r, "may_lookup")
    \/ Respond(r, 404, {})

\* The Get before a read or a revoke finds one row of the number, or is a 404.
LEMMA ExistingRead ==
    ASSUME TypeOK, NEW r \in Requests, ReadExisting(r)
    PROVE  \/ found' = found /\ Respond(r, 404, {})
           \/ \E row \in grants : /\ row.seq = call[r].seq /\ found'[r] = {row}
                                  /\ ReadsOn(r, row)
<1> SUFFICES ASSUME ~(found' = found /\ Respond(r, 404, {}))
             PROVE  \E row \in grants :
                       /\ row.seq = call[r].seq /\ found'[r] = {row}
                       /\ ReadsOn(r, row)
  OBVIOUS
<1>1. PICK row \in RowsNumbered(call[r].seq) :
          LET own == row.tuple.principal_id = call[r].caller IN
          /\ found' = [found EXCEPT ![r] = {row}]
          /\ CASE call[r].op = "get" /\ (unrestricted[r] \/ own)
                                              -> Respond(r, 200, {row})
               [] call[r].op = "revoke" /\ own ->
                    IF OnBoard(row) THEN GoOn(r, "adm_lookup")
                                    ELSE Respond(r, 403, {})
               [] OTHER -> IF OnBoard(row) THEN GoOn(r, "may_lookup")
                                           ELSE Respond(r, 404, {})
  BY DEF ReadExisting, Hidden
<1>2. row \in grants /\ row.seq = call[r].seq
  BY DEF RowsNumbered
<1>3. found'[r] = {row}
  BY <1>1 DEF TypeOK
<1>4. ReadsOn(r, row)
  BY <1>1 DEF ReadsOn
<1> QED
  BY <1>2, <1>3, <1>4

\* A row read stays where it was read, and of whose board.
LEMMA OwnFoundInv ==
    ASSUME TypeOK, NEW r \in Requests, RequestInv(r), StepOf(r)
    PROVE  FoundInv(r)'
<1>0. StageInv(r) /\ FoundInv(r)
  BY DEF RequestInv
<1>1. ASSUME NEW c \in Calls, Arrive(r, c)
      PROVE  FoundInv(r)'
  BY <1>0, <1>1, ArriveLeads DEF FoundInv, HasOneOnBoard
<1>2. CASE InStore(r)
  BY <1>0, <1>2, InStoreLeads DEF FoundInv, HasOneOnBoard, handlerVars, RowsKept
<1>3. CASE ReadExisting(r)
  <2>1. UNCHANGED <<call, grants>> /\ stage[r] = "existing" /\ found[r] = {}
    BY <1>0, <1>3 DEF ReadExisting, storeVars, FoundInv
  <2>2. CASE found' = found /\ Respond(r, 404, {})
    <3>1. stage'[r] = "done"
      BY <2>2, RespondMoves
    <3> QED
      BY <2>1, <2>2, <3>1 DEF FoundInv
  <2>3. ASSUME NEW row \in grants, row.seq = call[r].seq, found'[r] = {row},
               \/ OnBoard(row) /\ GoOn(r, "adm_lookup")
               \/ OnBoard(row) /\ GoOn(r, "may_lookup")
               \/ \E status, rows : Respond(r, status, rows)
        PROVE  FoundInv(r)'
    <3>1. \/ stage'[r] \in {"adm_lookup", "may_lookup"} /\ OnBoard(row)
          \/ stage'[r] = "done"
      BY <2>3, GoOnMoves, RespondMoves
    <3> QED
      BY <2>1, <2>3, <3>1 DEF FoundInv, HasOneOnBoard
  <2> QED
    BY <1>3, <2>2, <2>3, ExistingRead DEF ReadsOn
<1>4. ASSUME HandlerStep(r), ~ReadExisting(r)
      PROVE  FoundInv(r)'
  <2>0. stage[r] = "body" => call[r].op = "create"
    BY <1>0 DEF StageInv
  <2>1. UNCHANGED <<call, found>> /\ RowsKept
    BY <1>0, <1>4, HandlerMoves, OthersUntouched DEF StepOf
  <2>2. \/ stage'[r] \notin {"idle", "identify", "existing", "may_lookup",
                            "may_query", "adm_lookup", "adm_query"}
        \/ stage'[r] = "existing" /\ found[r] = {}
        \/ stage'[r] = "adm_lookup" /\ call[r].op # "revoke"
        \/ stage[r] = "may_query" /\ stage'[r] = "adm_lookup"
        \/ stage[r] = "may_lookup" /\ stage'[r] = "may_query"
        \/ stage[r] = "adm_lookup" /\ stage'[r] = "adm_query"
    BY <1>0, <1>4, <2>0, HandlerLeads DEF FoundInv, HasOneOnBoard
  <2> QED
    BY <1>0, <2>1, <2>2 DEF FoundInv, HasOneOnBoard, RowsKept
<1> QED
  BY <1>1, <1>2, <1>3, <1>4 DEF StepOf

\* The board of a grant that was read, and the authority a query shows.
LEMMA BoardFound ==
    ASSUME NEW r \in Requests, HasOneOnBoard(r),
           call[r].op \notin {"create", "list"}
    PROVE  /\ found[r] # {}
           /\ \A row \in found[r] : OnBoard(row) /\ BoardOf(r) = row.tuple.resource_id
<1>1. PICK row \in found[r] : found[r] = {row} /\ OnBoard(row)
  BY DEF HasOneOnBoard
<1>2. (CHOOSE g \in found[r] : TRUE) = row
  BY <1>1
<1>3. BoardOf(r) = row.tuple.resource_id
  BY <1>2 DEF BoardOf
<1> QED
  BY <1>1, <1>3

\* A query that shows can_administer shows it was held during the call.
LEMMA AuthorityShown ==
    ASSUME NEW r \in Requests, RequestInv(r), Administers(r),
           stage[r] \in {"adm_query", "may_query"}
    PROVE  HadAuthority(r, BoardOf(r))
<1>1. PICK row \in RowsHeldBy(grants, holders[r], "can_administer", "board") :
          row.tuple.resource_id = BoardOf(r)
  BY DEF Administers
<1>2. /\ row \in ActiveRows /\ row.tuple.principal_id \in holders[r]
      /\ row.tuple.relation = "can_administer" /\ row.tuple.resource_type = "board"
  BY DEF RowsHeldBy, Held, ActiveRows, Store!Active
<1>3. row.tuple.principal_id \in window[r].whose
  BY <1>2 DEF RequestInv, HoldersInv
<1>4. row \in window[r].held
  BY <1>2, <1>3, NowInWindow DEF RowsOf
<1> QED
  BY <1>1, <1>2, <1>4 DEF HadAuthority, Administering

\* A restricted caller is let through on what the query of its authority shows.
LEMMA OwnAuthorityInv ==
    ASSUME TypeOK, NEW r \in Requests, RequestInv(r), StepOf(r)
    PROVE  AuthorityInv(r)'
<1>0. StageInv(r) /\ FoundInv(r) /\ AuthorityInv(r)
  BY DEF RequestInv
<1>1. ASSUME NEW c \in Calls, Arrive(r, c)
      PROVE  AuthorityInv(r)'
  BY <1>1, ArriveLeads DEF AuthorityInv
<1>2. CASE InStore(r)
  BY <1>0, <1>2, InStoreLeads, OwnWindow DEF AuthorityInv, handlerVars
<1>3. CASE IdentifyByToken(r) \/ IdentifyByLookup(r)
  <2>1. stage[r] = "identify" /\ UNCHANGED call
    BY <1>3 DEF IdentifyByToken, IdentifyByLookup
  <2>2. CASE stage'[r] = "done"
    BY <2>2 DEF AuthorityInv
  <2>3. ASSUME Admit(r, unrestricted'[r]), stage'[r] # "done", ~unrestricted'[r]
        PROVE  \/ call[r].op = "create" /\ stage'[r] = "body"
               \/ call[r].op = "revoke" /\ stage'[r] = "existing"
               \/ call[r].op \notin {"create", "revoke"}
    BY <2>3, RespondMoves, GoOnMoves DEF Admit, AdmitRevoke
  <2> QED
    BY <1>3, <2>1, <2>2, <2>3, Identified DEF AuthorityInv
<1>4. ASSUME HandlerStep(r),
             ~IdentifyByToken(r), ~IdentifyByLookup(r)
      PROVE  AuthorityInv(r)'
  <2>1. /\ UNCHANGED <<call, unrestricted>> /\ stage[r] # "idle"
        /\ UNCHANGED found \/ ReadExisting(r)
    BY <1>0, <1>4, HandlerMoves
  <2>2. \A board : HadAuthority(r, board) => HadAuthority(r, board)'
    BY <2>1, OwnWindow
  <2>3. CASE stage'[r] = "done"
    BY <2>3 DEF AuthorityInv
  <2>4. CASE stage[r] = "adm_query" /\ stage'[r] # "done"
    <3>0. QueryAdministers(r) /\ Administers(r)
      BY <1>0, <1>4, <2>4, HandlerLeads
    <3>1. UNCHANGED found
      BY <3>0 DEF QueryAdministers, Reading
    <3>2. HadAuthority(r, BoardOf(r))
      BY <2>4, <3>0, AuthorityShown
    <3>3. call[r].op = "create" => BoardOf(r) = call[r].wish.resource_id
      BY DEF BoardOf
    <3>4. call[r].op = "revoke" =>
            /\ found[r] # {}
            /\ \A row \in found[r] :
                 OnBoard(row) /\ BoardOf(r) = row.tuple.resource_id
      BY <1>0, <2>4, BoardFound DEF FoundInv
    <3> QED
      BY <1>0, <2>1, <2>2, <2>4, <3>1, <3>2, <3>3, <3>4 DEF AuthorityInv
  <2>5. CASE stage[r] # "adm_query" /\ stage'[r] # "done"
    <3>1. \/ stage'[r] \notin {"grantee", "resource", "create", "revoke", "store"}
               /\ call[r].op # "create"
          \/ /\ stage[r] = "body" /\ call[r].op = "create"
             /\ unrestricted[r] \/ /\ stage'[r] = "adm_lookup"
                                   /\ call[r].wish.resource_type = "board"
          \/ stage[r] = "adm_lookup" /\ stage'[r] = "adm_query"
          \/ stage[r] \in {"grantee", "resource", "create", "revoke"}
               /\ stage'[r] \in {"resource", "create", "store"}
               /\ UNCHANGED found
      BY <1>0, <1>4, <2>1, <2>5, HandlerLeads DEF StageInv, ReadExisting
    <3> QED
      BY <1>0, <2>1, <2>2, <3>1 DEF AuthorityInv, StageInv
  <2> QED
    BY <2>3, <2>4, <2>5
<1> QED
  BY <1>1, <1>2, <1>3, <1>4 DEF StepOf

\* What a handler answers, and when.
Says(r, status, rows) == reply'[r] = [status |-> status, rows |-> rows]

\* What it is to have said something, part by part.
LEMMA SaidParts ==
    ASSUME NEW r \in Requests
    PROVE  \A status, rows : Says(r, status, rows) =>
             reply'[r].status = status /\ reply'[r].rows = rows
BY DEF Says

\* Every answer a handler gives without the store: its status, its rows and the
\* stage it is given from.
LEMMA HandlerAnswers ==
    ASSUME TypeOK, NEW r \in Requests, RequestInv(r), HandlerStep(r),
           stage'[r] = "done"
    PROVE  LET c == call[r] IN
           \/ \E status \in {401, 404, 500, 502} : Says(r, status, {})
           \/ Says(r, 403, {}) /\ c.op \notin {"get", "revoke"}
           \/ /\ Says(r, 403, {}) /\ c.op = "revoke"
              /\ QueryAdministers(r) \/ ReadExisting(r)
           \/ /\ Says(r, 400, {}) /\ c.op = "create"
              /\ ~c.decodes \/ ConfirmPrincipal(r) \/ ConfirmResource(r)
           \/ /\ Says(r, 400, {}) /\ c.op = "effective"
              /\ ~KnowsWords(c.relation, c.resource_type)
           \/ /\ Says(r, 400, {}) /\ QueryList(r) /\ c.op = "list"
              /\ ~KnowsWords(c.filter.by.relation, c.filter.by.resource_type)
           \/ Says(r, 200, {}) /\ c.op = "settings"
           \/ /\ Says(r, 200, found[r]) /\ c.op = "get"
              /\ QueryMayRead(r) /\ Administers(r)
           \/ /\ Says(r, 200, RowsHeldBy(grants, holders[r], c.relation,
                                         c.resource_type))
              /\ QueryEffective(r) /\ c.op = "effective"
           \/ /\ Says(r, 200, ListRows(grants, c.filter))
              /\ QueryList(r) /\ c.op = "list"
           \/ /\ \E row \in grants : Says(r, 200, {row})
              /\ ReadExisting(r) /\ c.op = "get"
<1>a. \A status, rows : Respond(r, status, rows) => Says(r, status, rows)
  BY RespondMoves DEF Says
<1>b. \A step : GoOn(r, step) => stage'[r] = step
  BY GoOnMoves
<1> USE <1>a, <1>b
<1>0. StageInv(r) /\ (stage[r] # "idle" => call[r] \in Calls)
  BY DEF RequestInv, StageInv
<1>1. CASE IdentifyByToken(r) \/ IdentifyByLookup(r)
  <2>0. stage[r] = "identify"
    BY <1>1 DEF IdentifyByToken, IdentifyByLookup
  <2>1. CASE \E status \in {401, 502} : Says(r, status, {})
    BY <2>1
  <2>2. CASE Admit(r, unrestricted'[r])
    <3> DEFINE c == call[r]
    <3>1. CASE c.op = "list" /\ AdmitList(r, unrestricted'[r])
      <4>1. Says(r, 403, {})
        BY <3>1 DEF AdmitList
      <4> QED
        BY <3>1, <4>1
    <3>2. CASE c.op = "effective" /\ AdmitEffective(r, unrestricted'[r])
      <4>1. \/ Says(r, 403, {})
            \/ ~KnowsWords(c.relation, c.resource_type) /\ Says(r, 400, {})
        BY <3>2 DEF AdmitEffective
      <4> QED
        BY <3>2, <4>1
    <3>3. CASE c.op = "settings" /\ AdmitSettings(r, unrestricted'[r])
      <4>1. Says(r, 200, {}) \/ Says(r, 403, {})
        BY <3>3 DEF AdmitSettings
      <4> QED
        BY <3>3, <4>1
    <3> QED
      BY <2>2, <3>1, <3>2, <3>3 DEF Admit, AdmitRevoke
  <2> QED
    BY <1>1, <2>1, <2>2, Identified DEF Says
<1>2. CASE LookUpHolders(r)
  BY <1>2 DEF LookUpHolders, QueryAfter
<1>3. CASE QueryAdministers(r)
  BY <1>0, <1>3 DEF QueryAdministers, StageInv
<1>4. CASE QueryMayRead(r)
  <2>1. CASE ~Administers(r)
    <3>1. Respond(r, 404, {})
      BY <1>4, <2>1 DEF QueryMayRead, Hidden
    <3> QED
      BY <3>1
  <2>2. CASE Administers(r)
    <3>1. call[r].op = "get" /\ Respond(r, 200, found[r])
      BY <1>0, <1>4, <2>2 DEF QueryMayRead, StageInv
    <3> QED
      BY <1>4, <2>2, <3>1
  <2> QED
    BY <2>1, <2>2
<1>5. CASE QueryEffective(r)
  BY <1>0, <1>5 DEF QueryEffective, StageInv
<1>6. CASE QueryList(r)
  BY <1>0, <1>6 DEF QueryList, StageInv
<1>7. CASE QueryError(r)
  BY <1>7 DEF QueryError
<1>8. CASE ReadExisting(r)
  <2>1. CASE Respond(r, 404, {})
    BY <2>1
  <2>2. ASSUME NEW row \in grants, ReadsOn(r, row)
        PROVE  \/ Says(r, 404, {})
               \/ Says(r, 200, {row}) /\ call[r].op = "get"
               \/ Says(r, 403, {}) /\ call[r].op = "revoke"
    BY <2>2 DEF ReadsOn
  <2>3. CASE Says(r, 404, {})
    BY <2>3
  <2>4. ASSUME NEW row \in grants, Says(r, 200, {row}), call[r].op = "get"
        PROVE  (\E g \in grants : Says(r, 200, {g})) /\ call[r].op = "get"
    BY <2>4
  <2>5. CASE /\ \E row \in grants : Says(r, 200, {row})
             /\ call[r].op = "get"
    BY <1>8, <2>5
  <2>6. CASE Says(r, 403, {}) /\ call[r].op = "revoke"
    BY <1>8, <2>6
  <2>7. ASSUME NEW row \in grants, ReadsOn(r, row)
        PROVE  \/ Says(r, 404, {})
               \/ /\ \E g \in grants : Says(r, 200, {g})
                  /\ call[r].op = "get"
               \/ Says(r, 403, {}) /\ call[r].op = "revoke"
    BY <2>2, <2>4, <2>7
  <2>8. Respond(r, 404, {}) \/ \E row \in grants : ReadsOn(r, row)
    BY <1>8, ExistingRead
  <2>9. CASE \E row \in grants : ReadsOn(r, row)
    <3>1. \/ Says(r, 404, {})
          \/ /\ \E g \in grants : Says(r, 200, {g})
             /\ call[r].op = "get"
          \/ Says(r, 403, {}) /\ call[r].op = "revoke"
      BY <2>7, <2>9
    <3> HIDE <1>a, <1>b
    <3> QED
      BY <2>3, <2>5, <2>6, <3>1
  <2> HIDE <1>a, <1>b
  <2> QED
    BY <2>1, <2>8, <2>9
<1>9. CASE ConfirmPrincipal(r)
  <2>1. call[r].op = "create"
    BY <1>0, <1>9 DEF ConfirmPrincipal, StageInv
  <2> QED
    BY <1>9, <2>1, PrincipalConfirmed
<1>10. CASE ConfirmResource(r)
  <2>1. call[r].op = "create"
    BY <1>0, <1>10 DEF ConfirmResource, StageInv
  <2> QED
    BY <1>10, <2>1, ResourceConfirmed
<1>11. CASE Create(r) \/ Revoke(r)
  BY <1>11 DEF Create, Revoke
<1>12. CASE ReadBody(r)
  <2>1. call[r].op = "create"
    BY <1>0, <1>12 DEF ReadBody, StageInv
  <2>2. (~call[r].decodes /\ Says(r, 400, {})) \/ Says(r, 403, {})
    BY <1>12 DEF ReadBody
  <2> QED
    BY <2>1, <2>2
<1> QED
  BY <1>1, <1>2, <1>3, <1>4, <1>5, <1>6, <1>7, <1>8, <1>9, <1>10, <1>11,
     <1>12 DEF HandlerStep, Handle

\* The steps of a handler that knows its caller: what it keeps.
LEMMA OwnMoves ==
    ASSUME TypeOK, NEW r \in Requests, RequestInv(r), HandlerStep(r),
           ~IdentifyByToken(r), ~IdentifyByLookup(r)
    PROVE  /\ UNCHANGED <<call, unrestricted>>
           /\ stage[r] \notin {"idle", "identify", "store", "done"}
           /\ UNCHANGED found \/ ReadExisting(r)
           /\ Opens(r)
           /\ \A board : HadAuthority(r, board) => HadAuthority(r, board)'
           /\ \A row : MayLearn(r, row) => MayLearn(r, row)'
<1>1. StageInv(r)
  BY DEF RequestInv
<1>2. stage[r] # "identify"
  BY DEF HandlerStep, Handle, QueryError, ReadBody, LookUpHolders,
         QueryAdministers, QueryMayRead, QueryEffective, QueryList,
         ReadExisting, ConfirmPrincipal, ConfirmResource, Create, Revoke
<1> QED
  BY <1>1, <1>2, HandlerMoves, OwnWindow DEF StepOf

\* A list shows a restricted caller its own rows, or those of its board.
LEMMA ListedIsLearnt ==
    ASSUME NEW r \in Requests, RequestInv(r), ~unrestricted[r],
           stage[r] = "list", NEW row \in ListRows(grants, call[r].filter)
    PROVE  MayLearn(r, row)
<1> DEFINE by == call[r].filter.by
<1>1. \A field \in Fields : by[field] # "" => row.tuple[field] = by[field]
  BY DEF ListRows, Matches
<1>2. call[r].caller # ""
  BY IdsAssumption DEF RequestInv, CallerInv
<1>3. CASE by.principal_id = call[r].caller
  BY <1>1, <1>2, <1>3 DEF Fields, MayLearn
<1>4. CASE /\ by.resource_type = "board" /\ by.resource_id # ""
           /\ HadAuthority(r, by.resource_id)
  BY <1>1, <1>4 DEF Fields, MayLearn, OnBoard
<1> QED
  BY <1>3, <1>4 DEF RequestInv, StageInv, ListInv

\* A step of a list keeps what a principal may be listed.
LEMMA OwnListInv ==
    ASSUME TypeOK, NEW r \in Requests, RequestInv(r), StepOf(r)
    PROVE  ListInv(r)'
<1>0. StageInv(r) /\ QuietInv(r) /\ CallerInv(r) /\ ListInv(r)
  BY DEF RequestInv
<1>1. ASSUME NEW c \in Calls, Arrive(r, c)
      PROVE  ListInv(r)'
  BY <1>0, <1>1, ArriveLeads, NothingReplied DEF ListInv, QuietInv
<1>2. CASE InStore(r)
  BY <1>0, <1>2, InStoreLeads, OwnWindow DEF ListInv, handlerVars
<1>3. CASE IdentifyByToken(r) \/ IdentifyByLookup(r)
  <2>1. stage[r] = "identify" /\ UNCHANGED call /\ reply[r].rows = {}
    BY <1>0, <1>3, NothingReplied
       DEF IdentifyByToken, IdentifyByLookup, QuietInv
  <2> SUFFICES ASSUME ~unrestricted'[r], call[r].op = "list"
               PROVE  ListInv(r)'
    BY <2>1 DEF ListInv
  <2>2. CASE stage'[r] = "done" /\ reply'[r].rows = {}
    BY <2>2 DEF ListInv
  <2>3. CASE Admit(r, unrestricted'[r])
    <3> DEFINE by == call[r].filter.by
    <3>1. AdmitList(r, unrestricted'[r])
      BY <2>3 DEF Admit
    <3>2. \/ by.principal_id = call[r].caller /\ GoOn(r, "list")
          \/ /\ by.resource_type = "board" /\ by.resource_id # ""
             /\ GoOn(r, "adm_lookup")
          \/ Respond(r, 403, {})
      BY <3>1 DEF AdmitList
    <3>3. CASE by.principal_id = call[r].caller /\ GoOn(r, "list")
      <4>1. stage'[r] = "list" /\ reply'[r].rows = {}
        BY <2>1, <3>3, GoOnMoves
      <4> QED
        BY <2>1, <3>3, <4>1 DEF ListInv
    <3>4. CASE /\ by.resource_type = "board" /\ by.resource_id # ""
               /\ GoOn(r, "adm_lookup")
      <4>1. stage'[r] = "adm_lookup" /\ reply'[r].rows = {}
        BY <2>1, <3>4, GoOnMoves
      <4> QED
        BY <2>1, <3>4, <4>1 DEF ListInv
    <3>5. CASE Respond(r, 403, {})
      <4>1. stage'[r] = "done"
        BY <3>5, RespondMoves
      <4>2. reply'[r].rows = {}
        BY <3>5, RespondSays
      <4> QED
        BY <2>2, <4>1, <4>2
    <3> QED
      BY <3>2, <3>3, <3>4, <3>5
  <2> QED
    BY <1>3, <2>2, <2>3, Identified
<1>4. ASSUME HandlerStep(r),
             ~IdentifyByToken(r), ~IdentifyByLookup(r)
      PROVE  ListInv(r)'
  <2>1. /\ UNCHANGED <<call, unrestricted>>
        /\ stage[r] \notin {"idle", "identify", "store", "done"}
        /\ \A board : HadAuthority(r, board) => HadAuthority(r, board)'
        /\ \A row : MayLearn(r, row) => MayLearn(r, row)'
    BY <1>4, OwnMoves
  <2> SUFFICES ASSUME ~unrestricted[r], call[r].op = "list"
               PROVE  ListInv(r)'
    BY <2>1 DEF ListInv
  <2>2. CASE stage'[r] = "done"
    <3>0. \/ \E status : Says(r, status, {})
          \/ Says(r, 200, ListRows(grants, call[r].filter)) /\ QueryList(r)
      BY <1>4, <2>2, HandlerAnswers
    <3>1. \/ reply'[r].rows = {}
          \/ /\ reply'[r].rows = ListRows(grants, call[r].filter)
             /\ QueryList(r)
      BY <3>0, SaidParts
    <3>2. \A row \in reply'[r].rows : MayLearn(r, row)
      BY <3>1, ListedIsLearnt DEF QueryList
    <3> QED
      BY <2>1, <2>2, <3>2 DEF ListInv
  <2>3. CASE stage'[r] # "done"
    <3>1. /\ UNCHANGED reply
          /\ \/ stage[r] = "adm_lookup" /\ stage'[r] = "adm_query"
             \/ /\ stage[r] = "adm_query" /\ stage'[r] = "list"
                /\ Administers(r)
      BY <1>0, <1>4, <2>1, <2>3, HandlerLeads DEF StageInv
    <3>2. stage[r] = "adm_query" => HadAuthority(r, call[r].filter.by.resource_id)
      BY <3>1, AuthorityShown DEF BoardOf
    <3> QED
      BY <1>0, <2>1, <3>1, <3>2 DEF ListInv
  <2> QED
    BY <2>2, <2>3
<1> QED
  BY <1>1, <1>2, <1>3, <1>4 DEF StepOf

\* A restricted caller learns of a row it may learn of, and of no other.
LEMMA OwnTellInv ==
    ASSUME TypeOK, NEW r \in Requests, RequestInv(r), StepOf(r)
    PROVE  TellInv(r)'
<1> USE DEF TellInv
<1>0. StageInv(r) /\ QuietInv(r) /\ FoundInv(r) /\ TellInv(r)
  BY DEF RequestInv
<1>1. ASSUME NEW c \in Calls, Arrive(r, c)
      PROVE  TellInv(r)'
  BY <1>0, <1>1, ArriveLeads, NothingReplied DEF QuietInv
<1>2. CASE InStore(r)
  BY <1>0, <1>2, InStoreLeads, OwnWindow DEF handlerVars
<1>3. CASE IdentifyByToken(r) \/ IdentifyByLookup(r)
  <2>1. stage[r] = "identify" /\ UNCHANGED call /\ reply[r].status = 0
    BY <1>0, <1>3, NothingReplied
       DEF IdentifyByToken, IdentifyByLookup, QuietInv
  <2> SUFFICES ASSUME ~unrestricted'[r], call[r].op \in {"get", "revoke"}
               PROVE  TellInv(r)'
    BY <2>1
  <2>2. CASE stage'[r] = "done" /\ reply'[r].status \in {401, 502}
    BY <2>2
  <2>3. CASE Admit(r, unrestricted'[r])
    <3>1. GoOn(r, "existing")
      BY <2>3 DEF Admit, AdmitRevoke
    <3>2. stage'[r] = "existing" /\ reply'[r].status = 0
      BY <2>1, <3>1, GoOnMoves
    <3> QED
      BY <3>2
  <2> QED
    BY <1>3, <2>2, <2>3, Identified
<1>4. ASSUME HandlerStep(r),
             ~IdentifyByToken(r), ~IdentifyByLookup(r)
      PROVE  TellInv(r)'
  <2>1. /\ UNCHANGED <<call, unrestricted>>
        /\ stage[r] \notin {"idle", "identify", "store", "done"}
        /\ UNCHANGED found \/ ReadExisting(r)
        /\ \A row : MayLearn(r, row) => MayLearn(r, row)'
        /\ reply[r].status = 0
    BY <1>0, <1>4, OwnMoves, NothingReplied DEF QuietInv
  <2> SUFFICES ASSUME ~unrestricted[r], call[r].op \in {"get", "revoke"}
               PROVE  TellInv(r)'
    BY <2>1
  <2>2. CASE ReadExisting(r)
    <3>0. ASSUME Respond(r, 404, {})
          PROVE  stage'[r] = "done" /\ reply'[r].status = 404
      <4>1. stage'[r] = "done"
        BY <3>0, RespondMoves
      <4>2. reply'[r].status = 404
        BY <3>0, RespondSays
      <4> QED
        BY <4>1, <4>2
    <3>1. CASE Respond(r, 404, {})
      BY <3>0, <3>1
    <3>2. ASSUME NEW row \in grants, found'[r] = {row}, ReadsOn(r, row)
          PROVE  TellInv(r)'
      <4>1. CASE row.tuple.principal_id = call[r].caller
        BY <2>1, <3>2, <4>1 DEF MayLearn
      <4>2. CASE row.tuple.principal_id # call[r].caller
        <5>1. GoOn(r, "may_lookup") \/ Respond(r, 404, {})
          BY <3>2, <4>2 DEF ReadsOn
        <5>2. \/ stage'[r] = "may_lookup" /\ reply'[r].status = 0
              \/ stage'[r] = "done" /\ reply'[r].status = 404
          BY <2>1, <3>0, <5>1, GoOnMoves
        <5> QED
          BY <5>2
      <4> QED
        BY <4>1, <4>2
    <3> QED
      BY <2>2, <3>1, <3>2, ExistingRead
  <2>3. CASE ~ReadExisting(r) /\ stage[r] = "may_query" /\ Administers(r)
    <3>1. HasOneOnBoard(r)
      BY <1>0, <2>3 DEF FoundInv
    <3>2. /\ found[r] # {}
          /\ \A row \in found[r] :
               OnBoard(row) /\ BoardOf(r) = row.tuple.resource_id
      BY <3>1, BoardFound
    <3>3. HadAuthority(r, BoardOf(r))
      BY <2>3, AuthorityShown
    <3>4. \A row \in found[r] : MayLearn(r, row)
      BY <3>2, <3>3 DEF MayLearn
    <3> QED
      BY <2>1, <2>3, <3>2, <3>4
  <2>4. CASE /\ ~ReadExisting(r) /\ stage'[r] = "done"
             /\ ~(stage[r] = "may_query" /\ Administers(r))
    <3>0. \/ \E status \in {401, 404, 500, 502} : Says(r, status, {})
          \/ QueryAdministers(r)
          \/ QueryMayRead(r) /\ Administers(r)
      BY <1>4, <2>4, HandlerAnswers
    <3>1. \/ reply'[r].status \notin {200, 403}
          \/ QueryAdministers(r)
      <4>1. ASSUME NEW status \in {401, 404, 500, 502}, Says(r, status, {})
            PROVE  reply'[r].status \notin {200, 403}
        <5>1. reply'[r].status = status
          BY <4>1, SaidParts
        <5> QED
          BY <5>1
      <4>2. QueryMayRead(r) => stage[r] = "may_query"
        BY DEF QueryMayRead
      <4> QED
        BY <2>4, <3>0, <4>1, <4>2
    <3>2. QueryAdministers(r) =>
             found[r] # {} /\ \A row \in found[r] : MayLearn(r, row)
      BY <1>0 DEF QueryAdministers
    <3> QED
      BY <2>1, <2>4, <3>1, <3>2
  <2>5. CASE /\ ~ReadExisting(r) /\ stage'[r] # "done"
             /\ ~(stage[r] = "may_query" /\ Administers(r))
    <3>1. /\ UNCHANGED reply
          /\ \/ stage[r] = "adm_lookup" /\ stage'[r] = "adm_query"
             \/ stage[r] = "may_lookup" /\ stage'[r] = "may_query"
             \/ stage[r] = "adm_query" /\ stage'[r] = "revoke"
             \/ stage[r] = "revoke" /\ stage'[r] = "store"
      BY <1>0, <1>4, <2>1, <2>5, HandlerLeads DEF StageInv
    <3> QED
      BY <1>0, <2>1, <2>5, <3>1
  <2> QED
    BY <2>2, <2>3, <2>4, <2>5
<1> QED
  BY <1>1, <1>2, <1>3, <1>4 DEF StepOf

\* An owner confirms an id at a moment of the call.
LEMMA OwnConfirmInv ==
    ASSUME TypeOK, NEW r \in Requests, RequestInv(r), StepOf(r)
    PROVE  ConfirmInv(r)'
<1> DEFINE wish == call[r].wish
<1>0. StageInv(r) /\ QuietInv(r) /\ ConfirmInv(r)
  BY DEF RequestInv
<1>1. ASSUME NEW c \in Calls, Arrive(r, c)
      PROVE  ConfirmInv(r)'
  BY <1>0, <1>1, ArriveLeads DEF ConfirmInv, QuietInv
<1>2. CASE InStore(r)
  BY <1>0, <1>2, InStoreLeads, OwnWindow DEF ConfirmInv, Opens, handlerVars
<1>3. CASE Create(r)
  <2>1. stage[r] = "create" /\ stage'[r] = "store" /\ UNCHANGED call
    BY <1>3, GoOnMoves DEF Create
  <2>2. ask'[r].tuple = wish
    BY <1>3, HandOver DEF Create, TypeOK
  <2>3. Opens(r)
    BY <2>1, OwnWindow
  <2> QED
    BY <1>0, <2>1, <2>2, <2>3 DEF ConfirmInv, Opens
<1>4. CASE Revoke(r)
  <2>1. stage'[r] = "store" /\ ask'[r].kind = "revoke"
    BY <1>4, GoOnMoves, HandOver DEF Revoke, TypeOK
  <2> QED
    BY <2>1 DEF ConfirmInv
<1>5. ASSUME HandlerStep(r), ~Create(r), ~Revoke(r)
      PROVE  ConfirmInv(r)'
  <2>1. /\ stage[r] \notin {"idle", "store", "done"} /\ UNCHANGED <<call, ask>>
        /\ ask[r].kind # "create"
    BY <1>0, <1>5, HandlerMoves DEF QuietInv, storeVars
  <2>2. Opens(r)
    BY <2>1, OwnWindow
  <2>3. existing \subseteq window'[r].present
    BY <2>1, <2>2, NowInWindow DEF Opens
  <2>4. CASE stage'[r] \notin {"resource", "create"}
    BY <2>1, <2>4 DEF ConfirmInv
  <2>5. CASE ConfirmPrincipal(r) /\ stage'[r] # "done"
    <3>1. /\ IsDescribed(wish)
          /\ wish.principal_id \in existing \cap GrantKinds
          /\ \/ wish.resource_id = AllResources /\ stage'[r] = "create"
             \/ wish.resource_id # AllResources /\ stage'[r] = "resource"
      BY <2>5, PrincipalConfirmed, RespondMoves, GoOnMoves
    <3> QED
      BY <2>1, <2>3, <3>1 DEF ConfirmInv
  <2>6. CASE ConfirmResource(r) /\ stage'[r] # "done"
    <3>1. wish.resource_id \in existing /\ stage'[r] = "create"
      BY <2>6, ResourceConfirmed, RespondMoves, GoOnMoves
    <3>2. stage[r] = "resource"
      BY <2>6 DEF ConfirmResource
    <3> QED
      BY <1>0, <2>1, <2>2, <2>3, <3>1, <3>2 DEF ConfirmInv, Opens
  <2> QED
    BY <1>0, <1>5, <2>4, <2>5, <2>6, HandlerLeads
<1> QED
  BY <1>1, <1>2, <1>3, <1>4, <1>5 DEF StepOf

\* What a described body names is an id.
LEMMA DescribedAreIds ==
    ASSUME NEW wish \in Tuples, IsDescribed(wish)
    PROVE  /\ wish.principal_id \in Ids
           /\ wish.resource_id # AllResources => wish.resource_id \in Ids
<1>1. wish.principal_id \notin {"", AllResources}
  BY IdShapeAssumption DEF IsDescribed, PrincipalIDIsValid
<1>2. wish.resource_id # AllResources => wish.resource_id # ""
  BY IdShapeAssumption DEF IsDescribed, ResourceIDIsValid
<1> QED
  BY <1>1, <1>2, IdsAssumption

\* A handler blames the caller for what it has just seen.
LEMMA OwnFaultInv ==
    ASSUME TypeOK, NEW r \in Requests, RequestInv(r), StepOf(r)
    PROVE  FaultInv(r)'
<1> DEFINE c == call[r]
<1>0. StageInv(r) /\ QuietInv(r) /\ ConfirmInv(r) /\ FaultInv(r)
  BY DEF RequestInv
<1>1. ASSUME NEW d \in Calls, Arrive(r, d)
      PROVE  FaultInv(r)'
  BY <1>0, <1>1, ArriveLeads, NothingReplied DEF FaultInv, QuietInv
<1>2. CASE InStore(r)
  BY <1>0, <1>2, InStoreLeads, OwnWindow DEF FaultInv, Opens, handlerVars
<1>3. CASE HandlerStep(r)
  <2>1. /\ stage[r] \notin {"idle", "store", "done"} /\ UNCHANGED call
        /\ call[r] \in Calls /\ reply[r].status = 0
    BY <1>0, <1>3, HandlerMoves, NothingReplied DEF QuietInv, StageInv
  <2>2. Opens(r)
    BY <2>1, OwnWindow
  <2>3. Ids \ existing \subseteq window'[r].absent
    BY <2>1, <2>2, NowInWindow DEF Opens
  <2>4. CASE stage'[r] # "done"
    BY <1>0, <1>3, <2>1, <2>4, HandlerLeads DEF FaultInv
  <2>5. ASSUME stage'[r] = "done", Says(r, 400, {}),
               c.op = "create", ~c.decodes
        PROVE  FaultInv(r)'
    BY <2>1, <2>5 DEF FaultInv
  <2>6. ASSUME stage'[r] = "done", Says(r, 400, {}),
               c.op = "create", ConfirmPrincipal(r)
        PROVE  FaultInv(r)'
    <3> DEFINE wish == c.wish
    <3>1. ~Respond(r, 502, {}) /\ ~GoOn(r, "create") /\ ~GoOn(r, "resource")
      <4>1. Respond(r, 502, {}) => Says(r, 502, {})
        BY RespondMoves DEF Says
      <4>2. ~Says(r, 502, {})
        BY <2>6, SaidParts
      <4> QED
        BY <2>6, <4>1, <4>2, GoOnMoves
    <3>2. \/ ~IsDescribed(wish)
          \/ IsDescribed(wish) /\ wish.principal_id \notin existing \cap GrantKinds
      BY <2>6, <3>1, PrincipalConfirmed
    <3>3. IsDescribed(wish) => wish.principal_id \in Ids
      BY <2>1, <2>6, CallsFit, DescribedAreIds
    <3>4. \/ ~IsDescribed(wish) \/ wish.principal_id \notin GrantKinds
          \/ wish.principal_id \in window'[r].absent
      BY <2>3, <3>2, <3>3
    <3> QED
      BY <2>1, <2>6, <3>4 DEF FaultInv
  <2>7. ASSUME stage'[r] = "done", Says(r, 400, {}),
               c.op = "create", ConfirmResource(r)
        PROVE  FaultInv(r)'
    <3> DEFINE wish == c.wish
    <3>1. ~Respond(r, 502, {}) /\ ~GoOn(r, "create")
      <4>1. Respond(r, 502, {}) => Says(r, 502, {})
        BY RespondMoves DEF Says
      <4>2. ~Says(r, 502, {})
        BY <2>7, SaidParts
      <4> QED
        BY <2>7, <4>1, <4>2, GoOnMoves
    <3>2. wish.resource_id \notin existing
      BY <2>7, <3>1, ResourceConfirmed
    <3>3. IsDescribed(wish) /\ wish.resource_id # AllResources
      BY <1>0, <2>7 DEF ConfirmInv, ConfirmResource
    <3>4. wish.resource_id \in window'[r].absent
      BY <2>1, <2>3, <2>7, <3>2, <3>3, CallsFit, DescribedAreIds
    <3> QED
      BY <2>1, <2>7, <3>4 DEF FaultInv
  <2>8. ASSUME c.op = "effective", ~KnowsWords(c.relation, c.resource_type)
        PROVE  FaultInv(r)'
    BY <2>1, <2>8 DEF FaultInv
  <2>9. ASSUME c.op = "list",
               ~KnowsWords(c.filter.by.relation, c.filter.by.resource_type)
        PROVE  FaultInv(r)'
    BY <2>1, <2>9 DEF FaultInv
  <2>10. ASSUME NEW status \in {200, 401, 403, 404, 500, 502}, NEW rows,
                Says(r, status, rows)
         PROVE  FaultInv(r)'
    <3>1. reply'[r].status = status
      BY <2>10, SaidParts
    <3> QED
      BY <3>1 DEF FaultInv
  <2>11. CASE stage'[r] = "done"
    <3>1. CASE c.op = "create"
      <4>1. \/ \E status \in {401, 403, 404, 500, 502} : Says(r, status, {})
            \/ /\ Says(r, 400, {})
               /\ ~c.decodes \/ ConfirmPrincipal(r) \/ ConfirmResource(r)
        BY <1>3, <2>11, <3>1, HandlerAnswers
      <4> QED
        BY <2>5, <2>6, <2>7, <2>10, <2>11, <3>1, <4>1
    <3>2. CASE c.op = "list"
      <4>1. \/ \E status \in {401, 403, 404, 500, 502} : Says(r, status, {})
            \/ Says(r, 200, ListRows(grants, c.filter))
            \/ ~KnowsWords(c.filter.by.relation, c.filter.by.resource_type)
        BY <1>3, <2>11, <3>2, HandlerAnswers
      <4> QED
        BY <2>9, <2>10, <3>2, <4>1
    <3>3. CASE c.op = "effective"
      <4>1. \/ \E status \in {401, 403, 404, 500, 502} : Says(r, status, {})
            \/ Says(r, 200, RowsHeldBy(grants, holders[r], c.relation,
                                       c.resource_type))
            \/ ~KnowsWords(c.relation, c.resource_type)
        BY <1>3, <2>11, <3>3, HandlerAnswers
      <4> QED
        BY <2>8, <2>10, <3>3, <4>1
    <3>4. CASE c.op = "get"
      <4>1. \/ \E status \in {401, 404, 500, 502} : Says(r, status, {})
            \/ Says(r, 200, found[r])
            \/ \E row \in grants : Says(r, 200, {row})
        BY <1>3, <2>11, <3>4, HandlerAnswers
      <4>2. ASSUME NEW row \in grants, Says(r, 200, {row})
            PROVE  FaultInv(r)'
        BY <2>10, <4>2
      <4>3. CASE \E row \in grants : Says(r, 200, {row})
        BY <4>2, <4>3
      <4>4. CASE ~\E row \in grants : Says(r, 200, {row})
        BY <2>10, <4>1, <4>4
      <4> QED
        BY <4>3, <4>4
    <3>5. CASE c.op \in {"revoke", "settings"}
      <4>1. \/ \E status \in {401, 403, 404, 500, 502} : Says(r, status, {})
            \/ Says(r, 200, {})
        BY <1>3, <2>11, <3>5, HandlerAnswers
      <4> QED
        BY <2>10, <4>1
    <3> QED
      BY <2>1, <3>1, <3>2, <3>3, <3>4, <3>5, CallsFit
  <2> QED
    BY <2>4, <2>11
<1> QED
  BY <1>1, <1>2, <1>3 DEF StepOf

\* The query sees the rows of now, for holders of some moment of the call.
LEMMA OwnEffectiveInv ==
    ASSUME TypeOK, NEW r \in Requests, RequestInv(r), StepOf(r)
    PROVE  EffectiveInv(r)'
<1> DEFINE c == call[r]
<1>0. StageInv(r) /\ QuietInv(r) /\ HoldersInv(r) /\ EffectiveInv(r)
  BY DEF RequestInv
<1>1. ASSUME NEW d \in Calls, Arrive(r, d)
      PROVE  EffectiveInv(r)'
  BY <1>0, <1>1, ArriveLeads, NothingReplied DEF EffectiveInv, QuietInv
<1>2. CASE InStore(r)
  BY <1>0, <1>2, InStoreLeads, OwnWindow, EffectiveKept DEF handlerVars
<1>3. CASE HandlerStep(r)
  <2>1. stage[r] \notin {"idle", "store", "done"} /\ UNCHANGED call
    BY <1>0, <1>3, HandlerMoves
  <2>2. Opens(r)
    BY <2>1, OwnWindow
  <2>3. CASE stage'[r] # "done"
    BY <1>0, <1>3, <2>1, <2>2, <2>3, HandlerLeads, EffectiveKept
  <2>4. ASSUME NEW status \in {400, 401, 403, 404, 500, 502},
               Says(r, status, {})
        PROVE  EffectiveInv(r)'
    <3>1. reply'[r].status = status
      BY <2>4, SaidParts
    <3> QED
      BY <3>1 DEF EffectiveInv
  <2>5. ASSUME QueryEffective(r), c.op = "effective",
               Says(r, 200, RowsHeldBy(grants, holders[r], c.relation,
                                       c.resource_type))
        PROVE  EffectiveInv(r)'
    <3> DEFINE listed == RowsHeldBy(grants, holders[r], c.relation,
                                    c.resource_type)
               rows(held, by) == RowsHeldBy(held, by, c.relation, c.resource_type)
               p == c.principal_id
    <3>1. reply'[r].rows = listed
      BY <2>5, SaidParts
    <3>2. listed = rows(ActiveRows, holders[r])
      BY DEF RowsHeldBy, ActiveRows, Store!Active
    <3>3. /\ window'[r].lasting \subseteq ActiveRows
          /\ RowsOf(ActiveRows, window[r].whose) \subseteq window'[r].held
      BY <2>1, <2>2, NowInWindow DEF Opens
    <3>4. /\ {p} \cup window'[r].stays \subseteq holders[r]
          /\ holders[r] \subseteq window[r].whose
          /\ window[r].whose \subseteq window'[r].whose
      BY <1>0, <2>2, <2>5 DEF HoldersInv, QueryEffective, SubjectOf, Opens
    <3>5. rows(window'[r].lasting, {p} \cup window'[r].stays) \subseteq listed
      BY <3>2, <3>3, <3>4, MoreAreHeld
    <3>6. listed \subseteq rows(window'[r].held, window'[r].whose)
      BY <3>2, <3>3, <3>4 DEF RowsHeldBy, Held, RowsOf
    <3>7. /\ (RowsHeldBy(window[r].lasting,
                         {call[r].principal_id} \cup window[r].stays,
                         call[r].relation, call[r].resource_type)
                \subseteq reply[r].rows)'
          /\ (reply[r].rows \subseteq
                RowsHeldBy(window[r].held, window[r].whose,
                           call[r].relation, call[r].resource_type))'
      BY <2>1, <3>1, <3>5, <3>6
    <3> QED
      BY <3>7 DEF EffectiveInv
  <2>6. CASE stage'[r] = "done" /\ c.op = "effective"
    <3>1. \/ \E status \in {400, 401, 403, 404, 500, 502} : Says(r, status, {})
          \/ /\ QueryEffective(r)
             /\ Says(r, 200, RowsHeldBy(grants, holders[r], c.relation,
                                        c.resource_type))
      BY <1>3, <2>6, HandlerAnswers
    <3> QED
      BY <2>4, <2>5, <2>6, <3>1
  <2>7. CASE c.op # "effective"
    BY <2>1, <2>7 DEF EffectiveInv
  <2> QED
    BY <2>3, <2>6, <2>7
<1> QED
  BY <1>1, <1>2, <1>3 DEF StepOf
=============================================================================
