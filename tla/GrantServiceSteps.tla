------------------------- MODULE GrantServiceSteps -------------------------
(* What is known of a request of GrantService, whatever else is in flight,   *)
(* and what one step does to it and leaves alone.  RequestInv is the         *)
(* invariant of one request, in parts; the lemmas say which variables a step *)
(* of one request moves, that the others keep their RequestInv over it, and  *)
(* where each call and statement takes a handler.                            *)
EXTENDS GrantService, TLAPS

-----------------------------------------------------------------------------
(* The invariant, part by part: what is known of one request.                *)

\* The stages of each operation, once its caller is known.
StageInv(r) ==
    LET op == call[r].op IN
    /\ stage[r] # "idle" => call[r] \in Calls
    /\ stage[r] \in {"body", "grantee", "resource", "create"} => op = "create"
    /\ stage[r] = "list" => op = "list"
    /\ stage[r] \in {"eff_lookup", "eff_query"} => op = "effective"
    /\ stage[r] \in {"may_lookup", "may_query", "existing"} => op \in {"get", "revoke"}
    /\ stage[r] \in {"adm_lookup", "adm_query"} => op \in {"create", "list", "revoke"}
    /\ stage[r] = "revoke" => op = "revoke"
    /\ stage[r] = "store" => op \in {"create", "revoke"}

\* A handler has told nothing yet, and the store knows of the request only
\* once it has been handed over.
QuietInv(r) ==
    /\ stage[r] # "done" => reply[r] = NotReplied
    /\ stage[r] \in {"idle", "identify"} => ~unrestricted[r]
    /\ stage[r] \notin {"store", "done"} => pc[r] = "idle" /\ ask[r] = Store!NoAsk
    /\ stage[r] = "store" => pc[r] # "idle"
    /\ ask[r].kind = "create" => stage[r] \in {"store", "done"}

\* The window of a request shows at least what is so now: the principals whose
\* grants it may read, and of what is active all that any of those holds who was
\* one of them by now.
WindowInv(r) ==
    LET p == SubjectOf(call[r]) IN
    Serving(r) =>
        /\ window[r].lasting \subseteq ActiveRows
        /\ window[r].stays \subseteq GroupsOf(p)
        /\ {p} \cup GroupsOf(p) \subseteq window[r].whose
        /\ RowsOf(ActiveRows, window[r].whose) \subseteq window[r].held
        /\ existing \subseteq window[r].present
        /\ Ids \ existing \subseteq window[r].absent
        /\ existing \ disabled \subseteq window[r].acting

\* Holders looked up are among those of the call so far, and those of every
\* moment are among them.
HoldersInv(r) ==
    LET p == SubjectOf(call[r]) IN
    stage[r] \in {"adm_query", "may_query", "eff_query"} =>
        /\ {p} \cup window[r].stays \subseteq holders[r]
        /\ holders[r] \subseteq window[r].whose

\* A caller that got past identifyCaller acted at that moment.
CallerInv(r) ==
    /\ ~unrestricted[r] /\ stage[r] \notin {"idle", "identify", "done"} =>
         call[r].caller \in Ids
    /\ call[r].caller \in Ids =>
         \/ call[r].caller \in window[r].acting \cap CallerKinds
         \/ stage[r] \in {"idle", "identify"}
         \/ stage[r] = "done" /\ reply[r].status \in {0, 401, 502}

\* A row a handler has read is there still, but for its revoked_at.
HasOneOnBoard(r) == \E row \in found[r] : found[r] = {row} /\ OnBoard(row)

FoundInv(r) ==
    /\ stage[r] \in {"idle", "identify", "existing"} => found[r] = {}
    /\ stage[r] \in {"may_lookup", "may_query"} => HasOneOnBoard(r)
    /\ stage[r] \in {"adm_lookup", "adm_query"} /\ call[r].op = "revoke"
         => HasOneOnBoard(r)
    /\ \A row \in found[r] :
         /\ row.seq = call[r].seq
         /\ \E g \in grants : g.seq = row.seq /\ g.tuple = row.tuple

\* A restricted caller is let through on authority it had.
AuthorityInv(r) ==
    LET op == call[r].op IN
    ~unrestricted[r] =>
        /\ op = "create" /\ stage[r] \in {"adm_lookup", "adm_query", "grantee",
                                          "resource", "create", "store"}
             => call[r].wish.resource_type = "board"
        /\ op = "create" /\ stage[r] \in {"grantee", "resource", "create", "store"}
             => HadAuthority(r, call[r].wish.resource_id)
        /\ op = "revoke" /\ stage[r] \in {"revoke", "store"}
             => /\ found[r] # {}
                /\ \A row \in found[r] :
                     OnBoard(row) /\ HadAuthority(r, row.tuple.resource_id)

\* What a restricted caller is listed, it may learn.
ListInv(r) ==
    LET by == call[r].filter.by IN
    ~unrestricted[r] /\ call[r].op = "list" =>
        /\ stage[r] \in {"adm_lookup", "adm_query"} =>
             by.resource_type = "board" /\ by.resource_id # ""
        /\ stage[r] = "list" =>
             \/ by.principal_id = call[r].caller
             \/ /\ by.resource_type = "board" /\ by.resource_id # ""
                /\ HadAuthority(r, by.resource_id)
        /\ \A row \in reply[r].rows : MayLearn(r, row)

\* It is told of a row by 200 or 403, or gets to revoke it, only if it may
\* learn of it.
TellInv(r) ==
    LET told == \/ stage[r] \in {"adm_lookup", "adm_query", "revoke", "store"}
                \/ reply[r].status \in {200, 403} IN
    ~unrestricted[r] /\ call[r].op \in {"get", "revoke"} /\ told =>
        found[r] # {} /\ \A row \in found[r] : MayLearn(r, row)

\* Ids are confirmed in turn, and what a create asks of the store is confirmed.
ConfirmInv(r) ==
    LET wish == call[r].wish IN
    /\ stage[r] \in {"resource", "create"} =>
         /\ IsDescribed(wish)
         /\ wish.principal_id \in window[r].present \cap GrantKinds
    /\ stage[r] = "resource" => wish.resource_id # AllResources
    /\ stage[r] = "create" =>
         wish.resource_id \in window[r].present \cup {AllResources}
    /\ ask[r].kind = "create" =>
         /\ IsDescribed(ask[r].tuple)
         /\ ask[r].tuple.principal_id \in window[r].present \cap GrantKinds
         /\ ask[r].tuple.resource_id \in window[r].present \cup {AllResources}

\* A 400 had its reason.
FaultInv(r) ==
    LET c == call[r] IN
    reply[r].status = 400 =>
        CASE c.op = "create" ->
               \/ ~c.decodes \/ ~IsDescribed(c.wish)
               \/ c.wish.principal_id \notin GrantKinds
               \/ {c.wish.principal_id, c.wish.resource_id}
                    \cap window[r].absent # {}
          [] c.op = "list" ->
               ~KnowsWords(c.filter.by.relation, c.filter.by.resource_type)
          [] c.op = "effective" -> ~KnowsWords(c.relation, c.resource_type)
          [] OTHER -> FALSE

\* An effective set answered lies between what lasted and what was held.
EffectiveInv(r) ==
    LET c == call[r] IN
    c.op = "effective" /\ reply[r].status = 200 =>
        /\ RowsHeldBy(window[r].lasting, {c.principal_id} \cup window[r].stays,
                      c.relation, c.resource_type) \subseteq reply[r].rows
        /\ reply[r].rows \subseteq
             RowsHeldBy(window[r].held, window[r].whose, c.relation,
                        c.resource_type)

RequestInv(r) ==
    /\ StageInv(r) /\ QuietInv(r) /\ WindowInv(r) /\ HoldersInv(r)
    /\ CallerInv(r) /\ FoundInv(r) /\ AuthorityInv(r) /\ ListInv(r)
    /\ TellInv(r) /\ ConfirmInv(r) /\ FaultInv(r) /\ EffectiveInv(r)

HandlersInv == \A r \in Requests : RequestInv(r)
-----------------------------------------------------------------------------
(* What one step changes.                                                    *)

\* The calls a request may make are among these, and ask what these ask.
LEMMA CallsFit ==
    ASSUME NEW c \in Calls
    PROVE  /\ c.op \in {"create", "get", "revoke", "list", "effective", "settings"}
           /\ c.caller \in {Service} \cup Strangers \cup Ids
           /\ c.op = "create" => c.wish \in Tuples
           /\ c.op \in {"get", "revoke"} => c.seq \in Seqs
           /\ c.op = "effective" => c.principal_id \in Ids
BY CallsAssumption

\* An owner's verdict, wherever there is one, is the truth.
LEMMA LookupsAreTrue ==
    ASSUME NEW id, NEW ids, NEW a \in LookupAnswers(id \in ids)
    PROVE  /\ LookupVerdict(a) \in Verdicts
           /\ LookupVerdict(a) = "found" => id \in ids
           /\ LookupVerdict(a) = "missing" => id \notin ids
BY DEF LookupAnswers, LookupVerdict, Verdicts, Trouble, NoReply, IsSuccess

\* CheckVerdict says found or missing only where it is so.
LEMMA ChecksAreTrue ==
    ASSUME NEW type, NEW id, NEW ids, NEW a \in CheckAnswers(type, id \in ids)
    PROVE  /\ CheckVerdict(type, a) \in Verdicts
           /\ CheckVerdict(type, a) = "found" => id \in ids
           /\ CheckVerdict(type, a) = "missing" => id \notin ids
BY DEF CheckAnswers, CheckVerdict, GetVerdict, ListVerdict, Verdicts, Trouble,
       NoReply, IsSuccess

\* One answer, and one move, seen from every request.
LEMMA RespondMoves ==
    ASSUME TypeOK, NEW r \in Requests
    PROVE  \A status, rows : Respond(r, status, rows) =>
             /\ stage'[r] = "done"
             /\ reply'[r] = [status |-> status, rows |-> rows]
             /\ \A q \in Requests \ {r} :
                  stage'[q] = stage[q] /\ reply'[q] = reply[q]
BY DEF Respond, TypeOK

\* The answer of a response, part by part.
LEMMA RespondSays ==
    ASSUME TypeOK, NEW r \in Requests
    PROVE  \A status, rows : Respond(r, status, rows) =>
             reply'[r].status = status /\ reply'[r].rows = rows
BY DEF Respond, TypeOK

\* Going on answers nothing, and moves one request.
LEMMA GoOnMoves ==
    ASSUME TypeOK, NEW r \in Requests
    PROVE  \A step : GoOn(r, step) =>
             /\ stage'[r] = step
             /\ UNCHANGED reply
             /\ \A q \in Requests \ {r} : stage'[q] = stage[q]
BY DEF GoOn, TypeOK

\* A request not answered yet has been told no status and no row.
LEMMA NothingReplied == NotReplied.status = 0 /\ NotReplied.rows = {}
BY DEF NotReplied

\* The window of a request in flight opens further, and never closes.
Opens(r) ==
    /\ window'[r].lasting \subseteq window[r].lasting
    /\ window'[r].stays \subseteq window[r].stays
    /\ window[r].whose \subseteq window'[r].whose
    /\ window[r].held \subseteq window'[r].held
    /\ window[r].present \subseteq window'[r].present
    /\ window[r].absent \subseteq window'[r].absent
    /\ window[r].acting \subseteq window'[r].acting

\* No step narrows the window of a call in flight.
LEMMA WatchOpens ==
    ASSUME Watch, NEW r \in Requests, stage[r] # "idle" \/ stage'[r] = stage[r]
    PROVE  Opens(r)
<1>1. CASE ~Serving(r)'
  <2>1. window'[r] = window[r]
    BY <1>1 DEF Watch
  <2> QED
    BY <2>1 DEF Opens
<1>2. CASE Serving(r)'
  <2>1. stage[r] # "idle"
    BY <1>2 DEF Serving, InHandler
  <2>2. window'[r] = Widened(window[r], Opened(r)')
    BY <1>2, <2>1 DEF Watch
  <2> QED
    BY <2>2 DEF Opens, Widened
<1> QED
  BY <1>1, <1>2

\* Authority had during a call is had during it for good.
LEMMA OpensKeepsAuthority ==
    ASSUME NEW r \in Requests, NEW board, Opens(r), UNCHANGED call[r],
           HadAuthority(r, board)
    PROVE  HadAuthority(r, board)'
BY DEF HadAuthority, Administering, Opens

\* After any step each window shows at least what is so now.
LEMMA WatchCovers ==
    ASSUME Watch, NEW r \in Requests
    PROVE  WindowInv(r)'
<1> SUFFICES ASSUME Serving(r)'
             PROVE  WindowInv(r)'
  BY DEF WindowInv
<1>1. window'[r] = Opened(r)' \/ window'[r] = Widened(window[r], Opened(r)')
  <2>1. \/ stage[r] = "idle" /\ window'[r] = Opened(r)'
        \/ stage[r] # "idle" /\ window'[r] = Widened(window[r], Opened(r)')
    BY DEF Watch
  <2> QED
    BY <2>1
<1>2. CASE window'[r] = Opened(r)'
  BY <1>2 DEF Opened, WindowInv
<1>3. CASE window'[r] = Widened(window[r], Opened(r)')
  BY <1>3 DEF Opened, Widened, WindowInv, RowsOf
<1> QED
  BY <1>1, <1>2, <1>3

\* A row keeps its number and its tuple for good.
RowsKept ==
    \A g \in grants : \E h \in grants' : h.seq = g.seq /\ h.tuple = g.tuple

\* One statement of one request: what the others, and every row, see of it.
LEMMA StatementMoves ==
    ASSUME Store!TypeOK, NEW r \in Requests,
           Store!Proceed(r) \/ Store!SqlError(r) \/ Store!ReadError(r)
    PROVE  /\ RowsKept /\ UNCHANGED ask
           /\ pc[r] \notin {"idle", "done"} /\ pc'[r] # "idle"
           /\ \A q \in Requests \ {r} : pc'[q] = pc[q]
<1> USE DEF Store!TypeOK, Store!InTx
<1>1. CASE \/ Store!BeginImmediate(r) \/ Store!NoneExisting(r)
           \/ Store!ReadMaxSeq(r) \/ Store!Insert(r)
  BY <1>1 DEF Store!BeginImmediate, Store!NoneExisting, Store!ReadMaxSeq,
              Store!Insert, Store!Goto, RowsKept
<1>2. CASE Store!Commit(r)
  BY <1>2 DEF Store!Commit, Store!Goto, RowsKept
<1>3. CASE Store!Update(r)
  <2>1. ASSUME NEW g \in grants
        PROVE  \E h \in grants' : h.seq = g.seq /\ h.tuple = g.tuple
    <3> DEFINE h == IF g.seq = ask[r].seq /\ Store!Active(g)
                      THEN [g EXCEPT !.revoked_at = stamp[r]] ELSE g
    <3>1. h \in grants'
      BY <1>3 DEF Store!Update
    <3>2. h.seq = g.seq /\ h.tuple = g.tuple
      BY DEF Store!Row
    <3> QED
      BY <3>1, <3>2
  <2>2. RowsKept
    BY <2>1 DEF RowsKept
  <2> QED
    BY <1>3, <2>2 DEF Store!Update, Store!Goto
<1>4. CASE \/ Store!ReturnExisting(r) \/ Store!ReadBack(r) \/ Store!ReRead(r)
           \/ Store!BusyTimeout(r) \/ Store!SqlError(r) \/ Store!ReadError(r)
  BY <1>4 DEF Store!ReturnExisting, Store!ReadBack, Store!ReRead,
              Store!BusyTimeout, Store!SqlError, Store!ReadError, Store!Reply,
              RowsKept
<1> QED
  BY <1>1, <1>2, <1>3, <1>4 DEF Store!Proceed

\* A call handed over to the store.
LEMMA HandOver ==
    ASSUME Store!TypeOK, NEW r \in Requests
    PROVE  /\ \A t : Store!StartCreate(r, t) =>
                /\ UNCHANGED grants /\ pc'[r] = "begin"
                /\ ask'[r].kind = "create" /\ ask'[r].tuple = t
                /\ \A q \in Requests \ {r} : pc'[q] = pc[q] /\ ask'[q] = ask[q]
           /\ \A s : Store!StartRevoke(r, s) =>
                /\ UNCHANGED grants /\ pc'[r] = "update"
                /\ ask'[r].kind = "revoke"
                /\ \A q \in Requests \ {r} : pc'[q] = pc[q] /\ ask'[q] = ask[q]
BY DEF Store!TypeOK, Store!StartCreate, Store!StartRevoke, Store!CreateAsk,
       Store!RevokeAsk, Store!Goto

\* What a request is, but for its window and the answer of the store.
Untouched(q) ==
    UNCHANGED <<stage[q], call[q], unrestricted[q], holders[q], found[q],
                reply[q], pc[q], ask[q]>>

\* The steps of the handler of r, before it enters the store.
HandlerStep(r) == ReadBody(r) \/ Handle(r) \/ QueryError(r)

\* The steps of request r.
StepOf(r) ==
    \/ \E c \in Calls : Arrive(r, c)
    \/ HandlerStep(r) \/ InStore(r)

\* What a confirmation has established when the handler goes on, or gives up.
LEMMA PrincipalConfirmed ==
    ASSUME NEW r \in Requests, ConfirmPrincipal(r)
    PROVE  LET wish == call[r].wish IN
           \/ Respond(r, 502, {})
           \/ ~IsDescribed(wish) /\ Respond(r, 400, {})
           \/ /\ IsDescribed(wish)
              /\ wish.principal_id \notin existing \cap GrantKinds
              /\ Respond(r, 400, {})
           \/ /\ IsDescribed(wish)
              /\ wish.principal_id \in existing \cap GrantKinds
              /\ \/ wish.resource_id = AllResources /\ GoOn(r, "create")
                 \/ wish.resource_id # AllResources /\ GoOn(r, "resource")
<1> DEFINE wish == call[r].wish
<1>1. CASE ~IsDescribed(wish)
  BY <1>1 DEF ConfirmPrincipal
<1>2. CASE IsDescribed(wish)
  <2>1. PICK a \in LookupAnswers(wish.principal_id \in existing) :
            CASE LookupVerdict(a) = "unknown" -> Respond(r, 502, {})
              [] LookupVerdict(a) = "missing" -> Respond(r, 400, {})
              [] LookupVerdict(a) = "found" ->
                   IF wish.principal_id \notin GrantKinds
                     THEN Respond(r, 400, {})
                     ELSE GoOn(r, IF wish.resource_id = AllResources
                                    THEN "create" ELSE "resource")
    BY <1>2 DEF ConfirmPrincipal
  <2>2. /\ LookupVerdict(a) \in Verdicts
        /\ LookupVerdict(a) = "found" => wish.principal_id \in existing
        /\ LookupVerdict(a) = "missing" => wish.principal_id \notin existing
    BY LookupsAreTrue
  <2> QED
    BY <1>2, <2>1, <2>2 DEF Verdicts
<1> QED
  BY <1>1, <1>2

\* The second confirmation of a create: its resource exists, or it is refused.
LEMMA ResourceConfirmed ==
    ASSUME NEW r \in Requests, ConfirmResource(r)
    PROVE  LET wish == call[r].wish IN
           \/ Respond(r, 502, {})
           \/ wish.resource_id \notin existing /\ Respond(r, 400, {})
           \/ wish.resource_id \in existing /\ GoOn(r, "create")
<1> DEFINE wish == call[r].wish
           verdict(a) == CheckVerdict(wish.resource_type, a)
<1>1. PICK a \in CheckAnswers(wish.resource_type, wish.resource_id \in existing) :
          CASE verdict(a) = "unknown" -> Respond(r, 502, {})
            [] verdict(a) = "missing" -> Respond(r, 400, {})
            [] verdict(a) = "found"   -> GoOn(r, "create")
  BY DEF ConfirmResource
<1>2. /\ verdict(a) \in Verdicts
      /\ verdict(a) = "found" => wish.resource_id \in existing
      /\ verdict(a) = "missing" => wish.resource_id \notin existing
  BY ChecksAreTrue
<1> HIDE DEF verdict
<1> QED
  BY <1>1, <1>2 DEF Verdicts

\* A handler answers, or goes on to its next call or statement.
Moves(r) ==
    \/ \E status, rows : Respond(r, status, rows)
    \/ \E step : GoOn(r, step)

\* A handler that answers or goes on moves no other.
LEMMA MovesAlone ==
    ASSUME TypeOK, NEW r \in Requests, Moves(r)
    PROVE  \A q \in Requests \ {r} : stage'[q] = stage[q] /\ reply'[q] = reply[q]
BY RespondMoves, GoOnMoves DEF Moves

\* A handler's first move is an answer or a step on.
LEMMA AdmitMoves ==
    ASSUME NEW r \in Requests, NEW free, Admit(r, free)
    PROVE  Moves(r)
BY DEF Admit, AdmitRevoke, AdmitList, AdmitEffective,
       AdmitSettings, Moves

\* What each step leaves alone, and the one request it moves.
LEMMA HandlerMoves ==
    ASSUME TypeOK, NEW r \in Requests, StageInv(r), HandlerStep(r)
    PROVE  /\ stage[r] \notin {"idle", "store", "done"}
           /\ Moves(r) /\ Watch /\ UNCHANGED <<ownerVars, call>>
           /\ UNCHANGED storeVars \/ Create(r) \/ Revoke(r)
           /\ UNCHANGED unrestricted \/ IdentifyByToken(r) \/ IdentifyByLookup(r)
           /\ UNCHANGED holders \/ LookUpHolders(r)
           /\ UNCHANGED found \/ ReadExisting(r)
<1> USE DEF Reading
<1>1. CASE IdentifyByToken(r) \/ IdentifyByLookup(r)
  <2>1. Moves(r)
    BY <1>1, AdmitMoves DEF IdentifyByToken, IdentifyByLookup, Moves
  <2> QED
    BY <1>1, <2>1 DEF IdentifyByToken, IdentifyByLookup
<1>2. CASE LookUpHolders(r)
  BY <1>2 DEF LookUpHolders, Moves
<1>3. CASE QueryAdministers(r)
  BY <1>3 DEF QueryAdministers, Moves
<1>4. CASE QueryMayRead(r)
  <2>1. call[r].op = "get" \/ call[r].op = "revoke"
    BY <1>4 DEF StageInv, QueryMayRead
  <2> QED
    BY <1>4, <2>1 DEF QueryMayRead, Moves
<1>5. CASE QueryEffective(r) \/ QueryList(r) \/ QueryError(r)
  BY <1>5 DEF QueryEffective, QueryList, QueryError, Moves
<1>6. CASE ReadExisting(r)
  BY <1>6 DEF ReadExisting, Moves
<1>7. CASE ConfirmPrincipal(r)
  BY <1>7, PrincipalConfirmed DEF ConfirmPrincipal, Moves
<1>8. CASE ConfirmResource(r)
  BY <1>8, ResourceConfirmed DEF ConfirmResource, Moves
<1>9. CASE Create(r) \/ Revoke(r)
  BY <1>9 DEF Create, Revoke, Moves
<1>10. CASE ReadBody(r)
  BY <1>10 DEF ReadBody, Moves
<1> QED
  BY <1>1, <1>2, <1>3, <1>4, <1>5, <1>6, <1>7, <1>8, <1>9, <1>10
     DEF HandlerStep, Handle

\* More rows and more principals make more grants held.
LEMMA MoreAreHeld ==
    ASSUME NEW rows, NEW more, rows \subseteq more,
           NEW holds, NEW hold, holds \subseteq hold, NEW relation, NEW type
    PROVE  RowsHeldBy(rows, holds, relation, type)
             \subseteq RowsHeldBy(more, hold, relation, type)
BY DEF RowsHeldBy, Held

\* A step of one request touches no other, and keeps every row.
LEMMA OthersUntouched ==
    ASSUME TypeOK, NEW r \in Requests, StageInv(r), StepOf(r)
    PROVE  Watch /\ RowsKept /\ \A q \in Requests \ {r} : Untouched(q)
<1> USE DEF TypeOK, Untouched, storeVars
<1>1. UNCHANGED grants => RowsKept
  BY DEF RowsKept
<1>2. CASE \E c \in Calls : Arrive(r, c)
  BY <1>1, <1>2, GoOnMoves DEF Arrive
<1>3. CASE InStore(r)
  BY <1>3, StatementMoves DEF InStore, handlerVars
<1>4. CASE HandlerStep(r)
  <2>1. /\ Watch /\ UNCHANGED call
        /\ \A q \in Requests \ {r} : stage'[q] = stage[q] /\ reply'[q] = reply[q]
    BY <1>4, HandlerMoves, MovesAlone
  <2>2. RowsKept /\ \A q \in Requests \ {r} : pc'[q] = pc[q] /\ ask'[q] = ask[q]
    BY <1>1, <1>4, HandlerMoves, HandOver DEF Create, Revoke
  <2>3. \A q \in Requests \ {r} : unrestricted'[q] = unrestricted[q]
    <3> DEFINE known == TRUE
               free  == call[r].caller \in Administrators
    <3>1. \/ UNCHANGED unrestricted
          \/ unrestricted' = [unrestricted EXCEPT ![r] = known]
          \/ unrestricted' = [unrestricted EXCEPT ![r] = free]
      BY <1>4, HandlerMoves DEF IdentifyByToken, IdentifyByLookup
    <3> HIDE DEF known, free
    <3> QED
      BY <3>1
  <2>4. \A q \in Requests \ {r} : holders'[q] = holders[q]
    BY <1>4, HandlerMoves DEF LookUpHolders
  <2>5. \A q \in Requests \ {r} : found'[q] = found[q]
    <3>1. \/ UNCHANGED found
          \/ \E rows : found' = [found EXCEPT ![r] = rows]
      <4>1. UNCHANGED found \/ ReadExisting(r)
        BY <1>4, HandlerMoves
      <4> QED
        BY <4>1 DEF ReadExisting
    <3> QED
      BY <3>1
  <2> QED
    BY <2>1, <2>2, <2>3, <2>4, <2>5
<1> QED
  BY <1>2, <1>3, <1>4 DEF StepOf

\* A window that opens keeps what an effective set was answered to be.
LEMMA EffectiveKept ==
    ASSUME NEW q \in Requests, Opens(q), UNCHANGED <<call[q], reply[q]>>,
           EffectiveInv(q)
    PROVE  EffectiveInv(q)'
<1> DEFINE c == call[q]
           lasted == RowsHeldBy(window[q].lasting,
                                {c.principal_id} \cup window[q].stays,
                                c.relation, c.resource_type)
           were == RowsHeldBy(window[q].held, window[q].whose,
                              c.relation, c.resource_type)
<1>1. lasted' \subseteq lasted /\ were \subseteq were'
  BY MoreAreHeld DEF Opens
<1> QED
  BY <1>1 DEF EffectiveInv

\* A request that a step leaves alone keeps what is known of it.
LEMMA LeftAlone ==
    ASSUME NEW q \in Requests, RequestInv(q), Untouched(q), RowsKept, Watch
    PROVE  RequestInv(q)'
<1> USE DEF Untouched
<1>1. Opens(q) /\ WindowInv(q)'
  BY WatchOpens, WatchCovers
<1>2. \A board : HadAuthority(q, board) => HadAuthority(q, board)'
  BY <1>1, OpensKeepsAuthority
<1>3. StageInv(q)' /\ QuietInv(q)'
  BY DEF RequestInv, StageInv, QuietInv
<1>4. HoldersInv(q)'
  BY <1>1 DEF RequestInv, HoldersInv, Opens
<1>5. CallerInv(q)'
  BY <1>1 DEF RequestInv, CallerInv, Opens
<1>6. FoundInv(q)'
  BY DEF RequestInv, FoundInv, HasOneOnBoard, RowsKept
<1>7. AuthorityInv(q)'
  BY <1>2 DEF RequestInv, AuthorityInv
<1>8. ListInv(q)' /\ TellInv(q)'
  <2>1. \A row : MayLearn(q, row) => MayLearn(q, row)'
    BY <1>2 DEF MayLearn
  <2>2. ListInv(q)'
    BY <1>2, <2>1 DEF RequestInv, ListInv
  <2>3. TellInv(q)'
    BY <2>1 DEF RequestInv, TellInv
  <2> QED
    BY <2>2, <2>3
<1>9. ConfirmInv(q)'
  BY <1>1 DEF RequestInv, ConfirmInv, Opens
<1>10. FaultInv(q)'
  BY <1>1 DEF RequestInv, FaultInv, Opens
<1>11. EffectiveInv(q)'
  BY <1>1, EffectiveKept DEF RequestInv
<1> QED
  BY <1>1, <1>3, <1>4, <1>5, <1>6, <1>7, <1>8, <1>9, <1>10, <1>11 DEF RequestInv

-----------------------------------------------------------------------------
(* What one step makes of the request it moves, part by part.                *)

\* Where each handler goes once it knows its caller.
LEMMA AdmitLeads ==
    ASSUME TypeOK, NEW r \in Requests, call[r] \in Calls, NEW free, Admit(r, free)
    PROVE  LET op == call[r].op IN
           \/ stage'[r] = "done"
           \/ /\ UNCHANGED reply
              /\ \/ op = "create" /\ stage'[r] = "body"
                 \/ op = "get" /\ stage'[r] = "existing"
                 \/ op = "revoke" /\ stage'[r] \in {"revoke", "existing"}
                 \/ op = "list" /\ stage'[r] \in {"list", "adm_lookup"}
                 \/ op = "effective" /\ stage'[r] = "eff_lookup"
<1>1. \A status, rows : Respond(r, status, rows) => stage'[r] = "done"
  BY RespondMoves
<1>2. \A step : GoOn(r, step) => stage'[r] = step /\ UNCHANGED reply
  BY GoOnMoves
<1> QED
  BY <1>1, <1>2
     DEF Admit, AdmitRevoke, AdmitList, AdmitEffective,
         AdmitSettings

\* Where each of its calls and statements takes a handler.
LEMMA HandlerLeads ==
    ASSUME TypeOK, NEW r \in Requests, StageInv(r), HandlerStep(r)
    PROVE  LET op == call[r].op IN
           \/ stage'[r] = "done"
           \/ /\ UNCHANGED reply
              /\ \/ /\ IdentifyByToken(r) \/ IdentifyByLookup(r)
                    /\ stage[r] = "identify"
                    /\ \/ op = "create" /\ stage'[r] = "body"
                       \/ op = "get" /\ stage'[r] = "existing"
                       \/ op = "revoke" /\ stage'[r] \in {"revoke", "existing"}
                       \/ op = "list" /\ stage'[r] \in {"list", "adm_lookup"}
                       \/ op = "effective" /\ stage'[r] = "eff_lookup"
                 \/ /\ ReadBody(r) /\ stage[r] = "body"
                    /\ \/ stage'[r] = "grantee" /\ unrestricted[r]
                       \/ /\ stage'[r] = "adm_lookup"
                          /\ call[r].wish.resource_type = "board"
                 \/ /\ LookUpHolders(r)
                    /\ \/ stage[r] = "adm_lookup" /\ stage'[r] = "adm_query"
                       \/ stage[r] = "may_lookup" /\ stage'[r] = "may_query"
                       \/ stage[r] = "eff_lookup" /\ stage'[r] = "eff_query"
                 \/ /\ QueryAdministers(r) /\ Administers(r)
                    /\ stage[r] = "adm_query"
                    /\ \/ op = "create" /\ stage'[r] = "grantee"
                       \/ op = "list" /\ stage'[r] = "list"
                       \/ op = "revoke" /\ stage'[r] = "revoke"
                 \/ /\ QueryMayRead(r) /\ Administers(r) /\ op = "revoke"
                    /\ stage[r] = "may_query" /\ stage'[r] = "adm_lookup"
                 \/ /\ ReadExisting(r) /\ stage[r] = "existing"
                    /\ \/ op = "revoke" /\ stage'[r] = "adm_lookup"
                       \/ stage'[r] = "may_lookup"
                 \/ /\ ConfirmPrincipal(r) /\ stage[r] = "grantee"
                    /\ stage'[r] \in {"resource", "create"}
                 \/ /\ ConfirmResource(r)
                    /\ stage[r] = "resource" /\ stage'[r] = "create"
                 \/ Create(r) /\ stage[r] = "create" /\ stage'[r] = "store"
                 \/ Revoke(r) /\ stage[r] = "revoke" /\ stage'[r] = "store"
<1>a. \A status, rows : Respond(r, status, rows) => stage'[r] = "done"
  BY RespondMoves
<1>b. \A step : GoOn(r, step) => stage'[r] = step /\ UNCHANGED reply
  BY GoOnMoves
<1> USE <1>a, <1>b
<1>0. stage[r] # "idle" => call[r] \in Calls
  BY DEF StageInv
<1>1. CASE IdentifyByToken(r) \/ IdentifyByLookup(r)
  BY <1>0, <1>1, AdmitLeads DEF IdentifyByToken, IdentifyByLookup
<1>2. CASE LookUpHolders(r)
  BY <1>2 DEF LookUpHolders, QueryAfter
<1>3. CASE QueryAdministers(r)
  BY <1>0, <1>3 DEF QueryAdministers, StageInv
<1>4. CASE QueryMayRead(r)
  BY <1>0, <1>4 DEF QueryMayRead, StageInv
<1>5. CASE QueryEffective(r) \/ QueryList(r) \/ QueryError(r)
  BY <1>5 DEF QueryEffective, QueryList, QueryError
<1>6. CASE ReadExisting(r)
  BY <1>6 DEF ReadExisting
<1>7. CASE ConfirmPrincipal(r)
  BY <1>7, PrincipalConfirmed DEF ConfirmPrincipal
<1>8. CASE ConfirmResource(r)
  BY <1>8, ResourceConfirmed DEF ConfirmResource
<1>9. CASE Create(r) \/ Revoke(r)
  BY <1>9 DEF Create, Revoke
<1>10. CASE ReadBody(r)
  BY <1>10 DEF ReadBody
<1> QED
  BY <1>1, <1>2, <1>3, <1>4, <1>5, <1>6, <1>7, <1>8, <1>9, <1>10
     DEF HandlerStep, Handle

\* A call that arrives, and a statement of the store, for the rest.
LEMMA ArriveLeads ==
    ASSUME TypeOK, NEW r \in Requests, NEW c \in Calls, Arrive(r, c)
    PROVE  /\ stage[r] = "idle" /\ stage'[r] = "identify" /\ call'[r] = c
           /\ Watch
           /\ UNCHANGED <<unrestricted, holders, found, reply, pc, ask, grants>>
BY GoOnMoves DEF Arrive, TypeOK, storeVars

\* A step in the store leaves the handler where it is.
LEMMA InStoreLeads ==
    ASSUME TypeOK, NEW r \in Requests, InStore(r)
    PROVE  /\ stage[r] = "store" /\ Watch /\ RowsKept
           /\ UNCHANGED <<handlerVars, ask>>
           /\ pc'[r] # "idle"
BY StatementMoves DEF InStore, TypeOK

\* A step takes a request to a stage of its own operation.
LEMMA OwnStageInv ==
    ASSUME TypeOK, NEW r \in Requests, RequestInv(r), StepOf(r)
    PROVE  StageInv(r)'
<1>0. StageInv(r)
  BY DEF RequestInv
<1>1. ASSUME NEW c \in Calls, Arrive(r, c)
      PROVE  StageInv(r)'
  BY <1>1, ArriveLeads DEF StageInv
<1>2. CASE InStore(r)
  BY <1>0, <1>2, InStoreLeads DEF StageInv, handlerVars
<1>3. CASE HandlerStep(r)
  <2>1. UNCHANGED call /\ stage[r] # "idle"
    BY <1>0, <1>3, HandlerMoves
  <2> QED
    BY <1>0, <1>3, <2>1, HandlerLeads DEF StageInv
<1> QED
  BY <1>1, <1>2, <1>3 DEF StepOf

\* A handler says nothing before its end, and the store knows nothing of a
\* request before it is handed over.
LEMMA OwnQuietInv ==
    ASSUME TypeOK, NEW r \in Requests, RequestInv(r), StepOf(r)
    PROVE  QuietInv(r)'
<1>0. StageInv(r) /\ QuietInv(r)
  BY DEF RequestInv
<1>1. ASSUME NEW c \in Calls, Arrive(r, c)
      PROVE  QuietInv(r)'
  BY <1>0, <1>1, ArriveLeads DEF QuietInv
<1>2. CASE InStore(r)
  BY <1>0, <1>2, InStoreLeads DEF QuietInv, handlerVars
<1>3. CASE HandlerStep(r)
  <2>1. CASE ~Create(r) /\ ~Revoke(r)
    <3>1. /\ UNCHANGED <<pc, ask>> /\ stage[r] \notin {"idle", "store", "done"}
      BY <1>0, <1>3, <2>1, HandlerMoves DEF storeVars
    <3>2. \/ stage'[r] = "done"
          \/ stage'[r] \notin {"idle", "identify", "store"} /\ UNCHANGED reply
      BY <1>0, <1>3, <2>1, HandlerLeads
    <3> QED
      BY <1>0, <3>1, <3>2 DEF QuietInv
  <2>2. CASE Create(r) \/ Revoke(r)
    BY <1>0, <2>2, HandOver, GoOnMoves DEF QuietInv, Create, Revoke, TypeOK
  <2> QED
    BY <1>0, <1>3, <2>1, <2>2, HandlerMoves
<1> QED
  BY <1>1, <1>2, <1>3 DEF StepOf
=============================================================================
