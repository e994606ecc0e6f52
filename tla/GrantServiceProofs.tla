------------------------- MODULE GrantServiceProofs -------------------------
(* Theorems about GrantService, for every set of requests, calls, owners and *)
(* initial tables.  SvcInv is the inductive invariant: the types, what the   *)
(* proofs of GrantStore know of the store, and RequestInv of each request.   *)
(* Every step of a handler is a step of GrantStore or leaves its variables   *)
(* alone, so what is proved of the store by itself holds of the store the    *)
(* handlers call.                                                            *)
EXTENDS GrantServiceParts

\* The proved store: GrantStore again, with its invariants and theorems.
Proved == INSTANCE GrantStoreRefinement

-----------------------------------------------------------------------------
(* Store and Proved name the same definitions.                               *)

\* Store and Proved are one module twice: the words about tables agree.
LEMMA SameTables ==
    /\ Store!Row = Proved!Row /\ Store!Times = Proved!Times
    /\ \A table : Store!SeqsOf(table) = Proved!SeqsOf(table)
    /\ \A table : Store!MaxSeq(table) = Proved!MaxSeq(table)
    /\ \A row : Store!Active(row) <=> Proved!Active(row)
BY DEF Store!Row, Proved!Row, Store!Times, Proved!Times, Store!SeqsOf,
       Proved!SeqsOf, Store!MaxSeq, Proved!MaxSeq, Store!Max, Proved!Max,
       Store!Active, Proved!Active

\* What the proofs of the store take for granted holds here.
LEMMA SameAssumptions ==
    /\ Proved!RequestsAssumption /\ Proved!BoundsAssumption
    /\ Proved!TablesAssumption
<1>1. \A table : Store!WellFormed(table) <=> Proved!WellFormed(table)
  BY SameTables DEF Store!WellFormed, Proved!WellFormed
<1> QED
  BY <1>1, StoreAssumption
     DEF Store!RequestsAssumption, Store!BoundsAssumption,
         Store!TablesAssumption, Proved!RequestsAssumption,
         Proved!BoundsAssumption, Proved!TablesAssumption

\* They begin alike.
LEMMA SameInit == Store!Init <=> Proved!Init
BY DEF Store!Init, Proved!Init, Store!NoAsk, Proved!NoAsk, Store!NoAnswer,
       Proved!NoAnswer

\* A call begins alike in both.
LEMMA SameStart ==
    ASSUME NEW r \in Requests
    PROVE  /\ \A t : Store!StartCreate(r, t) => Proved!StartCreate(r, t)
           /\ \A s : Store!StartRevoke(r, s) => Proved!StartRevoke(r, s)
BY SameTables
   DEF Store!StartCreate, Proved!StartCreate, Store!StartRevoke,
       Proved!StartRevoke, Store!CreateAsk, Proved!CreateAsk, Store!RevokeAsk,
       Proved!RevokeAsk, Store!Goto, Proved!Goto

\* The statements of a create are the same in both.
LEMMA SameCreate ==
    ASSUME NEW r \in Requests
    PROVE  /\ Store!BeginImmediate(r) => Proved!BeginImmediate(r)
           /\ Store!ReturnExisting(r) => Proved!ReturnExisting(r)
           /\ Store!NoneExisting(r) => Proved!NoneExisting(r)
           /\ Store!ReadMaxSeq(r) => Proved!ReadMaxSeq(r)
           /\ Store!Insert(r) => Proved!Insert(r)
           /\ Store!Commit(r) => Proved!Commit(r)
           /\ Store!ReadBack(r) => Proved!ReadBack(r)
<1>1. /\ \A t : Store!ActiveRowsOf(t) = Proved!ActiveRowsOf(t)
      /\ \A s : Store!RowsNumbered(s) = Proved!RowsNumbered(s)
      /\ Store!Collides(r) <=> Proved!Collides(r)
      /\ Store!NewRow(r) = Proved!NewRow(r)
  BY SameTables
     DEF Store!ActiveRowsOf, Proved!ActiveRowsOf, Store!RowsNumbered,
         Proved!RowsNumbered, Store!Collides, Proved!Collides, Store!NewRow,
         Proved!NewRow
<1>2. /\ \A step : Store!Goto(r, step) <=> Proved!Goto(r, step)
      /\ \A outcome, rows :
           Store!Reply(r, outcome, rows) <=> Proved!Reply(r, outcome, rows)
      /\ Store!EndTx(r) <=> Proved!EndTx(r)
  BY DEF Store!Goto, Proved!Goto, Store!Reply, Proved!Reply, Store!EndTx,
         Proved!EndTx
<1> QED
  BY <1>1, <1>2, SameTables
     DEF Store!BeginImmediate, Proved!BeginImmediate, Store!ReturnExisting,
         Proved!ReturnExisting, Store!NoneExisting, Proved!NoneExisting,
         Store!ReadMaxSeq, Proved!ReadMaxSeq, Store!Insert, Proved!Insert,
         Store!Commit, Proved!Commit, Store!ReadBack, Proved!ReadBack

\* So are those of a revoke, and the errors of any statement.
LEMMA SameRest ==
    ASSUME NEW r \in Requests
    PROVE  /\ Store!Update(r) => Proved!Update(r)
           /\ Store!ReRead(r) => Proved!ReRead(r)
           /\ Store!BusyTimeout(r) => Proved!BusyTimeout(r)
           /\ Store!SqlError(r) => Proved!SqlError(r)
           /\ Store!ReadError(r) => Proved!ReadError(r)
BY SameTables
   DEF Store!Update, Proved!Update, Store!ReRead, Proved!ReRead,
       Store!BusyTimeout, Proved!BusyTimeout, Store!SqlError, Proved!SqlError,
       Store!ReadError, Proved!ReadError, Store!RowsNumbered,
       Proved!RowsNumbered, Store!Goto, Proved!Goto, Store!Reply,
       Proved!Reply, Store!EndTx, Proved!EndTx, Store!InTx, Proved!InTx

\* So are a crash, a boot, and time that passes.
LEMMA SameProcess ==
    /\ Store!Crash => Proved!Crash
    /\ Store!Open => Proved!Open
    /\ Store!Tick => Proved!Tick
BY DEF Store!Crash, Proved!Crash, Store!Open, Proved!Open, Store!Tick,
       Proved!Tick, Store!InFlight, Proved!InFlight

\* What is typed in the one is typed in the other.
LEMMA SameType == Proved!TypeOK => Store!TypeOK
BY SameTables
   DEF Store!TypeOK, Proved!TypeOK, Store!InTx, Proved!InTx, Store!NoAsk,
       Proved!NoAsk, Store!NoAnswer, Proved!NoAnswer, Store!Outcomes,
       Proved!Outcomes

\* A step of the one is a step of the other.
LEMMA SameNext == [Store!Next]_storeVars => [Proved!Next]_(Proved!vars)
BY SameStart, SameCreate, SameRest, SameProcess
   DEF Store!Next, Proved!Next, Store!Proceed, Proved!Proceed, storeVars,
       Proved!vars

-----------------------------------------------------------------------------
(* The invariant holds to begin with, and over every step.                   *)

\* The request that moves, and all the others.
LEMMA OwnRequestInv ==
    ASSUME TypeOK, NEW r \in Requests, RequestInv(r), StepOf(r)
    PROVE  RequestInv(r)'
<1>1. StageInv(r)' /\ QuietInv(r)' /\ HoldersInv(r)' /\ CallerInv(r)'
  BY OwnStageInv, OwnQuietInv, OwnHoldersInv, OwnCallerInv
<1>2. WindowInv(r)'
  BY OthersUntouched, WatchCovers DEF RequestInv
<1>3. FoundInv(r)' /\ AuthorityInv(r)' /\ ListInv(r)' /\ TellInv(r)'
  BY OwnFoundInv, OwnAuthorityInv, OwnListInv, OwnTellInv
<1>4. ConfirmInv(r)' /\ FaultInv(r)' /\ EffectiveInv(r)'
  BY OwnConfirmInv, OwnFaultInv, OwnEffectiveInv
<1> QED
  BY <1>1, <1>2, <1>3, <1>4 DEF RequestInv

\* A step of one request keeps what is known of every request.
LEMMA StepKeeps ==
    ASSUME TypeOK, HandlersInv, NEW r \in Requests, StepOf(r)
    PROVE  HandlersInv'
<1>1. RequestInv(r)'
  BY OwnRequestInv DEF HandlersInv
<1>2. ASSUME NEW q \in Requests, q # r
      PROVE  RequestInv(q)'
  BY <1>2, OthersUntouched, LeftAlone DEF HandlersInv, RequestInv
<1> QED
  BY <1>1, <1>2 DEF HandlersInv

\* The process dies: who was being served is not answered.
LEMMA CrashKeeps ==
    ASSUME TypeOK, HandlersInv, Crash
    PROVE  HandlersInv'
<1> SUFFICES ASSUME NEW q \in Requests
             PROVE  RequestInv(q)'
  BY DEF HandlersInv
<1>0. RequestInv(q) /\ StageInv(q) /\ QuietInv(q)
  BY DEF HandlersInv, RequestInv
<1>1. /\ Watch /\ UNCHANGED <<call, unrestricted, holders, found, reply>>
      /\ UNCHANGED <<grants, ask>>
      /\ pc'[q] = IF pc[q] \in {"idle", "done"} THEN pc[q] ELSE "done"
      /\ stage'[q] = IF Serving(q) THEN "done" ELSE stage[q]
  BY DEF Crash, Store!Crash, Store!InFlight
<1>2. stage'[q] = "done" \/ stage'[q] = stage[q]
  BY <1>1
<1>3. stage'[q] \notin {"idle", "store", "done"} => FALSE
  BY <1>1 DEF Serving, InHandler
<1>4. stage[q] # "done" /\ stage'[q] = "done" => reply'[q] = NotReplied
  BY <1>0, <1>1 DEF QuietInv
<1>5. Opens(q)
  BY <1>1, <1>3, WatchOpens DEF Serving, InHandler
<1>6. \A board : HadAuthority(q, board) => HadAuthority(q, board)'
  BY <1>1, <1>5, OpensKeepsAuthority
<1>7. \A row : MayLearn(q, row) => MayLearn(q, row)'
  BY <1>1, <1>6 DEF MayLearn
<1>8. StageInv(q)' /\ QuietInv(q)'
  <2>0. stage[q] = "idle" => stage'[q] = "idle"
    BY <1>1 DEF Serving, InHandler
  <2>1. CASE stage'[q] = "done"
    <3>1. call'[q] \in Calls
      BY <1>0, <1>1, <2>0, <2>1 DEF StageInv
    <3>2. StageInv(q)'
      BY <2>1, <3>1 DEF StageInv
    <3>3. QuietInv(q)'
      BY <2>1 DEF QuietInv
    <3> QED
      BY <3>2, <3>3
  <2>2. CASE stage'[q] # "done"
    <3>1. /\ UNCHANGED <<stage[q], call[q], unrestricted[q], reply[q], ask[q]>>
          /\ stage[q] \in {"idle", "store"}
      BY <1>1, <1>2, <1>3, <2>2
    <3>2. pc'[q] = "idle" <=> pc[q] = "idle"
      BY <1>1
    <3>3. StageInv(q)'
      BY <1>0, <3>1 DEF StageInv
    <3>4. QuietInv(q)'
      BY <1>0, <3>1, <3>2 DEF QuietInv
    <3> QED
      BY <3>3, <3>4
  <2> QED
    BY <2>1, <2>2
<1>9. WindowInv(q)' /\ HoldersInv(q)'
  BY <1>1, <1>3, WatchCovers DEF HoldersInv
<1>10. CallerInv(q)' /\ FoundInv(q)'
  <2>1. CallerInv(q)'
    BY <1>0, <1>1, <1>2, <1>3, <1>4, <1>5, NothingReplied
       DEF CallerInv, RequestInv, Opens
  <2>2. FoundInv(q)'
    BY <1>0, <1>1, <1>2, <1>3 DEF FoundInv, RequestInv, HasOneOnBoard
  <2> QED
    BY <2>1, <2>2
<1>11. AuthorityInv(q)' /\ ListInv(q)' /\ TellInv(q)'
  <2>1. AuthorityInv(q)'
    BY <1>0, <1>1, <1>2, <1>6 DEF AuthorityInv, RequestInv
  <2>2. ListInv(q)'
    BY <1>0, <1>1, <1>2, <1>6, <1>7 DEF ListInv, RequestInv
  <2>3. TellInv(q)'
    BY <1>0, <1>1, <1>2, <1>7 DEF TellInv, RequestInv
  <2> QED
    BY <2>1, <2>2, <2>3
<1>12. ConfirmInv(q)' /\ FaultInv(q)' /\ EffectiveInv(q)'
  <2>1. ConfirmInv(q)'
    BY <1>0, <1>1, <1>2, <1>5 DEF ConfirmInv, RequestInv, Opens
  <2>2. FaultInv(q)'
    BY <1>0, <1>1, <1>5 DEF FaultInv, RequestInv, Opens
  <2>3. EffectiveInv(q)'
    BY <1>0, <1>1, <1>5, EffectiveKept DEF RequestInv
  <2> QED
    BY <2>1, <2>2, <2>3
<1> QED
  BY <1>8, <1>9, <1>10, <1>11, <1>12 DEF RequestInv

\* Nothing is known of a request before it arrives.
LEMMA InitHandlersInv == Init => HandlersInv
<1> SUFFICES ASSUME Init, NEW r \in Requests
             PROVE  RequestInv(r)
  BY DEF HandlersInv
<1>1. /\ stage[r] = "idle" /\ reply[r] = NotReplied /\ found[r] = {}
      /\ call[r] = NoCall /\ unrestricted[r] = FALSE
      /\ pc[r] = "idle" /\ ask[r] = Store!NoAsk
  BY DEF Init, Store!Init
<1>2. StageInv(r) /\ QuietInv(r) /\ WindowInv(r) /\ HoldersInv(r)
  BY <1>1 DEF StageInv, QuietInv, WindowInv, Serving, InHandler, HoldersInv,
              Store!NoAsk
<1>3. CallerInv(r) /\ FoundInv(r) /\ AuthorityInv(r)
  BY <1>1, IdsAssumption DEF CallerInv, FoundInv, AuthorityInv, NoCall
<1>4. ListInv(r) /\ TellInv(r)
  BY <1>1, NothingReplied DEF ListInv, TellInv
<1>5. ConfirmInv(r) /\ FaultInv(r) /\ EffectiveInv(r)
  BY <1>1, NothingReplied
     DEF ConfirmInv, FaultInv, EffectiveInv, Store!NoAsk
<1> QED
  BY <1>2, <1>3, <1>4, <1>5 DEF RequestInv

\* Every step keeps what is known of every request.
LEMMA HandlersStep == TypeOK /\ HandlersInv /\ [Next]_vars => HandlersInv'
<1> SUFFICES ASSUME TypeOK, HandlersInv, [Next]_vars
             PROVE  HandlersInv'
  OBVIOUS
<1>1. ASSUME NEW r \in Requests, StepOf(r)
      PROVE  HandlersInv'
  BY <1>1, StepKeeps
<1>2. CASE Crash
  BY <1>2, CrashKeeps
<1>3. CASE Restart \/ Tick \/ OwnerChange
  <2>1. /\ UNCHANGED <<handlerVars, pc, ask, grants>> /\ Watch
    BY <1>3 DEF Restart, Store!Open, Tick, Store!Tick, OwnerChange, storeVars
  <2>2. RowsKept /\ \A q \in Requests : Untouched(q)
    BY <2>1 DEF RowsKept, Untouched, handlerVars
  <2> QED
    BY <2>1, <2>2, LeftAlone DEF HandlersInv
<1>4. CASE UNCHANGED vars
  <2> SUFFICES ASSUME NEW q \in Requests
               PROVE  RequestInv(q)'
    BY DEF HandlersInv
  <2>0. /\ UNCHANGED <<call, stage, unrestricted, holders, found, reply, window>>
        /\ UNCHANGED <<pc, ask, grants, existing, disabled, memberOf>>
    BY <1>4 DEF vars, storeVars, ownerVars, handlerVars
  <2>1. RequestInv(q)
    BY DEF HandlersInv
  <2>2. \A board : HadAuthority(q, board)' <=> HadAuthority(q, board)
    BY <2>0 DEF HadAuthority, Administering
  <2>3. \A row : MayLearn(q, row)' <=> MayLearn(q, row)
    BY <2>0, <2>2 DEF MayLearn
  <2>4. StageInv(q)' /\ QuietInv(q)' /\ HoldersInv(q)' /\ CallerInv(q)'
    BY <2>0, <2>1 DEF RequestInv, StageInv, QuietInv, HoldersInv, CallerInv
  <2>5. WindowInv(q)'
    BY <2>0, <2>1 DEF RequestInv, WindowInv, Serving, InHandler, ActiveRows,
                      Store!Active, GroupsOf, RowsOf
  <2>6. FoundInv(q)' /\ AuthorityInv(q)'
    BY <2>0, <2>1, <2>2
       DEF RequestInv, FoundInv, HasOneOnBoard, AuthorityInv
  <2>7. ListInv(q)'
    BY <2>0, <2>1, <2>2, <2>3 DEF RequestInv, ListInv
  <2>8. TellInv(q)'
    BY <2>0, <2>1, <2>3 DEF RequestInv, TellInv
  <2>9. ConfirmInv(q)' /\ FaultInv(q)'
    BY <2>0, <2>1 DEF RequestInv, ConfirmInv, FaultInv
  <2>10. EffectiveInv(q)'
    BY <2>0, <2>1, EffectiveKept DEF RequestInv, Opens
  <2> QED
    BY <2>4, <2>5, <2>6, <2>7, <2>8, <2>9, <2>10 DEF RequestInv
<1> QED
  BY <1>1, <1>2, <1>3, <1>4 DEF Next, StepOf, HandlerStep

-----------------------------------------------------------------------------
(* The handlers use the store as it may be used, and keep their types.       *)

\* A handler's step is a step of the store, or leaves its variables alone.
LEMMA StepUsesTheStore ==
    TypeOK /\ HandlersInv /\ [Next]_vars => [Store!Next]_storeVars
<1> SUFFICES ASSUME TypeOK, HandlersInv, [Next]_vars
             PROVE  [Store!Next]_storeVars
  OBVIOUS
<1>1. ASSUME NEW r \in Requests, Create(r) \/ Revoke(r)
      PROVE  Store!Next
  <2>1. StageInv(r)
    BY DEF HandlersInv, RequestInv
  <2>2. CASE Create(r)
    <3>1. call[r] \in Calls /\ call[r].op = "create"
      BY <2>1, <2>2 DEF StageInv, Create
    <3>2. call[r].wish \in Tuples
      BY <3>1, CallsFit
    <3> QED
      BY <2>2, <3>2 DEF Create, Store!Next
  <2>3. CASE Revoke(r)
    <3>1. call[r] \in Calls /\ call[r].op = "revoke"
      BY <2>1, <2>3 DEF StageInv, Revoke
    <3>2. call[r].seq \in Seqs
      BY <3>1, CallsFit
    <3> QED
      BY <2>3, <3>2 DEF Revoke, Store!Next
  <2> QED
    BY <1>1, <2>2, <2>3
<1>2. ASSUME NEW r \in Requests, HandlerStep(r)
      PROVE  [Store!Next]_storeVars
  <2>1. StageInv(r)
    BY DEF HandlersInv, RequestInv
  <2> QED
    BY <1>1, <1>2, <2>1, HandlerMoves
<1>3. ASSUME NEW r \in Requests, InStore(r)
      PROVE  Store!Next
  BY <1>3 DEF InStore, Store!Next
<1>4. ASSUME NEW r \in Requests, NEW c \in Calls, Arrive(r, c)
      PROVE  UNCHANGED storeVars
  BY <1>4 DEF Arrive
<1>5. CASE Crash \/ Restart \/ Tick \/ OwnerChange \/ UNCHANGED vars
  BY <1>5 DEF Crash, Restart, Tick, OwnerChange, vars, Store!Next
<1> QED
  BY <1>2, <1>3, <1>4, <1>5 DEF Next, HandlerStep

Replies == [status : {0, 200, 400, 401, 403, 404, 500, 502},
            rows : SUBSET Store!Row]

\* What a handler answers is a status it knows, with rows of the table.
LEMMA AnswersFit ==
    ASSUME TypeOK, NEW r \in Requests, RequestInv(r), HandlerStep(r),
           stage'[r] = "done"
    PROVE  reply'[r] \in Replies
<1> DEFINE c == call[r]
<1>0. grants \subseteq Store!Row /\ found[r] \subseteq Store!Row
  BY DEF TypeOK, Store!TypeOK
<1>1. ASSUME NEW status \in {200, 400, 401, 403, 404, 500, 502},
             NEW rows \in SUBSET Store!Row, Says(r, status, rows)
      PROVE  reply'[r] \in Replies
  BY <1>1 DEF Says, Replies
<1>2. \A status \in {200, 400, 401, 403, 404, 500, 502} :
        Says(r, status, {}) => reply'[r] \in Replies
  BY <1>1
<1>3. \A rows \in SUBSET Store!Row : Says(r, 200, rows) => reply'[r] \in Replies
  BY <1>1
<1>4. ASSUME NEW row \in grants, Says(r, 200, {row})
      PROVE  reply'[r] \in Replies
  BY <1>0, <1>3, <1>4
<1>5. /\ RowsHeldBy(grants, holders[r], c.relation, c.resource_type)
           \in SUBSET Store!Row
      /\ ListRows(grants, c.filter) \in SUBSET Store!Row
      /\ found[r] \in SUBSET Store!Row
  BY <1>0 DEF RowsHeldBy, ListRows
<1>6. c.op \in {"create", "get", "revoke", "list", "effective", "settings"}
  <2>1. call[r] \in Calls
    BY HandlerMoves DEF RequestInv, StageInv
  <2> QED
    BY <2>1, CallsFit
<1>7. CASE c.op \in {"create", "revoke", "settings"}
  <2>1. \E status \in {200, 400, 401, 403, 404, 500, 502} : Says(r, status, {})
    BY <1>7, HandlerAnswers
  <2> QED
    BY <1>2, <2>1
<1>8. CASE c.op = "list"
  <2>1. \/ \E status \in {400, 401, 403, 404, 500, 502} : Says(r, status, {})
        \/ Says(r, 200, ListRows(grants, c.filter))
    BY <1>8, HandlerAnswers
  <2> QED
    BY <1>2, <1>3, <1>5, <2>1
<1>9. CASE c.op = "effective"
  <2>1. \/ \E status \in {400, 401, 403, 404, 500, 502} : Says(r, status, {})
        \/ Says(r, 200, RowsHeldBy(grants, holders[r], c.relation,
                                   c.resource_type))
    BY <1>9, HandlerAnswers
  <2> QED
    BY <1>2, <1>3, <1>5, <2>1
<1>10. CASE c.op = "get"
  <2>1. \/ \E status \in {401, 404, 500, 502} : Says(r, status, {})
        \/ Says(r, 200, found[r])
        \/ \E row \in grants : Says(r, 200, {row})
    BY <1>10, HandlerAnswers
  <2>2. CASE \E row \in grants : Says(r, 200, {row})
    BY <1>4, <2>2
  <2>3. CASE ~\E row \in grants : Says(r, 200, {row})
    BY <1>2, <1>3, <1>5, <2>1, <2>3
  <2> QED
    BY <2>2, <2>3
<1> QED
  BY <1>6, <1>7, <1>8, <1>9, <1>10

\* The variables of the handlers, over the steps of one request.
LEMMA OwnTypes ==
    ASSUME TypeOK, NEW r \in Requests, RequestInv(r), StepOf(r)
    PROVE  /\ call' \in [Requests -> Calls \cup {NoCall}]
           /\ stage' \in [Requests -> Stages]
           /\ unrestricted' \in [Requests -> BOOLEAN]
           /\ holders' \in [Requests -> SUBSET Ids]
           /\ found' \in [Requests -> SUBSET Store!Row]
           /\ reply' \in [Requests -> Replies]
           /\ UNCHANGED ownerVars
<1>0. /\ StageInv(r)
      /\ call \in [Requests -> Calls \cup {NoCall}]
      /\ stage \in [Requests -> Stages]
      /\ unrestricted \in [Requests -> BOOLEAN]
      /\ holders \in [Requests -> SUBSET Ids]
      /\ found \in [Requests -> SUBSET Store!Row]
      /\ reply \in [Requests -> Replies]
  BY DEF TypeOK, RequestInv, Replies
<1>1. ASSUME NEW c \in Calls, Arrive(r, c)
      PROVE  /\ call' \in [Requests -> Calls \cup {NoCall}]
             /\ stage' \in [Requests -> Stages]
             /\ UNCHANGED <<unrestricted, holders, found, reply, ownerVars>>
  BY <1>0, <1>1 DEF Arrive, GoOn, Stages
<1>2. CASE InStore(r)
  BY <1>0, <1>2 DEF InStore, handlerVars
<1>3. CASE HandlerStep(r)
  <2>1. UNCHANGED <<ownerVars, call>> /\ Moves(r)
    BY <1>0, <1>3, HandlerMoves
  <2>2. stage' \in [Requests -> Stages] /\ reply' \in [Requests -> Replies]
    <3>1. ASSUME NEW status, NEW rows, Respond(r, status, rows)
          PROVE  stage' \in [Requests -> Stages] /\ reply' \in [Requests -> Replies]
      <4> DEFINE said == [status |-> status, rows |-> rows]
      <4>1. stage'[r] = "done" /\ reply'[r] = said
        BY <3>1, RespondMoves
      <4>2. said \in Replies
        BY <1>3, <4>1, AnswersFit
      <4>3. reply' = [reply EXCEPT ![r] = said]
        BY <3>1 DEF Respond
      <4>4. stage' \in [Requests -> Stages]
        BY <1>0, <3>1 DEF Respond, Stages
      <4> HIDE DEF said
      <4> QED
        BY <1>0, <4>2, <4>3, <4>4
    <3>2. ASSUME NEW step, GoOn(r, step)
          PROVE  stage' \in [Requests -> Stages] /\ reply' \in [Requests -> Replies]
      <4>1. stage'[r] = step
        BY <3>2, GoOnMoves
      <4>2. step \in Stages
        BY <1>0, <1>3, <4>1, HandlerLeads DEF Stages
      <4> QED
        BY <1>0, <3>2, <4>2 DEF GoOn
    <3> QED
      BY <2>1, <3>1, <3>2 DEF Moves
  <2>3. unrestricted' \in [Requests -> BOOLEAN]
    <3> DEFINE known == TRUE
               free  == call[r].caller \in Administrators
    <3>1. \/ UNCHANGED unrestricted
          \/ unrestricted' = [unrestricted EXCEPT ![r] = known]
          \/ unrestricted' = [unrestricted EXCEPT ![r] = free]
      BY <1>0, <1>3, HandlerMoves DEF IdentifyByToken, IdentifyByLookup
    <3>2. known \in BOOLEAN /\ free \in BOOLEAN
      OBVIOUS
    <3> HIDE DEF known, free
    <3> QED
      BY <1>0, <3>1, <3>2
  <2>4. holders' \in [Requests -> SUBSET Ids]
    <3>1. CASE LookUpHolders(r)
      <4> DEFINE p == SubjectOf(call[r])
      <4>1. PICK a \in LookupAnswers(p \in existing) :
                \/ UNCHANGED holders
                \/ /\ LookupVerdict(a) = "found"
                   /\ holders' = [holders EXCEPT ![r] = HoldersOf(p)]
        BY <3>1 DEF LookUpHolders
      <4>2. LookupVerdict(a) = "found" => HoldersOf(p) \subseteq Ids
        BY <4>1, LookupsAreTrue, OwnersAssumption DEF HoldersOf, GroupsOf, TypeOK
      <4> QED
        BY <1>0, <4>1, <4>2
    <3> QED
      BY <1>0, <1>3, <3>1, HandlerMoves
  <2>5. found' \in [Requests -> SUBSET Store!Row]
    <3>1. CASE ReadExisting(r)
      <4>1. \/ UNCHANGED found
            \/ \E row \in grants : found' = [found EXCEPT ![r] = {row}]
        BY <3>1 DEF ReadExisting, RowsNumbered
      <4> QED
        BY <1>0, <4>1 DEF TypeOK, Store!TypeOK
    <3> QED
      BY <1>0, <1>3, <3>1, HandlerMoves
  <2> QED
    BY <1>0, <2>1, <2>2, <2>3, <2>4, <2>5
<1> QED
  BY <1>0, <1>1, <1>2, <1>3 DEF StepOf

\* Every step keeps the types, those of the store being kept.
LEMMA ServiceTypeStep ==
    TypeOK /\ HandlersInv /\ Proved!TypeOK' /\ [Next]_vars => TypeOK'
<1> SUFFICES ASSUME TypeOK, HandlersInv, Proved!TypeOK', [Next]_vars
             PROVE  TypeOK'
  OBVIOUS
<1>0. Store!TypeOK'
  BY SameTables
     DEF Store!TypeOK, Proved!TypeOK, Store!InTx, Proved!InTx, Store!NoAsk,
         Proved!NoAsk, Store!NoAnswer, Proved!NoAnswer, Store!Outcomes,
         Proved!Outcomes
<1> DEFINE HandlerTypes ==
             /\ call \in [Requests -> Calls \cup {NoCall}]
             /\ stage \in [Requests -> Stages]
             /\ unrestricted \in [Requests -> BOOLEAN]
             /\ holders \in [Requests -> SUBSET Ids]
             /\ found \in [Requests -> SUBSET Store!Row]
             /\ reply \in [Requests -> Replies]
           OwnerTypes ==
             /\ existing \subseteq Ids /\ disabled \subseteq Ids
             /\ memberOf \in [DOMAIN InitialMembers -> SUBSET Groups]
             /\ changes \in 0..MaxChanges
<1>1. HandlerTypes /\ OwnerTypes
  BY DEF TypeOK, Replies
<1>2. HandlerTypes'
  <2>1. ASSUME NEW r \in Requests, StepOf(r)
        PROVE  HandlerTypes'
    BY <2>1, OwnTypes DEF HandlersInv
  <2>2. CASE Crash
    <3>1. UNCHANGED <<call, unrestricted, holders, found, reply>>
      BY <2>2 DEF Crash
    <3>2. stage' \in [Requests -> Stages]
      BY <1>1, <2>2 DEF Crash, Stages
    <3> QED
      BY <1>1, <3>1, <3>2
  <2>3. CASE Restart \/ Tick \/ OwnerChange \/ UNCHANGED vars
    <3>1. UNCHANGED handlerVars
      BY <2>3 DEF Restart, Tick, OwnerChange, vars
    <3> QED
      BY <1>1, <3>1 DEF handlerVars
  <2> QED
    BY <2>1, <2>2, <2>3 DEF Next, StepOf, HandlerStep
<1>3. OwnerTypes'
  <2>1. CASE UNCHANGED ownerVars
    BY <1>1, <2>1 DEF ownerVars
  <2>2. CASE OwnerChange
    <3>1. changes' \in 0..MaxChanges
      BY <1>1, <2>2, OwnersAssumption DEF OwnerChange
    <3>2. ASSUME NEW p \in DOMAIN memberOf, NEW g \in Groups,
                 memberOf' = [memberOf EXCEPT ![p] =
                                IF g \in @ THEN @ \ {g} ELSE @ \cup {g}],
                 UNCHANGED <<existing, disabled>>
          PROVE  OwnerTypes'
      BY <1>1, <3>1, <3>2
    <3>3. ASSUME NEW p \in DOMAIN memberOf \cup Groups,
                 disabled' = IF p \in disabled THEN disabled \ {p}
                                               ELSE disabled \cup {p},
                 UNCHANGED <<existing, memberOf>>
          PROVE  OwnerTypes'
      BY <1>1, <3>1, <3>3, OwnersAssumption
    <3>4. ASSUME NEW id \in Deletable,
                 existing' = IF id \in existing THEN existing \ {id}
                                                ELSE existing \cup {id},
                 UNCHANGED <<disabled, memberOf>>
          PROVE  OwnerTypes'
      BY <1>1, <3>1, <3>4, OwnersAssumption
    <3> QED
      BY <2>2, <3>2, <3>3, <3>4 DEF OwnerChange
  <2>3. ASSUME NEW r \in Requests, StepOf(r)
        PROVE  UNCHANGED ownerVars
    BY <2>3, OwnTypes DEF HandlersInv
  <2> QED
    BY <2>1, <2>2, <2>3 DEF Next, StepOf, HandlerStep, Crash, Restart, Tick, vars
<1> QED
  BY <1>0, <1>2, <1>3 DEF TypeOK, Replies

-----------------------------------------------------------------------------
(* The theorems.                                                             *)

SvcInv == TypeOK /\ Proved!AnsInv /\ HandlersInv

\* The invariant holds to begin with.
LEMMA InitSvcInv == Init => SvcInv
<1> SUFFICES ASSUME Init
             PROVE  SvcInv
  OBVIOUS
<1>1. Proved!AnsInv
  BY SameInit, SameAssumptions, Proved!InitAnsInv DEF Init
<1>2. Store!TypeOK
  BY <1>1, SameType DEF Proved!AnsInv, Proved!IInv
<1>3. TypeOK
  BY <1>2, OwnersAssumption, NothingReplied DEF Init, TypeOK, Stages, NotReplied
<1> QED
  BY <1>1, <1>3, InitHandlersInv DEF SvcInv

\* Every step keeps it: the store's part by the store's own proof.
LEMMA SvcInvStep == SvcInv /\ [Next]_vars => SvcInv'
<1> SUFFICES ASSUME SvcInv, [Next]_vars
             PROVE  SvcInv'
  OBVIOUS
<1>1. TypeOK /\ HandlersInv /\ Proved!AnsInv
  BY DEF SvcInv
<1>2. [Proved!Next]_(Proved!vars)
  BY <1>1, StepUsesTheStore, SameNext
<1>3. Proved!AnsInv'
  BY <1>1, <1>2, SameAssumptions, Proved!AnsInvStep
<1>4. Proved!TypeOK'
  BY <1>3 DEF Proved!AnsInv, Proved!IInv
<1>5. HandlersInv'
  BY <1>1, HandlersStep
<1> QED
  BY <1>1, <1>3, <1>4, <1>5, ServiceTypeStep DEF SvcInv

\* The invariant holds of every reachable state.
THEOREM SvcInvHolds == Spec => []SvcInv
BY InitSvcInv, SvcInvStep, PTL DEF Spec

\* The handlers, whatever they do, call the store as GrantStore lets it be
\* called: its variables behave as they do there, and all that is proved of
\* the store is true of the service.
THEOREM HandlersUseTheStore == Spec => Store!Init /\ [][Store!Next]_storeVars
<1>1. Init => Store!Init
  BY DEF Init
<1>2. SvcInv /\ [Next]_vars => [Store!Next]_storeVars
  BY StepUsesTheStore DEF SvcInv
<1> QED
  BY <1>1, <1>2, SvcInvHolds, PTL DEF Spec

\* With handlers above it, owners that change and a process that dies, the
\* database layer is still the register of grants it promises to be.
THEOREM ServiceKeepsRegistry == Spec => Proved!RegistryPromises
<1>1. Init => Proved!Registry!Init
  BY SameInit, SameAssumptions, Proved!RegistryInit DEF Init
<1>2. SvcInv /\ [Next]_vars => [Proved!Registry!Next]_(Proved!Registry!vars)
  BY StepUsesTheStore, SameNext, SameAssumptions, Proved!RegistryStep DEF SvcInv
<1> QED
  BY <1>1, <1>2, SvcInvHolds, PTL
     DEF Spec, Proved!RegistryPromises, Proved!Registry!Spec

\* No handler, and no failure of one, deletes or rewrites a row: a row changes
\* once, by the first revoke of its number.
THEOREM ServiceKeepsHistory == Spec => Proved!HistoryOnlyGrows
<1>1. SvcInv /\ [Next]_vars => [Proved!Keeps]_grants
  BY StepUsesTheStore, SameNext, SameAssumptions, Proved!HistoryStep DEF SvcInv
<1>2. [Proved!Keeps]_grants <=> [\A g \in grants : g \notin grants' =>
          /\ Proved!Active(g)
          /\ \E r \in Requests :
                /\ ask[r].kind = "revoke" /\ ask[r].seq = g.seq
                /\ [g EXCEPT !.revoked_at = ask[r].since] \in grants']_grants
  BY DEF Proved!Keeps
<1> QED
  BY <1>1, <1>2, SvcInvHolds, PTL DEF Spec, Proved!HistoryOnlyGrows

\* Over any step of the service, what the store has told stays true.
LEMMA AnswersKept ==
    SvcInv /\ Proved!AnswerInv /\ [Next]_vars => Proved!AnswerInv'
<1> SUFFICES ASSUME SvcInv, Proved!AnswerInv, [Next]_vars
             PROVE  Proved!AnswerInv'
  OBVIOUS
<1>1. [Proved!Next]_(Proved!vars)
  BY StepUsesTheStore, SameNext DEF SvcInv
<1> QED
  BY <1>1, SameAssumptions, Proved!AnswerStep DEF SvcInv

\* Under the handlers too, what the store told a create or a revoke stays true
\* of the table for ever.
THEOREM ServiceAnswersHold ==
    Spec => []Proved!CreateAnswersTellWhatWasWritten /\ []Proved!RevokeAnswersAgree
<1>1. Init => Proved!AnswerInv
  BY SameInit, SameAssumptions, Proved!InitAnswerInv DEF Init
<1>2. SvcInv => Proved!AnsInv
  BY DEF SvcInv
<1>3. Proved!AnsInv /\ Proved!AnswerInv =>
          Proved!CreateAnswersTellWhatWasWritten /\ Proved!RevokeAnswersAgree
  BY SameAssumptions, Proved!CreateAnswersAre, Proved!RevokeAnswersAre
<1> QED
  BY <1>1, <1>2, <1>3, AnswersKept, SvcInvHolds, PTL DEF Spec

\* What the statements promise of the table they promise under the handlers: one
\* active row for a tuple, numbers without gap or repeat and in the order of
\* granted_at, no INSERT that hits a UNIQUE index, no lock without its
\* transaction; whatever callers, owners, errors and crashes come between.
THEOREM ServiceTableHolds ==
    Spec => [](/\ Proved!OneActiveRowPerTuple /\ Proved!SeqsNumberTheRows
               /\ Proved!GrantedInSeqOrder /\ Proved!InsertNeverCollides
               /\ Proved!LockFollowsTheTransaction)
<1>1. SvcInv => Proved!IInv
  BY DEF SvcInv, Proved!AnsInv
<1>2. Proved!IInv => /\ Proved!OneActiveRowPerTuple /\ Proved!SeqsNumberTheRows
                     /\ Proved!GrantedInSeqOrder /\ Proved!InsertNeverCollides
                     /\ Proved!LockFollowsTheTransaction
  BY SameAssumptions, Proved!NothingToHit DEF Proved!IInv, Proved!TableInv
<1> QED
  BY <1>1, <1>2, SvcInvHolds, PTL

\* Every variable of the service keeps its type: the replies are of statuses
\* the handlers know, and carry rows of the table.
THEOREM ServiceTypes == Spec => []TypeOK
<1>1. SvcInv => TypeOK
  BY DEF SvcInv
<1> QED
  BY <1>1, SvcInvHolds, PTL

\* A principal writes only on two moments of its call: one at which it, or a
\* group it was in, is the holder, and then one at which the can_administer of
\* that holder is active; whatever owners and other callers do meanwhile.
THEOREM WritersHaveAuthority == Spec => []WritersAdminister
<1>1. SvcInv => WritersAdminister
  <2> SUFFICES ASSUME SvcInv, NEW r \in Requests, stage[r] = "store",
                      ~unrestricted[r]
               PROVE  \/ /\ call[r].op = "create"
                         /\ call[r].wish.resource_type = "board"
                         /\ HadAuthority(r, call[r].wish.resource_id)
                      \/ /\ call[r].op = "revoke"
                         /\ \E row \in RowsNumbered(call[r].seq) :
                              OnBoard(row) /\ HadAuthority(r, row.tuple.resource_id)
    BY DEF WritersAdminister
  <2>1. StageInv(r) /\ AuthorityInv(r) /\ FoundInv(r)
    BY DEF SvcInv, HandlersInv, RequestInv
  <2>2. CASE call[r].op = "create"
    BY <2>1, <2>2 DEF AuthorityInv
  <2>3. CASE call[r].op = "revoke"
    <3>1. PICK row \in found[r] : OnBoard(row) /\ HadAuthority(r, row.tuple.resource_id)
      BY <2>1, <2>3 DEF AuthorityInv
    <3>2. PICK g \in grants : g.seq = row.seq /\ g.tuple = row.tuple
      BY <2>1 DEF FoundInv
    <3>3. g \in RowsNumbered(call[r].seq)
      BY <2>1, <3>2 DEF FoundInv, RowsNumbered
    <3> QED
      BY <2>3, <3>1, <3>2, <3>3 DEF OnBoard
  <2> QED
    BY <2>1, <2>2, <2>3 DEF StageInv
<1> QED
  BY <1>1, SvcInvHolds, PTL

\* What a principal is shown of a grant, or told by a 403, it held, or its board
\* it administered by two such moments of the call: here the number of a grant
\* must be its own for good.  What a 502 or a 500 tells is outside it.
THEOREM ReadersHadTheRight == Spec => []ReadersMayRead
<1>1. SvcInv => ReadersMayRead
  <2> DEFINE learnt(r) ==
               CASE call[r].op = "list"              -> reply[r].rows
                 [] call[r].op \in {"get", "revoke"} ->
                      IF Status(r) \in {200, 403} THEN RowsNumbered(call[r].seq)
                                                  ELSE {}
                 [] OTHER                            -> {}
  <2> SUFFICES ASSUME SvcInv, NEW r \in Requests, ~unrestricted[r],
                      NEW row \in learnt(r)
               PROVE  MayLearn(r, row)
    BY DEF ReadersMayRead, MayLearn
  <2>1. StageInv(r) /\ FoundInv(r) /\ ListInv(r) /\ TellInv(r)
    BY DEF SvcInv, HandlersInv, RequestInv
  <2>2. CASE call[r].op = "list"
    BY <2>1, <2>2 DEF ListInv
  <2>3. CASE call[r].op \in {"get", "revoke"}
    <3>1. row \in grants /\ row.seq = call[r].seq /\ Status(r) \in {200, 403}
      BY <2>3 DEF RowsNumbered
    <3>2. stage[r] = "store" \/ reply[r].status \in {200, 403}
      BY <3>1 DEF Status
    <3>3. PICK read \in found[r] : MayLearn(r, read)
      BY <2>1, <2>3, <3>2 DEF TellInv
    <3>4. PICK g \in grants : g.seq = read.seq /\ g.tuple = read.tuple
      BY <2>1 DEF FoundInv
    <3>5. \A g1, g2 \in grants : g1.seq = g2.seq => g1 = g2
      BY DEF SvcInv, Proved!AnsInv, Proved!IInv, Proved!TableInv,
             Proved!SeqsNumberTheRows
    <3>6. row.tuple = read.tuple
      BY <2>1, <3>1, <3>4, <3>5 DEF FoundInv
    <3> QED
      BY <3>3, <3>6 DEF MayLearn, OnBoard
  <2> QED
    BY <2>2, <2>3
<1> QED
  BY <1>1, SvcInvHolds, PTL

\* Whoever is answered anything but a 401 or a 502, or writes, acted at some
\* moment of its call.
THEOREM CallersCouldAct == Spec => []CallersAct
<1>1. SvcInv => CallersAct
  <2> SUFFICES ASSUME SvcInv, NEW r \in Requests, call[r].caller \in Ids,
                      Status(r) \notin {0, 401, 502} \/ stage[r] = "store"
               PROVE  call[r].caller \in window[r].acting \cap CallerKinds
    BY DEF CallersAct
  <2>1. QuietInv(r) /\ CallerInv(r)
    BY DEF SvcInv, HandlersInv, RequestInv
  <2>2. stage[r] # "store" => reply[r].status \notin {0, 401, 502}
    BY DEF Status
  <2>3. stage[r] \notin {"idle", "identify"}
    BY <2>1, <2>2, NothingReplied DEF QuietInv
  <2> QED
    BY <2>1, <2>2, <2>3 DEF CallerInv
<1> QED
  BY <1>1, SvcInvHolds, PTL

\* Every row written here names ids that were confirmed while its call was in
\* flight: a row carries the request that wrote it.
THEOREM RowsAreConfirmed == Spec => []RowsNameConfirmedIds
<1>1. SvcInv => RowsNameConfirmedIds
  <2> SUFFICES ASSUME SvcInv, NEW row \in grants, row.note # NoRequest
               PROVE  /\ IsDescribed(row.tuple)
                      /\ row.tuple.principal_id
                           \in window[row.note].present \cap GrantKinds
                      /\ row.tuple.resource_id \in
                           window[row.note].present \cup {AllResources}
    BY DEF RowsNameConfirmedIds
  <2>1. row.note \in Requests
    BY DEF SvcInv, TypeOK, Store!TypeOK, Store!Row
  <2>2. ask[row.note].kind = "create" /\ row.tuple = ask[row.note].tuple
    BY <2>1 DEF SvcInv, Proved!AnsInv, Proved!WriterInv
  <2>3. ConfirmInv(row.note)
    BY <2>1 DEF SvcInv, HandlersInv, RequestInv
  <2> QED
    BY <2>2, <2>3 DEF ConfirmInv
<1> QED
  BY <1>1, SvcInvHolds, PTL

\* A 400 is deserved: no answer of an owner but a plain no makes one.
THEOREM FaultsAreTheCallers == Spec => []BadRequestIsTheCallersFault
<1>1. SvcInv => BadRequestIsTheCallersFault
  <2> SUFFICES ASSUME SvcInv, NEW r \in Requests
               PROVE  Status(r) = 400 => reply[r].status = 400
    BY DEF SvcInv, HandlersInv, RequestInv, FaultInv, BadRequestIsTheCallersFault
  <2>1. CASE stage[r] # "store"
    BY <2>1 DEF Status
  <2>2. CASE stage[r] = "store"
    <3>1. answer[r].outcome \in Store!Outcomes \cup {"none"}
      BY DEF SvcInv, TypeOK, Store!TypeOK, Store!NoAnswer
    <3>2. Status(r) \in {0, 200, 201, 404, 500}
      BY <2>2, <3>1 DEF Status, Store!Outcomes
    <3> QED
      BY <3>2
  <2> QED
    BY <2>1, <2>2
<1> QED
  BY <1>1, SvcInvHolds, PTL

\* An effective set is answered by its handler, not by the store.
LEMMA EffectiveReplied ==
    ASSUME SvcInv, NEW r \in Requests, call[r].op = "effective", Status(r) = 200
    PROVE  reply[r].status = 200 /\ EffectiveInv(r)
<1>1. StageInv(r) /\ EffectiveInv(r)
  BY DEF SvcInv, HandlersInv, RequestInv
<1> QED
  BY <1>1 DEF StageInv, Status

\* The effective set holds every grant that was active all along, and held all
\* along by the principal or one of its groups.
THEOREM EffectiveIsComplete == Spec => []EffectiveMissesNothing
<1>1. SvcInv => EffectiveMissesNothing
  BY EffectiveReplied DEF EffectiveMissesNothing, EffectiveInv
<1> QED
  BY <1>1, SvcInvHolds, PTL

\* It holds only grants that were active at a moment of the call, to a holder
\* that was theirs at that moment of the call or an earlier one.
THEOREM EffectiveIsSound == Spec => []EffectiveFollowsItsLookup
<1>1. SvcInv => EffectiveFollowsItsLookup
  BY EffectiveReplied DEF EffectiveFollowsItsLookup, EffectiveInv
<1> QED
  BY <1>1, SvcInvHolds, PTL
=============================================================================
