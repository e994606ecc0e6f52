------------------------ MODULE GrantStoreRefinement ------------------------
(* GrantStore implements GrantRegistry, for every set of requests, tuples    *)
(* and initial tables, and what its answers told of the rows stays true.     *)
(* AnsInv adds to IInv what is known of a request beside its transaction:    *)
(* which row it wrote, what it asked for, and whether it was answered.       *)
EXTENDS GrantStoreProofs

-----------------------------------------------------------------------------
(* The invariant.                                                            *)

\* A request is in flight from its arrival to its answer.
FlightInv ==
    \A r \in Requests :
        /\ pc[r] = "idle" <=> ask[r] = NoAsk
        /\ pc[r] # "done" <=> answer[r] = NoAnswer
        /\ pc[r] # "idle" => ask[r].since <= clock

\* A row carrying a request's note was committed by it and by nobody else; at
\* the read back it is the row with the number the request took.
WriterInv ==
    /\ \A g \in grants : g.note \in Requests =>
         /\ pc[g.note] \in {"readback", "done"}
         /\ ask[g.note].kind = "create"
         /\ g.tuple = ask[g.note].tuple
    /\ \A r \in Requests : pc[r] = "readback" =>
         \A g \in grants : g.seq = nextSeq[r] <=> g.note = r
    /\ \A r \in Requests : pc[r] = "readback" => \E g \in grants : g.note = r
    /\ \A g, h \in grants : g.note \in Requests /\ g.note = h.note => g = h

\* The stamp of a write is a time at which its request was in flight, and
\* what was known when a revoke arrived is still there.
CallInv ==
    \A r \in Requests :
        /\ pc[r] = "commit" => stamp[r] >= ask[r].since
        /\ pc[r] = "update" => stamp[r] = ask[r].since
        /\ ask[r].kind = "revoke" /\ ask[r].known =>
             ask[r].seq \in SeqsOf(grants)
        /\ pc[r] = "reread" /\ ask[r].known =>
             \A g \in RowsNumbered(ask[r].seq) : ~Active(g)

AnsInv == IInv /\ FlightInv /\ WriterInv /\ CallInv

\* The strengthened invariant holds to begin with.
LEMMA InitAnsInv == Init => AnsInv
<1> SUFFICES ASSUME Init PROVE AnsInv
  OBVIOUS
<1> USE RequestsAssumption, TablesAssumption
<1>1. IInv
  BY InitIInv
<1>2. \A g \in grants : g.note \notin Requests
  BY DEF Init
<1>3. FlightInv /\ WriterInv
  BY <1>2 DEF Init, FlightInv, WriterInv
<1>4. CallInv
  BY DEF Init, CallInv, NoAsk
<1> QED
  BY <1>1, <1>3, <1>4 DEF AnsInv

\* Every step keeps answers with the requests that are done.
LEMMA FlightStep == AnsInv /\ [Next]_vars => FlightInv'
<1> SUFFICES ASSUME AnsInv, [Next]_vars PROVE FlightInv'
  OBVIOUS
<1> USE DEF InTx
<1>0. /\ TypeOK /\ FlightInv /\ AskInv /\ clock \in Nat
      /\ \A r \in Requests : pc[r] # "idle" => ask[r].since \in Nat
  <2>1. TypeOK /\ FlightInv /\ AskInv /\ clock \in Nat
    BY DEF AnsInv, IInv, TypeOK, Times
  <2>2. \A r \in Requests : ask[r] # NoAsk => ask[r].since \in Nat
    BY <2>1 DEF TypeOK, Times
  <2> QED
    BY <2>1, <2>2 DEF FlightInv
<1>1. ASSUME NEW r \in Requests, NEW t \in Tuples, StartCreate(r, t)
      PROVE  FlightInv'
  <2>1. CreateAsk(t) # NoAsk /\ CreateAsk(t).since = clock
    BY DEF CreateAsk, NoAsk
  <2> QED
    BY <1>0, <1>1, <2>1 DEF StartCreate, Goto, TypeOK, FlightInv
<1>2. ASSUME NEW r \in Requests, NEW s \in Seqs, StartRevoke(r, s)
      PROVE  FlightInv'
  <2>1. RevokeAsk(s) # NoAsk /\ RevokeAsk(s).since = clock
    BY DEF RevokeAsk, NoAsk
  <2> QED
    BY <1>0, <1>2, <2>1 DEF StartRevoke, Goto, TypeOK, FlightInv
<1>3. ASSUME NEW r \in Requests,
             \/ BeginImmediate(r) \/ NoneExisting(r) \/ ReadMaxSeq(r)
             \/ Insert(r) \/ Commit(r) \/ Update(r)
      PROVE  FlightInv'
  BY <1>0, <1>3
     DEF BeginImmediate, NoneExisting, ReadMaxSeq, Insert, Commit, Update,
         Goto, TypeOK, FlightInv
<1>4. ASSUME NEW r \in Requests, NEW outcome \in Outcomes, NEW rows,
             Reply(r, outcome, rows), pc[r] # "idle", UNCHANGED <<ask, clock>>
      PROVE  FlightInv'
  <2>1. answer'[r] # NoAnswer
    BY <1>0, <1>4 DEF Reply, TypeOK, Outcomes, NoAnswer
  <2> QED
    BY <1>0, <1>4, <2>1 DEF Reply, TypeOK, FlightInv
<1>5. ASSUME NEW r \in Requests,
             \/ ReturnExisting(r) \/ ReadBack(r) \/ ReRead(r)
             \/ BusyTimeout(r) \/ SqlError(r) \/ ReadError(r)
      PROVE  FlightInv'
  <2>1. \E outcome \in Outcomes, rows \in SUBSET grants :
            Reply(r, outcome, rows)
    BY <1>5 DEF ReturnExisting, ReadBack, ReRead, BusyTimeout, SqlError,
                ReadError, RowsNumbered, ActiveRowsOf, Outcomes
  <2> QED
    BY <1>4, <1>5, <2>1
       DEF ReturnExisting, ReadBack, ReRead, BusyTimeout, SqlError, ReadError
<1>6. CASE Crash
  BY <1>0, <1>6 DEF Crash, InFlight, TypeOK, FlightInv, NoAnswer
<1>7. CASE Tick
  BY <1>0, <1>7 DEF Tick, FlightInv
<1>8. CASE Open \/ UNCHANGED vars
  BY <1>0, <1>8 DEF Open, vars, FlightInv
<1> QED
  BY <1>1, <1>2, <1>3, <1>5, <1>6, <1>7, <1>8 DEF Next, Proceed

\* Steps that write no row and lead no request to the read back.
LEMMA WriterKept ==
    ASSUME WriterInv, FlightInv, UNCHANGED <<grants, nextSeq>>,
           \A q \in Requests :
               /\ pc[q] # "idle" => ask'[q] = ask[q]
               /\ pc[q] \in {"readback", "done"} => pc'[q] \in {pc[q], "done"}
               /\ pc'[q] = "readback" => pc[q] = "readback"
    PROVE  WriterInv'
<1>1. \A g \in grants : g.note \in Requests =>
          /\ pc[g.note] \in {"readback", "done"}
          /\ pc'[g.note] \in {"readback", "done"}
          /\ ask'[g.note] = ask[g.note]
          /\ ask[g.note].kind = "create"
          /\ g.tuple = ask[g.note].tuple
  BY DEF WriterInv
<1> QED
  BY <1>1 DEF WriterInv

\* Every step keeps a row with the request that committed it.
LEMMA WriterStep == AnsInv /\ [Next]_vars => WriterInv'
<1> SUFFICES ASSUME AnsInv, [Next]_vars PROVE WriterInv'
  OBVIOUS
<1>0. /\ TypeOK /\ TableInv /\ FlightInv /\ WriterInv /\ AskInv /\ TxInv
      /\ LockFollowsTheTransaction
  BY DEF AnsInv, IInv
<1>1. ASSUME NEW r \in Requests,
             \/ \E t \in Tuples : StartCreate(r, t)
             \/ \E s \in Seqs : StartRevoke(r, s)
             \/ BeginImmediate(r) \/ NoneExisting(r) \/ Insert(r)
      PROVE  WriterInv'
  BY <1>0, <1>1, WriterKept
     DEF StartCreate, StartRevoke, BeginImmediate, NoneExisting, Insert, Goto,
         TypeOK
<1>2. ASSUME NEW r \in Requests, ReadMaxSeq(r)
      PROVE  WriterInv'
  <2>1. /\ UNCHANGED <<grants, ask>>
        /\ \A q \in Requests : pc'[q] = "readback" =>
              pc[q] = "readback" /\ nextSeq'[q] = nextSeq[q]
        /\ \A q \in Requests :
              pc[q] \in {"readback", "done"} => pc'[q] = pc[q]
    BY <1>0, <1>2 DEF ReadMaxSeq, Goto, TypeOK
  <2> QED
    BY <1>0, <2>1 DEF WriterInv
<1>3. ASSUME NEW r \in Requests, Commit(r)
      PROVE  WriterInv'
  <2> DEFINE new == NewRow(r)
  <2>1. /\ grants' = grants \cup {new}
        /\ new.seq = nextSeq[r] /\ new.note = r /\ new.tuple = ask[r].tuple
        /\ new.seq = MaxSeq(grants) + 1
        /\ ask[r].kind = "create"
    BY <1>0, <1>3, NewRowFits
       DEF Commit, AnsInv, NewRow, AskInv, CreateSteps, InTx
  <2>2. /\ pc'[r] = "readback" /\ UNCHANGED <<ask, nextSeq>>
        /\ \A q \in Requests \ {r} : pc'[q] = pc[q]
    BY <1>0, <1>3 DEF Commit, Goto, TypeOK
  <2> HIDE DEF new
  <2>3. \A g \in grants : g.note # r
    BY <1>0, <1>3 DEF Commit, WriterInv
  <2>4. \A g \in grants : g.seq # new.seq
    <3>1. \A g \in grants : g.seq \in 1..MaxSeq(grants)
      BY <1>0 DEF TableInv, SeqsNumberTheRows, SeqsOf
    <3> QED
      BY <1>0, <2>1, <3>1 DEF TableInv
  <2>5. \A q \in Requests \ {r} : pc[q] = "readback" => nextSeq[q] # new.seq
    BY <1>0, <2>4 DEF WriterInv
  <2>6. \A g \in grants' : g.note \in Requests =>
            /\ pc'[g.note] \in {"readback", "done"}
            /\ ask'[g.note].kind = "create"
            /\ g.tuple = ask'[g.note].tuple
    BY <1>0, <2>1, <2>2, <2>3 DEF WriterInv
  <2>7. ASSUME NEW q \in Requests, pc'[q] = "readback"
        PROVE  /\ \A g \in grants' : g.seq = nextSeq'[q] <=> g.note = q
               /\ \E g \in grants' : g.note = q
    <3>1. CASE q = r
      BY <3>1, <2>1, <2>2, <2>3, <2>4
    <3>2. CASE q # r
      BY <3>2, <1>0, <2>1, <2>2, <2>5, <2>7 DEF WriterInv
    <3> QED
      BY <3>1, <3>2
  <2>8. \A g, h \in grants' : g.note \in Requests /\ g.note = h.note => g = h
    BY <1>0, <2>1, <2>3 DEF WriterInv
  <2> QED
    BY <2>6, <2>7, <2>8 DEF WriterInv
<1>4. ASSUME NEW r \in Requests, Update(r)
      PROVE  WriterInv'
  <2>1. grants' = {Stamped(r, g) : g \in grants}
    BY <1>4 DEF Update, Stamped
  <2>2. \A g \in grants :
            /\ Stamped(r, g).seq = g.seq /\ Stamped(r, g).tuple = g.tuple
            /\ Stamped(r, g).note = g.note
    BY <1>4, StampedRow DEF Update, AnsInv
  <2>3. /\ UNCHANGED <<ask, nextSeq>>
        /\ \A q \in Requests : pc'[q] = "readback" => pc[q] = "readback"
        /\ \A q \in Requests :
              pc[q] \in {"readback", "done"} => pc'[q] = pc[q]
    BY <1>0, <1>4 DEF Update, Goto, TypeOK
  <2> QED
    BY <1>0, <2>1, <2>2, <2>3 DEF WriterInv
<1>5. ASSUME NEW r \in Requests,
             \/ ReturnExisting(r) \/ ReadBack(r) \/ ReRead(r)
             \/ BusyTimeout(r) \/ SqlError(r) \/ ReadError(r)
      PROVE  WriterInv'
  BY <1>0, <1>5, WriterKept
     DEF ReturnExisting, ReadBack, ReRead, BusyTimeout, SqlError, ReadError,
         Reply, TypeOK
<1>6. CASE Crash
  BY <1>0, <1>6, WriterKept DEF Crash, InFlight, TypeOK
<1>7. CASE Open \/ Tick \/ UNCHANGED vars
  BY <1>0, <1>7, WriterKept DEF Open, Tick, vars
<1> QED
  BY <1>1, <1>2, <1>3, <1>4, <1>5, <1>6, <1>7 DEF Next, Proceed

\* Numbers are never taken back, and a revoked row never wakes.
LEMMA NumbersStay ==
    ASSUME AnsInv, [Next]_vars
    PROVE  /\ SeqsOf(grants) \subseteq SeqsOf(grants')
           /\ \A h \in grants' : h.seq \in SeqsOf(grants) =>
                 \E g \in grants : g.seq = h.seq /\ (Active(h) => Active(g))
<1>0. IInv /\ TypeOK /\ TableInv
  BY DEF AnsInv, IInv
<1>1. ASSUME NEW r \in Requests, Commit(r)
      PROVE  /\ SeqsOf(grants) \subseteq SeqsOf(grants')
             /\ \A h \in grants' : h.seq \in SeqsOf(grants) =>
                   \E g \in grants : g.seq = h.seq /\ (Active(h) => Active(g))
  <2>1. NewRow(r).seq \notin SeqsOf(grants)
    BY <1>0, <1>1, NewRowFits DEF Commit, TableInv, SeqsNumberTheRows
  <2> QED
    BY <1>1, <2>1 DEF Commit, SeqsOf
<1>2. ASSUME NEW r \in Requests, Update(r)
      PROVE  /\ SeqsOf(grants) \subseteq SeqsOf(grants')
             /\ \A h \in grants' : h.seq \in SeqsOf(grants) =>
                   \E g \in grants : g.seq = h.seq /\ (Active(h) => Active(g))
  <2>1. grants' = {Stamped(r, g) : g \in grants}
    BY <1>2 DEF Update, Stamped
  <2>2. \A g \in grants : /\ Stamped(r, g).seq = g.seq
                          /\ Active(Stamped(r, g)) => Active(g)
    BY <1>0, <1>2, StampedRow DEF Update
  <2> QED
    BY <2>1, <2>2 DEF SeqsOf
<1>3. CASE UNCHANGED grants
  BY <1>3 DEF SeqsOf
<1> QED
  BY <1>1, <1>2, <1>3
     DEF Next, Proceed, vars, StartCreate, StartRevoke, BeginImmediate,
         ReturnExisting, NoneExisting, ReadMaxSeq, Insert, ReadBack, ReRead,
         BusyTimeout, SqlError, ReadError, Crash, Open, Tick

\* Every step keeps stamps no older than their calls, and a row revoked for the
\* revoke that is about to read it.
LEMMA CallStep == AnsInv /\ [Next]_vars => CallInv'
<1> SUFFICES ASSUME AnsInv, [Next]_vars PROVE CallInv'
  OBVIOUS
<1>0. /\ TypeOK /\ TableInv /\ FlightInv /\ CallInv /\ AskInv /\ IInv
      /\ clock \in Nat
  BY DEF AnsInv, IInv, TypeOK, Times
<1>1. /\ SeqsOf(grants) \subseteq SeqsOf(grants')
      /\ \A h \in grants' : h.seq \in SeqsOf(grants) =>
            \E g \in grants : g.seq = h.seq /\ (Active(h) => Active(g))
  BY NumbersStay
<1> DEFINE Same(q) ==
      /\ ask'[q] = ask[q]
      /\ pc'[q] \in {"commit", "update", "reread"} =>
            pc'[q] = pc[q] /\ stamp'[q] = stamp[q]
<1> DEFINE Good(q) ==
      /\ pc[q] = "commit" => stamp[q] >= ask[q].since
      /\ pc[q] = "update" => stamp[q] = ask[q].since
      /\ ask[q].kind = "revoke" /\ ask[q].known =>
           ask[q].seq \in SeqsOf(grants)
      /\ pc[q] = "reread" /\ ask[q].known =>
           \A g \in RowsNumbered(ask[q].seq) : ~Active(g)
<1>2. ASSUME NEW q \in Requests, Same(q) PROVE Good(q)'
  <2>1. pc[q] = "reread" => ask[q].kind = "revoke"
    BY <1>0 DEF AskInv
  <2> QED
    BY <1>0, <1>1, <1>2, <2>1 DEF CallInv, RowsNumbered
<1>3. ASSUME NEW r \in Requests, \A q \in Requests \ {r} : Same(q), Good(r)'
      PROVE  CallInv'
  BY <1>2, <1>3 DEF CallInv
<1>4. ASSUME \A q \in Requests : Same(q) PROVE CallInv'
  BY <1>2, <1>4 DEF CallInv
<1>5. ASSUME NEW r \in Requests, NEW t \in Tuples, StartCreate(r, t)
      PROVE  CallInv'
  <2>1. \A q \in Requests \ {r} : Same(q)
    BY <1>0, <1>5 DEF StartCreate, Goto, TypeOK
  <2>2. Good(r)'
    BY <1>0, <1>5 DEF StartCreate, Goto, TypeOK, CreateAsk
  <2> QED
    BY <1>3, <2>1, <2>2
<1>6. ASSUME NEW r \in Requests, NEW s \in Seqs, StartRevoke(r, s)
      PROVE  CallInv'
  <2>1. \A q \in Requests \ {r} : Same(q)
    BY <1>0, <1>6 DEF StartRevoke, Goto, TypeOK
  <2>2. Good(r)'
    BY <1>0, <1>6 DEF StartRevoke, Goto, TypeOK, RevokeAsk, SeqsOf
  <2> QED
    BY <1>3, <2>1, <2>2
<1>7. ASSUME NEW r \in Requests, Insert(r)
      PROVE  CallInv'
  <2>1. \A q \in Requests \ {r} : Same(q)
    BY <1>0, <1>7 DEF Insert, Goto, TypeOK
  <2>2. ask[r].since <= clock /\ ask[r].kind = "create"
    BY <1>0, <1>7 DEF Insert, FlightInv, AskInv, CreateSteps, InTx
  <2>3. ask[r].since \in Nat
    BY <1>0, <2>2 DEF TypeOK, Times, NoAsk
  <2>4. Good(r)'
    BY <1>0, <1>7, <2>2, <2>3 DEF Insert, Goto, TypeOK
  <2> QED
    BY <1>3, <2>1, <2>4
<1>8. ASSUME NEW r \in Requests, Update(r)
      PROVE  CallInv'
  <2>1. \A q \in Requests \ {r} : Same(q)
    BY <1>0, <1>8 DEF Update, Goto, TypeOK
  <2>2. /\ pc'[r] = "reread" /\ UNCHANGED ask
        /\ grants' = {Stamped(r, g) : g \in grants}
        /\ ask[r].kind = "revoke"
    BY <1>0, <1>8 DEF Update, Goto, TypeOK, Stamped, AskInv
  <2>3. \A g \in grants : g.seq = ask[r].seq => ~Active(Stamped(r, g))
    <3>1. stamp[r] # 0 /\ grants \subseteq Row
      BY <1>0, <1>8, BoundsAssumption DEF Update, AskInv, Times, TypeOK
    <3> QED
      BY <3>1 DEF Stamped, Active, Row
  <2>4. \A g \in grants : Stamped(r, g).seq = g.seq
    BY <1>0, <1>8, StampedRow DEF Update
  <2>5. Good(r)'
    BY <1>0, <1>1, <2>2, <2>3, <2>4 DEF CallInv, RowsNumbered
  <2> QED
    BY <1>3, <2>1, <2>5
<1>9. ASSUME NEW r \in Requests,
             \/ BeginImmediate(r) \/ NoneExisting(r) \/ ReadMaxSeq(r)
             \/ Commit(r)
      PROVE  CallInv'
  <2>1. \A q \in Requests : Same(q)
    BY <1>0, <1>9
       DEF BeginImmediate, NoneExisting, ReadMaxSeq, Commit, Goto, TypeOK
  <2> QED
    BY <1>4, <2>1
<1>10. ASSUME NEW r \in Requests,
             \/ ReturnExisting(r) \/ ReadBack(r) \/ ReRead(r)
             \/ BusyTimeout(r) \/ SqlError(r) \/ ReadError(r)
       PROVE  CallInv'
  <2>1. \A q \in Requests : Same(q)
    BY <1>0, <1>10
       DEF ReturnExisting, ReadBack, ReRead, BusyTimeout, SqlError, ReadError,
           Reply, TypeOK
  <2> QED
    BY <1>4, <2>1
<1>11. CASE Crash \/ Open \/ Tick \/ UNCHANGED vars
  <2>1. \A q \in Requests : Same(q)
    BY <1>0, <1>11 DEF Crash, InFlight, Open, Tick, vars, TypeOK
  <2> QED
    BY <1>4, <2>1
<1> QED
  BY <1>5, <1>6, <1>7, <1>8, <1>9, <1>10, <1>11 DEF Next, Proceed

\* Every step keeps the strengthened invariant.
LEMMA AnsInvStep == AnsInv /\ [Next]_vars => AnsInv'
BY IInvStep, FlightStep, WriterStep, CallStep DEF AnsInv

\* It holds of every reachable state.
LEMMA AnsInvHolds == Spec => []AnsInv
BY InitAnsInv, AnsInvStep, PTL DEF Spec

-----------------------------------------------------------------------------
(* Every step is a step of the register, or none at all.                     *)

\* The register's vocabulary is this module's.
LEMMA SameWords ==
    /\ Registry!NoAsk = NoAsk /\ Registry!NoAnswer = NoAnswer
    /\ Registry!Numbers = SeqsOf(grants)
    /\ \A row : Registry!Active(row) <=> Active(row)
    /\ \A t : CreateAsk(t) = Registry!CreateAsk(t, clock)
    /\ \A s : RevokeAsk(s) = Registry!RevokeAsk(s, clock, s \in SeqsOf(grants))
    /\ \A r : Registry!WrittenBy(r) = {g \in grants : g.note = r}
BY DEF Registry!NoAsk, NoAsk, Registry!NoAnswer, NoAnswer, Registry!Numbers,
       SeqsOf, Registry!Active, Active, CreateAsk, Registry!CreateAsk,
       RevokeAsk, Registry!RevokeAsk, Registry!WrittenBy

\* Which requests the register holds to be waiting.
LEMMA WaitingRequests ==
    ASSUME AnsInv, NEW r \in Requests, pc[r] \notin {"idle", "done"}
    PROVE  /\ pc[r] \in CreateSteps => Registry!Waiting(r, "create")
           /\ pc[r] \in {"update", "reread"} => Registry!Waiting(r, "revoke")
           /\ pc[r] \in CreateSteps \/ pc[r] \in {"update", "reread"}
           /\ pc[r] \in InTx \cup {"begin"} =>
                Registry!WrittenBy(r) = {}
           /\ pc[r] = "readback" => Registry!WrittenBy(r) # {}
<1>1. /\ pc[r] \in CreateSteps => ask[r].kind = "create"
      /\ pc[r] \in {"update", "reread"} => ask[r].kind = "revoke"
      /\ answer[r] = NoAnswer
  BY DEF AnsInv, IInv, AskInv, FlightInv
<1>2. pc[r] \in CreateSteps \/ pc[r] \in {"update", "reread"}
  BY DEF AnsInv, IInv, TypeOK, CreateSteps
<1>3. /\ pc[r] \in InTx \cup {"begin"} => {g \in grants : g.note = r} = {}
      /\ pc[r] = "readback" => {g \in grants : g.note = r} # {}
  BY DEF AnsInv, WriterInv, InTx
<1> QED
  BY <1>1, <1>2, <1>3, SameWords DEF Registry!Waiting

\* The layer begins as the register does.
LEMMA RegistryInit == Init => Registry!Init
BY SameWords DEF Init, Registry!Init

\* The concrete answers, action by action.
LEMMA RegistryReply ==
    ASSUME AnsInv, NEW r \in Requests,
           \/ ReturnExisting(r) \/ ReadBack(r) \/ ReRead(r)
           \/ BusyTimeout(r) \/ SqlError(r) \/ ReadError(r)
    PROVE  Registry!Next
<1> USE SameWords, WaitingRequests DEF InTx, CreateSteps
<1>1. CASE ReturnExisting(r)
  <2>1. PICK row \in ActiveRowsOf(ask[r].tuple) : Reply(r, "existing", {row})
    BY <1>1 DEF ReturnExisting
  <2>2. row \in grants /\ Active(row) /\ row.tuple = ask[r].tuple
    BY <2>1 DEF ActiveRowsOf
  <2>3. Registry!SayExisting(r)
    BY <1>1, <2>1, <2>2
       DEF ReturnExisting, Reply, Registry!SayExisting, Registry!Tell
  <2> QED
    BY <2>3 DEF Registry!Next
<1>2. CASE ReadBack(r)
  <2>1. PICK row \in RowsNumbered(nextSeq[r]) : Reply(r, "created", {row})
    BY <1>2 DEF ReadBack
  <2>2. row \in grants /\ row.note = r
    BY <1>2, <2>1 DEF ReadBack, RowsNumbered, AnsInv, WriterInv
  <2>3. Registry!SayCreated(r)
    BY <1>2, <2>1, <2>2
       DEF ReadBack, Reply, Registry!SayCreated, Registry!Tell
  <2> QED
    BY <2>3 DEF Registry!Next
<1>3. CASE ReRead(r)
  <2>1. ASSUME NEW row \in RowsNumbered(ask[r].seq), Reply(r, "revoked", {row})
        PROVE  Registry!SayRevoked(r)
    <3>1. row \in grants /\ row.seq = ask[r].seq
      BY DEF RowsNumbered
    <3>2. ask[r].known => ~Active(row)
      BY <1>3 DEF ReRead, AnsInv, CallInv
    <3> QED
      BY <1>3, <2>1, <3>1, <3>2
         DEF ReRead, Reply, Registry!SayRevoked, Registry!Tell
  <2>2. ASSUME RowsNumbered(ask[r].seq) = {}, Reply(r, "not_found", {})
        PROVE  Registry!SayNotFound(r)
    <3>1. ask[r].seq \notin SeqsOf(grants)
      BY <2>2 DEF RowsNumbered, SeqsOf
    <3> QED
      BY <1>3, <2>2, <3>1
         DEF ReRead, Reply, Registry!SayNotFound, Registry!Tell
  <2> QED
    BY <1>3, <2>1, <2>2 DEF ReRead, Registry!Next
<1>4. CASE BusyTimeout(r) \/ SqlError(r)
  <2>1. Registry!SayFailed(r)
    BY <1>4 DEF BusyTimeout, SqlError, Reply, Registry!SayFailed, Registry!Tell
  <2> QED
    BY <2>1 DEF Registry!Next
<1>5. CASE ReadError(r)
  <2>1. Registry!SayUnread(r)
    BY <1>5 DEF ReadError, Reply, Registry!SayUnread, Registry!Tell
  <2> QED
    BY <2>1 DEF Registry!Next
<1> QED
  BY <1>1, <1>2, <1>3, <1>4, <1>5

\* COMMIT puts the row into the register, under the first unused number.
LEMMA CommitGrants ==
    ASSUME AnsInv, NEW r \in Requests, Commit(r)
    PROVE  /\ Registry!Grant(r)
           /\ grants' = grants \cup {NewRow(r)}
           /\ NewRow(r).seq = MaxSeq(grants) + 1
           /\ stamp[r] \in Times
<1> USE SameWords
<1>0. /\ IInv /\ TypeOK /\ TableInv /\ FlightInv /\ WriterInv /\ CallInv
  BY DEF AnsInv, IInv
<1>1. /\ grants' = grants \cup {NewRow(r)} /\ NewRow(r) \in grants'
      /\ UNCHANGED <<ask, answer>>
  BY DEF Commit, Goto
<1>2. /\ Active(NewRow(r)) /\ NewRow(r).note = r
      /\ NewRow(r).tuple = ask[r].tuple
      /\ NewRow(r).seq = MaxSeq(grants) + 1
      /\ ActiveRowsOf(ask[r].tuple) = {}
      /\ NewRow(r).granted_at = stamp[r]
      /\ \A g \in grants : g.granted_at <= stamp[r]
  BY <1>0, NewRowFits DEF Commit
<1>3. /\ SeqsOf(grants) = 1..(NewRow(r).seq - 1) /\ NewRow(r).seq >= 1
      /\ NewRow(r).seq \notin SeqsOf(grants)
  BY <1>0, <1>2 DEF TableInv, SeqsNumberTheRows
<1>4. NewRow(r) \notin grants
  BY <1>3 DEF SeqsOf
<1>5. stamp[r] \in Times /\ stamp[r] >= ask[r].since
  BY <1>0 DEF Commit, IInv, TxInv, CallInv
<1>6. /\ Registry!Waiting(r, "create") /\ Registry!WrittenBy(r) = {}
      /\ \A g \in grants : Active(g) => g.tuple # ask[r].tuple
  BY <1>2, WaitingRequests DEF Commit, InTx, CreateSteps, ActiveRowsOf
<1>7. Registry!Grant(r)
  BY <1>1, <1>2, <1>3, <1>4, <1>5, <1>6 DEF Registry!Grant
<1> QED
  BY <1>1, <1>2, <1>5, <1>7

\* An UPDATE that finds its row active revokes it; any other changes nothing.
LEMMA UpdateRevokes ==
    ASSUME AnsInv, NEW r \in Requests, Update(r)
    PROVE  Registry!Revoke(r) \/ UNCHANGED <<grants, ask, answer>>
<1> USE SameWords
<1>0. TableInv /\ CallInv
  BY DEF AnsInv, IInv
<1>1. /\ grants' = {Stamped(r, g) : g \in grants}
      /\ UNCHANGED <<ask, answer>>
  BY DEF Update, Stamped, Goto
<1>2. CASE \E g \in grants : g.seq = ask[r].seq /\ Active(g)
  <2>1. PICK row \in grants : row.seq = ask[r].seq /\ Active(row)
    BY <1>2
  <2>2. \A g \in grants : g # row => g.seq # ask[r].seq
    BY <1>0, <2>1 DEF TableInv, SeqsNumberTheRows
  <2>3. /\ Stamped(r, row) = [row EXCEPT !.revoked_at = stamp[r]]
        /\ \A g \in grants : g # row => Stamped(r, g) = g
    BY <2>1, <2>2 DEF Stamped
  <2>4. grants' = (grants \ {row}) \cup {Stamped(r, row)}
    BY <1>1, <2>3
  <2>5. stamp[r] = ask[r].since
    BY <1>0 DEF Update, CallInv
  <2>6. Registry!Waiting(r, "revoke")
    BY WaitingRequests DEF Update
  <2> QED
    BY <1>1, <2>1, <2>3, <2>4, <2>5, <2>6 DEF Registry!Revoke
<1>3. CASE ~ \E g \in grants : g.seq = ask[r].seq /\ Active(g)
  <2>1. \A g \in grants : Stamped(r, g) = g
    BY <1>3 DEF Stamped
  <2>2. grants' = grants
    BY <1>1, <2>1
  <2> QED
    BY <1>1, <2>2
<1> QED
  BY <1>2, <1>3

\* A call that enters the store asks the register.
LEMMA CallAsks ==
    ASSUME AnsInv, NEW r \in Requests,
           (\E t \in Tuples : StartCreate(r, t)) \/ (\E s \in Seqs : StartRevoke(r, s))
    PROVE  Registry!Ask(r)
<1>1. FlightInv /\ clock \in Times
  BY DEF AnsInv, IInv, TypeOK
<1> QED
  BY <1>1, SameWords DEF StartCreate, StartRevoke, Goto, FlightInv, Registry!Ask

\* Every step of the layer is a step of the register, or a stutter.
LEMMA RegistryStep == AnsInv /\ [Next]_vars => [Registry!Next]_Registry!vars
<1> SUFFICES ASSUME AnsInv, [Next]_vars
             PROVE  [Registry!Next]_Registry!vars
  OBVIOUS
<1> USE SameWords
<1>0. FlightInv
  BY DEF AnsInv
<1>1. ASSUME NEW r \in Requests,
             (\E t \in Tuples : StartCreate(r, t)) \/ (\E s \in Seqs : StartRevoke(r, s))
      PROVE  Registry!Next
  BY <1>1, CallAsks DEF Registry!Next
<1>2. ASSUME NEW r \in Requests, Commit(r)
      PROVE  Registry!Next
  BY <1>2, CommitGrants DEF Registry!Next
<1>3. ASSUME NEW r \in Requests, Update(r)
      PROVE  [Registry!Next]_Registry!vars
  BY <1>3, UpdateRevokes DEF Registry!Next, Registry!vars
<1>4. ASSUME NEW r \in Requests,
             \/ ReturnExisting(r) \/ ReadBack(r) \/ ReRead(r)
             \/ BusyTimeout(r) \/ SqlError(r) \/ ReadError(r)
      PROVE  Registry!Next
  BY <1>4, RegistryReply
<1>5. CASE Crash
  <2>1. \A r \in Requests :
            InFlight(r) <=> ask[r] # NoAsk /\ answer[r] = NoAnswer
    BY <1>0 DEF InFlight, FlightInv
  <2>2. Registry!Lose
    BY <1>5, <2>1 DEF Crash, Registry!Lose
  <2> QED
    BY <2>2 DEF Registry!Next
<1>6. CASE UNCHANGED <<grants, ask, answer>>
  BY <1>6 DEF Registry!vars
<1> QED
  BY <1>1, <1>2, <1>3, <1>4, <1>5, <1>6
     DEF Next, Proceed, vars, BeginImmediate, NoneExisting, ReadMaxSeq, Insert,
         Goto, Open, Tick

\* Transactions, locks, errors and crashes and all, the store is the register
\* of grants it promises to be.
THEOREM StoreIsRegistry == Spec => RegistryPromises
<1>1. Init => Registry!Init
  BY RegistryInit
<1>2. AnsInv /\ [Next]_vars => [Registry!Next]_Registry!vars
  BY RegistryStep
<1> QED
  BY <1>1, <1>2, AnsInvHolds, PTL DEF Spec, RegistryPromises, Registry!Spec

\* A row that changes was active, and a revoke of its number stamps it.
Keeps == \A g \in grants : g \notin grants' =>
            /\ Active(g)
            /\ \E r \in Requests :
                  /\ ask[r].kind = "revoke" /\ ask[r].seq = g.seq
                  /\ [g EXCEPT !.revoked_at = ask[r].since] \in grants'

\* Only an UPDATE changes rows, and only those it finds active.
LEMMA HistoryStep == AnsInv /\ [Next]_vars => [Keeps]_grants
<1> SUFFICES ASSUME AnsInv, [Next]_vars, grants' # grants PROVE Keeps
  OBVIOUS
<1> USE DEF Keeps
<1>1. CASE \E r \in Requests : Commit(r)
  BY <1>1 DEF Commit
<1>2. ASSUME NEW r \in Requests, Update(r) PROVE Keeps
  <2>1. grants' = {Stamped(r, g) : g \in grants}
    BY <1>2 DEF Update, Stamped
  <2>2. ask[r].kind = "revoke" /\ stamp[r] = ask[r].since
    BY <1>2 DEF Update, AnsInv, IInv, AskInv, CallInv
  <2>3. ASSUME NEW g \in grants, g \notin grants'
        PROVE  /\ Active(g) /\ g.seq = ask[r].seq
               /\ [g EXCEPT !.revoked_at = ask[r].since] \in grants'
    <3>1. Stamped(r, g) # g
      BY <2>1, <2>3
    <3> QED
      BY <2>1, <2>2, <3>1 DEF Stamped
  <2> QED
    BY <2>2, <2>3
<1> QED
  BY <1>1, <1>2
     DEF Next, Proceed, vars, StartCreate, StartRevoke, BeginImmediate,
         ReturnExisting, NoneExisting, ReadMaxSeq, Insert, ReadBack, ReRead,
         BusyTimeout, SqlError, ReadError, Crash, Open, Tick

\* No step deletes or rewrites a row: the one change a row ever sees is the
\* revoked_at of its first revoke.
THEOREM HistoryKept == Spec => HistoryOnlyGrows
<1>1. [Keeps]_grants <=> [\A g \in grants : g \notin grants' =>
          /\ Active(g)
          /\ \E r \in Requests :
                /\ ask[r].kind = "revoke" /\ ask[r].seq = g.seq
                /\ [g EXCEPT !.revoked_at = ask[r].since] \in grants']_grants
  BY DEF Keeps
<1> QED
  BY <1>1, HistoryStep, AnsInvHolds, PTL DEF Spec, HistoryOnlyGrows

-----------------------------------------------------------------------------
(* What GrantStore has told its callers stays true of the table, whatever    *)
(* happens after the answer.  AnswerInv says what is known of the rows every *)
(* answer shows, or is about.                                                *)

\* Two versions of one row: only a revoke can lie between them.
SameGrant(g, h) ==
    /\ g \in Row /\ h \in Row
    /\ g.seq = h.seq /\ g.tuple = h.tuple /\ g.note = h.note
    /\ g.granted_at = h.granted_at

Wrote(r) == \E g \in grants : g.note = r

\* What an answer says of the row its request wrote, or of the one it revoked.
AnswerHolds(r) ==
    /\ answer[r].outcome \in {"existing", "failed"} => ~Wrote(r)
    /\ answer[r].outcome = "created" => Wrote(r)
    /\ answer[r].outcome = "unread" /\ ask[r].kind = "create" => Wrote(r)
    /\ answer[r].outcome = "created" =>
         \A shown \in answer[r].shown :
             \E g \in grants : g.note = r /\ SameGrant(shown, g)
    /\ answer[r].outcome = "revoked" /\ ask[r].known =>
         \A shown \in answer[r].shown : ~Active(shown) /\ shown \in grants

AnswerInv == \A r \in Requests : AnswerHolds(r)

-----------------------------------------------------------------------------
(* The invariant is kept.                                                    *)

\* Nothing has been told to begin with.
LEMMA InitAnswerInv == Init => AnswerInv
BY DEF Init, AnswerInv, AnswerHolds, NoAnswer

\* What was told stays true over any step that keeps each row, or lets a
\* revoke at it.
LEMMA AnswerKept ==
    ASSUME NEW r \in Requests, AnswerHolds(r),
           UNCHANGED <<answer[r], ask[r]>>,
           \A g \in grants : \E h \in grants' :
               SameGrant(g, h) /\ (~Active(g) => h = g),
           \A h \in grants' : h.note = r => Wrote(r)
    PROVE  AnswerHolds(r)'
<1>1. Wrote(r) <=> Wrote(r)'
  BY DEF Wrote, SameGrant
<1>2. ASSUME NEW shown, NEW g \in grants, g.note = r, SameGrant(shown, g)
      PROVE  \E h \in grants' : h.note = r /\ SameGrant(shown, h)
  <2>1. PICK h \in grants' : SameGrant(g, h)
    OBVIOUS
  <2>2. h.note = r /\ SameGrant(shown, h)
    BY <1>2, <2>1 DEF SameGrant
  <2> QED
    BY <2>2
<1>3. ASSUME NEW shown \in grants, ~Active(shown)
      PROVE  shown \in grants'
  BY <1>3
<1> QED
  BY <1>1, <1>2, <1>3 DEF AnswerHolds

\* An answer that shows nothing and tells of no write is safe when there was
\* none.
LEMMA NoWriteTold ==
    ASSUME NEW r \in Requests, ~Wrote(r)', answer'[r].outcome \in {"existing", "failed"}
    PROVE  AnswerHolds(r)'
BY DEF AnswerHolds

\* Every step keeps what was told true.
LEMMA AnswerStep == AnsInv /\ AnswerInv /\ [Next]_vars => AnswerInv'
<1> SUFFICES ASSUME AnsInv, AnswerInv, [Next]_vars, NEW r \in Requests
             PROVE  AnswerHolds(r)'
  BY DEF AnswerInv
<1>0. /\ IInv /\ TypeOK /\ FlightInv /\ WriterInv /\ CallInv /\ AskInv
      /\ grants \subseteq Row /\ AnswerHolds(r)
  BY DEF AnsInv, IInv, TypeOK, AnswerInv
<1>1. \A g \in grants : SameGrant(g, g)
  BY <1>0 DEF SameGrant
<1>2. Wrote(r) => pc[r] \in {"readback", "done"} /\ ask[r].kind = "create"
  BY <1>0 DEF Wrote, WriterInv
<1>3. CASE UNCHANGED <<grants, answer[r], ask[r]>>
  BY <1>0, <1>1, <1>3, AnswerKept DEF Wrote
<1>4. CASE answer'[r].outcome \in {"none", "lost", "not_found"}
  BY <1>4 DEF AnswerHolds
<1>5. ASSUME NEW q \in Requests, Commit(q)
      PROVE  AnswerHolds(r)'
  <2>1. UNCHANGED <<answer, ask>> /\ grants' = grants \cup {NewRow(q)}
    BY <1>5 DEF Commit, Goto
  <2>2. CASE q = r
    <3>1. answer'[r].outcome = "none"
      BY <1>0, <1>5, <2>1, <2>2 DEF Commit, FlightInv, NoAnswer
    <3> QED
      BY <1>4, <3>1
  <2>3. CASE q # r
    BY <1>0, <1>1, <2>1, <2>3, AnswerKept DEF NewRow, Wrote
  <2> QED
    BY <2>2, <2>3
<1>6. ASSUME NEW q \in Requests, Update(q)
      PROVE  AnswerHolds(r)'
  <2>1. /\ UNCHANGED <<answer, ask>> /\ pc[q] = "update"
        /\ grants' = {Stamped(q, g) : g \in grants}
    BY <1>6 DEF Update, Goto, Stamped
  <2>2. \A g \in grants :
            /\ SameGrant(g, Stamped(q, g)) /\ Stamped(q, g).note = g.note
            /\ ~Active(g) => Stamped(q, g) = g
    <3>1. \A g \in grants : ~Active(g) => Stamped(q, g) = g
      BY DEF Stamped
    <3> QED
      BY <1>0, <2>1, <3>1, StampedRow DEF SameGrant
  <2> QED
    BY <1>0, <2>1, <2>2, AnswerKept DEF Wrote
<1>7. ASSUME ReturnExisting(r) \/ BusyTimeout(r) \/ SqlError(r)
      PROVE  AnswerHolds(r)'
  <2>1. /\ UNCHANGED grants /\ pc[r] \notin {"readback", "done"}
        /\ answer'[r].outcome \in {"existing", "failed"}
    BY <1>0, <1>7
       DEF ReturnExisting, BusyTimeout, SqlError, Reply, TypeOK, InTx
  <2> QED
    BY <1>2, <2>1, NoWriteTold DEF Wrote
<1>8. ASSUME ReadBack(r)
      PROVE  AnswerHolds(r)'
  <2>1. PICK row \in RowsNumbered(nextSeq[r]) : Reply(r, "created", {row})
    BY <1>8 DEF ReadBack
  <2>2. /\ UNCHANGED grants
        /\ answer'[r].outcome = "created" /\ answer'[r].shown = {row}
        /\ row \in grants /\ row.note = r
    BY <1>0, <1>8, <2>1 DEF ReadBack, Reply, TypeOK, RowsNumbered, WriterInv
  <2> QED
    BY <1>1, <2>2 DEF AnswerHolds, Wrote
<1>9. ASSUME ReRead(r)
      PROVE  AnswerHolds(r)'
  <2>1. ASSUME NEW row \in RowsNumbered(ask[r].seq), Reply(r, "revoked", {row})
        PROVE  AnswerHolds(r)'
    <3>1. /\ UNCHANGED <<grants, ask>> /\ pc[r] = "reread"
          /\ answer'[r].outcome = "revoked" /\ answer'[r].shown = {row}
      BY <1>0, <1>9, <2>1 DEF ReRead, Reply, TypeOK
    <3>2. row \in grants /\ (ask[r].known => ~Active(row))
      BY <1>0, <2>1, <3>1 DEF RowsNumbered, CallInv
    <3> QED
      BY <3>1, <3>2 DEF AnswerHolds
  <2>2. ASSUME Reply(r, "not_found", {})
        PROVE  AnswerHolds(r)'
    BY <1>0, <1>4, <2>2 DEF Reply, TypeOK
  <2> QED
    BY <1>9, <2>1, <2>2 DEF ReRead
<1>10. ASSUME ReadError(r)
       PROVE  AnswerHolds(r)'
  <2>1. /\ UNCHANGED <<grants, ask>> /\ answer'[r].outcome = "unread"
        /\ pc[r] \in {"readback", "reread"}
    BY <1>0, <1>10 DEF ReadError, Reply, TypeOK
  <2>2. ask[r].kind = "create" => Wrote(r)
    BY <1>0, <2>1 DEF AskInv, WriterInv, Wrote
  <2> QED
    BY <2>1, <2>2 DEF AnswerHolds, Wrote
<1>11. ASSUME NEW q \in Requests, q # r, Proceed(q) \/ SqlError(q) \/ ReadError(q)
       PROVE  AnswerHolds(r)'
  <2>1. UNCHANGED <<answer[r], ask[r]>>
    BY <1>0, <1>11
       DEF Proceed, BeginImmediate, ReturnExisting, NoneExisting, ReadMaxSeq,
           Insert, Commit, ReadBack, Update, ReRead, BusyTimeout, SqlError,
           ReadError, Reply, Goto, TypeOK
  <2>2. UNCHANGED grants \/ Commit(q) \/ Update(q)
    BY <1>11
       DEF Proceed, BeginImmediate, ReturnExisting, NoneExisting, ReadMaxSeq,
           Insert, ReadBack, ReRead, BusyTimeout, SqlError, ReadError
  <2> QED
    BY <1>3, <1>5, <1>6, <2>1, <2>2
<1>12. ASSUME BeginImmediate(r) \/ NoneExisting(r) \/ ReadMaxSeq(r) \/ Insert(r)
       PROVE  AnswerHolds(r)'
  BY <1>3, <1>12 DEF BeginImmediate, NoneExisting, ReadMaxSeq, Insert, Goto
<1>13. ASSUME NEW q \in Requests,
              (\E t \in Tuples : StartCreate(q, t)) \/ \E s \in Seqs : StartRevoke(q, s)
       PROVE  AnswerHolds(r)'
  <2>1. UNCHANGED <<grants, answer>> /\ (q # r => ask'[r] = ask[r]) /\ pc[q] = "idle"
    BY <1>0, <1>13 DEF StartCreate, StartRevoke, Goto, TypeOK
  <2>2. q = r => answer'[r].outcome = "none"
    BY <1>0, <2>1 DEF FlightInv, NoAnswer
  <2> QED
    BY <1>3, <1>4, <2>1, <2>2
<1>14. CASE Crash
  <2>1. UNCHANGED <<grants, ask>> /\
        (answer'[r] = answer[r] \/ answer'[r].outcome = "lost")
    BY <1>14 DEF Crash
  <2> QED
    BY <1>3, <1>4, <2>1
<1>15. CASE Open \/ Tick \/ UNCHANGED vars
  BY <1>3, <1>15 DEF Open, Tick, vars
<1> QED
  BY <1>5, <1>6, <1>7, <1>8, <1>9, <1>10, <1>11, <1>12, <1>13, <1>14, <1>15
     DEF Next, Proceed

\* What was told is true along every behaviour.
LEMMA AnswerInvHolds == Spec => [](AnsInv /\ AnswerInv)
BY InitAnswerInv, AnswerStep, AnsInvHolds, PTL DEF Spec

-----------------------------------------------------------------------------

\* What is known of each answer is what a create may be told of its row.
LEMMA CreateAnswersAre == AnsInv /\ AnswerInv => CreateAnswersTellWhatWasWritten
<1> SUFFICES ASSUME AnsInv, AnswerInv, NEW r \in Requests, ask[r].kind = "create"
             PROVE  LET mine == {row \in grants : row.note = r} IN
                    /\ \A g, h \in mine : g = h
                    /\ answer[r].outcome \in {"created", "unread"} => mine # {}
                    /\ answer[r].outcome = "created" =>
                          \A shown \in answer[r].shown, row \in mine :
                              [shown EXCEPT !.revoked_at = row.revoked_at] = row
                    /\ answer[r].outcome \in {"existing", "failed"} => mine = {}
  BY DEF CreateAnswersTellWhatWasWritten
<1> DEFINE mine == {row \in grants : row.note = r}
<1>1. AnswerHolds(r) /\ (mine # {} <=> Wrote(r))
  BY DEF AnswerInv, Wrote
<1>2. \A g, h \in mine : g = h
  BY DEF AnsInv, WriterInv
<1>3. ASSUME answer[r].outcome = "created",
             NEW shown \in answer[r].shown, NEW row \in mine
      PROVE  [shown EXCEPT !.revoked_at = row.revoked_at] = row
  <2>1. SameGrant(shown, row)
    BY <1>1, <1>2, <1>3 DEF AnswerHolds
  <2> QED
    BY <2>1 DEF SameGrant, Row
<1> QED
  BY <1>1, <1>2, <1>3 DEF AnswerHolds

\* And what a revoke of a known number may be told of the row.
LEMMA RevokeAnswersAre == AnswerInv => RevokeAnswersAgree
BY DEF AnswerInv, AnswerHolds, RevokeAnswersAgree

\* What a create was told stays what it did: a 201 is one row of its own, a 200
\* or a 500 before COMMIT none, now or ever.
THEOREM CreateAnswersTell == Spec => []CreateAnswersTellWhatWasWritten
BY CreateAnswersAre, AnswerInvHolds, PTL

\* However many revoke a grant that was handed out, and whatever comes after,
\* all are told the row as it stands, revoked once.
THEOREM RevokeAnswersHold == Spec => []RevokeAnswersAgree
BY RevokeAnswersAre, AnswerInvHolds, PTL
=============================================================================
