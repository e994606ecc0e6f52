-------------------------- MODULE GrantStoreProofs --------------------------
(* Theorems about GrantStore, for every set of requests, tuples and initial  *)
(* tables.  IInv is the inductive invariant: the safety invariants of the    *)
(* module and what each statement of an open transaction may rely on.        *)
EXTENDS GrantStore, TLAPS

-----------------------------------------------------------------------------
(* The inductive invariant, part by part.                                    *)

\* The table is well formed, whatever its transactions are doing.
TableInv ==
    /\ MaxSeq(grants) \in Nat
    /\ SeqsNumberTheRows
    /\ OneActiveRowPerTuple
    /\ GrantedInSeqOrder

\* What a request asks for is settled when it starts and fits where it is.
CreateSteps == InTx \cup {"begin", "readback"}

AskInv ==
    \A r \in Requests :
        /\ pc[r] \in CreateSteps => ask[r].kind = "create"
        /\ pc[r] \in {"update", "reread"} =>
             ask[r].kind = "revoke" /\ stamp[r] \in Times

\* What a transaction has learnt stays true until it ends: nobody else writes.
TxInv ==
    \A r \in Requests :
        /\ pc[r] \in {"maxseq", "insert", "commit"} =>
             ActiveRowsOf(ask[r].tuple) = {}
        /\ pc[r] \in {"insert", "commit"} => nextSeq[r] = MaxSeq(grants) + 1
        /\ pc[r] = "commit" =>
             /\ stamp[r] \in Times
             /\ \A g \in grants : g.granted_at <= stamp[r]

\* Nothing is stamped with a time still to come.
ClockInv ==
    /\ \A g \in grants : g.granted_at <= clock
    /\ \A r \in Requests : stamp[r] <= clock

IInv ==
    /\ TypeOK
    /\ TableInv
    /\ AskInv
    /\ LockFollowsTheTransaction
    /\ TxInv
    /\ ClockInv

-----------------------------------------------------------------------------
(* Lemmas about tables.                                                      *)

\* The largest of 1..n is n.
LEMMA MaxOfInterval ==
    ASSUME NEW n \in Nat, n # 0
    PROVE  Max(1..n) = n
<1>1. n \in 1..n /\ \A y \in 1..n : n >= y
  OBVIOUS
<1>2. \A x \in 1..n : (\A y \in 1..n : x >= y) => x = n
  BY <1>1
<1> QED
  BY <1>1, <1>2 DEF Max

\* A table numbered 1..n has n as its largest number, and 0 when it is empty.
LEMMA MaxSeqOfNumbered ==
    ASSUME NEW table, NEW n \in Nat, SeqsOf(table) = 1..n
    PROVE  MaxSeq(table) = n
<1>1. CASE table = {}
  <2>1. SeqsOf(table) = {}
    BY <1>1 DEF SeqsOf
  <2>2. n = 0
    <3>1. n # 0 => 1 \in 1..n
      OBVIOUS
    <3> QED
      BY <2>1, <3>1
  <2> QED
    BY <1>1, <2>2 DEF MaxSeq
<1>2. CASE table # {}
  <2>1. PICK row \in table : TRUE
    BY <1>2
  <2>2. row.seq \in 1..n
    BY <2>1 DEF SeqsOf
  <2>3. n # 0
    BY <2>2
  <2> QED
    BY <1>2, <2>3, MaxOfInterval DEF MaxSeq
<1> QED
  BY <1>1, <1>2

\* A table numbered 1..n and a row numbered n + 1 make a table 1..n+1.
LEMMA NumberOneMore ==
    ASSUME NEW table, NEW n \in Nat, SeqsOf(table) = 1..n,
           NEW row, row.seq = n + 1
    PROVE  /\ SeqsOf(table \cup {row}) = 1..(n + 1)
           /\ MaxSeq(table \cup {row}) = n + 1
<1>1. SeqsOf(table \cup {row}) = SeqsOf(table) \cup {n + 1}
  BY DEF SeqsOf
<1>2. 1..(n + 1) = (1..n) \cup {n + 1}
  OBVIOUS
<1>3. SeqsOf(table \cup {row}) = 1..(n + 1)
  BY <1>1, <1>2
<1> QED
  BY <1>3, MaxSeqOfNumbered

-----------------------------------------------------------------------------
(* The initial states, and the steps that leave the table alone.             *)

\* The invariant holds to begin with.
LEMMA InitIInv == Init => IInv
<1> SUFFICES ASSUME Init PROVE IInv
  OBVIOUS
<1> USE RequestsAssumption, BoundsAssumption, TablesAssumption
<1>1. WellFormed(grants) /\ \A g \in grants : g.granted_at = 1
  BY DEF Init
<1>2. TableInv
  BY <1>1 DEF WellFormed, TableInv, SeqsNumberTheRows, OneActiveRowPerTuple,
              GrantedInSeqOrder
<1>3. TypeOK
  BY <1>1 DEF Init, TypeOK, WellFormed, Times, NoAsk, NoAnswer
<1>4. ClockInv
  BY <1>1 DEF Init, ClockInv
<1>5. AskInv /\ LockFollowsTheTransaction /\ TxInv
  BY DEF Init, AskInv, LockFollowsTheTransaction, TxInv, CreateSteps, InTx
<1> QED
  BY <1>2, <1>3, <1>4, <1>5 DEF IInv

\* The parts of the invariant that speak of the table alone.
LEMMA TableInvKept ==
    ASSUME TableInv, UNCHANGED grants
    PROVE  TableInv'
BY DEF TableInv, SeqsNumberTheRows, OneActiveRowPerTuple, GrantedInSeqOrder,
       SeqsOf, MaxSeq, Active

\* One reply, seen from every request.
LEMMA ReplyType ==
    ASSUME TypeOK, NEW r \in Requests, NEW outcome \in Outcomes,
           NEW rows \in SUBSET Row, Reply(r, outcome, rows)
    PROVE  /\ pc' \in [Requests -> InTx \cup {"idle", "begin", "readback",
                                    "update", "reread", "done"}]
           /\ answer' \in [Requests -> {NoAnswer} \cup
                              [outcome : Outcomes, shown : SUBSET Row]]
           /\ pc'[r] = "done"
           /\ \A q \in Requests \ {r} : pc'[q] = pc[q]
BY DEF TypeOK, Reply

\* A move to a step of the code is typed, and answers nothing.
LEMMA GotoType ==
    ASSUME TypeOK, NEW r \in Requests, NEW step \in InTx \cup {"idle", "begin",
              "readback", "update", "reread", "done"}, Goto(r, step)
    PROVE  /\ pc' \in [Requests -> InTx \cup {"idle", "begin", "readback",
                                    "update", "reread", "done"}]
           /\ answer' = answer
           /\ pc'[r] = step
           /\ \A q \in Requests \ {r} : pc'[q] = pc[q]
BY DEF TypeOK, Goto

-----------------------------------------------------------------------------
(* Each part of the invariant, kept by every step.                           *)

\* The row a COMMIT publishes is a row, with a number nobody else has, for a
\* tuple with no active row, and no older than any other.
LEMMA NewRowFits ==
    ASSUME IInv, NEW r \in Requests, pc[r] = "commit"
    PROVE  /\ NewRow(r) \in Row /\ Active(NewRow(r))
           /\ NewRow(r).seq = MaxSeq(grants) + 1
           /\ NewRow(r).tuple = ask[r].tuple /\ NewRow(r).note = r
           /\ ActiveRowsOf(ask[r].tuple) = {}
           /\ stamp[r] <= clock
           /\ NewRow(r).granted_at = stamp[r]
           /\ \A g \in grants : g.granted_at <= stamp[r]
<1>1. /\ ask[r].kind = "create"
      /\ nextSeq[r] = MaxSeq(grants) + 1 /\ MaxSeq(grants) \in Nat
      /\ stamp[r] \in Times /\ stamp[r] <= clock
      /\ ActiveRowsOf(ask[r].tuple) = {}
      /\ \A g \in grants : g.granted_at <= stamp[r]
  BY DEF IInv, TableInv, AskInv, TxInv, ClockInv, CreateSteps, InTx
<1>2. ask[r].tuple \in Tuples
  BY <1>1 DEF IInv, TypeOK, NoAsk
<1> QED
  BY <1>1, <1>2 DEF NewRow, Row, Active

\* What an UPDATE does to one row.
Stamped(r, g) == IF g.seq = ask[r].seq /\ Active(g)
                   THEN [g EXCEPT !.revoked_at = stamp[r]] ELSE g

\* A row an UPDATE has stamped is a row, the same but for revoked_at.
LEMMA StampedRow ==
    ASSUME IInv, NEW r \in Requests, pc[r] = "update", NEW g \in grants
    PROVE  /\ Stamped(r, g) \in Row
           /\ Stamped(r, g).seq = g.seq /\ Stamped(r, g).tuple = g.tuple
           /\ Stamped(r, g).granted_at = g.granted_at
           /\ Stamped(r, g).note = g.note
           /\ Active(Stamped(r, g)) => Stamped(r, g) = g
<1>1. g \in Row /\ stamp[r] \in Times
  BY DEF IInv, TypeOK, AskInv
<1>2. stamp[r] # 0
  BY <1>1, BoundsAssumption DEF Times
<1> QED
  BY <1>1, <1>2 DEF Stamped, Row, Active

\* Every step keeps the types.
LEMMA TypeStep == IInv /\ [Next]_vars => TypeOK'
<1> SUFFICES ASSUME IInv, [Next]_vars PROVE TypeOK'
  OBVIOUS
<1> USE DEF InTx
<1>0. TypeOK /\ MaxSeq(grants) \in Nat
  BY DEF IInv, TableInv
<1>1. ASSUME NEW r \in Requests, NEW t \in Tuples, StartCreate(r, t)
      PROVE  TypeOK'
  BY <1>0, <1>1, GotoType DEF StartCreate, CreateAsk, TypeOK
<1>2. ASSUME NEW r \in Requests, NEW s \in Seqs, StartRevoke(r, s)
      PROVE  TypeOK'
  BY <1>0, <1>2, GotoType DEF StartRevoke, RevokeAsk, TypeOK
<1>3. ASSUME NEW r \in Requests, BeginImmediate(r)
      PROVE  TypeOK'
  BY <1>0, <1>3, GotoType DEF BeginImmediate, TypeOK
<1>4. ASSUME NEW r \in Requests, ReturnExisting(r)
      PROVE  TypeOK'
  BY <1>0, <1>4, ReplyType
     DEF ReturnExisting, EndTx, TypeOK, ActiveRowsOf, Outcomes
<1>5. ASSUME NEW r \in Requests, NoneExisting(r)
      PROVE  TypeOK'
  BY <1>0, <1>5, GotoType DEF NoneExisting, TypeOK
<1>6. ASSUME NEW r \in Requests, ReadMaxSeq(r)
      PROVE  TypeOK'
  BY <1>0, <1>6, GotoType DEF ReadMaxSeq, TypeOK
<1>7. ASSUME NEW r \in Requests, Insert(r)
      PROVE  TypeOK'
  BY <1>0, <1>7, GotoType DEF Insert, TypeOK
<1>8. ASSUME NEW r \in Requests, Commit(r)
      PROVE  TypeOK'
  <2>1. NewRow(r) \in Row
    BY <1>8, NewRowFits DEF Commit
  <2> QED
    BY <1>0, <1>8, <2>1, GotoType DEF Commit, EndTx, TypeOK
<1>9. ASSUME NEW r \in Requests, ReadBack(r)
      PROVE  TypeOK'
  BY <1>0, <1>9, ReplyType DEF ReadBack, TypeOK, RowsNumbered, Outcomes
<1>10. ASSUME NEW r \in Requests, Update(r)
       PROVE  TypeOK'
  <2>1. grants' = {Stamped(r, g) : g \in grants}
    BY <1>10 DEF Update, Stamped
  <2>2. grants' \subseteq Row
    BY <1>10, <2>1, StampedRow DEF Update
  <2> QED
    BY <1>0, <1>10, <2>2, GotoType DEF Update, TypeOK
<1>11. ASSUME NEW r \in Requests, ReRead(r)
       PROVE  TypeOK'
  <2>1. PICK outcome \in {"revoked", "not_found"}, rows \in SUBSET grants :
            Reply(r, outcome, rows)
    BY <1>11 DEF ReRead, RowsNumbered
  <2>2. rows \in SUBSET Row /\ outcome \in Outcomes
    BY <1>0, <2>1 DEF TypeOK, Outcomes
  <2> QED
    BY <1>0, <1>11, <2>1, <2>2, ReplyType DEF ReRead, TypeOK
<1>12. ASSUME NEW r \in Requests, BusyTimeout(r)
       PROVE  TypeOK'
  BY <1>0, <1>12, ReplyType DEF BusyTimeout, TypeOK, Outcomes
<1>13. ASSUME NEW r \in Requests, SqlError(r)
       PROVE  TypeOK'
  BY <1>0, <1>13, ReplyType DEF SqlError, EndTx, TypeOK, Outcomes
<1>14. ASSUME NEW r \in Requests, ReadError(r)
       PROVE  TypeOK'
  BY <1>0, <1>14, ReplyType DEF ReadError, TypeOK, Outcomes
<1>15. CASE Crash
  BY <1>0, <1>15 DEF Crash, TypeOK, Outcomes
<1>16. CASE Open
  BY <1>0, <1>16 DEF Open, TypeOK
<1>17. CASE Tick
  BY <1>0, <1>17, BoundsAssumption DEF Tick, TypeOK, Times
<1>18. CASE UNCHANGED vars
  BY <1>0, <1>18 DEF vars, TypeOK
<1> QED
  BY <1>1, <1>2, <1>3, <1>4, <1>5, <1>6, <1>7, <1>8, <1>9, <1>10, <1>11,
     <1>12, <1>13, <1>14, <1>15, <1>16, <1>17, <1>18 DEF Next, Proceed

\* A COMMIT adds the row that fits; an UPDATE moves no number, no tuple and no
\* granted_at, and wakes no revoked row.
LEMMA TableStep == IInv /\ [Next]_vars => TableInv'
<1> SUFFICES ASSUME IInv, [Next]_vars PROVE TableInv'
  OBVIOUS
<1>0. TableInv /\ grants \subseteq Row
  BY DEF IInv, TypeOK
<1>1. ASSUME NEW r \in Requests, Commit(r)
      PROVE  TableInv'
  <2> DEFINE new == NewRow(r)
  <2>1. /\ grants' = grants \cup {new}
        /\ Active(new) /\ new.seq = MaxSeq(grants) + 1
        /\ ActiveRowsOf(new.tuple) = {}
        /\ \A g \in grants : g.granted_at <= new.granted_at
        /\ new \in Row
    BY <1>1, NewRowFits DEF Commit
  <2> HIDE DEF new
  <2>2. SeqsOf(grants') = 1..MaxSeq(grants') /\ MaxSeq(grants') \in Nat
    BY <1>0, <2>1, NumberOneMore DEF TableInv, SeqsNumberTheRows
  <2>3. \A g \in grants : g.seq \in Nat /\ g.seq < new.seq
    <3>1. \A g \in grants : g.seq \in 1..MaxSeq(grants)
      BY <1>0 DEF TableInv, SeqsNumberTheRows, SeqsOf
    <3> QED
      BY <1>0, <2>1, <3>1 DEF TableInv
  <2>4. SeqsNumberTheRows'
    BY <1>0, <2>1, <2>2, <2>3 DEF TableInv, SeqsNumberTheRows
  <2>5. OneActiveRowPerTuple'
    BY <1>0, <2>1 DEF TableInv, OneActiveRowPerTuple, ActiveRowsOf
  <2>6. GrantedInSeqOrder'
    BY <1>0, <2>1, <2>3 DEF TableInv, GrantedInSeqOrder, Row
  <2> QED
    BY <2>2, <2>4, <2>5, <2>6 DEF TableInv
<1>2. ASSUME NEW r \in Requests, Update(r)
      PROVE  TableInv'
  <2>1. grants' = {Stamped(r, g) : g \in grants}
    BY <1>2 DEF Update, Stamped
  <2>2. \A g \in grants :
            /\ Stamped(r, g).seq = g.seq /\ Stamped(r, g).tuple = g.tuple
            /\ Stamped(r, g).granted_at = g.granted_at
            /\ Active(Stamped(r, g)) => Stamped(r, g) = g
    BY <1>2, StampedRow DEF Update
  <2>3. SeqsOf(grants') = SeqsOf(grants)
    BY <2>1, <2>2 DEF SeqsOf
  <2>4. MaxSeq(grants') = MaxSeq(grants)
    BY <1>0, <2>3, MaxSeqOfNumbered DEF TableInv, SeqsNumberTheRows
  <2>5. SeqsNumberTheRows'
    BY <1>0, <2>1, <2>2, <2>3, <2>4 DEF TableInv, SeqsNumberTheRows
  <2>6. OneActiveRowPerTuple'
    BY <1>0, <2>1, <2>2 DEF TableInv, OneActiveRowPerTuple
  <2>7. GrantedInSeqOrder'
    BY <1>0, <2>1, <2>2 DEF TableInv, GrantedInSeqOrder
  <2> QED
    BY <1>0, <2>4, <2>5, <2>6, <2>7 DEF TableInv
<1>3. CASE UNCHANGED grants
  BY <1>0, <1>3, TableInvKept
<1> QED
  BY <1>1, <1>2, <1>3
     DEF Next, Proceed, vars, StartCreate, StartRevoke, BeginImmediate,
         ReturnExisting, NoneExisting, ReadMaxSeq, Insert, ReadBack, ReRead,
         BusyTimeout, SqlError, ReadError, Crash, Open, Tick

\* Where a step leaves the program counters: only r moves, or a crash ends all.
LEMMA AskStep == IInv /\ [Next]_vars => AskInv'
<1> SUFFICES ASSUME IInv, [Next]_vars PROVE AskInv'
  OBVIOUS
<1> USE DEF AskInv, CreateSteps, InTx
<1>0. TypeOK /\ AskInv
  BY DEF IInv
<1>1. ASSUME NEW r \in Requests, NEW t \in Tuples, StartCreate(r, t)
      PROVE  AskInv'
  BY <1>0, <1>1 DEF StartCreate, CreateAsk, Goto, TypeOK
<1>2. ASSUME NEW r \in Requests, NEW s \in Seqs, StartRevoke(r, s)
      PROVE  AskInv'
  BY <1>0, <1>2 DEF StartRevoke, RevokeAsk, Goto, TypeOK
<1>3. ASSUME NEW r \in Requests,
             \/ BeginImmediate(r) \/ NoneExisting(r) \/ ReadMaxSeq(r)
             \/ Insert(r) \/ Commit(r) \/ Update(r)
      PROVE  AskInv'
  BY <1>0, <1>3
     DEF BeginImmediate, NoneExisting, ReadMaxSeq, Insert, Commit, Update,
         Goto, TypeOK
<1>4. ASSUME NEW r \in Requests,
             \/ ReturnExisting(r) \/ ReadBack(r) \/ ReRead(r)
             \/ BusyTimeout(r) \/ SqlError(r) \/ ReadError(r)
      PROVE  AskInv'
  BY <1>0, <1>4
     DEF ReturnExisting, ReadBack, ReRead, BusyTimeout, SqlError, ReadError,
         Reply, TypeOK
<1>5. CASE Crash
  BY <1>0, <1>5 DEF Crash, InFlight, TypeOK
<1>6. CASE Open \/ Tick \/ UNCHANGED vars
  BY <1>0, <1>6 DEF Open, Tick, vars
<1> QED
  BY <1>1, <1>2, <1>3, <1>4, <1>5, <1>6 DEF Next, Proceed

\* The lock passes to the request that enters its transaction, and is free
\* again when it leaves, however it leaves.
LEMMA LockStep == IInv /\ [Next]_vars => LockFollowsTheTransaction'
<1> SUFFICES ASSUME IInv, [Next]_vars PROVE LockFollowsTheTransaction'
  OBVIOUS
<1> USE RequestsAssumption DEF LockFollowsTheTransaction, InTx
<1>0. TypeOK /\ LockFollowsTheTransaction
  BY DEF IInv
<1>1. ASSUME NEW r \in Requests,
             \/ \E t \in Tuples : StartCreate(r, t)
             \/ \E s \in Seqs : StartRevoke(r, s)
             \/ NoneExisting(r) \/ ReadMaxSeq(r) \/ Insert(r) \/ Update(r)
      PROVE  LockFollowsTheTransaction'
  BY <1>0, <1>1
     DEF StartCreate, StartRevoke, NoneExisting, ReadMaxSeq, Insert, Update,
         Goto, TypeOK
<1>2. ASSUME NEW r \in Requests, BeginImmediate(r)
      PROVE  LockFollowsTheTransaction'
  BY <1>0, <1>2 DEF BeginImmediate, Goto, TypeOK
<1>3. ASSUME NEW r \in Requests, Commit(r)
      PROVE  LockFollowsTheTransaction'
  BY <1>0, <1>3 DEF Commit, EndTx, Goto, TypeOK
<1>4. ASSUME NEW r \in Requests, ReturnExisting(r)
      PROVE  LockFollowsTheTransaction'
  BY <1>0, <1>4 DEF ReturnExisting, EndTx, Reply, TypeOK
<1>5. ASSUME NEW r \in Requests, SqlError(r)
      PROVE  LockFollowsTheTransaction'
  BY <1>0, <1>5 DEF SqlError, EndTx, Reply, TypeOK
<1>6. ASSUME NEW r \in Requests,
             ReadBack(r) \/ ReRead(r) \/ BusyTimeout(r) \/ ReadError(r)
      PROVE  LockFollowsTheTransaction'
  BY <1>0, <1>6 DEF ReadBack, ReRead, BusyTimeout, ReadError, Reply, TypeOK
<1>7. CASE Crash
  BY <1>0, <1>7 DEF Crash, InFlight, TypeOK
<1>8. CASE Open \/ Tick \/ UNCHANGED vars
  BY <1>0, <1>8 DEF Open, Tick, vars
<1> QED
  BY <1>1, <1>2, <1>3, <1>4, <1>5, <1>6, <1>7, <1>8 DEF Next, Proceed

\* At most one request is inside a transaction.
LEMMA OneTransaction ==
    ASSUME LockFollowsTheTransaction, NEW q \in Requests, NEW r \in Requests,
           pc[q] \in InTx, pc[r] \in InTx
    PROVE  q = r
BY DEF LockFollowsTheTransaction

\* A table that does not change, and requests that stay where they are, keep
\* what was learnt.
LEMMA TxInvKept ==
    ASSUME TxInv, UNCHANGED grants,
           \A q \in Requests : pc'[q] \in {"maxseq", "insert", "commit"} =>
               /\ pc'[q] = pc[q] /\ ask'[q] = ask[q]
               /\ nextSeq'[q] = nextSeq[q] /\ stamp'[q] = stamp[q]
    PROVE  TxInv'
BY DEF TxInv, ActiveRowsOf, Active, MaxSeq, SeqsOf

\* Every step keeps what each transaction knows, for a write needs the lock.
LEMMA TxStep == IInv /\ [Next]_vars => TxInv'
<1> SUFFICES ASSUME IInv, [Next]_vars PROVE TxInv'
  OBVIOUS
<1> USE RequestsAssumption
<1>0. /\ TypeOK /\ TxInv /\ LockFollowsTheTransaction /\ ClockInv
      /\ MaxSeq(grants) \in Nat
  BY DEF IInv, TableInv
<1>1. ASSUME NEW r \in Requests,
             \/ \E t \in Tuples : StartCreate(r, t)
             \/ \E s \in Seqs : StartRevoke(r, s)
             \/ BeginImmediate(r)
      PROVE  TxInv'
  BY <1>0, <1>1, TxInvKept
     DEF StartCreate, StartRevoke, BeginImmediate, Goto, TypeOK
<1>2. ASSUME NEW r \in Requests, NoneExisting(r)
      PROVE  TxInv'
  BY <1>0, <1>2 DEF NoneExisting, Goto, TypeOK, TxInv, ActiveRowsOf
<1>3. ASSUME NEW r \in Requests, ReadMaxSeq(r)
      PROVE  TxInv'
  BY <1>0, <1>3 DEF ReadMaxSeq, Goto, TypeOK, TxInv, ActiveRowsOf
<1>4. ASSUME NEW r \in Requests, Insert(r)
      PROVE  TxInv'
  BY <1>0, <1>4 DEF Insert, Goto, TypeOK, TxInv, ClockInv, ActiveRowsOf
<1>5. ASSUME NEW r \in Requests, Commit(r)
      PROVE  TxInv'
  <2>1. \A q \in Requests : pc'[q] \notin {"maxseq", "insert", "commit"}
    BY <1>0, <1>5, OneTransaction DEF Commit, Goto, TypeOK, InTx
  <2> QED
    BY <2>1 DEF TxInv
<1>6. ASSUME NEW r \in Requests, Update(r)
      PROVE  TxInv'
  <2>1. \A q \in Requests : pc'[q] \notin {"maxseq", "insert", "commit"}
    BY <1>0, <1>6 DEF Update, Goto, TypeOK, LockFollowsTheTransaction, InTx
  <2> QED
    BY <2>1 DEF TxInv
<1>7. ASSUME NEW r \in Requests,
             \/ ReturnExisting(r) \/ ReadBack(r) \/ ReRead(r)
             \/ BusyTimeout(r) \/ SqlError(r) \/ ReadError(r)
      PROVE  TxInv'
  BY <1>0, <1>7, TxInvKept
     DEF ReturnExisting, ReadBack, ReRead, BusyTimeout, SqlError, ReadError,
         Reply, TypeOK
<1>8. CASE Crash
  BY <1>0, <1>8, TxInvKept DEF Crash, InFlight, TypeOK
<1>9. CASE Open \/ Tick \/ UNCHANGED vars
  BY <1>0, <1>9, TxInvKept DEF Open, Tick, vars
<1> QED
  BY <1>1, <1>2, <1>3, <1>4, <1>5, <1>6, <1>7, <1>8, <1>9 DEF Next, Proceed

\* Every step keeps the stamps and the rows behind the clock.
LEMMA ClockStep == IInv /\ [Next]_vars => ClockInv'
<1> SUFFICES ASSUME IInv, [Next]_vars PROVE ClockInv'
  OBVIOUS
<1>0. /\ TypeOK /\ ClockInv /\ clock \in Nat
      /\ \A g \in grants : g.granted_at \in Nat
      /\ \A r \in Requests : stamp[r] \in Nat
  BY DEF IInv, TypeOK, Row, Times
<1>1. ASSUME NEW r \in Requests, Commit(r)
      PROVE  ClockInv'
  BY <1>0, <1>1, NewRowFits DEF Commit, ClockInv
<1>2. ASSUME NEW r \in Requests, Update(r)
      PROVE  ClockInv'
  <2>1. grants' = {Stamped(r, g) : g \in grants}
    BY <1>2 DEF Update, Stamped
  <2>2. \A g \in grants : Stamped(r, g).granted_at = g.granted_at
    BY <1>2, StampedRow DEF Update
  <2> QED
    BY <1>0, <1>2, <2>1, <2>2 DEF Update, ClockInv
<1>3. ASSUME NEW r \in Requests, Insert(r) \/ \E s \in Seqs : StartRevoke(r, s)
      PROVE  ClockInv'
  BY <1>0, <1>3 DEF Insert, StartRevoke, ClockInv, TypeOK
<1>4. CASE Tick
  BY <1>0, <1>4 DEF Tick, ClockInv
<1>5. CASE UNCHANGED <<grants, stamp, clock>>
  BY <1>0, <1>5 DEF ClockInv
<1> QED
  BY <1>1, <1>2, <1>3, <1>4, <1>5
     DEF Next, Proceed, vars, StartCreate, BeginImmediate, ReturnExisting,
         NoneExisting, ReadMaxSeq, ReadBack, ReRead, BusyTimeout, SqlError,
         ReadError, Crash, Open

-----------------------------------------------------------------------------
(* The theorems.                                                             *)

\* Every step keeps the invariant, part by part.
LEMMA IInvStep == IInv /\ [Next]_vars => IInv'
BY TypeStep, TableStep, AskStep, LockStep, TxStep, ClockStep DEF IInv

\* The invariant holds of every reachable state.
THEOREM IInvHolds == Spec => []IInv
BY InitIInv, IInvStep, PTL DEF Spec

\* Every variable keeps its type: rows stay rows, answers stay answers.
THEOREM TypeCorrect == Spec => []TypeOK
<1>1. IInv => TypeOK
  BY DEF IInv
<1> QED
  BY IInvHolds, <1>1, PTL

\* However many creates of a tuple run at once, one active row is all there is.
THEOREM OneActiveRow == Spec => []OneActiveRowPerTuple
<1>1. IInv => OneActiveRowPerTuple
  BY DEF IInv, TableInv
<1> QED
  BY IInvHolds, <1>1, PTL

\* The rows are numbered 1, 2, 3..., no number twice and none lost.
THEOREM SeqsNumber == Spec => []SeqsNumberTheRows
<1>1. IInv => SeqsNumberTheRows
  BY DEF IInv, TableInv
<1> QED
  BY IInvHolds, <1>1, PTL

\* What a transaction knows when it inserts leaves it nothing to collide with.
LEMMA NothingToHit == IInv => InsertNeverCollides
<1> SUFFICES ASSUME IInv, NEW r \in Requests, pc[r] \in {"insert", "commit"}
             PROVE  ~Collides(r)
  BY DEF InsertNeverCollides
<1>1. /\ ActiveRowsOf(ask[r].tuple) = {}
      /\ nextSeq[r] = MaxSeq(grants) + 1
      /\ MaxSeq(grants) \in Nat
      /\ SeqsOf(grants) = 1..MaxSeq(grants)
  BY DEF IInv, TxInv, TableInv, SeqsNumberTheRows
<1> QED
  BY <1>1 DEF Collides

\* The UNIQUE constraints are never hit: the claim of the comment on Open.
THEOREM NeverCollides == Spec => []InsertNeverCollides
BY NothingToHit, IInvHolds, PTL

\* The write lock and the open transaction are one and the same.
THEOREM LockFollows == Spec => []LockFollowsTheTransaction
<1>1. IInv => LockFollowsTheTransaction
  BY DEF IInv
<1> QED
  BY IInvHolds, <1>1, PTL

\* Numbers are in the order of granted_at.
THEOREM GrantedInOrder == Spec => []GrantedInSeqOrder
<1>1. IInv => GrantedInSeqOrder
  BY DEF IInv, TableInv
<1> QED
  BY IInvHolds, <1>1, PTL

=============================================================================
