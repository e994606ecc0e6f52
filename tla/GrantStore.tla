----------------------------- MODULE GrantStore -----------------------------
(* grant-store's database layer: Store.Create from BeginTx on, Store.Revoke, *)
(* and Store.Get where they read back (src/grant.go, src/store.go,           *)
(* src/schema.sql).  One action per SQL statement, so that the statements of *)
(* concurrent HTTP handlers interleave as the process and SQLite let them.   *)
(*                                                                           *)
(* SQLite, in WAL mode and opened with _txlock=immediate: one write lock,    *)
(* taken at BEGIN and held to COMMIT or ROLLBACK; a lone UPDATE takes and    *)
(* frees it at once; a reader outside a transaction sees what is committed.  *)
(* A writer that finds the lock held waits at most the driver's busy         *)
(* timeout.  Any statement may fail (the disk, or the request's context      *)
(* being cancelled), and the process may die between any two.                *)
EXTENDS Naturals, FiniteSetsExt

CONSTANTS
    Requests,        \* the handler calls that reach the store, made once each
    NoRequest,       \* nobody: the lock is free, or a row older than the run
    Tuples,          \* (principal_id, relation, resource_type, resource_id)
    Seqs,            \* the numbers a revoke may name, handed out or not
    MaxClock,        \* bound: the clock stops here
    InitialTables    \* the tables Open may find in the database

VARIABLES
    grants,          \* the committed rows of table grants
    writeLock,       \* the request whose transaction holds SQLite's write lock
    pc,              \* the next statement of each request
    ask,             \* what each request asks for, and when it arrived
    nextSeq,         \* Create's local seq
    stamp,           \* the now() an INSERT or an UPDATE carries
    answer,          \* what each request was told
    clock,           \* time.Now().Unix()
    up               \* the process is running

vars == <<grants, writeLock, pc, ask, nextSeq, stamp, answer, clock, up>>

Times == 1..MaxClock

\* A row of table grants.  id is left out: formatID makes it from seq, one to
\* one.  note is who wrote it: the note column carries what the call sent.
Row == [seq : Nat \ {0}, tuple : Tuples, note : Requests \cup {NoRequest},
        granted_at : Times, revoked_at : Times \cup {0}]

Active(row) == row.revoked_at = 0

SeqsOf(table) == {row.seq : row \in table}

\* SELECT MAX(seq): NULL, read as 0, over no rows.
MaxSeq(table) == IF table = {} THEN 0 ELSE Max(SeqsOf(table))

\* A table the code can have left behind: numbered 1, 2, 3..., in the order
\* of granted_at, and with one active row at most for a tuple.
WellFormed(table) ==
    /\ table \subseteq Row
    /\ MaxSeq(table) \in Nat /\ SeqsOf(table) = 1..MaxSeq(table)
    /\ \A g, h \in table :
         /\ g.seq = h.seq => g = h
         /\ g.seq < h.seq => g.granted_at <= h.granted_at
         /\ Active(g) /\ Active(h) /\ g.tuple = h.tuple => g = h

ASSUME RequestsAssumption == NoRequest \notin Requests

ASSUME BoundsAssumption == MaxClock \in Nat \ {0} /\ Seqs \subseteq Nat \ {0}

\* What was there before the run was written by nobody in it, by time 1.
ASSUME TablesAssumption ==
    \A table \in InitialTables :
        /\ WellFormed(table)
        /\ \A row \in table : row.note = NoRequest /\ row.granted_at = 1

-----------------------------------------------------------------------------
(* Requests and their answers.                                               *)

NoAsk == [kind |-> "none"]

CreateAsk(t) == [kind |-> "create", tuple |-> t, since |-> clock]

\* known: the number had been handed out when the call arrived.
RevokeAsk(s) == [kind |-> "revoke", seq |-> s, since |-> clock,
                 known |-> s \in SeqsOf(grants)]

Outcomes == {"created", "existing", "revoked", "not_found", "failed",
             "unread", "lost"}

NoAnswer == [outcome |-> "none", shown |-> {}]

Reply(r, outcome, rows) ==
    /\ pc' = [pc EXCEPT ![r] = "done"]
    /\ answer' = [answer EXCEPT ![r] = [outcome |-> outcome, shown |-> rows]]

Goto(r, step) == pc' = [pc EXCEPT ![r] = step] /\ UNCHANGED answer

\* The statements of a write transaction after BEGIN.
InTx == {"select", "maxseq", "insert", "commit"}

\* COMMIT, or the deferred ROLLBACK of every early return.
EndTx(r) == writeLock' = NoRequest

RowsNumbered(s) == {row \in grants : row.seq = s}

ActiveRowsOf(t) == {row \in grants : Active(row) /\ row.tuple = t}

\* The row request r's INSERT writes.
NewRow(r) == [seq |-> nextSeq[r], tuple |-> ask[r].tuple, note |-> r,
              granted_at |-> stamp[r], revoked_at |-> 0]

\* The UNIQUE on seq (and on id), and the partial UNIQUE index on the tuple.
Collides(r) == \/ nextSeq[r] \in SeqsOf(grants)
               \/ ActiveRowsOf(ask[r].tuple) # {}

-----------------------------------------------------------------------------

Init ==
    /\ grants \in InitialTables
    /\ writeLock = NoRequest
    /\ pc = [r \in Requests |-> "idle"]
    /\ ask = [r \in Requests |-> NoAsk]
    /\ nextSeq = [r \in Requests |-> 0]
    /\ stamp = [r \in Requests |-> 0]
    /\ answer = [r \in Requests |-> NoAnswer]
    /\ clock = 1
    /\ up = TRUE

-----------------------------------------------------------------------------
(* Mutants: each an action below as a plausible slip would have written it.  *)
(* No specification uses them; they show that the properties can fail.       *)

\* A plain BEGIN: the connection string without _txlock=immediate.  Nothing is
\* locked here; SQLite would turn the worst of it into a failed INSERT.
BeginDeferred(r) ==
    /\ up /\ pc[r] = "begin"
    /\ Goto(r, "select")
    /\ UNCHANGED <<grants, writeLock, ask, nextSeq, stamp, clock, up>>

\* An early return with no deferred rollback behind it.
ReturnExistingLeaked(r) ==
    /\ up /\ pc[r] = "select"
    /\ \E row \in ActiveRowsOf(ask[r].tuple) : Reply(r, "existing", {row})
    /\ UNCHANGED <<grants, writeLock, ask, nextSeq, stamp, clock, up>>

\* The SELECT without AND revoked_at = 0.
ReturnAnyExisting(r) ==
    /\ up /\ pc[r] = "select"
    /\ \E row \in {g \in grants : g.tuple = ask[r].tuple} :
          Reply(r, "existing", {row})
    /\ EndTx(r)
    /\ UNCHANGED <<grants, ask, nextSeq, stamp, clock, up>>

\* MAX(seq) over the active rows.
ReadMaxActiveSeq(r) ==
    /\ up /\ pc[r] = "maxseq"
    /\ nextSeq' = [nextSeq EXCEPT ![r] =
                      MaxSeq({row \in grants : Active(row)}) + 1]
    /\ Goto(r, "insert")
    /\ UNCHANGED <<grants, writeLock, ask, stamp, clock, up>>

\* granted_at taken when the request arrived, not under the lock.
InsertStampedOnArrival(r) ==
    /\ up /\ pc[r] = "insert"
    /\ ~Collides(r)
    /\ stamp' = [stamp EXCEPT ![r] = ask[r].since]
    /\ Goto(r, "commit")
    /\ UNCHANGED <<grants, writeLock, ask, nextSeq, clock, up>>

\* time.Now().UnixMilli() for time.Now().Unix().
InsertStampedInMillis(r) ==
    /\ up /\ pc[r] = "insert"
    /\ ~Collides(r)
    /\ stamp' = [stamp EXCEPT ![r] = 1000 * clock]
    /\ Goto(r, "commit")
    /\ UNCHANGED <<grants, writeLock, ask, nextSeq, clock, up>>

\* The UPDATE without AND revoked_at = 0.
UpdateAnyRow(r) ==
    /\ up /\ pc[r] = "update"
    /\ writeLock = NoRequest
    /\ grants' = {IF row.seq = ask[r].seq
                    THEN [row EXCEPT !.revoked_at = stamp[r]] ELSE row :
                      row \in grants}
    /\ Goto(r, "reread")
    /\ UNCHANGED <<writeLock, ask, nextSeq, stamp, clock, up>>

\* defer tx.Commit() for defer tx.Rollback(): an error after the INSERT keeps
\* the row.
SqlErrorKeepsRow(r) ==
    /\ up /\ pc[r] \in InTx \cup {"begin", "update"}
    /\ Reply(r, "failed", {})
    /\ IF pc[r] \in InTx THEN EndTx(r) ELSE UNCHANGED writeLock
    /\ grants' = IF pc[r] = "commit" THEN grants \cup {NewRow(r)} ELSE grants
    /\ UNCHANGED <<ask, nextSeq, stamp, clock, up>>

-----------------------------------------------------------------------------
(* Create, once the owners have confirmed both ids.                          *)

StartCreate(r, t) ==
    /\ up /\ pc[r] = "idle"
    /\ ask' = [ask EXCEPT ![r] = CreateAsk(t)]
    /\ Goto(r, "begin")
    /\ UNCHANGED <<grants, writeLock, nextSeq, stamp, clock, up>>

\* BEGIN IMMEDIATE: waits for the write lock and takes it.
BeginImmediate(r) ==
    /\ up /\ pc[r] = "begin"
    /\ writeLock = NoRequest
    /\ writeLock' = r
    /\ Goto(r, "select")
    /\ UNCHANGED <<grants, ask, nextSeq, stamp, clock, up>>

\* The tuple has an active row: return it, and the deferred rollback runs.
ReturnExisting(r) ==
    /\ up /\ pc[r] = "select"
    /\ \E row \in ActiveRowsOf(ask[r].tuple) : Reply(r, "existing", {row})
    /\ EndTx(r)
    /\ UNCHANGED <<grants, ask, nextSeq, stamp, clock, up>>

NoneExisting(r) ==
    /\ up /\ pc[r] = "select"
    /\ ActiveRowsOf(ask[r].tuple) = {}
    /\ Goto(r, "maxseq")
    /\ UNCHANGED <<grants, writeLock, ask, nextSeq, stamp, clock, up>>

ReadMaxSeq(r) ==
    /\ up /\ pc[r] = "maxseq"
    /\ nextSeq' = [nextSeq EXCEPT ![r] = MaxSeq(grants) + 1]
    /\ Goto(r, "insert")
    /\ UNCHANGED <<grants, writeLock, ask, stamp, clock, up>>

\* now() is read here, under the lock.  The row is not committed yet: nobody
\* else sees it.  A row that collides is left to SqlError.
Insert(r) ==
    /\ up /\ pc[r] = "insert"
    /\ ~Collides(r)
    /\ stamp' = [stamp EXCEPT ![r] = clock]
    /\ Goto(r, "commit")
    /\ UNCHANGED <<grants, writeLock, ask, nextSeq, clock, up>>

Commit(r) ==
    /\ up /\ pc[r] = "commit"
    /\ grants' = grants \cup {NewRow(r)}
    /\ EndTx(r)
    /\ Goto(r, "readback")
    /\ UNCHANGED <<ask, nextSeq, stamp, clock, up>>

\* s.Get(id), after the commit and outside the transaction.
ReadBack(r) ==
    /\ up /\ pc[r] = "readback"
    /\ \E row \in RowsNumbered(nextSeq[r]) : Reply(r, "created", {row})
    /\ UNCHANGED <<grants, writeLock, ask, nextSeq, stamp, clock, up>>

-----------------------------------------------------------------------------
(* Revoke.  now() is an argument, read before the UPDATE waits for the lock. *)

StartRevoke(r, s) ==
    /\ up /\ pc[r] = "idle"
    /\ ask' = [ask EXCEPT ![r] = RevokeAsk(s)]
    /\ stamp' = [stamp EXCEPT ![r] = clock]
    /\ Goto(r, "update")
    /\ UNCHANGED <<grants, writeLock, nextSeq, clock, up>>

\* UPDATE ... WHERE id = ? AND revoked_at = 0, a transaction of its own.
Update(r) ==
    /\ up /\ pc[r] = "update"
    /\ writeLock = NoRequest
    /\ grants' = {IF row.seq = ask[r].seq /\ Active(row)
                    THEN [row EXCEPT !.revoked_at = stamp[r]] ELSE row :
                      row \in grants}
    /\ Goto(r, "reread")
    /\ UNCHANGED <<writeLock, ask, nextSeq, stamp, clock, up>>

\* s.Get(id): the row as it is by now, revoked by this call or by another.
ReRead(r) ==
    /\ up /\ pc[r] = "reread"
    /\ \/ \E row \in RowsNumbered(ask[r].seq) : Reply(r, "revoked", {row})
       \/ RowsNumbered(ask[r].seq) = {} /\ Reply(r, "not_found", {})
    /\ UNCHANGED <<grants, writeLock, ask, nextSeq, stamp, clock, up>>

-----------------------------------------------------------------------------
(* What goes wrong.                                                          *)

\* The lock was held for all of the driver's busy timeout.
BusyTimeout(r) ==
    /\ up /\ pc[r] \in {"begin", "update"}
    /\ writeLock # NoRequest
    /\ Reply(r, "failed", {})
    /\ UNCHANGED <<grants, writeLock, ask, nextSeq, stamp, clock, up>>

\* A statement fails before the write is durable: what was done is undone.
SqlError(r) ==
    /\ up /\ pc[r] \in InTx \cup {"begin", "update"}
    /\ Reply(r, "failed", {})
    /\ IF pc[r] \in InTx THEN EndTx(r) ELSE UNCHANGED writeLock
    /\ UNCHANGED <<grants, ask, nextSeq, stamp, clock, up>>

\* The read back fails: a 500, and the write stands.
ReadError(r) ==
    /\ up /\ pc[r] \in {"readback", "reread"}
    /\ Reply(r, "unread", {})
    /\ UNCHANGED <<grants, writeLock, ask, nextSeq, stamp, clock, up>>

InFlight(r) == pc[r] \notin {"idle", "done"}

\* The process dies, or leaves before its handlers are done: the open
\* transaction is gone, and so is every answer still owed.
Crash ==
    /\ up
    /\ up' = FALSE
    /\ writeLock' = NoRequest
    /\ pc' = [r \in Requests |-> IF InFlight(r) THEN "done" ELSE pc[r]]
    /\ answer' = [r \in Requests |->
                    IF InFlight(r) THEN [outcome |-> "lost", shown |-> {}]
                                   ELSE answer[r]]
    /\ UNCHANGED <<grants, ask, nextSeq, stamp, clock>>

\* The next boot: the schema is create-only, so the rows are as they were.
Open ==
    /\ ~up
    /\ up' = TRUE
    /\ UNCHANGED <<grants, writeLock, pc, ask, nextSeq, stamp, answer, clock>>

Tick ==
    /\ clock < MaxClock
    /\ clock' = clock + 1
    /\ UNCHANGED <<grants, writeLock, pc, ask, nextSeq, stamp, answer, up>>

-----------------------------------------------------------------------------

\* What the store does of its own accord once a request is in it.
Proceed(r) ==
    \/ BeginImmediate(r) \/ ReturnExisting(r) \/ NoneExisting(r)
    \/ ReadMaxSeq(r) \/ Insert(r) \/ Commit(r) \/ ReadBack(r)
    \/ Update(r) \/ ReRead(r)
    \/ BusyTimeout(r)

Next ==
    \/ \E r \in Requests :
         \/ \E t \in Tuples : StartCreate(r, t)
         \/ \E s \in Seqs : StartRevoke(r, s)
         \/ Proceed(r) \/ SqlError(r) \/ ReadError(r)
    \/ Crash \/ Open \/ Tick

\* The handlers' fairness, under which a call in the database ends, is
\* GrantService's.
Spec == Init /\ [][Next]_vars
-----------------------------------------------------------------------------
(* Properties.                                                               *)

TypeOK ==
    /\ grants \subseteq Row
    /\ writeLock \in Requests \cup {NoRequest}
    /\ pc \in [Requests -> InTx \cup {"idle", "begin", "readback", "update",
                                      "reread", "done"}]
    /\ ask \in [Requests ->
                  {NoAsk}
                    \cup [kind : {"create"}, tuple : Tuples, since : Times]
                    \cup [kind : {"revoke"}, seq : Seqs, since : Times,
                          known : BOOLEAN]]
    /\ nextSeq \in [Requests -> Nat]
    /\ stamp \in [Requests -> Times \cup {0}]
    /\ answer \in [Requests ->
                     {NoAnswer} \cup [outcome : Outcomes, shown : SUBSET Row]]
    /\ clock \in Times
    /\ up \in BOOLEAN

\* Two creates of one tuple, however they interleave, never leave two active
\* rows: the SELECT and the INSERT are one transaction (grant.go:103-134).
OneActiveRowPerTuple ==
    \A g, h \in grants :
        Active(g) /\ Active(h) /\ g.tuple = h.tuple => g = h

\* The rows are numbered 1, 2, 3... with no number given twice and none lost
\* to a transaction that rolled back or died (grant.go:120-132).
SeqsNumberTheRows ==
    /\ SeqsOf(grants) = 1..MaxSeq(grants)
    /\ \A g, h \in grants : g.seq = h.seq => g = h

\* No create ever runs into a UNIQUE: between its SELECTs and its COMMIT
\* nobody takes its number or its tuple (store.go:75-77 says so).
InsertNeverCollides ==
    \A r \in Requests : pc[r] \in {"insert", "commit"} => ~Collides(r)

\* The write lock is held by the request inside a transaction and by nobody
\* else: no return path, error or crash leaks it (grant.go:107).
LockFollowsTheTransaction ==
    \A r \in Requests : writeLock = r <=> pc[r] \in InTx

\* A later number is never an earlier grant: granted_at is read under the lock
\* that orders the numbers (grant.go:129).
GrantedInSeqOrder ==
    \A g, h \in grants : g.seq < h.seq => g.granted_at <= h.granted_at

\* What a create was told is what it did: 201 is one row of its own, 200 and a
\* 500 before COMMIT are none, now or ever; only a failed read back or a crash
\* leaves the caller not knowing (grant.go:109-139).
CreateAnswersTellWhatWasWritten ==
    \A r \in Requests : ask[r].kind = "create" =>
        LET mine == {row \in grants : row.note = r} IN
        /\ \A g, h \in mine : g = h
        /\ answer[r].outcome \in {"created", "unread"} => mine # {}
        /\ answer[r].outcome = "created" =>
              \A shown \in answer[r].shown, row \in mine :
                  [shown EXCEPT !.revoked_at = row.revoked_at] = row
        /\ answer[r].outcome \in {"existing", "failed"} => mine = {}

\* Every revoke of a grant already handed out answers with the one moment it
\* was first revoked, whoever did it and however many ask (grant.go:172-180).
RevokeAnswersAgree ==
    \A r \in Requests :
        answer[r].outcome = "revoked" /\ ask[r].known =>
            \A shown \in answer[r].shown :
                ~Active(shown) /\ shown \in grants

\* Nothing is ever deleted or rewritten: a step adds one active row, or sets
\* the revoked_at of one active row to the time its revoke arrived
\* (schema.sql:18-22).
HistoryOnlyGrows ==
    [][\A g \in grants : g \notin grants' =>
          /\ Active(g)
          /\ \E r \in Requests :
                /\ ask[r].kind = "revoke" /\ ask[r].seq = g.seq
                /\ [g EXCEPT !.revoked_at = ask[r].since] \in grants']_grants

\* The database layer keeps every promise of the register of grants.
Registry == INSTANCE GrantRegistry
              WITH grants <- grants, ask <- ask, answer <- answer, Times <- Times,
                   Requests <- Requests, Tuples <- Tuples, Seqs <- Seqs,
                   InitialTables <- InitialTables
RegistryPromises == Registry!Spec

\* What the comment at grant.go:172 and server_test.go:138 say of any revoke:
\* answered 200, the grant is revoked.  A revoke that names a number not yet
\* handed out can be overtaken by the create that hands it out.
RevokedIsRevoked ==
    \A r \in Requests : answer[r].outcome = "revoked" =>
        \A shown \in answer[r].shown : ~Active(shown)
=============================================================================
