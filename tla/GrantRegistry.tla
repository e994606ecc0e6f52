--------------------------- MODULE GrantRegistry ---------------------------
(* What grant-store's database layer promises its callers, with no trace of  *)
(* transactions, locks or crashes: a register of grants that only grows.     *)
(*                                                                           *)
(* A create either adds one row, numbered next, for a tuple that has no      *)
(* active row, or is shown the active row the tuple already has.  A revoke   *)
(* stamps revoked_at once.  Every row an answer shows is a row as stored at  *)
(* that moment.  GrantStore, the detailed module, is checked and proved to   *)
(* implement this specification.                                             *)
EXTENDS Naturals

CONSTANTS
    Requests,        \* the calls made on the store, each made at most once
    Tuples,          \* (principal, relation, resource type, resource id)
    Seqs,            \* the numbers a revoke may name
    Times,           \* readings of the clock, in seconds; 0 is never one
    InitialTables    \* the tables the store may find in its database

VARIABLES
    grants,          \* the set of stored rows
    ask,             \* what each request asks for, and since when
    answer           \* what each request has been told

vars == <<grants, ask, answer>>

-----------------------------------------------------------------------------
(* Requests and answers.                                                     *)

NoAsk == [kind |-> "none"]

\* since is the clock when the call arrived.
CreateAsk(t, now) == [kind |-> "create", tuple |-> t, since |-> now]

\* known says whether the number had been handed out when the call arrived.
RevokeAsk(s, now, k) ==
    [kind |-> "revoke", seq |-> s, since |-> now, known |-> k]

NoAnswer == [outcome |-> "none", shown |-> {}]

Waiting(r, kind) == ask[r].kind = kind /\ answer[r] = NoAnswer

Tell(r, outcome, rows) ==
    answer' = [answer EXCEPT ![r] = [outcome |-> outcome, shown |-> rows]]

Active(row) == row.revoked_at = 0

Numbers == {row.seq : row \in grants}

WrittenBy(r) == {row \in grants : row.note = r}

-----------------------------------------------------------------------------

Init ==
    /\ grants \in InitialTables
    /\ ask = [r \in Requests |-> NoAsk]
    /\ answer = [r \in Requests |-> NoAnswer]

Ask(r) ==
    /\ ask[r] = NoAsk
    /\ \E now \in Times :
         \/ \E t \in Tuples : ask' = [ask EXCEPT ![r] = CreateAsk(t, now)]
         \/ \E s \in Seqs :
              ask' = [ask EXCEPT ![r] = RevokeAsk(s, now, s \in Numbers)]
    /\ UNCHANGED <<grants, answer>>

\* A create writes its row: the tuple has no active one, the number is the
\* first unused one, the clock is read after the call arrived, and no row
\* already stored is younger.
Grant(r) ==
    /\ Waiting(r, "create") /\ WrittenBy(r) = {}
    /\ \A row \in grants : Active(row) => row.tuple # ask[r].tuple
    /\ \E row \in grants' \ grants :
         /\ row.tuple = ask[r].tuple /\ row.note = r /\ Active(row)
         /\ row.seq >= 1 /\ Numbers = 1..(row.seq - 1)
         /\ row.granted_at \in Times /\ row.granted_at >= ask[r].since
         /\ \A old \in grants : old.granted_at <= row.granted_at
         /\ grants' = grants \cup {row}
    /\ UNCHANGED <<ask, answer>>

\* A revoke stamps the row it names, if it is still active, with the time the
\* call arrived.
Revoke(r) ==
    /\ Waiting(r, "revoke")
    /\ \E row \in grants :
         /\ row.seq = ask[r].seq /\ Active(row)
         /\ grants' = (grants \ {row})
                        \cup {[row EXCEPT !.revoked_at = ask[r].since]}
    /\ UNCHANGED <<ask, answer>>

-----------------------------------------------------------------------------
(* The answers.  Each says something about the rows stored when it is given. *)

\* 201: the caller's own row, which somebody may have revoked meanwhile.
SayCreated(r) ==
    /\ Waiting(r, "create")
    /\ \E row \in WrittenBy(r) : Tell(r, "created", {row})
    /\ UNCHANGED <<grants, ask>>

\* 200: the row that was active for the tuple before this call, untouched.
SayExisting(r) ==
    /\ Waiting(r, "create") /\ WrittenBy(r) = {}
    /\ \E row \in grants : /\ row.tuple = ask[r].tuple /\ Active(row)
                           /\ Tell(r, "existing", {row})
    /\ UNCHANGED <<grants, ask>>

\* 200 to a revoke.  The row is revoked by now, by this call or by another,
\* unless the call named a number nobody had been given yet.
SayRevoked(r) ==
    /\ Waiting(r, "revoke")
    /\ \E row \in grants : /\ row.seq = ask[r].seq
                           /\ ask[r].known => ~Active(row)
                           /\ Tell(r, "revoked", {row})
    /\ UNCHANGED <<grants, ask>>

\* 404 to a revoke that named no row.
SayNotFound(r) ==
    /\ Waiting(r, "revoke") /\ ask[r].seq \notin Numbers
    /\ Tell(r, "not_found", {})
    /\ UNCHANGED <<grants, ask>>

\* 500 before anything was written: a create that failed this way never has a
\* row, now or later.
SayFailed(r) ==
    /\ \/ Waiting(r, "create") /\ WrittenBy(r) = {}
       \/ Waiting(r, "revoke")
    /\ Tell(r, "failed", {})
    /\ UNCHANGED <<grants, ask>>

\* 500 after the write: it stands, though the caller was told of an error.
SayUnread(r) ==
    /\ \/ Waiting(r, "create") /\ WrittenBy(r) # {}
       \/ Waiting(r, "revoke")
    /\ Tell(r, "unread", {})
    /\ UNCHANGED <<grants, ask>>

\* The process died first: every call in flight is told nothing.
Lose ==
    /\ answer' = [r \in Requests |->
                    IF ask[r] # NoAsk /\ answer[r] = NoAnswer
                      THEN [outcome |-> "lost", shown |-> {}] ELSE answer[r]]
    /\ UNCHANGED <<grants, ask>>

Next ==
    \/ \E r \in Requests :
         \/ Ask(r) \/ Grant(r) \/ Revoke(r)
         \/ SayCreated(r) \/ SayExisting(r) \/ SayRevoked(r)
         \/ SayNotFound(r) \/ SayFailed(r) \/ SayUnread(r)
    \/ Lose

Spec == Init /\ [][Next]_vars
=============================================================================
