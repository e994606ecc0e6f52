---------------------------- MODULE GrantListing ----------------------------
(* Lists read while grants are written: GET /grants page by page, the order  *)
(* of GET /principals/{id}/effective, and the counts of GET /health, over    *)
(* what GrantRegistry promises of the table.                                 *)
(*                                                                           *)
(* Each GET is one statement, and nothing ties two of them together: a client*)
(* that asks for page after page (store_test.go:273) has every write land    *)
(* between two of its pages.                                                 *)
EXTENDS GrantQueries

CONSTANTS
    Requests, Tuples, Seqs, Times, InitialTables,   \* as in GrantRegistry
    Principals,      \* the principals of Tuples
    ByteOrder,       \* word of Tuples -> its place in byte order
    Filters,         \* the filters clients send
    Limits,          \* the limits clients send; 0 is none
    Starts,          \* the offsets they begin at
    MaxOffset        \* bound: past every row there can be

VARIABLES
    grants, ask, answer,                            \* as in GrantRegistry
    read,            \* the client's list: what it asks for, and how far it is
    got,             \* the numbers it has been shown
    shown,           \* how many rows it has been shown, repeats counted
    during,          \* history: what was written since the list was begun
    health           \* the last answer to GET /health

Register == INSTANCE GrantRegistry
              WITH Requests <- Requests, Tuples <- Tuples, Seqs <- Seqs,
                   Times <- Times, InitialTables <- InitialTables,
                   grants <- grants, ask <- ask, answer <- answer

readVars == <<read, got, shown>>

vars == <<grants, ask, answer, readVars, during, health>>

Row == [seq : Nat \ {0}, tuple : Tuples, note : Requests \cup {""},
        granted_at : Times, revoked_at : Times \cup {0}]

\* What GrantRegistry keeps true of its table: a number names one row, and a
\* tuple has one active row at most.
WellFormed(table) ==
    /\ IsFiniteSet(table) /\ table \subseteq Row
    /\ \A g, h \in table :
         /\ g.seq = h.seq => g = h
         /\ g.revoked_at = 0 /\ h.revoked_at = 0 /\ g.tuple = h.tuple => g = h

ASSUME ListingAssumption ==
    /\ MaxOffset \in Nat /\ Starts \subseteq Nat /\ Limits \subseteq Nat
    /\ \A t \in Tuples : t.principal_id \in Principals
    /\ \A table \in InitialTables : WellFormed(table)
    /\ Times \subseteq Nat \ {0}

\* Two words that differ, differ in a byte.
ASSUME OrderAssumption ==
    /\ Tuples \subseteq [Fields -> DOMAIN ByteOrder]
    /\ ByteOrder \in [DOMAIN ByteOrder -> Int]
    /\ \A word, other \in DOMAIN ByteOrder :
         ByteOrder[word] = ByteOrder[other] => word = other

NoFilter == FilterBy([field \in Fields |-> ""], FALSE)

NotBegun == [stage |-> "none", filter |-> NoFilter, limit |-> 0,
             start |-> 0, offset |-> 0]

SeqsListed(table, filter) == {row.seq : row \in ListRows(table, filter)}

-----------------------------------------------------------------------------

Init ==
    /\ Register!Init
    /\ read = NotBegun /\ got = {} /\ shown = 0
    /\ during = [lasting |-> {}, came |-> 0, left |-> 0]
    /\ health = Counts({})

Begin ==
    /\ read.stage = "none"
    /\ \E f \in Filters, n \in Limits, start \in Starts :
         /\ read' = [stage |-> "reading", filter |-> f, limit |-> n,
                     start |-> start, offset |-> start]
         /\ during' = [lasting |-> SeqsListed(grants, f), came |-> 0, left |-> 0]
    /\ UNCHANGED <<grants, ask, answer, got, shown, health>>

\* One GET.  The client asks on until a page comes back short.
ReadPage ==
    /\ read.stage = "reading" /\ read.offset < MaxOffset
    /\ LET page == Page(ByteOrder, ListRows(grants, read.filter),
                        read.limit, read.offset) IN
         /\ got' = got \cup {row.seq : row \in page}
         /\ shown' = shown + Cardinality(page)
         /\ read' = [read EXCEPT
                       !.offset = @ + read.limit,
                       !.stage = IF read.limit > 0 /\ Cardinality(page) = read.limit
                                   THEN "reading" ELSE "ended"]
    /\ UNCHANGED <<grants, ask, answer, during, health>>

ReadHealth ==
    /\ health' = Counts(grants)
    /\ UNCHANGED <<grants, ask, answer, readVars, during>>

\* The row a create writes, as GrantRegistry has it.
Insert(r) ==
    /\ Register!Waiting(r, "create")
    /\ \E now \in Times :
         grants' = grants \cup {[seq |-> Cardinality(grants) + 1,
                                 tuple |-> ask[r].tuple, note |-> r,
                                 granted_at |-> now, revoked_at |-> 0]}
    /\ Register!Grant(r)

\* What has been written since, to the list that is being read.
Follow ==
    LET before == SeqsListed(grants, read.filter)
        after  == SeqsListed(grants', read.filter) IN
    during' = IF read.stage # "reading" THEN during
              ELSE [lasting |-> during.lasting \cap after,
                    came |-> during.came + Cardinality(after \ before),
                    left |-> during.left + Cardinality(before \ after)]

\* The writers.  What they are answered moves no row.
Write ==
    /\ \E r \in Requests :
         Register!Ask(r) \/ Insert(r) \/ Register!Revoke(r)
    /\ Follow
    /\ UNCHANGED <<readVars, health>>

Next == Begin \/ ReadPage \/ ReadHealth \/ Write

Spec == Init /\ [][Next]_vars

-----------------------------------------------------------------------------
(* Properties.                                                               *)

\* A list read page by page leaves out, of the rows that belonged in it all
\* along, no more than were revoked meanwhile, for each revoke pulls at most
\* one row under the offset; so a list with its history leaves out none, and a
\* quiet one is whole (grant.go:215-225).
MissesAreRevokes ==
    read.stage = "ended" =>
        Cardinality(during.lasting \ got) <= read.start + during.left

\* It shows a row twice at most once for each grant made meanwhile.
RepeatsAreGrants == shown - Cardinality(got) <= during.came

\* The order of Effective leaves nothing to chance, though it names no number:
\* two of its rows with one key would be one tuple active twice
\* (grant.go:239-240, 278-280).
EffectiveOrderIsTotal ==
    \A p \in Principals :
        \A g, h \in RowsHeldBy(grants, Principals, "", "") :
            EffectiveKey(ByteOrder, p, g) = EffectiveKey(ByteOrder, p, h) => g = h

\* Between two answers of GET /health neither the grants ever made nor those
\* revoked get fewer, so a drop means another database (store.go:151-162).
HealthNeverGoesBack ==
    [][health'.grants >= health.grants /\ health'.revoked >= health.revoked]_health

\* What CONTRACT.md:139-141 says of GET /grants: every filter is optional and
\* they combine.  A list begun at an offset, with nobody writing, leaves out
\* that many rows.
OffsetIsHonoured ==
    read.stage = "ended" /\ during.came = 0 /\ during.left = 0 =>
        \/ shown = Cardinality(during.lasting) - read.start
        \/ shown = 0 /\ read.start >= Cardinality(during.lasting)
=============================================================================
