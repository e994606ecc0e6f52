------------------------- MODULE MCServiceLifecycle -------------------------
(* Small instances of ServiceLifecycle for TLC, with the code's own seconds. *)
EXTENDS ServiceLifecycle, TLC

\* ownerCheckTimeout, and go-sqlite3's busy timeout.
CodesLongest == [owner |-> 3, write |-> 5, query |-> 0]

EffectiveRead == <<"owner", "owner", "query">>

ServiceRevoke == <<"write">>

ServiceCreate == <<"body", "owner", "owner", "write">>

MCPlans == {EffectiveRead, ServiceRevoke, ServiceCreate}

\* The connections are interchangeable.
Symmetry == Permutations(Connections)
=============================================================================
