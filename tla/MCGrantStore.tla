---------------------------- MODULE MCGrantStore ----------------------------
(* Small instances of GrantStore for TLC.                                    *)
EXTENDS GrantStore, TLC

CONSTANTS t1, t2

OldRow(s, t, revoked) == [seq |-> s, tuple |-> t, note |-> NoRequest,
                          granted_at |-> 1, revoked_at |-> revoked]

\* A new database, and one with history: a tuple granted, revoked and granted
\* again by calls of an earlier day, or its last grant revoked too.
NewTables == {{}}

UsedTables == {{OldRow(1, t1, 0)}, {OldRow(1, t1, 1), OldRow(2, t2, 1)}}

MCTables == NewTables \cup UsedTables

\* The requests are interchangeable: nothing tells one from another.
Symmetry == Permutations(Requests)
=============================================================================
