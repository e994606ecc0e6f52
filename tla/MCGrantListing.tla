--------------------------- MODULE MCGrantListing ---------------------------
(* Small instances of GrantListing for TLC: three principals with a tool and *)
(* a board between them, one grant revoked and made again.                   *)
EXTENDS GrantListing, TLC

Tuple(p, rel, type, id) == [principal_id |-> p, relation |-> rel,
                            resource_type |-> type, resource_id |-> id]

Grant(s, t, revoked) == [seq |-> s, tuple |-> t, note |-> "",
                         granted_at |-> 1, revoked_at |-> revoked]

Anyone == [field \in Fields |-> ""]

OnTool == [Anyone EXCEPT !["resource_type"] = "tool", !["resource_id"] = "7"]

MCByteOrder == ("7" :> 1) @@ ("b1" :> 2) @@ ("board" :> 3) @@ ("can_use" :> 4)
               @@ ("can_view" :> 5) @@ ("p1" :> 6) @@ ("p2" :> 7)
               @@ ("team" :> 8) @@ ("tool" :> 9)

P1Views == Tuple("p1", "can_view", "board", "b1")

P1Uses == Tuple("p1", "can_use", "tool", "7")

P2Uses == Tuple("p2", "can_use", "tool", "7")

TeamUses == Tuple("team", "can_use", "tool", "7")

MCTuples == {P1Views, P1Uses, P2Uses, TeamUses}

MCTables == {{Grant(1, TeamUses, 0), Grant(2, P2Uses, 1), Grant(3, P2Uses, 0),
              Grant(4, P1Uses, 0)}}

MCFilters == {FilterBy(Anyone, TRUE), FilterBy(Anyone, FALSE),
              FilterBy(OnTool, FALSE)}

\* The requests are interchangeable.
Symmetry == Permutations(Requests)
=============================================================================
