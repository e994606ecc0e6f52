--------------------------- MODULE MCGrantService ---------------------------
(* Small instances of GrantService for TLC: one board, a few other           *)
(* resources, two humans, a group, an administrator, a customer's contact,   *)
(* and ids that name nobody.                                                 *)
EXTENDS GrantService, TLC

MCIdShape == [p1 |-> "principal_id", p2 |-> "principal_id",
              team |-> "principal_id", contact |-> "principal_id",
              root |-> "principal_id", ghost |-> "principal_id",
              typo |-> "principal_ish", bob |-> "name",
              b1 |-> "name", t7 |-> "decimal", a9 |-> "decimal",
              a09 |-> "odd_decimal", hammer |-> "name", classify |-> "name"]
             @@ ("*" :> "name") @@ ("" :> "empty") @@ (" b1" :> "padded")

MCIds == DOMAIN MCIdShape \ {AllResources, ""}

MCGroups == {"team"}

MCMembers == [p1 |-> {"team"}, p2 |-> {}]

Tuple(p, rel, type, id) == [principal_id |-> p, relation |-> rel,
                            resource_type |-> type, resource_id |-> id]

OldRow(s, t) == [seq |-> s, tuple |-> t, note |-> NoRequest,
                 granted_at |-> 1, revoked_at |-> 0]

TeamAdministers == Tuple("team", "can_administer", "board", "b1")

P2Administers == Tuple("p2", "can_administer", "board", "b1")

P2Views == Tuple("p2", "can_view", "board", "b1")

P1UsesTool == Tuple("p1", "can_use", "tool", "t7")

\* p1 administers board b1 through the team; p1 may use tool t7.
OneTable == {{OldRow(1, TeamAdministers), OldRow(2, P1UsesTool)}}

\* Nobody administers b1.
NoAdministrator == {{OldRow(1, P1UsesTool)}}

EverybodysTuples == {TeamAdministers, P2Administers, P2Views, P1UsesTool}

\* The requests are interchangeable.
Symmetry == Permutations(Requests)

Asks(caller, wish) ==
    [op |-> "create", caller |-> caller, wish |-> wish, decodes |-> TRUE]

Garbles(caller, wish) ==
    [op |-> "create", caller |-> caller, wish |-> wish, decodes |-> FALSE]

OnGrant(op, caller, s) == [op |-> op, caller |-> caller, seq |-> s]

EffectiveOf(caller, p, relation, type) ==
    [op |-> "effective", caller |-> caller, principal_id |-> p,
     relation |-> relation, resource_type |-> type]

Effective(caller, p) == EffectiveOf(caller, p, "", "")

\* Principals write to, and read of, the board they may or may not administer,
\* and an effective set is read, while the service token takes the authority
\* away and gives it back.
RaceCalls == {Asks("p1", P2Administers),
              Asks(Service, TeamAdministers),
              OnGrant("revoke", "p1", 1), OnGrant("revoke", "p2", 1),
              OnGrant("revoke", Service, 1),
              OnGrant("get", "p2", 1), OnGrant("get", "p2", 2),
              Effective(Service, "p1")}

\* The team is made an administrator while p1, who leaves it, writes.
LateCalls == {Asks("p1", P2Views), Asks(Service, TeamAdministers)}

\* Bodies right and wrong, each wrong in one way.
ManyTuples ==
    EverybodysTuples \cup
    {Tuple("p1", "can_use", "tool", "hammer"),       \* a name, not an id
     Tuple("p1", "can_run_as", "agent", "a9"),       \* looked for in a list
     Tuple("p1", "can_run_as", "agent", "a09"),
     Tuple("p1", "can_run_operation", "operation_type", "classify"),
     Tuple("p1", "can_start_sessions_as", "principal", "ghost"),
     Tuple("p1", "can_use", "tool", AllResources),
     Tuple("p2", "can_view", "board", AllResources), \* kanban-store reads none
     Tuple("p2", "can_view", "board", " b1"),
     Tuple("p2", "can_view", "board", ""),
     Tuple("p1", "can_use", "board", "b1"),          \* does not pair
     Tuple("p1", "can_fly", "tool", "t7"),           \* no such relation
     Tuple("p1", "can_use", "planet", "t7"),         \* no such type
     Tuple("bob", "can_use", "tool", "t7"),          \* not a principal's id
     Tuple("typo", "can_use", "tool", "t7"),         \* nobody's id
     Tuple("ghost", "can_use", "tool", "t7"),
     Tuple("contact", "can_use", "tool", "t7")}      \* a kind given nothing

List(caller, p, relation, type, id, history) ==
    [op |-> "list", caller |-> caller,
     filter |-> FilterBy(Tuple(p, relation, type, id), history)]

\* A board's grants, and one's own, asked for by those who may and may not.
Lists ==
    {List("p1", "p1", "", "", "", TRUE), List("p1", "", "", "board", "b1", FALSE),
     List("p2", "", "", "board", "b1", TRUE), List("p1", "", "", "board", "", FALSE),
     List("p1", "", "", "", "b1", FALSE), List("p2", "p2", "can_fly", "", "", FALSE),
     List(Service, "", "", "planet", "", FALSE),
     List(Service, "", "can_use", "", "", TRUE)}

Settings(caller) == [op |-> "settings", caller |-> caller]

\* One of everything, by everybody who may and some who may not.
EveryCall ==
    {Asks(Service, t) : t \in ManyTuples}
      \cup {Asks("p1", P2Views), Asks("p1", P1UsesTool), Asks("root", P1UsesTool)}
      \cup {OnGrant(op, c, s) : op \in {"get", "revoke"},
                               c \in {Service, "p1", "p2", "root"}, s \in {1, 2, 3}}
      \cup {Garbles("p1", P2Views), Garbles("ghost", P2Views)} \cup Lists
      \cup {EffectiveOf("p1", "p1", "can_fly", ""),
            EffectiveOf(Service, "p1", "", "planet"),
            EffectiveOf(Service, "p1", "can_use", "tool")}
      \cup {Effective(c, p) : c \in {Service, "p1"}, p \in {"p1", "p2", "ghost"}}
      \cup {Settings(c) : c \in {Service, "root", "p1", "ghost", "contact", "bob"}
                                \cup Strangers}
=============================================================================
