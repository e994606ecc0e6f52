---------------------------- MODULE GrantQueries ----------------------------
(* The SELECTs of grant-store over table grants, as functions of the rows    *)
(* stored: Store.List, the query of Store.Effective and Store.Counts         *)
(* (src/grant.go, src/store.go).  Each is one statement, so each sees one    *)
(* committed table.                                                          *)
EXTENDS Integers, Sequences, FiniteSets

Fields == {"principal_id", "relation", "resource_type", "resource_id"}

\* A Filter without its Limit and Offset; "" is a field the caller left out.
FilterBy(tuple, history) == [by |-> tuple, include_revoked |-> history]

Matches(row, filter) ==
    /\ filter.include_revoked \/ row.revoked_at = 0
    /\ \A field \in Fields :
         filter.by[field] # "" => row.tuple[field] = filter.by[field]

ListRows(table, filter) == {row \in table : Matches(row, filter)}

\* The rest of Effective's WHERE.
Held(row, principals, relation, type) ==
    /\ row.tuple.principal_id \in principals
    /\ relation # "" => row.tuple.relation = relation
    /\ type # "" => row.tuple.resource_type = type

\* A mutant of the next: the query without revoked_at = 0.
RowsEverHeldBy(table, principals, relation, type) ==
    {row \in table : Held(row, principals, relation, type)}

\* The query of Effective, over the holders looked up before it.
RowsHeldBy(table, principals, relation, type) ==
    {row \in table : row.revoked_at = 0 /\ Held(row, principals, relation, type)}

\* A mutant of the next: the WHERE of the lists copied into the health query.
CountsOfTheActive(table) ==
    LET active == {row \in table : row.revoked_at = 0} IN
    [grants |-> Cardinality(active), active |-> Cardinality(active), revoked |-> 0,
     principals |-> Cardinality({row.tuple.principal_id : row \in active})]

\* GET /health.
Counts(table) ==
    LET active == {row \in table : row.revoked_at = 0} IN
    [grants     |-> Cardinality(table),
     active     |-> Cardinality(active),
     revoked    |-> Cardinality(table \ active),
     principals |-> Cardinality({row.tuple.principal_id : row \in active})]

-----------------------------------------------------------------------------
(* ORDER BY and LIMIT.  Words compare as SQLite compares them, byte by byte: *)
(* rank gives each word in use its place in that order.                      *)

\* The order of two keys, lists of numbers of one length.
Precedes(key, other) ==
    \E i \in DOMAIN key : /\ key[i] < other[i]
                          /\ \A j \in 1..(i - 1) : key[j] = other[j]

\* Both lists are ordered by the resource and the relation first.
ResourceKey(rank, row) ==
    <<rank[row.tuple.resource_type], rank[row.tuple.resource_id],
      rank[row.tuple.relation]>>

\* A mutant of the next: what was revoked at the end of the list.
ListKeyActiveFirst(rank, row) ==
    <<IF row.revoked_at = 0 THEN 0 ELSE 1>> \o ResourceKey(rank, row)
      \o <<rank[row.tuple.principal_id], row.seq>>

\* The ORDER BY of List.
ListKey(rank, row) ==
    ResourceKey(rank, row) \o <<rank[row.tuple.principal_id], row.seq>>

\* A mutant of the next: the own row first, and no more.
EffectiveKeyOwnOrNot(rank, principal, row) ==
    ResourceKey(rank, row)
      \o <<IF row.tuple.principal_id = principal THEN 0 ELSE 1>>

\* The ORDER BY of Effective: it names no number.
EffectiveKey(rank, principal, row) ==
    ResourceKey(rank, row)
      \o <<IF row.tuple.principal_id = principal THEN 0 ELSE 1,
           rank[row.tuple.principal_id]>>

\* How many rows of a list stand before this one.
Position(rank, rows, row) ==
    Cardinality({other \in rows :
        Precedes(ListKey(rank, other), ListKey(rank, row))})

\* A mutant of the next: LIMIT without its OFFSET.
FirstPage(rank, rows, limit, offset) ==
    {row \in rows : limit > 0 => Position(rank, rows, row) < limit}

\* LIMIT and OFFSET: no limit, or none above 0, is the whole list.
Page(rank, rows, limit, offset) ==
    IF limit <= 0 THEN rows
    ELSE LET from == IF offset > 0 THEN offset ELSE 0 IN
         {row \in rows : Position(rank, rows, row) \in from..(from + limit - 1)}
=============================================================================
