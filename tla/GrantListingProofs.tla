------------------------- MODULE GrantListingProofs -------------------------
(* Proofs about GrantListing: what a list read page by page may miss and may *)
(* repeat, that the order of Effective is total, and that GET /health never  *)
(* goes back, for any table, any filters and any pages.                      *)
EXTENDS GrantListing, FiniteSetTheorems, SequenceTheorems, TLAPS

SeqsIn(rows) == {row.seq : row \in rows}

Place(rows, row) == Position(ByteOrder, rows, row)

\* The numbers of the first n rows of a list, and of the others.
Passed(rows, n) == SeqsIn({row \in rows : Place(rows, row) < n})

Ahead(rows, n) == SeqsIn({row \in rows : Place(rows, row) >= n})

-----------------------------------------------------------------------------
(* The inductive invariant.                                                  *)

Asks == [kind : {"none"}]
        \cup [kind : {"create"}, tuple : Tuples, since : Times]
        \cup [kind : {"revoke"}, seq : Seqs, since : Times, known : BOOLEAN]

Revoked(table) == {row \in table : row.revoked_at # 0}

CountInv ==
    /\ health.grants <= Cardinality(grants) /\ health.grants \in Nat
    /\ health.revoked <= Cardinality(Revoked(grants))
    /\ health.revoked \in Nat

ListingTypes ==
    /\ WellFormed(grants) /\ ask \in [Requests -> Asks]
    /\ read \in [stage : {"none", "reading", "ended"}, filter : Filters \cup {NoFilter},
                 limit : Nat, start : Nat, offset : Nat]
    /\ got \subseteq SeqsIn(grants) /\ shown \in Nat
    /\ during \in [lasting : SUBSET Nat, came : Nat, left : Nat]

\* Of the rows that lasted, those the offset has passed and the client has not
\* seen; and the rows seen that are still to come, which it will see again.
PageInv ==
    LET listed == ListRows(grants, read.filter) IN
    /\ read.stage = "none" => got = {} /\ shown = 0
    /\ read.stage = "reading" =>
         /\ during.lasting \subseteq SeqsIn(listed)
         /\ Cardinality(Passed(listed, read.offset) \cap (during.lasting \ got))
              <= read.start + during.left
         /\ shown - Cardinality(got) + Cardinality(Ahead(listed, read.offset) \cap got)
              <= during.came
         /\ read.limit = 0 => got = {} /\ shown = 0
    /\ read.stage = "ended" => MissesAreRevokes /\ RepeatsAreGrants

ListingInv == ListingTypes /\ CountInv /\ PageInv

-----------------------------------------------------------------------------
(* The order of a list.                                                      *)

Before(g, h) == Precedes(ListKey(ByteOrder, g), ListKey(ByteOrder, h))

\* What the order looks at, one word after another.
Type(g) == ByteOrder[g.tuple.resource_type]

Id(g) == ByteOrder[g.tuple.resource_id]

Relation(g) == ByteOrder[g.tuple.relation]

Holder(g) == ByteOrder[g.tuple.principal_id]

\* The two halves of a key, laid end to end.
LEMMA KeyOfFive ==
    ASSUME NEW a \in Int, NEW b \in Int, NEW c \in Int, NEW d \in Int, NEW e \in Int
    PROVE  <<a, b, c>> \o <<d, e>> = <<a, b, c, d, e>>
<1> DEFINE whole == <<a, b, c>> \o <<d, e>>
<1>1. /\ <<a, b, c>> \in Seq(Int) /\ <<d, e>> \in Seq(Int) /\ <<a, b, c, d, e>> \in Seq(Int)
      /\ Len(<<a, b, c>>) = 3 /\ Len(<<d, e>>) = 2 /\ Len(<<a, b, c, d, e>>) = 5
  OBVIOUS
<1>2. /\ whole \in Seq(Int) /\ Len(whole) = 5
      /\ \A i \in 1 .. 5 : whole[i] = IF i <= 3 THEN <<a, b, c>>[i] ELSE <<d, e>>[i - 3]
  BY <1>1, ConcatProperties
<1> HIDE DEF whole
<1>3. \A i \in 1 .. 5 : whole[i] = <<a, b, c, d, e>>[i]
  BY <1>2
<1>4. whole = <<a, b, c, d, e>>
  BY <1>1, <1>2, <1>3, SeqEqual
<1> QED  BY <1>4 DEF whole

\* ListKey is five whole numbers: the words of a row by place, then its number.
LEMMA KeyTypes ==
    ASSUME NEW g \in Row
    PROVE  /\ Type(g) \in Int /\ Id(g) \in Int /\ Relation(g) \in Int
           /\ Holder(g) \in Int /\ g.seq \in Nat
           /\ ListKey(ByteOrder, g) =
                <<Type(g), Id(g), Relation(g), Holder(g), g.seq>>
<1>1. /\ g.tuple \in [Fields -> DOMAIN ByteOrder] /\ g.seq \in Nat
      /\ ByteOrder \in [DOMAIN ByteOrder -> Int]
  BY OrderAssumption DEF Row
<1>2. /\ g.tuple.resource_type \in DOMAIN ByteOrder
      /\ g.tuple.resource_id \in DOMAIN ByteOrder
      /\ g.tuple.relation \in DOMAIN ByteOrder
      /\ g.tuple.principal_id \in DOMAIN ByteOrder
  BY <1>1 DEF Fields
<1>3. /\ Type(g) \in Int /\ Id(g) \in Int /\ Relation(g) \in Int /\ Holder(g) \in Int
  BY <1>1, <1>2 DEF Type, Id, Relation, Holder
<1>4. ListKey(ByteOrder, g) = <<Type(g), Id(g), Relation(g)>> \o <<Holder(g), g.seq>>
  BY DEF ListKey, ResourceKey, Type, Id, Relation, Holder
<1> QED  BY <1>1, <1>3, <1>4, KeyOfFive

\* The first word that differs decides, and the number if none does.
LEMMA BeforeSays ==
    ASSUME NEW g \in Row, NEW h \in Row
    PROVE  Before(g, h) <=>
             \/ Type(g) < Type(h)
             \/ Type(g) = Type(h) /\ Id(g) < Id(h)
             \/ Type(g) = Type(h) /\ Id(g) = Id(h) /\ Relation(g) < Relation(h)
             \/ /\ Type(g) = Type(h) /\ Id(g) = Id(h) /\ Relation(g) = Relation(h)
                /\ Holder(g) < Holder(h)
             \/ /\ Type(g) = Type(h) /\ Id(g) = Id(h) /\ Relation(g) = Relation(h)
                /\ Holder(g) = Holder(h) /\ g.seq < h.seq
<1> DEFINE k == ListKey(ByteOrder, g)
           l == ListKey(ByteOrder, h)
<1>1. /\ k = <<Type(g), Id(g), Relation(g), Holder(g), g.seq>>
      /\ l = <<Type(h), Id(h), Relation(h), Holder(h), h.seq>>
  BY KeyTypes
<1>2. /\ DOMAIN k = 1 .. 5
      /\ k[1] = Type(g) /\ k[2] = Id(g) /\ k[3] = Relation(g) /\ k[4] = Holder(g)
      /\ k[5] = g.seq
      /\ l[1] = Type(h) /\ l[2] = Id(h) /\ l[3] = Relation(h) /\ l[4] = Holder(h)
      /\ l[5] = h.seq
  BY <1>1
<1> HIDE DEF k, l
<1>3. Precedes(k, l) <=>
        \/ k[1] < l[1]
        \/ k[1] = l[1] /\ k[2] < l[2]
        \/ k[1] = l[1] /\ k[2] = l[2] /\ k[3] < l[3]
        \/ k[1] = l[1] /\ k[2] = l[2] /\ k[3] = l[3] /\ k[4] < l[4]
        \/ k[1] = l[1] /\ k[2] = l[2] /\ k[3] = l[3] /\ k[4] = l[4] /\ k[5] < l[5]
  <2>1. Precedes(k, l) <=> \E i \in 1 .. 5 : /\ k[i] < l[i]
                                             /\ \A j \in 1 .. (i - 1) : k[j] = l[j]
    BY <1>2 DEF Precedes
  <2> QED  BY <2>1
<1>4. Before(g, h) <=> Precedes(k, l)
  BY DEF Before, k, l
<1> QED  BY <1>2, <1>3, <1>4

\* Rows of different numbers stand in one order.
LEMMA BeforeIsAnOrder ==
    ASSUME NEW g \in Row, NEW h \in Row, NEW i \in Row
    PROVE  /\ ~Before(g, g)
           /\ Before(g, h) /\ Before(h, i) => Before(g, i)
           /\ g.seq # h.seq => Before(g, h) \/ Before(h, g)
<1>1. \A r \in Row : /\ Type(r) \in Int /\ Id(r) \in Int /\ Relation(r) \in Int
                     /\ Holder(r) \in Int /\ r.seq \in Int
  BY KeyTypes
<1> USE <1>1
<1>2. ~Before(g, g)
  BY BeforeSays
<1>3. Before(g, h) /\ Before(h, i) => Before(g, i)
  BY BeforeSays
<1>4. g.seq # h.seq => Before(g, h) \/ Before(h, g)
  BY BeforeSays
<1> QED  BY <1>2, <1>3, <1>4

\* A row's stamps are no part of the order.
LEMMA BeforeIgnoresStamps ==
    ASSUME NEW g, NEW h, g.seq = h.seq, g.tuple = h.tuple, NEW other
    PROVE  (Before(g, other) <=> Before(h, other)) /\ (Before(other, g) <=> Before(other, h))
BY DEF Before, ListKey, ResourceKey
-----------------------------------------------------------------------------
(* Places in a list.                                                         *)

\* What a list of rows is, whatever they were selected by.
Listable(rows) ==
    /\ IsFiniteSet(rows) /\ rows \subseteq Row
    /\ \A g, h \in rows : g.seq = h.seq => g = h

Earlier(rows, row) == {other \in rows : Before(other, row)}

\* What is left of a list is a list.
LEMMA PartsAreListable ==
    ASSUME NEW rows, Listable(rows), NEW part, part \subseteq rows
    PROVE  Listable(part)
BY FS_Subset DEF Listable

\* Rows have a number each.
LEMMA SeqsCount ==
    ASSUME NEW rows, Listable(rows)
    PROVE  /\ IsFiniteSet(SeqsIn(rows))
           /\ Cardinality(SeqsIn(rows)) = Cardinality(rows)
<1> DEFINE number == [row \in rows |-> row.seq]
<1>1. number \in Bijection(rows, SeqsIn(rows))
  BY DEF Bijection, Injection, Surjection, IsInjective, Listable, SeqsIn
<1> QED  BY <1>1, FS_Bijection DEF ExistsBijection, Listable

\* The place of a row is how many rows stand before it.
LEMMA PlaceIs ==
    ASSUME NEW rows, Listable(rows), NEW row
    PROVE  /\ IsFiniteSet(Earlier(rows, row))
           /\ Place(rows, row) = Cardinality(Earlier(rows, row))
           /\ Place(rows, row) \in Nat
<1>1. Earlier(rows, row) \in SUBSET rows /\ IsFiniteSet(rows)
  BY DEF Earlier, Listable
<1>2. IsFiniteSet(Earlier(rows, row))
  BY <1>1, FS_Subset
<1>3. Place(rows, row) = Cardinality(Earlier(rows, row))
  BY DEF Place, Position, Earlier, Before
<1> QED  BY <1>2, <1>3, FS_CardinalityType

\* Who stands before another has a smaller place.
LEMMA PlacesGrow ==
    ASSUME NEW rows, Listable(rows), NEW g \in rows, NEW h \in rows, Before(g, h)
    PROVE  Place(rows, g) < Place(rows, h)
<1>1. g \in Row /\ h \in Row /\ rows \subseteq Row
  BY DEF Listable
<1>2. /\ Earlier(rows, g) \in SUBSET Earlier(rows, h)
      /\ g \in Earlier(rows, h) /\ g \notin Earlier(rows, g)
  BY <1>1, BeforeIsAnOrder DEF Earlier
<1>3. /\ Cardinality(Earlier(rows, g)) <= Cardinality(Earlier(rows, h))
      /\ Cardinality(Earlier(rows, g)) # Cardinality(Earlier(rows, h))
  BY <1>2, PlaceIs, FS_Subset
<1> QED  BY <1>3, PlaceIs

\* No two rows share a place.
LEMMA PlacesDiffer ==
    ASSUME NEW rows, Listable(rows), NEW g \in rows, NEW h \in rows,
           Place(rows, g) = Place(rows, h)
    PROVE  g = h
<1> SUFFICES ASSUME g # h  PROVE FALSE
  OBVIOUS
<1>1. g \in Row /\ h \in Row /\ g.seq # h.seq
  BY DEF Listable
<1>2. Before(g, h) \/ Before(h, g)
  BY <1>1, BeforeIsAnOrder
<1>3. Place(rows, g) < Place(rows, h) \/ Place(rows, h) < Place(rows, g)
  BY <1>2, PlacesGrow
<1> QED  BY <1>3, PlaceIs

\* A place is below the number of rows, and each of these is taken.
LEMMA PlacesFill ==
    ASSUME NEW rows, Listable(rows)
    PROVE  /\ Cardinality(rows) \in Nat
           /\ \A row \in rows : Place(rows, row) \in 0 .. Cardinality(rows) - 1
           /\ \A n \in 0 .. Cardinality(rows) - 1 :
                \E row \in rows : Place(rows, row) = n
<1> DEFINE size == Cardinality(rows)
           place == [row \in rows |-> Place(rows, row)]
<1>1. IsFiniteSet(rows) /\ size \in Nat
  BY FS_CardinalityType DEF Listable
<1>2. ASSUME NEW row \in rows  PROVE Place(rows, row) \in 0 .. size - 1
  <2>1. Earlier(rows, row) \in SUBSET rows /\ row \notin Earlier(rows, row)
    BY BeforeIsAnOrder DEF Earlier, Listable
  <2>2. /\ Cardinality(Earlier(rows, row)) <= size
        /\ Cardinality(Earlier(rows, row)) # size
    BY <1>1, <2>1, FS_Subset
  <2> QED  BY <1>1, <2>2, PlaceIs
<1>3. place \in Injection(rows, 0 .. size - 1)
  BY <1>2, PlacesDiffer DEF Injection, IsInjective
<1>4. IsFiniteSet(0 .. size - 1) /\ Cardinality(0 .. size - 1) = size
  BY <1>1, FS_Interval
<1>5. place \in Surjection(rows, 0 .. size - 1)
  BY <1>3, <1>4, FS_Injection
<1>6. \A n \in 0 .. size - 1 : \E row \in rows : Place(rows, row) = n
  BY <1>5 DEF Surjection
<1> QED  BY <1>1, <1>2, <1>6

\* No more rows than n have places below n.
LEMMA PassedBound ==
    ASSUME NEW rows, Listable(rows), NEW n \in Nat
    PROVE  IsFiniteSet(Passed(rows, n)) /\ Cardinality(Passed(rows, n)) <= n
<1> DEFINE first == {row \in rows : Place(rows, row) < n}
           place == [row \in first |-> Place(rows, row)]
<1>1. Listable(first)
  BY PartsAreListable
<1>2. place \in Injection(first, 0 .. n - 1)
  <2>1. place \in [first -> 0 .. n - 1]
    BY PlaceIs
  <2> QED  BY <2>1, PlacesDiffer DEF Injection, IsInjective
<1>3. IsFiniteSet(0 .. n - 1) /\ Cardinality(0 .. n - 1) = n
  BY FS_Interval
<1>4. Cardinality(first) <= n
  BY <1>2, <1>3, FS_Injection
<1>5. Passed(rows, n) = SeqsIn(first)
  BY DEF Passed
<1> HIDE DEF first
<1> QED  BY <1>1, <1>4, <1>5, SeqsCount
-----------------------------------------------------------------------------
(* What a write does to the places of a list.                                *)

\* A row more moves those behind it one place on, and no other.
LEMMA PlaceAfterInsert ==
    ASSUME NEW rows, Listable(rows), NEW new \in Row, new \notin rows,
           NEW row
    PROVE  Place(rows \cup {new}, row) =
             Place(rows, row) + IF Before(new, row) THEN 1 ELSE 0
<1> DEFINE all == rows \cup {new}
<1>1. Place(all, row) = Cardinality(Earlier(all, row))
  BY DEF Place, Position, Earlier, Before
<1>2. /\ IsFiniteSet(Earlier(rows, row)) /\ new \notin Earlier(rows, row)
      /\ Place(rows, row) = Cardinality(Earlier(rows, row)) /\ Place(rows, row) \in Nat
  BY PlaceIs DEF Earlier
<1>3. CASE Before(new, row)
  <2>1. Earlier(all, row) = Earlier(rows, row) \cup {new}
    BY <1>3 DEF Earlier
  <2> QED  BY <1>1, <1>2, <1>3, <2>1, FS_AddElement
<1>4. CASE ~Before(new, row)
  <2>1. Earlier(all, row) = Earlier(rows, row)
    BY <1>4 DEF Earlier
  <2> QED  BY <1>1, <1>2, <1>4, <2>1
<1> QED  BY <1>3, <1>4

\* A row less moves those behind it one place back, and no other.
LEMMA PlaceAfterRemove ==
    ASSUME NEW rows, Listable(rows), NEW old \in rows, NEW row
    PROVE  /\ Listable(rows \ {old})
           /\ Place(rows, row) =
                Place(rows \ {old}, row) + IF Before(old, row) THEN 1 ELSE 0
<1>1. Listable(rows \ {old})
  BY PartsAreListable
<1>2. old \in Row /\ (rows \ {old}) \cup {old} = rows
  BY DEF Listable
<1> QED  BY <1>1, <1>2, PlaceAfterInsert

\* A row more pushes one row over a boundary at most, and none back.
LEMMA PassedAfterInsert ==
    ASSUME NEW rows, Listable(rows), NEW new \in Row, new \notin rows, NEW n \in Nat
    PROVE  /\ Passed(rows \cup {new}, n) \subseteq Passed(rows, n) \cup {new.seq}
           /\ \E s : Ahead(rows \cup {new}, n)
                      \subseteq Ahead(rows, n) \cup {new.seq, s}
<1>1. \A row : /\ Place(rows, row) \in Nat
               /\ Place(rows \cup {new}, row) =
                    Place(rows, row) + IF Before(new, row) THEN 1 ELSE 0
  BY PlaceAfterInsert, PlaceIs
<1>2. ASSUME NEW row \in rows
      PROVE  /\ Place(rows \cup {new}, row) < n => Place(rows, row) < n
             /\ Place(rows \cup {new}, row) >= n =>
                  Place(rows, row) >= n \/ Place(rows, row) = n - 1
  BY <1>1
<1>3. Passed(rows \cup {new}, n) \subseteq Passed(rows, n) \cup {new.seq}
  BY <1>2 DEF Passed, SeqsIn
<1>4. CASE \E row \in rows : Place(rows, row) = n - 1
  <2>1. PICK last \in rows : Place(rows, last) = n - 1
    BY <1>4
  <2>2. Ahead(rows \cup {new}, n) \subseteq Ahead(rows, n) \cup {new.seq, last.seq}
    BY <1>2, <2>1, PlacesDiffer DEF Ahead, SeqsIn
  <2> QED  BY <1>3, <2>2
<1>5. CASE ~\E row \in rows : Place(rows, row) = n - 1
  <2>1. Ahead(rows \cup {new}, n) \subseteq Ahead(rows, n) \cup {new.seq, new.seq}
    BY <1>2, <1>5 DEF Ahead, SeqsIn
  <2> QED  BY <1>3, <2>1
<1> QED  BY <1>4, <1>5

\* A row less pulls one row under a boundary at most, and none back.
LEMMA PassedAfterRemove ==
    ASSUME NEW rows, Listable(rows), NEW old \in rows, NEW n \in Nat
    PROVE  /\ Ahead(rows \ {old}, n) \subseteq Ahead(rows, n)
           /\ \E s : Passed(rows \ {old}, n) \subseteq Passed(rows, n) \cup {s}
<1>1. \A row : /\ Place(rows \ {old}, row) \in Nat
               /\ Place(rows, row) =
                    Place(rows \ {old}, row) + IF Before(old, row) THEN 1 ELSE 0
  BY PlaceAfterRemove, PlaceIs
<1>2. ASSUME NEW row \in rows \ {old}
      PROVE  /\ Place(rows \ {old}, row) >= n => Place(rows, row) >= n
             /\ Place(rows \ {old}, row) < n =>
                  Place(rows, row) < n \/ Place(rows, row) = n
  BY <1>1
<1>3. Ahead(rows \ {old}, n) \subseteq Ahead(rows, n)
  BY <1>2 DEF Ahead, SeqsIn
<1>4. CASE \E row \in rows : Place(rows, row) = n
  <2>1. PICK next \in rows : Place(rows, next) = n
    BY <1>4
  <2>2. Passed(rows \ {old}, n) \subseteq Passed(rows, n) \cup {next.seq}
    BY <1>2, <2>1, PlacesDiffer DEF Passed, SeqsIn
  <2> QED  BY <1>3, <2>2
<1>5. CASE ~\E row \in rows : Place(rows, row) = n
  <2>1. Passed(rows \ {old}, n) \subseteq Passed(rows, n) \cup {old.seq}
    BY <1>2, <1>5 DEF Passed, SeqsIn
  <2> QED  BY <1>3, <2>1
<1> QED  BY <1>4, <1>5

\* A row stamped, and listed still, moves nothing.
LEMMA PassedAfterStamp ==
    ASSUME NEW rows, Listable(rows), NEW old \in rows,
           NEW new \in Row, new.seq = old.seq, new.tuple = old.tuple, NEW n \in Nat
    PROVE  /\ SeqsIn((rows \ {old}) \cup {new}) = SeqsIn(rows)
           /\ Passed((rows \ {old}) \cup {new}, n) = Passed(rows, n)
           /\ Ahead((rows \ {old}) \cup {new}, n) = Ahead(rows, n)
<1> DEFINE rest == rows \ {old}
           now == rest \cup {new}
<1>1. /\ Listable(rest) /\ old \in Row /\ new \notin rest
      /\ \A row : /\ Place(rest, row) \in Nat
                  /\ Place(rows, row) =
                       Place(rest, row) + IF Before(old, row) THEN 1 ELSE 0
  <2>1. Listable(rest) /\ old \in Row /\ new \notin rest
    BY PartsAreListable DEF Listable
  <2> QED  BY <2>1, PlaceAfterRemove, PlaceIs
<1>2. \A row : Place(now, row) =
                 Place(rest, row) + IF Before(new, row) THEN 1 ELSE 0
  BY <1>1, PlaceAfterInsert
<1>3. \A row : Before(new, row) <=> Before(old, row)
  BY BeforeIgnoresStamps
<1>4. \A row : Place(now, row) = Place(rows, row)
  BY <1>1, <1>2, <1>3
<1>5. Place(now, new) = Place(rows, old)
  <2>1. \A row : Before(row, new) <=> Before(row, old)
    BY BeforeIgnoresStamps
  <2>2. Earlier(rows, new) = Earlier(rows, old)
    BY <2>1 DEF Earlier
  <2>3. Place(rows, new) = Place(rows, old)
    BY <2>2, PlaceIs
  <2> QED  BY <1>4, <2>3
<1>6. SeqsIn(now) = SeqsIn(rows)
  BY DEF SeqsIn
<1>7. Passed(now, n) = Passed(rows, n)
  BY <1>4, <1>5 DEF Passed, SeqsIn
<1>8. Ahead(now, n) = Ahead(rows, n)
  BY <1>4, <1>5 DEF Ahead, SeqsIn
<1> QED  BY <1>6, <1>7, <1>8
-----------------------------------------------------------------------------
(* The writers.                                                              *)

\* The row a create adds: of a new number, of a tuple with no active row.
Adds(new) ==
    /\ new \in Row /\ new.revoked_at = 0 /\ new.seq \notin SeqsIn(grants)
    /\ \A row \in grants : row.revoked_at = 0 => row.tuple # new.tuple
    /\ grants' = grants \cup {new}

\* The row a revoke writes in the place of another.
Stamps(old, new) ==
    /\ old \in grants /\ old.revoked_at = 0
    /\ new \in Row /\ new.revoked_at # 0
    /\ new.seq = old.seq /\ new.tuple = old.tuple
    /\ grants' = (grants \ {old}) \cup {new}

\* The table is finite, and each of its rows is a row of its own number.
LEMMA TableTypes ==
    ASSUME ListingTypes
    PROVE  /\ IsFiniteSet(grants) /\ grants \subseteq Row /\ Listable(grants)
           /\ Cardinality(grants) \in Nat /\ Times \subseteq Nat \ {0}
           /\ ask \in [Requests -> Asks]
BY ListingAssumption, FS_CardinalityType DEF ListingTypes, WellFormed, Listable

\* A create adds one row, active, of a number and a tuple not taken.
LEMMA InsertAdds ==
    ASSUME ListingTypes, NEW r \in Requests, Insert(r)
    PROVE  (\E new : Adds(new)) /\ UNCHANGED ask
<1>1. PICK now \in Times :
        grants' = grants \cup {[seq |-> Cardinality(grants) + 1, tuple |-> ask[r].tuple,
                                note |-> r, granted_at |-> now, revoked_at |-> 0]}
  BY DEF Insert
<1> DEFINE new == [seq |-> Cardinality(grants) + 1, tuple |-> ask[r].tuple,
                   note |-> r, granted_at |-> now, revoked_at |-> 0]
<1>2. /\ \A row \in grants : row.revoked_at = 0 => row.tuple # ask[r].tuple
      /\ \E row \in grants' \ grants :
           row.seq >= 1 /\ SeqsIn(grants) = 1 .. (row.seq - 1)
      /\ UNCHANGED ask /\ ask[r].kind = "create"
  BY DEF Insert, Register!Grant, Register!Active, Register!Numbers,
         Register!Waiting, SeqsIn
<1>3. PICK row \in grants' \ grants : row.seq >= 1 /\ SeqsIn(grants) = 1 .. (row.seq - 1)
  BY <1>2
<1>4. row = new
  BY <1>1, <1>3
<1>5. ask[r].tuple \in Tuples
  BY <1>2, TableTypes DEF Asks
<1>6. new \in Row
  <2>1. Cardinality(grants) \in Nat
    BY TableTypes
  <2>2. \A k \in Nat : k + 1 \in Nat \ {0}
    OBVIOUS
  <2>3. Cardinality(grants) + 1 \in Nat \ {0}
    BY <2>1, <2>2
  <2> QED  BY <1>5, <2>3 DEF Row
<1>7. new.seq \in Nat /\ new.seq \notin 1 .. (new.seq - 1)
  BY TableTypes
<1>8. new.revoked_at = 0 /\ new.tuple = ask[r].tuple
  OBVIOUS
<1> HIDE DEF new
<1>9. Adds(new)
  BY <1>1, <1>2, <1>3, <1>4, <1>6, <1>7, <1>8 DEF Adds, new
<1> QED  BY <1>2, <1>9

\* A revoke stamps one active row and nothing else.
LEMMA RevokeStamps ==
    ASSUME ListingTypes, NEW r \in Requests, Register!Revoke(r)
    PROVE  (\E old, new : Stamps(old, new)) /\ UNCHANGED ask
<1>1. PICK old \in grants :
        /\ old.revoked_at = 0
        /\ grants' = (grants \ {old}) \cup {[old EXCEPT !.revoked_at = ask[r].since]}
  BY DEF Register!Revoke, Register!Active
<1>2. ask[r].kind = "revoke" /\ UNCHANGED ask
  BY DEF Register!Revoke, Register!Waiting
<1>3. ask[r].since \in Times /\ ask[r].since # 0
  BY <1>2, TableTypes DEF Asks
<1> DEFINE new == [old EXCEPT !.revoked_at = ask[r].since]
<1>4. old \in Row
  BY TableTypes
<1>5. /\ new \in Row /\ new.seq = old.seq /\ new.tuple = old.tuple
      /\ new.revoked_at = ask[r].since
  BY <1>3, <1>4 DEF Row
<1>6. Stamps(old, new)
  BY <1>1, <1>3, <1>4, <1>5 DEF Stamps
<1> QED  BY <1>2, <1>6

\* A step of the writers leaves the table, adds a row or stamps one.
LEMMA WriteDoes ==
    ASSUME ListingTypes, Write
    PROVE  /\ ask' \in [Requests -> Asks]
           /\ UNCHANGED grants \/ (\E new : Adds(new)) \/ \E old, new : Stamps(old, new)
<1>1. PICK r \in Requests : Register!Ask(r) \/ Insert(r) \/ Register!Revoke(r)
  BY DEF Write
<1>2. CASE Register!Ask(r)
  <2>1. PICK now \in Times :
          \/ \E t \in Tuples : ask' = [ask EXCEPT ![r] = Register!CreateAsk(t, now)]
          \/ \E s \in Seqs : ask' = [ask EXCEPT ![r] =
                                       Register!RevokeAsk(s, now, s \in Register!Numbers)]
    BY <1>2 DEF Register!Ask
  <2>2. UNCHANGED grants
    BY <1>2 DEF Register!Ask
  <2>3. ASSUME NEW t \in Tuples, ask' = [ask EXCEPT ![r] = Register!CreateAsk(t, now)]
        PROVE  ask' \in [Requests -> Asks]
    BY <2>3, TableTypes DEF Register!CreateAsk, Asks
  <2>4. ASSUME NEW s \in Seqs, NEW known \in BOOLEAN,
               ask' = [ask EXCEPT ![r] = Register!RevokeAsk(s, now, known)]
        PROVE  ask' \in [Requests -> Asks]
    <3>1. Register!RevokeAsk(s, now, known) \in Asks
      BY DEF Register!RevokeAsk, Asks
    <3> QED  BY <2>4, <3>1, TableTypes
  <2>5. \A s : (s \in Register!Numbers) \in BOOLEAN
    OBVIOUS
  <2> QED  BY <2>1, <2>2, <2>3, <2>4, <2>5
<1>3. CASE Insert(r)
  BY <1>3, InsertAdds, TableTypes
<1>4. CASE Register!Revoke(r)
  BY <1>4, RevokeStamps, TableTypes
<1> QED  BY <1>1, <1>2, <1>3, <1>4

\* A table with such a row more is well formed.
LEMMA AddsKeepsTable ==
    ASSUME ListingTypes, NEW new, Adds(new)
    PROVE  /\ WellFormed(grants)' /\ new \notin grants
           /\ SeqsIn(grants') = SeqsIn(grants) \cup {new.seq}
<1>1. new \notin grants
  BY DEF Adds, SeqsIn
<1>2. IsFiniteSet(grants')
  BY TableTypes, FS_AddElement DEF Adds
<1>3. SeqsIn(grants') = SeqsIn(grants) \cup {new.seq}
  BY DEF Adds, SeqsIn
<1>4. ASSUME NEW g \in grants', NEW h \in grants'
      PROVE  /\ g.seq = h.seq => g = h
             /\ g.revoked_at = 0 /\ h.revoked_at = 0 /\ g.tuple = h.tuple => g = h
  BY <1>4 DEF Adds, SeqsIn, ListingTypes, WellFormed
<1> QED  BY <1>1, <1>2, <1>3, <1>4, TableTypes DEF WellFormed, Adds

\* So is a table with a row stamped.
LEMMA StampsKeepsTable ==
    ASSUME ListingTypes, NEW old, NEW new, Stamps(old, new)
    PROVE  /\ WellFormed(grants)' /\ new \notin grants
           /\ SeqsIn(grants') = SeqsIn(grants)
<1>1. new \notin grants
  BY DEF Stamps, ListingTypes, WellFormed
<1>2. IsFiniteSet(grants')
  BY TableTypes, FS_AddElement, FS_RemoveElement DEF Stamps
<1>3. SeqsIn(grants') = SeqsIn(grants)
  BY DEF Stamps, SeqsIn
<1>4. ASSUME NEW g \in grants', NEW h \in grants'
      PROVE  /\ g.seq = h.seq => g = h
             /\ g.revoked_at = 0 /\ h.revoked_at = 0 /\ g.tuple = h.tuple => g = h
  BY <1>4 DEF Stamps, ListingTypes, WellFormed
<1> QED  BY <1>1, <1>2, <1>3, <1>4, TableTypes DEF WellFormed, Stamps

-----------------------------------------------------------------------------
(* Health.                                                                   *)

\* Neither count goes down.
LEMMA CountsGrow ==
    ASSUME ListingTypes, Write
    PROVE  /\ Cardinality(grants') \in Nat /\ Cardinality(Revoked(grants')) \in Nat
           /\ Cardinality(grants) <= Cardinality(grants')
           /\ Cardinality(Revoked(grants)) <= Cardinality(Revoked(grants'))
<1>1. /\ IsFiniteSet(grants) /\ Cardinality(grants) \in Nat
      /\ IsFiniteSet(Revoked(grants)) /\ Cardinality(Revoked(grants)) \in Nat
  <2>1. IsFiniteSet(grants) /\ Revoked(grants) \in SUBSET grants
    BY TableTypes DEF Revoked
  <2>2. IsFiniteSet(Revoked(grants))
    BY <2>1, FS_Subset
  <2> QED  BY <2>1, <2>2, FS_CardinalityType
<1>2. CASE UNCHANGED grants
  BY <1>1, <1>2
<1>3. ASSUME NEW new, Adds(new)
      PROVE  /\ Cardinality(grants') = Cardinality(grants) + 1
             /\ Revoked(grants') = Revoked(grants)
  <2>1. new \notin grants /\ grants' = grants \cup {new} /\ new.revoked_at = 0
    BY <1>3, AddsKeepsTable DEF Adds
  <2>2. Cardinality(grants') = Cardinality(grants) + 1
    BY <1>1, <2>1, FS_AddElement
  <2> QED  BY <2>1, <2>2 DEF Revoked
<1>4. ASSUME NEW old, NEW new, Stamps(old, new)
      PROVE  /\ Cardinality(grants') = Cardinality(grants)
             /\ Cardinality(Revoked(grants')) = Cardinality(Revoked(grants)) + 1
  <2>1. /\ new \notin grants /\ new.revoked_at # 0 /\ old \in grants /\ old.revoked_at = 0
        /\ grants' = (grants \ {old}) \cup {new}
    BY <1>4, StampsKeepsTable DEF Stamps
  <2>2. /\ IsFiniteSet(grants \ {old})
        /\ Cardinality(grants \ {old}) = Cardinality(grants) - 1
    BY <1>1, <2>1, FS_RemoveElement
  <2>3. Cardinality(grants') = Cardinality(grants) - 1 + 1
    BY <2>1, <2>2, FS_AddElement
  <2>4. Revoked(grants') = Revoked(grants) \cup {new} /\ new \notin Revoked(grants)
    BY <2>1 DEF Revoked
  <2>5. Cardinality(Revoked(grants')) = Cardinality(Revoked(grants)) + 1
    BY <1>1, <2>4, FS_AddElement
  <2> QED  BY <1>1, <2>3, <2>5
<1> QED  BY <1>1, <1>2, <1>3, <1>4, WriteDoes

\* What GET /health counts: every row, and the revoked ones.
LEMMA CountsAre ==
    \A table : /\ Counts(table).grants = Cardinality(table)
              /\ Counts(table).revoked = Cardinality(Revoked(table))
<1> SUFFICES ASSUME NEW table
             PROVE  /\ Counts(table).grants = Cardinality(table)
                    /\ Counts(table).revoked = Cardinality(Revoked(table))
  OBVIOUS
<1>1. table \ {row \in table : row.revoked_at = 0} = Revoked(table)
  BY DEF Revoked
<1> QED  BY <1>1 DEF Counts
-----------------------------------------------------------------------------
(* A list among writes.                                                      *)

\* A list is a part of the table, and as finite.
LEMMA ListsAreListable ==
    ASSUME ListingTypes, NEW filter
    PROVE  /\ Listable(ListRows(grants, filter))
           /\ SeqsIn(ListRows(grants, filter)) \subseteq SeqsIn(grants)
           /\ SeqsListed(grants, filter) = SeqsIn(ListRows(grants, filter))
<1>1. ListRows(grants, filter) \subseteq grants
  BY DEF ListRows
<1> QED  BY <1>1, TableTypes, PartsAreListable DEF SeqsIn, SeqsListed

\* What a write can do to a list: nothing that shows, a row more, a row less.
StaysAs(rows, now) ==
    /\ SeqsIn(now) = SeqsIn(rows)
    /\ \A n \in Nat : Passed(now, n) = Passed(rows, n) /\ Ahead(now, n) = Ahead(rows, n)

GrowsBy(rows, now, new) ==
    new \in Row /\ new \notin rows /\ new.seq \notin SeqsIn(grants) /\ now = rows \cup {new}

ShrinksBy(rows, now, old) == old \in rows /\ now = rows \ {old}

\* A write leaves a list, adds one row to it, or takes one from it.
LEMMA ListAfterWrite ==
    ASSUME ListingTypes, Write, NEW filter, NEW rows, NEW now,
           rows = ListRows(grants, filter), now = ListRows(grants', filter)
    PROVE  \/ StaysAs(rows, now)
           \/ \E new : GrowsBy(rows, now, new)
           \/ \E old : ShrinksBy(rows, now, old)
<1>1. Listable(rows)
  BY ListsAreListable
<1>2. CASE now = rows
  BY <1>2 DEF StaysAs
<1>3. ASSUME NEW new, Adds(new), now # rows
      PROVE  GrowsBy(rows, now, new)
  <2>1. new \notin grants /\ grants' = grants \cup {new} /\ new \in Row
        /\ new.seq \notin SeqsIn(grants)
    BY <1>3, AddsKeepsTable DEF Adds
  <2>2. now = rows \cup {new} /\ new \notin rows
    BY <1>3, <2>1 DEF ListRows
  <2> QED  BY <2>1, <2>2 DEF GrowsBy
<1>4. ASSUME NEW old, NEW new, Stamps(old, new), now # rows
      PROVE  StaysAs(rows, now) \/ ShrinksBy(rows, now, old)
  <2>1. /\ new \notin grants /\ new \in Row /\ old \in grants
        /\ new.seq = old.seq /\ new.tuple = old.tuple
        /\ old.revoked_at = 0 /\ new.revoked_at # 0
        /\ grants' = (grants \ {old}) \cup {new}
    BY <1>4, StampsKeepsTable DEF Stamps
  <2>2. Matches(new, filter) => Matches(old, filter)
    BY <2>1 DEF Matches
  <2>3. old \in rows
    BY <1>4, <2>1, <2>2 DEF ListRows
  <2>4. CASE Matches(new, filter)
    <3>1. now = (rows \ {old}) \cup {new}
      BY <2>1, <2>4 DEF ListRows
    <3>2. ASSUME NEW n \in Nat
          PROVE  /\ SeqsIn(now) = SeqsIn(rows)
                 /\ Passed(now, n) = Passed(rows, n) /\ Ahead(now, n) = Ahead(rows, n)
      <4>1. /\ new \in Row /\ new.seq = old.seq /\ new.tuple = old.tuple
            /\ old \in rows /\ Listable(rows)
        BY <1>1, <2>1, <2>3
      <4>2. /\ SeqsIn((rows \ {old}) \cup {new}) = SeqsIn(rows)
            /\ Passed((rows \ {old}) \cup {new}, n) = Passed(rows, n)
            /\ Ahead((rows \ {old}) \cup {new}, n) = Ahead(rows, n)
        BY <4>1, PassedAfterStamp
      <4> QED  BY <3>1, <4>2
    <3>3. 0 \in Nat
      OBVIOUS
    <3> QED  BY <3>2, <3>3 DEF StaysAs
  <2>5. CASE ~Matches(new, filter)
    <3>1. now = rows \ {old}
      BY <2>1, <2>5 DEF ListRows
    <3> QED  BY <2>3, <3>1 DEF ShrinksBy
  <2> QED  BY <2>4, <2>5
<1>5. CASE UNCHANGED grants
  BY <1>2, <1>5
<1> QED  BY <1>2, <1>3, <1>4, <1>5, WriteDoes

\* One element more, in sizes.
LEMMA OneMore ==
    ASSUME NEW S, IsFiniteSet(S), NEW s, NEW T, T \subseteq S \cup {s}
    PROVE  /\ IsFiniteSet(T) /\ Cardinality(T) \in Nat /\ Cardinality(S) \in Nat
           /\ Cardinality(T) <= Cardinality(S) + 1
<1>1. /\ IsFiniteSet(S \cup {s}) /\ Cardinality(S) \in Nat
      /\ Cardinality(S \cup {s}) <= Cardinality(S) + 1
  BY FS_AddElement, FS_CardinalityType
<1>2. IsFiniteSet(T) /\ Cardinality(T) <= Cardinality(S \cup {s})
  BY <1>1, FS_Subset
<1> QED  BY <1>1, <1>2, FS_CardinalityType

\* A part is no larger than the whole.
LEMMA NoMore ==
    ASSUME NEW S, IsFiniteSet(S), NEW T, T \subseteq S
    PROVE  /\ IsFiniteSet(T) /\ Cardinality(T) \in Nat /\ Cardinality(S) \in Nat
           /\ Cardinality(T) <= Cardinality(S)
<1>1. IsFiniteSet(T) /\ Cardinality(T) <= Cardinality(S)
  BY FS_Subset
<1> QED  BY <1>1, FS_CardinalityType

\* Rows on either side of an offset can be counted.
LEMMA BoundariesAreFinite ==
    ASSUME NEW rows, Listable(rows), NEW n
    PROVE  IsFiniteSet(Passed(rows, n)) /\ IsFiniteSet(Ahead(rows, n))
<1>1. Passed(rows, n) \subseteq SeqsIn(rows) /\ Ahead(rows, n) \subseteq SeqsIn(rows)
  BY DEF Passed, Ahead, SeqsIn
<1> QED  BY <1>1, SeqsCount, FS_Subset

\* A list that is being read keeps to its bounds: a grant may bring back one row
\* that was seen, and a revoke may hide one that was not.
LEMMA WriteKeepsPages ==
    ASSUME ListingTypes, PageInv, Write, read.stage = "reading"
    PROVE  /\ during'.lasting \subseteq SeqsIn(ListRows(grants', read.filter))
           /\ during' \in [lasting : SUBSET Nat, came : Nat, left : Nat]
           /\ Cardinality(Passed(ListRows(grants', read.filter), read.offset)
                            \cap (during'.lasting \ got))
                <= read.start + during'.left
           /\ shown - Cardinality(got)
                + Cardinality(Ahead(ListRows(grants', read.filter), read.offset) \cap got)
                <= during'.came
<1> DEFINE filter == read.filter
           n == read.offset
           rows == ListRows(grants, filter)
           now == ListRows(grants', filter)
           before == SeqsIn(rows)
           after == SeqsIn(now)
           unseen == Passed(rows, n) \cap (during.lasting \ got)
           again == Ahead(rows, n) \cap got
           unseenNow == Passed(now, n) \cap (during'.lasting \ got)
           againNow == Ahead(now, n) \cap got
<1>1. /\ during.lasting \subseteq before
      /\ Cardinality(unseen) <= read.start + during.left
      /\ shown - Cardinality(got) + Cardinality(again) <= during.came
  BY DEF PageInv
<1>2. /\ n \in Nat /\ read.start \in Nat /\ shown \in Nat /\ got \subseteq SeqsIn(grants)
      /\ during.lasting \in SUBSET Nat /\ during.came \in Nat /\ during.left \in Nat
  BY DEF ListingTypes
<1>3. during' = [lasting |-> during.lasting \cap after,
                 came |-> during.came + Cardinality(after \ before),
                 left |-> during.left + Cardinality(before \ after)]
  BY DEF Write, Follow, SeqsListed, SeqsIn
<1>4. /\ Listable(rows) /\ before \subseteq SeqsIn(grants)
      /\ IsFiniteSet(got) /\ Cardinality(got) \in Nat
  <2>1. IsFiniteSet(SeqsIn(grants))
    BY TableTypes, SeqsCount
  <2>2. IsFiniteSet(got)
    BY <1>2, <2>1, FS_Subset
  <2> QED  BY <2>2, ListsAreListable, FS_CardinalityType
<1>5. IsFiniteSet(unseen) /\ IsFiniteSet(again)
  BY <1>4, BoundariesAreFinite, FS_Intersection
<1>6. /\ during'.lasting = during.lasting \cap after
      /\ during'.came = during.came + Cardinality(after \ before)
      /\ during'.left = during.left + Cardinality(before \ after)
  BY <1>3
<1>7. SUFFICES /\ Cardinality(after \ before) \in Nat /\ Cardinality(before \ after) \in Nat
               /\ Cardinality(unseenNow)
                    <= Cardinality(unseen) + Cardinality(before \ after)
               /\ Cardinality(againNow)
                    <= Cardinality(again) + Cardinality(after \ before)
               /\ Cardinality(unseenNow) \in Nat /\ Cardinality(againNow) \in Nat
  <2>0. Cardinality(unseen) \in Nat /\ Cardinality(again) \in Nat
    BY <1>5, FS_CardinalityType
  <2> HIDE DEF unseen, again, unseenNow, againNow, before, after
  <2>1. during' \in [lasting : SUBSET Nat, came : Nat, left : Nat]
    BY <1>2, <1>3, <1>7
  <2>2. Cardinality(unseenNow) <= read.start + during'.left
    BY <1>1, <1>2, <1>6, <1>7, <2>0
  <2>3. shown - Cardinality(got) + Cardinality(againNow) <= during'.came
    BY <1>1, <1>2, <1>4, <1>6, <1>7, <2>0
  <2>4. during'.lasting \subseteq after
    BY <1>6
  <2> QED  BY <2>1, <2>2, <2>3, <2>4 DEF unseenNow, againNow, after
<1>8. CASE StaysAs(rows, now)
  <2>1. /\ after \ before = {} /\ before \ after = {}
        /\ unseenNow \subseteq unseen /\ againNow \subseteq again
    BY <1>2, <1>6, <1>8 DEF StaysAs
  <2>2. Cardinality({}) = 0
    BY FS_EmptySet
  <2> HIDE DEF unseen, again, unseenNow, againNow, before, after
  <2> QED  BY <1>5, <2>1, <2>2, NoMore
<1>9. ASSUME NEW new, GrowsBy(rows, now, new)
      PROVE  /\ Cardinality(after \ before) = 1 /\ Cardinality(before \ after) = 0
             /\ unseenNow \subseteq unseen
             /\ \E s : againNow \subseteq again \cup {s}
  <2>1. /\ new \in Row /\ new \notin rows /\ now = rows \cup {new}
        /\ new.seq \notin SeqsIn(grants)
    BY <1>9 DEF GrowsBy
  <2>2. after \ before = {new.seq} /\ before \ after = {}
    BY <1>4, <2>1 DEF SeqsIn
  <2>3. /\ Passed(now, n) \subseteq Passed(rows, n) \cup {new.seq}
        /\ \E s : Ahead(now, n) \subseteq Ahead(rows, n) \cup {new.seq, s}
    BY <1>2, <1>4, <2>1, PassedAfterInsert
  <2>4. new.seq \notin during.lasting /\ new.seq \notin got
    BY <1>1, <1>2, <1>4, <2>1
  <2>5. unseenNow \subseteq unseen /\ \E s : againNow \subseteq again \cup {s}
    BY <1>6, <2>3, <2>4
  <2> QED  BY <2>2, <2>5, FS_EmptySet, FS_Singleton
<1>10. ASSUME NEW old, ShrinksBy(rows, now, old)
       PROVE  /\ Cardinality(after \ before) = 0 /\ Cardinality(before \ after) = 1
              /\ againNow \subseteq again
              /\ \E s : unseenNow \subseteq unseen \cup {s}
  <2>1. old \in rows /\ now = rows \ {old}
    BY <1>10 DEF ShrinksBy
  <2>2. after \ before = {} /\ before \ after = {old.seq}
    BY <1>4, <2>1 DEF SeqsIn, Listable
  <2>3. /\ Ahead(now, n) \subseteq Ahead(rows, n)
        /\ \E s : Passed(now, n) \subseteq Passed(rows, n) \cup {s}
    BY <1>2, <1>4, <2>1, PassedAfterRemove
  <2>4. againNow \subseteq again /\ \E s : unseenNow \subseteq unseen \cup {s}
    BY <1>6, <2>3
  <2> QED  BY <2>2, <2>4, FS_EmptySet, FS_Singleton
<1> HIDE DEF unseen, again, unseenNow, againNow, before, after, rows, now
<1>11. CASE \E new : GrowsBy(rows, now, new)
  <2>1. PICK new : GrowsBy(rows, now, new)
    BY <1>11
  <2>2. PICK s : againNow \subseteq again \cup {s}
    BY <1>9, <2>1
  <2>3. Cardinality(againNow) \in Nat /\ Cardinality(againNow) <= Cardinality(again) + 1
    BY <1>5, <2>2, OneMore
  <2>4. /\ Cardinality(unseenNow) \in Nat /\ Cardinality(unseen) \in Nat
        /\ Cardinality(unseenNow) <= Cardinality(unseen)
    BY <1>5, <1>9, <2>1, NoMore
  <2>5. Cardinality(after \ before) = 1 /\ Cardinality(before \ after) = 0
    BY <1>9, <2>1
  <2> QED  BY <2>3, <2>4, <2>5
<1>12. CASE \E old : ShrinksBy(rows, now, old)
  <2>1. PICK old : ShrinksBy(rows, now, old)
    BY <1>12
  <2>2. PICK s : unseenNow \subseteq unseen \cup {s}
    BY <1>10, <2>1
  <2>3. Cardinality(unseenNow) \in Nat /\ Cardinality(unseenNow) <= Cardinality(unseen) + 1
    BY <1>5, <2>2, OneMore
  <2>4. /\ Cardinality(againNow) \in Nat /\ Cardinality(again) \in Nat
        /\ Cardinality(againNow) <= Cardinality(again)
    BY <1>5, <1>10, <2>1, NoMore
  <2>5. Cardinality(after \ before) = 0 /\ Cardinality(before \ after) = 1
    BY <1>10, <2>1
  <2> QED  BY <2>3, <2>4, <2>5
<1> QED  BY <1>8, <1>11, <1>12, ListAfterWrite DEF rows, now
-----------------------------------------------------------------------------
(* The reader.                                                               *)

\* What the types say of a list being read.
LEMMA ReadFacts ==
    ASSUME ListingTypes
    PROVE  /\ read.limit \in Nat /\ read.start \in Nat /\ read.offset \in Nat
           /\ shown \in Nat /\ got \subseteq SeqsIn(grants)
           /\ during.came \in Nat /\ during.left \in Nat
           /\ IsFiniteSet(got) /\ Cardinality(got) \in Nat
           /\ SeqsIn(grants) \subseteq Nat
<1>1. IsFiniteSet(SeqsIn(grants)) /\ SeqsIn(grants) \subseteq Nat
  BY TableTypes, SeqsCount DEF SeqsIn, Row
<1>2. IsFiniteSet(got) /\ Cardinality(got) \in Nat
  BY <1>1, FS_Subset, FS_CardinalityType DEF ListingTypes
<1> QED  BY <1>1, <1>2 DEF ListingTypes

\* A list just begun has missed no more than its offset, and repeated nothing.
LEMMA BeginKeeps ==
    ASSUME ListingTypes, PageInv, Begin
    PROVE  ListingTypes' /\ PageInv'
<1>1. PICK f \in Filters, n \in Limits, start \in Starts :
        /\ read' = [stage |-> "reading", filter |-> f, limit |-> n,
                    start |-> start, offset |-> start]
        /\ during' = [lasting |-> SeqsListed(grants, f), came |-> 0, left |-> 0]
  BY DEF Begin
<1>2. /\ read.stage = "none" /\ UNCHANGED <<grants, ask, got, shown>>
      /\ n \in Nat /\ start \in Nat
  BY ListingAssumption DEF Begin
<1> DEFINE rows == ListRows(grants, f)
<1>3. /\ Listable(rows) /\ SeqsListed(grants, f) = SeqsIn(rows)
      /\ SeqsIn(rows) \subseteq SeqsIn(grants) /\ SeqsIn(grants) \subseteq Nat
  BY ListsAreListable, ReadFacts
<1>4. ListingTypes'
  BY <1>1, <1>2, <1>3 DEF ListingTypes
<1>5. got = {} /\ shown = 0
  BY <1>2 DEF PageInv
<1>6. Cardinality(Passed(rows, start) \cap (SeqsIn(rows) \ {})) <= start
  <2>1. /\ IsFiniteSet(Passed(rows, start)) /\ Cardinality(Passed(rows, start)) <= start
    BY <1>2, <1>3, PassedBound
  <2>2. Passed(rows, start) \cap (SeqsIn(rows) \ {}) \subseteq Passed(rows, start)
    OBVIOUS
  <2> HIDE DEF rows
  <2> QED  BY <1>2, <2>1, <2>2, NoMore
<1>7. shown - Cardinality(got) + Cardinality(Ahead(rows, start) \cap got) <= 0
  <2>1. Ahead(rows, start) \cap {} = {} /\ Cardinality({}) = 0
    BY FS_EmptySet
  <2> HIDE DEF rows
  <2> QED  BY <1>5, <2>1
<1>8. /\ read'.stage = "reading" /\ read'.filter = f /\ read'.start = start
      /\ read'.offset = start /\ read'.limit = n
      /\ during'.lasting = SeqsIn(rows) /\ during'.came = 0 /\ during'.left = 0
  BY <1>1, <1>3
<1>9. PageInv'
  <2>1. /\ Cardinality(Passed(rows, start) \cap (SeqsIn(rows) \ got')) <= start + 0
        /\ shown' - Cardinality(got') + Cardinality(Ahead(rows, start) \cap got') <= 0
        /\ got' = {} /\ shown' = 0
    BY <1>2, <1>5, <1>6, <1>7
  <2> QED  BY <1>2, <1>8, <2>1 DEF PageInv
<1> QED  BY <1>4, <1>9

\* What a page adds to what was seen, and what it shows again.
LEMMA PageAdds ==
    ASSUME NEW seen, IsFiniteSet(seen), NEW rows, Listable(rows)
    PROVE  /\ IsFiniteSet(seen \cup SeqsIn(rows))
           /\ Cardinality(rows) \in Nat /\ Cardinality(seen) \in Nat
           /\ Cardinality(seen \cap SeqsIn(rows)) \in Nat
           /\ Cardinality(seen \cup SeqsIn(rows)) \in Nat
           /\ Cardinality(seen \cup SeqsIn(rows)) =
                Cardinality(seen) + Cardinality(rows) - Cardinality(seen \cap SeqsIn(rows))
<1>1. IsFiniteSet(SeqsIn(rows)) /\ Cardinality(SeqsIn(rows)) = Cardinality(rows)
  BY SeqsCount
<1>2. /\ IsFiniteSet(seen \cup SeqsIn(rows)) /\ IsFiniteSet(seen \cap SeqsIn(rows))
      /\ Cardinality(seen \cup SeqsIn(rows)) =
           Cardinality(seen) + Cardinality(SeqsIn(rows)) - Cardinality(seen \cap SeqsIn(rows))
  BY <1>1, FS_Union, FS_Intersection
<1> QED  BY <1>1, <1>2, FS_CardinalityType

\* Parts that do not meet are no more than what they are parts of.
LEMMA ApartAddUp ==
    ASSUME NEW S, IsFiniteSet(S), NEW T, NEW U, T \subseteq S, U \subseteq S, T \cap U = {}
    PROVE  /\ Cardinality(S) \in Nat /\ Cardinality(T) \in Nat /\ Cardinality(U) \in Nat
           /\ Cardinality(T) + Cardinality(U) <= Cardinality(S)
<1>1. IsFiniteSet(T) /\ IsFiniteSet(U) /\ T \cup U \subseteq S
  BY FS_Subset
<1>2. Cardinality(T \cup U) = Cardinality(T) + Cardinality(U) - Cardinality(T \cap U)
  BY <1>1, FS_Union
<1>3. Cardinality(T \cap U) = 0
  BY FS_EmptySet
<1>4. Cardinality(T \cup U) <= Cardinality(S)
  BY <1>1, FS_Subset
<1>5. Cardinality(S) \in Nat /\ Cardinality(T) \in Nat /\ Cardinality(U) \in Nat
  BY <1>1, FS_CardinalityType
<1> QED  BY <1>2, <1>3, <1>4, <1>5

\* A page of a list with a limit holds the rows at its places, and all of them
\* unless the list ends before.
LEMMA PageHolds ==
    ASSUME NEW rows, Listable(rows), NEW limit \in Nat \ {0}, NEW offset \in Nat,
           NEW page, page = Page(ByteOrder, rows, limit, offset)
    PROVE  /\ \A row \in rows :
                (row \in page) <=>
                  (Place(rows, row) >= offset /\ Place(rows, row) < offset + limit)
           /\ page \subseteq rows /\ Listable(page)
           /\ (\E row \in rows : Place(rows, row) >= offset + limit)
                => Cardinality(page) = limit
<1> DEFINE places == offset .. (offset + limit - 1)
           place == [row \in page |-> Place(rows, row)]
<1>1. page = {row \in rows : Position(ByteOrder, rows, row) \in places}
  BY DEF Page
<1>2. page = {row \in rows : Place(rows, row) >= offset /\ Place(rows, row) < offset + limit}
  <2>1. ASSUME NEW row \in rows
        PROVE  Position(ByteOrder, rows, row) \in places
                 <=> Place(rows, row) >= offset /\ Place(rows, row) < offset + limit
    BY PlaceIs DEF Place
  <2> QED  BY <1>1, <2>1
<1>3. Listable(page)
  BY <1>2, PartsAreListable
<1>4. place \in Injection(page, places)
  <2>1. place \in [page -> places]
    BY <1>2, PlaceIs
  <2> QED  BY <1>2, <2>1, PlacesDiffer DEF Injection, IsInjective
<1>5. IsFiniteSet(places) /\ Cardinality(places) = limit
  BY FS_Interval
<1>6. ASSUME NEW row \in rows, Place(rows, row) >= offset + limit
      PROVE  Cardinality(page) = limit
  <2>1. ASSUME NEW n \in places  PROVE \E other \in page : place[other] = n
    <3>1. n \in 0 .. Cardinality(rows) - 1
      BY <1>6, PlacesFill
    <3>2. PICK other \in rows : Place(rows, other) = n
      BY <3>1, PlacesFill
    <3>3. other \in page
      BY <1>2, <3>2
    <3> QED  BY <3>2, <3>3
  <2>2. place \in Surjection(page, places)
    BY <1>4, <2>1 DEF Surjection, Injection
  <2> QED  BY <1>4, <1>5, <2>2, FS_Injection
<1> QED  BY <1>2, <1>3, <1>6

\* A page shows again only what was counted ahead, and leaves unseen only what
\* was counted passed.
LEMMA ReadPageKeeps ==
    ASSUME ListingTypes, PageInv, ReadPage
    PROVE  ListingTypes' /\ PageInv'
<1> DEFINE rows == ListRows(grants, read.filter)
           page == Page(ByteOrder, rows, read.limit, read.offset)
           lasting == during.lasting
           unseen == Passed(rows, read.offset) \cap (lasting \ got)
           again == Ahead(rows, read.offset) \cap got
           next == read.offset + read.limit
           short == ~(read.limit > 0 /\ Cardinality(page) = read.limit)
<1>1. /\ got' = got \cup SeqsIn(page) /\ shown' = shown + Cardinality(page)
      /\ read' = [read EXCEPT !.offset = next, !.stage = IF short THEN "ended" ELSE "reading"]
      /\ read.stage = "reading" /\ UNCHANGED <<grants, ask, during>>
  BY DEF ReadPage, SeqsIn
<1>2. /\ read'.filter = read.filter /\ read'.limit = read.limit
      /\ read'.start = read.start /\ read'.offset = next
      /\ read'.stage = IF short THEN "ended" ELSE "reading"
  <2> HIDE DEF next, short
  <2> QED  BY <1>1 DEF ListingTypes
<1>3. /\ read.limit \in Nat /\ read.start \in Nat /\ read.offset \in Nat
      /\ shown \in Nat /\ got \subseteq SeqsIn(grants) /\ next \in Nat
      /\ during.came \in Nat /\ during.left \in Nat
      /\ IsFiniteSet(got) /\ Cardinality(got) \in Nat
  BY ReadFacts
<1>4. /\ Listable(rows) /\ SeqsIn(rows) \subseteq SeqsIn(grants)
      /\ page \subseteq rows /\ Listable(page) /\ SeqsIn(page) \subseteq SeqsIn(rows)
  <2>1. Listable(rows) /\ SeqsIn(rows) \subseteq SeqsIn(grants)
    BY ListsAreListable
  <2>2. page \subseteq rows
    BY DEF Page
  <2>3. SeqsIn(page) \subseteq SeqsIn(rows)
    BY <2>2 DEF SeqsIn
  <2> HIDE DEF rows, page
  <2> QED  BY <2>1, <2>2, <2>3, PartsAreListable
<1>5. /\ lasting \subseteq SeqsIn(rows)
      /\ Cardinality(unseen) <= read.start + during.left
      /\ shown - Cardinality(got) + Cardinality(again) <= during.came
      /\ read.limit = 0 => got = {} /\ shown = 0
  BY <1>1 DEF PageInv
<1>6. /\ IsFiniteSet(unseen) /\ IsFiniteSet(again) /\ Cardinality(page) \in Nat
      /\ Cardinality(unseen) \in Nat /\ Cardinality(again) \in Nat
  <2>1. IsFiniteSet(unseen) /\ IsFiniteSet(again) /\ IsFiniteSet(page)
    BY <1>4, BoundariesAreFinite, FS_Intersection DEF Listable
  <2> QED  BY <2>1, FS_CardinalityType
<1>7. ListingTypes'
  <2> HIDE DEF page, rows, next, short
  <2>1. got' \subseteq SeqsIn(grants') /\ shown' \in Nat
    BY <1>1, <1>3, <1>4, <1>6
  <2>2. read' \in [stage : {"none", "reading", "ended"}, filter : Filters \cup {NoFilter},
                    limit : Nat, start : Nat, offset : Nat]
    BY <1>1, <1>3 DEF ListingTypes
  <2>3. UNCHANGED <<grants, ask, during>>
    BY <1>1
  <2>4. WellFormed(grants)' /\ ask' \in [Requests -> Asks]
        /\ during' \in [lasting : SUBSET Nat, came : Nat, left : Nat]
    BY <2>3 DEF ListingTypes, WellFormed
  <2> QED  BY <2>1, <2>2, <2>4 DEF ListingTypes
<1>8. CASE read.limit = 0
  <2>1. page = rows /\ short /\ got = {} /\ shown = 0
    BY <1>5, <1>8 DEF Page
  <2>2. lasting \ got' = {}
    BY <1>1, <1>5, <2>1
  <2>3. shown' - Cardinality(got') = 0
    <3>1. Cardinality(SeqsIn(page)) = Cardinality(page)
      BY <1>4, SeqsCount
    <3> HIDE DEF page, rows
    <3> QED  BY <1>1, <1>6, <2>1, <3>1
  <2>4. read'.stage = "ended"
    BY <1>2, <2>1
  <2>5. MissesAreRevokes'
    <3>1. Cardinality(during'.lasting \ got') = 0 /\ during'.left = during.left
      BY <1>1, <2>2, FS_EmptySet
    <3> QED  BY <1>2, <1>3, <3>1 DEF MissesAreRevokes
  <2>6. RepeatsAreGrants'
    BY <1>1, <1>3, <2>3 DEF RepeatsAreGrants
  <2> QED  BY <1>7, <2>4, <2>5, <2>6 DEF PageInv
<1>9. CASE read.limit # 0
  <2>1. /\ read.limit \in Nat \ {0}
        /\ \A row \in rows :
             (row \in page) <=>
               (Place(rows, row) >= read.offset /\ Place(rows, row) < next)
        /\ (\E row \in rows : Place(rows, row) >= next) => Cardinality(page) = read.limit
    <3>1. read.limit \in Nat \ {0}
      BY <1>3, <1>9
    <3>2. page = Page(ByteOrder, rows, read.limit, read.offset)
      OBVIOUS
    <3> HIDE DEF rows, page
    <3>3. Listable(rows) /\ read.offset \in Nat
      BY <1>3, <1>4
    <3>4. \A row \in rows :
            (row \in page) <=> (/\ Place(rows, row) >= read.offset
                               /\ Place(rows, row) < read.offset + read.limit)
      BY <3>1, <3>2, <3>3, PageHolds
    <3>5. ASSUME NEW row \in rows, Place(rows, row) >= read.offset + read.limit
          PROVE  Cardinality(page) = read.limit
      BY <3>1, <3>2, <3>3, <3>5, PageHolds
    <3> QED  BY <3>1, <3>4, <3>5
  <2>2. ASSUME NEW row \in rows, row.seq \notin got'
        PROVE  Place(rows, row) < read.offset \/ Place(rows, row) >= next
    <3>1. row \notin page
      BY <1>1, <2>2 DEF SeqsIn
    <3> QED  BY <1>3, <2>1, <3>1, <1>4, PlaceIs
  <2> DEFINE unseenNow == Passed(rows, next) \cap (lasting \ got')
             againNow == Ahead(rows, next) \cap got'
  <2>3. unseenNow \subseteq unseen
    <3>1. ASSUME NEW s \in unseenNow  PROVE s \in Passed(rows, read.offset)
      <4>1. PICK row \in rows : row.seq = s /\ Place(rows, row) < next
        BY <3>1 DEF Passed, SeqsIn
      <4>2. Place(rows, row) < read.offset
        BY <1>3, <1>4, <2>2, <3>1, <4>1, PlaceIs
      <4> QED  BY <4>1, <4>2 DEF Passed, SeqsIn
    <3> QED  BY <1>1, <3>1
  <2>4. /\ got \cap SeqsIn(page) \subseteq again
        /\ againNow \subseteq again /\ againNow \cap (got \cap SeqsIn(page)) = {}
    <3>1. ASSUME NEW s \in SeqsIn(page)
          PROVE  s \in Ahead(rows, read.offset) /\ s \notin Ahead(rows, next)
      <4>1. PICK row \in rows : /\ row.seq = s /\ Place(rows, row) >= read.offset
                                /\ Place(rows, row) < next
        <5> HIDE DEF rows, page, next
        <5> QED  BY <1>4, <2>1, <3>1 DEF SeqsIn
      <4>2. \A other \in rows : other.seq = s => other = row
        BY <1>4, <4>1 DEF Listable
      <4> HIDE DEF rows, page, next
      <4>3. Place(rows, row) \in Nat
        BY <1>4, PlaceIs
      <4>4. ~(Place(rows, row) >= next)
        BY <1>3, <4>1, <4>3
      <4> QED  BY <4>1, <4>2, <4>4 DEF Ahead, SeqsIn
    <3>2. Ahead(rows, next) \subseteq Ahead(rows, read.offset)
      <4>1. \A row \in rows : Place(rows, row) >= next => Place(rows, row) >= read.offset
        BY <1>3, <1>4, PlaceIs
      <4> QED  BY <4>1 DEF Ahead, SeqsIn
    <3> QED  BY <1>1, <3>1, <3>2
  <2>5. /\ Cardinality(got') = Cardinality(got) + Cardinality(page)
                                - Cardinality(got \cap SeqsIn(page))
        /\ Cardinality(got') \in Nat
    BY <1>1, <1>3, <1>4, PageAdds
  <2> HIDE DEF unseen, again, unseenNow, againNow, page, rows, next
  <2>6. /\ Cardinality(unseenNow) \in Nat /\ Cardinality(unseenNow) <= Cardinality(unseen)
    BY <1>6, <2>3, NoMore
  <2>7. /\ Cardinality(againNow) \in Nat /\ Cardinality(got \cap SeqsIn(page)) \in Nat
        /\ Cardinality(got \cap SeqsIn(page)) + Cardinality(againNow) <= Cardinality(again)
    BY <1>6, <2>4, ApartAddUp
  <2>8. shown' - Cardinality(got') + Cardinality(againNow) <= during.came
    BY <1>1, <1>3, <1>5, <1>6, <2>5, <2>7
  <2>9. RepeatsAreGrants'
    BY <1>1, <1>3, <1>6, <2>5, <2>7, <2>8 DEF RepeatsAreGrants
  <2>10. Cardinality(unseenNow) <= read.start + during.left
    BY <1>3, <1>5, <1>6, <2>6
  <2>11. CASE short
    <3>1. ASSUME NEW row \in rows  PROVE ~(Place(rows, row) >= next)
      BY <2>1, <2>11
    <3>2. lasting \ got' \subseteq unseen
      <4>1. ASSUME NEW s \in lasting \ got'  PROVE s \in unseen
        <5>1. PICK row \in rows : row.seq = s
          BY <1>5, <4>1 DEF SeqsIn
        <5>2. Place(rows, row) < read.offset
          BY <2>2, <3>1, <4>1, <5>1
        <5>3. s \in Passed(rows, read.offset)
          BY <5>1, <5>2 DEF Passed, SeqsIn
        <5> QED  BY <1>1, <4>1, <5>3 DEF unseen
      <4> QED  BY <4>1
    <3>3. Cardinality(lasting \ got') <= read.start + during.left
      BY <1>3, <1>5, <1>6, <3>2, NoMore
    <3>4. MissesAreRevokes'
      BY <1>1, <1>2, <3>3 DEF MissesAreRevokes
    <3>5. read'.stage = "ended"
      BY <1>2, <2>11
    <3> QED  BY <1>7, <2>9, <3>4, <3>5 DEF PageInv
  <2>12. CASE ~short
    <3>1. read'.stage = "reading"
      BY <1>2, <2>12
    <3>2. ListRows(grants', read'.filter) = rows
      BY <1>1, <1>2 DEF rows
    <3>3. during'.lasting \subseteq SeqsIn(ListRows(grants', read'.filter))
      BY <1>1, <1>5, <3>2
    <3>4. Cardinality(Passed(ListRows(grants', read'.filter), read'.offset)
                       \cap (during'.lasting \ got'))
           <= read'.start + during'.left
      BY <1>1, <1>2, <2>10, <3>2 DEF unseenNow
    <3>5. shown' - Cardinality(got')
            + Cardinality(Ahead(ListRows(grants', read'.filter), read'.offset) \cap got')
           <= during'.came
      BY <1>1, <1>2, <2>8, <3>2 DEF againNow
    <3> QED  BY <1>2, <1>7, <1>9, <3>1, <3>3, <3>4, <3>5 DEF PageInv
  <2> QED  BY <2>11, <2>12
<1> QED  BY <1>8, <1>9
-----------------------------------------------------------------------------
(* The steps together.                                                       *)

\* A write keeps the types and the bounds of the list.
LEMMA WriteKeeps ==
    ASSUME ListingTypes, PageInv, Write
    PROVE  ListingTypes' /\ PageInv'
<1>1. UNCHANGED <<read, got, shown, health>>
  BY DEF Write, readVars
<1>2. ask' \in [Requests -> Asks] /\ WellFormed(grants)' /\ SeqsIn(grants) \subseteq SeqsIn(grants')
  BY WriteDoes, AddsKeepsTable, StampsKeepsTable DEF ListingTypes, WellFormed
<1>3. CASE read.stage = "reading"
  <2>1. ListingTypes'
    BY <1>1, <1>2, <1>3, WriteKeepsPages DEF ListingTypes
  <2>2. read.limit = 0 => got = {} /\ shown = 0
    BY <1>3 DEF PageInv
  <2> QED  BY <1>1, <1>3, <2>1, <2>2, WriteKeepsPages DEF PageInv
<1>4. CASE read.stage # "reading"
  <2>1. UNCHANGED during
    BY <1>4 DEF Write, Follow
  <2>2. ListingTypes'
    BY <1>1, <1>2, <2>1 DEF ListingTypes
  <2> QED  BY <1>1, <1>4, <2>1, <2>2 DEF PageInv, MissesAreRevokes, RepeatsAreGrants
<1> QED  BY <1>3, <1>4

\* What GET /health answers is what the table holds.
LEMMA ReadHealthKeeps ==
    ASSUME ListingTypes, ReadHealth
    PROVE  CountInv'
<1>1. health' = Counts(grants) /\ UNCHANGED grants
  BY DEF ReadHealth
<1>2. Cardinality(grants) \in Nat /\ Cardinality(Revoked(grants)) \in Nat
  <2>1. IsFiniteSet(Revoked(grants))
    BY TableTypes, NoMore DEF Revoked
  <2> QED  BY <2>1, TableTypes, FS_CardinalityType
<1> QED  BY <1>1, <1>2, CountsAre DEF CountInv

\* The invariant holds to begin with.
LEMMA ListingInit == Init => ListingInv
<1> SUFFICES ASSUME Init  PROVE ListingInv
  OBVIOUS
<1>1. /\ grants \in InitialTables /\ ask = [r \in Requests |-> Register!NoAsk]
      /\ read = NotBegun /\ got = {} /\ shown = 0 /\ health = Counts({})
      /\ during = [lasting |-> {}, came |-> 0, left |-> 0]
  BY DEF Init, Register!Init
<1>2. ListingTypes
  <2>1. Register!NoAsk \in Asks
    BY DEF Register!NoAsk, Asks
  <2>2. WellFormed(grants)
    BY <1>1, ListingAssumption
  <2> QED  BY <1>1, <2>1, <2>2 DEF ListingTypes, NotBegun
<1>3. CountInv
  <2>1. Revoked({}) = {} /\ Cardinality({}) = 0
    BY FS_EmptySet DEF Revoked
  <2>2. health.grants = 0 /\ health.revoked = 0
    BY <1>1, <2>1, CountsAre
  <2>3. Cardinality(grants) \in Nat /\ Cardinality(Revoked(grants)) \in Nat
    <3>1. IsFiniteSet(Revoked(grants))
      BY <1>2, TableTypes, NoMore DEF Revoked
    <3> QED  BY <1>2, <3>1, TableTypes, FS_CardinalityType
  <2> QED  BY <2>2, <2>3 DEF CountInv
<1>4. PageInv
  BY <1>1 DEF PageInv, NotBegun
<1> QED  BY <1>2, <1>3, <1>4 DEF ListingInv

\* Every step keeps it.
LEMMA ListingStep == ListingInv /\ [Next]_vars => ListingInv'
<1> SUFFICES ASSUME ListingInv, [Next]_vars  PROVE ListingInv'
  OBVIOUS
<1> USE DEF ListingInv
<1>1. CASE Begin
  <2>1. UNCHANGED <<grants, health>>
    BY <1>1 DEF Begin
  <2> QED  BY <1>1, <2>1, BeginKeeps DEF CountInv
<1>2. CASE ReadPage
  <2>1. UNCHANGED <<grants, health>>
    BY <1>2 DEF ReadPage
  <2> QED  BY <1>2, <2>1, ReadPageKeeps DEF CountInv
<1>3. CASE ReadHealth
  <2>1. UNCHANGED <<grants, ask, read, got, shown, during>>
    BY <1>3 DEF ReadHealth, readVars
  <2> QED  BY <1>3, <2>1, ReadHealthKeeps
           DEF ListingTypes, WellFormed, PageInv, MissesAreRevokes, RepeatsAreGrants
<1>4. CASE Write
  <2>1. UNCHANGED health
    BY <1>4 DEF Write
  <2>2. Cardinality(grants) \in Nat /\ Cardinality(Revoked(grants)) \in Nat
    <3>1. IsFiniteSet(Revoked(grants))
      BY TableTypes, NoMore DEF Revoked
    <3> QED  BY <3>1, TableTypes, FS_CardinalityType
  <2>3. CountInv'
    BY <1>4, <2>1, <2>2, CountsGrow DEF CountInv
  <2> QED  BY <1>4, <2>3, WriteKeeps
<1>5. CASE UNCHANGED vars
  BY <1>5 DEF vars, readVars, ListingTypes, WellFormed, CountInv, PageInv,
              MissesAreRevokes, RepeatsAreGrants
<1> QED  BY <1>1, <1>2, <1>3, <1>4, <1>5 DEF Next

-----------------------------------------------------------------------------
(* The theorems.                                                             *)

\* Along every behaviour the table is well formed, the counts of health are
\* behind the table's, and a list being read is within its bounds.
THEOREM ListingInvHolds == Spec => []ListingInv
BY ListingInit, ListingStep, PTL DEF Spec

\* A list read page by page misses, of what was there all along, no more rows
\* than were revoked meanwhile, whatever its filter, its pages and the writers.
THEOREM MissesAreBounded == Spec => []MissesAreRevokes
<1>1. ListingInv => MissesAreRevokes
  BY DEF ListingInv, ListingTypes, PageInv, MissesAreRevokes
<1> QED  BY <1>1, ListingInvHolds, PTL

\* It shows rows again no more often than grants were made meanwhile.
THEOREM RepeatsAreBounded == Spec => []RepeatsAreGrants
<1>1. ListingInv => RepeatsAreGrants
  <2> SUFFICES ASSUME ListingInv  PROVE RepeatsAreGrants
    OBVIOUS
  <2> USE DEF ListingInv
  <2>1. CASE read.stage = "none"
    <3>1. shown - Cardinality(got) = 0 /\ during.came \in Nat
      BY <2>1, ReadFacts, FS_EmptySet DEF PageInv
    <3> QED  BY <3>1 DEF RepeatsAreGrants
  <2>2. CASE read.stage = "reading"
    <3> DEFINE again == Ahead(ListRows(grants, read.filter), read.offset) \cap got
    <3>1. shown - Cardinality(got) + Cardinality(again) <= during.came
      BY <2>2 DEF PageInv
    <3>2. Cardinality(again) \in Nat
      BY ReadFacts, FS_Intersection, FS_CardinalityType
    <3> HIDE DEF again
    <3> QED  BY <3>1, <3>2, ReadFacts DEF RepeatsAreGrants
  <2>3. CASE read.stage = "ended"
    BY <2>3 DEF PageInv
  <2> QED  BY <2>1, <2>2, <2>3 DEF ListingTypes
<1> QED  BY <1>1, ListingInvHolds, PTL

\* Effective's key is a row's words by place, with a number between them.
LEMMA EffectiveKeyIs ==
    ASSUME NEW p, NEW row \in Row
    PROVE  \E k \in Int : EffectiveKey(ByteOrder, p, row) =
                           <<Type(row), Id(row), Relation(row), k, Holder(row)>>
<1>1. \E k \in Int : EffectiveKey(ByteOrder, p, row) =
                     <<Type(row), Id(row), Relation(row)>> \o <<k, Holder(row)>>
  BY DEF EffectiveKey, ResourceKey, Type, Id, Relation, Holder
<1>2. \A k \in Int : <<Type(row), Id(row), Relation(row)>> \o <<k, Holder(row)>> =
                     <<Type(row), Id(row), Relation(row), k, Holder(row)>>
  BY KeyTypes, KeyOfFive
<1> QED  BY <1>1, <1>2

\* Two rows of one answer to Effective never compare equal: the table holds one
\* active row of a tuple at most, and words that differ compare unequal.
THEOREM EffectiveOrderHolds == Spec => []EffectiveOrderIsTotal
<1>1. ListingInv => EffectiveOrderIsTotal
  <2> SUFFICES ASSUME ListingInv, NEW p \in Principals,
                      NEW g \in RowsHeldBy(grants, Principals, "", ""),
                      NEW h \in RowsHeldBy(grants, Principals, "", ""),
                      EffectiveKey(ByteOrder, p, g) = EffectiveKey(ByteOrder, p, h)
               PROVE  g = h
    BY DEF EffectiveOrderIsTotal
  <2>1. /\ g \in grants /\ h \in grants /\ g.revoked_at = 0 /\ h.revoked_at = 0
        /\ g \in Row /\ h \in Row
    BY TableTypes DEF RowsHeldBy, ListingInv
  <2>2. PICK j \in Int : EffectiveKey(ByteOrder, p, g) =
                           <<Type(g), Id(g), Relation(g), j, Holder(g)>>
    BY <2>1, EffectiveKeyIs
  <2>3. PICK k \in Int : EffectiveKey(ByteOrder, p, h) =
                           <<Type(h), Id(h), Relation(h), k, Holder(h)>>
    BY <2>1, EffectiveKeyIs
  <2>4. /\ g.tuple \in [Fields -> DOMAIN ByteOrder] /\ h.tuple \in [Fields -> DOMAIN ByteOrder]
    BY <2>1, OrderAssumption DEF Row
  <2>5. /\ g.tuple.resource_type = h.tuple.resource_type
        /\ g.tuple.resource_id = h.tuple.resource_id
        /\ g.tuple.relation = h.tuple.relation
        /\ g.tuple.principal_id = h.tuple.principal_id
    <3>1. /\ Type(g) = Type(h) /\ Id(g) = Id(h) /\ Relation(g) = Relation(h)
          /\ Holder(g) = Holder(h)
      <4>1. <<Type(g), Id(g), Relation(g), j, Holder(g)>> =
              <<Type(h), Id(h), Relation(h), k, Holder(h)>>
        BY <2>2, <2>3
      <4> QED  BY <4>1
    <3> QED  BY <2>4, <3>1, OrderAssumption DEF Fields, Type, Id, Relation, Holder
  <2>6. g.tuple = h.tuple
    <3>1. \A field \in Fields : g.tuple[field] = h.tuple[field]
      BY <2>5 DEF Fields
    <3>2. /\ g.tuple = [field \in Fields |-> g.tuple[field]]
          /\ h.tuple = [field \in Fields |-> h.tuple[field]]
      BY <2>4
    <3> QED  BY <3>1, <3>2
  <2> QED  BY <2>1, <2>6 DEF ListingInv, ListingTypes, WellFormed
<1> QED  BY <1>1, ListingInvHolds, PTL

\* No answer to GET /health counts fewer grants, or fewer revoked ones, than the
\* answer before it.
THEOREM HealthOnlyGrows == Spec => HealthNeverGoesBack
<1>1. ListingInv /\ [Next]_vars =>
        [health'.grants >= health.grants /\ health'.revoked >= health.revoked]_health
  <2> SUFFICES ASSUME ListingInv, [Next]_vars, health' # health
               PROVE  health'.grants >= health.grants /\ health'.revoked >= health.revoked
    OBVIOUS
  <2>1. ReadHealth
    BY DEF Next, Begin, ReadPage, Write, vars
  <2>2. /\ health'.grants = Cardinality(grants)
        /\ health'.revoked = Cardinality(Revoked(grants))
    BY <2>1, CountsAre DEF ReadHealth
  <2>3. Cardinality(grants) \in Nat /\ Cardinality(Revoked(grants)) \in Nat
    <3>1. IsFiniteSet(Revoked(grants))
      BY TableTypes, NoMore DEF Revoked, ListingInv
    <3> QED  BY <3>1, TableTypes, FS_CardinalityType DEF ListingInv
  <2> QED  BY <2>2, <2>3 DEF ListingInv, CountInv
<1> QED  BY <1>1, ListingInvHolds, PTL DEF Spec, HealthNeverGoesBack
-----------------------------------------------------------------------------
(* The same lists beside the statements of GrantStore.                       *)

CONSTANT MaxClock

VARIABLES
    writeLock, pc, nextSeq, stamp, clock, up,       \* as in GrantStore
    told                                            \* its answers

Statements == INSTANCE GrantStoreRefinement WITH NoRequest <- "", answer <- told

statementVars == <<writeLock, pc, nextSeq, stamp, told, clock, up>>

\* A client that lists, and the counts, between any two statements of the
\* requests that write, their failures, crashes and reboots included.
ListsBeside ==
    /\ Init /\ Statements!Init
    /\ [][\/ /\ up /\ (Begin \/ ReadPage \/ ReadHealth)
             /\ UNCHANGED statementVars
          \/ /\ Statements!Next /\ Follow
             /\ UNCHANGED <<answer, readVars, health>>]_<<vars, statementVars>>

\* What the store assumes, and its seconds for the times.
StoreFits ==
    /\ Times = Statements!Times
    /\ Statements!RequestsAssumption /\ Statements!BoundsAssumption
    /\ Statements!TablesAssumption

\* A numbered table has as many rows as its largest number.
LEMMA RowsAreNumbered ==
    ASSUME ListingTypes, Statements!TableInv
    PROVE  Cardinality(grants) = Statements!MaxSeq(grants)
<1>1. /\ Statements!MaxSeq(grants) \in Nat
      /\ SeqsIn(grants) = 1 .. Statements!MaxSeq(grants)
  BY DEF Statements!TableInv, Statements!SeqsNumberTheRows, Statements!SeqsOf, SeqsIn
<1>2. Cardinality(SeqsIn(grants)) = Cardinality(grants)
  BY SeqsCount DEF ListingTypes, WellFormed, Listable
<1>3. Cardinality(1 .. Statements!MaxSeq(grants)) = Statements!MaxSeq(grants)
  BY <1>1, FS_Interval
<1> QED  BY <1>1, <1>2, <1>3

\* The writers of GrantListing are never answered.
Unanswered == answer = [r \in Requests |-> Register!NoAnswer]

\* The register of the statements and the register of the lists have their
\* asks and their rows in common.
LEMMA WaitsAlike ==
    ASSUME Unanswered, NEW r \in Requests, NEW kind,
           Statements!Registry!Waiting(r, kind)
    PROVE  Register!Waiting(r, kind)
BY DEF Unanswered, Statements!Registry!Waiting, Register!Waiting

\* A statement that moves a row, or takes a call, is a step of the writers.
LEMMA StatementWrites ==
    ASSUME StoreFits, ListingInv, Statements!AnsInv, Unanswered, UNCHANGED answer,
           NEW r \in Requests,
           \/ \E t \in Tuples : Statements!StartCreate(r, t)
           \/ \E s \in Seqs : Statements!StartRevoke(r, s)
           \/ Statements!Commit(r) \/ Statements!Update(r)
    PROVE  Register!Ask(r) \/ Insert(r) \/ Register!Revoke(r) \/ UNCHANGED <<grants, ask>>
<1> USE DEF StoreFits
<1>1. CASE \/ \E t \in Tuples : Statements!StartCreate(r, t)
           \/ \E s \in Seqs : Statements!StartRevoke(r, s)
  <2>1. Statements!Registry!Ask(r)
    BY <1>1, Statements!CallAsks
  <2>2. Register!Ask(r)
    BY <2>1
       DEF Statements!Registry!Ask, Register!Ask, Statements!Registry!NoAsk, Register!NoAsk,
           Statements!Registry!CreateAsk, Register!CreateAsk, Statements!Registry!RevokeAsk,
           Register!RevokeAsk, Statements!Registry!Numbers, Register!Numbers
  <2> QED  BY <2>2
<1>2. CASE Statements!Commit(r)
  <2>1. /\ Statements!Registry!Grant(r)
        /\ grants' = grants \cup {Statements!NewRow(r)}
        /\ Statements!NewRow(r).seq = Statements!MaxSeq(grants) + 1
        /\ stamp[r] \in Statements!Times
    BY <1>2, Statements!CommitGrants
  <2>2. Statements!NewRow(r) = [seq |-> Cardinality(grants) + 1, tuple |-> ask[r].tuple,
                                note |-> r, granted_at |-> stamp[r], revoked_at |-> 0]
    <3>1. Statements!TableInv
      BY DEF Statements!AnsInv, Statements!IInv
    <3> QED  BY <2>1, <3>1, RowsAreNumbered DEF ListingInv, Statements!NewRow
  <2>3. Register!Waiting(r, "create")
    BY <2>1, WaitsAlike DEF Statements!Registry!Grant
  <2>4. Register!Grant(r)
    BY <2>1, <2>3
       DEF Statements!Registry!Grant, Register!Grant, Statements!Registry!WrittenBy,
           Register!WrittenBy, Statements!Registry!Active, Register!Active,
           Statements!Registry!Numbers, Register!Numbers
  <2>5. Insert(r)
    BY <2>1, <2>2, <2>3, <2>4 DEF Insert
  <2> QED  BY <2>5
<1>3. CASE Statements!Update(r)
  <2>1. Statements!Registry!Revoke(r) \/ UNCHANGED <<grants, ask>>
    BY <1>3, Statements!UpdateRevokes
  <2>2. ASSUME Statements!Registry!Revoke(r)  PROVE Register!Revoke(r)
    <3>1. Register!Waiting(r, "revoke")
      BY <2>2, WaitsAlike DEF Statements!Registry!Revoke
    <3> QED  BY <2>2, <3>1 DEF Statements!Registry!Revoke, Register!Revoke,
                                Statements!Registry!Active, Register!Active
  <2> QED  BY <2>1, <2>2
<1> QED  BY <1>1, <1>2, <1>3

\* Any other statement moves no row, and a list has nothing to note.
LEMMA NothingToNote ==
    ASSUME ListingInv, UNCHANGED grants, Follow
    PROVE  UNCHANGED during
<1>1. CASE read.stage = "reading"
  <2> DEFINE listed == SeqsListed(grants, read.filter)
  <2>1. during' = [lasting |-> during.lasting \cap listed,
                   came |-> during.came + Cardinality(listed \ listed),
                   left |-> during.left + Cardinality(listed \ listed)]
    BY <1>1 DEF Follow
  <2>2. during.lasting \subseteq listed
    BY <1>1 DEF ListingInv, PageInv, SeqsListed, SeqsIn
  <2>3. during \in [lasting : SUBSET Nat, came : Nat, left : Nat]
    BY DEF ListingInv, ListingTypes
  <2>4. Cardinality(listed \ listed) = 0
    BY FS_EmptySet
  <2> HIDE DEF listed
  <2> QED  BY <2>1, <2>2, <2>3, <2>4
<1> QED  BY <1>1 DEF Follow

\* Every step beside the statements is a step of the lists, or none.
LEMMA BesideStep ==
    ASSUME StoreFits, ListingInv, Statements!AnsInv, Unanswered,
           Statements!Next, Follow, UNCHANGED <<answer, readVars, health>>
    PROVE  [Next]_vars
<1>1. CASE UNCHANGED <<grants, ask>>
  BY <1>1, NothingToNote DEF vars
<1>2. ASSUME NEW r \in Requests,
             \/ \E t \in Tuples : Statements!StartCreate(r, t)
             \/ \E s \in Seqs : Statements!StartRevoke(r, s)
             \/ Statements!Commit(r) \/ Statements!Update(r)
      PROVE  [Next]_vars
  <2>1. Register!Ask(r) \/ Insert(r) \/ Register!Revoke(r) \/ UNCHANGED <<grants, ask>>
    BY <1>2, StatementWrites
  <2> QED  BY <1>1, <2>1 DEF Next, Write
<1> QED
  BY <1>1, <1>2
     DEF Statements!Next, Statements!Proceed, Statements!BeginImmediate,
         Statements!ReturnExisting, Statements!NoneExisting, Statements!ReadMaxSeq,
         Statements!Insert, Statements!ReadBack, Statements!ReRead,
         Statements!BusyTimeout, Statements!SqlError, Statements!ReadError,
         Statements!Crash, Statements!Open, Statements!Tick

\* Beside the statements a list runs as GrantListing has it, whatever is in
\* flight, fails or dies, for any requests, tables and clock bound.
THEOREM ListsRunBeside ==
    ASSUME StoreFits
    PROVE  ListsBeside => Spec
<1> DEFINE Inv == ListingInv /\ Statements!AnsInv /\ Unanswered
<1>1. Init /\ Statements!Init => Inv
  BY ListingInit, Statements!InitAnsInv DEF StoreFits, Init, Register!Init, Unanswered
<1>2. ASSUME Inv, [\/ /\ up /\ (Begin \/ ReadPage \/ ReadHealth)
                      /\ UNCHANGED statementVars
                   \/ /\ Statements!Next /\ Follow
                      /\ UNCHANGED <<answer, readVars, health>>]_<<vars, statementVars>>
      PROVE  Inv' /\ [Next]_vars
  <2>1. CASE up /\ (Begin \/ ReadPage \/ ReadHealth) /\ UNCHANGED statementVars
    <3>1. Next /\ UNCHANGED <<grants, ask, answer>>
      BY <2>1 DEF Next, Begin, ReadPage, ReadHealth
    <3>2. UNCHANGED Statements!vars
      BY <2>1, <3>1 DEF Statements!vars, statementVars
    <3>3. Statements!AnsInv'
      BY <1>2, <3>2, Statements!AnsInvStep DEF StoreFits
    <3> QED  BY <1>2, <3>1, <3>3, ListingStep DEF Unanswered
  <2>2. CASE Statements!Next /\ Follow /\ UNCHANGED <<answer, readVars, health>>
    <3>1. [Next]_vars
      BY <1>2, <2>2, BesideStep
    <3>2. Statements!AnsInv'
      BY <1>2, <2>2, Statements!AnsInvStep DEF StoreFits
    <3> QED  BY <1>2, <2>2, <3>1, <3>2, ListingStep DEF Unanswered
  <2>3. CASE UNCHANGED <<vars, statementVars>>
    <3>1. UNCHANGED Statements!vars
      BY <2>3 DEF Statements!vars, statementVars, vars
    <3>2. Statements!AnsInv'
      BY <1>2, <3>1, Statements!AnsInvStep DEF StoreFits
    <3> QED  BY <1>2, <2>3, <3>2, ListingStep DEF Unanswered, vars
  <2> QED  BY <1>2, <2>1, <2>2, <2>3
<1>3. Inv /\ [\/ /\ up /\ (Begin \/ ReadPage \/ ReadHealth)
                 /\ UNCHANGED statementVars
              \/ /\ Statements!Next /\ Follow
                 /\ UNCHANGED <<answer, readVars, health>>]_<<vars, statementVars>>
        => Inv' /\ [Next]_vars
  BY <1>2
<1> HIDE DEF Inv
<1> QED  BY <1>1, <1>3, PTL DEF ListsBeside, Spec

\* So the bounds on what a list misses and repeats, the order of Effective and
\* the counts of health hold between any two statements of the store.
THEOREM ListsHoldBeside ==
    ASSUME StoreFits
    PROVE  ListsBeside => /\ [](MissesAreRevokes /\ RepeatsAreGrants /\ EffectiveOrderIsTotal)
                          /\ HealthNeverGoesBack
BY ListsRunBeside, MissesAreBounded, RepeatsAreBounded, EffectiveOrderHolds, HealthOnlyGrows, PTL
=============================================================================
