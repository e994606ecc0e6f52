----------------------- MODULE ServiceLifecycleProofs -----------------------
(* Proofs about ServiceLifecycle: a process serves only on sound settings    *)
(* and the whole schema, and a stop cuts off no handler with short waits, for *)
(* any connections, plans and timeouts.                                      *)
EXTENDS ServiceLifecycle, FiniteSetTheorems, TLAPS

Stages == {"none", "headers", "handling", "replying",
           "refused", "killed", "unread", "answered", "lost"}

Conns == [stage : Stages, todo : Seq(Waits), waited : Nat, due : Int]

-----------------------------------------------------------------------------
(* The inductive invariant.                                                  *)

LifecycleTypes ==
    /\ phase \in Booting \cup Running \cup {"down", "failed"}
    /\ elapsed \in Nat /\ statement \in Nat
    /\ env \in Environments /\ loaded \in Environments
    /\ objects \subseteq SchemaObjects
    /\ conn \in [Connections -> Conns]

\* CheckRequired has been passed.
Declared(e) == ~e.undeclared /\ e.token # "unset"

\* How far a boot has come says what it has read and what it has made, though
\* the objects an earlier boot made may be more.
BootInv ==
    /\ phase = "settings" => statement = 1
    /\ phase = "schema" =>
         /\ statement \in DOMAIN Schema
         /\ \A i \in DOMAIN Schema : i < statement => Schema[i] \in objects
         /\ Declared(loaded)
    /\ phase \in {"mounting"} \cup Running =>
         objects = SchemaObjects /\ Declared(loaded)
    /\ phase \in Running => Good(loaded)

\* Nothing is waited for beyond its longest, and a stop cannot know how long a
\* request takes that has not come yet.
WaitInv(k) ==
    /\ k.stage = "headers" => k.due = DrainTimeout + 1
    /\ k.stage = "handling" =>
         /\ k.todo # <<>>
         /\ Head(k.todo) # "body" => k.waited <= Longest[Head(k.todo)]

\* A short request keeps its time: what the drain has used and what the request
\* may still take is within what it could take at the stop.
KeepsTime(k) ==
    /\ k.stage = "handling" /\ HowOften(k.todo, "body") = 0
    /\ elapsed + Total(k.todo) - k.waited <= k.due

DrainInv(k) ==
    k.due < DrainTimeout =>
        /\ k.stage # "lost"
        /\ phase = "draining" /\ k.stage \in {"headers", "handling"} => KeepsTime(k)
        /\ phase = "closed" => k.stage \notin {"headers", "handling"}

TimeInv == \A c \in Connections : WaitInv(conn[c]) /\ DrainInv(conn[c])

LifecycleInv == LifecycleTypes /\ BootInv /\ TimeInv

\* A step of a request.
RequestStep(c) ==
    Connect(c) \/ SendHeaders(c) \/ TimeoutHeaders(c) \/ Advance(c) \/ Reply(c)
-----------------------------------------------------------------------------
(* What a plan is worth.                                                     *)

\* A request waits for a thing some number of times.
LEMMA OftenType ==
    ASSUME NEW todo \in Seq(Waits), NEW wait
    PROVE  /\ IsFiniteSet({i \in DOMAIN todo : todo[i] = wait})
           /\ HowOften(todo, wait) \in Nat
<1>1. IsFiniteSet(1 .. Len(todo))
  BY FS_Interval
<1>2. DOMAIN todo = 1 .. Len(todo)
  OBVIOUS
<1>3. {i \in DOMAIN todo : todo[i] = wait} \in SUBSET (1 .. Len(todo))
  BY <1>2
<1>4. IsFiniteSet({i \in DOMAIN todo : todo[i] = wait})
  BY <1>1, <1>3, FS_Subset
<1> QED  BY <1>4, FS_CardinalityType DEF HowOften

\* Once it has the first, it waits for that once less.
LEMMA OftenHead ==
    ASSUME NEW todo \in Seq(Waits), todo # <<>>, NEW wait
    PROVE  HowOften(todo, wait) =
             HowOften(Tail(todo), wait) + IF Head(todo) = wait THEN 1 ELSE 0
<1> DEFINE all  == {i \in DOMAIN todo : todo[i] = wait}
           rest == {i \in DOMAIN Tail(todo) : Tail(todo)[i] = wait}
           next == [i \in rest |-> i + 1]
<1>1. /\ DOMAIN todo = 1 .. Len(todo) /\ Len(todo) \in Nat \ {0}
      /\ Tail(todo) \in Seq(Waits)
      /\ DOMAIN Tail(todo) = 1 .. Len(todo) - 1
      /\ \A i \in 1 .. Len(todo) - 1 : Tail(todo)[i] = todo[i + 1]
      /\ Head(todo) = todo[1]
  OBVIOUS
<1>2. IsFiniteSet(all) /\ IsFiniteSet(rest)
  BY <1>1, OftenType
<1>3. next \in Bijection(rest, all \ {1})
  <2>1. next \in [rest -> all \ {1}]
    BY <1>1
  <2>2. \A i, j \in rest : next[i] = next[j] => i = j
    BY <1>1
  <2>3. ASSUME NEW j \in all \ {1}  PROVE \E i \in rest : next[i] = j
    <3>1. j - 1 \in rest
      BY <1>1
    <3>2. next[j - 1] = j
      BY <1>1, <3>1
    <3> QED  BY <3>1, <3>2
  <2> QED  BY <2>1, <2>2, <2>3 DEF Bijection, Injection, Surjection, IsInjective
<1>4. Cardinality(all \ {1}) = Cardinality(rest)
  BY <1>2, <1>3, FS_Bijection DEF ExistsBijection
<1>5. 1 \in all <=> Head(todo) = wait
  BY <1>1
<1>6. Cardinality(all \ {1}) = IF 1 \in all THEN Cardinality(all) - 1
                                              ELSE Cardinality(all)
  BY <1>2, FS_RemoveElement
<1>7. Cardinality(all) \in Nat /\ Cardinality(rest) \in Nat
  BY <1>2, FS_CardinalityType
<1>8. HowOften(todo, wait) = Cardinality(all)
      /\ HowOften(Tail(todo), wait) = Cardinality(rest)
  BY DEF HowOften
<1> HIDE DEF all, rest
<1> QED  BY <1>4, <1>5, <1>6, <1>7, <1>8

\* A total of waits is a number of seconds.
LEMMA TotalType ==
    ASSUME NEW todo \in Seq(Waits)
    PROVE  Total(todo) \in Nat
<1>1. \A wait : HowOften(todo, wait) \in Nat
  BY OftenType
<1>2. \A m, n \in Nat : m * n \in Nat
  OBVIOUS
<1>3. Longest["owner"] \in Nat /\ Longest["write"] \in Nat /\ Longest["query"] \in Nat
  BY LifecycleAssumption DEF Waits
<1> HIDE DEF HowOften
<1>4. /\ Longest["owner"] * HowOften(todo, "owner") \in Nat
      /\ Longest["write"] * HowOften(todo, "write") \in Nat
      /\ Longest["query"] * HowOften(todo, "query") \in Nat
  BY <1>1, <1>2, <1>3
<1> QED  BY <1>4 DEF Total

\* A total is that of the first wait and that of the rest.
LEMMA TotalHead ==
    ASSUME NEW todo \in Seq(Waits), todo # <<>>, HowOften(todo, "body") = 0
    PROVE  /\ Head(todo) \in Waits \ {"body"} /\ Longest[Head(todo)] \in Nat
           /\ Tail(todo) \in Seq(Waits) /\ HowOften(Tail(todo), "body") = 0
           /\ Total(todo) = Longest[Head(todo)] + Total(Tail(todo))
<1>1. Head(todo) \in Waits /\ Tail(todo) \in Seq(Waits)
  OBVIOUS
<1>2. \A wait : /\ HowOften(Tail(todo), wait) \in Nat
                /\ HowOften(todo, wait) = HowOften(Tail(todo), wait)
                                          + IF Head(todo) = wait THEN 1 ELSE 0
  BY <1>1, OftenType, OftenHead
<1>3. Head(todo) # "body" /\ HowOften(Tail(todo), "body") = 0
  BY <1>2
<1>4. Longest["owner"] \in Nat /\ Longest["write"] \in Nat /\ Longest["query"] \in Nat
  BY LifecycleAssumption DEF Waits
<1>5. \A m, n \in Nat : m * (n + 1) = m * n + m /\ m * n \in Nat /\ m * (n + 0) = m * n
  OBVIOUS
<1>6. \A wait : HowOften(todo, wait) =
                  IF Head(todo) = wait THEN HowOften(Tail(todo), wait) + 1
                                       ELSE HowOften(Tail(todo), wait)
  BY <1>2
<1>7. ASSUME NEW wait \in Waits \ {"body"}
      PROVE  /\ Longest[wait] * HowOften(Tail(todo), wait) \in Nat
             /\ Longest[wait] * HowOften(todo, wait) =
                  Longest[wait] * HowOften(Tail(todo), wait)
                    + IF Head(todo) = wait THEN Longest[wait] ELSE 0
  <2>1. Longest[wait] \in Nat /\ HowOften(Tail(todo), wait) \in Nat
    BY <1>2, <1>4 DEF Waits
  <2>2. CASE Head(todo) = wait
    <3>1. HowOften(todo, wait) = HowOften(Tail(todo), wait) + 1
      BY <1>6, <2>2
    <3> QED  BY <1>5, <2>1, <2>2, <3>1
  <2>3. CASE Head(todo) # wait
    <3>1. HowOften(todo, wait) = HowOften(Tail(todo), wait)
      BY <1>6, <2>3
    <3> QED  BY <1>5, <2>1, <2>3, <3>1
  <2> QED  BY <2>2, <2>3
<1>8. Head(todo) \in {"owner", "write", "query"}
  BY <1>1, <1>3 DEF Waits
<1>9. Total(todo) = Longest[Head(todo)] + Total(Tail(todo))
  <2> DEFINE now(wait)   == Longest[wait] * HowOften(todo, wait)
             after(wait) == Longest[wait] * HowOften(Tail(todo), wait)
  <2>1. /\ after("owner") \in Nat /\ after("write") \in Nat /\ after("query") \in Nat
        /\ now("owner") = after("owner") + IF Head(todo) = "owner" THEN Longest["owner"] ELSE 0
        /\ now("write") = after("write") + IF Head(todo) = "write" THEN Longest["write"] ELSE 0
        /\ now("query") = after("query") + IF Head(todo) = "query" THEN Longest["query"] ELSE 0
    BY <1>7 DEF Waits
  <2>2. /\ Total(todo) = now("owner") + now("write") + now("query")
        /\ Total(Tail(todo)) = after("owner") + after("write") + after("query")
    BY DEF Total
  <2> HIDE DEF now, after
  <2> QED  BY <1>4, <1>8, <2>1, <2>2
<1> QED  BY <1>1, <1>3, <1>4, <1>8, <1>9 DEF Waits
-----------------------------------------------------------------------------
(* Boot: nothing here looks at a connection.                                 *)

\* The schema is four statements, each making an object of its own.
LEMMA SchemaFacts ==
    /\ DOMAIN Schema = 1 .. 4 /\ Len(Schema) = 4
    /\ \A i \in DOMAIN Schema : Schema[i] \in SchemaObjects
BY DEF Schema, SchemaObjects

\* Ends leave the boot where no part of its invariant asks anything.
LEMMA EndedBoot ==
    ASSUME phase' \in {"down", "failed"}
    PROVE  BootInv'
BY DEF BootInv, Running, Accepting

\* One statement more, and the last of them completes the schema.
LEMMA SchemaGrows ==
    ASSUME LifecycleTypes, BootInv, ApplySchema
    PROVE  BootInv' /\ objects' \subseteq SchemaObjects
<1>1. /\ phase = "schema" /\ statement \in 1 .. 4 /\ statement' = statement + 1
      /\ objects' = objects \cup {Schema[statement]} /\ loaded' = loaded
      /\ \A i \in 1 .. 4 : i < statement => Schema[i] \in objects
      /\ Declared(loaded)
  BY SchemaFacts DEF ApplySchema, BootInv
<1>2. objects' \subseteq SchemaObjects
  BY <1>1, SchemaFacts DEF LifecycleTypes
<1>3. \A i \in 1 .. 4 : i < statement' => Schema[i] \in objects'
  BY <1>1
<1>4. CASE statement = 4
  <2>1. phase' = "mounting"
    BY <1>1, <1>4, SchemaFacts DEF ApplySchema
  <2>2. \A i \in 1 .. 4 : Schema[i] \in objects'
    BY <1>1, <1>3, <1>4
  <2>3. objects' = SchemaObjects
    BY <1>2, <2>2, SchemaFacts DEF SchemaObjects
  <2> QED  BY <1>1, <1>2, <2>1, <2>3 DEF BootInv, Running, Accepting, Declared
<1>5. CASE statement # 4
  <2>1. phase' = "schema" /\ statement' \in 1 .. 4
    BY <1>1, <1>5, SchemaFacts DEF ApplySchema
  <2> QED  BY <1>1, <1>2, <1>3, <2>1, SchemaFacts
             DEF BootInv, Running, Accepting, Declared
<1> QED  BY <1>4, <1>5

\* Every step keeps what a boot has read and made.
LEMMA BootStep ==
    ASSUME LifecycleTypes, BootInv, Next
    PROVE  BootInv' /\ objects' \subseteq SchemaObjects
<1> USE DEF Booting, Accepting, Running, bootVars
<1>1. CASE Start
  BY <1>1, SchemaFacts DEF Start, BootInv, LifecycleTypes
<1>2. CASE ReadSettings
  <2>1. CASE loaded.undeclared \/ loaded.token = "unset"
    BY <1>2, <2>1, EndedBoot DEF ReadSettings, Refuse, EndProcess, LifecycleTypes
  <2>2. CASE Declared(loaded)
    BY <1>2, <2>2, SchemaFacts DEF ReadSettings, BootInv, LifecycleTypes, Declared
  <2> QED  BY <2>1, <2>2 DEF Declared
<1>3. CASE ApplySchema
  BY <1>3, SchemaGrows
<1>4. CASE Mount
  <2>1. CASE loaded.token = "short"
    BY <1>4, <2>1, EndedBoot DEF Mount, Refuse, EndProcess, LifecycleTypes
  <2>2. CASE loaded.token # "short"
    <3>1. Good(loaded) /\ objects = SchemaObjects /\ phase' = "listening"
      BY <1>4, <2>2 DEF Mount, BootInv, Good, Declared, LifecycleTypes, Environments
    <3> QED  BY <1>4, <2>2, <3>1 DEF Mount, BootInv, Good, Declared
  <2> QED  BY <2>1, <2>2
<1>5. CASE CatchSignals
  BY <1>5 DEF CatchSignals, BootInv, Declared, Good, LifecycleTypes
<1>6. CASE Stop \/ StraySignal
  <2>1. UNCHANGED <<env, loaded, objects, statement>> /\ HearSignal
    BY <1>6 DEF Stop, StraySignal
  <2>2. \/ phase = "serving" /\ phase' = "draining"
        \/ phase' = "down"
        \/ phase' = phase
    BY <2>1 DEF HearSignal, EndProcess, LifecycleTypes
  <2> QED  BY <2>1, <2>2 DEF BootInv, Declared, Good, LifecycleTypes
<1>7. CASE Drain
  BY <1>7 DEF Drain, BootInv, Declared, Good, LifecycleTypes
<1>8. CASE Exit
  BY <1>8, EndedBoot DEF Exit, EndProcess, LifecycleTypes
<1>9. CASE Fault
  BY <1>9, EndedBoot DEF Fault, EndProcess, LifecycleTypes
<1>10. CASE EditEnvironment
  BY <1>10 DEF EditEnvironment, BootInv, Declared, Good, LifecycleTypes
<1>11. CASE Tick
  BY <1>11 DEF Tick, BootInv, Declared, Good, LifecycleTypes
<1>12. ASSUME NEW c \in Connections,
              RequestStep(c)
       PROVE  BootInv' /\ objects' \subseteq SchemaObjects
  <2>1. UNCHANGED <<phase, bootVars>>
    BY <1>12 DEF RequestStep, Connect, SendHeaders, TimeoutHeaders, Advance, Reply
  <2> QED  BY <2>1 DEF BootInv, Declared, Good, LifecycleTypes
<1> QED
  BY <1>1, <1>2, <1>3, <1>4, <1>5, <1>6, <1>7, <1>8, <1>9, <1>10, <1>11, <1>12
  DEF Next, Boot, RequestStep
-----------------------------------------------------------------------------
(* Types.                                                                    *)

\* What a request has left is a number of seconds, perhaps overdue.
LEMMA RemainingType ==
    ASSUME NEW k \in Conns
    PROVE  Remaining(k) \in Int
<1>1. Total(k.todo) \in Nat /\ k.waited \in Nat /\ DrainTimeout \in Nat
  BY TotalType, LifecycleAssumption DEF Conns
<1> HIDE DEF Total, HowOften
<1> QED  BY <1>1 DEF Remaining

\* Every step keeps the types.
LEMMA TypesStep ==
    ASSUME LifecycleTypes, BootInv, Next
    PROVE  LifecycleTypes'
<1> USE DEF Booting, Accepting, Running, bootVars
<1>0. /\ DrainTimeout \in Nat /\ Plans \subseteq Seq(Waits) /\ <<>> \notin Plans
      /\ conn \in [Connections -> Conns] /\ elapsed \in Nat
  BY LifecycleAssumption DEF LifecycleTypes
<1>1. objects' \subseteq SchemaObjects
  BY BootStep
<1>2. ASSUME NEW next \in {"down", "failed"}, NEW how \in Stages, EndProcess(next, how)
      PROVE  /\ phase' \in {"down", "failed"} /\ elapsed' \in Nat
             /\ conn' \in [Connections -> Conns]
  BY <1>0, <1>2 DEF EndProcess, Conns, Stages, Open
<1>3. ASSUME NEW c \in Connections,
             RequestStep(c)
      PROVE  LifecycleTypes'
  <2>1. UNCHANGED <<phase, elapsed, bootVars>>
    BY <1>3 DEF RequestStep, Connect, SendHeaders, TimeoutHeaders, Advance, Reply
  <2>2. \E k \in Conns : conn' = [conn EXCEPT ![c] = k]
    <3>0. conn[c] \in Conns
      BY <1>0
    <3>1. CASE Connect(c)
      <4> DEFINE k == [conn[c] EXCEPT !.stage = "headers"]
      <4>1. k \in Conns /\ conn' = [conn EXCEPT ![c] = k]
        BY <3>0, <3>1, <1>0 DEF Connect, Conns, Stages
      <4> QED  BY <4>1
    <3>2. CASE SendHeaders(c)
      <4>1. PICK plan \in Plans :
              conn' = [conn EXCEPT ![c].stage = "handling", ![c].todo = plan,
                                   ![c].waited = 0]
        BY <3>2 DEF SendHeaders
      <4> DEFINE k == [conn[c] EXCEPT !.stage = "handling", !.todo = plan, !.waited = 0]
      <4>2. k \in Conns /\ conn' = [conn EXCEPT ![c] = k]
        BY <3>0, <4>1, <1>0 DEF Conns, Stages
      <4> QED  BY <4>2
    <3>3. CASE TimeoutHeaders(c)
      <4> DEFINE k == [conn[c] EXCEPT !.stage = "refused"]
      <4>1. k \in Conns /\ conn' = [conn EXCEPT ![c] = k]
        BY <3>0, <3>3, <1>0 DEF TimeoutHeaders, Conns, Stages
      <4> QED  BY <4>1
    <3>4. CASE Advance(c)
      <4> DEFINE lost == [conn[c] EXCEPT !.stage = "lost"]
                 n == [conn[c] EXCEPT !.todo = Tail(@), !.waited = 0]
                 done == [conn[c] EXCEPT !.stage = "replying", !.todo = <<>>,
                                         !.waited = 0]
      <4>1. CASE /\ Len(conn[c].todo) > 1
                 /\ conn' = [conn EXCEPT ![c].todo = Tail(@), ![c].waited = 0]
        <5>1. Tail(conn[c].todo) \in Seq(Waits)
          BY <3>0, <4>1 DEF Conns
        <5>2. n \in Conns /\ conn' = [conn EXCEPT ![c] = n]
          BY <3>0, <4>1, <5>1, <1>0 DEF Conns
        <5> QED  BY <5>2
      <4>2. CASE conn' = [conn EXCEPT ![c].stage = "lost"]
        <5>1. lost \in Conns /\ conn' = [conn EXCEPT ![c] = lost]
          BY <3>0, <4>2, <1>0 DEF Conns, Stages
        <5> QED  BY <5>1
      <4>3. CASE conn' = [conn EXCEPT ![c].stage = "replying", ![c].todo = <<>>,
                                      ![c].waited = 0]
        <5>1. <<>> \in Seq(Waits)
          OBVIOUS
        <5>2. done \in Conns
          BY <3>0, <5>1 DEF Conns, Stages
        <5>3. conn' = [conn EXCEPT ![c] = done]
          BY <4>3, <1>0
        <5> QED  BY <5>2, <5>3
      <4> QED  BY <3>4, <4>1, <4>2, <4>3 DEF Advance
    <3>5. CASE Reply(c)
      <4> DEFINE k == [conn[c] EXCEPT !.stage = "answered"]
      <4>1. k \in Conns /\ conn' = [conn EXCEPT ![c] = k]
        BY <3>0, <3>5, <1>0 DEF Reply, Conns, Stages
      <4> QED  BY <4>1
    <3> QED  BY <1>3, <3>1, <3>2, <3>3, <3>4, <3>5 DEF RequestStep
  <2> QED  BY <1>0, <2>1, <2>2 DEF LifecycleTypes
<1>4. CASE Start
  BY <1>0, <1>1, <1>4 DEF Start, LifecycleTypes
<1>5. CASE ReadSettings
  BY <1>0, <1>1, <1>2, <1>5 DEF ReadSettings, Refuse, LifecycleTypes, Stages
<1>6. CASE ApplySchema
  BY <1>0, <1>1, <1>6 DEF ApplySchema, LifecycleTypes
<1>7. CASE Mount
  BY <1>0, <1>1, <1>2, <1>7 DEF Mount, Refuse, LifecycleTypes, Stages
<1>8. CASE CatchSignals \/ Drain
  BY <1>0, <1>1, <1>8 DEF CatchSignals, Drain, LifecycleTypes
<1>9. CASE Stop \/ StraySignal
  <2>0. UNCHANGED <<env, loaded, objects, statement>> /\ HearSignal
    BY <1>9 DEF Stop, StraySignal
  <2>1. CASE phase = "serving"
    <3>1. \A c \in Connections :
            [conn[c] EXCEPT !.due = Remaining(conn[c])] \in Conns
      BY <1>0, RemainingType DEF Conns
    <3>2. conn' \in [Connections -> Conns] /\ phase' = "draining" /\ elapsed' = 0
      BY <2>0, <2>1, <3>1 DEF HearSignal
    <3> QED  BY <1>0, <1>1, <2>0, <3>2 DEF LifecycleTypes
  <2>2. CASE phase # "serving"
    BY <1>0, <1>1, <1>2, <2>0, <2>2 DEF HearSignal, LifecycleTypes, Stages
  <2> QED  BY <2>1, <2>2
<1>10. CASE Exit
  BY <1>0, <1>1, <1>2, <1>10 DEF Exit, LifecycleTypes, Stages
<1>11. CASE Fault
  BY <1>0, <1>1, <1>2, <1>11 DEF Fault, LifecycleTypes, Stages
<1>12. CASE EditEnvironment
  BY <1>0, <1>1, <1>12 DEF EditEnvironment, LifecycleTypes
<1>13. CASE Tick
  <2>1. conn' \in [Connections -> Conns]
    <3>1. \A c \in Connections : [conn[c] EXCEPT !.waited = @ + 1] \in Conns
      BY <1>0 DEF Conns
    <3> QED  BY <1>0, <1>13, <3>1 DEF Tick
  <2> QED  BY <1>0, <1>1, <1>13, <2>1 DEF Tick, LifecycleTypes
<1> QED
  BY <1>3, <1>4, <1>5, <1>6, <1>7, <1>8, <1>9, <1>10, <1>11, <1>12, <1>13
  DEF Next, Boot, RequestStep
-----------------------------------------------------------------------------
(* Time.                                                                     *)

\* What the types say of one connection.
LEMMA ConnTypes ==
    ASSUME LifecycleTypes, NEW c \in Connections
    PROVE  /\ conn[c] \in Conns /\ conn[c].due \in Int /\ conn[c].waited \in Nat
           /\ conn[c].todo \in Seq(Waits) /\ conn[c].stage \in Stages
           /\ DrainTimeout \in Nat /\ elapsed \in Nat
BY LifecycleAssumption DEF LifecycleTypes, Conns

\* Every wait but a body's has a longest.
LEMMA LongestType ==
    \A wait \in Waits : wait # "body" =>
        wait \in DOMAIN Longest /\ Longest[wait] \in Nat
BY LifecycleAssumption

\* A step that touches neither the time nor a connection keeps the invariant
\* unless it begins a drain or ends one.
LEMMA TimeAlone ==
    ASSUME TimeInv, UNCHANGED <<elapsed, conn>>,
           phase' = phase \/ phase' \notin {"draining", "closed"}
    PROVE  TimeInv'
BY DEF TimeInv, WaitInv, DrainInv, KeepsTime

\* A process that ends loses only what its database was closed on.
LEMMA TimeEnds ==
    ASSUME LifecycleTypes, TimeInv, NEW next \in {"down", "failed"},
           NEW how \in {"refused", "killed", "lost"}, EndProcess(next, how),
           how = "lost" => phase = "closed"
    PROVE  TimeInv'
<1> SUFFICES ASSUME NEW c \in Connections
             PROVE  (WaitInv(conn[c]) /\ DrainInv(conn[c]))'
  BY DEF TimeInv
<1>1. WaitInv(conn[c]) /\ DrainInv(conn[c]) /\ conn[c] \in Conns
  BY ConnTypes DEF TimeInv
<1>2. phase' \notin {"draining", "closed"}
  BY DEF EndProcess
<1>3. CASE conn[c].stage \in {"headers", "handling"}
  <2>1. conn'[c] = [conn[c] EXCEPT !.stage = how]
    BY <1>3 DEF EndProcess, Open
  <2>2. conn'[c].stage = how /\ conn'[c].due = conn[c].due
    BY <1>1, <2>1 DEF Conns
  <2>3. how = "lost" => ~(conn[c].due < DrainTimeout)
    BY <1>1, <1>3 DEF DrainInv, Open
  <2> QED  BY <1>2, <2>2, <2>3 DEF WaitInv, DrainInv
<1>4. CASE ~Open(c)
  <2>1. conn'[c] = conn[c]
    BY <1>4 DEF EndProcess
  <2> QED  BY <1>1, <1>2, <1>4, <2>1 DEF WaitInv, DrainInv, Open
<1>5. CASE conn[c].stage = "replying"
  <2>1. conn'[c] = [conn[c] EXCEPT !.stage = "unread"]
    BY <1>5 DEF EndProcess, Open
  <2>2. conn'[c].stage = "unread" /\ conn'[c].due = conn[c].due
    BY <1>1, <2>1 DEF Conns
  <2> QED  BY <1>2, <2>2 DEF WaitInv, DrainInv
<1> QED  BY <1>3, <1>4, <1>5 DEF Open

\* What a request still needs is never less than nothing.
LEMMA NeverOverdue ==
    ASSUME LifecycleTypes, TimeInv, NEW c \in Connections,
           conn[c].stage = "handling", HowOften(conn[c].todo, "body") = 0
    PROVE  Total(conn[c].todo) \in Nat /\ conn[c].waited <= Total(conn[c].todo)
<1>1. WaitInv(conn[c]) /\ conn[c].todo \in Seq(Waits) /\ conn[c].waited \in Nat
  BY ConnTypes DEF TimeInv
<1>2. conn[c].todo # <<>>
  BY <1>1 DEF WaitInv
<1>3. /\ Head(conn[c].todo) # "body" /\ Longest[Head(conn[c].todo)] \in Nat
      /\ Total(conn[c].todo) = Longest[Head(conn[c].todo)] + Total(Tail(conn[c].todo))
      /\ Total(Tail(conn[c].todo)) \in Nat
  BY <1>1, <1>2, TotalHead, TotalType
<1>4. conn[c].waited <= Longest[Head(conn[c].todo)]
  BY <1>1, <1>3 DEF WaitInv
<1> HIDE DEF Total
<1> QED  BY <1>1, <1>3, <1>4

\* A stop notes of each request what it has left, which it keeps.
LEMMA StopKeepsTime ==
    ASSUME LifecycleTypes, TimeInv, HearSignal, phase = "serving"
    PROVE  TimeInv'
<1> SUFFICES ASSUME NEW c \in Connections
             PROVE  (WaitInv(conn[c]) /\ DrainInv(conn[c]))'
  BY DEF TimeInv
<1>1. /\ conn' = [d \in Connections |-> [conn[d] EXCEPT !.due = Remaining(conn[d])]]
      /\ elapsed' = 0 /\ phase' = "draining"
  BY DEF HearSignal, Booting
<1>2. WaitInv(conn[c]) /\ conn[c] \in Conns /\ DrainTimeout \in Nat
  BY ConnTypes DEF TimeInv
<1>3. /\ conn'[c].stage = conn[c].stage /\ conn'[c].todo = conn[c].todo
      /\ conn'[c].waited = conn[c].waited /\ conn'[c].due = Remaining(conn[c])
  BY <1>1, <1>2 DEF Conns
<1>4. CASE conn[c].stage # "handling" \/ HowOften(conn[c].todo, "body") > 0
  <2>1. conn'[c].due = DrainTimeout + 1
    BY <1>3, <1>4 DEF Remaining
  <2>2. ~(conn'[c].due < DrainTimeout)
    BY <1>2, <2>1
  <2> QED  BY <1>2, <1>3, <2>1, <2>2 DEF WaitInv, DrainInv
<1>5. CASE conn[c].stage = "handling" /\ ~(HowOften(conn[c].todo, "body") > 0)
  <2>1. HowOften(conn[c].todo, "body") = 0
    <3>1. \A todo \in Seq(Waits) : HowOften(todo, "body") \in Nat
      BY OftenType
    <3>2. HowOften(conn[c].todo, "body") \in Nat
      BY <1>2, <3>1 DEF Conns
    <3> QED  BY <1>5, <3>2
  <2>2. conn'[c].due = Total(conn[c].todo) - conn[c].waited
    BY <1>3, <1>5 DEF Remaining
  <2>3. Total(conn[c].todo) \in Nat /\ conn[c].waited \in Nat
    BY <1>2, TotalType DEF Conns
  <2>4. elapsed' + Total(conn'[c].todo) - conn'[c].waited <= conn'[c].due
    <3> HIDE DEF Total
    <3> QED  BY <1>1, <1>3, <2>2, <2>3
  <2> QED  BY <1>1, <1>2, <1>3, <1>5, <2>1, <2>4 DEF WaitInv, DrainInv, KeepsTime
<1> QED  BY <1>4, <1>5

\* A drain that its context ends has outlasted every short request.
LEMMA DrainKeepsTime ==
    ASSUME LifecycleTypes, TimeInv, Drain
    PROVE  TimeInv'
<1> SUFFICES ASSUME NEW c \in Connections
             PROVE  (WaitInv(conn[c]) /\ DrainInv(conn[c]))'
  BY DEF TimeInv
<1>1. /\ phase = "draining" /\ phase' = "closed" /\ UNCHANGED <<elapsed, conn>>
      /\ elapsed = DrainTimeout \/ ~Open(c)
  BY DEF Drain
<1>2. WaitInv(conn[c]) /\ DrainInv(conn[c])
  BY DEF TimeInv
<1>3. ASSUME conn[c].due < DrainTimeout, conn[c].stage \in {"headers", "handling"}
      PROVE  FALSE
  <2>1. KeepsTime(conn[c])
    BY <1>1, <1>2, <1>3 DEF DrainInv
  <2>2. /\ Total(conn[c].todo) \in Nat /\ conn[c].waited <= Total(conn[c].todo)
        /\ elapsed + Total(conn[c].todo) - conn[c].waited <= conn[c].due
    BY <2>1, NeverOverdue DEF KeepsTime
  <2>3. elapsed = DrainTimeout
    BY <1>1, <1>3 DEF Open
  <2> HIDE DEF Total
  <2> QED  BY <1>3, <2>2, <2>3, ConnTypes
<1> QED  BY <1>1, <1>2, <1>3 DEF WaitInv, DrainInv, Open
\* A second more of the drain is a second less of the request.
LEMMA TickKeepsTime ==
    ASSUME LifecycleTypes, TimeInv, Tick
    PROVE  TimeInv'
<1> SUFFICES ASSUME NEW c \in Connections
             PROVE  (WaitInv(conn[c]) /\ DrainInv(conn[c]))'
  BY DEF TimeInv
<1>1. /\ WaitInv(conn[c]) /\ DrainInv(conn[c]) /\ conn[c] \in Conns
      /\ conn[c].todo \in Seq(Waits) /\ conn[c].waited \in Nat /\ elapsed \in Nat
      /\ conn[c].due \in Int
  BY ConnTypes DEF TimeInv
<1>2. /\ phase \in Accepting \cup {"draining", "failed"} /\ phase' = phase
      /\ phase = "draining" => elapsed' = elapsed + 1
  BY DEF Tick, Accepting
<1>3. phase # "closed"
  BY <1>2 DEF Accepting
<1>4. CASE Open(c) /\ ~AwaitsItsClient(c)
  <2>1. conn'[c] = [conn[c] EXCEPT !.waited = @ + 1]
    BY <1>4 DEF Tick
  <2>2. /\ conn'[c].stage = conn[c].stage /\ conn'[c].todo = conn[c].todo
        /\ conn'[c].waited = conn[c].waited + 1 /\ conn'[c].due = conn[c].due
    BY <1>1, <2>1 DEF Conns
  <2>3. WaitInv(conn'[c])
    <3>1. CASE conn[c].stage = "handling"
      <4>1. conn[c].todo # <<>> /\ Head(conn[c].todo) # "body"
        BY <1>1, <1>4, <3>1 DEF WaitInv, Awaits, AwaitsItsClient
      <4>2. Head(conn[c].todo) \in DOMAIN Longest /\ Longest[Head(conn[c].todo)] \in Nat
        BY <1>1, <4>1, LongestType
      <4>3. conn[c].waited < Longest[Head(conn[c].todo)]
        BY <3>1, <4>2 DEF Tick, Awaits
      <4> QED  BY <1>1, <2>2, <3>1, <4>1, <4>2, <4>3 DEF WaitInv
    <3>2. CASE conn[c].stage # "handling"
      BY <1>1, <2>2, <3>2 DEF WaitInv
    <3> QED  BY <3>1, <3>2
  <2>4. ASSUME KeepsTime(conn[c]), phase = "draining"
        PROVE  /\ HowOften(conn'[c].todo, "body") = 0
               /\ elapsed' + Total(conn'[c].todo) - conn'[c].waited <= conn'[c].due
    <3>1. /\ Total(conn[c].todo) \in Nat /\ HowOften(conn[c].todo, "body") = 0
          /\ elapsed + Total(conn[c].todo) - conn[c].waited <= conn[c].due
      BY <1>1, <2>4, TotalType DEF KeepsTime
    <3> HIDE DEF Total, HowOften
    <3> QED  BY <1>1, <1>2, <2>2, <2>4, <3>1
  <2>5. DrainInv(conn[c])'
    BY <1>1, <1>2, <1>3, <2>2, <2>4 DEF DrainInv, KeepsTime
  <2> QED  BY <2>3, <2>5 DEF WaitInv
<1>5. CASE ~Open(c) \/ AwaitsItsClient(c)
  <2>1. conn'[c] = conn[c]
    BY <1>5 DEF Tick
  <2>2. ASSUME conn[c].due < DrainTimeout, phase = "draining",
               conn[c].stage \in {"headers", "handling"}
        PROVE  FALSE
    <3>1. HowOften(conn[c].todo, "body") = 0 /\ conn[c].stage = "handling"
      BY <1>1, <2>2 DEF DrainInv, KeepsTime
    <3>2. conn[c].todo # <<>>
      BY <1>1, <3>1 DEF WaitInv
    <3>3. Head(conn[c].todo) # "body"
      BY <1>1, <3>1, <3>2, TotalHead
    <3> QED  BY <1>5, <2>2, <3>1, <3>3 DEF Open, Awaits, AwaitsItsClient
  <2> QED  BY <1>1, <1>2, <1>3, <2>1, <2>2 DEF WaitInv, DrainInv, Open
<1> QED  BY <1>4, <1>5

\* A request goes on to its next wait with what the rest of them can take.
LEMMA RequestKeepsTime ==
    ASSUME LifecycleTypes, TimeInv, NEW c \in Connections,
           RequestStep(c)
    PROVE  TimeInv'
<1>0. UNCHANGED <<phase, elapsed>>
  BY DEF RequestStep, Connect, SendHeaders, TimeoutHeaders, Advance, Reply
<1>1. /\ WaitInv(conn[c]) /\ DrainInv(conn[c]) /\ conn[c] \in Conns
      /\ conn[c].todo \in Seq(Waits) /\ conn[c].waited \in Nat /\ elapsed \in Nat
      /\ conn[c].due \in Int /\ DrainTimeout \in Nat
      /\ conn \in [Connections -> Conns]
  BY ConnTypes DEF TimeInv, LifecycleTypes
<1>2. SUFFICES WaitInv(conn[c])' /\ DrainInv(conn[c])'
  <2>1. ASSUME NEW d \in Connections, d # c  PROVE conn'[d] = conn[d]
    BY <1>1, <2>1 DEF RequestStep, Connect, SendHeaders, TimeoutHeaders, Advance, Reply
  <2> QED  BY <1>0, <1>2, <2>1 DEF TimeInv, WaitInv, DrainInv, KeepsTime
<1>3. CASE Connect(c)
  <2>1. conn[c].due = DrainTimeout + 1
    BY <1>3 DEF Connect, Unbegun
  <2>2. conn'[c].stage = "headers" /\ conn'[c].due = conn[c].due
    BY <1>1, <1>3 DEF Connect, Conns
  <2> QED  BY <1>1, <2>1, <2>2 DEF WaitInv, DrainInv
<1>4. CASE SendHeaders(c)
  <2>1. conn[c].due = DrainTimeout + 1
    BY <1>1, <1>4 DEF SendHeaders, WaitInv
  <2>2. PICK plan \in Plans :
          conn' = [conn EXCEPT ![c].stage = "handling", ![c].todo = plan, ![c].waited = 0]
    BY <1>4 DEF SendHeaders
  <2>3. /\ conn'[c].stage = "handling" /\ conn'[c].due = conn[c].due
        /\ conn'[c].todo = plan /\ conn'[c].waited = 0
    BY <1>1, <2>2 DEF Conns
  <2>4. plan \in Seq(Waits) /\ plan # <<>> /\ Head(plan) \in Waits
    BY LifecycleAssumption
  <2> QED  BY <1>1, <2>1, <2>3, <2>4, LongestType DEF WaitInv, DrainInv
<1>5. CASE TimeoutHeaders(c)
  <2>1. conn[c].due = DrainTimeout + 1
    BY <1>1, <1>5 DEF TimeoutHeaders, WaitInv
  <2>2. conn'[c].stage = "refused" /\ conn'[c].due = conn[c].due
    BY <1>1, <1>5 DEF TimeoutHeaders, Conns
  <2> QED  BY <1>1, <2>1, <2>2 DEF WaitInv, DrainInv
<1>6. CASE Advance(c)
  <2>0. conn[c].stage = "handling"
    BY <1>6 DEF Advance
  <2>1. CASE phase = "closed" /\ conn' = [conn EXCEPT ![c].stage = "lost"]
    <3>1. conn'[c].stage = "lost" /\ conn'[c].due = conn[c].due
      BY <1>1, <2>1 DEF Conns
    <3>2. ~(conn[c].due < DrainTimeout)
      BY <1>1, <2>0, <2>1 DEF DrainInv
    <3> QED  BY <3>1, <3>2 DEF WaitInv, DrainInv
  <2>2. CASE conn' = [conn EXCEPT ![c].stage = "replying", ![c].todo = <<>>,
                                  ![c].waited = 0]
    <3>1. conn'[c].stage = "replying" /\ conn'[c].due = conn[c].due
      BY <1>1, <2>2 DEF Conns
    <3> QED  BY <3>1 DEF WaitInv, DrainInv
  <2>3. CASE /\ Len(conn[c].todo) > 1
             /\ conn' = [conn EXCEPT ![c].todo = Tail(@), ![c].waited = 0]
    <3>1. /\ conn'[c].stage = "handling" /\ conn'[c].due = conn[c].due
          /\ conn'[c].todo = Tail(conn[c].todo) /\ conn'[c].waited = 0
      BY <1>1, <2>0, <2>3 DEF Conns
    <3>2. /\ Tail(conn[c].todo) \in Seq(Waits) /\ Tail(conn[c].todo) # <<>>
          /\ conn[c].todo # <<>> /\ Head(Tail(conn[c].todo)) \in Waits
      <4>1. ASSUME NEW todo \in Seq(Waits), Len(todo) > 1
            PROVE  /\ Tail(todo) \in Seq(Waits) /\ Len(Tail(todo)) > 0
                   /\ Tail(todo) # <<>> /\ todo # <<>> /\ Head(Tail(todo)) \in Waits
        <5>1. Tail(todo) \in Seq(Waits) /\ Len(Tail(todo)) = Len(todo) - 1
          BY <4>1
        <5>2. Len(<<>>) = 0 /\ Len(Tail(todo)) # 0 /\ Len(todo) # 0
          BY <4>1, <5>1
        <5>3. Tail(todo) # <<>> /\ todo # <<>>
          BY <5>2
        <5> QED  BY <4>1, <5>1, <5>3
      <4> QED  BY <1>1, <2>3, <4>1
    <3>3. WaitInv(conn'[c])
      BY <1>1, <3>1, <3>2, LongestType DEF WaitInv
    <3>4. ASSUME KeepsTime(conn[c])
          PROVE  /\ HowOften(conn'[c].todo, "body") = 0
                 /\ elapsed + Total(conn'[c].todo) - conn'[c].waited <= conn'[c].due
      <4>1. HowOften(conn[c].todo, "body") = 0
        BY <3>4 DEF KeepsTime
      <4>2. elapsed + Total(conn[c].todo) - conn[c].waited <= conn[c].due
        BY <3>4 DEF KeepsTime
      <4>3. /\ Head(conn[c].todo) # "body" /\ Longest[Head(conn[c].todo)] \in Nat
            /\ Total(conn[c].todo) = Longest[Head(conn[c].todo)]
                                       + Total(Tail(conn[c].todo))
            /\ HowOften(Tail(conn[c].todo), "body") = 0
            /\ Total(Tail(conn[c].todo)) \in Nat
        BY <1>1, <3>2, <4>1, TotalHead, TotalType
      <4>4. conn[c].waited <= Longest[Head(conn[c].todo)]
        BY <1>1, <2>0, <4>3 DEF WaitInv
      <4> HIDE DEF Total, HowOften
      <4> QED  BY <1>1, <3>1, <4>2, <4>3, <4>4
    <3>5. DrainInv(conn[c])'
      BY <1>0, <1>1, <2>0, <3>1, <3>4 DEF DrainInv, KeepsTime
    <3> QED  BY <3>3, <3>5 DEF WaitInv
  <2> QED  BY <1>6, <2>1, <2>2, <2>3 DEF Advance
<1>7. CASE Reply(c)
  <2>1. conn'[c].stage = "answered" /\ conn'[c].due = conn[c].due
    BY <1>1, <1>7 DEF Reply, Conns
  <2> QED  BY <2>1 DEF WaitInv, DrainInv
<1> QED  BY <1>3, <1>4, <1>5, <1>6, <1>7 DEF RequestStep

\* Every step keeps waits within their longest, and short requests in time.
LEMMA TimeStep ==
    ASSUME LifecycleTypes, TimeInv, Next
    PROVE  TimeInv'
<1>1. CASE Start
  <2>1. UNCHANGED conn /\ phase' = "settings"
    BY <1>1 DEF Start
  <2> QED  BY <2>1 DEF TimeInv, WaitInv, DrainInv
<1>2. CASE ReadSettings \/ Mount
  BY <1>2, TimeAlone, TimeEnds DEF ReadSettings, Mount, Refuse
<1>3. CASE ApplySchema \/ CatchSignals \/ EditEnvironment
  BY <1>3, TimeAlone DEF ApplySchema, CatchSignals, EditEnvironment
<1>4. CASE Stop \/ StraySignal
  <2>0. HearSignal
    BY <1>4 DEF Stop, StraySignal
  <2>1. CASE phase # "serving"
    BY <2>0, <2>1, TimeAlone, TimeEnds
    DEF HearSignal, LifecycleTypes, Booting, Running, Accepting
  <2> QED  BY <2>0, <2>1, StopKeepsTime
<1>5. CASE Drain
  BY <1>5, DrainKeepsTime
<1>6. CASE Exit
  BY <1>6, TimeEnds DEF Exit
<1>7. CASE Fault
  BY <1>7, TimeEnds DEF Fault
<1>8. CASE Tick
  BY <1>8, TickKeepsTime
<1>9. ASSUME NEW c \in Connections,
             RequestStep(c)
      PROVE  TimeInv'
  BY <1>9, RequestKeepsTime
<1> QED
  BY <1>1, <1>2, <1>3, <1>4, <1>5, <1>6, <1>7, <1>8, <1>9 DEF Next, Boot, RequestStep

-----------------------------------------------------------------------------
(* The theorems.                                                             *)

\* The invariant holds to begin with.
LEMMA LifecycleInit == Init => LifecycleInv
<1> SUFFICES ASSUME Init  PROVE LifecycleInv
  OBVIOUS
<1>1. DrainTimeout + 1 \in Int /\ Unbegun \in Conns /\ <<>> \in Seq(Waits)
  BY LifecycleAssumption DEF Unbegun, Conns, Stages
<1>2. LifecycleTypes
  BY <1>1 DEF Init, LifecycleTypes
<1>3. BootInv
  BY DEF Init, BootInv, Running, Accepting
<1>4. TimeInv
  BY DEF Init, TimeInv, WaitInv, DrainInv, Unbegun
<1> QED  BY <1>2, <1>3, <1>4 DEF LifecycleInv

\* Every step keeps it, part by part.
LEMMA LifecycleStep == LifecycleInv /\ [Next]_vars => LifecycleInv'
<1> SUFFICES ASSUME LifecycleInv, [Next]_vars  PROVE LifecycleInv'
  OBVIOUS
<1>1. CASE Next
  BY <1>1, TypesStep, BootStep, TimeStep DEF LifecycleInv
<1>2. CASE UNCHANGED vars
  BY <1>2 DEF vars, bootVars, LifecycleInv, LifecycleTypes, BootInv, TimeInv,
              WaitInv, DrainInv, KeepsTime
<1> QED  BY <1>1, <1>2

\* Along every behaviour the boot, the types and the time of the drain are as
\* main and net/http keep them.
THEOREM LifecycleInvHolds == Spec => []LifecycleInv
BY LifecycleInit, LifecycleStep, PTL DEF Spec

\* No process takes a request before its settings are sound and its schema is
\* whole, at whatever statement an earlier boot was cut short.
THEOREM WholeBeforeServing == Spec => []ServesOnlyWhenWhole
<1>1. LifecycleInv => ServesOnlyWhenWhole
  BY DEF LifecycleInv, BootInv, ServesOnlyWhenWhole, Running
<1> QED  BY <1>1, LifecycleInvHolds, PTL

\* Whatever the timeouts and the plans are, a stop cuts off no handler that
\* could not have outlasted the drain, nor closes the database under it.
THEOREM StopsSpareShortRequests == Spec => []ShortRequestsSurviveAStop
<1>1. LifecycleInv => ShortRequestsSurviveAStop
  <2> SUFFICES ASSUME LifecycleInv, NEW c \in Connections, conn[c].stage = "lost"
               PROVE  conn[c].due >= DrainTimeout
    BY DEF ShortRequestsSurviveAStop
  <2>1. ~(conn[c].due < DrainTimeout) /\ conn[c].due \in Int /\ DrainTimeout \in Nat
    BY ConnTypes DEF LifecycleInv, TimeInv, DrainInv
  <2> QED  BY <2>1
<1> QED  BY <1>1, LifecycleInvHolds, PTL
=============================================================================
