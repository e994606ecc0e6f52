# grant-store in TLA+

grant-store is a small Go service: an HTTP registry of *grants* (which
principal stands in which relation to which resource) over one SQLite table.
Other services read it to decide what a session may use. This directory models
its behaviour in TLA+, checks it with TLC on small instances, and proves with
TLAPS, for instances of every size, every safety property it checks: of the
database layer, the handlers, the lists, the process and the numbers.

Paths such as `grant.go:109` are relative to `src/`.

## The system

| Component | State it keeps | Operations |
|---|---|---|
| Database layer (`grant.go`, `store.go`, `schema.sql`) | table `grants`, SQLite's write lock, the locals of each handler in flight | `Create` from `BeginTx` on, `Revoke`, `Get`, `List`, `Effective`, `Open` |
| HTTP handlers and caller enforcement (`server.go`, `principal_enforcement.go`) | none of their own: one goroutine per request | list, create, get, revoke, effective, settings; `identifyCaller`, `callerAdministersBoard`, `callerMayReadGrant` |
| Owner checks (`principal_directory.go`, `resource_checker.go`) | none; other services hold the truth and change on their own | `LookupPrincipal`, `CheckResourceExists` |
| Vocabulary (`relation.go`, `resource_type.go`) | two constant tables | checks of words and of the shapes of ids |
| Lists, effective sets and counts (`grant.go`, `store.go`) | none; each is one `SELECT` | `List` with its filters and paging, `Effective`'s query, `Counts` for `GET /health` |
| Numbers as text (`resource_type.go`, `server.go`, `store.go`) | none | `validateResourceID` on decimals, `atoi64`, `formatID` |
| Boot, settings, shutdown (`cmd/grant-store/main.go`, `settings.go`, `Open`, `grant-store.service`) | configuration, read once; what the schema has made so far | boot and its refusals, `GET /settings`, drain on a signal, systemd's restart |
| `ensureColumns`, TypeScript types, `deploy.sh` | - | - |

They interact by calls. A handler identifies its caller (at most one call to
principal-store), may check the caller's authority (each check is a second
call to principal-store and a query), may confirm the grant's principal and
resource with their owners (two more calls), and only then enters the
database. Nothing but the database's write lock is shared, and no two of these
steps are atomic together: other handlers write, humans leave groups, boards
are deleted in between. Any call may fail, any statement may fail, and the
process may die anywhere.

What is hard here, and what makes each component correct:

- **Database layer.** Creates race for the next `seq` and for the tuple; an
  error path may leak the lock; a read back comes after the commit; a call that
  died may be repeated. Correct means: one active row for a tuple, numbers
  without gap or repeat, `granted_at` in the order of the numbers, no write
  lost or rewritten, answers that tell what was done, a lock always given up.
- **Handlers.** A check of authority is stale by the time it is used, and is
  itself made of two reads, a lookup of groups and then a query of their
  grants. Correct means: nothing is written or shown on a grant revoked, or a
  group left, before the call arrived, nor on a grant revoked before the caller
  was in the group that holds it. It does not mean that one moment held both,
  though a comment says so: see the disagreements.
- **Owner checks.** "Not there" and "could not ask" must not be confused, in
  either direction.
- **Effective set.** Two sources are read with no common snapshot. Correct
  means: what never changed is there, and each row that is there was active at
  a moment of the call, to a holder that was the principal's at that moment or an
  earlier one. That is two moments, and they need not be one.
- **Lists.** A client pages through a list with one statement per page, and
  writes land between two pages. Correct means: what it misses or sees twice is
  bounded by what was written meanwhile, and a quiet list is whole.
- **Numbers as text.** Correct means: one spelling for one id, no limit nobody
  asked for, no two grants with one id.
- **Boot and shutdown.** A boot may be refused, cut short inside the schema, or
  killed; a stop meets requests that wait for owners, for the lock, for a body,
  for a client to read its answer. Correct means: it serves only when it is
  whole, a stop cuts off no handler it had time for, every drain ends, and what
  is wanted comes back.

`PROJECT.json` lists the hazards at their lines, each with the properties that
would catch it.

## Modules

| Module | What it is |
|---|---|
| `GrantRegistry` | Abstract specification of the database layer: a register of grants that only grows, and what an answer may say of it. No locks, statements or crashes |
| `GrantStore` | The database layer, one action per SQL statement |
| `MCGrantStore` | Its instances for TLC |
| `GrantStoreProofs` | Its inductive invariant, and the safety theorems |
| `GrantStoreRefinement` | The proof that `GrantStore` implements `GrantRegistry`, and that what an answer told stays true |
| `GrantVocabulary` | Both vocabulary tables, and the checks of a request that ask nobody |
| `OwnerAnswers` | How the status and body of an owner's answer become a verdict; what owners may answer |
| `GrantQueries` | The three `SELECT`s as functions of the table: their `WHERE`, `ORDER BY`, `LIMIT` and `OFFSET`, and the counts |
| `GrantService` | The HTTP handlers over `GrantStore` (`Store == INSTANCE GrantStore`), over `GrantQueries`, and over owners that change |
| `MCGrantService` | Its instances for TLC: the people, boards, tables and calls |
| `GrantServiceSteps` | What is known of a request wherever its handler is (`RequestInv`, in parts), and what each step moves and leaves alone |
| `GrantServiceParts` | The proof that a request's own steps keep each part |
| `GrantServiceProofs` | The inductive invariant `SvcInv`, the reuse of the store's proofs, and the theorems |
| `GrantListing` | A client that reads a list page by page, and `GET /health`, over `GrantRegistry` (`Register == INSTANCE GrantRegistry WITH ...`) |
| `MCGrantListing` | Its instances for TLC |
| `GrantListingProofs` | Places of rows in a list, what a write does to them, and the theorems; then the same lists beside the statements of `GrantStore` (`ListsBeside`) |
| `ServiceLifecycle` | The process: boot, schema, signal, drain, close, restart, in seconds |
| `MCServiceLifecycle` | Its instances for TLC, with the code's own timeouts |
| `ServiceLifecycleProofs` | How far a boot is, how long a request may take, and the theorems |
| `NumericIds` | Decimals, `atoi64` and `formatID`, over every short text |
| `MCNumericIds` | Its instance for TLC: two digits, four bits |
| `NumericIdsProofs` | What is read and written of every number, by induction, and the theorems |

### GrantStore and the code

| TLA+ | Go |
|---|---|
| `grants` | the committed rows. A row is `seq`, the tuple, who wrote it (`note`), `granted_at`, `revoked_at`. `id` is left out: `formatID` is one to one in `seq` (`FormatIDIsOneToOne`, proved) |
| `writeLock` | SQLite's write lock: taken at `BEGIN IMMEDIATE` (`_txlock=immediate`, `store.go:75-86`), given up by `COMMIT` or the deferred `ROLLBACK` (`grant.go:107`) |
| `pc` | the statement a handler runs next |
| `nextSeq`, `stamp` | the local `seq` of `Create`, and the `now()` an `INSERT` or `UPDATE` carries |
| `ask`, `answer` | what the request asked and what it was told |
| `clock`, `up` | `time.Now().Unix()`, and whether the process runs |
| `StartCreate` ... `ReadBack` | `Create`, `grant.go:103-139`: `BeginImmediate`, `ReturnExisting` or `NoneExisting`, `ReadMaxSeq`, `Insert`, `Commit`, `ReadBack` |
| `StartRevoke`, `Update`, `ReRead` | `Revoke`, `grant.go:175-180`; `now()` is an argument, so it is read before the `UPDATE` waits |
| `BusyTimeout`, `SqlError`, `ReadError` | the driver's busy timeout; any statement failing, a cancelled request context included; a failed read back, after the write is durable |
| `Crash`, `Open` | the process stops with calls in flight (killed, or main returning after its drain) and boots again |

The row an `INSERT` adds appears in `grants` at `Commit`: until then only its
own transaction could see it, and that transaction reads nothing more.

### GrantService and the code

One action is one owner call or one query with the code after it, up to the
next. `stage` is where the handler is; `pc` takes over when it enters the
database. `identify` is `identifyCaller`; `adm_lookup`/`adm_query` are the two
halves of `callerAdministersBoard`; `body` is the decoding of a create's body,
which waits for the client for as long as it likes; `may_lookup`/`may_query`
those of `callerMayReadGrant`, which goes to the first;
`eff_lookup`/`eff_query` those of `Effective` as an answer; `existing` the
`Get` before a revoke or a read; `grantee` and `resource` the two confirmations
of `Create`. The owners' state is `existing`, `disabled` and `memberOf`, which
`OwnerChange` changes at any moment: external code, modelled from how `src/`
uses it.

A handler's first move once it knows its caller is its own operator (`ReadBody`
for a create, `AdmitRevoke`, `AdmitList`, `AdmitEffective`, `AdmitSettings`;
`Admit` picks by the call). A body that does not decode and a query word
outside the vocabulary are fields of the call, and each is met at the point
where the code meets it: a body after the caller is identified, `List`'s words
after the check of authority, `Effective`'s before its lookup.

`window` is a history variable: for each request, what was so at some moment
from its arrival to its answer (`whose`, the subject and its groups; `present`,
`absent`, `acting`) and at every moment (`lasting`, `stays`). `Watch`, a
conjunct of every action, keeps it; no guard reads it. The properties of checks
that go stale are stated with it. The authority behind a write is two moments
of the call, in the order in which the code reads them: the caller, or a group
it is in, is the holder; then, or at the same moment, the holder's grant is
active. `held` is the rows that had both, in that order, and `at_once` those
that had both at one moment. A group joined only after its grant was revoked
puts nothing in `held`. The properties of the passing runs speak of `held`,
which is what the code ensures; what a comment says of it is `at_once`, and the
run `MCGrantServiceLate` shows that it is not so.

### GrantListing and the code

`ReadPage` and `ReadHealth` are each one statement over the committed table, so
each sees one value of `grants`; the writers are `GrantRegistry`'s, which
`GrantStore` is proved to implement, so a list is read against every table the
code can commit without its locks and statements being played again. The
client is external: it adds its limit to its offset until a page comes back
short, as `store_test.go:273` asks for a page. A key of `ORDER BY` is a list of
numbers; `ByteOrder` gives each word its place in SQLite's byte order.
`during` is a history variable: which rows have belonged in the list since it
was begun (`lasting`), and how many came and left.

### ServiceLifecycle and the code

| TLA+ | Go |
|---|---|
| `phase` | where `main` is: `settings` and `schema` and `mounting` (`main.go:17-77`), `listening` from the goroutine that listens, `serving` from `signal.Notify` (`:80`), `draining` in `Shutdown` (`:83-85`), `closed` after the deferred `Close`; `down` and `failed` are systemd's view of a process that is gone |
| `env`, `loaded` | what the unit's environment says, and what this process read of it: variables declared or not, the token unset, short or long enough |
| `objects`, `statement` | what `schema.sql` has made, and the statement `Open` is at. The file is one `Exec`; SQLite commits each statement by itself |
| `conn` | for each connection, whether it waits for its headers, for what its handler waits for (`todo`: body, owner, write lock, query), or for its client to read the answer (`replying`: `writeJSON`, `server.go:224-230`), and for how long |
| `asked` | the last word on the service: `systemctl start`, `systemctl stop`, or a signal from elsewhere (`StraySignal`), which `main` cannot tell from a stop and after which systemd restarts nothing |
| `due` | history: at the moment of a stop, the longest the request could still take |
| `elapsed` | seconds of drain, or of systemd's `RestartSec` |

A handler here is what it waits for, in order (`Plans`): a create of the
service token is body, owner, owner, write. What it does meanwhile is
`GrantService`'s. Two waits have no deadline, for `main.go:66-70` sets only a
`ReadHeaderTimeout`: for the body, and for the answer to be read
(`AwaitsItsClient`). A client that is slow to read is cut off by the end of a
drain too, and its connection ends `unread`: its handler had done its work. The
code's goroutine listens before `signal.Notify`; the
model keeps that window (`listening`), in which a signal ends the process with
no drain.

### NumericIds and the code

`ParseInt`, `FormatInt` and `TrimSpace` are Go's, modelled by what they do at a
width of `Width` bits, the saturated value of an overflow included; the
code's own are `NumericIDIsValid`, `Atoi64` and `FormatID`. The state is the
next text somebody sends and the next number handed out, so the run goes over
every text up to a length.

### Mutants

Each module has its mutants: an action or operator as a plausible slip would
have written it (a plain `BEGIN`, a missing rollback, `UPDATE` without
`revoked_at = 0`, every 404 taken for the owner's, a store closed before the
drain ...), right before the definition it stands for or, in `GrantStore` and
`ServiceLifecycle`, in a section of its own. No specification uses them. With
one put in the place of the original, the property named with it in
`PROJECT.json` is violated.

## Runs

| Run (`.cfg`) | What it shows |
|---|---|
| `MCGrantStore` | Three requests, each a create of `t1` or `t2` or a revoke of number 1 or 2, from an empty table, from one with an active row, and from one with history. Type, table, lock and answer invariants; no step rewrites a row; `GrantStore` implements `GrantRegistry` |
| `MCGrantStoreLateRevoke` | Expected violation, below |
| `MCGrantServiceRaces` | Two requests out of eight calls, two changes at the owners: principals create, revoke and read on a board, or an effective set is read, while the service token revokes the grant they rest on or grants another, and they leave the group, join it again, or the group is disabled |
| `MCGrantServiceEvery` | One request out of every kind of call (bodies wrong in each way, callers of each kind), two owner changes, every answer an owner can give; every call whose body comes is answered |
| `MCGrantServiceRevoke`, `MCGrantServiceLate`, `MCGrantServiceHidden` | Expected violations, below |
| `MCGrantListing` | A list, with or without its history, read in pages of one or two while three requests grant and revoke: what is missed was pulled forward by a revoke, what is repeated was pushed back by a grant; `Effective`'s order is total; `GET /health` never counts back |
| `MCGrantListingOffset` | Expected violation, below |
| `MCServiceLifecycle` | Two connections, one mishap: only a whole service serves, and a stop cuts off no handler that fits in its drain |
| `MCServiceLifecycleLive` | One connection, two mishaps: stops end, connections end unless it is their client they wait for, and what is wanted comes back unless a signal from elsewhere ended it |
| `MCNumericIds` | Every text of up to five characters of two digits, two signs, a space and a letter; numbers up to 12, past the padding of three digits |

**Bounds.** Two creates suffice to race; the third request of `MCGrantStore` is
a revoke between them, or another writer while one rolls back. Two tuples tell
"same tuple" from "other tuple". `Seqs` holds one number that exists in the old
tables and one that may not, or not yet. `MaxClock` 2 lets time pass once
between any two steps, which is what an order of two timestamps can tell; it is
1 in `MCGrantServiceRaces` and in the runs that expect a violation of the
handlers, for no property of theirs is about time. `MaxChanges` 2
lets a thing vanish and come back, or two things change; in
`MCGrantServiceRaces` nothing is deleted, for its calls rest on groups alone.
`MCGrantListing` has three writers over a table of four rows with one row
revoked and made again, so a page boundary can move both ways and twice;
`MaxOffset` is past every row there can be. The lifecycle's seconds are the
code's (3 for an owner, 5 for the lock, 5 for headers, 5 to drain, 5 to
restart); `MaxMishaps` bounds kills, stray signals and edits of the
environment: one meets a stop under two requests, two let a boot be cut short
and then be refused. In `NumericIds` four bits and five characters reach past
the largest number and past the smallest, by sign, zeros and length, as twenty
characters do at 64 bits. The clock bound blocks only `Tick`. `Symmetry` over
the requests is used only in runs without liveness; nothing tells one request
from another. Deadlock is checked in the lifecycle runs. In the others it is
not: each request is made once, so every behaviour ends with all answered and
the clock at its bound.

**Fairness.** `GrantService`: weak fairness of `Handle(r)` and of `InStore(r)`,
for each request `r`. The Go scheduler runs every runnable goroutine; the
owners' HTTP clients have a timeout of three seconds (`resource_checker.go:63`,
`principal_directory.go:65`), so an owner call ends whatever the owner does; a
statement ends, and a wait for the lock ends by getting it or by the driver's
busy timeout, which is one of `InStore`'s disjuncts. There is none of `ReadBody`:
a body has no deadline, and `EveryCallIsAnswered` exempts a call that waits for
one. No fairness of a failing query, of crashes, of reboots, or of new calls.
While the process is down no request is in flight, so nothing waits on a
reboot. `ServiceLifecycle`: the process's own steps (`Boot`, `Drain`,
`Exit`), the time that passes (`Tick`), timeouts (`TimeoutHeaders`; `Advance`
of any wait that has one) and systemd's restart of what failed
(`Restart=on-failure`). It has none of an operator's start or stop, of a
signal, of a fault, or of a client that owes its headers or its body, or that
has not read its answer. `GrantStore`, `GrantListing` and `NumericIds` state no
liveness and assume none.

**Five disagreements** between the code and what is said of it:

- `RevokeNeedsNoOwner` (`MCGrantServiceRevoke`). `CONTRACT.md:176-178` says a
  revoke "never asks an owner" so that one that is down "must not pin a grant in
  place". `Store.Revoke` asks none; the handler asks principal-store who a
  principal caller is, and what it administers. With principal-store down only
  the service token can revoke.
- `RevokedIsRevoked` (`MCGrantStoreLateRevoke`). `UPDATE` and `Get` are two
  statements. A revoke that names the next number, before it is handed out, can
  be answered 200 with an active row (update nothing; the create commits; the
  row is found). The caller must guess a number. For a number handed out
  before the call it cannot happen: `RevokeAnswersAgree`, in `MCGrantStore`.
- `OffsetIsHonoured` (`MCGrantListingOffset`). `CONTRACT.md:139-141` says
  `limit` and `offset` are optional and combine. An `offset` with no `limit`, or
  with one `atoi64` reads as 0, is dropped (`grant.go:216-223`).
- `WritersAdministerAtOnce` (`MCGrantServiceLate`).
  `principal_enforcement.go:29-30` says a principal may create "a board grant
  only on a board it holds can_administer on, directly or through a group".
  Groups are looked up first and their grants queried later: a caller that
  leaves the team after the lookup, before the team is granted
  `can_administer`, passes the query and writes, though it administered the
  board at no moment. What does hold is `WritersAdminister`. A revoke passes
  the same check.
- `HiddenLooksMissing` (`MCGrantServiceHidden`). `principal_enforcement.go:38`
  says "A grant a principal may not read is 404, the same as one that does not
  exist." A number that does not exist is a 404 at once; for a board grant the
  right to read it is looked up first, and a lookup or query that fails is a
  502 or 500. `ReadersMayRead` is what holds: no 200, no list and no 403 tells
  of it.

Smaller ones, met while reading and not modelled:
`principal_enforcement.go:21` says a caller must be a human, and a peer acts
too; `relation.go:28` counts five relations that accept `*`, and six do;
`CONTRACT.md` lists five resource types at `GET /resource-types`, and there
are nine; `server.go:20` says every route is gated, and `/health`,
`/relations` and `/resource-types` are not; a grant's resource that is itself
a principal is checked by `checkByGet`, for which a 404 with any body but Go's
own "page not found" is a missing id (400), where `CONTRACT.md` says of
principal-store that a 404 with no JSON error is a 502.

## Proofs

| Module | Theorems, and the properties of the runs they establish |
|---|---|
| `GrantStoreProofs` | `TypeCorrect`, `OneActiveRow`, `SeqsNumber`, `NeverCollides`, `LockFollows`, `GrantedInOrder` |
| `GrantStoreRefinement` | `StoreIsRegistry` (`RegistryPromises`), `HistoryKept` (`HistoryOnlyGrows`), `CreateAnswersTell` (`CreateAnswersTellWhatWasWritten`), `RevokeAnswersHold` (`RevokeAnswersAgree`) |
| `GrantServiceProofs` | `HandlersUseTheStore`, `ServiceKeepsRegistry`, `ServiceKeepsHistory`, `ServiceAnswersHold`, `ServiceTableHolds`; `ServiceTypes` (`TypeOK`), `WritersHaveAuthority` (`WritersAdminister`), `ReadersHadTheRight` (`ReadersMayRead`), `CallersCouldAct` (`CallersAct`), `RowsAreConfirmed` (`RowsNameConfirmedIds`), `FaultsAreTheCallers` (`BadRequestIsTheCallersFault`), `EffectiveIsComplete`, `EffectiveIsSound` (`EffectiveMissesNothing`, `EffectiveFollowsItsLookup`) |
| `GrantListingProofs` | `MissesAreBounded` (`MissesAreRevokes`), `RepeatsAreBounded` (`RepeatsAreGrants`), `EffectiveOrderHolds` (`EffectiveOrderIsTotal`), `HealthOnlyGrows` (`HealthNeverGoesBack`); `ListsRunBeside` and `ListsHoldBeside`, the same over the statements |
| `ServiceLifecycleProofs` | `WholeBeforeServing` (`ServesOnlyWhenWhole`), `StopsSpareShortRequests` (`ShortRequestsSurviveAStop`) |
| `NumericIdsProofs` | `OneIdForANumber` (`OneIdPerNumber`), `LimitsAreAskedFor` (`LimitsAreMeant`), `IDsDiffer` (`GrantIDsDiffer`); of all numbers, `FormatIDIsOneToOne`, `CanonicalIds`, `LimitIsRead` |

### The database layer

`GrantStoreProofs` and `GrantStoreRefinement` hold for any sets of requests,
tuples and numbers, any clock bound, and any well-formed initial tables. They
rest on the assumptions named in `GrantStore`:

- `RequestsAssumption`: `NoRequest` is not a request.
- `BoundsAssumption`: the clock bound is a positive number, and the numbers a
  revoke names are positive.
- `TablesAssumption`: the table found at boot is one the code can have left:
  numbered from 1 with no gap, in the order of `granted_at`, one active row
  for a tuple at most. This is what the invariant preserves, so a run may
  begin where another ended.

The clock never goes back. `GrantedInSeqOrder` rests on that, and a machine
whose wall clock is set back breaks it (the code takes `time.Now().Unix()`).

**The inductive invariant `IInv`.** `OneActiveRowPerTuple` is not inductive:
nothing in it stops an `INSERT` from colliding. `IInv` adds what each
transaction knows:

- `TableInv`: the committed table is well formed.
- `LockFollowsTheTransaction`: a request is between `BEGIN` and its end
  exactly when it holds the lock, hence at most one is (`OneTransaction`).
- `TxInv`: past the first `SELECT` its tuple has no active row, and past the
  second its `nextSeq` is the largest number plus one. Another request could
  break this only by writing, and `Update` and `Commit` need the lock.
- `AskInv`, `ClockInv`: a request past its start has asked; stamps and
  `granted_at` are not in the future.

Each conjunct has its lemma over `[Next]_vars` (`TableStep`, `LockStep`, ...),
one step per action. `TypeCorrect`, `OneActiveRow`, `SeqsNumber`,
`NeverCollides`, `LockFollows` and `GrantedInOrder` follow.

**Refinement.** `StoreIsRegistry` is `Spec => Registry!Spec`, with the identity
on `grants`, `ask` and `answer`. `AnsInv` strengthens `IInv` with what an
answer will need: a request has an answer exactly when it is done
(`FlightInv`); the rows a request wrote exist exactly from its commit on
(`WriterInv`), so "created" shows its own row and "failed" has none; a revoke
past its `UPDATE` that named a known number finds that row revoked (`CallInv`).
`RegistryStep` maps each action: `Commit` to `Grant` (`CommitGrants`), an
`Update` that finds its row active to `Revoke` (`UpdateRevokes`), a call that
enters to `Ask` (`CallAsks`), each reply to its `Say...`, `Crash` to `Lose`,
the rest to a stutter. `HistoryKept` proves `HistoryOnlyGrows` from the same
invariant (`HistoryStep`).

**What was told stays true.** The refinement proves each answer true at the
moment it is given. The end of the module proves that no later step makes it
false: `AnswerInv` says of each answer what still holds (`AnswerHolds`: a row
shown is stored, but for a `revoked_at` set since; the row a failed create
wrote is not there). `AnswerKept` carries it over every step that gives no
answer, from `HistoryOnlyGrows` and from `NoWriteTold` (a step that writes
names its own request); `AnswerStep` adds those that do, from `AnsInv`.
`CreateAnswersTell` and `RevokeAnswersHold` follow.

### The handlers

The theorems hold for any requests, calls, tables, owners and changes at the
owners, and any interleaving of them with crashes. They assume the store's
three assumptions (`StoreAssumption`) and

- `IdsAssumption`: the service, callers with no id, `*` and the empty text are
  none of the ids that principal-store or another owner hands out, and what a
  tuple names is such an id, `*` or the empty text.
- `OwnersAssumption`: groups, and whoever is there at first, are among the ids.
- `CallsAssumption`: a call has the fields its route takes.
- `IdShapeAssumption` (`GrantVocabulary`): every id has one shape; the empty
  text is empty, and `*` is no number.

`SvcInv` is the types, `AnsInv` of the store, and `RequestInv` of each request.
The store's part is not proved again: `Proved == INSTANCE
GrantStoreRefinement`, `StepUsesTheStore` says that a step of the service is a
step of the store or leaves its variables alone, and `Proved!AnsInvStep` does the
rest. `HandlersUseTheStore` and `ServiceKeepsRegistry` follow, and with
`HistoryStep` and `AnswerStep` of the store, `ServiceKeepsHistory` and
`ServiceAnswersHold`; `ServiceTableHolds` takes the table's own invariants from
`IInv`. The handlers undo nothing the store promises. What
`StepUsesTheStore` needs of the handlers is that they enter the store once,
from `idle`: that is part of `QuietInv`.

`RequestInv` has a part for each thing a handler goes on knowing after the call
or query that showed it:

- `WindowInv`: the window of a call in flight covers what is so now. Every
  check is made against the present, so whatever a check shows was so in the
  window, and stays so in it (`OpensKeepsAuthority`): the window only opens.
- `HoldersInv`: principals looked up for a query are at least those that stayed
  groups all along, and at most those that were groups at some moment; from
  then on any of their rows that is active joins `held`.
- `FoundInv`: the row of a `Get` is there still, but for its `revoked_at`.
  Without the store's `HistoryOnlyGrows` this would fail: a number must stay
  its grant's own, for authority is checked on the row read, and the revoke
  goes by number.
- `CallerInv`, `AuthorityInv`, `ListInv`, `TellInv`: who the caller is, what it
  was let through on, and what it may be told, stage by stage.
- `ConfirmInv`: the ids a create has had confirmed; it holds past the answer,
  for the row that bears the request's name.
- `FaultInv`, `EffectiveInv`: the reasons of a 400, and the two bounds of an
  effective set.
- `StageInv`, `QuietInv`: which operation a stage belongs to; nothing is
  answered before the end.

`GrantServiceSteps` says which variables a step moves (`HandlerMoves`), where it
leads (`HandlerLeads`), and that a request which does not move keeps its
invariant (`LeftAlone`). `GrantServiceParts` proves each part over the
request's own steps (`OwnAuthorityInv`, ...); `HandlerAnswers` lists once what
each handler can answer.

### Lists

For any well-formed tables, filters, page sizes, offsets and writers.
`ListingAssumption` says what `GrantStore` is proved to keep of a table, and
`OrderAssumption` that `ByteOrder` tells any two words apart.

A row's place is how many rows stand before it (`PlaceIs`); the places of `n`
rows are the numbers below `n`, each taken once (`PlacesDiffer`, `PlacesFill`). A
row more or less moves at most one other over any boundary
(`PassedAfterInsert`, `PassedAfterRemove`), and a row stamped in a list with its
history moves none. `PageInv` counts at the boundary of the offset: of the rows
that lasted, those passed and not seen are at most the starting offset plus
the rows that left; rows shown again, with those seen that are still ahead,
are at most the rows that came. When the last page comes back short nothing is
ahead, and these are the two properties. `EffectiveOrderHolds` needs one active
row for a tuple; `HealthOnlyGrows` needs only that the last answer is not
ahead of the table (`CountInv`).

**Beside the statements.** `GrantListing` writes by `GrantRegistry`'s steps.
`ListsBeside` has the same client between any two statements of `GrantStore`
itself, with its locks, failures, crashes and boots (nothing is read while the
process is down); `ListsRunBeside` proves it implies `GrantListing`'s `Spec`, with
the identity on what the two share and with writers that are never answered,
for an answer moves no row. A call that enters is `Ask`, `Commit` is `Insert` (a
numbered table has as many rows as its largest number, `RowsAreNumbered`),
`Update` is `Revoke` or nothing (`StatementWrites`), and any other statement
leaves a list with nothing to note (`NothingToNote`). The invariant is
`ListingInv` with the store's `AnsInv`, each kept by its own proof.
`ListsHoldBeside` carries the four properties over. Both assume `StoreFits`: the
store's three assumptions, `NoRequest` the empty note, and `1..MaxClock` for
the times. `ListsBeside` is in no run: the runs check its two halves.

### The process

For any connections, plans, timeouts and mishaps (`LifecycleAssumption`: the
timeouts are numbers, a plan is not empty). `BootInv`: in the schema every
statement before `statement` has made its object, whatever an earlier boot
made; from `mounting` on all are made; while it runs the settings read are
good. `WaitInv`: nothing is waited for beyond its longest. `DrainInv`: from the
stop on, `elapsed` plus what a short request can still take is at most what it
could take at the stop (`due`), so a handler with `due` below `DrainTimeout` is
at its answer when the drain's time is over. What a request can still take is a
sum over its waits; it is counted by kind (`HowOften`), so that a wait done
lowers it (`TotalHead`) with no induction over the plan.

### Numbers as text

For any number of digits from two on, any width and padding, and texts of any
length. `NumericAssumption`: digits are distinct characters, and neither a sign
nor the space is one. `PowerAssumption`: `2^(Width - 1)` is a positive number.
It follows from `Width`'s being one, but the provers take a power of anything
but two numerals for an unknown; TLC evaluates it with the rest.

Digits are read by one recursive function and written by another, and what
these do for every number is an induction. The library's induction theorems
take the formula to be proved as a parameter, which these provers cannot fill
in, so the induction is over sets: `Least` (a set of numbers has a least one,
by well-foundedness) gives `Smaller` (a set that holds each number whose
smaller ones it holds is all of `Nat`), and each lemma names the set of numbers
it holds for. That `NumeralOf` exists at all, and is what its equation says, is
shown by tables: for each `n` there is one function on `0..n` that fits
(`NumeralOfEntry`).

From there: a number's numeral reads as that number (`NumeralReads`), zeros in
front are not read (`NumberPadded`), and no text of the number is shorter
(`NumeralIsShortest`). `FormatIDIsOneToOne` follows at once, which is why
`GrantStore` may leave `id` out of its rows. `TrimmedIs` and `ParsedIs` say what
`TrimSpace` and `ParseInt` return; with them `CanonicalIds`: the ids
`validateResourceID` takes are the numerals of `0..MaxInt` and nothing else;
and `LimitIsRead`: what `FormatInt` writes of such a number `atoi64` reads back.
The invariant is `TypeInv`, the bounds on what is sent. `OneIdForANumber` is
`CanonicalIds` and the length of a numeral: if any short text means a number,
so does its numeral, which is no longer.

### Model-checked only

- Liveness: `EveryCallIsAnswered`, `EveryStopEnds`,
  `EveryConnectionEnds`, `ComesBack`. The proof system cannot reach it.
- The five disagreements, which are counterexamples.

## Not modelled, and why

- JSON and query strings as text: a body decodes or does not, a word is in the
  vocabulary or not. How much memory an endless body takes (`server.go:215`);
  that it may keep its handler for ever, as a client that does not read its
  answer may, is in `ServiceLifecycle`.
- That a 401 is deserved: `BadRequestIsTheCallersFault` speaks of 400 only.
- `GET /relations` and `/resource-types`: two constants, ungated.
- Whoever answers 200 on an owner's URL is taken to be the owner: `checkByGet`
  believes any 2xx, and so does the model (`PROJECT.json` keeps the hazard).
- `disabled_at` of the principal an effective set is read for: the code does
  not read it there either.
- How one setting is parsed (an external module, `servicesettings`): a boot
  finds its environment sound or wrong in one of the ways `main` tells apart.
- Text of notes, and of ids beyond their shape and their digits.
- A stop between the listening goroutine and `signal.Notify` is modelled and
  loses requests; no property says otherwise.
- `ensureColumns`, whose list is empty; `deploy.sh`; the generated TypeScript.

## Plan

Written, in order: `GrantStore`, `GrantRegistry`, the proofs of both,
`GrantVocabulary`, `OwnerAnswers`, `GrantService`; `GrantQueries`,
`GrantListing`, `ServiceLifecycle`, `NumericIds`; the proofs of `GrantService`,
`ServiceLifecycle` and `GrantListing`; those of `NumericIds`, of the lists beside
the statements, and of the table under the handlers. Every safety property
the runs check of the code as it is is now a theorem. What would come next:

1. `ServiceLifecycle` over `GrantService`: a drain whose requests are the handlers
   themselves, so that `Crash` there is the end of a drain here.
2. Ids in `GrantVocabulary` by `NumericIds` instead of by shape: `CanonicalIds`
   is what the shape `decimal` stands for.
3. A run of `ListsBeside` with the handlers of `GrantService` in the place of the
   bare statements.
