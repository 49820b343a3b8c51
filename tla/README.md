# Temporal Field Kernel: TLA+ project

TLA+ models of the temporal field kernel, TLC configurations that check them on small
instances, and TLAPS proofs of what matters most for every instance. Source paths below are
relative to the repository root; `PROJECT.json` holds the definition-by-definition map to source
lines, the runs, the mutants of every property, the hazards and the theorems.

    tlc -workers 2 -config MCTemporalStore.cfg MCTemporalStore     # any MC*.cfg with its module
    tlapm KernelApiProofs.tla                                      # any *Proofs.tla

## 1. The system

`tfkd` (crates/tfk-daemon) is one process per start. It serves the routes of crates/tfk-api on a
Unix socket, on a multi-threaded tokio runtime. All routes share one `Mutex<Store>`
(crates/tfk-store): a SQLite connection in WAL mode and the path of a JSONL archive. Nothing keeps
two daemons from opening one data directory, so SQLite's write lock and the append mode of the file
are the only order between processes. A forecast may call a model behind a pipe, a process started
for each call (crates/tfk-model-client, python/tfk_predictor). A vector index may hang behind the
store (crates/tfk-vector). Rules (crates/tfk-rules), the lens and scoring (crates/tfk-core) are
pure computations over what a handler has read. `tfk` (crates/tfk-cli) and the MCP bridge
(crates/tfk-mcp) are clients of the socket. The evaluation harness (crates/tfk-eval) replays
fixtures on stores of its own, with its own copy of the lens handler's selection.

| component | state | operations | what makes it correct |
|---|---|---|---|
| store: continuations, commitments, deltas | the three tables, SQLite's write lock | `create_continuation`, `create_commitment`, `assimilate_delta` | deltas apply whole or not at all; the log accounts for every status; a non-revocable commitment is never retired; a finished continuation takes its active commitments with it |
| api: writing handlers | mutex (free, held, poisoned), each request's progress | continuation, commit and assimilate handlers, crash, restart | a row made outside a delta's transaction stays out of it; an obligation gets one commitment, and gets it |
| store: raw archive | JSONL file, `raw_events`, `raw_events_fts` | `append_raw_event`, `search_raw_events` | rows point at their lines; a search misses an answered event only for its limit or for word matches; the file can rebuild the rows |
| store: relations | edge table, unique index | `Store::open`'s migration, `create_continuation_relation` | the triple is an idempotency key whose first reason is kept and answered |
| store: continuation search | none | literal, token and commitment search, the vector index | below its limits it is complete, and closed rows use up none of them |
| api: lens handler | a request's progress and what it has read | `lens_handler`, a read at a time | constraints hold; a blocked continuation is not advanced; the answer rests on what it names; the fallback hides nothing |
| core: lens card and rule facts | none | `LensEngine`, `lens_rule_facts` | the pressure on a continuation follows from that continuation alone; a deferred one yields |
| api: forecast | worker threads, mutex, signal rows | `forecast_handler`, `record_advisory_forecast_signals` | constraints are current; provenance is rows; requests end |
| core: preflight, forecast scoring | none | `PreflightScorer`, `ForecastScorer` | commitments only restrain |
| model client | child process, three pipes | `forecast_with_status` | the call returns, leaves no process, parses whole outputs |
| rules | facts, rules | `assert_fact`, `add_rule`, `evaluate` | the least model, reached in finitely many rounds |
| daemon: socket lifecycle | directory, socket path, process | `serve_uds` and its helpers | a lone start serves; of starts together one is reached |
| cli, mcp: clients | a connection, a byte buffer | one request | whole responses of the right handler; failures have their cause in the daemon or its connection; calls end |
| eval: lens selection | a store of its own | `lens_from_store` | it evaluates what the daemon serves |
| vector, protocol, eval replay | none of their own | adapters, wire types, replay | see section 7 |

How components interact, and where that is hard:

- **Critical sections.** A handler may lock the store more than once. `commit_handler` does it
  twice (obligation, then commitment), `forecast_handler` does it around its model call, which
  takes as long as the model likes, and `lens_handler` reads statement by statement. On this daemon
  or another, anything may run in between.
- **Poisoning.** A panic under the mutex (a vector index may panic) poisons it: every later handler
  answers 500, and only a restart helps.
- **Statements without a transaction.** Only `assimilate_delta` has one. The archive append (file,
  row, full-text entry), the relation INSERT and its SELECT, the migration's DELETE and its CREATE
  INDEX, the loop over a forecast's signals and the reads of a lens are separate effects. Each
  write may be the last before an error or a crash, and each read may see another state.
- **Processes.** Daemons start together on one socket path; sidecars exit, hang or print whenever
  they like; pipes are bounded; daemons, or the task of one connection, end within a response, and
  clients give up on it.
- **Limits and copies.** Searches are cut at 20 rows, 4 tokens, 50 rows a token. The selection
  behind a lens exists twice.

`PROJECT.json` "hazards" lists each of these at its line, with the properties that would catch it
going wrong or the reason why none does.

## 2. Modules

    CommitmentLedger  <--refines--  TemporalStore  <--extends--  KernelApi
    WriteOnce         <--refines--  RelationStore
    RuleEngine        <--extends--  LensRules  --instances-->  LensEngine
    LensEngine <--extends-- ContinuationSearch <--extends-- LensHandler <--extends-- LensHarness
    ForecastScorer    <--extends--  Forecast
    DaemonSocket      <--extends--  UdsHttpClient
    RawArchive    StdioSidecar

Each component's module declares its state, `...Init`, an action for every operation (or for every
step of it that others can observe), `...Next`, the specification and the properties. Modules
without variables are computations, as operators. `MC*` modules give constants their values;
`*Proofs` modules hold theorems. A definition marked "Variant" is what a plausible bug would make
of the definition below it; `PROJECT.json` "mutants" uses it to show that a property can fail. It
is part of no specification.

**`TemporalStore`** (crates/tfk-store/src/lib.rs). `contStatus`, `commitStatus`, `commitCont`,
`revocable` are columns, with `"none"` (or the empty set) for an id without a row;
`temporalDeltas` is the log table. `tx` is the open write transaction with its own copy of the
statuses: readers see the tables, the transaction sees its copy, and the copy becomes visible with
`CommitDelta` or is dropped with `RollbackDelta`. `create_continuation` and `create_commitment` are
one INSERT and one action each. `assimilate_delta` is many: `BeginDelta` (duplicate targets are
refused before it; the log row), `PreCheckRetires`, a `SkipChange` or `ApplyChange` for every turn
of the loop, `CommitDelta`. An error at any statement, a rejection or the death of the process is
`RollbackDelta`. `born` and `madeAt` are history.

**`KernelApi`** (crates/tfk-api/src/lib.rs) runs requests on the daemons that `Home` names, over
the tables of `TemporalStore`. A daemon has one connection to the database and several threads, so
that a statement belongs to whatever transaction its connection has open: `InsertContinuation` and
`InsertCommitment` write to the copy of an open transaction of their daemon, and to the tables
otherwise. That the mutex (`holder`, `CanLock`) never lets the first happen is no part of the model
but what `InsertedIsKept` says of it. A critical section that is one statement is one action;
`AssimilateLock`, `AssimilateBegin` and `AssimilateStep` are those of a delta, with the mutex held
throughout. `CommitObligation` and `CommitLink` are the two critical sections of `commit_handler`,
and the requests of other threads and daemons run between them. `Crash` and `Restart` lose requests
and the mutex.

**`CommitmentLedger`** states what the two promise together: a commitment is made once, settled at
most once, several at a time, and never released if it is binding.

**`RawArchive`** has the file as a sequence of cells, two for a line, so that a line can be torn.
Each effect of `append_raw_event` is an action, and after each one the append may be abandoned.
Contents are sets: `LikeMatch[q]` are the events whose content contains the text, `TokenMatch[q]`
those that have it as whole tokens. A search is two SELECTs with other daemons' appends in between:
the full-text query, and, only if it finds nothing or fails, the one for substrings, so that one
event with the text as a word hides those with the text inside a word. Either returns at most
`SearchLimit` rows (20 in the code). Which ones of more is left open: the first query has no order,
and the model has no times for the second to order by.

**`RelationStore`** opens the store (create the table, delete duplicates, create the unique index)
and serves requests, on several daemons that may each die anywhere. **`WriteOnce`** is its
specification: a triple's reason is written once, and the answers are the written one.

**`ForecastScorer`** (crates/tfk-core) has preflight, the scores of a forecast and their order.
A request's number is a count of `Unit`-ths, and any whole number: the code clamps and does not
refuse. A score counts hundredths of that, so that the weights 0.55 and 0.25 stay whole. The sort
is stable and by score alone.

**`Forecast`** has `fc[r]` for the progress of a forecast's handler. A commitment is in force while
its row is active and its continuation is too (`InForce`, the join of the code's query):
`Assimilate` moves any continuations to any standing, so that it may take a commitment out of force
and back while its row stays active, and releases those of a finished one. `ServeOther` is such a
write, or a commit, by another handler of this daemon, and `ServeElsewhere` by another daemon, which
may fall between the reads of two continuations' commitments (`ReadConstraints`, a query each). A
request needs one of `Workers` threads, and keeps it through its model call. It ranks with
`ForecastScorer` under the constraints it read, which it then drops (`Done`). `ever` and `always`
are history: the commitments in force at some moment, and at every moment, from a forecast's start
to the end of its read.

**`StdioSidecar`** is `forecast_with_status` of the stdio client against a sidecar given as a
program: a sequence of reads, prints, closes and an exit. Pipes hold `Cap` units.

**`RuleEngine`** has terms, unification, matching, and rounds of `evaluate`. **`LensRules`** is
`lens_rule_facts`: the facts of every living continuation, the rules of rules/core.dl, one
evaluation. `RuleFactsFollowInput` says that what the engine derives is what `LensEngine` computes
directly (`PressureFacts`), which is what allows the lens models to go without the rule engine.

**`LensEngine`** (crates/tfk-core) maps a request, continuations, relations, rule facts and vector
hits to a card. A text is what the query finds in it: the whole query (`phrase`), some of its
tokens, the two markers the engine looks for. Weights are whole millionths; the code multiplies
f64, so two activations closer than that may come out in the other order. A card's `active` is the
set of what it shows, `Precedes` the order that the code sorts it in, and `CardOfFirst` the card
that the first of them asks for. The card of an obligation has the stance "act" also where a rule
makes its own delta "verify"; the model has that too.

**`ContinuationSearch`** (crates/tfk-store) has a SELECT as an operator each, over the tables it is
given, with the limits as constants. `at[id]` and `age[id]` are when a continuation was last updated
and its commitment made, by which the queries sort, and `now` is the time of the next write: no two
rows have one time. `Ranked` lists a finite set in a strict total order, as ORDER BY and `sort_by`
do; `InOrder` is the order of a search's hits. The cut of a query at 256 characters and LIKE escapes
other than that a query has wildcards (then no token is searched for) are left out.

**`LensHandler`** (crates/tfk-api) is `lens_handler`: every SQL statement is a step, since the
handler opens no transaction. `OtherDaemon` creates, assimilates, commits and relates in between.
The requests and tables to begin with are `Cases`, which need only be as the store keeps them
(`WellFormed`, `IsRequest` in `LensAssumption`). Left out: the advisory signals a lens lists, which
nothing else on the card depends on; the texts (also those of `avoid`); and that only one of the
searches trims the query.

**`LensHarness`** (crates/tfk-eval) is `lens_from_store`, on the same tables, compared with the
handler by `HarnessAgrees`. It searches closed continuations too, which the handler does not; the
property excepts the two cases in which that changes a card: a closed continuation matches the
query, or takes a living one's place among a token's fifty rows.

**`DaemonSocket`** is `serve_uds`, a system call a step, for several daemons on one path. A socket
is named by the daemon that bound it, so the path tells who is reached. The directory may be the
empty parent of a bare file name (`--uds tfkd.sock`): it is not found, `create_dir_all` takes it for
made, and `set_permissions` does not find it, so that every start on such a path fails. Any system
call may also be denied for reasons of the system's own (`CallFails`), and `denied` (history) has
the daemons it happened to.

**`UdsHttpClient`** (crates/tfk-cli, crates/tfk-mcp, with the router of crates/tfk-api) is a call of
either program, next to the starts of `DaemonSocket`. A command has a method and a path, the daemon
a table of routes, and `Handle` is a handler the route of some command leads to. A response is
`Total` bytes, sent and read in pieces of any size. A connection ends with its daemon, or alone
(`CloseConnection`): a panic in a handler unwinds the connection's task and the daemon goes on.
`RefuseLong` is the answer 413 of the body limit, which is axum's own and comes before a long
request has been read. The two programs differ: `tfk` asks for the status of the response before its
length, `tfk-mcp` parses the body whatever the status, and answers `ok: true` for an API error that
came as JSON (a test of crates/tfk-mcp has it so). `McpChecks` are more than `CliChecks`; a blank
lens query, for one, is refused by `tfk-mcp` and sent by `tfk`.

## 3. Runs

State counts are distinct states. No run uses symmetry: most instances name their members, and
several check liveness.

| run | instance | shows |
|---|---|---|
| `store` (360 239) | 2 continuations, 2 commitments, 7 change lists, 2 deltas | `TypeOK`, `NonRevocableKept`, `FinishSettlesCommitments`, `DeltasExplainContinuations`, `DeltasExplainCommitments`, `TxEnds`, and that the store implements `CommitmentLedger` (`LedgerSpec`) |
| `kernel` (48 750) | 2 daemons, 3 requests at once, panics and crashes, 2 change lists | `InsertedIsKept`, `OneCommitmentPerObligation` |
| `archive` (269 822) | 2 daemons, 3 events, 2 texts, a limit of 2 | `SearchMissesForCause`, `RowPointsAtItsLine`, `LineNotBeforeOffset` |
| `relations` (2 787) | 2 triples, 2 reasons, 2 daemons, 3 legacy tables, 3 rows | `IgnoredHasEdge`, `MigratedEdgesUnique`, and that the table implements `WriteOnce` (`EdgesSpec`) |
| `forecast` (158 441) | 2 forecasts, 1 other request, 1 write of another daemon, 2 workers, 2 signals | `ProvenanceIsStored`, `ConstraintsCurrent`, `CommitmentsOnlyRestrain`, `PoisonedStoreUntouched`, `RequestsEnd` |
| `sidecar` (283) | 10 programs, a request of 3 units, pipes of 2 | `NoSidecarLeft`, `SignalsFromWholeOutput`, `CallReturns` |
| `rules` (41 057) | a program with 4 facts and 5 rules; a lens with 2 continuations | `LeastModel`, `CountsWhatItAdds`, `RuleFactsFollowInput`, `EvaluateEnds` |
| `lens` (298 389) | four families of tables and requests, limits of 2 | `ConstraintsHold`, `BlockedNotAdvanced`, `AnswerIsGrounded`, `LivingMatchesShown`, `RecallHidesNothing`, `DeferredYields`, `HarnessAgrees` |
| `daemon_socket` (70 108) | 2 daemons, 10 beginnings, 1 call of either program | `FailsOnlyWithCause`, `SomeoneServes`, `StartEnds`, `AnswersAreWhole`, `FailsForTheDaemon`, `CallsEnd` |

The type invariants of the other modules are proved (section 5) instead of run. Why the bounds are
enough:

- `store`: a change list touches at most two continuations in its effects on one commitment, and
  the log's properties compare a commitment with the deltas before and after it was made, which two
  deltas give. The seven lists are one for each way through `assimilate_delta`. A third commitment
  behaves as one of two, since no statement relates two commitments. The proofs of section 5 cover
  every other size.
- `kernel`: two requests on one daemon compete for a mutex, a third on another daemon only for
  SQLite's lock; the races of `commit_handler` need a committing, an assimilating and one other
  request at most.
- `archive`: a torn line, the line glued to it and one behind them are three; the texts make one
  event a hit by token and another only by substring, and three matches exceed the limit of two that
  stands for 20.
- `relations`: a legacy table has a triple twice, with another triple in between; three rows allow
  a new edge beside what the migration leaves.
- `forecast`: two forecasts fill both workers, and one names two continuations. Commitments begin
  with and without a row, and continuations in any standing, so that the two writes, one by this
  daemon and one by another, are enough to take a commitment out of force and back, or to make and
  release one, at any moment of a request. Two signals are the fewest of which one can be stored and
  one not. The actions to
  rank are on a continuation with a non-revocable commitment, on one with a revocable commitment
  and on none; two of them tie but for a commitment, a consequence is exactly one half, and some
  numbers need clamping. Other numbers: the proof.
- `sidecar`: the request is longer than a pipe, which is what makes writing block. The programs
  differ in what they read before they print, and in how much.
- `rules`: the rules include a recursive one, a repeated variable, a literal in a head, an empty
  body, a head variable that nothing binds, and one predicate with two arities. The lens takes
  every combination of statuses, markers and types of two continuations.
- `lens`: `Searching` has three continuations with every text that a query of three tokens can tell
  apart, so that three hits meet a limit of two; `Crowding` has five, so that a token has more rows
  than its limit; `Ranking` has two living continuations of four types in every combination of
  status, text, relations and markers, since an order relates two; `Racing` has two writes of
  another daemon at any two points of a request, the fewest that undo and redo what was read. The
  limits of 2 stand for 20, 4 and 50: no statement does more with a limit than cut a sequence.
- `daemon_socket`: two daemons race; the beginnings are all combinations of directory and path that
  a killed daemon or a user can leave. More daemons are covered by the proofs. One call: calls
  share nothing but the path. A header of 1 and a body of 2 bytes let a response break within
  the header's end, the body, and behind both.

Deadlock is not checked: in every model the bounded tables fill up, or the requests, calls and
starts are over, and the system may stop.

### Where the code disagrees with what is said of it

Three runs check one property each that TLC refutes.

- `commit_orphan`, `ObligationHasCommitment`. docs/api.md says POST /v1/commit "also persists a
  linked structured commitment row". The obligation and the commitment are two transactions: an
  error or a crash between them leaves an active obligation with no commitment. Trace: the first
  critical section, then `Crash` (or `CommitLinkFails`).
- `archive_rebuild`, `RowsRebuildable`. docs/architecture.md calls SQLite "the rebuildable
  projection". A partly written line is never truncated, so the next line is glued to it and the
  file no longer has the next event as a line of its own.
- `forecast_partial`, `NotPersistedMeansNone`. The handler warns that "forecast advisory signals
  were not persisted" after an INSERT fails, although the signals before it are stored.

## 4. Fairness

Liveness is stated under weak fairness of steps that the code takes without waiting for anyone
outside the model; starting something (a request, a delta, a daemon, a call) is never fair.

- `StoreFairSpec`: a thread inside `assimilate_delta` holds mutex and write lock, so each of its
  statements returns. `TxEnds` asks that one of commit, rollback or rejection is always possible.
- `FairSpec` of `Forecast`: the runtime runs handlers that can run, and a request's turn for a
  worker comes. `FairModel`, kept apart, says that model calls end. A sidecar that hangs keeps its
  worker, and as many of them as workers stop the daemon; `RequestsEnd` is therefore conditional on
  `FairModel`, which the code does not enforce (the client has no timeout).
- `FairSidecar`: the client's thread and the sidecar run while the pipes let them. `CallReturns`
  excepts sidecars that fill an output pipe before they have read enough of the request: both
  sides then wait for each other, as the code writes everything before it reads anything.
- `Spec` of `RuleEngine` and `UsesSpec` of `MCRules`: a round is a computation.
- `Spec` of `DaemonSocket`: every step of a start is a system call that returns. A start may still
  be killed between any two.
- `ClientSpec`: that, and the client's steps are fair: they are the kernel's, and a clock's. The
  daemon's are not: all its workers may be in model calls. `CallsEnd` therefore rests on the ten
  seconds of each read. They bound no write, so that it excepts a request longer than the socket's
  buffer until it is written.

## 5. What is proved

TLAPS proves the following for every value of the constants, from the assumptions named in the
modules that declare them. The assumptions say that constants have their types (that the facts and
rules given to the engine are facts and rules, and that the words of the core rules are strings) and
that markers such as `NoTx` are no members of the set they stand beside; `NamesApart` says that no
daemon is called "none", "stale" or "file"; `LengthAssumption` that a header is not empty;
`UnitAssumption` that 1.0 is not 0. The bounds (`MaxDeltas`, `MaxRowid`, `MaxSignals`) are arbitrary
numbers. Each component has its type invariant as a theorem or as a conjunct of the inductive
invariant.

**Store** (`KernelApiProofs`): `TypeCorrect`, `NonRevocableIsKept`, `FinishingSettles`,
`ImplementsLedger`, `ContinuationsExplained`, `CommitmentsExplained`. None of the invariants is
inductive over the tables alone, since `CommitDelta` publishes a copy computed by earlier steps.
`TxInv` bounds what the copy may differ in: it may have settled active commitments, retired only
revocable ones, and has settled all commitments of every continuation it finished. `IInv` is
`TypeOK /\ TxInv /\ NonRevocableKept`. The retirement of a non-revocable commitment is excluded in
`ApplyChange`, whose guard repeats the pre-check's query: the pre-check alone would not do, since
the invariant speaks of a copy that the loop has changed since. For the log, `TxFollowsChanges`
adds that the copy is what the changes already applied say (here the refusal of duplicate targets
is needed: a later change of the same list could otherwise contradict an earlier one) and
`LogBounds` that `madeAt` is no position beyond the log and no delta names a continuation without a
row. The refinement maps `CommitDelta` to one `Settle` of all the commitments the copy closed or
retired, `CreateCommitment` to `Make`, and all else to stuttering.

**Handlers** (also `KernelApiProofs`): `KernelImplementsStore` shows that every handler, crash and
restart is a step of the store or leaves it alone, so the store's theorems hold of the daemons too
(`KernelImplementsLedger`, `KernelCommitmentsExplained`). It rests on the mutex: `MutexInv` says
that a request that assimilates has its daemon's mutex and that an open transaction belongs to such
a request, hence that whoever can lock is in no transaction (`InsertsAlone`). `KernelKeepsInserts`
and `KernelLinksOnce` rest on `KernelInv`, which adds that what a commit request holds between its
critical sections is an existing obligation that no commitment and no other request names
(`ObligationsHeld`).

**Archive** (`RawArchiveProofs`): `RawTypeCorrect`; `SearchesMissForCause`, for any limit, from
`IndexInv` (an answer comes after both INSERTs, and nothing deletes, so that either SELECT of a
search meets all that was answered before it began). `RowsPointAtLines`, from `OffsetInv`: as long
as one daemon only has appended, the end of the file does not move between seek and write, and
appending moves no line. `LinesBehindOffsets`, for any daemons, from `BehindInv`: what a daemon saw
as the end of the file is never beyond it, so its line is at that place or behind it.

**Relations** (`RelationStoreProofs`): `IgnoredFindsEdge`, `EdgesUnique` and
`ImplementsWriteOnce`, from `RelInv`: the DELETE establishes uniqueness, the index makes it
permanent, and every serving daemon has seen the index. That the least row of a triple keeps its
reason while rows are deleted and added is the step the refinement needs; the least row exists by
the library's well-founded order on the naturals.

**Forecast** (`ForecastProofs`): `ForecastTypeCorrect`; `RankingRestrained`, that for any actions
with any numbers, any relations and any commitments, commitments raise no score, waive no
confirmation or question, and let no action overtake one that they do not concern; hence
`CommitmentsRestrain` of the handler's answers. `ProvenanceStored`, from `Recorded` (the handler
that persists holds the mutex and has stored what it counts), and `ConstraintsAreCurrent`, from
`Current`: what is read was in force at some moment since the start; while the read goes on, what is
in force now is in `ever` and what is in `always` is in force, and each commitment of `always` has
been read or is on a continuation that is left to read. `PoisonedUntouched` is the
action property that after a panic under the mutex nobody of the daemon gets it again: what still
changes is what other daemons write.

**Lens** (`LensProofs`): all seven properties of the run, for any tables, requests, limits, writes
of the other daemon and answers of the vector index. First the lists: `Ranked` lists a finite set,
each member once, since ranks in a strict total order are the numbers below its cardinality
(`RanksAreOneToOne`, by the library's facts on injections), and LIMIT keeps all of what is no longer
than it. Then what each query returns (`SearchFinds`, `CommitmentsFound`, `EventsFound`,
`NearestFound`) and the engine's arithmetic (`Explained`, `DeferredPressesLess`, `RulesRaise`), and
what a write of the other daemon may disturb (`Disturbing`). The invariants rest on three: `History`
(the tables stay well formed, an untouched row is as it was when the request came), `Reading` (which
query has left what in the handler's lists) and `Outcome` (the answer is the card of what was read).
Upon them each property has its own, since the properties speak of the answer and the steps before
it must be accounted for:

| theorem | property | invariant |
|---|---|---|
| `AnswerGrounded` | `AnswerIsGrounded` | `Grounded`: each row read, or still to read, was found for a reason that the engine sees too |
| `CommitmentsBind` | `ConstraintsHold` | `Bound`: the constraints read miss only commitments whose row is still to come |
| `BlockedIsVerified` | `BlockedNotAdvanced` | `Related`: the edges read miss none that stood all the time, except those still to come |
| `RecallIsHonest` | `RecallHidesNothing` | `Recalled`: where a row contains the query something is read, and so is everything active that is linked to an event found |
| `MatchesAreShown` | `LivingMatchesShown` | `Complete`: below the limits nothing that matches is missed. The property counts at the answer and the search ran earlier; a write only adds rows that may take a place (`RoomWasThere`) |
| `DeferredNeverLeads` | `DeferredYields` | `Distinct`: no continuation is read twice, so that the facts of the rules on an id come from one row |
| `HarnessFollows` | `HarnessAgrees` | `Undisturbed`: without writes, the loops have read the sets that one reading of all queries yields, except what is still to come |

`DeferredNeverLeads` is arithmetic: a deferred continuation has 35 hundredths of the pressure, and
what can speak for it (the whole query against half of it, confidence, a bonus of
the index) is worth less than 20/7 with every rounding. `SameSearch` and `CopySelects` show when a
search that includes closed rows is the one that does not.

**Rules** (`LensRulesProofs`): `FactsAreLeastModel`, `CountIsRight`, for any rules and facts, and
`FactsFollowInput`, for any continuations. The heart is `NextAtom`: one turn of the loop over a body
takes the bindings under which the first n - 1 atoms are facts to those under which n are.
Unification is shown to yield the one extension of a binding that makes the atom the fact, or none
if there is none (`Extends`, `ExtendsAlone`), whatever literals and repeated variables the atom has.
The rest is `EngineInv`. It has the count, the closure under the rules once the engine has settled,
and `Sound`: every model of the rules that has the asserted facts has all of the engine's. That is
what makes the invariant inductive, as a new rule or fact leaves fewer models. `LeastModel` speaks
of steps instead of models; it follows since each step of `FollowsIn` adds a fact until none is
missing (`LeastModelFollows`). `EvaluationIsBounded` is the argument behind `EvaluateEnds`: rounds
that go on raise the count, and heads build no values, so that the count has a bound (`HeadFacts`)
which stands still while `evaluate` runs. For the lens, `CoreConcludes` writes out what the eight
rules conclude in one step; the facts that hold of the continuations are closed under it
(`StepsAllowed`), hence by `Sound` there are no others, and by the closure all of them are there.
Since tlapm has no induction here, a claim about every n is shown by the least n for which it fails.
`Strings` is a constant because tlapm does not know that a literal is a member of `STRING`, which is
its value in the run.

**Sidecar** (`StdioSidecarProofs`): `SidecarTypeCorrect`, `CallsLeaveNoSidecar` and
`SignalsAreWhole`, for any programs, request and pipes. The last rests on `Conserved`: what the
client has collected and what is in the pipe are together what the sidecar has printed so far, and
signals are parsed only when the pipe is empty and the sidecar has exited.

**Daemon** (`DaemonSocketProofs`): `TypeCorrect` and, for any number of daemons,
`FailuresHaveCause`, from `CauseInv` (a start that no other start overlaps and that is denied no
call finds the path as its last look saw it), and `StartsLeaveAServer`. `SomeoneServes` speaks of
the moment when all starts are over, so the invariant speaks of the time before: while nobody is
killed or denied a call, a path that leads nowhere has a start that will still bind it, a stale
socket has a start that will still remove it, and a socket has its daemon (`ProgressInv`, with
`OriginInv` on what can be at the path).

**Clients** (also `DaemonSocketProofs`): `CallsLeaveStarts` (calls and daemons' answers leave the
starts alone, so that the theorems on daemons hold beside clients), `ClientTypeCorrect`,
`CallsReportWhole`, `CallsFailWithCause`, for any number of calls and any lengths. `ClientInv` is
that a call which is no longer new has its daemon, which has listened once and will not listen
again when it has ended, that no response is ahead of its handler and nothing is received that was
not sent (`Connected`), and that every outcome has its reason (`Explained`): a connection that is no
longer `Open` never is again, whether its daemon or its task ended. `OwnHandler` is the fact
about the tables: the route of a command leads to the
handler of that name and to no other.

## 6. What is only model-checked

- Liveness (`TxEnds`, `RequestsEnd`, `CallReturns`, `EvaluateEnds`, `StartEnds`, `CallsEnd`): it
  needs `ENABLED`, which the prover does not do.

All invariants and action properties that the runs check are theorems.

What the lens properties do not promise: `LivingMatchesShown` holds below the limits. Beyond
them the code does lose matches (the token search cuts a token's rows at fifty, oldest first,
before it drops those with too few tokens), and no document says otherwise.

## 7. What is not modelled

- Power failures: `flush` is no fsync and SQLite runs with synchronous=NORMAL. That needs the page
  cache and the WAL below every table here. The death of a daemon, which loses neither, is modelled.
- The HTTP listener of the daemon: optional, and without state of its own.
- The vector adapter and its indexes: a trait, a no-op and a capability probe. What the store calls
  of it is modelled where it does: errors are dropped, panics poison the mutex (`KernelApi`,
  `Forecast`) and end the connection (`UdsHttpClient`), and a search answers anything it may
  (`LensHandler`).
- Wire types beyond the enumerations: serde shapes, titles, scopes, texts. Ids are fresh, since
  they are version 4 UUIDs.
- Timestamps: order by `created_at` compares text, which is a hazard on the list. Rows are ordered
  as they were made, which is what one clock and one format give.
- The evaluation harness beyond its lens selection: loading fixtures, replaying them in sequence,
  and the metrics of a report are a batch without state that outlives it.
- Argument parsing and bodies of the CLI, and the MCP schemas. Of the checks before a request is
  sent the model has which commands have one.
- A retried request: no client retries, and `observe` or `commit` sent again by a user is stored
  again. That a call which timed out may have been served is in `UdsHttpClient` (`Handle` asks
  nothing of the client); `tfk-mcp` reports it as a degraded daemon, like one it could not reach.
- Two daemons on one socket path: a second start removes a live daemon's socket and leaves that
  daemon unreachable. `DaemonSocket` has that behaviour; no document says what should happen, so
  `SomeoneServes` only asks that the newer one is reached, and `FailsForTheDaemon` that calls on the
  older one go on.
- Grandchildren of a sidecar: one that keeps an output pipe open would keep `forecast_with_status`
  waiting after the sidecar has exited.
- The write of a request has no time limit, so a client may hang on a daemon that accepts and does
  not read: `CallsEnd` says nothing of it (section 4).
- The search limits as such: what is beyond 20 rows, or behind fifty of a token, is not found, which
  `SearchMissesForCause` and `LivingMatchesShown` except.

## 8. Plan

Done, in this order: `CommitmentLedger`, `TemporalStore`, `KernelApi`, `RawArchive`, `RelationStore`
with `WriteOnce`, `Forecast`, `StdioSidecar`, `RuleEngine`, `LensRules`, `DaemonSocket`; then
`LensEngine`, `ContinuationSearch`, `LensHandler`, `LensHarness`, `ForecastScorer`, `UdsHttpClient`;
and the proofs of section 5.

Left:

1. `TimestampOrder`: text order of RFC 3339 against time, with several daemons' clocks, under
   `ContinuationSearch`'s order.
2. The safety half of the other liveness properties as theorems, as for `EvaluateEnds`: a measure
   that each fair step of a start, a call or a sidecar lowers.
3. Power failure below `RawArchive`: a page cache for the file and a WAL for the tables, which a
   checkpoint syncs separately.
