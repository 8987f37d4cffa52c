# OpenZeppelin Monitor: TLA+ models and proofs

The monitor watches blockchains: per network a cron job fetches the new confirmed
blocks, filters each against the configured monitors, and triggers notifications for
the matches. This directory holds TLA+ modules of it, the TLC configurations that check
them, and TLAPS proofs about them. Source paths below are relative to `src/` of the
repository.

To check a module: `tlc -config X.cfg M.tla`. To check proofs: `tlapm M.tla`.
`PROJECT.json` lists the components with their status, the runs, the map from
definitions to source lines, the mutants and the hazards with the properties that cover
them.

## The system

| Component | State | Operations | Interacts with |
|---|---|---|---|
| `main`, bootstrap (main.rs, bootstrap/mod.rs) | configuration, scripts, watchers, the shutdown channel | load, start the watchers, wait for a signal, stop, exit | everything |
| `BlockWatcherService`, scheduler jobs (blockwatcher/service.rs) | map of running watchers; one scheduler each | start and stop a network; jobs at cron times | starts runs of `process_new_blocks` and `process_missed_blocks`, which may overlap |
| `process_new_blocks` (blockwatcher/service.rs) | locals of a run; two channels; a reorder buffer | read last block, ask for blocks, detect holes, process up to 32 at a time, trigger in order, store, save last block | clients, storage, tracker, handlers |
| `BlockTracker` (blockwatcher/tracker.rs) | last 1000 numbers and the next expected one, per network, behind mutexes | detect holes, check a number, reset | shared by all runs of a network |
| `FileBlockStorage` (blockwatcher/storage.rs) | last-block file, block files, missed-blocks file; no locks | read, truncate and write whole files | watcher and recovery job |
| `process_missed_blocks` (blockwatcher/recovery.rs) | entries selected in a run | prune, select, mark, fetch one block, trigger, mark, remove | storage, clients, handlers |
| block and trigger handlers (bootstrap/mod.rs) | spawned tasks | filter a block; run filter scripts and triggers; give up at shutdown | filters, trigger service |
| HTTP transport (blockchain/transports/http) | active URL, fallback URLs, rotation lock | send, rotate, connect | shared by all tasks of a network |
| WebSocket transport (blockchain/transports/ws) | one connection, URL lists, locks | connect, send and read, rotate | Midnight client |
| client pools (blockchain/pool.rs, notification/pool.rs) | clients behind `RwLock`s | get or create | handlers, notifications |
| chain clients (blockchain/clients) | none | latest block, blocks of a range, transactions, events, receipts, logs | transports |
| filters (filter/filters) | none | match a block against monitors | clients, expressions |
| expressions (filter/expression, the evaluators) | none | parse, evaluate a condition on arguments | filters |
| match handling (filter/filter_match.rs) | none | turn a match into template variables | triggers |
| triggers, scripts, notifications | child processes, clients | run scripts with a time limit; deliver with retries | handlers |
| repositories, configuration, secrets | loaded once | load, validate, cross-check | bootstrap |
| `execute_monitor` (bootstrap, main) | none | one monitor on one block | filters, triggers |
| metrics, logging, data models | counters | serve, print, convert | none |

What is hard in it:

- Ticks overlap, because the scheduler does not wait for the previous run; the
  last-block file and the missed-blocks file are rewritten in place and without locks,
  by runs that interleave and may die in between.
- A run's blocks are processed out of order and must be triggered in order; a handler
  may panic, which ends the stage it runs in, and nobody looks at the stage's result.
- Triggers run in tasks nobody awaits, with scripts and servers that may never answer,
  and a shutdown that only subscribers hear.
- Many tasks share a URL list or the one connection of a client, and rotate it while
  others use it; pages are read from chains that grow meanwhile.
- Which transactions match depends on eight combinations of conditions per chain, on
  expressions with precedence and errors, and on arguments decoded with a contract's
  declaration that need not be the event's own.

## Modules

State and actions follow the code: a variable has the name of the local, field or file
it stands for, an action that of the function or step. Data is abstracted to what the
properties tell apart. Definitions whose comment begins with "Mutant" are deliberately
wrong variants of the definition that follows; putting one in its place makes TLC refute
the property that `PROJECT.json` names for it, and nothing else uses them.

| Module | Models | Uses |
|---|---|---|
| `BlockTracker` | the tracker's operations, one action each (both mutexes are held throughout) | |
| `TrackedRuns` | runs that overlap and call one tracker | `BlockTracker` |
| `OrderedDelivery` | abstract: each number of a set once, in ascending order, until what is left is given up | |
| `BlockPipeline` | main and both stages of `process_new_blocks`, channels, buffer, panics | `BlockTracker`; implements `OrderedDelivery` |
| `BlockWatcher` | runs of `process_new_blocks` from tick to saved last block, the files, the client, trigger tasks, crashes; a run is taken as `OrderedDelivery` | |
| `RecoveryLifecycle` | abstract: the life of a missed block's entry | |
| `MissedBlockRecovery` | the missed-blocks file, its writers, the recovery job | implements `RecoveryLifecycle` when alone with the file |
| `EndpointManager` | tasks that send requests over HTTP and rotate the URL | |
| `WebSocketTransport` | tasks that share one connection, its streams, rotation | |
| `Transports` | a client over either transport, and what both promise | `EndpointManager`, `WebSocketTransport` |
| `ChainClients` | the calls of all four clients that take several requests | |
| `Values`, `EVMEvaluator`, `StellarEvaluator`, `SolanaEvaluator` | texts by kind, comparisons of each chain | |
| `Expressions` | parser, accessors, evaluation | the evaluators |
| `Filters`, `EVMFilter`, `StellarFilter`, `SolanaFilter`, `MidnightFilter` | what matches, and what a match records, with the decoding of EVM logs and of Stellar events | `Expressions` |
| `MatchHandling` | `handle_match`: the variables made of each match | |
| `FilterService` | `filter_block` as steps with failing requests and panics, then the matches handled | the filters, `MatchHandling` |
| `FilterProperties` | the meaning of expressions and the documented rules, without the filters' loops | `FilterService` |
| `ClientPool` | `get_or_create_client` behind a fair lock, with failures and dropped callers | |
| `TriggerDuties` | abstract: every match judged once, every trigger answered once | |
| `TriggerHandler` | trigger tasks of several blocks, scripts, sends, retries, shutdown | `ClientPool`; implements `TriggerDuties` |
| `Configuration` | loading of the three directories and validation | |
| `MonitorExecution` | `--monitor-path` | `Configuration` |
| `ServiceRuntime` | the process: start, watchers, block handlers, trigger tasks, shutdown, crash, restart | `MonitorExecution` |
| `MCBlockPipeline`, `MCBlockWatcher`, `MCMissedBlockRecovery`, `MCTransports`, `MCChainClients`, `MCFilterService`, `MCTriggerHandler`, `MCServiceRuntime` | instances for TLC | |
| `BlockPipelineProofs`, `BlockWatcherProofs`, `MissedBlockRecoveryProofs`, `ChainClientsProofs`, `TriggerHandlerProofs`, `TransportsProofs`, `ServiceRuntimeProofs`; `SequenceLemmas` | theorems about the module of the name (those about `TrackedRuns` are with `BlockPipeline`'s, the other caller of the tracker, those about `ClientPool` and `MatchHandling` with `TriggerHandler`'s); lemmas on numbers and sequences | |

How some of the state corresponds to the code:

- In `BlockPipeline` a channel is a pair of positions in the list of what was sent, so
  that a reader moves a position. `HandlerPanics` ends stage 1 with what it holds;
  `FailToFeed` is main's send into the channel that is then closed.
- In `MissedBlockRecovery` every file operation has three steps (load and change,
  truncate, write), because `tokio::fs::write` truncates before it writes and nothing
  excludes others; two writes that overlap may leave a file that does not parse. `Jobs`
  and `Watchers` are runs of the two cron jobs; any of them may overlap.
- In `EndpointManager` and `WebSocketTransport` a URL stands for its endpoint, which is
  up, limited (it accepts connections and answers no request) or down, and changes.
- In `ChainClients` an item of a chain has a height, a name and addresses; a node has a
  head, and pages, cursors and the lists a call collects are positions in the chain, so
  that what is returned, repeated or missed can be told by position. `HistoryAssumption`
  says what a chain is: in the order of heights, with one ledger of a sequence number and
  one block of a slot. The transactions of a virtual block of Solana are in any order, as
  `buffer_unordered` returns them.
- In the filter modules a text is a form and what its parsers make of it: a word of
  syllables, a number, an address, a JSON tree, or a list that is printed without quotes.
  A wide number comes in two words. An EVM log has its topics and data, a Stellar event
  its topics and a map, vec or single value, and each is read with the specification
  the monitor has. A signature is a name and the number of arguments; kinds in
  signatures are left out.
- In `StellarFilter` and `SolanaFilter` a transaction condition sees the parameters the
  filters build; a Solana transaction's accounts are one word of syllables with pipes
  between them. Of an EVM transaction its own fields are one list, `args`.
- In `ServiceRuntime` a run asks for the blocks that `max_past_blocks` leaves and gets any
  part of them; each block of a run is queued, being filtered, filtered, handed over or
  lost. A panic takes what is queued or being filtered in its run, a failing file ends the
  run without a save, and only the last processed blocks survive a crash. A run of a
  network, its stages included, has ended when the next one begins.

How they compose: `BlockPipeline` is shown to implement `OrderedDelivery`, which
`BlockWatcher` takes a run for, for handlers that do not panic. `ServiceRuntime` has the
pipeline as far as shutdown, failures and panics can tell its steps apart.
`TriggerHandler` runs its sends on `ClientPool`. `FilterService` puts filters, expressions
and match handling together. `Transports` states the same properties of both transports.

## Runs

| Run | Config | Question |
|---|---|---|
| `tracked_runs` | `MCTrackedRuns.cfg` | What verdicts mean when runs share a tracker: the history is the recent window, a number is recorded again only once evicted, `OutOfOrder` is said only to a run that another has overtaken. |
| `pipeline` | `MCBlockPipeline.cfg` | Each fetched block is triggered once and in order, the run ends and is not falsely warned, the pipeline implements `OrderedDelivery`; after a panic, what was handled before it is triggered. |
| `watcher_single` | `BlockWatcherSingle.cfg` | From the first start, runs one at a time and RPC errors: no block twice, the saved block never regresses, every confirmed block is notified. |
| `watcher_crash` | `BlockWatcherCrash.cfg` | Two overlapping runs, lagging nodes, failing files, crashes anywhere: no hole below the last processed block that nothing records. |
| `recovery_quiet` | `MissedBlockRecoveryQuiet.cfg` | The job alone with the file: life cycle, single trigger, no entry forgotten, each resolved. |
| `recovery_racing` | `MissedBlockRecoveryRacing.cfg` | Two runs of the watcher and two of the job race, operations fail, files are garbled, the process crashes: no block is given up before it has failed `max_retries` times. |
| `recovery_lost_update` | `MissedBlockRecoveryLostUpdate.cfg` | Violated: concurrent load, change and save loses an entry. |
| `transports` | `MCTransports.cfg` | Two tasks on either transport: no URL lost or doubled, rotations do not mix, an answer goes to its own request, requests return. |
| `clients` | `MCChainClients.cfg` | Answers for a range miss nothing, repeat nothing and are ordered, on chains that grow while they are read; calls return. |
| `matching` | `MCFilterService.cfg` | Expressions mean what their tokens say; comparisons agree with each other; a block yields the documented matches, named cases excepted; evidence is real and variables come from it. |
| `triggers` | `MCTriggerHandler.cfg` | Tasks of two blocks do what `TriggerDuties` promises, one match at a time, within the retry policy, with one client per key, and end, also at a shutdown. |
| `service` | `MCServiceRuntime.cfg` | Only complete configurations are accepted; active networks are watched; with skipped and undelivered blocks, panics, failing runs, a signal, a crash and a restart, a match is lost only to the events that `NoMatchLost` names; shutdown completes. |

The type invariants hold at the same bounds; all but that of the filters are proved, as
part of the inductive invariants, and `TransportsInv` types the transports.

Bounds, and why they are enough. Two is the smallest number of runs, jobs, tasks or blocks
that can interleave, and the properties relate at most two of them. Four block numbers give
every pattern of holes at an end, inside and next to one another, in any order of the list;
a window of two lets an eviction and a duplicate meet within six checks. In `watcher_*` the
chain grows past `max_past_blocks`, so that skipping happens, and a run may fail or lag at
every height. `watcher_crash` starts without a last-block file or with one of an earlier
run, stores its blocks, and an answer may leave out a block (`MaxLeftOut`); its runs are
interchangeable (`RunsAlike`: no action and no part of `NoSilentLoss` tells them apart),
and its view (`LossView`) leaves out the block files, the trigger tasks, what they notified
and the blocks handed over twice: no guard, no other variable and no part of `NoSilentLoss`
reads them. In `recovery_*` two attempts tell the first from the last, four blocks with two
per run let the oldest starve the others if they could, and the confirmed block moves far
enough to prune some. `recovery_racing` has one block, because what may be given up too
early is a single entry, and two runs of either kind, which are interchangeable
(`Overlapping`); in all three, attempts fail only while the entry in the file counts fewer
than `MaxCount` = `max_retries` failures. That cuts off nothing in the undisturbed runs,
and in `recovery_racing` only attempts at a block that has failed `max_retries` times
already. In `transports` there are one to three URLs, so that a rotation has no, one or
more candidates; an endpoint changes twice (once under a WebSocket, `MaxWsChanges`). In
`clients` a page has two items and a head moves from 2 to 5, so that a range takes several
pages and may end before, at or after a page. In `matching` the scenarios are every
expression of up to four conditions over a true, a false and an erroneous one, parentheses
and broken ones included; every kind of value against every type of literal; every
combination of conditions with what a transaction holds, on each chain, with operations on
Stellar of which only the second satisfies a condition, and fee bumps; and events of three
arguments, any of them indexed, read with their own declaration, another one or none.
Numbers have 4 bits there, in words of 2, so that all signs and carries occur. In
`triggers` the two blocks share a client and include a filter script, a script that never
ends and a silent server. In `service` there is a valid configuration of two networks and
one variant for each rule that rejects one; one network has three blocks, of which
`max_past_blocks` may skip the first, so that a run has a block before and one after each
that is lost, and its process is restarted once. `MaxChanges`, `MaxChecks`, `MaxHeight`,
`MaxConfirmed` and `Heights` only bound the length of behaviours.

Fairness. The tokio runtime polls a task as long as it can go on: weak fairness of main,
of the stages, of each handler, task and watcher. Handlers end or panic, cron jobs keep
firing, requests are answered or fail, and what hangs (`Deaf` scripts, `Silent` servers)
is in the model and excepted from `TasksEnd`. In `ServiceRuntime` the steps of a network's
runs, of each block and of each task are fair one by one; a block that a panic, a skip or
an answer takes is excepted by name from `EventuallyNotified`. For `EventuallyNotified` of
the watcher the network answers again and again (strong fairness of the answer), because
an error that lasts for ever leaves blocks unprocessed. tokio's mutex is fair, so a
waiting task gets the rotation lock or the connection (strong fairness). Liveness is
claimed only where the process does not crash.

Deadlock is checked except in `matching`, `triggers` and `service`, where a block, the
tasks and the process end; `BlockPipeline` ends in the explicit `Terminated`.

## What the runs found

`recovery_lost_update` refutes that missed blocks stay tracked (docs/index.mdx:440):
the watcher and the recovery job rewrite the missed-blocks file without a lock and drop
each other's entries.

Other behaviour that readers of the code or its documentation may not expect is part of
the models, and where a property has to except it, it does so by a named operator.

Watcher and recovery:

- Overlapping ticks process the same blocks; the tracker's verdict is only logged
  (docs/architecture.mdx:177 says it prevents duplicates). A node that lags, a save that
  fails, a crash, and a first start before any block is confirmed each lead to a block
  that is processed twice as well; `NoDuplicateProcessing` is checked and proved without
  these five.
- When runs overlap, blocks are attempted, and entries count, more often than
  `max_retries`. Two runs of the recovery job each decide by the count they have read. Two
  runs of the watcher are enough with a single job: one reads an entry before its failures
  and one after them; the first writes the old entry back, the job selects it, the second
  writes the Failed one, and the job's next failure counts on from there. `RetryBound` is
  therefore a theorem about runs of neither job that overlap, and no run checks it. What
  overlaps, lost updates and crashes never do is give a block up too early
  (`GivenUpOnlyAfterMaxRetries`).
- Holes are seen only between fetched blocks: a missing end, or an empty answer, moves
  the last processed block past blocks nobody processed.
- After a panic of a block handler the blocks not yet handled are lost; if main has
  already fed every block, the last one is saved all the same, otherwise the run fails
  and the next one processes again what was triggered. Matches of these blocks are never
  notified, without any sign but the panic; `NoMatchLost` and `EventuallyNotified` except
  just them.
- An entry left in Recovering by a crash is not picked up again.
- A crash in the one-time migration of the missed-blocks file, between truncating and
  writing the JSON, loses the entries of the text file.

Transports and clients:

- An HTTP rotation tries the first fallback only (docs/rpc.mdx:77 says all).
- After a failed WebSocket rotation, or a failure without fallbacks, nothing opens a
  connection again before a restart; while a rotation runs, other requests fail. A
  message without an id is returned as the answer to whoever reads it.
- Solana signatures are filtered by range before they are counted against a page: an
  address with more than a page of signatures since the start loses older ones
  (`ExceedsPage`). Failed transaction fetches and unavailable slots are skipped.
- A page from a node at the end of its chain gives a partial answer.

Filters:

- Stellar: docs/index.mdx:1157-1159 describe `value`, `from` and `to` as those of the
  first relevant operation. The filter tries each operation (stellar/filter.rs:153-199),
  so that a transaction matches that by the documents does not; and of a fee bump's inner
  transaction it looks at no operation (76-108). `MatchesAreDocumented` takes the
  documents at their word and excepts both by name (`OtherOperation`).
- Stellar: event arguments are named by position, topics first; when a specification
  declares a topic after data, names are given to the wrong values (`TopicAfterData`). A
  map, or a vec that is not of numbers, is printed without quotes, so that its parts
  cannot be accessed (`Unquoted`; docs/index.mdx:1381-1391 has them accessible by name).
  An event that declares no data and carries an empty map is dropped. Negative I256
  numbers are negated once more (`NegativeI256`).
- EVM: a log without topics from a monitored address with an ABI panics the filter. An
  event is tried only with the first ABI event of its selector: one with other indexed
  flags hides it. The status of a transaction without a fetched receipt counts as success.
  A receipt that cannot be had loses the block's matches.
- Solana evaluates neither expressions of events nor conditions on functions; Midnight
  evaluates no expressions, and a transaction that does not decode fails the block.
- The variables of a match merge the arguments of all events of one signature; the last
  one of a name wins.

Triggers and service:

- Writing to a script's input is outside its time limit; a script that times out is not
  killed; a client of a silent server waits for ever.
- Networks are kept under the stem of their file, everything else uses the slug; a network
  whose file has another name is not watched. The recovery schedule is not validated, and
  a bad one leaves its network unwatched. A network that cannot be reached at startup
  stays unwatched until a restart.
- Two files of monitors whose names differ in the case of `.json` alone (a.json, a.JSON)
  have one stem, and the one read last replaces the other without an error
  (monitor_config.rs:93-106); `KeysDiffer` excludes it.
- A filter that fails, or is interrupted by a shutdown, counts as one that found nothing.
  Matches being notified at an exit are lost once the last block is saved. So are those of
  blocks that `max_past_blocks` skips, that an answer leaves out at an end, or that a
  panicking handler took along.
- `--monitor-path` does not evaluate trigger conditions, and loses the matches of earlier
  networks when a later one fails.

## Proofs

All proofs hold for every value of the constants under the named assumptions of the
modules.

`BlockPipelineProofs` proves that `IInv` is an invariant of `BlockPipeline`, for every
set of batches of distinct blocks (`DistinctBatches`), every window and history size,
every earlier state of the tracker, and handlers that may panic at any time. The
properties are not inductive alone: that a triggered block is the lowest left needs to
know where every other block is. `IInv` says that every position taken by stage 1 is in
flight or sent, and only once, unless a panic dropped it (`PositionsAccounted`), that
every result received is buffered or triggered (`ResultsAccounted`), that while stage 2
receives it has triggered exactly what lies below the number it waits for
(`TriggeredBelowNext`), the order in which main and the stages end
(`StagesEndInOrder`), and that the tracker expects no number above one still to be
triggered (`ExpectationIsLow`). What is owed is every block before a panic and what was
sent on after it (`Owed`); `RemainingKept` and `PanicShrinks` show that only a panic and
a delivery change what is left of it. `TriggersLowest` and `TriggerFacts` carry the
argument: both places that trigger take the lowest block left. From the invariant
follow `Order`, `NoOvertaking`, `Completeness`, `NoFalseWarning` and `Refinement`, the
last by one simulation lemma for deliveries and one for panics.

`DistinctBatches` is a hypothesis because the pipeline does not enforce it: the clients
return each block of the range once and none below the start (`AnswersStayOrdered`).
It excludes two corners: a client that lists a block twice (the second copy
replaces a buffered first one), and block 0 of a chain so young that nothing above it is
confirmed, for which the start block is 1 and the tracker reports an out-of-order block.

Its last part proves the invariants of `TrackedRuns` for any number of runs (`RunsInv`).
`OutOfOrderMeansOvertaken` is not inductive alone, because it speaks of the expectation
only through a verdict. `ExpectationIsJustified` strengthens it: for each active run the
expectation is filled and lies at or below the run's next number, or at or below what
another run has recorded since; a reset establishes it for the run that resets and only
lowers the expectation for the others. `RecordingKeepsHistory` and `NotRecent` show that
the eviction keeps exactly the window, so that a number that is not found in it was
recorded longer than `HistorySize` numbers ago.

`BlockWatcherProofs` proves of `BlockWatcher`, for any number of overlapping runs, any
configuration, lagging nodes, failing files and crashes, that no block up to the last
processed one is lost in silence. `NoSilentLoss` is about the file, but a run that is
about to write it decides long before: `IInv` therefore accounts for every block up to
whatever a run has read or will save, as triggered, recorded as missed, skipped by
`max_past_blocks`, or never seen (`WatcherInvariance`, `WatcherLosesNothing`).
`NoDuplicateProcessing` and `LastNeverRegresses` need more, and are theorems under
`Undisturbed`: one run at a time, nodes that do not lag, a disk that works, no crash, and
a confirmed block above 0. None of the five can be left out; TLC then finds a block
processed twice. All of it takes for granted that of two overlapping writes of the
last-block file the later stands, which is so for numbers of the same length: 99 written
over 100 may leave a digit behind, and no property holds of what is read then. `QuietInv`
says that nothing triggered lies above the file until a run delivers, and that what a run
still has lies above all that was triggered.

`MissedBlockRecoveryProofs` has four invariants, each under fewer disturbances than the one
before. `EarnedInv` allows all of them, any number of overlapping runs included, and gives
`GivenUpOnlyAfterMaxRetries`: the entries in the file, those about to be written and the
counts that runs have selected are all backed by failures that did happen (`Earned`; the
failures are counted up to `max_retries`, which is all that the property asks), and as they
only grow, a copy that is written back late is as true as when it was read. `RacingInv` is
about one run of the job and one of the watcher at a time (`OneJob`, `OneWatcher`) that
write as they like, and gives `RetryBound`: an attempt is judged by the count the entry had
when it was selected, so the proof shows that nobody raises a count meanwhile, as the
watcher only ever writes back entries that are behind the file's and the job's
(`WatcherIsBehind`, `JobIsAhead`, `SelectionHolds`). With two runs of the watcher that is
false, and so is the bound. `AloneInv`, without another writer and with a disk that works,
gives `TriggeredOnce`, crashes included: a block is marked before it is triggered, and what
is marked is not selected. `QuietInv`, without crashes too, gives `RecoveringIsInProgress`,
`MissedBlocksTracked` and the refinement of `RecoveryLifecycle`; the step of the code that
takes the abstract step is the one that truncates the file, because from then on only the
content about to be written can be seen. TLC refutes each of these properties when its
hypothesis is dropped (`recovery_lost_update` is one such run).

`ChainClientsProofs` is about any chain in the order of heights, any set of calls, page
size and limit of signatures, nodes that may fail every request, and a chain that grows
between any two. `AnswersAreComplete` speaks of a call that has returned, so `IInv` says
of every point of a call what is owed and where it will come from: pages have brought all
up to the cursor (`PagesOK`), a slot is fetched, listed or excused (`SlotsOK`), a
signature is known or an address in it is still to be asked (`SignaturesOK`), a
transaction has come, is to come, or was dropped (`TransactionsOK`). What makes this hold
while the chain grows is `UnservedIsExcused`: whatever lies above the head now lay above
it when the call started, so that a list read early misses only what is excused.
`PageFacts`, `PageIsWanted` and `StartIsReachedOnce` are the arithmetic of pages: the last
is why the early return of `get_blocks` on a cursor at its start block
(stellar/client.rs:609-612) loses nothing, as a page of more than one ledger never ends
there. `AskedIsKnown` counts: unless an address has more signatures since the start than a
page holds (`ExceedsPage`), each of them is in its newest page. `OrderExists` and
`AscendingFacts` replace the induction that putting results in order would need by a least
counterexample. It gives `AnswersStayComplete` and `AnswersStayOrdered`.

`TriggerHandlerProofs` is about any number of blocks, matches, triggers and clients, with
scripts that hang, senders that fail and a shutdown at any moment. First the pool: whoever
is served holds the client kept under its key, and a kept client is never replaced.
`CreatorsHoldTheLock` strengthens it: whoever creates holds its storage's write lock and
its key is still free; the order of the waiters plays no part. `IInv` adds where each
handler is in its plan (`HandlerInOrder`), what an execution has done at its stage
(`ExecutionInOrder`), and what was sent (`SendsInOrder`). It gives `OneMatchAtATime`,
`SendsWithinPolicy` and `OneClientPerKey`, and with it each step is one of `TriggerDuties`
or a stutter (`TasksImplementDuties`). The variables that the triggers get are made by
`MatchHandling`, for which `HandlingSpec` lets the filters find any matches and then
handles them in turn. `HandlingInv` says that each match handled has the variables of
its own record; that a list has a last place with a name (`LastPlace`, by the least
distance from its end) makes each value one that was recorded, and gives
`VariablesComeFromTheMatch`.

`TransportsProofs` is about any number of tasks and any configurations of distinct URLs,
over endpoints that change at any time. `UrlsConserved` speaks of the lists between
rotations; `HttpInv` and `WsRotationInv` say what they hold within one: the fallbacks are
all URLs but the one that is left and, once a WebSocket has taken it out, the candidate.
The lock makes the one task that rotates the only one to change them. On a WebSocket at
most one task is between giving up a stream and opening the next (`Adrift`), and no
stream exists then, so the next one is the only one and belongs to the URL that becomes
active. The answer a request returns is its own because the id is compared, not because
the stream holds nothing else; that needs no strengthening. The lemmas on lists
(`RemovedAt`, `WithoutProperties`) say that a list of distinct elements loses just the one
removed.

`ServiceRuntimeProofs` is about any installation, heights, failures, signals, crashes and
restarts. `IInv` says that all items kept are valid, also while loading, that main is only
beyond loading with an accepted configuration, and that each network that an active
monitor names is still to be started, is watched, or was given up. From it follow
`AcceptedIsComplete` and `ActiveNetworksAreWatched`. `NoMatchLost` is about blocks behind
the saved one; `PeaceInv` follows every block through the runs (`MatchesAccounted`): while
a run has it, it is queued, being filtered, filtered with its match known, handed to a
task, or lost and in `disturbed`. `disturbed` is the history that the property excepts: a
block gets there if it is skipped, is not delivered, is in stage 1 at a panic, has a
failing filter, is being filtered or notified by a subscriber at the signal, or has a task
at an exit or a crash; it leaves when a later run takes it again. `TickAccounted`,
`PanicAccounted`, `TasksAccounted` and `EndedRunAccounted` have one kind of step each. The
proof needs that the monitors kept are those in the files (`MonitorsAreKept`), which holds
if no two files of monitors have one key (`KeysDiffer`). A restart begins with the matches
of the last processed blocks only.

`SequenceLemmas` has the lemmas about ranges and appends, and that numbers have a least.

What stays with TLC:

- Liveness under fairness, which the prover does not treat: `Terminates`,
  `EventuallyNotified`, `EventuallyResolved`, `EveryRequestReturns`, `EveryCallReturns`,
  `TasksEnd`, `ShutdownEndsTasks`, `ShutdownCompletes`.
- Everything about expressions and filters (`ExpressionMeansItsTokens`,
  `ComparisonsAgree`, `MatchesAreDocumented`, `EvidenceIsReal`): the parser and the
  evaluator are recursive, and what they compute needs induction over data. Of what
  follows the filters, the run checks `VariablesComeFromTheMatch` on the matches they
  find, the theorem has it for any.

## Not modelled

- The lexical level: which characters form a token, a number, an address or a signature;
  XDR, ABI and Borsh decoding of single values; the decoding of calls; extrinsics of
  Midnight. The filters take decoded values, and what does not decode is marked so.
- Templates, payloads and formatting of notifications; metrics, logging, error types; the
  data models and their conversions.
- Client calls of one request (latest block, receipts, logs) and the loading of contract
  specifications, whose results are inputs of the filters.
- Times: delays, backoff, heartbeats and schedules are left out, time limits are a choice
  that may fall at any step.
- The migration of the missed-blocks text file, the wiping of secrets and the vault
  protocol, the printing of a test execution.
- Retries of RPC requests inside the HTTP middleware, which are part of one request.
- Runs that overlap are in `TrackedRuns`, `BlockWatcher` and `MissedBlockRecovery` but not
  in `ServiceRuntime`; the combination of overlapping runs with shutdown is not checked.
- Block numbers do not overflow; the saturating subtractions are modelled.

Much of the repository's text is tests, builders and the parts listed here, which is why
the map, although it has every component with state of its own, covers about a fifth of
its lines.
