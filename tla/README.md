# Verification of HTTP Inspector

TLA+ models of HTTP Inspector: the hub that keeps captured exchanges and database
commands, the ingress that feeds it, the .NET adapter that sends to the ingress, the
streams to a window, the window's store, and the panels that show a captured
exchange and let it be replayed. TLC checks each model on small instances; TLAPS
proves the invariants of the hub, the ingress, the adapter, the streams, the store, the
panels and the scanners for every value of their constants. Paths below are relative to the
repository.

    adapter (in the inspected process)          inspector (Rust)                      window (TypeScript)
    callers -> queues -> worker -> WebSocket -> capture_socket -> queue -> hub -> broadcast -> data source -> store
               <- observers <- answers <-------- completion <----- processor            details <- fetch

## 1. Inventory

### Components

| Component | State | Operations | Correct when |
|---|---|---|---|
| Capture hub `crates/inspector-core/src/application/capture_hub.rs` | exchanges by key, commands by key, an arrival deque for each, one arrival counter, byte account, recording flag, retention flags; all under one mutex | ingest (passive and explicit), set_recording, mark_source_disconnected, clear_session; reads | deque and map agree; revisions only grow; limits evict the oldest terminal entries; flags and byte account tell the truth; a disconnect ends what is in flight |
| Lifecycle merges `lifecycle_merger.rs`, `database_lifecycle_merger.rs`, `domain/validation.rs`, `domain/database_command.rs` | none | merge one message into an exchange or command, validate the result | a newer message always merges; a late start does not reopen; state and parts match |
| Capture ingress `crates/inspector-server/src/ingress/` | per connection: source, error count, message in hand; bounded queue; processor task; source count | hello, message, unusable frame, lost client, queue, process, shutdown, session calls | a task waits only for what will be answered; a gone source has nothing in flight |
| .NET adapter `adapters/dotnet/HttpInspector.Adapter/HttpInspectorAdapter.cs` and `WebSocketCaptureTransport.cs` | handles, tracked exchanges and commands, two queues, two pending maps, wake semaphore, session, fault flag | capture start and outcome, heartbeat, connect, recover, send, observe, retry, fault, stop | messages are neither lost nor doubled; the worker never sleeps over work; outcomes are newest; a stop forgets everything |
| UI streams `dev_api.rs`, `src-tauri/src/lib.rs` | a broadcast receiver per window and repository | snapshot, subscribe, forward, reset on lag (hosted) or end (native) | the window is a mirror of the hub |
| Data sources `src/data/adapters/` | attempts and timers, translations under way | translate a batch (refetching details), apply it; load an import | batches are applied whole, and late ones do no harm |
| Capture store `src/state/` | rows, order, tree index, selection, filter, expansion, one draft | apply a batch or snapshot, select, filter, focus, expand, recompose, replay | the tree is the rows'; one selection; what is hidden, evicted or pending is told |
| Database workspace `src/features/database/` | rows, selected key, collapsed nodes | mount, load, apply deltas, select a command, unmount | each command once, as the hub once had it |
| Message inspector `src/features/inspector/` | stored parts, decoded text, JSON document, cache, search, page | show, fetch, decode, format, search, page | what is shown is the exchange's in view |
| Dataverse map `src/features/inspector/dataverse/`, `src/domain/dataverse/` | record, render sequence, viewport | render, step through records, zoom, pan | the newest diagram stays |
| Text scanners `src/domain/body-presentation/`, `parseDataverseMap.ts` | none | tokenize, split, search, name | nothing is lost, moved or confused |
| Recompose form `src/features/recompose/` | baseline, working copy, mode, raw text, errors | edit rows, apply raw text, revert, replay | what is not edited stays as captured |
| Sequence grid and preferences `src/features/sequence/`, `src/state/preferences/` | scroll position, live edge, order, widths and sort of the columns, panes, theme, view; what the browser stores | scroll, follow, resume, drag, resize, reload | follows until the user leaves; what is stored is accepted again |
| Replay `crates/inspector-server/src/replay/` | a task per replay | start, execute, finish or fail | a replay's start and outcome belong to one exchange |
| Native listener `src-tauri/src/lib.rs` | server, settings and error, a mutex each | start, stop, replace | at most one server; the status tells which |
| Project integration: scripts in `adapters/dotnet/HttpInspector.Adapter.Integration/`, service in `crates/inspector-project-integration/` | receipts, backups, hashes, shared database capture files with participants | preview, apply, run, remove, recover, force-remove | whatever crashes, a cleanup restores the files and overwrites no developer's change |
| Body, content and reader observation, bridges (adapter) | position, kept bytes, ended flag | read, end of stream, dispose, error | an exchange or command ends exactly once; truncation is reported |

The overview of an exchange, the export, the rendering and the contract generation
keep no state that another part relies on; they are listed in PROJECT.json and not
modelled.

### How they interact

*Calls under a mutex*: connection tasks, the processor, the UI calls and replays all
call the hub, whose mutex makes each call atomic. *Messages*: adapter to ingress over
a WebSocket, one frame at a time per connection, each answered before the next is
read; ingress to processor over a bounded channel with a completion per capture; hub
to windows over a broadcast channel, sent after the mutex is released. *Callbacks in
the window*: the store calls the views, whose effects React runs after the commit, and
answers of sources, decoders, workers and Mermaid come between any two commits. *Shared state
in the adapter*: callers of the application, the connection worker, one observer per
unanswered message and the heartbeat share the maps under `_gate`.

### What is hard

- A message is stamped before it waits for the queue, a disconnect is stamped before
  it runs, and the wall clock may step back between any two stamps.
- The disconnect of a connection runs beside the queue, not through it, and concerns
  a source that other connections may share.
- Every message may be lost with its connection, refused, or accepted and not known
  to be; it is then sent again, perhaps after a recovery snapshot of its exchange.
- Observers of an old connection act on the adapter of a new one.
- A shutdown or stop meets tasks at any of their waits.
- Retention must never lose what is in flight and must say when it therefore cannot.
- Mutation and broadcast are two steps, and the windows' translation is asynchronous.
- An effect of React acts on the values of the render that scheduled it; the user and
  the data source may have moved on, and its answer comes later still.
- The tree, its counts and the selection are maintained by difference, change by change.
- One request has three editable forms (fields, rows, raw text) that must agree.

PROJECT.json lists these as hazards, each at its line with the properties that
cover it; those without one say what a model of them would need.

## 2. Modules

| Module | Models | Built on |
|---|---|---|
| `ExchangeLifecycle` | `merge_capture_message`, its missing-start exchange, validation | none |
| `DatabaseLifecycle` | `merge_database_message`, validation, retained bytes | `ExchangeLifecycle` |
| `CaptureHub` | every state-changing operation of `CaptureHub` | both |
| `CaptureHubProofs` | theorems about `CaptureHub` | `CaptureHub`, TLAPS |
| `CaptureIngress` | `capture_socket.rs`, `queue.rs`, `server.rs` over the hub | `CaptureHub` |
| `CaptureIngressProofs` | theorems about `CaptureIngress` | `CaptureIngress`, `CaptureHubProofs` |
| `UiStream` | publication, streams, data sources and store of the HTTP exchanges | `CaptureHub`, `LeftFold` |
| `UiStreamProofs` | theorems about `UiStream` | `UiStream`, `CaptureHubProofs` |
| `DotnetAdapter` | `HttpInspectorAdapter.cs`; the listener is its environment | none |
| `DotnetAdapterProofs` | theorems about `DotnetAdapter` | `DotnetAdapter`, TLAPS |
| `LiveTable` | abstract: a table that shows only what the hub had, each subject once | none |
| `DatabaseWindow` | the database stream, its sources and `DatabaseWorkspace.tsx`; refines `LiveTable` | `LiveTable` |
| `StructureIndex` | `treeIndex.ts`, `treeAggregates.ts`, `treeSelectors.ts` | none |
| `SequenceFilter` | `filterParser.ts`, `filterSelectors.ts` | `StructureIndex` |
| `CaptureStore` | the store's slices, both views, import, and the draft's life | `SequenceFilter`, `LeftFold` |
| `CaptureStoreProofs` | theorems about `CaptureStore` | `CaptureStore`, TLAPS |
| `MessageView` | `MessageInspector.tsx` with its hooks, viewers and worker | none |
| `DataverseMapView` | `DataverseMapViewer.tsx` and its render sequence | none |
| `TextScan` | the scanners over captured text | `LeftFold` |
| `TextScanProofs` | theorems about `TextScan` | `TextScan`, TLAPS |
| `RecomposeForm` | the editor of a draft | `LeftFold` |
| `GridView` | `SequenceGrid.tsx` and `displayPreferences.ts` | `LeftFold` |
| `PanelProofs` | theorems about the inspector, the map, the grid, the form and the database workspace | `MessageView`, `DataverseMapView`, `GridView`, `RecomposeForm`, `DatabaseWindow`, TLAPS |
| `LeftFold` | a loop over a sequence, lists without repetition and totals over finite sets, with the theorems about them | TLAPS |
| `MC*` | keys, messages and texts for TLC; `MCViews` composes the panels | the modules they are named for |

### ExchangeLifecycle and DatabaseLifecycle

An exchange is a record of its key, revision, state, receipt time, arrival number and
which parts it has (request, response, failure), and how large its metadata are against
their limit: `roomy` for the entry that a disconnect adds, `tight`, or `over`. Bodies,
URLs and timings are left out: no merge rule depends on them. `MergeMessage` follows the Rust `match`
arm by arm, with the placeholder request of `missing_start_exchange`; `IsStale` is the
revision test, `IsValidAt` the validation that can refuse a result, and `Merges` says
that a message is neither stale nor refused. A command has the bytes
of its query, of its outcome and of its reason, which a message brings in any size of
`Reasons` and a disconnect replaces by its own.

### CaptureHub

One action per `pub fn` that changes `HubState`; since the mutex covers each call
they are atomic. A call that returns early (foreign source, paused, stale, refused)
is a stuttering step. Ingesting stores, evicts and updates the flags in one action,
as in the code. `IsRest` describes the deque after the loop of evictions instead of
computing it, which keeps the module free of recursion. `MarkSourceDisconnected`
keeps the code's early return: an exchange that fails validation, because it was received
later than the call says or because its metadata have no room for the reason, ends the
loop after it has been changed in place. Times are receipt times, chosen freely per call,
so that the clock may go back. A store is made of `StoredExchanges`, `Longer` and
`EvictedExchanges` (`StoredCommands`, `BytesWith` and so on for commands), so that
`RetentionIsOrderly` can ask in any state what would be removed with any next message.

### CaptureIngress

The variables are the tasks' local state (`phase`, `sourceOf`, `errors`, `stamped`,
`stamp`), the channel (`ingestQueue`, `answer`), the processor (`processing`) and the
source count. The steps of a task are cut at its awaits and between reading the clock
and using it. A connection is opened once; a reconnecting adapter is another
connection of the same source. A full queue, a refused capture and a dropped
completion are errors of the three kinds the code distinguishes. `Shutdown` aborts the
processor at its await. The clock is the wall clock (`Tick` may set it back).
`cutShort`, the sources whose last disconnect met an exchange without room, and
`clockSetBack` are auxiliary.

### UiStream

A publisher (the processor, a closing connection, a clear request) changes the hub in
one action and sends the batch in another. The window's subscription goes from
`off` over `snapshot` (read, not yet subscribed) to `open`; the broadcast channel drops
its oldest batch when full, upon which a hosted stream sends a reset and a native one
ends. A socket message and its reception are one step. A received batch becomes a
translation: one fetch per upserted key, each reading the hub of that moment, and
then `Apply`; a batch with nothing to fetch is applied at once. `Reduce` is the
store's reducer on rows and order, with its coalescing. The initial snapshot of the
window is a translation of attempt 0. `hosted` is chosen at the start and kept.

`mutations`, `upserted`, `removed`, `doubtful` and `displaced` are auxiliary. They number the hub's
changes and note the rows for which the code gives up: those that missed a change
(published between snapshot and subscription, in a translation that failed, or by a
disconnect that fails half way) and those to which a change was applied after a newer
one of the opposite kind. A reset whose own translation was overtaken by nothing
clears the doubt. `displaced` notes that a row was replaced where it stood by an exchange
that arrived at another time (evicted, created again, and told before its removal was
applied): the order of that row, and of the rows inserted by it, is wrong until a reset,
also of rows that are not doubtful. It takes three exchanges to see the latter. The
properties say that nothing else can make a row or the order wrong.

Left out: status deltas, selection (`CaptureStore`), the database stream
(`DatabaseWindow`), and a retry of the native window beside a stream that still runs, which would
deliver every batch twice.

### DotnetAdapter

Every block under `_gate` is an action. The worker's loop is cut wherever it leaves
the lock: connect, recover, dequeue, dispatch, sleep, wake, disconnect, back off. A
dispatched message has an observer, which is in `awaiting`, `refused`, `failed` or
`signalling`; the last three exist because the observer continues later than the
answer or the exception it got. A handle's single outcome is `QueueTerminal`. The
listener and network accept, refuse (for good or retryably), fail or never answer.
The semaphore is a flag: releases beyond the first only cause empty rounds. `lost` is
auxiliary. A stop leaves the worker's last exception to escape (`escaped`) where the
catch filters let it.

### DatabaseWindow and LiveTable

The workspace keeps rows of its own beside the store. It asks for a snapshot
(`initial`) and subscribes in the same effect, so that the rows come on two ways;
`Apply` is the only place that changes them and compares no revisions, as in
`applyDatabaseDeltas`. A command is a summary [key, revision, arrival, done]; what the
hub does to it is `Ingest`, `Disconnect` and `Clear`, each publishing its batch in a
step of its own. `Unmount` is the effect's cleanup: `disposed` makes the snapshot's
answer and later batches inert, the App keeps `collapsed` and `inspected`, and a
`getCommand` that is under way still answers, which is the code's own doing.
`told` and `doubtful` are auxiliary, as in `UiStream`.

`LiveTable` says what any follower of a hub promises: the rows are subsets of what the
hub had, each key once, and the detail shown is one that was asked for and that the hub
had. It promises no currency; `QuietRowsAreTheHubs` does, but for doubtful commands.

### StructureIndex, SequenceFilter and CaptureStore

A group's id is the sequence of the names that lead to it. `UpsertStructureSummary` and
`RemoveStructureSummary` follow the code's mutation path by path, with pruning and
`childIds`; `AgreesWith` compares the outcome with an index built from the rows alone.
Names of hosts and sources are numbers. `ReduceCaptureDelta` and `Coalesce` are the
reducer, the batch being any of `Batches`: `UiStream` says which order they come in.
`ApplyDeltas` carries the selection, the draft and the expansion with it as the slice
does. `RunViewEffects` is the mounted view's effect and may come after further changes
(`effectDue`). `Import` and `ReturnToLiveCapture` replace the data source while
translations of the old one are under way. `displaced` is auxiliary: the rows that were
replaced where they stood by an exchange with another arrival, as in `UiStream`. The loops of the reducer, the index and the
filters are instances of `LeftFold`, the fold of the community modules with its operator as a
parameter of the module: what is proved of it holds of each loop.

### MessageView, DataverseMapView, GridView

A stage of the inspector is a hook: its dependencies, the dependencies its effect last
ran with (`ran...`), its result, and the calls it has made that are unanswered.
`FlushEffects` runs all effects of one commit, each with that commit's values; an
answer is a step of its own, and `Settles` is the disposed flag. Texts are records
that say where a search hits them. The Dataverse map is built the same way, with
Mermaid answering its renders in any order. The grid counts positions in rows, has the
scroll event and the animation frame as flags, and measures where the code measures.
Every change of a preference stores them all (`SaveAndReturn`), and `Reload` begins with what
is stored if all of it is as it should be and with the defaults if any part is not
(`IsStoredDisplayPreferences`). A width is a size or 0, which a handle dragged left by the
width of its column rounds to.

### TextScan and RecomposeForm

`TextScan` has the scanners as loops over sequences of characters (`LeftFold`). A loop over
an index that jumps, as the tokenizer's over a markup or the search's over a match, visits
every place and leaves its state alone at a place before the index. The
text grows by one character at a step, so that every text up to the bound is scanned,
and is compared with definitions that do not scan. The class ids of expansions are names
with the numbers that they end with. Lower case is a table `Lower` from a character to one
or more: `Search` looks in the lowered text, and `RenderContent` takes the places it
returns for places of the text as captured, as the code does. `RecomposeForm` has one action per
control of the editor; texts are constants with the tables `Decode`, `Encode` and
`UrlSpelling` (how `new URL` writes a component), a raw text is the record of what its lines say, and an untouched row is known by its id.

Definitions marked as a *faulty variant* are not part of any specification: each is
a plausible bug, and the property it is listed with in PROJECT.json fails when it
takes the place of the definition after it.

## 3. Runs

| Run | Instance | Checks and shows |
|---|---|---|
| `hub_http` | three exchanges of two sources, with and without room in their metadata, room for one, two revisions, three arrivals | `HubTypeOK`; `ArrivalOrderAgrees`, deque and map list the same keys in arrival order; `RevisionsOnlyGrow`; `RetentionIsOrderly`, whatever is stored next, retention takes terminal entries only, the oldest, no more and no fewer than the limits ask for; `BlockedExactlyWhenOverLimit`, the flags are exact also after calls that do not compute them; `PartsMatchStates`; `NewerMessagesMergeSafely`, no state refuses a newer message, reopens, or loses the request |
| `hub_database` | two commands with reasons shorter and longer than that of a disconnect, room for one command and four bytes, three revisions | `PartsMatchStates` and `RetentionIsOrderly` for commands, and `AccountFollowsCommands`, no step but a disconnect takes the byte account farther from the bytes held, or across them |
| `ingress_queue` | two connections, one or two sources, an exchange and a command, queue of one slot, clock of two readings in any order, an exchange with or without room | `IngressTypeOK`; `WaitersAreQueued`, a waiting task has one capture in the queue or its answer on the way; `GoneSourceHasNothingInFlight`, once all connections of a source have ended nothing of it is in flight, unless the clock was set back or its last disconnect met an exchange without room |
| `ingress_liveness` | two connections of one source, queue of one slot, fair | `WaitersAreAnswered`, `EndedConnectionsMarkTheirSource`, also across a shutdown |
| `adapter_http` | one exchange, two connections, room for two messages | `MessagesInOnePlace`; `NoWakeUpIsLost`, the worker never sleeps over work; `InFlightRevisionsGrow`; `OutcomesAreNotLost`; `StoppedHoldsNothing` |
| `adapter_database` | one command and a heartbeat, listeners with and without the capability | `AdapterTypeOK`, and `OutcomesAreNotLost` for commands, whose start and outcome can both be unanswered at once |
| `ui_stream` | a hosted or native window, two exchanges, room for one, three changes, two connections | `UiTypeOK`; `RowsAreRightUnlessDoubtful`, once nothing is on its way a row that missed no change and got none late is exactly the hub's; `RowsInArrivalOrder`, the order lists each row once, and the right ones as the hub does until a row is displaced |
| `window` | a hosted or native workspace of two commands, room for one, two changes, two subscriptions, two steps of the user | `WindowTypeOK`; `ImplementsLiveTable`, the refinement; `QuietRowsAreTheHubs`, once nothing is on its way the rows are the hub's but for doubtful commands |
| `store` | five versions of three exchanges, two batches, three steps of the user, a replay | `StoreTypeOK`; `TreeMatchesRows`; `OneSelection`; `HiddenIsTold`; `DraftTellsItsExecutions` |
| `views` | five panels, one of which moves | `SettledViewIsOfTheExchange` and, with fairness, `ShownEventually` for the message inspector; `SettledDiagramIsTheSources` for the map; `ScansKeepTheText`; `FormKeepsTheCapture`; `GridFollowsUntilLeft` and `ReloadKeepsTheColumns` for the grid |
| `ui_mirror`, `adapter_outcome` | as above | one property each, a documented statement that the code does not keep (section 5) |

The panels of `views` share no variable, so a behaviour that moves one of them and
leaves the others as they begin shows all that the panels can do.

### Bounds, and why they are enough

- *Keys*: `hub_http` has two exchanges of one source and one of another, so that
  eviction chooses among three and a disconnect must leave a foreign one alone; the
  ingress and adapter runs have one exchange or command per source, since their
  interleavings concern connections and messages and not keys.
- *MaxRevision* 2 or 3 covers a start, its outcome and one message newer or staler
  than either; a disconnect may raise a revision once beyond it.
- *MaxArrivals* exceeds the number of keys, so that an evicted entry returns with a
  new arrival.
- *MaxSummaries*, *MaxCommands*, *MaxRetainedBytes* are small enough that the limit is
  met with in-flight and with terminal entries.
- *Times*: two instants give every order of two stamps. `hub_http` and `hub_database`
  use one, because a single repository compares times only in the disconnect, which the
  ingress runs with a clock of its own.
- *Metadata*, *Extensions*, *Reasons*: an exchange with room and one without give a
  disconnect that ends half way; reasons of 0 and 3 bytes are shorter and longer than the
  2 that a disconnect stores. `ingress_queue` runs starts only (`MCStarts`), which is what
  a disconnect is about, and treats its connections as interchangeable (`MCSymmetry`: the
  specification and the invariants name none).
- *ChannelCapacity* 1 lets one unread batch overrun the receiver, *MaxMutations* 3 is
  the number of changes it takes to give, take and give back a row, *MaxTranslations* 2
  the number that can be reordered, *MaxStreams* 2 a reconnect. Random simulation with
  seven changes, three connections and a channel of two found nothing new.
- `window`: two changes and two subscriptions give a change before, between and after
  snapshot and subscription, a lag and a reconnect; a third change only repeats them.
- `store`: one exchange moves to another group between its revisions and comes back with
  another arrival, one shares its group, one has no valid URL; the batches hold an eviction, a reset in the middle and a
  stale revision. Two batches and three clicks (an open menu's choice, its closing and a
  replay's receipt are not counted) reach a selection that is hidden, evicted and
  replaced, and a draft that is edited, replayed and replaced.
- `views`: *MaxLooks* 3 is an exchange, another while the first is fetched, and the
  first again; *CacheLimit* 2 makes the cache forget. *MaxMapSteps* 3 lets two renders be
  unanswered when a third is asked for. *MaxTyped* 5 closes every construct of the
  scanners after an opening that is given; *MaxMatches* 2 (the code has 1000) leaves
  matches that are not marked, and *Queries* has one that can overlap itself, others with
  blanks and capitals, and one whose lower case is longer. *Sizes* 0 and 44 are a width that
  is refused and one that is taken; *MaxGridSteps* 3 is a column that is held, moved and reset. *MaxEdits* 4 is the length of a sequence that
  edits, switches the form, applies and replays. *MaxEntries* 5 rows before a pane of 2
  with *Overscan* 1 leave rows that are not rendered at either end.
- *QueueCapacity* 1 makes the queue full with two connections.
- *MaxConnects* 2 is one reconnect, the smallest number with a recovery and with an
  old connection's observers; *HttpCapacity* 2 and *DatabaseCapacity* 2 let a start and
  an outcome be unanswered together and a third message find no room.

Deadlock is checked for the hub and the ingress. The adapter's runs say
`CHECK_DEADLOCK FALSE`: an adapter that has been stopped, or that a listener has
refused for good, has nothing left to do, and connections are bounded by MaxConnects.
So do those of the windows, the store and the panels: when the bounds on changes and
clicks are reached, a window at rest has nothing left to do.

### Fairness

`FairIngressSpec` assumes weak fairness of a connection task's own steps (`TaskStep`:
use the stamp, resume with an answer, leave) and of `ProcessNext`: the tokio runtime
polls every task that is ready and the hub's mutex is held for a bounded time. Nothing is
assumed of clients, of the user or of the clock: no frame need ever arrive and no
session call need be made. Without fairness of `Shutdown` the processor may run for
ever, with it aborted the completions are dropped, and both lead to an answer.

`MessageFairness` assumes weak fairness of `FlushEffects`, since React runs the effects
of every commit, and of `MessageAnswers`: a call to the source is answered or fails, a
decoding ends, and a worker posts its result or an error. Nothing is assumed of the user,
who may look at something else at any time, nor of renders of the inspector alone, which
`ShownEventually` allows for ever.

## 4. Theorems

### CaptureHubProofs

About `HubSpec`, for every `Sources`, `Times`, `Sizes`,
finite `ExchangeKeys` and `CommandKeys`, and all limits that satisfy the assumptions
named in the modules (keys are records of a source, times and sizes are naturals,
`None` is neither an exchange nor a command). The limits and the bounds `MaxRevision`
and `MaxArrivals` may be any naturals.

The inductive invariant is `HubInv == HubTypeOK /\ ArrivalOrderAgrees`. Neither part is
inductive alone: the agreement needs the types to speak of the deque's positions,
and eviction keeps the types only because the deque names stored keys.

- `HubTypeCorrect`: `HubTypeOK`, from `HubInv`. The step that needs work is ingestion,
  where the merged record has to be shown an exchange in each arm of the merge
  (`MergeType`, `DatabaseMergeType`), and the deque after eviction a sequence of keys.
- `ArrivalOrderCorrect`: `ArrivalOrderAgrees`, that a deque lists exactly the keys of
  its map, once each and in arrival order, that arrivals are below the counter and that
  the repositories share none. Both repositories are instances of one predicate
  `IsRepository`, so that store and eviction are proved once. Lemmas about
  `IsRest` (what remains keeps its order, loses exactly the evicted positions) carry
  the eviction; an update keeps its arrival, a new entry takes the counter.
- `RevisionsCorrect`: the action property `RevisionsOnlyGrow`, from the merges' staleness
  test and the disconnect's increment, under `HubInv`.
- `PartsCorrect`: `PartsMatchStates`, that what is stored has the parts its state calls
  for. Ingestion validates; the disconnect, which changes before it validates, only goes
  to `incomplete` from `inFlight`, for which the parts agree.
- `FlagsCorrect`: `BlockedExactlyWhenOverLimit`. It needs that the disconnect changes
  neither the size of a repository nor its byte account, and that a cleared session
  resets both.
- `NewerMessagesCorrect`: `NewerMessagesMergeSafely`, from `HubInv` and `PartsMatchStates`:
  the result of a merge is validated against the parts its state calls for, so that only
  a receipt time before the stored one, or metadata over their limit, can make it invalid.
- `BytesCorrect`: the action property `AccountFollowsCommands`, under `HubInv`. The account
  is wrong by `Uncounted`, the bytes held less the bytes counted. A store takes off the old
  command and adds the new one (`PutCounts`), an eviction takes off a sum over positions
  that is the sum over the keys there (`EvictionCounts`); without saturation both would
  keep the difference, and a subtraction that saturates brings it nearer to zero
  (`SaturationIsNearer`). Only a disconnect changes a reason and counts nothing. Both sums rest on lemmas about totals over finite sets (`TotalSplits`,
  `TotalsCompare`), proved by induction over the parts of a set (`PartsInduction`, from
  the least element of a set of naturals) and read off the fold that `MapThenSumSet` is.
- `RetentionCorrect`: `RetentionIsOrderly`, under `HubInv`. The evicted positions of either repository are an initial
  part of the terminal ones (`EvictedExchangesArePrefix`, `EvictedCommandsArePrefix`: the
  count and the bytes freed before a position only grow along the order), so what goes is
  older than every terminal entry that stays (`PrefixEvictsInOrder`); the last of the
  evicted still found a limit exceeded (`EvictionStopsAtLimit`, `LastIsNeeded`), so none
  goes for nothing; and while a limit is exceeded no terminal entry stays (`LoopStops`).

### CaptureIngressProofs

About `IngressSpec`, for any set of connections, any sources, messages and
queue length. `IngressInv` is the hub's invariant with `IngressFields` (types),
`TasksKnow` (a task that is past its hello knows its source and has fewer than three
errors), `QueueMatchesTasks` (a queued capture belongs to one waiting, unanswered
task, and such a task has one), `SourcesAreCounted` (the count is the number of live
connections) and, until the clock is set back, `UnfinishedAreEnded`: for every exchange in
flight of a source that is not cut short there is a connection of its source that has yet
to stamp its disconnect or stamped it no earlier than the exchange was received. The last needs the queue's part, because a capture
that is still queued while its connection leaves would be ended by nobody, and the
times in the queue, because a disconnect ends only what was received before it.

- `IngressUsesHub`: `IngressSpec => HubSpec`. Every step of a task, of the processor or
  of the session calls is a step of the hub's specification or leaves the hub alone, so
  the theorems about the hub hold of the ingress.
- `IngressTypeCorrect`, `WaitersCorrect`, `GoneSourcesCorrect`: the three invariants of
  `ingress_queue`, from `IngressInv`.

### UiStreamProofs

About `UiSpec`, for all messages, capacities and bounds, under `UiAssumption` (messages are
valid ones of the hub, the channel has room for a batch, `None` is not a batch) and the
hub's assumptions. The invariant is `UiInv`: that of the hub, the types of what carries
batches (`FormInv`), and `FollowInv` for some history of the hub: `changed[k]` is the
newest change that touched an exchange and `gone[k]` the newest that took it away. No
variable records these; each step of a publisher is shown to continue the history
(`IsLater`), and every step of the window to keep it. The parts of `FollowInv`:

- `IsGood`: what a batch says of a key is what became of it at the batch's change, unless
  something happened to the key since. A removal in a batch, and a key that a reset leaves
  out, is a real one, and an upserted key was there.
- `IsFetched`: a detail that was fetched for a batch is of the same life of the exchange and
  as new as what the batch tells. This is where the delay between the batch and
  its fetches is harmless: the hub's answer can only be newer.
- `RowsFollow`: a row that is not doubtful is the exchange as the hub has it or had it since
  it was last created, and is the hub's if the window was given its newest change.
- `NothingIsLost`: the newest change and the newest removal of every key have reached the
  window or are due: by a batch on its way, by the snapshot a subscription was promised,
  or because the window is cut off or has lagged, and so must be reset.
- `SnapshotComes`: the snapshot that a hosted window was sent before it is subscribed is
  still being translated, or all that it tells has reached the window or is noted as
  missed. `Publish` notes what is broadcast in between as missed.

Each action is shown to keep the parts from facts about values alone (`BatchApplied`,
`BatchMissed`, `StillTold`, `GoodStays`, `RowsStay`): a batch is applied or missed, a
batch is handed from one carrier to the next, the hub moves on.

- `UiTypeCorrect`: `UiTypeOK`; `RowsCorrect`: `RowsAreRightUnlessDoubtful`, since nothing is
  due when nothing is on its way.
- `OrderCorrect`: `RowsInArrivalOrder`. Insertion keeps the order a list of the rows
  (`IsView`) that ascends by arrival until a row is displaced (`IsAscending`); and two
  lists of one set that ascend by the same weight are the same (`AscendingListsAgree`).
- `UiHubRefines`: `UiSpec => HubSpec`, so what is proved of the hub holds of the one
  behind the windows.

### DotnetAdapterProofs

About `AdapterSpec`, for any exchanges, commands and capacities, and any bound on
connections and heartbeats, under `IdsAssumption`: a command is no exchange, and `None`
is neither an id nor a message nor an exchange's state. The invariant is `AdapterInv`:

- `TypeInv`: the types, that the tracked and pending sets are finite (room in a queue is
  counted with them), that a message is in the worker's hand exactly while it dispatches;
- `StopInv`: after a stop that returned, the worker has ended and nothing is held;
- `FreshInv`: a handle that was not opened has no message anywhere; one whose terminal
  message or final snapshot is on its way is done, and that snapshot is not newer than
  the adapter's revision. Without it a capture could add a second message of revision 1;
- the four properties below.

Most steps only move messages (`Moves`): no message is new, none that would release
something still tracked disappears, each is in one place. That is shown once per step,
and the preservation of all revision properties once for all of them
(`MovesKeepRevisions`). The five kinds of steps that make a message (a capture, an
outcome of an exchange or of a command, a heartbeat, a recovery) have a lemma each: the
message is new, because its handle was unused or open, or because recovery has raised
the revision of every exchange it makes a snapshot of.

- `AdapterTypeCorrect`: `AdapterTypeOK`.
- `PlacesCorrect`: `MessagesInOnePlace`. A message that is put back was pending and is so
  no more, and what is forgotten by a listener without the database capability is
  forgotten on both sides.
- `NoWakeUpLost`: `NoWakeUpIsLost`, which is inductive alone: whoever queues, faults or
  cancels also releases the semaphore, and the worker sleeps only after an empty round.
- `AdapterRevisionsCorrect`: `InFlightRevisionsGrow`.
- `OutcomesKept`: `OutcomesAreNotLost`.
- `StoppedCorrect`: `StoppedHoldsNothing`, from `StopInv` and the types.

### LeftFold and CaptureStoreProofs

`FoldHasStates` turns the recursive definition of a loop into a function with a base and
steps; `FoldKeeps` is induction along it, in the form the provers can use: what the base
has and every step keeps, the outcome has. `FoldOfFirst` and `FoldOfMore` relate a loop to the same loop over a
beginning of its sequence. `KeptInOrder` says what a filter returns. The
store's loops (reducer, coalescing, index) are proved about with these. The totals over
finite sets (`IsTotal`) are there too: the hub's bytes and the tree's aggregates are both
sums of which one step adds or takes a summand.

About `StoreSpec`, for all exchanges, batches, snapshots and filters, under
`StoreAssumption` (revisions, arrivals, durations and sizes are naturals, the last two
possibly missing; `Absent` is none of the values). An exchange that the hub evicted and got
again has another arrival; a store that still has its row keeps the row where it stands and
notes it in `displaced`, and the order is one by arrival only until then. The invariant is `StoreInv`, whose parts are
the rows with their order and their tree (`EntitiesInv`), the selection (`SelectionInv`), its
hidden flag (`HiddenInv`), the draft (`DraftInv`), the expanded nodes and the sources.

- `StoreTypeCorrect`: `StoreTypeOK`; `SelectionCorrect`: `OneSelection`; `HiddenCorrect`:
  `HiddenIsTold`; `DraftCorrect`: `DraftTellsItsExecutions`. `HiddenInv` needs that a batch that
  changes nothing visible makes no effect due only because rows, order and tree are all
  untouched by it: coalescing leaves one change per exchange, so that two changes of one
  exchange cannot cancel each other out (`CoalesceIs`, `ReduceIs`).
- `TreeCorrect`: `TreeMatchesRows`, from the part `IsIndex` of the entities: every group is
  one that a row names, lists its children and its own exchanges without repetition, and
  counts exactly the rows under it. An insertion keeps it in one step (`InsertionIs`). A
  removal is a loop, from the last group of the path to the root, and what holds between two
  rounds is `IsLeaving`: the groups that the loop has yet to reach still count the exchange
  and are there for it, the others are those of the remaining rows. A group goes when its
  count is zero and no child is left; that nothing is under it then is `CountTellsEmpty`, and
  that its parent lost it from its list before its own turn comes is why the order of the
  loop matters. The reference looks along the children, by a recursive function. The rows
  under each group are one such function, and there is no other because the paths have a
  greatest length (`GroupsAreBounded`): it finds exactly the rows under a group
  (`SeenIsUnder`).

### PanelProofs

About the safety parts of `MessageView`, `DataverseMapView`, `GridView` and `RecomposeForm`
and about `DatabaseWindow`, for all exchanges, texts, records, panes, columns, requests and bounds, under
`MessageAssumption`, `MapAssumption`, `GridAssumption` (the columns are a list without
repetition, and what stands for no column and nothing stored is neither) and `FormAssumption` (what a URL spells can be decoded, and no text is the
missing value).

- `SettledViewCorrect`: `SettledViewIsOfTheExchange`, from `MessageInv`: what a stage holds
  is of what its effect last ran with, and so is the one call that is not disposed,
  whatever is still under way for an exchange before; a settled view is one whose effects
  ran with what is in view.
- `SettledDiagramCorrect`: `SettledDiagramIsTheSources`, from `MapInv`: the newest render is
  under way, or what the container shows is its outcome.
- `GridFollows`: `GridFollowsUntilLeft`, from `EdgeInv`, which adds to the types that the
  position is within the content, that a scroll event or frame is due only while the grid
  is mounted, that only the user ends the following (`LeftIsTold`) and that a live grid that
  is not at its end has been moved by the user and will hear of it (`MoveIsHeard`).

- `ReloadCorrect`: `ReloadKeepsTheColumns`, from `ColumnsInv`: what is stored is what is shown,
  or nothing that would be taken back is stored and the defaults are shown (before the first
  change, or after a reload refused what a width of nothing had spoilt); and the order lists
  the columns (`Lists` of `LeftFold`), which a drag and a key stroke keep because the column
  that is moved is taken out and put back once (`KeptLists`, `ReorderListsColumns`).
- `FormCorrect`: `FormKeepsTheCapture`, from `FormInv`. The ids are what carries it: a row
  keeps its id through every change, an id given later is beyond the captured ones
  (`LaterIdsAreFresh`), a changed row's id is among the changed (`ChangedRowIsRight`), and
  the rows that come out of a raw text are all new (`ParsedIsRequest`), so that only a row
  as it was captured is asked to be what was captured (`QueryRowRoundTrip`).

Of the database workspace, about `WindowSpec`, for every set of commands and every capacity and bound, under
`WindowAssumption` (`Null` is neither a command nor a batch, capacities are positive).
`WindowInv == HubInv /\ StreamInv /\ ViewInv`: what the hub retains, what a publisher,
the channel, a snapshot or a translation carries, and what the workspace shows are
commands that the hub has had, each once in its collection. No part is inductive
alone, since a batch is filled from the hub and emptied into the rows.

- `WindowTypeCorrect`: `WindowTypeOK`, from `WindowInv`.
- `WindowImplementsLiveTable`: the refinement `ImplementsLiveTable`. Each of the window's
  actions is shown to be a step of `LiveTable` or a stutter; applying a batch keeps each
  key once because the upserted keys are taken out of the rows first.
- `QuietRowsCorrect`: `QuietRowsAreTheHubs`. Its invariant `IsFresh` says that there is a
  newest change of every command (`last`, which no variable records) with three parts:
  a batch no older than it tells the command as the hub has it (`NewestAreTheHubs`); the
  newest change is in the row, missed, in the subscription's snapshot or still on its way
  (`NothingIsLost`); a row that is as new as it, and not doubtful, is the hub's
  (`RowsAreNewest`). None is inductive without the others: the second brings the newest
  batch to the window, and the first says that it is right when it comes.

### TextScanProofs

`ScansCorrect`: `ScansKeepTheText`, about `ScanSpec`, for all texts of any length, all queries
all names, every table of lower case and every greatest number of matches, under
`ScanAssumption` (openings and queries are texts, names are names, and lower case makes of a
character at least one). What is captured is any text of its kind
(`ScanInv`), so the work is in what each scanner makes of an arbitrary text. A scanner is
proved about by what holds of its state at every place:

- the tokenizer: the tokens so far, joined, are the text before the index (`TokensAreTheText`,
  from `TokenEndIsInside`: whatever construct a token is, it ends inside the text and not
  before it begins);
- the layout: the lines so far are the tokens that are not blank, without the blanks around
  a text, each at the number of elements opened before it less those ended (`IsLaidOut`, `FormatIsLaidOut`);
- the search: an occurrence before the place is covered by a match, unless no more are
  sought (`FoundUpTo`, `SearchCovers`), which is said of the lowered text and, where a
  character has one for its lower case, of the text itself (`LowerKeepsPlaces`); and what is
  shown joins to the text up to the cursor even where the places are beyond its end
  (`PieceKeeps`, `ContentIsShown`);
- the splitter: it is in a literal where the number of quotes so far is odd, as deep as the
  parentheses outside literals (`IsScanOf`), and its parts are those between the cuts so far
  (`IsSplit`, `SplitIsAtTheTopLevel`). For the outer parentheses that are taken away the
  scans of the text with and without them are run side by side, one place apart: the outer
  one stays a parenthesis deeper (`ScansStayApart`), and as it is never at depth zero
  outside a literal before the end, the inner one is never below zero (`InnerStaysClosed`);
- the class ids: among one more number than names are taken one is free, because a name
  with different numbers is as many names (`UniqueIsNew`, by counting).

### What stays with TLC

Liveness under fairness (`WaitersAreAnswered`, `EndedConnectionsMarkTheirSource`,
`ShownEventually`), as does any statement about ENABLED. Every invariant and every action
property of a passing run is stated by a theorem.

## 5. Where documents and code disagree

These two have a run whose counterexample shows them and an entry under "findings".

1. `ui_mirror`: the initial snapshot of a window is read before the window's receiver
   exists; an exchange captured in between never reaches the window.
2. `adapter_outcome`: the outcome after a reconnect has revision 2 and the recovery
   snapshot before it revision 3.

Seen while modelling, without a run of their own, in the hub, the ingress and the adapter:

- a disconnect makes exchanges terminal without running retention (`capture_hub.rs:200`),
  so the repository stays above its limit with terminal exchanges in it, where
  `http_inspector_implementation_plan.md:1070` lets only in-flight ones exceed it;
- the end of one connection marks the exchanges of a source incomplete at once although
  another connection of that source is open (`capture_socket.rs:108`, against
  `http_inspector_implementation_plan.md:449`);
- a transport error after the cancellation passes the catch filters
  (`HttpInspectorAdapter.cs:383`) and makes `StopAsync` throw before it has forgotten
  anything.

In the same parts: a disconnect replaces the reason of a command and does not recount it
(`capture_hub.rs:227`), so that the byte account is too high or too low afterwards, and
stays so until commands enough are evicted for the subtraction to saturate, or the session
is cleared; when the clock has stepped back a disconnect stops at the first exchange
received later, and at one whose metadata have no room for the reason also without that
(`capture_hub.rs:212`), leaves the source's other exchanges and commands in flight and
publishes nothing of what it changed; a native window whose stream lagged is never told and stays as it was; a
clear request that is published after the next capture empties the window of it; the
development API's clear request does not reset the database windows; the adapter's capacity counts the
queue and the pending messages but not the one in the worker's hand, and a retry does
not ask for room (`http_inspector_adapter.spec.md:1152` asks for a bounded queue); a
retryable refusal is sent again at once on the same connection, where
`http_inspector_adapter.spec.md:751` treats it as a reason to reconnect.

In the window:

- Recompose replaces a draft that is not dirty and has not been executed although its
  replay is running (`recomposeDraftSlice.ts:12`; `http_inspector_implementation_plan.md:570`
  keeps a draft that has been executed).
- An import shows the rows that a translation of the live source applies late
  (`BrowserCaptureDataSource.ts:153` does not look at the source in use), although
  `ImportedCaptureDataSource.ts:14` presents one exchange.
- Alt+Shift+ArrowRight moves no column (`SequenceGrid.tsx:177` puts the moved one before
  its own neighbour), although the key is offered in `SequenceGrid.tsx:136`.
- Text shows the formatted document for JSON and XML (`MessageInspector.tsx:83`), where
  `http_inspector_implementation_plan.md:621` has it show the original.
- A command's detail is shown when it comes, also after another command was selected
  (`DatabaseWorkspace.tsx:59`; `http_inspector_implementation_plan.md:846` asks for stale
  requests to be cancelled or ignored).
- Applying the raw text gives every row a new id, so that none is known as captured any
  more, makes a base64 body text (`recomposeRaw.ts`), and loses that a body was unavailable.
- A character whose lower case is longer (the capital I with a dot) shifts the marks of all
  matches after it (`bodySearch.ts:13`, `CodeBodyViewer.tsx:33`); the text that is shown is
  the captured one all the same.
- A column whose handle is dragged left by the column's width is stored with a width of 0
  (`SequenceGrid.tsx:56`, `:137`); the next load of the page refuses it
  (`displayPreferences.ts:70`) and with it the order, the panes, the theme and the view.
- Scrolling back to the end resumes the following, where
  `http_inspector_implementation_plan.md:548` names the button alone. A pane that is
  resized while live hides the last rows until the next capture, which the model leaves
  out; a capture between a wheel step and its measurement takes the position back.

## 6. What is not modelled

- *Replay service and native listener*: a replay is a start and an outcome around one
  request, of which `CaptureHub` has the ingestion and `CaptureStore` the receipt; the
  listener is three mutexes taken one after the other. Neither has a model.
- *Adapter and hub in one model*: the half-closed socket, the error count of the listener
  against the adapter's retries, and what a command loses when its start was
  acknowledged by a listener that restarted. Both sides exist as modules; their product
  is beyond what TLC explores at the bounds that make it interesting.
- *Project integration*: shell scripts over receipts, backups and shared files, and the
  service that runs them.
- *Observation in the adapter*: readers, streams and bridges of client libraries.
- *Text and layout*: formatting, the overview, the export, the editors and their
  contents, and what a width, a pane or a theme looks like; the interpretation of OData options and
  the text of the diagram.
- *Status deltas and diagnostics*: they feed a status line only.

The order in which to go on: the adapter and hub in one model (an outcome that is tracked
is shown in the end, or its loss is told), then the scripts (whatever crashes, the files
are the developer's own after a clean receipt), then the observed streams (exactly one
outcome).
