# A TLA+ model of the OrbitRelay kernel

OrbitRelay is a set of Rust crates for collaborative sessions: clients send
*actions* over a WebSocket, the runtime turns them into *events*, events are
stored and distributed to subscribers, and projections rebuild the current state
from them. This directory models the crates in which something can go wrong
between two steps. It holds TLA+ modules, TLC configurations (`*.cfg`) and proofs
checked by TLAPS.

Run `tlc -config X.cfg M` for the module `M` that `PROJECT.json` names for the run,
and `tlapm` on each of the eight `*Proofs.tla` modules for the proofs.

## 1. The system

| part | state | operations | hard because |
|---|---|---|---|
| **runtime** (`Runtime::execute`) | handler registry, execution leases | `register`, `unregister`, `execute` | a call is suspended at every await, may be dropped there, and its ports (authorizer, coordinator, pipeline) fail |
| **canvas / canvas-runtime** | the persisted events of each Stroke and what they replay to | `begin`, `append`, `end`, `cancel`, `remove` | a decision is made on a snapshot and persisted later; clients retry |
| **sync** (`MemoryEventBus`) | map of subscribers, a bounded queue and a counter of misses each | `publish`, `subscribe`, `next_event`, `close`, drop | threads, a lock held over a loop, a counter updated after the fact, slow consumers |
| **storage** (`MemoryEventStore`) | records and an index | `append`, `get`, `query`, `capture_checkpoint` | replays take many calls between which others append; tokens outlive a store |
| **transport** (WebSocket session) | connection state, codec, version, subscriptions, five kinds of bounded channels | one handler per message, one per event, heartbeat, close procedure | six kinds of tasks, each able to fail, block or be cancelled |
| **transport** (wire protocol) | none | strict decoding, version negotiation, error codes, identity binding | a text is checked in several layers, and what a client is told depends on all of them |
| **query**, **document-runtime** | catalog of documents and their order per session | composition, `insert`, `document.list`, `document.get` | an answer is put together over many awaits from three catalogs that are filled separately; authorization and reading are two steps |
| **asset-runtime** | asset store | `insert_verified`, `get_asset`, `read_range`, `read_asset_fully` | an asset is verified without a lock and read in many calls, through ports that may disagree |
| **pdf** | none of its own | `PdfInspector::inspect`, the walk over the page tree | the descriptor is looked up twice; the objects of a file are any graph |
| **node** | map of nodes | register, get, list | (one lock, one step per operation) |
| **core, protocol, asset, document** | none | validation, parsing | (values only) |

Calls go: WebSocket reader -> coordinator -> action worker -> `Runtime::execute` ->
handler -> canvas commands -> pipeline (storage, bus) -> event source -> pump ->
writer. The runtime, the bus and the store do not know of each other; the pipeline,
the coordinator of leases, the catalog and the state reader are traits that an
application implements, and are modelled as ports that answer or fail as they like
within what the traits' documentation asks of them.

What makes each part correct:

- *runtime and canvas*: the persisted history of a Stroke always replays; what was
  acknowledged stays; a retry does nothing; leases come back.
- *bus*: publishers are never held up; order per publisher; no loss without a
  reported gap; `None` only when the bus is gone.
- *store*: the index agrees with the records; paging has no gap and no repetition; a
  bounded replay is a snapshot.
- *session*: replies in order and at most once; events of a subscription between its
  acceptance and its end; a client can decode what it is sent; work is done only in the
  name of the bound actor; no task outlives the session; closing completes.
- *assets and PDF*: what was acknowledged is stored for good; a read returns verified
  content, within its limits, and ends whatever the ports answer; the pages shown are
  those of the page tree.
- *documents*: an answer is authorized, whole, and agrees with earlier answers; the
  catalog's two maps agree.

## 2. Modules

| module | models |
|---|---|
| `StrokeProjection` | payload validation, `StrokeLifecycle`, `StrokeProjector::apply` of `orbitrelay-canvas` |
| `CanvasCommands` | `CanvasCommandService`: when each command drafts an event and when it finds itself already done |
| `StrokeAggregate` | abstract specification: commands take effect one at a time on a map of Strokes |
| `CanvasRuntime` | `Runtime::execute` over those commands, one action per await |
| `EventBus` | `MemoryEventBus` and `MemorySubscription` |
| `Selection` | filtering a vector by position, with which `EventStore` says what a query matches |
| `EventStore` | `MemoryEventStore`, cursors, checkpoints, and readers that replay |
| `WireProtocol` | the messages, `JsonCodec::decode_inbound`, `TransportError` with its codes and retry hints, the version policies, `validate_action_binding` |
| `Connection` | abstract specification: the lifecycle of `TransportConnection`, and work done only for the bound actor |
| `WebSocketSession` | coordinator, reader, writer, action worker, query worker, event pumps, over `WireProtocol` |
| `DocumentQueries` | `DocumentComposer`, `MemoryDocumentCatalog`, `DocumentReadService`, the two query handlers and `RegisteredQueryExecutor` |
| `AssetReads` | `MemoryAssetStore`, `read_asset_fully`, and ports in their place that answer anything |
| `EncryptScan` | `contains_encrypt_marker` of `parser.rs`, the scan of the bytes for the name `/Encrypt` |
| `PageTree` | the rest of `parser.rs` of `orbitrelay-pdf`: the page tree walk, inherited attributes, geometry |
| `PdfInspection` | `PdfInspector::inspect`, the composition of `AssetReads`, `PageTree` and with it `EncryptScan` |
| `MC*` | the values of the constants for TLC |
| `CanvasRuntimeProofs`, `EventBusProofs`, `EventStoreProofs`, `DocumentQueriesProofs`, `AssetReadsProofs`, `WebSocketSessionProofs` | lemmas and theorems about the module of that name |
| `SessionStreamProofs` | theorems about what the client of a session sees, over `WebSocketSessionProofs` |
| `SessionRequestProofs` | theorems about the way of actions and queries through a session, over `SessionStreamProofs` |

Two abstract specifications are implemented by detailed ones, each shown with an
`INSTANCE ... WITH`: `StrokeAggregate` by `CanvasRuntime` (`ImplementsAggregate`: `strokes` is the
abstract map, a `Persist` the abstract step), and `Connection` by `WebSocketSession`
(`ImplementsConnection`: the state and identity of `connection`, and the jobs that the action
worker executed for `work`).

Definitions marked *mutated form* stand before the definition they change; no
specification uses them. Each is a plausible bug, and TLC finds the property that
`PROJECT.json` lists with it violated when it takes the definition's place.

### CanvasRuntime

`pc[t]` is the await that call `t` of `execute` is suspended in: `validate`,
`authorize`, `acquire`, `load_canvas`, `load_stroke`, `decide` (the state reader has
answered and the task has not resumed), `dispatch`, `dispatched` (the pipeline has
persisted the batch and not returned). Every step may be the last: `DropFuture`
drops the future at any await, and every port may fail. `Finish` releases whatever
the call holds, since the lease is a local of `execute`.

`strokes` is what the persisted events of each Stroke replay to: the value is
`Corrupted` once `StrokeProjector::apply` rejects an event. The key is the triple
(session, canvas, Stroke) that `load_stroke` takes, while the execution scope is the
Stroke identifier alone. A list of points is an element of `PointLists`: the code only
compares lists, counts them and asks whether they lie in the canvas space.
`MaxIndex` stands for `u64::MAX`.

### EventBus

The map of subscribers is behind a `RwLock`: a publisher holds the read lock from
`Publish` to `FinishLoop`; `Subscribe`, `Cleanup` and `Detach` need `Unlocked`. Failing
`try_send` (`SendFull`) and counting the miss (`CountMiss`) are two steps, as in the
code. `offered`, `delivered`, `reported`, `late` and `ended` are history variables for
the properties.

### EventStore

Each operation runs under the store's lock and is one step. `Stores` has two members:
a store that is created again has a new `store_id`, and readers may come back to it
with tokens of the old one. An append of a known id (answered with the stored record,
or with a conflict) changes nothing and is a stuttering step.

### WebSocketSession

`coordinator` is the await of `run_coordinator`: its `select!` (`loop`), the awaits inside
a handler (`resolving`, `subscribing`, `joining`), the report of a handler's error
(`complaining`) and the stages of the close procedure. `try_send` is `Queue`; `send` is
`Post`, which waits for room and, as in the code, does not look at the cancellation
token while it waits. Time is left out: a timeout is a step that may happen whenever
the code arms it. A frame is what the reader makes of it (`ReaderEvents`); a text frame carries
a JSON value that `DecodeInbound` takes apart when the coordinator takes the frame. `codec` is
`active_codec`: every queued message remembers the codec it is bound to, as `WriterCommand`
does. `executed` holds the jobs that the action worker ran, with the actor that the action
named.

### WireProtocol

A JSON object is the function of its fields, any other value a record with the type it can be
read as. `ValidateInbound` and the operators it uses are the checks of `codec.rs` in their
order, the first that fails giving the error; `Schema` and `Deserializes` are what serde then
asks for, unknown fields included. An error is its class and kind; its texts are left out,
since `Code` and `IsRetryable` do not read them.

### AssetReads, EncryptScan, PageTree, PdfInspection

`insert_verified` has two steps, since nothing is locked while it verifies (`VerifyInsert`,
`CommitInsert`). A read suspends at the lookup and at every range. `reads[r].port` says whether
catalog and reader are the memory store or other adapters; those answer any descriptor and any
chunk that the constructors `SourceAssetDescriptor::new` and `AssetByteChunk::new` admit, so
that lengths and places need not fit together. Bytes are small numbers, and a hash stands for
the content it is the digest of. `MaxU64` and `MaxUsize` are small widths, and `MaxUsize` is below
`MaxBytes` so that the conversion to `usize` can fail.

`EncryptScan` is the scan as the source has it: an index that goes through a sequence of byte
classes (the bytes the scan tells apart; the letters `Encrypt` are one element) and skips
comments, literal strings with nested and escaped parentheses, and hex strings. The reference
beside it has no scan: a position is plain text unless a comment or string that opens in plain
text encloses it, a literal string ending where its unescaped parentheses first balance and a byte
being escaped after an odd number of backslashes.

`PageTree` takes the objects as lopdf returns them: a document maps object numbers to
dictionaries whose kids may be anything. `Visit` is the recursive function of the source.
`PdfInspection` states against it a definition without a walk: a *place* is a list of kid
numbers from the root, found level by level to the depth that a tree on the nodes can have; a
document is a page tree when every place holds a node of its own that is a page or has kids,
and the pages are the places of pages in lexical order, each with the attributes of the nearest
node above it that has them. Box coordinates are integers.

### DocumentQueries

`task[t].pc` is the await that a query is suspended in: the authorizer, `list_documents`, the
first read of `document.get` (`resolve`), and then inside `get_document_view` the document, the
asset and one canvas per page. The answer of a catalog is a parameter of the step: `ReadAsset`
and `ReadCanvas` take any asset or canvas, or none, so that a catalog may lack what was
composed or return something else. `Presented` also has descriptors built by hand that give an
identity to another session, which `insert` has to refuse. `shown` and the last four fields
of a task are history for the properties. Identities are numbers (UUIDs in the code); titles
and layers are left out. Callers share nothing but the catalogs, which queries do not
change, so one caller is enough for TLC.

## 3. Runs

Bounds are in the `.cfg` files and the `MC` modules.

| run | checks | instance |
|---|---|---|
| `CanvasRuntimeLife` | `TypeOK`, `HistoryReplays`, `SnapshotIsCurrent`, `AcknowledgedEffectStays`, `RetryDraftsNothing`, `StrokesOnlyAdvance`, `ImplementsAggregate` | two symmetric calls, two actors, one Stroke, chunk indices up to 2, so that the boundary of `next_chunk_index` is met; conflicting and repeated requests |
| `CanvasRuntimeFaults` | `LeaseReturned` (fair) | two sessions and canvases sharing a Stroke identifier, refused payloads and points, a handler that comes and goes |
| `EventBusDelivery` | `TypeOK`, `EveryOfferAccounted`, `PublisherOrder`, `LagReportedPromptly`, `NoneMeansBusEnded`, `PublishReturns`, `ClosedIsReleased` (fair) | two publishers with two calls each, one subscription with a queue of 2, a counter saturating at 1, filters |
| `EventBusLostGap` | `MissesAreReported` **violated** | one publisher, queue of 1 |
| `EventStoreReplay` | `TypeOK`, `IndexMatchesRecords`, `PagesHaveNoGap`, `ReplayIsSnapshot`, `AppendOnly` | two stores, events with a repeated id, filters, limits of 0, 1, 2 |
| `DocumentAnswers` | `AnswersAuthorized`, `ViewIsWhole`, `ViewMatchesSummary`, `ListedIsFound`, `ComposedIsReadable`, `OrderMatchesDocuments`, `ListsOnlyGrow` | two documents, two sessions, two assets; page lists of two pages of different size, of more pages than `MaxU32` counts, empty and out of order |
| `PdfInspection` | `ReadsBounded`, `ReadIsVerified`, `AcknowledgedInsertStays`, `InspectionIsFaithful`, `InspectionsEnd` (fair) | two inserts and two reads of one asset, contents of up to three bytes read two at a time; one read from ports that answer anything; one read of every graph of three nodes and a page, of trees and graphs of up to four pages below a root of three kids, of every way to inherit attributes, of the name `/Encrypt` after every text of up to four bytes of eight classes, and of files that are encrypted or do not load |
| `SessionService` | `EventsWithinSubscription`, `ActionsInOrder`, `OneResponsePerQuery`, `NoTaskOutlivesSession`, `ClientCanDecode`, `LostHelloIsTold` | hello, authenticate, then subscribe and unsubscribe with a source that yields an event, ends, lags or fails, or more actions or queries than the channels hold; and a text for each check of the codec |
| `SessionClose` | `ImplementsConnection`, `CloseCompletesUnlessBlocked` (fair) | every message the session refuses, also from a client that names another actor, an action that is executed or waits at the close, and every way it ends |
| `SessionFlood` | `CloseCompletes` **violated** | a client that goes on sending |
| `SessionStuckPump` | `CancelledPumpEnds` **violated** | unsubscribe against a full event channel |
| `SessionLostFailure` | `FailureIsReturned` **violated** | a read error |

Why the bounds are enough: the races of `execute`, of the bus and of the store are between
two parties and one object, and the objects at their limits are small by choice
(capacities of 1 and 2, `MaxIndex` of 1 and 2, a counter that saturates at 1). The theorems
of section 5 remove the bounds of every passing run but `CanvasRuntimeFaults` for the properties they cover.
The session's channels have capacity 1 (outbound 3 in `SessionStuckPump`) because a full channel is the
interesting case; larger ones only make it rarer.

In `PdfInspection` three nodes and a page are enough for a cycle, a shared node and a chain beyond
the depth limit of 2. More pages than the limit of 2 need five nodes and a root of three kids, or a
second inner node: the documents of `WideDocuments` have up to four pages. Texts of four bytes before the
name reach a nested and an escaped parenthesis, an escaped backslash, and strings within comments and comments
within strings. Content of three bytes takes two ranges, the second of them short.

In `SessionService` two queries may be in flight, so that they complete in either order; that the
bound is met by a third one is left to the theorem `QueriesAreAnsweredOnce`.

In `DocumentAnswers` the page that overflows and the second document of a list are the boundary
cases; two sessions are what a misplaced document needs.

`CHECK_DEADLOCK FALSE` is set where the system may stop: a bus or store whose clients
have done all they may do, inspections that have ended, and the session, which can really deadlock (section 4).

### Fairness

- `CanvasRuntime!FairSpec`: weak fairness of every step of a call except `Acquire`: ports
  answer. Nothing is assumed of clients or of the order in which leases are granted.
- `EventBus!FairSpec`: a publish call runs to its end (it has no await and takes only
  locks that are released) and `close` finishes. `PumpedSpec` adds a consumer that calls
  `next_event` in a loop, as the event pump does.
- `PdfInspection!Spec`: weak fairness of every inspection: its ports answer each call and the
  executor polls its task. Nothing is assumed of what they answer, or of inserts.
- `WebSocketSession!FairSpec`: tokio polls every task that is ready, the writer's operations
  are bounded by the write timeout, ports answer. Nothing is assumed of the peer, of the
  heartbeat or of event sources.

## 4. What the runs show

Four runs find behaviours that disagree with what the repository says:

1. **A gap that is never reported** (`EventBusLostGap`). A publisher finds the queue full; the
   consumer drains it and waits in `recv`; the publisher counts the miss. `next_event` reads
   the count only before it waits, so the gap stays unreported until some other event is
   published.
2. **A session that does not close** (`SessionFlood`). The close procedure awaits the reader
   while the reader awaits room in the inbound channel, which the coordinator holds but no
   longer reads. `CloseCompletesUnlessBlocked` says that this kind of wait is the only
   reason for which closing does not complete; the workers, the pumps and a failing writer
   can wait in the same way on the event channel.
3. **An unsubscribe that stops the session** (`SessionStuckPump`). The coordinator awaits the
   pump inside its loop while the pump awaits room in the event channel of the coordinator.
4. **A read error that is reported as success** (`SessionLostFailure`). The reader's channel closes
   before `ReaderFailed` is posted, and the loop takes a closed channel for a graceful end.

Everything else that is checked holds.

One observation has no run of its own. At `<<` the scan for `/Encrypt` passes the first bracket and takes
the second one, which no bracket follows, for the opening of a hex string (`parser.rs:299`): the
entries of a dictionary are skipped up to the next `>`, the `/Encrypt` entry of a trailer included. The
comment at `parser.rs:35` says that the preflight prevents password attempts for ordinary encrypted
files; in fact it is the guard after loading, or the error of the load, that refuses them.
`InspectionIsFaithful` shows that the result is the same, `EncryptedUnsupported`; `TrailerEntryIsMissed`
in `MCPdfInspection` states the case, and TLC evaluates it.

## 5. Proofs

The theorems hold for every value of the constants that satisfies the assumptions named in the
component modules (`ProjectionAssumption`, `CatalogAssumption`, `RuntimeAssumption`, `BusAssumption`,
`StoreAssumption`, `DocumentAssumption`, `AssetAssumption`, `ScenarioAssumption`,
`SessionAssumption`). TLC evaluates each of them on the instances it checks. They say that bounds
are natural numbers, that the values standing for *none* are no proper values, and what the
constructors of the code guarantee about the inputs.

Hardly any property is inductive as it stands. Below, for each module, is the invariant that is,
and the reason for which it is needed.

### CanvasRuntimeProofs

The first section has lemmas about the operators: applying an applicable event gives a
projection again (`Apply` keeps types, contiguity of chunks and identity), a drafted event is
applicable, drafting makes the effect of the command visible, effects persist under further
drafts, and a command whose effect is visible is already done. Then, for every set of tasks,
Strokes, sessions, actors, canvases and point lists and every `MaxIndex`:

- `Invariant`: `Spec => []IInv`, with `IInv` the conjunction of the type invariant, *a task inside
  the leased part of `execute` owns the lease of its scope*, *every persisted Stroke is well
  formed* (right identity, contiguous chunks), *a task in `decide` or `dispatch` has the current
  state, and in `dispatch` its events are what the command drafts on it*, and *acknowledged
  effects are visible*;
- from it `TypeCorrect`, `HistoryAlwaysReplays`, `SnapshotStaysCurrent`, `AcknowledgementsHold`,
  `RetriesAreIdempotent`;
- `StrokesAdvance`: `Spec => StrokesOnlyAdvance`, an action property: only `Persist` changes a Stroke,
  and an applied event advances it;
- `Refinement`: `Spec => ImplementsAggregate`; a `Persist` of a non-empty batch is the abstract
  step, everything else stutters.

That a snapshot is current needs the lease, that the lease excludes needs the type of
`ExecutionScope`, that history replays needs the snapshot and that drafting implies applicability.

### EventBusProofs

For any finite set of publishers, any subscriptions, events and filters, and any capacity and bounds:

- `BusTypes`: the type invariant.
- `StreamsAreOrdered` (`PublisherOrder`), from `OrderInv`: the events a subscription has received and
  then those in its queue have increasing numbers per publisher, and *a publisher that has yet to
  come to a subscription has a number that no event of that subscription has reached*.
- `NoneOnlyAtEnd` (`NoneMeansBusEnded`), from `EndInv`: the map holds every open subscription, and
  what a publish call is about to clean up was closed. A receiver does not open again, so the
  list that a publisher gathers without the write lock is not stale in a way that matters.
- `LagIsReportedPromptly` (`LagReportedPromptly`), from `LagInv`: a consumer that waits in `recv` has
  spent `receive_after_lag`.
- `OffersAreAccounted` (`EveryOfferAccounted`): a miss that is not counted yet is a publisher between
  `try_send` and the count.

### EventStoreProofs

The induction theorems of the library take an operator, which no prover here can instantiate.
The module first states induction over sets of numbers (`NumbersInduction`, from the least element of
the complement) and recursion by a function from numbers and values to values (`NumbersRecursion`).
Both are first-order, and with them it proves what the recursive function `Selected` of `Selection` computes: its
equations, its type, that it only depends on the positions it is asked for, and that selecting up
to `n` is selecting up to `m` followed by selecting from `m` to `n`.

Then it proves, for any stores, events, readers, filters and limits:

- `StoreIsTyped`, and `StoreIsAppendOnly` (`AppendOnly`, an action property);
- `IndexIsFaithful` (`IndexMatchesRecords`), with the finiteness of the index: its size is what gives
  the next position;
- `ReplayHasNoGap` (`PagesHaveNoGap`) and `ReplayShowsTheCheckpoint` (`ReplayIsSnapshot`), from
  `ReplayInv`: the tokens that a reader holds point into the records of their store, *a reader between
  two pages holds exactly what its query matches up to its cursor*, and *one that is done holds what
  is matched up to its checkpoint*. Records only grow, so what is matched up to a position that was
  reached stays the same; a page cut at a limit ends with the record whose cursor comes next.

### DocumentQueriesProofs

One invariant, `Inv`, for any documents, sessions, page lists and callers. `CatalogInv`: a stored document
is a composed one, and the order of a session has each of its documents once. `ShownInv`: the last
list of a session is a beginning of its order. `TaskInv`: for each await of a query, what it has read
is what the catalog holds *now*, and its session has been authorized. Every step makes the catalogs
grow (`Grows`), and what a query knows survives that (`QueryStays`). From it `AnswersAreAuthorized`,
`ViewsAreWhole`, `ViewsMatchLists`, `ListedDocumentsAreFound`, `CompositionsAreReadable`, `CatalogIsConsistent`
and the action property `ListsAreStable`.

### AssetReadsProofs

For every set of assets, contents, scenarios, limits and widths and
every chunk size, `AssetInv` is inductive, and from it `AcknowledgedInsertsStay`, `ReadsStayBounded`
and `ReadsAreVerified`. `AssetInv` is the type invariant with two groups of facts. About the store:
*every record and every insert past its verification has the length and the hash of its bytes*
(`StoreVerified`), and *acknowledged inserts are stored*. About a read: *before its lookup it
holds nothing* (`ReadsFresh`), `ReadsBounded`, and *a read of the memory store has the descriptor of
the record that is stored, and as output the prefix of the record's bytes up to its offset*
(`ReadsFollowStore`). The last one is what makes `ReadIsVerified` inductive: it survives inserts only
because `CommitInsert` never replaces a record, and at the end of the read the prefix is the whole
content because the record was verified.

### WebSocketSessionProofs

For any scripts of the client, actors, subscriptions, failures and capacities, `SessionInv` is
inductive. Its parts: frames come from the script (`InputInv`); *a connection has an identity only once
it is ready, and is closed exactly in the last stages of the close procedure* (`ConnectionInv`); *the
jobs that wait or run are those of the bound actor* (`WorkInv`); *a pump that runs has a handle, or the
coordinator is waiting for it* (`PumpInv`); what was joined has ended (`JoinInv`). From it:

- `NoTaskIsLeftBehind` (`NoTaskOutlivesSession`);
- `SessionImplementsConnection` (`ImplementsConnection`): each step is a step of `Connection` or
  stutters.

### SessionStreamProofs

The coordinator and every pump write to one channel that the writer drains. `Stream` is what was sent,
then what is being written, then what waits. A step of the writer moves messages along it, leaves
out pings and pongs, and when the writer ends drops what was not written (`Kept`, `KeptAll`: there is an
increasing map from the positions of the new stream into those of the old); every other step
appends at most one message. So a property of the stream need only be shown to survive leaving
messages out and appending one:

- `EventsStayWithin` (`EventsWithinSubscription`), from `EventInv`: events of a subscription stand
  between its acceptance and its closing in the stream, *a subscription with a pump has been
  accepted in it*, and *one that is closed in it has a pump that is done and that nothing can start
  again*;
- `ClientsCanDecode` (`ClientCanDecode`), from `HelloInv`: every message is bound to the codec that the
  stream before it calls for, and to the version that the client was told. It needs `BeforeHello`: before
  the hello no query is in any channel and no pump runs, so nothing is said that has a version;
- `LostHellosAreTold` (`LostHelloIsTold`), from `ToldInv`: after the hello was taken, the stream tells of it
  or the coordinator is about to report the slow consumer.

`EventInv`, `HelloInv`, `ToldInv` and `BeforeHello` also hold on the instance of `SessionService`, where TLC
checked them before they were proved.

### SessionRequestProofs

The session never looks at the identifiers of requests, so what it promises about them depends on
the client. The two theorems say so: `QueriesAreDistinct` (no two queries of a script have one
identifier) and `ActionsAreNumbered` (the actions of a script have positive numbers, in their order)
are hypotheses and no assumptions of the module. TLC evaluates both on the scripts of the instances
(`ClientAssumption` of `MCWebSocketSession`). For actions the numbers are only names:
identifiers that a client gives out once can be named by the order in which it first sends them.

A request passes through lists: the input (channel, frame in the hands of the reader, rest of the
script), the channel of its worker, the event channel, the stream. `Passes` says that a list has some
of the requests of another one, in order; it holds for taking the first element, for what the
writer leaves of the stream and for a connection that breaks, so each step is a move of one
request and the rest passes.

- `QueriesAreAnsweredOnce` (`OneResponsePerQuery`), from `QueryInv`: *a query is in one of six places*
  (input, queue, in flight, being reported, event channel, stream) *and there once*. Refused queries
  go from the input to the stream at once, the others by way of all six; queries in flight
  complete in any order.
- `ActionsStayInOrder` (`ActionsInOrder`), from three invariants. `OrderInv`: what was executed, what is
  being executed, what waits and what is to be read *follow each other in the order of numbers*.
  `ResultInv`: a completion carries what an executor may answer, so its error has the code of a
  reply. `AnswerInv`: the replies of the stream are those of the first executed actions; and *while the
  writer lives and the loop runs, every other executed action is in the event channel, in order, or
  about to be posted*. The condition is needed: once the loop is left, completions are never
  taken, and then nothing more is replied to.

TLC checked `QueryInv`, `OrderInv`, `ResultInv` and `AnswerInv` on the instance of `SessionService` before
they were proved.

### Only model-checked

- `InspectionIsFaithful`: the scan and the walk over the page tree are recursive operators, which the provers
  do not accept;
- liveness under fairness (`LeaseReturned`, `PublishReturns`, `ClosedIsReleased`, `InspectionsEnd`,
  `CloseCompletesUnlessBlocked`): out of reach of the provers.

## 6. Not modelled

- the validation of single values: identifiers, canvas geometry, styles and layers, the
  hexadecimal form of hashes. It has no state, and the models keep what is compared;
- the DTOs of document queries beyond the fields that the properties compare;
- bytes: the parser of lopdf, JSON text, WebSocket frames;
- time: timeouts may fire whenever they are armed; how long things take is not modelled;
- persistent stores: the repository only has the token format for them;
- poisoned locks: the code recovers the value and goes on;
- `node`: a map behind one lock, each operation one critical section, with no caller in the
  repository that spans two of them.

## 7. Plan

1. Core of the system: canvas commands over the runtime, with proofs (done). Bus, store and
   session, model-checked (done).
2. `DocumentQueries` (done): composition, catalog, read model and queries.
3. `AssetReads`, `EncryptScan`, `PageTree`, `PdfInspection` (done), with proofs of the reads.
4. `WireProtocol` and `Connection` (done): what the session decodes and what it promises.
5. Proofs of the bus, the store, the documents, the session with its refinement, what its client
   sees, and `StrokesOnlyAdvance` (done).
6. `OneResponsePerQuery` and `ActionsInOrder` as theorems about clients that number their requests
   (done).
7. A composition of pipeline, store and bus: an event that a subscriber sees is in the store.
