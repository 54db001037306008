# DataHub in TLA+

Specifications of two halves of DataHub: the path of a metadata change from the topic it arrives
on to the three stores that show it (Java), and the web client that shows and edits metadata
(TypeScript, Ember). The modules are checked with TLC on small instances; the safety properties of
both halves are proved with TLAPS for all instances. All paths below are relative to the root of the repository.

1. [The system](#1-the-system) 2. [Modules](#2-modules) 3. [Runs](#3-runs) 4. [Proofs](#4-proofs)
5. [Differences between documentation and code](#5-differences-between-documentation-and-code)
6. [Not modelled](#6-not-modelled) 7. [Plan](#7-plan)

## 1. The system

```
ETL scripts ──MCE topic──▶ MCE job ──rest.li──▶ GMS ──▶ PostgreSQL (aspect store)
                                                 │ MAE topic
                                                 ▼
                              MAE job ──▶ Elasticsearch (search), Neo4j (graph)
web client ──http──▶ frontend ──rest.li──▶ GMS ◀── the three stores
```

### Backend

Both topics have one partition, both jobs one Kafka Streams thread.

| Part | State it keeps | Operations | Talks to |
|---|---|---|---|
| Aspect store: `BaseLocalDAO`, `EbeanLocalDAO` | table `metadata_aspect`: (urn, aspect, version) → value, audit stamp; version 0 is the latest | `add` (read latest, lambda, validate, compare, archive, write, purge, commit, send event), `backfill`, `get`, `list…` | PostgreSQL, Kafka producer |
| Numeric ids: `EbeanLocalDAO.newNumericId` | table `metadata_id`: (namespace, id) | draw an id | PostgreSQL |
| Event producer: `KafkaMetadataEventProducer` | none | send an event, not waiting | MAE topic |
| MCE job: `MceStreamTask`, `RestliRemoteWriterDAO` | consumer offset | post each snapshot to GMS | MCE topic, GMS |
| GMS resources: `BaseSnapshotResource`, `BaseEntityResource`, … | none | create, ingest, get, backfill, search, browse | the DAOs |
| MAE job: `MaeStreamTask` | consumer offset | index, then graph, for each event | MAE topic, both builders |
| Bulk queue: `ElasticsearchConnector` | documents waiting, request that is out | feed, flush, answer, retry | Elasticsearch |
| Builders (`metadata-builders`) | none | event → documents, nodes, edges | – |
| Graph writer: `Neo4jGraphWriterDAO` | the property graph | add/remove entities, add/remove relationships | Neo4j |
| `DownstreamLineageResource` | none | ask the graph for names, the store for their lineages | graph, aspect store |
| Read DAOs: `ESSearchDAO`, `ESBrowseDAO`, `Neo4jQueryDAO` | none | queries | the stores |
| Frontend, ETL scripts, models, validators | none that matters here | – | GMS, Kafka |

### Web client (`src/datahub-web`)

One page application. A component lives while its route renders it, so that it stays when the page
goes from one dataset to the next, and what it started goes on. What waits is an Ember
Concurrency task (restartable or not), a plain promise, a timer or an animation frame.

| Part | State it keeps | Operations | Hard because |
|---|---|---|---|
| Search page: route, search service, result and facet containers, pagination | url, results, facets, page links | search, turn pages, select and clear facets, retry, leave and return | facet changes are debounced, an overtaken answer still arrives |
| Search box: box, typeahead, grammar and suggestion steps | text, suggestions, cached queries, tooltip | type, focus, blur, submit, change the entity | a debounced query may be replaced, then its promise is never settled |
| Hot keys: service, listener at the root of the page | the action of a key, the focus | a box comes or goes, a key is pressed | the renderer decides which box comes or goes first |
| Analytics | configuration, trackers | page views, searches, impressions, events | rendered results are reported after the render |
| Requests: fetcher, error codes, cache | promises and results by arguments | call an api | callers share requests |
| Page of a dataset: route, tabs, containers | dataset, tab, what each container has read | visit, select a tab, read, retry | containers stay mounted while the dataset changes |
| Owners of a dataset | the edited list, the server's list, suggestions, avatars | add, confirm, change, remove, save | several reads and a save race; a save replaces all |
| Lineage graph | nodes, edges, selection | show, toggle, load | grows with each answer, in any order |
| Deprecation, wiki links, fabrics | form or list, what the server has | edit, write, read again | the page moves on meanwhile |
| Browsing | category, rendered parts of lists, memory of the endpoint | follow links, read, render | rendering takes many frames |
| Entity lists | the stored list, page, selection | toggle, select, remove | changed from several places |
| Notifications and banners | queue, shown one, timers, banners | notify, dismiss, time out, animate | promises and timers of different notifications |
| Session and dwell time | user, configuration, pages visited | start, log in and out, move, reload | what the user does decides what a click was worth |
| User lookup | keyword, options, highlighted and suggested one | type, choose | names come late, for several lookups at once |
| Hover drop downs | open, timers | enter, leave, choose | several timers run |
| Charts; `array.ts`, `object.ts` | computed properties; none | resize, change the data; filter, pick, pipe, traverse in frames | a computed property is kept until a declared dependency changes |

### What is hard

- **Threads of GMS** run `add` for the same aspect at the same time, at READ
  COMMITTED, with the primary key as their only coordination and a retry loop
  around the transaction. A commit may fail, or succeed unseen.
- **Effects outside the transaction**: the event is sent after the commit, and not awaited.
- **At-least-once consumers**: both jobs commit offsets every ten seconds and
  redo what they did since; the redone work meets newer state.
- **Half done work**: a snapshot is several transactions, an event is a document,
  a node and edges; any of them may fail, and errors are logged and skipped.
- **Derived stores**: graph and index are as old as the events they have seen; who reads two stores, or announces what it read
  a while ago, mixes ages.
- **Waiting**: the stream thread waits for the bulk queue, that one for a request, that one
  for its retries; writers wait for each other's rows.
- **Timeouts**: a request the MCE job has given up keeps running.
- **Answers that come late** (web client): to a page that shows something else by then, in another order than they
  were asked for, or after an edit they do not know of. Restartable tasks drop them, other tasks and promises do not.
- **Delays made on purpose** (web client): debounces, timers and chunks of frames, which fire after the state they were made for.

`PROJECT.json` lists each of these at its line ("hazards"), with the properties
that cover it.

What makes the backend correct: the store must hold exactly the committed changes,
never rewrite history, announce what it committed and nothing else; ids must be unique;
the graph must stay a graph and show, per source and type, the edges of one event, the
latest; the index must not lose documents or go back; the jobs must process every event, whatever fails.
What makes the web client correct: what is shown, edited and written belongs to what the url names and the
user chose, however requests and timers fall together; nothing the user made is lost; whatever waits, ends.

## 2. Modules

| Module | Models | Checked by | Theorems in |
|---|---|---|---|
| `LocalDAO` | `add`, `backfill` and their SQL, one action per statement | `dao_…` | `AspectStoreProofs` |
| `AspectStore` (extends `LocalDAO`) | requests that overlap or not; the store as its clients see it | `dao_store` | `AspectStoreProofs` |
| `AspectHistory` | abstract: what a versioned store promises | `dao_store` | `AspectStoreProofs` (refinement) |
| `NumericId` | `newNumericId` | `backend_parts` | `BackendProofs` |
| `GraphStore` | the effect of each Cypher transaction, as operators on a graph | | |
| `GraphWriter` (extends `GraphStore`) | `Neo4jGraphWriterDAO` under any sequence of calls | `backend_parts` | `BackendProofs` |
| `MaeConsumer` (extends `GraphStore`, `Lists`) | MAE job, bulk queue, builders, both stores | `mae_…` | `MaeConsumerProofs` |
| `MetadataPipeline` (extends `MaeConsumer`) | adds and backfills of GMS in front of the MAE job; downstream lineage requests behind it | `mae_job` | `MaeConsumerProofs` |
| `ReplayedView` | abstract: a view of a log built by an at-least-once reader | `mae_job` | `MaeConsumerProofs` (refinement) |
| `MceConsumer` | MCE job and the snapshot handler of GMS | `backend_parts` | `BackendProofs` |
| `Lists` | filtering a list, as a function provers can use (extended by `Browse`, `DatasetUrns` and `Collections` too) | | `Foundations` |
| `Foundations` | lemmas on greatest and least elements, recursion over `0 .. n`, filtered lists | | itself |
| `SearchPage`, `SearchBox`, `HotKeys`, `Analytics`, `Fetcher` | searching, and what it rests on | `web_search` | `WebSearchProofs` |
| `DatasetOwners`, `DatasetPage`, `Deprecation`, `WikiLinks` | the page of a dataset | `web_dataset` | `WebDatasetProofs` |
| `Lineage` | its lineage | `web_dataset` | `WebDatasetProofs` |
| `DatasetUrns` | its fabrics and urns | `web_dataset` | `WebDatasetProofs` |
| `WebDataset` | these six around one page, one of which moves at a time | `web_dataset` | `WebDatasetProofs` |
| `EntityLists`, `Notifications`, `ClientSession`, `UserLookup`, `HoverDropdown` | parts that stay while pages change | `web_shell` | `WebShellProofs` |
| `Browse` | browsing | `web_shell` | `WebShellProofs` |
| `Charts`, `Collections` | drawing, helpers | `web_shell` | `WebShellProofs` |
| `MCBackend` | `NumericId`, `GraphWriter` and `MceConsumer`, one of which moves at a time, with their values for TLC | `backend_parts` | `BackendProofs` |
| `MCWebShell` | what stays while pages change, browsing, drawing and helpers, one of which moves at a time, with their values for TLC | `web_shell` | `WebShellProofs` |
| `MCWebSearch` | the five modules of searching, the same way | `web_search` | `WebSearchProofs` |
| `MCMaeJob` | the MAE job from four sides, with and without a store in front | `mae_job` | `MaeConsumerProofs` |
| other `MC…` | values for TLC | | |

### LocalDAO

One (urn, aspect) pair: pairs share no row and no lock. A writer is a request thread.
`table` is committed; `dirty[p]` holds the uncommitted writes of `p`, and a
row in another writer's `dirty` is locked. `call[p]` holds the local variables of
`add`, `pc[p]` the next statement.

| Action | Code |
|---|---|
| `Begin` | `BaseLocalDAO.add`: arguments and audit stamp |
| `GetLatest` | `getLatest`, update lambda, `validateAgainstSchema`, equality test |
| `GetNextVersion` | `SELECT` of the largest version |
| `SaveOld`, `SaveLatest` | the two `save`s of `saveLatest`; an insert waits for a lock and then finds a duplicate key or not; an update of no row is an error nobody retries |
| `ApplyRetention` | the purge, inside the transaction |
| `Commit`, `CommitFails`, `CommitAckLost` | end of the transaction, `RollbackException`, commit whose answer is lost |
| `Retry` (in several) | `runInTransactionWithRetry` |
| `Produce`, `SendLost` | the event, sent or lost |
| `Backfill` | read the latest, send it as both values |
| `Crash`, `Tick` | GMS dies; the clock |

`retention` is a variable that never changes: its value is one of the policies, so that
one run covers several. `commits`, `used` and the fields `rank`, `since`, `id` are ghosts.

`AspectStore` adds the variable `serial`, which never changes: when it is true no two requests run at a time. Whoever runs, and whatever fails, the
store implements `AspectHistory` without the serial promise (`KeepsOnlySeenValues`): what is archived was once the latest value, and stays as it is. When
requests do not overlap it implements the documented form (`KeepsEveryValue`), in which a change archives the value it replaces and, without a limit, no value
is ever lost, and the table is exactly the window of retention (`WindowOfOneWriter`).

### NumericId, GraphStore, GraphWriter

`NumericId` is `find`, `insert`, `commit` per thread, with the unique constraint as a
lock and a test, and the same retry loop. `GraphStore` has one operator per public
method of the graph writer, because each is one write transaction: `AddEdges` is the
removal statement, `getOrInsertNode` for the endpoints and the `MERGE`s, in that order.
`GraphWriter` calls them in any sequence.

### MaeConsumer

`pc` follows `processSingleMAE`: document into the queue (`UpdateElasticsearch`, which
waits for a free slot when it fills the queue), node (`AddEntities`), edges
(`AddRelationships`). `Flush` is the one second timer, `BulkResponse` an answer that may reject documents,
`BulkFails` an exception, `CommitOffset` Kafka Streams between two records. `Crash` restarts at the committed
offset; `Shutdown` is the shutdown hook, which finishes the record and commits it. A field of a document is represented
by the offset of the event it comes from: "older" and "newer" are all the properties ask of it.

Not in the model: a request that is out when the process ends may be applied *while* the new process runs; here it is
applied, in part or whole, or not at all, at the restart. Documents a client deletes: no caller does.

### MetadataPipeline

Extends the MAE job by what is in front of it and who reads both ends, for one aspect, the lineage of a dataset. `Add` is a committed `add`, one step: its
statements are in `LocalDAO`, which shows that version 0 is what was committed last. `Backfill` reads that value outside any transaction.
Each then sends its event (`ProduceMetadataAuditEvent`) or dies before (`EventLost`); other threads run in between. `FindDownstreams` is
the Cypher query of the resource, with its limit, `GetUpstreams` the read of one lineage in the lambda.

`DerivedShowStore`: once the events about a dataset are consumed, the graph has the edges, and the index the value, that the store has
(`GraphShowsStore`, `IndexShowsStore`), unless calls about it overlapped or an event got lost, which the ghost `crossed` records; any later call without company
repairs it. `LineageAnswers`: a request in a settled system fails only if a lineage names the dataset twice or was emptied.

### MceConsumer

The stream thread sends a snapshot (`SendRequest`) and waits; GMS adds its aspects one
at a time (`Add`), each committed at once; an invalid one (`Reject`) or a
database error (`AddFails`) ends the request and leaves what it added. `Timeout` is the ten
seconds of the client: the request keeps running. `Finish(TRUE)` is the `catch` of `processSingleMCE`: log
and go on. An `add` is one step here; its statements are in `LocalDAO`.

### The modules of the web client

They share one way of modelling. JavaScript runs one callback at a time, so a step is an event (of the user, the router,
a timer, an answer) with everything that runs before the next one. A variable of a component keeps its name. A request in flight is an element of a
set or sequence with what it was asked for; its answer may come at any time, in any order, and may be an error. A restartable
task is a variable with at most one value: restarting it forgets the one before; a task that is not restartable is a set. What the
server knows is a variable only where the client changes it. Entities, texts and dates are model values, tables (`CONSTANT`s) say
what parsing makes of them. The properties below are conjunctions of named parts, each stated and commented in its module.

**SearchPage** (`OnSearch`, `GoToPage`, `OnFacetChange`, `OnFacetClear`, `OnFacetsDidChange` (the debounce fires), `SearchEntities`, `SearchFails`,
`Retry`, `WillTransition`, `Return`). `SearchPageAgrees`: at rest the page shows the query of the url (`IdleShowsUrl`), check boxes and url name the
same facets (`FacetsFollowTheUser`), the page in the url exists (`PageExists`), a selected facet can be taken back (`SelectedCanBeCleared`), page
links and ranks leave nothing out (`EllipsesHidePages`, `RanksContinue`). The first and the third except queries whose answer was overtaken:
`searchTask` is restartable but the function it awaits, which stores the answer, is not.

**SearchBox** (`OnInput`, `OnFocus`, `OnBlur`, `OnSubmit`, `OnChange`, `OnSelectedEntityChange`, `DidReceiveAttrs`, `RunQueryCallback` (the debounce),
`FetchFacetValue`, `QueryFails`, tooltip). `SuggestionsAreCurrent`, a part of `SearchBoxServes`: `SuggestionsMatchInput`, `NoTaskHangs` (a living task never awaits a promise
the debounce dropped), `BlurKeepsText`, `TooltipGoesAway`.

**HotKeys** (`DidInsertElement`, `WillDestroyElement`, `ChangeRoute`, `ListenToKeys`, `OnKeyUp`, …). The rest of `SearchBoxServes`: `NoBoxOfAnotherPage`,
`SlashFindsBox`. One render inserts the box of the next page and destroys the one of the last, in an order that is left open.

**Analytics** (`LoadAppConfig`, `VisitRoute`, `SearchAnswered`, `AfterRender`, `TrackOnAction`). `AnalyticsAreTrue`: `OnlyWhatIsEnabled`,
`PagesOrSearches`, `ImpressionsFollowSearch`, `EventsAreHandled`.

**Fetcher** (`CallThrows`, `CallSends`, `CallFindsCached`, `Respond`). `AnswersAreOwn`: `AnswersOwnArguments`, `CachedAskedOnce`, `ReadAsTyped`.
A text is given by what decoding and encoding make of it (`DecodeText`, …). `FetchAssumption` leaves out one kind: a text with both something to decode and something to encode (`a+b&c`) is sent
as it is (`build-url.ts:61-78`), and the server reads less than was typed.

**DatasetOwners** (`OpenDataset`, `GetDatasetOwners`, `GetSuggestedOwners`, `GetUserEntities`, `Reread`, `AddUser`, `ConfirmSuggestedOwner`, `UpdateOwnerType`,
`RemoveOwner`, `SaveOwners`, `SaveOwnerChanges`, …). `OwnershipIsSafe`: `EditsOwnDataset`, `PageAgreesWithServer`, `OwnersAreUnique`, `SavesHaveTwoOwners`,
`OtherSourcesStay`, `DotTellsMissing`, `HeaderOfDataset`. `raced` records that a dataset was left before its owners were read; then the list
of one dataset may be edited on the page of another.

**DatasetPage** (`VisitDataset`, `ReadDataset`, `SelectTab`, `Mount`, reads and failures of a container, relationship tables). One container is followed, any one: they
share nothing but the dataset. `PageIsOfOneDataset`: `ShowsDatasetOfPage`, `SearchEntityOfPage`, `MoreIsOffered`.

**Lineage** (`ShowDataset`, `ToggleNode`, `GetLineageData`, `LineageDataFails`, `ReloadLineage`). `LineageIsTrue`: `FreezesOnlyOnCycles`,
`LoadedIsComplete`, `CountsAreTrue`, `SelectedIsListed`, `CurrentIsCurrent`. The search that unfolds a toggled node does not mark where it
has been: on datasets that feed each other it never ends, which `frozen` records.

**Deprecation** (`VisitDeprecation`, `EditNote`, `OnDecommissionDateChange`, `ToggleDeprecatedStatus`, `OnUpdateDeprecation`, `UpdateDeprecation`, …).
`FormIsOfDataset`, a part of `EditsStayWithDataset`: `DeprecatedHasDate`, `NotDeprecatedKeepsNothing`, `HoldsTheDataset`.

**WikiLinks** (`AddInstitutionalMemoryLink`, `RemoveInstitutionalMemoryLink`, `WriteInstitutionalMemory`, reads, dialogs: what is typed stays in the dialog until it is cancelled). `LinksStayWithDataset`, the other part of
`EditsStayWithDataset`: `LinksOfOwnDataset`, `ShowsWhatIsStored`, and the action property `KeepsLinks`.

**DatasetUrns** (`VisitFabUrn`, `FabReadEnds`, `ShowFabrics`, `HideFabrics`, `OpenCategory`, …; urns and categories as functions). `UrnsLeadBack`:
`FabricLinksOfDataset`, `FabricsStayOpen`, `UrnRoundTrip`, `CategoriesLeadToDatasets`.

**Browse** (`OpenBrowse`, `FollowLink`, `BrowseAnswers`, `BrowseFails`, `NextChunk`, `OpenIndex`, …). `BrowsingAgrees`: `BrowseShowsParams`, `RenderedWhenLoaded`,
`LinksKeepTheWay`, `TrailIsWhole`. `LoadingEnds`: the spinner of a category goes. Together `BrowsingServes`.

**EntityLists** (`ToggleOnList`, `OpenList`, `ReadSnapshots`, `ReadEntities`, `OnSelectEntity`, `OnSelectEntityList`, `RemoveAllSelected`). `ListsAgree`: `ListedOnce`, `PageShowsList`,
`AllSelectedIsAll`.

**Notifications** (`Notify`, `DismissToast`, `ToastTimeout`, `ShowContentDetail`, `PerformModal`, `AppInitialBanners`, `AddBanner`, `OnDismissBanner`, `Dequeue`, …). `NotificationsAreServed`: `QueueIsServed`, `TimerIsOwn`,
`DismissedBannerLeaves`, `OffsetWhileBanners`, and the action property `ShownInOrder`.

**ClientSession** (`Load`, `LoadConfig`, `AuthenticateUser`, `Visit`, `DidClickSearchResult`, `Logout`, `Reload`, `Tick`, …). `SessionIsTracked`: `IdentifiedOnce`, `SatisfiedOncePerClick`, and the
action property `SatisfiedByResult`.

**UserLookup** (`LookUp`, `PartyAnswer`, `PressTab`, `PressArrow`, `PressEnter`, `ClickOption`, …). `LookupFindsUsers`: `OptionsOfKeyword`, `SuggestedIsHighlighted`, `FoundAsSought`.

**HoverDropdown** (`MouseEnter`, `MouseLeave`, `HideTaskEnds`, `SelectItem`, `ClickOutside`; `dropdownCode` says which of the three copies). `DropdownFollowsMouse`: `OpenWhileOver`, `CaretTellsOpen` and,
live, `ClosesWhenLeft`.

**Charts** and **Collections**: computed properties, and helpers on lists and objects as functions; the traversals in chunks are processes. `DrawnAndComputedWhole`: `BarsFit`, `BarsDoNotOverlap`,
`GaugeAgrees`; `TraversalIsWhole`, `PartitionIsWhole`, `PickAndOmit`, `PipeRunsInOrder`.

Where a part holds only apart from certain histories ("unless an answer was overtaken", "as long as nobody left before
the read ended"), a history variable (`overtaken`, `raced`, `movedOn`, `destroyedLast`, `disturbed`, `crossed`, `strayed`, …) records exactly them, and the
comment says why the code needs the exception. Section 5 lists them.

## 3. Runs

All runs are configured in `<name>.cfg`. Deadlock is checked wherever the cfg does not say otherwise: it is switched
off only where the system rests when producers emit nothing more, users stop, or the bounded calls are made.

A run checks several parts that share no state, one at a time: the variable `focus` (chosen in `Init`, never changed) says which of them moves. Their states add up
instead of multiplying, and nothing is lost, because no step of one part reads or writes a variable of another. `side` in `mae_job` does the same for the two halves of the
MAE job, each with the events and faults that matter to it: on the graph side the bulk queue is served at once, on the index side the graph
writer does not fail. Its other two sides put the aspect store in front of the job, once with faults (`pipeline`), once with requests (`lineage`). In `web_dataset` the header of a dataset, which shares nothing with the list of owners but the dataset of the page, answers late under the focus `header`, without edits, and at once
under the focus `owners`. `serial` in `dao_store` says whether requests overlap; those that do are fewer (`MaxOverlapping`).

| Run | What it shows |
|---|---|
| `dao_store` | two writers, without a limit and with version-based retention, all faults: types; one row per change (`OneRowPerChange`); versions increase; a failed attempt needs a rival or a database fault; version 0 is the last commit and `createIfAbsent` never overwrites (`LatestIsRight`); events announce only committed values, without faults all of them (`EventsTellCommits`); history is immutable; without overlap the retention window is exact (`WindowOfOneWriter`) and the store refines `AspectHistory` in the documented form, each change archiving the value it replaces, through lost answers and crashes too; with overlap it refines the weaker form (`HistoryIsReal` = `KeepsOnlySeenValues`, `KeepsEveryValue`) |
| `dao_liveness` | every `add` ends although writers wait for each other (`AddTerminates`); time-based retention removes no young archived row (`FreshHistorySurvives`) |
| `backend_parts` | three threads draw ids that are unique, increasing and dense, and a call fails only by rivals and faults (`IdsAreInOrder`); all call sequences on three urns leave no dangling edge and one edge per pair and type (`GraphIsSound`), an added relationship is there and an edit of a source touches no other (`EditsAreExact`); the MCE job keeps the store on the order of the topic, every event is added or logged (`ProcessedIsStored` = `StoreFollowsTopic`, `LostOnlyIfLogged`), and nothing stops it (`EverythingConsumed`) |
| `mae_job` | crashes at any point: the graph is that of a prefix of the topic, all of it once caught up, and no document is lost that is rejected less often than it is retried (`StoresFollowTopic`); the edges refine `ReplayedView`, skipping an event only when the graph writer failed (`EdgesAreAView`); no field goes back without a crash (`IndexNeverGoesBack`); everything is consumed; behind the aspect store graph and index end at what it has (`DerivedShowStore` = `GraphShowsStore`, `IndexShowsStore`), and requests for downstream datasets are answered (`LineageAnswers`) |
| `web_search` | quick and late answers, debounced facets, links back, suggestions while typing, the slash key, trackers, a shared cache |
| `web_dataset` | the page goes between two datasets while owners, links, deprecations and fabrics are read, edited and saved, and the lineage grows |
| `web_shell` | browsing and rendering in frames (with `LoadingEnds`), lists, notifications, session, lookup, drop downs (with `ClosesWhenLeft`), charts and helpers |

Five more runs are refuted by TLC; see section 5.

### Bounds

| Run | Bounds | Why enough |
|---|---|---|
| `dao_store` | 2 writers; 4 adds one after the other, 3 that overlap (`MaxOverlapping`; values that fail validation only without overlap); 3 values and an invalid one; `Limit` 2; 1 retry; 2 faults; 1 backfill | a third add lets one commit between the read and the write of another after a first row exists; a fourth makes retention purge twice; all properties of the run are proved for any |
| `dao_liveness` | 2 writers, 3 adds, time up to 2 with a limit of 1 | a row ages past the limit while another is written |
| `backend_parts` | 3 threads, 3 calls, 1 retry, 1 fault; 3 urns, 2 types, batches up to 2; 3 MCEs of 2 aspects, 1 fault | two rivals can defeat both attempts of a third; a batch needs two entries to disagree, an edge two ends; two snapshots write one key with different values and one is redelivered; timeouts are not counted as faults, so they combine with each of them. All three are proved for any |
| `mae_job` | 3 events, 2 faults, queue of 2, 1 retry | an older and a newer event of one key and one of another; a crash during the redelivery after a crash; a document rejected once and then accepted, and twice; with the store 2 threads and 3 calls on 2 datasets, at most 1 fault, a limit of 1 downstream dataset where there may be 2: two calls that cross and one that repairs |
| `web_search` | 2 keywords, 2 facets, 2 searches in flight, 1 debounce pending; 4 texts, 1 query asked; 3 messages to trackers; 2 calls | two answers are needed to overtake each other; two calls to share a request |
| `web_dataset` | 2 datasets, 2 reads in flight, 1 save pending, 1 already made; 3 lineage nodes, 2 loads at a time; 2 updates or changes | a read of the old dataset and one of the new; three nodes are a chain, a fork and a cycle |
| `web_shell` | categories three levels deep, chunks of 2, 2 requests pending; 3 entities listed and one of another kind; 4 notifications, 3 banners; 2 clicks, time up to 4; 2 users sought, 3 lookups waiting; 2 timers; series of 2, lists of 3 | a chunk that is full and one that is not; a notification that replaces, one that waits and one after it; a timer that an earlier pass of the mouse left behind |

Every bound is a `CONSTANT` named `Max…` and appears in a guard: it limits what users, clients, producers and faults do, never what the code does with it.

### Fairness

- `LocalDAO`: weak fairness of each step of a running request: server threads are scheduled and PostgreSQL releases the lock
  of a transaction that ends. No client has to call, no fault has to happen.
- `MaeConsumer`: weak fairness of the stream thread, of the flush timer and of the answer to a bulk request (the REST client
  has a timeout, so a request always ends). Offsets need not be committed, GMS owes no event.
- `MceConsumer`: weak fairness of the stream thread and of the timer of the HTTP client. GMS owes no answer.
- `Browse`: the browser runs the animation frame that was requested. `HoverDropdown`: timers ring. The server owes no answer, the user no action.

## 4. Proofs

`tlapm` checks every module with theorems; nothing is assumed but the named `ASSUME`s of the modules, which TLC evaluates
in each run. None limits the number of writers, retries, faults or the size of a batch.

| Theorem | Property | Module |
|---|---|---|
| `TypeCorrect` | `TypeOK` of `LocalDAO` | `AspectStoreProofs` |
| `OneRow`, `Increasing` | `OneRowPerChange`, `VersionsIncrease` | `AspectStoreProofs` |
| `RivalsOnly` | `FailureNeedsRivals` | `AspectStoreProofs` |
| `ImmutableHistory`, `FreshRowsStay` | `HistoryIsImmutable`, `FreshHistorySurvives` | `AspectStoreProofs` |
| `LatestRight`, `EventsTell` | `LatestIsRight`, `EventsTellCommits` | `AspectStoreProofs` |
| `StoreIsReal` (refinement, twice) | `HistoryIsReal` | `AspectStoreProofs` |
| `WindowKept` | `WindowOfOneWriter` | `AspectStoreProofs` |
| `NumericIds` | `IdsAreInOrder` | `BackendProofs` |
| `GraphIsWellFormed`, `EditsExact` | `GraphIsSound`, `EditsAreExact` | `BackendProofs` |
| `ProcessedIsStoredAlways` | `ProcessedIsStored` | `BackendProofs` |
| `PartsHaveTypes` | `PartsTypeOK` | `BackendProofs` |
| `StoresFollow`, `IndexOnlyGoesOn` | `StoresFollowTopic`, `IndexNeverGoesBack` | `MaeConsumerProofs` |
| `JobImplementsView` (refinement) | `EdgesAreAView` | `MaeConsumerProofs` |
| `PipelineHasTypes`, `StoreIsShown`, `RequestsAreAnswered` | `JobTypeOK`, `DerivedShowStore`, `LineageAnswers` | `MaeConsumerProofs` |
| `OwnershipStaysSafe` | `OwnershipIsSafe` | `WebDatasetProofs` |
| `EditsStay` (from `FormStaysOfDataset` and `WikiLinksStay`) | `EditsStayWithDataset` | `WebDatasetProofs` |
| `PageStaysOfDataset` | `PageIsOfOneDataset` | `WebDatasetProofs` |
| `GraphIsOfLineage` | `LineageIsTrue` | `WebDatasetProofs` |
| `FabricsAndCategoriesLead` | `UrnsLeadBack` | `WebDatasetProofs` |
| `SearchPageIsInAgreement` | `SearchPageAgrees` | `WebSearchProofs` |
| `SearchBoxIsServing` | `SearchBoxServes` | `WebSearchProofs` |
| `AnalyticsStayTrue` | `AnalyticsAreTrue` | `WebSearchProofs` |
| `AnswersBelongToCallers` | `AnswersAreOwn` | `WebSearchProofs` |
| `ListsAreInAgreement` | `ListsAgree` | `WebShellProofs` |
| `NotifiedAreServed` | `NotificationsAreServed` | `WebShellProofs` |
| `SessionIsKnown` | `SessionIsTracked` | `WebShellProofs` |
| `UsersAreFound` | `LookupFindsUsers` | `WebShellProofs` |
| `DropdownIsOpenWhileOver` | the safety part of `DropdownFollowsMouse` | `WebShellProofs` |
| `BrowsedIsShown` | `BrowsingAgrees`, the safety part of `BrowsingServes` | `WebShellProofs` |
| `DrawnAndComputedHolds` (from `ChartsAreWhole` and `ComputedWhole`) | `DrawnAndComputedWhole` | `WebShellProofs` |
| `PartsKeepPromises`, `JobKeepsPromises`, `DatasetKeepsPromises`, `SearchingKeepsPromises`, `ShellKeepsPromises` | all safety properties of `backend_parts`, `mae_job`, `web_dataset`, `web_search`, `web_shell`, of the specification the run checks | `BackendProofs`, `MaeConsumerProofs`, `WebDatasetProofs`, `WebSearchProofs`, `WebShellProofs` |

**LocalDAO.** `TypeOK` is not inductive: that an archived row is a real aspect needs that a writer past its read has read
something real (`ReadOK`), and that the next version is well defined needs that the versions in use lie below the number of commits (`BelowChanges`).
Together they are `TypeInv`; `TypeCorrect` follows.

*One row per change*: a transaction that has written anything holds the key of the **next** version, or key 0 of an
empty table. So two such transactions would hold the same key, which the lock forbids: at most one has writes, its key is
`Len(commits)`, and its commit extends `0 .. n-1` by exactly `n`. That is `ChangeInv`.

*Failures need rivals*: an attempt that ends in a duplicate key has seen the table grow since it
read it, so the number of retries is at most the number of commits since the call began plus the faults (`RivalInv`,
over `ChangeInv`).

*History* (all policies): a writer's uncommitted writes are at version 0, at a version not in the table, or deletions of expired rows (`OwnRows`), and no two writers hold the same row (`Exclusive`), so neither a
commit nor a purge changes an archived row, and the clock only makes rows older.

*Latest value and events*: a transaction that changes anything carries version 0, as its new value or, past the time limit, as a deletion; and what a
writer is about to announce is its own commit, or the row it read, which was a commit. That is `TellInv`; an event sent is then one of a committed change, and the
value a `createIfAbsent` leaves is the one that was there.

**AspectStore.** Two refinements of `AspectHistory`. *With overlap*: what a writer is about to archive it has read, and what can be read was shown when it was read; the set of
values that were once the latest only grows, and version 0, once there, stays (`ArchiveInv`). So a commit adds to the history a value that was seen and changes no other entry (`OnlySeenValues`).
*Without overlap* that is not enough: the archived value has to be the one that is replaced. `FreshInv` says it: a request that is going to write works on the row that is the latest **now**,
which no other request can have changed, since nobody else runs (`SingleRunner`); an attempt that failed reads again, and one whose commit answer was lost finds its own value. Then a commit is the documented change
(`EveryValueKept`). *The window*: rows held are counted per statement, `Planned` before the purge and after it, because inside the transaction there is one row too many; that the purge takes exactly that one
is arithmetic over `PurgeWindow`. The condition that numbers are not reused with a limit other than 1 came out of this proof (section 5).

**NumericId.** The table is `1 .. Top`, a thread between insert and commit holds `Top + 1`, so only
one does, and what was returned is in the table, without repetition and above what was returned when its call began.

**GraphWriter.** Each operator of `GraphStore` preserves type, endpoints and uniqueness, one lemma each. That an added relationship is there and other sources are
untouched are facts about what `AddEdges` yields, and `EditsExact` follows for each step.

**MceConsumer.** "Processed in order" is not inductive: a request that timed out goes on writing. While no request was left running (the premise of
`StoreFollowsTopic`), only the one the job waits for writes (`Alone`), it writes the aspects of the event at the offset in their order, and a key this request has written holds
its last value there, and any other key holds what some prefix of the topic left, one between the offset and the furthest one ever reached, because a redelivery goes back but does not
undo (`Follows`). An event that was finished was complete, had nothing to store, or was logged (`Settled`). With `TypeOK` and
`RequestInv` (a request is about an event of the topic) this is the invariant `IInv`.

**MaeConsumer.** What the stores show between two events says nothing of the moments in between, and a document that is on its way has left the
topic and is not in the index yet. `JobInv` says where everything is at any time:
- `EdgesInv`, `NodesInv`: while an event is being processed, the edges of a type from an urn are still those an event between `position` and `reached` left; a redelivery
  writes the edges of one event as a whole, so the witness moves but never splits (`EdgesStep`, over `EdgesWritten`).
- `QueueInv`: what is out and what waits are documents of events already fed, in order; `Sorted` survives the filter of a retry because `Only` keeps the
  order (`OnlyKeeps` in `Foundations`).
- `DocumentsInv`: as long as nothing was dropped (`Harmless`), the last document of a field is in the index, or it is the last of its kind in the queue; `RetryInv` counts the
  rejections, so that retries run out only after more faults than retries.
- `IndexInv`: before the first crash the index is older than all that waits. A rejected document is sent again before the next request leaves, hence never after a newer one.

*The refinement*: `JobStepsView` maps each step to a step of `ReplayedView` or a stutter: an event that replaces edges applies its entry, an event of another urn or type keeps them
(`EntryKeeps`), a failure of the graph writer skips, a crash goes back to the committed offset.

**MetadataPipeline.** `PipelineInv` is `JobInv` with GMS around it. Every step of the pipeline is one of the job on its own, where a call sends an event or loses one
(`PipelineIsSteps`), so `JobInv` needs no second proof. `AnnouncedInv`: of a dataset without crossed calls there is at most one call under way, with the value stored; else the last event about it has that
value. Then a settled dataset has its last event read (`SettledIsRead`), which `EdgesInv` turns into its edges and `DocumentsInv` into its document. `RequestInv` remembers the set the graph named when a
request began: it lies between the datasets that have the upstream and those plus the emptied ones, so an answer as large as the limit or that set is as large as the limit or the datasets allow.

**DatasetOwners.** `OwnershipIsSafe` speaks of the list on the page; the invariant follows the lists to where they come from and where they go. A read under way says for which
dataset it was sent, and as long as no dataset was left before its read ended (`raced`), that is the dataset of the page; a save on its way to the server carries a list that passed the rules of the form; and every
list, shown, saved or stored, has each owner of a source once. Adding or replacing an owner keeps that because what enters is compared with what is there, which is a fact about lists with one
entry exchanged (`OnlyReplaced`, `OnlyAround` in `Foundations`). The hypothesis `KeysUniqueAtFirst` says that the server starts with such lists.

**Deprecation.** A dataset that is deprecated has a date, and one that is not keeps neither note nor date: in the server, in each answer and update on its way, and in the form; `DeprecatedAtFirst` says the server starts so.
Updates carry the dataset they are for, and the latest read is of the page's dataset.

**WikiLinks.** Every link anywhere (shown, to be written, under way, stored) is of the dataset of the place where it is found (`LinksAreOwn`), and while no read raced a write and nothing failed the list shown is the list
stored (`ListsAreCurrent`); a write then takes from the server only what the dialog took from the list (`LosesNoLink`).

**DatasetPage.** A restartable task has at most one read (`ReadsOneAtATime`), and the read that was started last is of the dataset of the page (`LastReadIsOfPage`): so when it ends last, what is shown is of that
dataset. That the table offers more exactly where it hides some needs that a filtered list is no longer than the list (`OnlyShortens`).

**Lineage.** What the page shows is counted and listed from a graph that grows in any order, so `LineageInv` says what the graph is at any time. Its levels have no gap (`Chained`), hence are bounded by the number of datasets
(`LevelsAreBounded`), which the type needs. Who is loaded, or asks for the second half, has the first half of its relations as edges (`LoadedIsFed`, `CallsAreReady`); edges are of the lineage, so the counts of what is loaded are exact.
*The search of a toggle*: a walk along edges that finds something in as many rounds as there are nodes would need a chain of that many sets, each smaller than the one before (`WalkEnds`); without a cycle what is left to
meet from a node shrinks along every edge (`Reach` is transitive), so the search ends (`SearchEnds`). *The selection*: as long as the page has shown one dataset, that dataset alone is at level 0, requests and edges keep to their sides of it, and every other node is joined to
one nearer by and related to the root (`IsOfOnePage`). Without a cycle no node is on both sides, so a toggle takes away, or adds, a whole part of the graph, and each selected node keeps a selected neighbour towards the root (`SelectionLeadsBack`).

**SearchPage.** A search under way, and a result that is shown, is of a url that was once visited, on a page counted from 1 (`AnswersAsked`); the task that runs is for the url (`RunsForUrl`); check boxes that differ from
the url have a debounce pending that makes up for it (`BoxesAreDue`); nothing is left when the page is (`NothingBehind`). Ranks, page links and the number of pages are arithmetic on `Ceil` (`CeilOfStart`, `ResultsOwnPage`): the page of a start is the page asked for.

**SearchBox, HotKeys.** The living task awaits exactly one query, the one for its own text and entity (`AwaitsItsQuery`), since a debounce that drops a query leaves its task only when another task has replaced it; while the box has the focus the task
is for what is typed (`WorksOnInput`). The slash belongs to a box that is on the page, except after a render that destroyed the old box last (`KeysInv`).

**Fetcher.** Each call has the request for what it asks (`CallIsOwn`), and each request of the cached api is kept under the key of its arguments (`PromisesKept`). That two calls share one only with the same arguments is that key and url tell the arguments (`KeyTellsArgs`, `UrlTellsArgs`);
that the server reads what was typed follows from what `FetchAssumption` says of decoding and encoding.

**Analytics.** What the trackers have heard of each kind is what was done, mapped: pages and events as lists, impressions as many as searches but the scheduled ones (`TellsAll`); and in each prefix of it there are no more impressions than searches (`SearchesFirst`).

**EntityLists.** A read, before it has the snapshots, is for all the list holds, afterwards for those the server knows, and the page has the same (`ReadsItsList`) unless the list moved on; removing from a list commutes with filtering it (`RemovedFromList`).

**Notifications.** What waits is newer than all that was shown, the newest first (`MadeBetween`); while something waits or the loop runs, the loop awaits the end of what is on the screen (`Ended`). Of the banners, as long as only the first was ever dismissed, the first alone is leaving, and
only while an animation runs (`FirstIsLeaving`).

**ClientSession.** Clicks that satisfied, with the one being measured, are never more than clicks (`DwellInv`), and while the user has not strayed whoever measures is on the search page or the page of the result clicked.

**UserLookup.** While names are on their way, the lookups that wait are those made so far, in order: the users sought are the names in them, and the keyword the last of theirs (`LookupInv`).

**HoverDropdown.** At most the last hide task waits, and none while the mouse is over (`DropdownInv`).

**DatasetUrns.** *The switcher*: as long as no read of fabrics failed or overtook another (`fabFailed`), the last read that is out is for the dataset of the page, and when none is out the links are those
of its fabrics (`FabInv`); that a link leads to the same dataset is that an urn comes apart into what it was built from (`UrnsComeBack`). *Categories*: the server cuts names behind a prefix, the client builds the
prefix from segments. Both are texts a segment and a delimiter at a time, so a name is written and split again without loss (`WrittenIs`, `SplitOfWritten`), a prefix is a prefix of exactly the names whose segments
begin with its own (`ExtendsIff`), and what the page offers below some segments is one segment longer (`NodesAre`, `GroupsLeadOn`). So whatever segments
the user has reached are a platform and the first parts of one of its names, never all of them (`LeadsOn`), and the page offers the next part. `UrnsAssumption` says what the server gives out: a name is its parts joined by the delimiter of its platform, with a leading one where that is a slash, in a form
`buildDatasetLiUrn` leaves as it is. The last is a condition on the deployment: `urn.ts:6-13` lists the platforms with slashes in the code, the server lists delimiters in its data, and nothing keeps the two lists equal.

**Browse.** `BrowseShowsParams` speaks of a page at rest; `PageAgrees` of any moment: while the task runs, or after it failed, no list is rendered; when it is done, the category shown is that of the url
(`ShowsCategory`), since a visit restarts the task. A list that is not rendered whole has its next frame requested and its spinner on (`RenderedOrSpinning`), so when a spinner goes the list is whole. Links keep the way because joining segments and splitting them again loses only empty ones
(`SplitOfSegments`), which is why `BrowseAssumption` gives every segment a name; breadcrumbs are the beginnings of the segments, in order (`TrailIs`), and folding drops none but those it counts (`FoldedTrail`).

**Charts.** Types, and that the gauge is drawn as computed, are inductive (`ChartsInv`). The rest is arithmetic for any series: the greatest value is one of them and not below any other, a product and a quotient do not grow when
their first operand does not (`TimesGrows`, `DivGrows`), so no bar is longer than the element nor shorter than that of a smaller value.

**Collections.** *Traversals*: what a call has accumulated and what it has left make up what it was given (`CallOK`): for `iterate`, the accumulated list followed by the rest mapped is the list mapped; for `reduce`, the keys
assigned and those of the rest are the keys of the list. When nothing is left that is `TraversalIsWhole`. *Pipes*: reducing a list of functions builds a composition from the inside out (`ComposedIs`), a run applies them from the first on (`RunIs`);
that one is the other for the reversed list is the last entry of the two recursions (`ComposedRunsBackwards`). *Partitions*: the lengths of the entries in a set and outside it add up, position by position (`PartsOfPartition`).

**Compositions.** The theorems above are about a component's own specification. A step of `WebDataset`, `MCWebSearch`, `MCWebShell` or `MCBackend` is a step of each of its parts or leaves it alone
(`WebStepIsStep`, `SearchingStep`, `ShellStep`), and what starts the composition starts each part; so the composition, which is what a run checks, keeps what was proved of the parts (the theorems called `…KeepPromises` and `…KeepsPromises`). The sides
of `MCMaeJob` share the job, and need an invariant of their own (`SidesInv`): `JobInv` on all of them, that of the pipeline where a store is in front, and where none is, that no dataset is outside `crossed` and no request is calm, so that nothing is claimed of them.

Only model-checked: liveness (`AddTerminates`, `EverythingConsumed` of both jobs, `LoadingEnds`, `ClosesWhenLeft`), which is out of the prover's reach. Every
safety property of a passing run is proved. Recursive functions are unfolded by `FiniteRecursion`, and facts about every prefix of a list follow from a least counterexample (`NatHasLeast`),
since the provers cannot instantiate the induction theorems of the library.

## 5. Differences between documentation and code

Runs that TLC refutes, each a difference between documentation and code:

| Run | Says | Does |
|---|---|---|
| `dao_lost_update` | docs/what/aspect.md:8: every change creates a version | two overlapping adds read the same latest value; the second archives that one, and the first one's value is in no version |
| `dao_latest_purged` | `BaseLocalDAO.java:137`: older versions are purged | time-based retention also deletes version 0, even the row the same transaction has just written, when its audit stamp is old enough |
| `mae_stale_edges` | docs/what/graph.md:4: the graph always represents the current state | an aspect without owners, upstreams or manager leaves the edges of the one before |
| `mae_shutdown` | docs/architecture/metadata-ingestion.md:7: every MAE updates graph and index | a regular shutdown commits the offset of documents that are still in the queue, which nothing closes |
| `web_deprecation` | `entity-deprecation.ts:35`: `isDeprecated` says whether the entity is deprecated | the container hands the form `deprecated`, the form reads `isDeprecated`: the form of a deprecated dataset says that it is not, and an update withdraws the deprecation |

Seen while modelling, without a run of their own; backend:

- An event is also sent when nothing changed, and two writers may send their events in the other order than they committed
  (`Produce` is outside the transaction). An event a crash or the broker loses is never sent again.
- `BaseLocalDAO.java:136` guarantees version numbers that are "positive and monotonically increasing". The next number is one more than the largest in the table: with one version to
  retain, which `VersionBasedRetention` allows, each transaction purges the row it has just archived, and every change from the second on gets number 1 (the first gets 0). With overlapping
  writers a number can be given out again after it was purged for any limit.
- `SET node = $properties` of a later event drops the `removed` mark an earlier `Status` event has set.
- A lineage request fails as a whole when one dataset that the graph names has another lineage by then, and, for good, when a dataset emptied its
  lineage (its edges stay) or names the same upstream twice (`DownstreamLineageResource.java:73-79`).
- A `backfill` that overlaps an `add` may announce the older value last; a later one repairs that.
- Documents rejected more often than `numRetries`, and events whose graph update throws, are logged (or not even that) and skipped.
- docs/what/mxe.md:38 promises a FailedMetadataChangeEvent for a rejected MCE; no code produces one.

Web client:

- `notifications.ts:21-23` says one notification is shown at a time; a notification made while the loop over the queue awaits another starts a second loop, and two are shown one over the other.
- The answer to an older search, or the owners, fabrics and wiki links of the dataset shown before, may replace the newer ones: only tasks are
  restartable, not the functions they await. Owners of one dataset can then be saved to another.
- The cache of requests keeps a promise that was rejected: all later callers get the same error. The cache of facet values has no entity in its key.
- Malformed `%` sequences make the fetch helpers throw before anything is sent. Characters of regular expressions in a keyword of the user lookup make it fail.
- Functions handed to `arrayPipe` as a list run from the last to the first.
- "All selected" on a page of a list compares only the number of entities.
- The bar chart keeps the height of the first series; the gauge keeps its drawing when only the maximum changes.
- `search-box.ts:197` registers the slash as a jump to the box, `search-box.ts:204` clears it whoever registered it: when a render inserts the new box
  before it destroys the old one, the slash does nothing on the new page.
- The dialog for a link saves any text as an address, the empty one too, and saves it again when clicked again.
- A change to wiki links that is made while another is being written is dropped without a word.
- When a dismissed banner's animation ends, the first banner leaves, whichever was dismissed.

## 6. Not modelled

- Backend reads: `get`, `batchGet`, `list…`, search, browse, Cypher queries except the one of the lineage resource. They change no state; the paging
  arithmetic is in the plan.
- Backfill and ingest of the resources: sequences of `LocalDAO`'s `Backfill` and `add`.
- Builders of other entities and fields with the same shape as the modelled ones.
- Models, validators, Avro conversion, Java urns and the frontend server: no shared state or no behaviour; the ETL scripts are the
  `Emit` of `MceConsumer`. An edit in the web client is a `LocalDAO` add that replaces the value; `DatasetOwners` has it as one step of the server.
- `mce-kafka-job.clj`, `mce-flink-job.clj`, `gms_mae_conduit.clj`: experiments beside the build.
- Web client: comments and the history of schemas, which nothing renders; the mock server; templates, styles and constants except
  where a property depends on what a template passes on; header addons, tables and editors, which keep no state a modelled part depends on;
  uploads, the typed wrappers of endpoints that add nothing to `Fetcher`, and base classes for trackers that are not there; the Highcharts configuration.
- Not in any module: two browser windows of one user, except that the storage behind `EntityLists` and the server behind the others may change at any time where the module says so.

## 7. Plan

1. `MetadataPipeline` for the other aspects, and as a refinement: `ReplayedView` over the commits instead of the topic.
2. `Paging`: `EbeanLocalDAO.toListResult`, `QueryUtils`, `ESBrowseDAO` against reference definitions over bounded inputs, and a client that
   walks all pages while rows are added.
3. Theorems: the paging arithmetic of 2 for every page size and total, beside `CeilOfStart` of the search page.
