# Verification of margin-offer-system

TLA+ modules that model the margin offer system, TLC runs that check them on
small instances, and TLAPS proofs of what holds for every instance. The modules
are translated from the Go and TypeScript sources; line numbers refer to `src/`.
A `MC….cfg` is checked with the module it is named after, a `…_proofs` module by
`tlapm`:

    tlc -workers 2 -config MCMemoryStore.cfg MCMemoryStore
    tlapm MemoryStore_proofs.tla

## The system

Margin offers (collateral, borrowed token, rates, amounts) are kept by a **store
service** in memory. Clients reach it by gRPC and may subscribe to changes.
**Backfillers** overwrite the store with what they read from the chain; a
**real-time ETL** applies chain events. Nothing is persisted, there are no tests.

| Component | State | Operations | Talks to |
|---|---|---|---|
| Offers, filters (`types/`) | – | `Validate`, `Clone`, `UpdateTimestamp` | used by all |
| In-memory store (`store/memory_store*.go`) | `offers`, three indexes, one RW lock | single and bulk create, update, upsert, delete; overwrite by filter; queries; `Close` | announces changes to the notification service, while it holds its lock |
| Notification service (`store/notification_service.go`) | subscriptions, a channel each, one event channel | `NotifyChange`, `Subscribe`, `Unsubscribe`; event, heartbeat and cleanup loops | stream handlers of the gRPC server |
| gRPC server (`store/grpc_server.go`, `grpc_converters.go`) | none of its own | one handler per RPC, several store calls in some | store, notification service |
| gRPC client (`store/grpc_client.go`) | connection | `MarginOfferStore` over gRPC | gRPC server |
| Backfiller (`backfillers/`, `cmd/backfillers`) | job queue, active jobs, counters, schedule | `BackfillRange`, `BackfillLatest`, workers, scheduler, cleanup, `Start`, `Stop` | chain client, gRPC client |
| Real-time ETL (`realtime-etl/`, `cmd/realtime-etl`) | three event channels, retries | chain callbacks, one loop per channel, `Start`, `Stop`, health monitor | chain client, a store of its own process |
| MarginFi sync (`backfillers/marginfi/`) | timer, running flag | `start`, `stop`, `syncBanks`, `forceSync` | chain, gRPC server |
| Pool decoding (`types/pool.go`) | – | `DeserializePool`, `DeserializeNodeWallet`, `DeserializePosition`, `ToMarginOffer` | backfiller |
| Chain client (`pkg/chain`) | connected flag | a mock | – |
| Metrics (`pkg/metrics`) | counters, gauges, health | counting, setting, health marks | called by all |

What is hard about each, and what makes it right:

- *Store*: bulk calls check once and loop afterwards, over batches that may name
  an ID twice; three indexes follow one table; overwrites delete by a filter and
  insert without looking. Right means: to a reader every call is atomic, and the
  indexes list what the table holds.
- *Notification service*: senders use a copy of the subscriptions after they gave
  the lock back; channels are closed by two others; slow clients fill channels.
  Right means: events in order and once, dropped only where the code says so,
  no send on a closed channel, streams that end.
- *gRPC server*: several RPCs make two store calls with the lock released in
  between; errors become statuses or failure counts. Right means: what is
  reported is what was done.
- *gRPC client*: it implements the store's interface with messages that hold less
  than the interface says. Right means: a caller cannot tell it from the store.
- *Backfiller*: callers, a bounded queue and workers under `Stop`, deadlines and
  failures; whole-store overwrites. Right means: each job runs once, callers are
  told what became of their job's batches and return, an answered job writes no
  more, a job leaves what it fetched, and a six-hourly job starts once a period
  although ticks come at any phase of it and late.
- *MarginFi sync*: a timer set after an await, syncs that overlap. Right means:
  a stopped service rests, a running one syncs, and data gets fresher.
- *Pool decoding and sync*: slices of bytes of any length, fetches of a chain that
  moves, overwrites that overlap, some of the whole store. Right means: the store's
  leverage offers are those of one fetch, and a sync spares other sources' offers.
- *ETL*: bounded channels that drop, retries that reorder, and a read-modify-write
  beside the other loop; a health check beside `Start` and `Stop`, each of which
  reports a connection a step after it was made or lost. Right means:
  the store follows the events, every event's fate is known, a lost connection is
  renewed, everything ends.
- *Shutdown of the store*: writers that were accepted before it, streams and the
  signal. Right means: subscribers get what was announced, and their copies follow
  the store.

`PROJECT.json` lists each hazard at its line with the properties that cover it.

## Modules

| Module | Models | Correspondence |
|---|---|---|
| `Offers` | `types/`, the overwrite filter | an offer is its ID, `Validate`'s verdict, index keys, filter fields and timestamps |
| `AtomicStore` | the promise of `MarginOfferStore` | a table, one step per call, bulk effects in closed form |
| `MemoryStore` | `MemoryStore` | an action per single call; a bulk call is a `Begin…` (checks), one step per loop iteration, and `BulkReturn`; `call` is its frame and the write lock |
| `Notification` | `NotificationService`, `SubscribeMarginOffers` | one send per step after the copy; `stamp` is the pending write of `LastActivity`, `missed` its age in heartbeats; `pc` places each stream handler |
| `Wire` | the four conversions between offers, filters and messages | `ToProto`, `Returned` and `ToProtoFilter` say what a conversion leaves out, `Convertible` what it refuses |
| `GrpcServer` | `GRPCServer`'s handlers that write, and the methods of `GRPCClient` that call them | each RPC a record; every store call one step of `AtomicStore` (`Store == INSTANCE AtomicStore`), on what `Wire` makes of the request |
| `Etl` | `Processor` | one action per callback, loop iteration, store call and retry |
| `Backfiller` | `Backfiller` | callers of `BackfillRange`, queue, workers, batches; `progress` is the job's `BackfillProgress`, counts as sets; `cancelled` the end of `main`'s context |
| `Listing` | `List`, filters, sort, pages; `ListMarginOffers`; the client's queries | `client` is one call: asked, listed, answered; a writer may come before each of the server's two reads; a sort may put ties in any order |
| `ProgramAccounts` | the account layouts of `types/pool.go` and its decoders | field widths in the order they are read; an account decodes if its kind is right and no field ends beyond its data |
| `PoolSync` | `SyncPoolsToStore`, `SyncPoolsWithPositions`, the workers' chain job (`Jobs`), the MarginFi overwrite, `ToMarginOffer`, the chain client | a step per remote call; amounts are numbers mod `Word` |
| `MarginfiSync` | `MarginFiSyncService` | a step per stretch between two `await`s |
| `Scheduler` | job registration in `main`, `ScheduleBackfill`, the ticker, `BackfillLatest` | `phase` walks through `main`; `now` is the time within six hours, `until` and `age` the ticker |
| `EtlService` | `Processor`'s `Start`, `Stop`, subscriptions, health check | a step per chain call and per mark in the metrics; `starting` is a `Start` that holds the lock; each start has its own goroutines |
| `ChangeFeed` | store writes, `NotifyChange`, streams and the shutdown of `cmd/store` | composes what `MemoryStore` and `Notification` take apart, heartbeats and cleanup included; a write holds the lock until it has announced its changes; a subscriber subscribes, lists, and applies its stream to its copy |
| `…_proofs` | – | theorems about the module before the `_`; `Etl_proofs` has those of `EtlService` too, `PoolSync_proofs` those of `MarginfiSync`, `Backfiller_proofs` those of `Scheduler`; each extends the modules it is about |
| `MC…` | – | constants for TLC |

An index is modelled as how often each list holds each ID: `removeFromSlice`
takes out the first occurrence, so the order of a list is never told apart.
`removeFromIndexes` deletes a list that became empty, which is a list with no
occurrences. Time is a counter that each storing call advances.

The constant `IndexesMade` says what constructors there may be: one that makes the
index maps (`TRUE`), one that does not (`FALSE`), which is the committed one. Run
`store` has both. After the latter the first write ends the process
(`MCMemoryStoreAsCommitted.cfg`); what goes beyond that is checked of a constructor
with the three `make` calls, and the modules above the store assume a store that
works, which is `AtomicStore`.

Five more constants say what the code does as committed, so that what lies behind
a fault can still be checked: `NamesMatch` and `BanksParsed` (`MarginfiSync`: do
the request's names mean something to the loader, do fetches give banks; both
`FALSE`), `FullLTV` (`PoolSync`: what `Validate` takes for a loan-to-value of one;
1, and the run has 100, the unit of `ToMarginOffer`, without which no offer of a pool
is ever stored: an over-approximation), `DurationsText` (`Scheduler`:
does the job file write `"6h"`; `TRUE` for a file like the guide's, the run has
`FALSE`, a file with numbers) and `Started` (`Backfiller`: `FALSE` in the run-once
branch of `main`). Run `marginfi` has `NamesMatch = TRUE`, with which the mock banks
get through. `HonoursSize` (`PoolSync`) is not a fault: `SolanaClient` takes no
notice of `dataSize` and a Solana node does; with it no account decodes, as each
`RequestedSize` is less than its kind's `End`.

History variables are named as such where they are declared. They record what a
property needs (`dirty`, `due`, `lost`, `quiet`, `raced`, `overtaken`, `order`, `settled`, `held`,
`fetched`, `silent`, `unsent`, `started`, `whole`, `late`) and no action's guard reads them.

Definitions introduced by "mutant of" are faulty variants of the definition they
precede. They are not part of any specification: each shows that some property
notices that fault.

## Runs

| Run | Shows |
|---|---|
| `store` | any sequence of calls keeps the indexes complete (`IndexComplete`) and, for IDs not made `dirty`, exact (`IndexExact`), meets what the loops rely on (`FrameOK`), stores only valid offers, and implements `AtomicStore` (`AtomicSpec`) through the refinement mapping `table <- Visible`: readers wait for the lock, so while a bulk call runs they are where the table was when it began |
| `notification` | order, no duplicate, no silent loss, no double close (`NotificationInv`); a channel is taken away only after an hour in which nothing fitted in, or while a sender has yet to note what did (`OnlySilentCutOff`) |
| `notification_live` | streams of clients that left end; due events arrive |
| `grpc` | reports match effects, through the conversions; nothing of an unknown type is stored (`GrpcInv`); a failed upsert or a wrong deletion count needs a race |
| `etl` | fates (`EtlInv`), order, store contents, settlement and shutdown |
| `backfiller` | each job once (`BackfillerInv`); success means every batch was handed over, failure none, unless cancelled (`OutcomeIsTrue`); a job that was answered writes no more (`ToldJobsWriteNoMore`); calls and workers end |
| `listing` | `Count` and bare `ListBy…` through gRPC answer as the store would have at some moment of the call (`ListingInv`); over pages an offer is missed only behind one that left, comes twice only behind one that came, or at a tie (`PagesFair`); following `next_offset` ends |
| `pool_sync` | two syncs, a job and the MarginFi service leave the leverage offers of one fetch, or of one batch of a job (`PoolInv`); a sync spares other sources' offers (`OthersKept`) |
| `marginfi` | one timer at most unless stop met a first sync, none after a failed start, rest after a stop |
| `scheduler` | a job whose cron expression says every six hours starts once a period if ticks are handled at once, at most twice otherwise, again and again; `BackfillLatest` returns. Of an hourly or daily job nothing is claimed: it is started like the others (`StartedAsScheduled`) |
| `etl_service` | until a second start a connected processor is reported healthy, or its health check is about to (`ServiceInv`); a lost connection is renewed, `Stop` ends the goroutines |
| `change_feed` | a subscriber's copy differs from the store only by changes on their way, unannounced, filtered, dropped or behind the cleanup of its subscription; a shutdown sends what was announced, before it and by the calls it waits for |

Each run checks a conjunction of its module's type invariant and named invariants
(`NotificationInv`, `GrpcInv`, …) and the deeper ones by themselves; `store` keeps
all apart, as they are theorems.

### Known divergences

What the code does not keep is defined as a property too, in the module it is
about, with the text of the repository that promises it. TLC violates each under the
configuration given; where that is a run's own, put the property in place of the
ones it lists.

| Property | Configuration | Divergence |
|---|---|---|
| `NoPanicWhileOpen` | `MCMemoryStoreAsCommitted.cfg` | the first write panics on a nil index map (`memory_store.go:35`) |
| `OverwriteSparesOtherSources` | `MCMemoryStoreSource.cfg` | a filter by source alone selects every offer (`memory_store_upsert.go:186`) |
| `NoSendOnClosed` | `MCNotificationClosed.cfg` | a send on a closed channel takes the store down (`notification_service.go:195`) |
| `BulkFailureIsAnError` | `MCGrpcServerBulk.cfg` | a refused bulk call is a success for the Go client (`grpc_client.go:227`) |
| `UpsertKeepsCreation` | `MCGrpcServer.cfg`, without its symmetry | an upsert through gRPC changes the creation time (`grpc_server.go:241`) |
| `RangeReturns` | `MCBackfillerOnce.cfg` | `-run-once` waits for ever: no worker is started (`cmd/backfillers/main.go:113`) |
| `JobReplacesStore` | `MCBackfillerBatches.cfg` | each batch deletes the ones before it (`workers.go:128`) |
| `ListAsLocal`, `ListedSource` | `MCListing.cfg` | a list through gRPC drops its filters (`grpc_client.go:103`); the server's list ignores the source (`memory_store_filters.go:11`) |
| `TypeCountAsLocal`, `LiquidityAsLocal` | `MCListing.cfg` | the count by type counts all (`grpc_client.go:332`); the sum of liquidity stops at the largest page (`:338`) |
| `StillPagesPartition` | `MCListing.cfg` | pages of a store nobody writes to miss and repeat offers created together (`memory_store_filters.go:104`) |
| `FetchedIsStored` | `MCPoolSyncLtv.cfg` | every fetched pool is refused: loan-to-values of 80 and 90 (`pool.go:388`) |
| `StoppedHasNoTimer` | `MCMarginfiSync.cfg` | a stop during the first sync leaves a timer behind (`syncMarginFiBanks.ts:131`) |
| `RunningHasTimer` | `MCMarginfiSync.cfg` | a failed first sync leaves a running service without a timer (`:119`) |
| `OthersSurvive` | `MCMarginfiSync.cfg` | a sync deletes the offers of everyone else (`:287`) |
| `OnlyFresher` | `MCMarginfiSync.cfg` | of two overlapping syncs the older may write last (`:122`) |
| `ReachedIsReplaced` | `MCMarginfiSyncAsCommitted.cfg` | no overwrite is accepted: the offers' types are sent under a name the loader does not know (`:11`) |
| `StartedAsScheduled` | `MCScheduler.cfg` | jobs start every six hours, whatever their cron expression (`workers.go:321`) |
| `FileJobsRegistered` | `MCSchedulerFile.cfg` | a job file written as in the guide is given up (`job_config.go:37`) |
| `CustomJobsInLatest` | `MCScheduler.cfg` | custom jobs never run (`backfiller.go:625`) |
| `LatestSourcesServed` | `MCScheduler.cfg` | `BackfillLatest` asks for sources the workers refuse (`workers.go:60`) |
| `ConnectedIsSubscribed` | `MCEtlService.cfg` | after a reconnection nothing is subscribed (`processor.go:264`) |
| `StoppedIsDisconnected` | `MCEtlService.cfg` | a health check reconnects a stopped processor (`:265`) |
| `StopIsGraceful` | `MCEtlService.cfg` | `Stop` after a second `Start` panics (`:105`) |
| `StopReturns` | `MCChangeFeed.cfg` | a connected subscriber keeps the store from stopping (`grpc_server.go:49`) |
| `DeletionsArrive` | `MCChangeFeed.cfg` | deletions are never announced (`memory_store.go:157`) |

One more has no run, as nothing calls the code: `docs/adding_jobs_to_backfiller.md:17`
says that default jobs run automatically every six hours, and no `main` calls
`BackfillLatest`, which is what runs them.

Some properties exempt what the code does not keep, and their comments say so:
`IndexExact` exempts IDs that a `BulkUpdate` repeats and IDs an overwrite
inserts beside a survivor or twice (their entries are duplicated or left over),
and `StoreFollowsEvents` exempts offers a liquidity event wrote back over a
newer margin offer event. `FrameOK` says nothing of `BulkCreateOrUpdate`
except that its batch is valid: it relies on nothing else. `OneTimerUnlessRaced`
exempts a stop during a first sync, `OncePerPeriod` late ticks,
`ConnectedIsReported` a second start, `LostIsRenewed` a processor that was stopped
before (its stop channel stays closed), `CopyFollowsStore` what is not announced,
filtered, dropped or kept back by the cleanup, `OnlySilentCutOff` a send that is not
noted yet, `StoredIsOneFetch` the IDs a bank shares with a pool, `OthersKept` the jobs'
whole-store overwrites, `OutcomeIsTrue` what the store refuses of a batch it was handed,
`MissedOnlyByDeparture` and `RepeatedOnlyByArrival` ties, and `OutcomeMatchesReport` the
source of an offer that went through `GRPCClient`, whose conversions leave it out both
ways.

### Bounds

- `store`: two IDs (symmetric), offers in three shapes with overlapping index
  keys and one that is refused, batches of up to two with and without a repeated
  ID, filters by type, by time and by a source, `MaxClock = 4` (three storing calls,
  across restarts), an event channel of one. Two IDs and two elements are what
  a repeat, a survivor and a neighbour need; the proofs cover the rest.
- `notification`: two subscriptions with different filters, two events, all
  capacities one, one silent heartbeat round for the code's hour
  (`IdleRounds = 1`). Full channels and the cleanup happen within a few steps.
  The liveness run has one event and room for one subscription.
- `grpc`: two handlers (symmetric), two IDs, offers with a lender and a source, one
  that is refused and one of an unknown type, a message of a client that is not
  `GRPCClient`, batches of two with and without the unknown type, filters by a known
  and an unknown type, `MaxClock = 4`. A race needs two RPCs.
- `etl`: five margin offer events about two offers, one always refused, four
  liquidity events, one of them refused and one of an unknown type, channels of two.
  `MaxRetries = 2` stands for the code's 3: it allows a first attempt, a retry that is
  not the last, and a last one.
- `backfiller`: three calls, of which one is a dry run and one asks for a source the
  workers refuse, two workers, queue of one, fetches of no and of two batches.
- `listing`: three IDs, one of them in two versions, two offers created together,
  pages of one and two, every kind of query, two writes. A page needs an offer before and one after
  it, and a writer must come between two pages or between the two reads.
- `pool_sync`: a call of each of the three kinds, two addresses (symmetric), four
  accounts: two versions of one pool (one overdrawn), a pool cut short, one with
  bytes to spare; `Word = 4`. The chain may change at every step, so two fetches
  differ. The ETL is left out: its only source of events, `SolanaClient`, makes mock
  events for a store of the ETL's own.
- `marginfi`: two starts, a forced sync, two syncs under way per timer, two fetches
  told apart.
- `scheduler`: six hours are twelve units, so that an hour is two; the window and
  the tick are three, as both are five minutes in the code, which gives ticks every
  phase the code's can have against the window; a tick is at most one unit late.
  Three job lists of which some jobs are disabled, nameless or without a request.
- `etl_service`: two starts, the least that shows what a restart inherits; losses
  of the connection are not bounded.
- `change_feed`: two IDs, three offers stored, a silent heartbeat round for the hour,
  channels of one, so that both kinds of drop and the cleanup happen. One subscriber,
  as no subscription affects another's channel; with two and `MaxOffers = 2` the
  properties hold as well (1.2 million states).

### Fairness

- *Notification*: weak fairness of the event loop, of the sends of a started
  round, of the write after a send, and of each stream handler: they are
  goroutines that can run, and a client that stays reads. No fairness of
  changes, of tickers, of subscribers and of departures.
- *Etl*: weak fairness of both loops, of the retry goroutines and of each loop's
  exit after `Stop`. A `select` chooses at random among ready cases, so a loop
  that is offered its exit for ever takes it. None of the chain or the operator.
- *Backfiller*: weak fairness of a caller's send and receive and of each worker,
  whose calls to the chain and to the store return (gRPC calls fail when the
  connection does). None of callers, deadlines, the cleanup and `Stop`.
- *Listing*: weak fairness of the server's two reads and of a client that pages.
  None of writers.
- *MarginfiSync*: weak fairness of every answer a sync awaits: the chain and the
  store answer or the connection ends. None of ticks, `stop` and callers.
- *Scheduler*: weak fairness of `main`'s next step, of time, of the tick's handling
  and of each result `BackfillLatest` awaits. None of callers and `Stop`.
- *EtlService*: weak fairness of a `Start` under way and of the goroutines. Strong
  fairness of a reconnection that succeeds (the chain can be reached again and again)
  and of the monitor's exit (its `select` is offered the exit and a tick in turn, and
  each health check takes the exit away for a while). None of losses, `Start` and
  `Stop`.
- *ChangeFeed*: weak fairness of announcing, of the event loop, of streams whose
  clients read and of `GracefulStop`. None of clients that leave, which is why
  `StopReturns` does not hold.
- *PoolSync*, *GrpcServer*: no liveness is claimed.

`CHECK_DEADLOCK FALSE` is set where the system may come to rest: all streams
ended, all events applied, all jobs returned, a stopped service, or a bound on
calls reached. The store's runs check for deadlock, `Close` and `Restart` always
remaining, and so do `listing` (another question can be asked) and `pool_sync`
(the chain moves).

## Proofs

The proofs hold for every value of the constants: any IDs, offers, calls, handlers,
workers, subscriptions and starts, any capacity of a queue or a page. Each module
states `Inductive`, that its invariant `IInv` holds in every reachable state, and
draws the properties from it; the invariants of the second models are
`ServiceIInv`, `SyncIInv` and `ScheduleIInv`. Every safety property of the runs, that
is every invariant and every action property, is the conclusion of a theorem. Three
properties of *Known divergences* are conclusions too, of theorems whose hypothesis
rules out what makes them fail, which shows that nothing else does.

| Module | Theorem | Property | Statement |
|---|---|---|---|
| `MemoryStore_proofs` | `TypeCorrect`, `FramesSound`, `IndexesComplete`, `IndexesExact`, `StoredIsValid` | `TypeOK`, `FrameOK`, `IndexComplete`, `IndexExact`, `OnlyValidStored` | the indexes list what the table holds, and only valid offers are in it |
| | `ImplementsAtomic` | `AtomicSpec` | the store implements `AtomicStore`: `Spec => AtomicSpec` |
| `Notification_proofs` | `Typed`, `InOrder`, `NoneLostSilently`, `OnlySilent` | `NotificationInv`, `DeliveredInOrder`, `NoSilentLoss`, `OnlySilentCutOff` | order, no silent loss, no double close, and whom the cleanup cuts off |
| `GrpcServer_proofs` | `Typed`, `Truthful`, `RaceOnly`, `CountedRight` | `GrpcInv`, `OutcomeMatchesReport`, `UpsertFailsOnlyInRace`, `DeletionsCounted` | what an RPC reports is what it did, but for races that are named |
| `Etl_proofs` | `Accounted`, `InOrder`, `Follow` | `EtlInv`, `OutOfOrderOnlyByRetry`, `StoreFollowsEvents` | every event is in one place, and the store follows them |
| | `Healthy` | `ServiceInv` | a connection is reported, or about to be, until a second start |
| | `OneStartIsGraceful` | `StopIsGraceful` | given a single start, `Stop` does not end the process |
| `Backfiller_proofs` | `Typed`, `ToldTheTruth`, `ToldJobsAreDone` | `BackfillerInv`, `OutcomeIsTrue`, `ToldJobsWriteNoMore` | each job runs once, and what its caller is told is true of its batches and final |
| | `OnceAPeriod` | `SchedulerInv` | a six-hourly job starts once a period, or twice at most |
| `PoolSync_proofs` | `OneFetch`, `OthersSafe` | `PoolInv`, `OthersKept` | the leverage offers are those of one fetch or batch, and syncs spare the rest |
| | `OneTimer` | `SyncInv` | one timer at most, and none after a failed start |
| `ChangeFeed_proofs` | `Follows`, `FollowsFairly` | `FeedInv` | a subscriber's copy follows the store |
| `Listing_proofs` | `BareQueries`, `FairPages` | `ListingInv`, `PagesFair` | queries by a key and counts are those of a moment; pages miss and repeat only behind what left or came, or at a tie |
| | `BareLists` | `ListAsLocal` | given lists without filters and with limits the server keeps, `List` through gRPC is the store's |
| | `PagesById` | `StillPagesPartition` | given pages in the order of the IDs, those of a store nobody writes to are the offers that match, each once |

### Inductive invariants

Hardly any of these properties is inductive alone. TLC checked each `IInv` as an
invariant of the module's run before it was proved. A lemma `…Keeps` per action,
or group of actions, shows that it keeps `IInv`.

- *MemoryStore*: that an iteration leaves an exact index depends on what the call
  checked before its loop (`FrameOK`) and on the frame being undisturbed. Every
  store of an offer goes through `StoreKeeps`: from an index cleared of the ID's
  entries (`Cleared`), adding the new offer's is complete and exact.
- *The refinement*: readers see the table a bulk call found until it returns, so of a
  bulk call only `BulkReturn` is a step of `AtomicStore`; the rest stutters. What
  that step has to be, `Overlaid` in closed form, is what the loop built piece by
  piece. `LoopOK` says how far it has come: an ID no iteration has named yet has
  what the table had (less what the filter took), any other what the *last* iteration
  that named it gave it (`After`). When the loop is done that is the last offer of
  the batch for each ID (`LoopDone`). Lemmas `…Implement` map each step.
- *Notification*: order and loss are about a pipeline: what a client received, what
  its handler holds and what its channel buffers, as one sequence. They are kept
  because no pipeline is ahead of the event loop (`NoneAhead`), every event that waits
  is later (`QueueOK`), and what is due is what the loop brings or brought (`DueOK`).
  The age a subscription has for the cleanup is that of the silence on its channel,
  unless a sender has yet to note what it sent (`MissedIsQuiet`).
- *GrpcServer*: `RpcOK` says of each RPC what will make its answer true: what its
  first store call saw (`SeenOK`), unless another RPC came between, and of a finished
  one what it left (`Left`). Other RPCs keep it by what `Witness` notes of
  their steps; own steps by what each operation of `AtomicStore` does in one call.
- *Etl*: an event that is sent is new to every place, so it is later than all
  that are in them; places (`Placed`), order (`OrderOK`) and store (`StoreOK`) hold
  together. A liquidity event that no margin offer event overlapped writes back
  the data it read.
- *EtlService*: while a processor that runs since its only start is connected, its
  health check is neither about to renew the connection nor to report a failure
  (`NoLateFailure`); a `Start` is under way only of a processor that never ran or was
  stopped (`StartsStopped`), and goroutines of starts to come do not run.
- *Backfiller*: a job is in the queue, at a worker or among the results, in one place
  (`Placed`), so a worker takes what nobody else has and a result stays. What a caller
  was told is the result (`Told`), and a result and the batches a worker has left say
  what became of all that was fetched (`Accounted`).
- *PoolSync*: a call carries one fetch, or nothing, from its fetch to its overwrite
  (`CallsHoldFetches`), whatever other calls do to the store, and each overwrite
  replaces all leverage offers there are (`StoredIsOneFetch`). *MarginfiSync*: while a
  start awaits its first sync, no timer lives and no other start waits
  (`OneStartWaits`), so the timer it sets is the only one.
- *ChangeFeed*: that a copy is right when nothing is on its way follows from what is
  on its way when something is: in the last of the channels that has an event of an
  ID, the last such event is the store's offer (`Followed`, `Ordered`); heartbeats
  among them change nothing, and what the cleanup keeps back is noted like a drop.
- *Scheduler*: how often a job was started at a moment of the period follows from
  whether the last tick fell in the period and was handled (`OnceByTick`,
  `TwiceByTick`).
- *Listing*: however the sort arranges a table, an offer that ties with no other stands
  right behind those ahead of it (`PlaceInOrder`), so a page has it exactly when
  their number is in the page's range (`OnPage`). While none ahead of it leaves,
  that number does not fall behind what was read (`NotPassed`), and while none comes it
  does not grow to what is still to read (`NotPushed`). The total is never less
  than that number, so paging does not end before the offer. For the other
  queries: each read is of a table held during the call (`ReadFromHeld`).

### Assumptions

The theorems rest on the named assumptions of the modules they extend, which TLC
evaluates in every run: inputs are of their types, capacities are positive,
`None` is none of the values it stands beside. Some theorems have hypotheses:

- `ScheduleInductive` and `OnceAPeriod` assume `Window = TickEvery`. Both
  are five minutes (`workers.go:278`, `:323`), and nothing in the code relates them:
  with a shorter window a tick may miss it, with a longer one two may fall in it.
- `OneStartIsGraceful` assumes `MaxStarts = 1`, as in `cmd/realtime-etl`; `BareLists`
  and `PagesById` that the clients' calls are of the kind named above.

`ListingAssumption` has it that a client that pages begins at the first offer, and
`Tables` that a store holds finitely many.

### Only model-checked

The liveness properties `GoneIsDone`, `DueIsDelivered`, `EventsSettle`, `StopEnds`,
`RangeReturnsWhileRunning`, `StopEndsWorkers`, `PagesEnd`, `ShutdownDrains`,
`SchedulerLiveness`, `ComesToRest` and `ServiceLiveness`, as temporal proofs with
fairness are out of the prover's reach; and that the listed divergences are reached.

## Not modelled

- *Reads that change nothing and are one step*: the store's three queries through
  its indexes and its statistics, which have no caller; `GetMarginOffer`,
  `HealthCheck`, `GetStatus`, progress figures, the sync's status.
- *Code nothing calls or feeds*: `Stop` of the notification service; the interest
  rate loop; delegates and the program's error codes; `SaveJobConfig` and the
  default job configuration; the jobs over a range of blocks
  (`processOverwriteBackfill`, `processGlacierBackfill`, `processOffChainBackfill`,
  `FetchFromChain`), which no worker runs. `SyncPoolsToStore` and
  `SyncPoolsWithPositions` have no caller yet either and are modelled for what they do
  to a store that jobs and the MarginFi service overwrite.
- *Metrics*: counters and gauges under a lock of their own, read by nothing but
  their getters. `buildKey` ranges over a map, so a metric with two tags may be
  counted under two keys.
- *Data*: amounts, rates and optional fields the conversions copy one by one;
  the values of an account's fields that no offer is made of; what a bank becomes as
  an offer; texts of errors; `Clone`.
- *I/O*: command lines, signals beyond the one that stops the store, ports, the
  job file's path, logging.
- *Between processes*: `cmd/realtime-etl` gives its processor a `MemoryStore` of its
  own (`main.go:41`), so that chain events never reach the store service; `Etl` is
  checked over that store, and no module composes it with the service.
- *Negative offsets and offsets near 2^31* of a list request, which no client here
  sends.
- Examples, generated protobuf code, the interface description of the on-chain
  program.

## Plan

Done, in this order: `Offers`, `AtomicStore`, `MemoryStore`, `Notification`,
`GrpcServer`, `Etl`, `Backfiller`; then `Listing`, `Wire` under `GrpcServer`,
`ProgramAccounts`, `PoolSync`, `MarginfiSync`, `Scheduler`, `EtlService`, `ChangeFeed`;
then the proofs about all of them, `Listing` last.

Left, and why:

- Proofs of the liveness properties: they need fairness and `ENABLED`.
- A model of `cmd/realtime-etl` beside the store service, once the code sends the
  chain's events there, and of the jobs over a range of blocks once a worker runs them.
- Positive forms of the divergences as the code's faults are mended: the constants
  that say what is as committed (`IndexesMade`, `NamesMatch`, `BanksParsed`, `FullLTV`,
  `DurationsText`, `Started`) then have one value each.
