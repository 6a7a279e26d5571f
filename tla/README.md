# A TLA+ model of the crypto market data aggregator

This directory models the aggregator and the programs around it, from the command line
to the printed tables, with their concurrency and their failures. TLC checks it on small
instances; TLAPS proves every safety property of every part, and the refinements up to
fairness, for instances of any size. Paths below are relative to the repository;
`PROJECT.json` maps every definition to the lines it stands for.

## 1. The system

Exchange sessions (`src/ws/ClientSession.hpp` with one adapter per exchange under
`src/cex/`) read market data from websockets on the main thread. Each update is pushed to
`MarketDataQueue`. The aggregation thread of `src/aggregator.cpp` pops updates, applies
them to `Aggregator`, and, when at least a second has passed since the last snapshot,
generates a book and hands it to `MarketDataService`. gRPC handler threads copy that book
and stream it to the subscribers once a second; each subscriber computes one thing from
it (best bid and offer, price bands, notional volume bands, statistics). `viewer` prints
the updates of the sessions; `internal-exchange` is a small websocket server that plays
an exchange.

| Part | State | Operations | Interacts by | What is hard |
|---|---|---|---|---|
| `core/MarketDataQueue.hpp` | queue, mutex, condition variable, shutdown flag | `push`, `pop`, `shutdownQueue` | shared by the websocket thread and the aggregation thread | lost and spurious wakeups, shutdown against waiting consumers |
| `biz/Aggregator.hpp` | price levels: one map per side from the price to the quantities of the exchanges | `onUpdate`, `generateBook` | called by the aggregation thread | a level is erased while other exchanges may quote there |
| `aggregator.cpp` | the threads, `lastSnapshotTime` | the aggregation loop | queue, aggregator, service | snapshots depend on the arrival of updates; messages are applied update by update |
| `rpc/MarketDataService.hpp`, `rpc/MarketDataClient.hpp` | symbol, book, mutex; one stream per subscriber | `overwriteBook`, `StreamMarketDataSnapshots` on both sides | mutex, gRPC stream | torn and stale snapshots, lost connections |
| `ws/ClientSession.hpp`, `ws/WebsocketClient.hpp` | one chain of pending operations per session | `run`, the callbacks, `publish` | callbacks of one `io_context`; sink | errors at every callback, exceptions that end the process |
| `cex/*.hpp`, `ws/SessionFactory.hpp` | none | `checkMessage`, `processMessage` | called by the session | eight notations, deletions, initial books, malformed messages |
| `biz/*` of the subscribers | `Statistics` keeps prices across snapshots | one computation per subscriber | called for each snapshot | boundaries, empty sides, labels by position |
| `ws/ServerSession*.hpp` | acceptor; pending operation, message queue per session | listen, accept, set-up, publishing in bursts | callbacks of one `io_context` | exactly one pending operation, queue and timer in step, failed accepts, silent peers |
| `core/ArgumentParser.hpp`, `cfg/*`, the mains | arguments, configuration | parsing, loading, starting | threads and sessions are started one by one | options in any order, exceptions after threads were started |
| `core/Display.hpp` | verbose, mutex, stream | `debug` ... `error`, `show` | a singleton that all threads share | who makes the singleton, mixed output |
| `core/Formatter.hpp`, `rpc/MarketDataHandler*.hpp` | none | captions, labels, tables | called for each snapshot | labels and rows are matched by position |

## 2. The modules

| Module | Models | State and actions |
|---|---|---|
| `MarketData` | the enumerations and `MarketUpdate` | constants only |
| `MarketDataQueue` | `core/MarketDataQueue.hpp` | `pc` says where each thread is in its call; `mutex`, `queue`, `shutdown` are the members. `Push*`, `Pop*`, `Shutdown*` are the steps between which a thread can be interrupted; `SpuriousWake` is the licence of the C++ standard. `sent` and `received` are history |
| `UpdateChannel` | abstract: what the queue promises | `Send`, `Receive`, `Close` |
| `Aggregator` | `biz/Aggregator.hpp` | `priceLevels`; `OnUpdate`; `generateBook` is an operator, as it changes nothing |
| `QuoteTable` | abstract: the table of last quotes | one action |
| `MarketDataService` | service and client | the three fields of a book are assigned and copied one by one under `mutex`; `server` is whether the gRPC server is up; `wire`, `link` and `client` are the stream and the subscriber. Books are numbered by call |
| `ClientSession` | the sessions and their `io_context` | a session is a place on the command line, where an exchange may stand twice; `stage` is what a session waits for; one action per callback; `Publish` is one update of a message, because the aggregation thread sees it |
| `ExchangeFeeds` | the eight adapters | `theirs` is the exchange's own book, `quote` the table its messages produce; `checkX` and `processX` are the adapters, `outcome` what is published before an exception, `written` the table afterwards |
| `AggregatorProcess` | `aggregator.cpp` | extends `ClientSession`, whose `sink` is the queue, by an instance of `Aggregator`, the aggregation thread and the clock |
| `ConsolidatedFeed` | abstract: what the process promises | extends `QuoteTable` by the view of the subscribers |
| `BookAnalytics` | the four computations and the tables they print | `rounding` is the constant for the doubles; `OnSnapshot` for any book after any other; `stats` is the member of `Statistics`; `show...` are the handlers with their captions |
| `InternalExchange` | the websocket server | `listener` and `accepting` are the acceptor; `pending` is the set of operations a session has started; one action per callback |
| `Startup` | the mains up to their work, `core/ArgumentParser.hpp`, `cfg/Loader.hpp` | `argv` is any command line; one action per kind of argument, then counting, loading, the display, threads, sessions |
| `Display` | `core/Display.hpp` | `Call`, `Lock`, `Write` (a part of a content), `Unlock`; `out` is the stream |
| `MarketDataQueueProofs`, `AggregatorProofs`, `AggregatorProcessProofs` (with the sessions), `MarketDataServiceProofs`, `ExchangeProofs` (adapters and internal exchange), `DisplayProofs`, `StartupProofs`, `BookAnalyticsProofs` | theorems: see section 5 | |
| `MC*` | instances for TLC | |

How they fit together: `MarketDataQueue` implements `UpdateChannel`, and
`AggregatorProcess` uses the queue as such a channel, push and pop being single steps.
`Aggregator` implements `QuoteTable`; `AggregatorProcess` implements `ConsolidatedFeed`,
which extends it. `MarketDataService` shows that `overwriteBook`, one step in
`AggregatorProcess`, is one for the subscribers too. `ExchangeFeeds` fills in the batches
that `ClientSession` leaves open; its table is that of `QuoteTable` (`UpdatesAreOverwrites`). `Startup` ends where `AggregatorProcess`, `ClientSession`
(for the viewer), `InternalExchange` and the subscribers of `MarketDataService` begin, and
hands them the sequence of exchanges. The definitions commented *A plausible bug* are variants
of the definition that follows them, kept to show that each property can fail; no
specification uses them.

Abstractions: prices and quantities are naturals (doubles in the code), which is enough to
compare prices and to see a zero. In `BookAnalytics` results that are not whole are exact
fractions: doubles add, subtract and multiply whole numbers (below 2^53) exactly, and the
code compares no quotient. The one rounded value that it compares is the shifted price of
a price band, `bestPrice * (1 + bps / 10'000.)`. The exact product is a multiple of 1/10000,
and the double lies at it or off by far less than half of that; the constant operator
`rounding` says on which side, for each side, best price and band, and `shiftedPrice` is
the product moved by 1/20000 that way, which compares with every whole price as the double
does. The run uses the signs of the real doubles, the proofs allow any. JSON texts are reduced to the topic, the
levels and whether a text is a number. A label is the number and the unit that it shows.
An argument is an option or a text with its upper and lower case form. Tickers are
carried but not distinguished by the book, as in the code. The iteration over a map is the
one enumeration of its prices in the map's order (`iterated`), and loops that add up or
collect are recursive functions (`cumulated`, `existing`, `Replay`, `ReadBefore`), so that
the proofs can reason about them.

## 3. The runs

Distinct states are those TLC finds.

| Run | Bounds | What it shows |
|---|---|---|
| `queue` | 2 producers, 2 consumers, 1 closer, 3 pushes, 1 spurious wakeup (107 000) | exclusion, `FIFO`, `NoLostWakeup`, `DrainedBeforeStop`; implements the fair channel; a shutdown stops every consumer |
| `aggregator_book` | 2 exchanges, 3 prices, quantities 0 and 1 (4 096, all books) | no empty level, `generateBook` exact and sorted, implements `QuoteTable` |
| `service` | 2 subscribers, the initial and one published book, 2 snapshots in transit (93 000) | no torn snapshot, no overtaking; the latest book is shown; handlers of lost subscribers return |
| `sessions` | 3 sessions, two of one exchange, one with a subscription; 2 messages of up to 2 updates, 4 updates in all (52 000) | messages whole and in order, sessions end for good, set-up never hangs |
| `exchange_feeds` | all 8 exchanges, 2 prices, 3 quantities, Kraken's messages of 4 and of 5 elements (79 000) | adapters keep exchange, side, price, quantity; books are mirrored as far as their messages tell them |
| `process` | 2 sessions, 2 messages of up to 2 updates, 3 updates in all (424 000) | the book is the replay of the feed; the view is one instant of it and misses only updates applied within a second after its snapshot; everything published is applied |
| `process_quiet` | 1 session, 2 messages of 1 update, 2 ticks a second (4 100) | **violated**: see section 6 |
| `analytics` | 3 prices, 2 quantities, 3 bands of each kind; every book after every other (4 761) | printed bands hold what their prices say and stand in the right rows, averages fair, extremes of all time |
| `statistics_empty` | as above | **violated**: see section 6 |
| `internal_exchange` | 2 peers, 2 bursts of 2 messages, 2 failed accepts (27 000) | one pending operation, bursts whole and in order, accepting and publishing go on, only the request can hang |
| `startup` | 4 programs, every command line of up to 5 arguments, every configuration (740 000) | arguments understood as they read; the program works exactly when they and the configuration are right; verbose is heard |
| `display` | 3 threads, contents of 2 parts, 4 calls (89 000) | contents never mixed, each printed once and in the order of its thread |

Why the bounds are enough. In the queue, two producers and two consumers are the least
for a notification to reach the wrong consumer and for a push to slip between another
push and its notification; three pushes let one consumer come back while the other one
still sleeps. Two exchanges at one price are what an erased level can confuse; three
prices make the order of the book visible. In the service, the empty book and one published
book, with two snapshots in transit, are what tearing and overtaking need; two
subscribers compete for the mutex. Two updates make a message that can be half published, and the
second message makes the next one. In `analytics` the prices 100, 101 and 110 and the
bands of 400, 1000 and 100 basis points put levels inside, at and outside a shifted price,
and at one that is rounded (100 and 1000 basis points make 110.00000000000001) as well as at
one that is not (100 and 100 make 101). The notionals 950, 2533 and 1000 are printed with and
without a unit, exactly and rounded, and are reached within, exactly at and beyond the levels;
some books fill the first and the last of them and not the second. In `exchange_feeds` two prices
and two sides let a message of Kraken that tells both sides be discarded and a later one about
one side be taken.
Five arguments hold two `--config` with their paths and an exchange, or a path and more
exchanges than `MaxExchanges`. Four calls of three threads let one thread come back while
two others wait for the mutex. `CHECK_DEADLOCK FALSE` stands where the bounded system stops (all pushes made, all
sessions ended, all bursts sent) and the code would wait.

`MaxPushes`, `MaxSpurious`, `MaxBooks`, `Window`, `MaxMessages`, `MaxEntries`, `MaxUpdates`,
`MaxBursts`, `MaxErrors`, `MaxArguments` and `MaxCalls` are the bounds on counters; `Parts` is
the number of parts in which a content reaches the stream; `MaxExchanges`, 2 in the run,
stands for the 7 of `aggregator.cpp`; `PERIOD` is the second of `aggregator.cpp` in ticks.
The time since the last snapshot is not counted beyond `PERIOD`, where it makes no
difference.

## 4. Fairness

- Queue: weak fairness per thread. A thread that can take a step takes one; nothing is
  assumed of who wins the mutex, nor that anybody calls `push` or `shutdownQueue`. No
  strong fairness is needed because pushes and spurious wakeups are finitely many.
- Service: weak fairness of the threads, and strong fairness of the lock, because the
  handlers sleep for a second between two acquisitions and so cannot keep it from
  one another. Of the subscriber it is assumed only
  that it reads: connections need not break, nor be noticed when they do, and the server
  need not start.
- Sessions: the main thread runs; a name is resolved or not in the end; connecting and the
  two handshakes end because of their 30 second timeouts. Nothing is assumed of a
  subscription or a read: no answer timeout is set for them.
- Process: the aggregation thread and the main thread run and time passes. Nothing is
  assumed of the exchanges.
- Internal exchange: the main thread runs the callbacks, connections that are made are
  accepted, and operations end, by their timeouts at the latest, except the HTTP request,
  for which none runs. Accepts may fail `MaxErrors` times.
- Start-up and display: only safety is stated, and no fairness assumed.

## 5. The proofs

`MarketDataQueueProofs`, for any finite sets of producers and consumers, any closers and
any bounds (`ThreadsAssumption`, `UpdateAssumption`, `BoundsAssumption`):

- `TypeCorrect` and `Exclusion`: the latter (a thread is in a critical section exactly
  when it owns the mutex) is inductive together with the types.
- `FirstInFirstOut`: `sent = received \o queue` is inductive; only `PushStore` and
  `PopTake` touch it (`QueueSteps`), and each is a fact about sequences.
- `NothingStranded`: once a consumer stopped, the flag is set and the queue empty, so
  neither a push nor a pop can change it; `sent = received` follows from `FIFO`.
- `WakeupsAreKept`: while consumers wait, the queue is no longer than the consumers on
  their way to the predicate plus the producers about to notify. The invariant
  counts: each step moves at most one consumer and one producer between these sets, and
  the lemmas about cardinalities say what that does to the sum. It needs no strengthening
  beyond the types and holds of spurious wakeups too. Its second half says that after
  a shutdown consumers sleep only while `notify_all` is still to come.
- `QueueImplementsChannel`: under the mapping `open <- ~shutdown` every step is a step of
  `UpdateChannel` or leaves it unchanged; `FIFO` identifies the head of the queue with
  the oldest update that was not delivered.

`AggregatorProofs`, for any natural prices and quantities and any exchanges
(`PriceAssumption`, `QuantityAssumption`, `ConnectedAssumption`):

- `TypeCorrect`; `LevelsAreQuoted`: a level that survives `onUpdate` has a positive total,
  and a sum of eight naturals is zero only if each of them is (`TotalZero`). It is for
  this lemma that `total` is written out as a sum.
- `AggregatorImplementsTable`: with a missing level read as eight zeros, `onUpdate` is
  `Overwrite`. Erasing is invisible because the level is erased exactly when all its
  quantities are zero. With negative quantities this would be false.
- `BookIsRight`: `generateBook` is exact. A finite set of prices has an enumeration in
  either order, by induction on its size (`EnumerationExists`, `Iteration`); the sum over
  the set of exchanges, taken in whatever order, is `Quantities::total()` (`SumIsTotal`);
  and the maps stay finite, with no empty level in them.

`AggregatorProcessProofs`, for any number of sessions, also several of one exchange, and
any bounds (in addition `ExchangesAssumption`, `SubscribingAssumption`, `MessagesAssumption`,
`PeriodAssumption`):

- `SessionsTypeCorrect`, `SessionsKeepOrder` (`MessagesInOrder`) and `SessionsEndForGood`
  (`EndedForGood`) are about `ClientSession` by itself, under `SessionSafeSpec`. The strengthening is `Reading`: the session whose
  message is being processed is reading, so that no callback ends it meanwhile.
- `ProcessRunsAggregator`: every step of the process is a step of `Aggregator` on the price
  levels or leaves them alone. Thus the theorems about the book hold in the process;
  `ProcessBookIsExact` is the one about `generateBook`.
- `BookIsUpToDate` (`BookFollowsFeed`). The inductive invariant is `Flow`: the feed is
  what was applied, followed by the update in the hand of the aggregation thread, the
  queue, and what the running callback has yet to publish, and the price levels are the
  replay of the first part. `BookFollowsFeed` by itself speaks of a prefix of the feed only
  and says nothing of the update that comes next.
- `SnapshotsAreTimely` (`StaleWindow`). `missed` is history: for each update applied since the
  served book was generated, the time since the clock was read for that book. The inductive
  invariant `Lag` says, at every point of the loop, that the served book is the replay of the
  feed without the last `Len(missed)` applied updates (by `Flow`, which says what applying
  one does), and that all of these came within `PERIOD`, but for the one in hand between
  `onUpdate` and the comparison with the clock, and while a snapshot is due and not yet
  taken.
- `TypeCorrect`, and `ProcessImplementsFeed`: what is served is the depth of the quote table at one instant, by `BookIsRight` and
  `AggregatorImplementsTable`.

`MarketDataServiceProofs`, for any set of subscribers, any number of books and any window
(`ThreadsAssumption`, `BoundsAssumption`): `TypeCorrect`, `SnapshotsAreWhole`
(`NoTornSnapshot`), `SnapshotsInOrder` (`BooksInOrder`). The strengthening says that the
owner of the mutex is the only thread between lock and unlock (`Exclusive`), how far the
writer has got with the fields (`Fields`), that a handler's snapshot agrees with the fields
it has copied (`Copied`), and that it lies between what was sent and what is published
(`Between`). Tearing is excluded by `Exclusive`: `Fields` allows different fields only while
the writer owns the mutex.

`ExchangeProofs`, about `InternalExchange`, for any peers, any length of a burst and any bounds
(`BurstAssumption`, `ErrorsAssumption`): `TypeCorrect`, `OperationsDoNotOverlap`
(`OneOperation`), `BurstsArriveInOrder` (`BurstsInOrder`). The strengthening is `Alone`
(`pending` is empty or a single operation, which a count does not tell) and `Drained`: the
queue holds messages only while one of them is being written, so that a new burst begins
behind a complete one.

`ExchangeProofs`, about `ExchangeFeeds`, for any finite set of prices, any quantities and
any set of connected exchanges. `FiniteAssumption` says that messages are finite, and
`TextAssumption` that a text which is no number, and a member which is not there, are
neither a number nor a side:

- Each adapter, applied to a message about some levels of a book, publishes the updates of
  exactly these levels (`Tells`, `ProcessTells`), whatever the order in which the exchange
  listed them, the words for its sides and its notation of quantities and deletions;
  hence the quotes change at these levels only, and to what the book says (`WrittenIs`).
  A message with a flaw, and one that is not about the book, changes no quote
  (`FlawTellsNothing`, `AsideTellsNothing`), nor does the first book of Kraken, whose
  members its adapter does not read (`KrakenAnnounces`), nor a message of Kraken that has
  not four elements (`DiscardedTellsNothing`). `FeedsSteps` sums this up: every
  step tells about a set of levels, or changes no quote.
- `AdaptersKeepApart` (`OwnQuotesOnly`), `BooksAreMirrored` (`Mirrored`),
  `QuotesAreNeverWrong` (`NeverWrong`), `ListedLevelsAreQuoted` (`CurrentLevelsQuoted`). The
  history variable `unheard` holds the levels whose last change was in a message that
  `checkMessage` refused; it is empty for all exchanges but Kraken, and a level leaves it
  with the next message that is taken. `NeverWrong` says that every other quote is the
  exchange's or is missing. The
  strengthening of `FeedsInv` is `Fresh`: nothing is quoted before the exchange has sent its
  book. Without it the first book, which lists no level with quantity zero, could leave a
  quote behind.
- `UpdatesAreOverwrites`: `written`, which says what a whole message does to the table, is
  `Overwrite` of `QuoteTable` update by update. By `AggregatorImplementsTable` it is what
  `Aggregator::onUpdate` does, so that the theorems about the adapters are about the
  aggregator's book.

`DisplayProofs`, for any threads, contents of any number of parts and any number of calls
(`ThreadsAssumption`, `PartsAssumption`): `TypeCorrect`, `OutputIsNotMixed`
(`ContentsAreWhole`), `OutputIsComplete` (`NothingIsLost`). The invariant relates the length
of the stream to what the owner of the mutex has written (`Progress`), and what is on the
stream to the calls (`Current`, `Legal`, `Printed`, `Ordered`).

`StartupProofs`, for any texts and spellings, command lines of any length and any number of
exchanges (`TextAssumption`, `NumbersAssumption`): `ParserIsRight` (`ParsedAsRead`),
`StartsWhenRight` (`RunsWhenRight`), `DisplayIsRight` (`VerboseIsHeard`). What a command line
says is defined of the line as a whole: an argument is a value when an odd number of
`--config` stands before it. The parser looks at one argument after the other; that both
agree is `ValueNext`, and the invariant `ParseInv` says that before argument `i` nothing was
wrong and the arguments are what the first `i - 1` say. `WorkInv` says what has been made at
each stage after that: the sessions are those of the first exchanges asked for.

`BookAnalyticsProofs`, for any finite set of positive prices, any positive quantities, and
configured basis points and positive notionals in any order, with any rounding of the
shifted prices (`BookAssumption`, `NoneAssumption`, `BpsAssumption`, `NotionalsAssumption`,
`LabelsAssumption`, `RoundingAssumption`). Two things about the configuration are assumed
that the code does not check: a notional of zero would be printed as `nan` (0 / 0) and a
negative one as a negative quantity; and no notional lies half way between two labels,
where the rounding of the label depends on the double.


- `ExtremesAreRight` (`ExtremesOfAllTime`). It is not inductive: an extreme that is not
  known yet is taken from the current price, so the invariant `StatsInv` adds that there
  is no current price while no price was seen.
- `PriceBandsAreRight` (`PriceBandsMatch`): because the levels are sorted, those inside
  the band are the first ones, and the loop takes exactly them before its break
  (`PriceBandIs`), whichever way the shifted price is rounded (`RoundingIs`); the running total is the sum over that set (`SumIsCumulated`); and either
  all bands of a side exist or none (`PriceBandsOfSide`), so each stands in its own row.
- `NotionalLabelsAreRight` (`NotionalLabelsMatch`): a band exists exactly when the side is
  worth the notional (`NotionalBandIs`); `existing` puts a band that exists into the
  position that is the number of those up to it, by induction over the configured values
  (`CountIs`, `ExistingIs`, `NotionalBandsOfSide`); the label is the nearest with one decimal
  (`LabelIsNearest`). With notionals in ascending order, as in the shipped configuration,
  the bands that are left out are the last ones, each of the others is in its own row, and
  all labels are right.
- `AveragesAreRight` (`AveragesAreFair`). A band is determined by the level at which the
  notional is used up: the levels before it are taken whole, and of this one the rest
  (`Spends`, `BandSpends`). By induction over the levels, what a run of levels costs is at
  least its quantity times the price of the first, and at most times that of the last
  (`LevelsAtLeast`); the side of the book turns the inequality round (`AtLeast`). That the
  average lies between the best and the worst price follows directly
  (`AverageIsBetween`); that a larger notional has no better average needs that the price of
  the level where the smaller one ends bounds both what comes before and what comes after
  it (`AverageOfMore`, `AverageGetsWorse`). The products of three factors are beyond the SMT
  solver, so fractions are multiplied out and compared factor by factor (`AtLeastTimes`,
  `AtLeastDivided`, `AtLeastSum`).

The type invariants of all these modules but `MarketDataQueue` and `Aggregator` are proved
and not part of the runs.

Model-checked only, because it is liveness under fairness, for which the prover has no
rules: `ShutdownStops`, the fairness of the channel that the queue implements
(`ImplementsChannel`; its safety is `QueueImplementsChannel`), `LatestIsShown`,
`HandlerReturns`, `SetupEnds`, `EverythingApplied`, `BurstsGoOn`, `PeersAreAccepted`,
`OnlyTheRequestHangs`. Every invariant and every action property of the passing runs is
also a theorem.

## 6. Where the code and what is said of it differ

- `process_quiet`. `README.md:58`: "Market data is published as snapshots sent every
  second." The clock is looked at only after an update was popped (`aggregator.cpp:62`):
  an update that comes within a second of the last snapshot and is followed by none is in
  the book and is not served. `StaleWindow` states what does hold.
- `statistics_empty`. `test/Statistics.cpp:49` expects no current price for an empty book.
  `Statistics::compute` does not reset it, so a side that becomes empty keeps its last
  price, and the spread and the crossed flag are computed from it.

Observed while reading, without a run: `README.md:56` calls the queue lock-free and
`MarketDataQueue.hpp` uses a mutex; `README.md:50` speaks of three threads and
`aggregator.cpp` starts two; `MarketDataHandler::makeDiff` tests an enumerator instead of
a field and always yields `BID` (it has no caller); the conditions at
`ExchangeSessionBitMEX.hpp:35` and `ExchangeSessionCoinbase.hpp:30` use `&&` where the
other adapters use `||`, so that a missing member is looked up (undefined; the model lets
the process end or go on); `ExchangeSessionKraken.hpp:64` reads `a` and `b` while
`prototype/exchange-connectivity/src/exchanges/kraken.py` reads `as` and `bs` as well;
`ExchangeSessionKraken.hpp:30` discards a message in which the two sides come as two
objects, which has five elements, so that levels quoted before may keep quantities that the
exchange has changed (`NeverWrong` says which); `PriceBands.hpp:52` rounds, so that a level exactly
10% above a best ask of 100 is inside the 1000 bps band, while one exactly 1% above is
outside the 100 bps band; nothing sorts the notionals of
`NotionalVolumeBandsConfiguration.hpp`, and a band that cannot be filled moves those
configured after it to labels that are not theirs;
`ExchangeSessionHyperliquid.hpp` never takes a level back that is no longer listed;
the texts passed to `async_write` at `ClientSession.hpp:141` and
`ServerSessionConnected.hpp:186` do not outlive the call; the aggregator accepts 7 exchanges
(`aggregator.cpp`) while the usage lists 8; the usage names exchanges for programs that
refuse them (`ArgumentParser.hpp:116`); exchanges are looked up in lower case, so that an
entry of the configuration with a capital is never found; `MarketDataService.hpp` does not
look at the symbol and depth of a request; a listener that could not bind goes on and
fails each accept silently (`ServerSessionListening.hpp:81`); `main` of the aggregator does
not end after `client.run` has returned, as nothing calls `shutdownQueue`.

## 7. Not modelled

- Layout: column widths, colours, timestamps, and `toString` of statistics, updates,
  snapshots and diffs. Nothing is decided by them.
- The members of the configuration files that are copied into records and used as they are
  (hosts, ports, symbols); whether loading throws, and what control depends on, is modelled.
- The python prototype: not part of the programs.
- The diff protocol: the service does not implement it.
- `doClose`, `onClose`, `cancelPublishing`, `Quantities::reset` and `Quantities::empty`:
  no callers. `shutdownQueue` has none either, but is part of the queue's interface and is
  modelled.
- Floating point, but for the shifted price: prices and quantities that are not whole, sums
  of them that should be zero, rounded averages, `-0.0`.

## 8. Plan

Done: the queue, the book, the service, the sessions, the adapters, the process, the
analytics with their tables, the internal exchange, start-up and the display as modules,
and their safety properties as theorems.

What could follow: a composition of `ExchangeFeeds` with `AggregatorProcess` in which the
updates of a session are those of an adapter (today `UpdatesAreOverwrites` connects their
tables, and the sessions publish any updates); floating point quantities, with which a
level whose total is not exactly zero would stay in the book; and the liveness properties,
should the prover learn the rules for fairness.
