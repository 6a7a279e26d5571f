------------------------- MODULE AggregatorProcess -------------------------
(***************************************************************************)
(* aggregator.cpp: the process that connects the parts.  The main thread   *)
(* runs the exchange sessions, which publish to the queue                  *)
(* (core/MarketDataPublisher.hpp); the aggregation thread pops one update  *)
(* after the other, applies it to the aggregator and, when a second has    *)
(* passed since the last snapshot, generates a book and gives it to the    *)
(* service.                                                                *)
(*                                                                         *)
(* The sink of the sessions is the market data queue, taken as the channel *)
(* that MarketDataQueue implements: push and pop are single steps.         *)
(* overwriteBook is one step as well, as the subscribers see it through    *)
(* the mutex of MarketDataService.                                         *)
(*                                                                         *)
(* Time is the time since the clock was read for the last snapshot,        *)
(* counted in ticks up to PERIOD, which is the second of the code; beyond  *)
(* that it makes no difference.                                            *)
(***************************************************************************)
EXTENDS ClientSession

CONSTANT
    PERIOD          \* one second, in ticks

ASSUME PeriodAssumption == PERIOD \in Nat \ {0}

VARIABLES
    priceLevels,    \* of Aggregator
    thread,         \* where the aggregation thread is
    update,         \* the update it popped
    elapsed,        \* ticks since lastSnapshotTime, at most PERIOD
    served,         \* the symbol and the book of MarketDataService
    missed          \* history: elapsed when each update not yet served was applied

threadVars == <<priceLevels, thread, update, elapsed, served, missed>>
vars       == <<sessionVars, threadVars>>

Agg == INSTANCE Aggregator

(* The update is a variable of the loop's body: it is gone when the thread  *)
(* goes back to pop.                                                       *)
NoUpdate == [ticker |-> "none"]

Init ==
    /\ SessionInit
    /\ Agg!Init
    /\ thread = "pop"
    /\ update = NoUpdate
    /\ elapsed = PERIOD         \* lastSnapshotTime is the clock's epoch
    /\ served = [symbol |-> "none", book |-> [ask |-> << >>, bid |-> << >>]]
    /\ missed = << >>

SessionStep == SessionNext /\ UNCHANGED threadVars

(* An exception that leaves main ends all threads. *)
Alive == io # "aborted"

(***************************************************************************)
(* The aggregation thread                                                  *)
(***************************************************************************)
(* A plausible bug: the queue is emptied and only one update kept. *)
PopConflating ==
    /\ Alive
    /\ thread = "pop"
    /\ sink # << >>
    /\ update' = Head(sink)
    /\ sink' = << >>
    /\ thread' = "apply"
    /\ UNCHANGED <<stage, io, handler, messages, feed, priceLevels, elapsed, served, missed>>

(* A plausible bug: the thread stops with the sessions, the queue not empty. *)
PopWhileRunning ==
    /\ io = "running"
    /\ thread = "pop"
    /\ sink # << >>
    /\ update' = Head(sink)
    /\ sink' = Tail(sink)
    /\ thread' = "apply"
    /\ UNCHANGED <<stage, io, handler, messages, feed, priceLevels, elapsed, served, missed>>

Pop ==
    /\ Alive
    /\ thread = "pop"
    /\ sink # << >>
    /\ update' = Head(sink)
    /\ sink' = Tail(sink)
    /\ thread' = "apply"
    /\ UNCHANGED <<stage, io, handler, messages, feed, priceLevels, elapsed, served, missed>>

Apply ==
    /\ Alive
    /\ thread = "apply"
    /\ priceLevels' = Agg!onUpdate(priceLevels, update)
    /\ missed' = Append(missed, elapsed)
    /\ thread' = "clock"
    /\ UNCHANGED <<sessionVars, update, elapsed, served>>

(* now - lastSnapshotTime >= 1s: the value of now that is tested becomes    *)
(* lastSnapshotTime.                                                       *)
ClockDue ==
    /\ Alive
    /\ thread = "clock"
    /\ elapsed >= PERIOD
    /\ elapsed' = 0
    /\ thread' = "snapshot"
    /\ UNCHANGED <<sessionVars, priceLevels, update, served, missed>>

(* A plausible bug: the comparison of the clock is off by one. *)
ClockNotDueLate ==
    /\ Alive
    /\ thread = "clock"
    /\ elapsed <= PERIOD
    /\ thread' = "pop"
    /\ update' = NoUpdate
    /\ UNCHANGED <<sessionVars, priceLevels, elapsed, served, missed>>

ClockNotDue ==
    /\ Alive
    /\ thread = "clock"
    /\ elapsed < PERIOD
    /\ thread' = "pop"
    /\ update' = NoUpdate
    /\ UNCHANGED <<sessionVars, priceLevels, elapsed, served, missed>>

(* A plausible bug: only the side of the update is replaced. *)
SnapshotOneSide ==
    /\ Alive
    /\ thread = "snapshot"
    /\ served' = [symbol |-> update.ticker,
                  book |-> [ask |-> IF update.side = "ASK" THEN Agg!generateBook(priceLevels).ask
                                                           ELSE served.book.ask,
                            bid |-> IF update.side = "BID" THEN Agg!generateBook(priceLevels).bid
                                                           ELSE served.book.bid]]
    /\ missed' = << >>
    /\ thread' = "pop"
    /\ update' = NoUpdate
    /\ UNCHANGED <<sessionVars, priceLevels, elapsed>>

(* The book is generated and given to the service under the symbol of the   *)
(* update that happened to come first after the second.                    *)
Snapshot ==
    /\ Alive
    /\ thread = "snapshot"
    /\ served' = [symbol |-> update.ticker, book |-> Agg!generateBook(priceLevels)]
    /\ missed' = << >>
    /\ thread' = "pop"
    /\ update' = NoUpdate
    /\ UNCHANGED <<sessionVars, priceLevels, elapsed>>

Tick ==
    /\ Alive
    /\ elapsed < PERIOD
    /\ elapsed' = elapsed + 1
    /\ UNCHANGED <<sessionVars, priceLevels, thread, update, served, missed>>

(***************************************************************************)
(* The specification                                                       *)
(***************************************************************************)
ThreadStep == Pop \/ Apply \/ ClockDue \/ ClockNotDue \/ Snapshot

Next == SessionStep \/ ThreadStep \/ Tick

SafeSpec == Init /\ [][Next]_vars

(* The aggregation thread and the main thread run while they can, and time  *)
(* passes; nothing is assumed of the exchanges.                            *)
Fairness ==
    /\ WF_vars(ThreadStep)
    /\ WF_vars(MainStep /\ UNCHANGED threadVars)
    /\ WF_vars(Tick)

Spec == SafeSpec /\ Fairness

(***************************************************************************)
(* Properties                                                              *)
(***************************************************************************)
(* The type invariant of the process: a book of the service has a sequence  *)
(* of quotes per side, and the thread has an update in its hand unless it   *)
(* is about to pop.                                                        *)
TypeOK ==
    /\ SessionTypeOK
    /\ Agg!TypeOK
    /\ thread \in {"pop", "apply", "clock", "snapshot"}
    /\ IF thread = "pop" THEN update = NoUpdate ELSE update \in MarketUpdate
    /\ elapsed \in 0..PERIOD
    /\ missed \in Seq(0..PERIOD)
    /\ served.symbol \in Ticker \cup {"none"}
    /\ served.book \in [ask : Seq([price : Price, quantity : Nat]),
                        bid : Seq([price : Price, quantity : Nat])]

(* The updates of the feed that were applied to the book: all that were     *)
(* published and are neither queued nor in the hand of the thread.         *)
Done ==
    Len(feed) - Len(handler.todo) - Len(sink) - (IF thread = "apply" THEN 1 ELSE 0)

(* The price levels that a sequence of updates makes of an empty book. *)
Replay(us) ==
    LET levelsAfter[n \in 0..Len(us)] ==
            IF n = 0 THEN Agg!NoLevels ELSE Agg!onUpdate(levelsAfter[n - 1], us[n])
    IN  levelsAfter[Len(us)]

(* The book follows the feed: at any time the price levels are what the     *)
(* updates of the exchanges make, applied one by one in the order in which  *)
(* they were received, up to those that are still on their way.  Nothing    *)
(* is lost, doubled or overtaken between a session and the book.           *)
BookFollowsFeed ==
    /\ thread = "apply" => update = feed[Done + 1]
    /\ priceLevels = Replay(SubSeq(feed, 1, Done))

(* What the subscribers see of the book, price by price. *)
View(book) ==
    LET At(side, p) == {i \in DOMAIN side : side[i].price = p}
        Of(side) == [p \in Price |->
            IF At(side, p) = {} THEN 0 ELSE side[CHOOSE i \in At(side, p) : TRUE].quantity]
    IN  [s \in Side |-> IF s = "ASK" THEN Of(book.ask) ELSE Of(book.bid)]

Feed == INSTANCE ConsolidatedFeed WITH
            Sum <- Agg!total, quote <- Agg!Quote(priceLevels), view <- View(served.book)

(* The process implements the consolidated feed: what is served is always   *)
(* the depth of the quotes at one instant, although updates go on arriving  *)
(* while the book is generated and handed over.                            *)
ImplementsFeed == Feed!FeedSpec

(* What the subscribers miss: whenever the thread is back at pop, the book   *)
(* that is served is the one that the feed makes without its last applied   *)
(* updates, and each of those was applied less than a second after the      *)
(* clock was read for the snapshot.  No update is left out of a snapshot    *)
(* that was due when it was applied, and none before it.                   *)
StaleWindow ==
    thread = "pop" =>
      /\ served.book = Agg!generateBook(Replay(SubSeq(feed, 1, Done - Len(missed))))
      /\ \A i \in DOMAIN missed : missed[i] < PERIOD

(* Everything that the sessions published is applied in the end, the        *)
(* updates still queued when the last session ended included, unless the    *)
(* process aborts.                                                         *)
EverythingApplied == <>[](io = "aborted" \/ Done = Len(feed))

(* README.md: "Market data is published as snapshots sent every second."    *)
(* Whatever was applied to the book is then served sooner or later.        *)
EventuallyServed ==
    (served.book # Agg!generateBook(priceLevels))
      ~> (io = "aborted" \/ served.book = Agg!generateBook(priceLevels))

=============================================================================
