------------------------- MODULE MarketDataService -------------------------
(***************************************************************************)
(* rpc/MarketDataService.hpp and rpc/MarketDataClient.hpp: the aggregation *)
(* thread overwrites the published book under a mutex, one gRPC handler    *)
(* thread per subscriber copies it into a snapshot under the same mutex    *)
(* and writes it to its stream once a second, and the subscriber reads the *)
(* stream in a loop.  The server is started by a thread of its own         *)
(* (aggregator.cpp), so that subscribers can come too early, and it can    *)
(* fail to start, which stops nothing else.                                *)
(*                                                                         *)
(* The books are numbered in the order in which overwriteBook was called;  *)
(* the three fields that a call assigns (symbol, asks, bids) each remember *)
(* the number of the call that wrote them, 0 before the first.  A step of  *)
(* a thread assigns or copies one field, so that without the mutex a       *)
(* snapshot could mix two calls.                                           *)
(***************************************************************************)
EXTENDS Naturals, Sequences

CONSTANTS
    Streams,        \* the subscribers, one call of the RPC each
    Writer,         \* the aggregation thread
    NoThread,       \* the owner of a free mutex
    MaxBooks,       \* bound: calls of overwriteBook
    Window          \* bound: snapshots in transit, where Write blocks

Threads == Streams \cup {Writer}

ASSUME ThreadsAssumption == Writer \notin Streams /\ NoThread \notin Threads

ASSUME BoundsAssumption == MaxBooks \in Nat /\ Window \in Nat \ {0}

VARIABLES
    server,         \* the gRPC server: being started, up, or not started
    mutex,          \* the thread that holds the service's mutex, or NoThread
    symbol, book,   \* the fields of MarketDataService
    pc,             \* where the writer and each handler thread are
    calls,          \* the number of the current or last call of overwriteBook
    snapshot,       \* the snapshot each handler builds
    link,           \* the connection: up, refused, broken, or known to be cancelled
    wire,           \* snapshots written to each stream and not read yet
    client,         \* where each subscriber is
    shown           \* the last snapshot each subscriber handled

vars == <<server, mutex, symbol, book, pc, calls, snapshot, link, wire, client, shown>>

WriterPC  == {"idle", "lock", "symbol", "ask", "bid"}
HandlerPC == {"none", "check", "lock", "symbol", "ask", "bid", "write", "sleep", "returned"}

(* The mutex is held from the first field to the last one. *)
Critical == {"symbol", "ask", "bid"}

NoSnapshot == [symbol |-> 0, asks |-> 0, bids |-> 0]

Init ==
    /\ server = "starting"
    /\ mutex = NoThread
    /\ symbol = 0
    /\ book = [ask |-> 0, bid |-> 0]
    /\ pc = [t \in Threads |-> IF t = Writer THEN "idle" ELSE "none"]
    /\ calls = 0
    /\ snapshot = [s \in Streams |-> NoSnapshot]
    /\ link = [s \in Streams |-> "up"]
    /\ wire = [s \in Streams |-> << >>]
    /\ client = [s \in Streams |-> "new"]
    /\ shown = [s \in Streams |-> NoSnapshot]

(***************************************************************************)
(* serverThread                                                            *)
(***************************************************************************)
(* BuildAndStart returns a server, which then serves for good, or nothing,  *)
(* for instance when the port is taken: that is logged and the aggregation  *)
(* goes on without subscribers.                                            *)
StartServer ==
    /\ server = "starting"
    /\ server' \in {"up", "failed"}
    /\ UNCHANGED <<mutex, symbol, book, pc, calls, snapshot, link, wire, client, shown>>

(***************************************************************************)
(* overwriteBook, called by the aggregation thread                         *)
(***************************************************************************)
OverwriteCall ==
    /\ pc[Writer] = "idle"
    /\ calls < MaxBooks
    /\ calls' = calls + 1
    /\ pc' = [pc EXCEPT ![Writer] = "lock"]
    /\ UNCHANGED <<server, mutex, symbol, book, snapshot, link, wire, client, shown>>

OverwriteLock ==
    /\ pc[Writer] = "lock"
    /\ mutex = NoThread
    /\ mutex' = Writer
    /\ pc' = [pc EXCEPT ![Writer] = "symbol"]
    /\ UNCHANGED <<server, symbol, book, calls, snapshot, link, wire, client, shown>>

OverwriteSymbol ==
    /\ pc[Writer] = "symbol"
    /\ symbol' = calls
    /\ pc' = [pc EXCEPT ![Writer] = "ask"]
    /\ UNCHANGED <<server, mutex, book, calls, snapshot, link, wire, client, shown>>

(* The move assignment of the book: the vector of asks, then the bids. *)
OverwriteAsks ==
    /\ pc[Writer] = "ask"
    /\ book' = [book EXCEPT !.ask = calls]
    /\ pc' = [pc EXCEPT ![Writer] = "bid"]
    /\ UNCHANGED <<server, mutex, symbol, calls, snapshot, link, wire, client, shown>>

OverwriteBids ==
    /\ pc[Writer] = "bid"
    /\ book' = [book EXCEPT !.bid = calls]
    /\ mutex' = NoThread
    /\ pc' = [pc EXCEPT ![Writer] = "idle"]
    /\ UNCHANGED <<server, symbol, calls, snapshot, link, wire, client, shown>>

(***************************************************************************)
(* StreamMarketDataSnapshots of the service, with createSnapshot           *)
(***************************************************************************)
HandlerCancelled(s) ==
    /\ pc[s] = "check"
    /\ link[s] = "cancelled"
    /\ pc' = [pc EXCEPT ![s] = "returned"]
    /\ UNCHANGED <<server, mutex, symbol, book, calls, snapshot, link, wire, client, shown>>

(* A plausible bug: the snapshot is created once, before the loop. *)
HandlerContinueSame(s) ==
    /\ pc[s] = "check"
    /\ link[s] # "cancelled"
    /\ pc' = [pc EXCEPT ![s] = "write"]
    /\ UNCHANGED <<server, mutex, symbol, book, calls, snapshot, link, wire, client, shown>>

HandlerContinue(s) ==
    /\ pc[s] = "check"
    /\ link[s] # "cancelled"
    /\ pc' = [pc EXCEPT ![s] = "lock"]
    /\ UNCHANGED <<server, mutex, symbol, book, calls, snapshot, link, wire, client, shown>>

(* A plausible bug: createSnapshot does not lock. *)
SnapshotNoLock(s) ==
    /\ pc[s] = "lock"
    /\ pc' = [pc EXCEPT ![s] = "symbol"]
    /\ UNCHANGED <<server, mutex, symbol, book, calls, snapshot, link, wire, client, shown>>

SnapshotLock(s) ==
    /\ pc[s] = "lock"
    /\ mutex = NoThread
    /\ mutex' = s
    /\ pc' = [pc EXCEPT ![s] = "symbol"]
    /\ UNCHANGED <<server, symbol, book, calls, snapshot, link, wire, client, shown>>

SnapshotSymbol(s) ==
    /\ pc[s] = "symbol"
    /\ snapshot' = [snapshot EXCEPT ![s].symbol = symbol]
    /\ pc' = [pc EXCEPT ![s] = "ask"]
    /\ UNCHANGED <<server, mutex, symbol, book, calls, link, wire, client, shown>>

SnapshotAsks(s) ==
    /\ pc[s] = "ask"
    /\ snapshot' = [snapshot EXCEPT ![s].asks = book.ask]
    /\ pc' = [pc EXCEPT ![s] = "bid"]
    /\ UNCHANGED <<server, mutex, symbol, book, calls, link, wire, client, shown>>

SnapshotBids(s) ==
    /\ pc[s] = "bid"
    /\ snapshot' = [snapshot EXCEPT ![s].bids = book.bid]
    /\ mutex' = NoThread
    /\ pc' = [pc EXCEPT ![s] = "write"]
    /\ UNCHANGED <<server, symbol, book, calls, link, wire, client, shown>>

(* A plausible bug: the newest snapshot is sent before the pending ones. *)
WriteSnapshotFirst(s) ==
    /\ pc[s] = "write"
    /\ link[s] = "up"
    /\ Len(wire[s]) < Window
    /\ wire' = [wire EXCEPT ![s] = <<snapshot[s]>> \o @]
    /\ pc' = [pc EXCEPT ![s] = "sleep"]
    /\ UNCHANGED <<server, mutex, symbol, book, calls, snapshot, link, client, shown>>

(* Write blocks while the window is full. *)
WriteSnapshot(s) ==
    /\ pc[s] = "write"
    /\ link[s] = "up"
    /\ Len(wire[s]) < Window
    /\ wire' = [wire EXCEPT ![s] = Append(@, snapshot[s])]
    /\ pc' = [pc EXCEPT ![s] = "sleep"]
    /\ UNCHANGED <<server, mutex, symbol, book, calls, snapshot, link, client, shown>>

(* The connection is gone and the server does not know it: Write succeeds   *)
(* and the snapshot is lost.                                               *)
WriteLost(s) ==
    /\ pc[s] = "write"
    /\ link[s] = "broken"
    /\ pc' = [pc EXCEPT ![s] = "sleep"]
    /\ UNCHANGED <<server, mutex, symbol, book, calls, snapshot, link, wire, client, shown>>

(* A plausible bug: a failed Write is tried again. *)
WriteRetry(s) ==
    /\ pc[s] = "write"
    /\ link[s] = "cancelled"
    /\ UNCHANGED vars

(* Write returns false: the loop is left by break. *)
WriteFailed(s) ==
    /\ pc[s] = "write"
    /\ link[s] = "cancelled"
    /\ pc' = [pc EXCEPT ![s] = "returned"]
    /\ UNCHANGED <<server, mutex, symbol, book, calls, snapshot, link, wire, client, shown>>

(* The end of sleep_for(1s). *)
Awaken(s) ==
    /\ pc[s] = "sleep"
    /\ pc' = [pc EXCEPT ![s] = "check"]
    /\ UNCHANGED <<server, mutex, symbol, book, calls, snapshot, link, wire, client, shown>>

(***************************************************************************)
(* StreamMarketDataSnapshots of the client                                 *)
(***************************************************************************)
(* The call starts a handler thread in the server, or is refused when there *)
(* is none (yet): the client does not wait for one.                        *)
Subscribe(s) ==
    /\ client[s] = "new"
    /\ client' = [client EXCEPT ![s] = "reading"]
    /\ IF server = "up"
         THEN pc' = [pc EXCEPT ![s] = "check"] /\ UNCHANGED link
         ELSE link' = [link EXCEPT ![s] = "refused"] /\ UNCHANGED pc
    /\ UNCHANGED <<server, mutex, symbol, book, calls, snapshot, wire, shown>>

(* Read returns true and the handler is given the snapshot. *)
ReadSnapshot(s) ==
    /\ client[s] = "reading"
    /\ wire[s] # << >>
    /\ shown' = [shown EXCEPT ![s] = Head(wire[s])]
    /\ wire' = [wire EXCEPT ![s] = Tail(@)]
    /\ UNCHANGED <<server, mutex, symbol, book, pc, calls, snapshot, link, client>>

(* Read returns false: what is still in transit is lost.  The client calls  *)
(* Finish, logs the error and ends; it does not subscribe again.           *)
ReadFailed(s) ==
    /\ client[s] = "reading"
    /\ link[s] # "up"
    /\ client' = [client EXCEPT ![s] = "finished"]
    /\ wire' = [wire EXCEPT ![s] = << >>]
    /\ UNCHANGED <<server, mutex, symbol, book, pc, calls, snapshot, link, shown>>

(***************************************************************************)
(* The connection                                                          *)
(***************************************************************************)
(* The network fails or the client's process ends. *)
Break(s) ==
    /\ client[s] = "reading"
    /\ link[s] = "up"
    /\ link' = [link EXCEPT ![s] = "broken"]
    /\ UNCHANGED <<server, mutex, symbol, book, pc, calls, snapshot, wire, client, shown>>

(* gRPC finds out: from now on IsCancelled is true and Write fails. *)
Detect(s) ==
    /\ link[s] = "broken"
    /\ link' = [link EXCEPT ![s] = "cancelled"]
    /\ UNCHANGED <<server, mutex, symbol, book, pc, calls, snapshot, wire, client, shown>>

(***************************************************************************)
(* The specification                                                       *)
(***************************************************************************)
OverwriteStep == OverwriteLock \/ OverwriteSymbol \/ OverwriteAsks \/ OverwriteBids

HandlerStep(s) ==
    \/ HandlerCancelled(s) \/ HandlerContinue(s)
    \/ SnapshotLock(s) \/ SnapshotSymbol(s) \/ SnapshotAsks(s) \/ SnapshotBids(s)
    \/ WriteSnapshot(s) \/ WriteLost(s) \/ WriteFailed(s)
    \/ Awaken(s)

Next ==
    \/ StartServer
    \/ OverwriteCall \/ OverwriteStep
    \/ \E s \in Streams :
          \/ HandlerStep(s) \/ Subscribe(s) \/ ReadSnapshot(s) \/ ReadFailed(s)
          \/ Break(s) \/ Detect(s)

SafeSpec == Init /\ [][Next]_vars

(* Threads that can run do run.  A handler competes for the mutex with      *)
(* handlers that sleep for a second between two acquisitions: it gets it    *)
(* sooner or later (strong fairness), and so does the writer.  Nothing     *)
(* makes a book, a subscriber or a broken connection appear or be noticed,  *)
(* by the server or by the client.                                         *)
Fairness ==
    /\ WF_vars(OverwriteStep) /\ SF_vars(OverwriteLock)
    /\ \A s \in Streams : /\ WF_vars(HandlerStep(s)) /\ SF_vars(SnapshotLock(s))
                          /\ WF_vars(ReadSnapshot(s))

Spec == SafeSpec /\ Fairness

(***************************************************************************)
(* Properties                                                              *)
(***************************************************************************)
SnapshotOK == [symbol : Nat, asks : Nat, bids : Nat]

(* The type invariant of the service, its handler threads and subscribers. *)
TypeOK ==
    /\ server \in {"starting", "up", "failed"}
    /\ mutex \in Threads \cup {NoThread}
    /\ symbol \in Nat
    /\ book \in [ask : Nat, bid : Nat]
    /\ pc \in [Threads -> WriterPC \cup HandlerPC]
    /\ pc[Writer] \in WriterPC
    /\ \A s \in Streams : pc[s] \in HandlerPC
    /\ calls \in 0..MaxBooks
    /\ snapshot \in [Streams -> SnapshotOK]
    /\ link \in [Streams -> {"up", "refused", "broken", "cancelled"}]
    /\ wire \in [Streams -> Seq(SnapshotOK)]
    /\ client \in [Streams -> {"new", "reading", "finished"}]
    /\ shown \in [Streams -> SnapshotOK]

(* A snapshot that comes from one call of overwriteBook. *)
Whole(x) == x.symbol = x.asks /\ x.asks = x.bids

(* No snapshot is torn: what is sent and what a subscriber handles is the   *)
(* symbol, the asks and the bids of one and the same call of overwriteBook, *)
(* although the fields are assigned and copied one by one.                 *)
NoTornSnapshot ==
    \A s \in Streams :
        /\ Whole(shown[s])
        /\ \A i \in DOMAIN wire[s] : Whole(wire[s][i])

(* The books on their way to a subscriber, from the one it handled last to  *)
(* the one in the service, are ordered: nothing overtakes, and nothing is   *)
(* sent that was not published.                                            *)
BooksInOrder ==
    \A s \in Streams :
        /\ \A i \in DOMAIN wire[s] :
              /\ shown[s].symbol <= wire[s][i].symbol
              /\ wire[s][i].symbol <= symbol
        /\ \A i, j \in DOMAIN wire[s] : i < j => wire[s][i].symbol <= wire[s][j].symbol

(* A subscriber that stays connected is shown every book or a later one:    *)
(* however the threads interleave, the handler does not go on sending an    *)
(* old book and the subscriber does not starve.                            *)
LatestIsShown ==
    \A s \in Streams : \A n \in 1..MaxBooks :
        (client[s] = "reading" /\ symbol = n) ~> (shown[s].symbol >= n \/ link[s] # "up")

(* The handler thread of a subscriber that gRPC knows to be gone returns,   *)
(* whether the loop was about to test IsCancelled, copy the book, write or  *)
(* sleep: no handler thread is leaked.                                     *)
HandlerReturns ==
    \A s \in Streams : link[s] = "cancelled" ~> pc[s] = "returned"

=============================================================================
