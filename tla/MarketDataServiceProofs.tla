---------------------- MODULE MarketDataServiceProofs ----------------------
(***************************************************************************)
(* Theorems about MarketDataService, for all sets of subscribers and all   *)
(* bounds.                                                                 *)
(***************************************************************************)
EXTENDS MarketDataService, TLAPS

(***************************************************************************)
(* Types                                                                   *)
(***************************************************************************)
LEMMA InitType == Init => TypeOK
BY ThreadsAssumption, BoundsAssumption
   DEF Init, TypeOK, Threads, WriterPC, HandlerPC, NoSnapshot, SnapshotOK

LEMMA NextType == TypeOK /\ [Next]_vars => TypeOK'
<1> SUFFICES ASSUME TypeOK, [Next]_vars PROVE TypeOK'
  OBVIOUS
<1> USE ThreadsAssumption, BoundsAssumption DEF TypeOK, Threads, WriterPC, HandlerPC
<1>1. CASE StartServer
  BY <1>1 DEF StartServer
<1>2. CASE OverwriteCall
  BY <1>2 DEF OverwriteCall
<1>3. CASE OverwriteStep
  <2>1. calls \in Nat
    OBVIOUS
  <2>2. CASE OverwriteLock
    BY <2>2 DEF OverwriteLock
  <2>3. CASE OverwriteSymbol
    BY <2>1, <2>3 DEF OverwriteSymbol
  <2>4. CASE OverwriteAsks
    <3>1. book' \in [ask : Nat, bid : Nat]
      BY <2>1, <2>4 DEF OverwriteAsks
    <3>2. QED
      BY <2>4, <3>1 DEF OverwriteAsks
  <2>5. CASE OverwriteBids
    <3>1. book' \in [ask : Nat, bid : Nat]
      BY <2>1, <2>5 DEF OverwriteBids
    <3>2. QED
      BY <2>5, <3>1 DEF OverwriteBids
  <2>6. QED
    BY <1>3, <2>2, <2>3, <2>4, <2>5 DEF OverwriteStep
<1>4. ASSUME NEW s \in Streams, SnapshotSymbol(s) \/ SnapshotAsks(s) \/ SnapshotBids(s)
      PROVE  TypeOK'
  <2>1. snapshot' \in [Streams -> SnapshotOK]
    <3>1. CASE SnapshotSymbol(s)
      BY <3>1, ZenonT(40) DEF SnapshotSymbol, SnapshotOK
    <3>2. CASE SnapshotAsks(s)
      BY <3>2, ZenonT(40) DEF SnapshotAsks, SnapshotOK
    <3>3. CASE SnapshotBids(s)
      BY <3>3, ZenonT(40) DEF SnapshotBids, SnapshotOK
    <3>4. QED
      BY <1>4, <3>1, <3>2, <3>3
  <2>2. QED
    BY <1>4, <2>1, ZenonT(40) DEF SnapshotSymbol, SnapshotAsks, SnapshotBids
<1>5. ASSUME NEW s \in Streams, WriteSnapshot(s) PROVE TypeOK'
  BY <1>5 DEF WriteSnapshot
<1>6. ASSUME NEW s \in Streams,
             HandlerCancelled(s) \/ HandlerContinue(s) \/ SnapshotLock(s) \/ WriteLost(s)
               \/ WriteFailed(s) \/ Awaken(s)
      PROVE  TypeOK'
  BY <1>6, ZenonT(40) DEF HandlerCancelled, HandlerContinue, SnapshotLock, WriteLost, WriteFailed, Awaken
<1>7. ASSUME NEW s \in Streams, Subscribe(s) PROVE TypeOK'
  BY <1>7 DEF Subscribe
<1>8. ASSUME NEW s \in Streams, ReadSnapshot(s) PROVE TypeOK'
  <2>1. Head(wire[s]) \in SnapshotOK /\ Tail(wire[s]) \in Seq(SnapshotOK)
    BY <1>8 DEF ReadSnapshot
  <2>2. QED
    BY <1>8, <2>1 DEF ReadSnapshot
<1>9. ASSUME NEW s \in Streams, ReadFailed(s) PROVE TypeOK'
  <2>1. << >> \in Seq(SnapshotOK)
    OBVIOUS
  <2>2. QED
    BY <1>9, <2>1 DEF ReadFailed
<1>10. ASSUME NEW s \in Streams, Break(s) \/ Detect(s) PROVE TypeOK'
  BY <1>10 DEF Break, Detect
<1>11. CASE UNCHANGED vars
  BY <1>11 DEF vars
<1>12. QED
  BY <1>1, <1>2, <1>3, <1>4, <1>5, <1>6, <1>7, <1>8, <1>9, <1>10, <1>11
     DEF Next, HandlerStep

(* The type invariant of the service, its handlers and its subscribers. *)
THEOREM TypeCorrect == SafeSpec => []TypeOK
BY InitType, NextType, PTL DEF SafeSpec

(***************************************************************************)
(* The inductive invariant                                                 *)
(***************************************************************************)
(* A thread is between its lock and its unlock exactly when it owns the     *)
(* mutex.                                                                  *)
Exclusive == \A t \in Threads : pc[t] \in Critical <=> mutex = t

(* A subscriber that has not called yet has no handler thread. *)
Started == \A s \in Streams : client[s] = "new" => pc[s] = "none"

(* The fields of the service come from one call of overwriteBook, except    *)
(* while the writer is between two assignments.                            *)
Fields ==
    /\ symbol <= calls
    /\ pc[Writer] = "ask" => symbol = calls /\ book.ask = book.bid
    /\ pc[Writer] = "bid" => symbol = calls /\ book.ask = calls
    /\ pc[Writer] \notin {"ask", "bid"} => symbol = book.ask /\ book.ask = book.bid

(* A handler's snapshot holds the fields it has copied so far, and it is    *)
(* whole when it is about to be written.                                   *)
Copied ==
    \A s \in Streams :
        /\ pc[s] = "ask" => snapshot[s].symbol = symbol
        /\ pc[s] = "bid" => snapshot[s].symbol = symbol /\ snapshot[s].asks = book.ask
        /\ pc[s] = "write" => Whole(snapshot[s])

(* A handler's snapshot is between what it has sent and what is published. *)
Between ==
    \A s \in Streams :
        /\ shown[s].symbol <= snapshot[s].symbol
        /\ \A i \in DOMAIN wire[s] : wire[s][i].symbol <= snapshot[s].symbol
        /\ snapshot[s].symbol <= symbol

IInv == Exclusive /\ Started /\ Fields /\ Copied /\ NoTornSnapshot /\ Between /\ BooksInOrder

LEMMA InitInv == Init => IInv
<1> SUFFICES ASSUME Init PROVE IInv
  OBVIOUS
<1>1. Exclusive
  BY ThreadsAssumption DEF Init, Exclusive, Critical, Threads
<1>2. Started /\ Fields
  BY ThreadsAssumption DEF Init, Started, Fields, Threads
<1>3. Copied
  BY ThreadsAssumption DEF Init, Copied, Threads
<1>4. \A s \in Streams : shown[s] = NoSnapshot /\ snapshot[s] = NoSnapshot /\ wire[s] = << >>
  BY DEF Init
<1>5. NoTornSnapshot
  <2>1. Whole(NoSnapshot)
    BY DEF Whole, NoSnapshot
  <2>2. \A i \in DOMAIN << >> : FALSE
    OBVIOUS
  <2>3. QED
    BY <1>4, <2>1, <2>2, Zenon DEF NoTornSnapshot
<1>6. Between /\ BooksInOrder
  BY <1>4 DEF Init, Between, BooksInOrder, NoSnapshot
<1>7. QED
  BY <1>1, <1>2, <1>3, <1>5, <1>6 DEF IInv

(* Each part of the invariant is preserved, given all of them.             *)
LEMMA NextExclusive == TypeOK /\ Exclusive /\ Started /\ [Next]_vars => (Exclusive /\ Started)'
<1> SUFFICES ASSUME TypeOK, Exclusive, Started, [Next]_vars PROVE (Exclusive /\ Started)'
  OBVIOUS
<1> USE ThreadsAssumption DEF TypeOK, Exclusive, Started, Threads, Critical
<1>1. CASE StartServer \/ OverwriteCall
  BY <1>1 DEF StartServer, OverwriteCall
<1>2. CASE OverwriteStep
  BY <1>2 DEF OverwriteStep, OverwriteLock, OverwriteSymbol, OverwriteAsks, OverwriteBids
<1>3. ASSUME NEW s \in Streams, HandlerStep(s) PROVE (Exclusive /\ Started)'
  BY <1>3 DEF HandlerStep, HandlerCancelled, HandlerContinue, SnapshotLock, SnapshotSymbol,
     SnapshotAsks, SnapshotBids, WriteSnapshot, WriteLost, WriteFailed, Awaken
<1>4. ASSUME NEW s \in Streams, Subscribe(s) PROVE (Exclusive /\ Started)'
  BY <1>4 DEF Subscribe
<1>5. ASSUME NEW s \in Streams, ReadSnapshot(s) \/ ReadFailed(s) \/ Break(s) \/ Detect(s)
      PROVE  (Exclusive /\ Started)'
  BY <1>5 DEF ReadSnapshot, ReadFailed, Break, Detect
<1>6. CASE UNCHANGED vars
  BY <1>6 DEF vars
<1>7. QED
  BY <1>1, <1>2, <1>3, <1>4, <1>5, <1>6 DEF Next

(* What a step can do to the stream of a subscriber. *)
LEMMA WireSteps ==
    ASSUME TypeOK, [Next]_vars, NEW r \in Streams
    PROVE  \/ wire'[r] = wire[r] /\ shown'[r] = shown[r]
           \/ WriteSnapshot(r) \/ ReadSnapshot(r) \/ ReadFailed(r)
<1> USE DEF TypeOK
<1>1. ASSUME NEW s \in Streams, HandlerStep(s), ~WriteSnapshot(s)
      PROVE  UNCHANGED <<wire, shown>>
  BY <1>1 DEF HandlerStep, HandlerCancelled, HandlerContinue, SnapshotLock,
     SnapshotSymbol, SnapshotAsks, SnapshotBids, WriteLost, WriteFailed, Awaken
<1>2. ASSUME NEW s \in Streams, Subscribe(s) \/ Break(s) \/ Detect(s)
      PROVE  UNCHANGED <<wire, shown>>
  BY <1>2 DEF Subscribe, Break, Detect
<1>3. CASE StartServer \/ OverwriteCall \/ OverwriteStep \/ UNCHANGED vars
  BY <1>3 DEF StartServer, OverwriteCall, OverwriteStep, OverwriteLock, OverwriteSymbol,
     OverwriteAsks, OverwriteBids, vars
<1>4. ASSUME NEW s \in Streams, s # r, WriteSnapshot(s) \/ ReadSnapshot(s) \/ ReadFailed(s)
      PROVE  wire'[r] = wire[r] /\ shown'[r] = shown[r]
  BY <1>4 DEF WriteSnapshot, ReadSnapshot, ReadFailed
<1>5. QED
  BY <1>1, <1>2, <1>3, <1>4 DEF Next

LEMMA NextFields == TypeOK /\ Exclusive /\ Fields /\ [Next]_vars => Fields'
<1> SUFFICES ASSUME TypeOK, Exclusive, Fields, [Next]_vars PROVE Fields'
  OBVIOUS
<1> USE ThreadsAssumption DEF TypeOK, Fields, Threads
<1>1. calls \in Nat /\ book.ask \in Nat /\ book.bid \in Nat
  BY BoundsAssumption
<1>2. CASE OverwriteCall
  BY <1>1, <1>2 DEF OverwriteCall
<1>3. CASE OverwriteStep
  BY <1>1, <1>3 DEF OverwriteStep, OverwriteLock, OverwriteSymbol, OverwriteAsks, OverwriteBids
<1>4. CASE UNCHANGED <<symbol, book, calls>> /\ pc'[Writer] = pc[Writer]
  BY <1>4
<1>5. ASSUME NEW s \in Streams, HandlerStep(s) PROVE Fields'
  BY <1>4, <1>5 DEF HandlerStep, HandlerCancelled, HandlerContinue, SnapshotLock,
     SnapshotSymbol, SnapshotAsks, SnapshotBids, WriteSnapshot, WriteLost, WriteFailed, Awaken
<1>6. ASSUME NEW s \in Streams,
             Subscribe(s) \/ ReadSnapshot(s) \/ ReadFailed(s) \/ Break(s) \/ Detect(s)
      PROVE  Fields'
  BY <1>4, <1>6 DEF Subscribe, ReadSnapshot, ReadFailed, Break, Detect
<1>7. CASE StartServer \/ UNCHANGED vars
  BY <1>4, <1>7 DEF StartServer, vars
<1>8. QED
  BY <1>2, <1>3, <1>5, <1>6, <1>7 DEF Next

(* While a handler copies, the writer is outside its critical section: the  *)
(* fields it reads are those of one call.                                  *)
LEMMA WholeWhileCopying ==
    ASSUME TypeOK, Exclusive, Fields, NEW s \in Streams, pc[s] \in Critical
    PROVE  symbol = book.ask /\ book.ask = book.bid
BY ThreadsAssumption DEF TypeOK, Exclusive, Fields, Threads, Critical

LEMMA NextCopied ==
    TypeOK /\ Exclusive /\ Fields /\ Copied /\ [Next]_vars => Copied'
<1> SUFFICES ASSUME TypeOK, Exclusive, Fields, Copied, [Next]_vars, NEW r \in Streams
             PROVE  /\ pc'[r] = "ask" => snapshot'[r].symbol = symbol'
                    /\ pc'[r] = "bid" => /\ snapshot'[r].symbol = symbol'
                                         /\ snapshot'[r].asks = book'.ask
                    /\ pc'[r] = "write" => Whole(snapshot'[r])
  BY DEF Copied
<1> USE ThreadsAssumption DEF TypeOK, Threads, Critical
<1>1. CASE OverwriteStep
  <2>1. pc[r] = "ask" => snapshot[r].symbol = symbol
    BY DEF Copied
  <2>2. QED
    BY <1>1 DEF Copied, Exclusive, OverwriteStep, OverwriteLock, OverwriteSymbol,
       OverwriteAsks, OverwriteBids
<1>2. CASE SnapshotSymbol(r)
  BY <1>2 DEF SnapshotSymbol, SnapshotOK
<1>3. CASE SnapshotAsks(r)
  BY <1>3 DEF Copied, SnapshotAsks, SnapshotOK
<1>4. CASE SnapshotBids(r)
  BY <1>4, WholeWhileCopying, SMTT(30) DEF Copied, SnapshotBids, Whole, SnapshotOK
<1>5. CASE /\ UNCHANGED <<symbol, book>>
           /\ snapshot'[r] = snapshot[r]
           /\ pc'[r] = pc[r] \/ pc'[r] \notin {"ask", "bid", "write"}
  BY <1>5 DEF Copied
<1>6. ASSUME NEW s \in Streams, HandlerStep(s), s # r \/ ~(SnapshotSymbol(s) \/ SnapshotAsks(s) \/ SnapshotBids(s))
      PROVE  UNCHANGED <<symbol, book>> /\ snapshot'[r] = snapshot[r]
               /\ (pc'[r] = pc[r] \/ pc'[r] \notin {"ask", "bid", "write"})
  BY <1>6 DEF HandlerStep, HandlerCancelled, HandlerContinue, SnapshotLock,
     SnapshotSymbol, SnapshotAsks, SnapshotBids, WriteSnapshot, WriteLost, WriteFailed, Awaken
<1>7. ASSUME NEW s \in Streams,
             Subscribe(s) \/ ReadSnapshot(s) \/ ReadFailed(s) \/ Break(s) \/ Detect(s)
      PROVE  UNCHANGED <<symbol, book>> /\ snapshot'[r] = snapshot[r]
               /\ (pc'[r] = pc[r] \/ pc'[r] \notin {"ask", "bid", "write"})
  BY <1>7 DEF Subscribe, ReadSnapshot, ReadFailed, Break, Detect
<1>8. CASE StartServer \/ OverwriteCall \/ UNCHANGED vars
  BY <1>5, <1>8 DEF StartServer, OverwriteCall, vars
<1>9. QED
  BY <1>1, <1>2, <1>3, <1>4, <1>5, <1>6, <1>7, <1>8 DEF Next

LEMMA NextNoTorn == TypeOK /\ Copied /\ NoTornSnapshot /\ [Next]_vars => NoTornSnapshot'
<1> SUFFICES ASSUME TypeOK, Copied, NoTornSnapshot, [Next]_vars, NEW r \in Streams
             PROVE  Whole(shown'[r]) /\ \A i \in DOMAIN wire'[r] : Whole(wire'[r][i])
  BY DEF NoTornSnapshot
<1>1. wire[r] \in Seq(SnapshotOK) /\ shown[r] \in SnapshotOK /\ snapshot[r] \in SnapshotOK
  BY DEF TypeOK
<1>2. Whole(shown[r]) /\ \A i \in DOMAIN wire[r] : Whole(wire[r][i])
  BY DEF NoTornSnapshot
<1>3. CASE wire'[r] = wire[r] /\ shown'[r] = shown[r]
  BY <1>2, <1>3
<1>4. CASE WriteSnapshot(r)
  <2>1. wire'[r] = Append(wire[r], snapshot[r]) /\ shown'[r] = shown[r] /\ Whole(snapshot[r])
    BY <1>4 DEF WriteSnapshot, TypeOK, Copied
  <2>2. QED
    BY <1>1, <1>2, <2>1
<1>5. CASE ReadSnapshot(r)
  <2>1. wire[r] # << >> /\ wire'[r] = Tail(wire[r]) /\ shown'[r] = Head(wire[r])
    BY <1>5 DEF ReadSnapshot, TypeOK
  <2>2. QED
    BY <1>1, <1>2, <2>1
<1>6. CASE ReadFailed(r)
  <2>1. wire'[r] = << >> /\ shown'[r] = shown[r]
    BY <1>6 DEF ReadFailed, TypeOK
  <2>2. QED
    BY <1>2, <2>1
<1>7. QED
  BY <1>3, <1>4, <1>5, <1>6, WireSteps

(* The number of the published book and that of each snapshot only grow. *)
LEMMA Growing ==
    ASSUME TypeOK, Fields, Between, [Next]_vars, NEW r \in Streams
    PROVE  /\ symbol <= symbol'
           /\ snapshot[r].symbol <= snapshot'[r].symbol
           /\ snapshot'[r].symbol <= symbol'
<1>1. symbol \in Nat /\ calls \in Nat /\ snapshot[r] \in SnapshotOK
  BY BoundsAssumption DEF TypeOK
<1>2. snapshot[r].symbol \in Nat /\ snapshot[r].symbol <= symbol /\ symbol <= calls
  BY <1>1 DEF SnapshotOK, Between, Fields
<1>3. CASE symbol' = symbol /\ snapshot'[r].symbol = snapshot[r].symbol
  BY <1>1, <1>2, <1>3
<1>4. CASE OverwriteSymbol
  BY <1>1, <1>2, <1>4 DEF OverwriteSymbol
<1>5. CASE SnapshotSymbol(r)
  BY <1>1, <1>2, <1>5 DEF SnapshotSymbol, TypeOK, SnapshotOK
<1>6. ASSUME OverwriteStep, ~OverwriteSymbol PROVE UNCHANGED <<symbol, snapshot>>
  BY <1>6 DEF OverwriteStep, OverwriteLock, OverwriteAsks, OverwriteBids
<1>7. ASSUME NEW s \in Streams, HandlerStep(s), s # r \/ ~SnapshotSymbol(s)
      PROVE  symbol' = symbol /\ snapshot'[r].symbol = snapshot[r].symbol
  <2>1. CASE SnapshotSymbol(s)
    BY <1>7, <2>1 DEF SnapshotSymbol, TypeOK
  <2>2. CASE SnapshotAsks(s)
    BY <1>1, <2>2 DEF SnapshotAsks, TypeOK, SnapshotOK
  <2>3. CASE SnapshotBids(s)
    BY <1>1, <2>3 DEF SnapshotBids, TypeOK, SnapshotOK
  <2>4. QED
    BY <1>7, <2>1, <2>2, <2>3 DEF HandlerStep, HandlerCancelled, HandlerContinue, SnapshotLock,
       WriteSnapshot, WriteLost, WriteFailed, Awaken
<1>8. ASSUME NEW s \in Streams,
             Subscribe(s) \/ ReadSnapshot(s) \/ ReadFailed(s) \/ Break(s) \/ Detect(s)
      PROVE  UNCHANGED <<symbol, snapshot>>
  BY <1>8 DEF Subscribe, ReadSnapshot, ReadFailed, Break, Detect
<1>9. CASE StartServer \/ OverwriteCall \/ UNCHANGED vars
  BY <1>3, <1>9 DEF StartServer, OverwriteCall, vars
<1>10. QED
  BY <1>3, <1>4, <1>5, <1>6, <1>7, <1>8, <1>9 DEF Next

LEMMA NextOrder ==
    TypeOK /\ Fields /\ Between /\ BooksInOrder /\ [Next]_vars => (Between /\ BooksInOrder)'
<1> SUFFICES ASSUME TypeOK, Fields, Between, BooksInOrder, [Next]_vars, NEW r \in Streams
             PROVE  /\ shown'[r].symbol <= snapshot'[r].symbol
                    /\ snapshot'[r].symbol <= symbol'
                    /\ \A i \in DOMAIN wire'[r] :
                          /\ wire'[r][i].symbol <= snapshot'[r].symbol
                          /\ shown'[r].symbol <= wire'[r][i].symbol
                          /\ wire'[r][i].symbol <= symbol'
                    /\ \A i, j \in DOMAIN wire'[r] :
                          i < j => wire'[r][i].symbol <= wire'[r][j].symbol
  BY DEF Between, BooksInOrder
<1> DEFINE n == snapshot[r].symbol
           m == snapshot'[r].symbol
<1>1. /\ wire[r] \in Seq(SnapshotOK) /\ shown[r] \in SnapshotOK /\ snapshot[r] \in SnapshotOK
      /\ snapshot'[r] \in SnapshotOK /\ symbol \in Nat /\ symbol' \in Nat
  BY NextType DEF TypeOK
<1>2. \A x \in SnapshotOK : x.symbol \in Nat
  BY DEF SnapshotOK
<1>3. n <= m /\ m <= symbol' /\ n \in Nat /\ m \in Nat
  BY <1>1, <1>2, Growing
<1>4. /\ shown[r].symbol <= n
      /\ \A i \in DOMAIN wire[r] : wire[r][i].symbol <= n /\ shown[r].symbol <= wire[r][i].symbol
      /\ \A i, j \in DOMAIN wire[r] : i < j => wire[r][i].symbol <= wire[r][j].symbol
  BY DEF Between, BooksInOrder
<1>5. \A i \in DOMAIN wire[r] : wire[r][i].symbol \in Nat
  BY <1>1, <1>2
<1> HIDE DEF n, m
<1>6. CASE wire'[r] = wire[r] /\ shown'[r] = shown[r]
  BY <1>1, <1>2, <1>3, <1>4, <1>5, <1>6 DEF m
<1>7. CASE WriteSnapshot(r)
  <2>1. wire'[r] = Append(wire[r], snapshot[r]) /\ shown'[r] = shown[r] /\ m = n
    BY <1>7 DEF WriteSnapshot, TypeOK, m, n
  <2>2. /\ Len(wire'[r]) = Len(wire[r]) + 1 /\ DOMAIN wire'[r] = 1..(Len(wire[r]) + 1)
        /\ \A i \in DOMAIN wire[r] : wire'[r][i] = wire[r][i]
        /\ wire'[r][Len(wire[r]) + 1] = snapshot[r]
        /\ DOMAIN wire[r] = 1..Len(wire[r]) /\ Len(wire[r]) \in Nat
    BY <1>1, <2>1
  <2>3. \A i \in DOMAIN wire'[r] : i \in DOMAIN wire[r] \/ i = Len(wire[r]) + 1
    BY <2>2
  <2>4. \A i \in DOMAIN wire'[r] : /\ wire'[r][i].symbol <= n
                                  /\ shown[r].symbol <= wire'[r][i].symbol
                                  /\ wire'[r][i].symbol \in Nat
    <3> SUFFICES ASSUME NEW i \in DOMAIN wire'[r]
                 PROVE  /\ wire'[r][i].symbol <= n
                        /\ shown[r].symbol <= wire'[r][i].symbol
                        /\ wire'[r][i].symbol \in Nat
      OBVIOUS
    <3>1. CASE i \in DOMAIN wire[r]
      <4>1. wire'[r][i] = wire[r][i]
        BY <2>2, <3>1
      <4>2. QED
        BY <1>4, <1>5, <3>1, <4>1
    <3>2. CASE i = Len(wire[r]) + 1
      <4>1. wire'[r][i].symbol = n
        BY <2>2, <3>2 DEF n
      <4>2. QED
        BY <1>3, <1>4, <4>1
    <3>3. QED
      BY <2>3, <3>1, <3>2
  <2>5. \A i, j \in DOMAIN wire'[r] : i < j => wire'[r][i].symbol <= wire'[r][j].symbol
    <3> SUFFICES ASSUME NEW i \in DOMAIN wire'[r], NEW j \in DOMAIN wire'[r], i < j
                 PROVE  wire'[r][i].symbol <= wire'[r][j].symbol
      OBVIOUS
    <3>1. i \in DOMAIN wire[r]
      BY <2>2
    <3>2. CASE j = Len(wire[r]) + 1
      BY <2>2, <2>4, <3>2 DEF n
    <3>3. CASE j \in DOMAIN wire[r]
      BY <1>4, <2>2, <3>1, <3>3
    <3>4. QED
      BY <2>3, <3>2, <3>3
  <2>6. QED
    BY <1>1, <1>2, <1>3, <1>4, <2>1, <2>4, <2>5, SMTT(30) DEF m
<1>8. CASE ReadSnapshot(r)
  <2>1. wire[r] # << >> /\ wire'[r] = Tail(wire[r]) /\ shown'[r] = Head(wire[r])
    BY <1>8 DEF ReadSnapshot, TypeOK
  <2>2. /\ DOMAIN wire[r] = 1..Len(wire[r]) /\ Len(wire[r]) \in Nat \ {0}
        /\ Head(wire[r]) = wire[r][1]
        /\ DOMAIN wire'[r] = 1..(Len(wire[r]) - 1)
        /\ \A i \in DOMAIN wire'[r] : wire'[r][i] = wire[r][i + 1]
    BY <1>1, <2>1
  <2>3. \A i \in DOMAIN wire'[r] : i + 1 \in DOMAIN wire[r] /\ 1 < i + 1
    BY <2>2
  <2>4. 1 \in DOMAIN wire[r]
    BY <2>2
  <2>5. \A i \in DOMAIN wire'[r] : wire[r][1].symbol <= wire[r][i + 1].symbol
    BY <1>4, <2>3, <2>4
  <2>6. \A i, j \in DOMAIN wire'[r] : i < j => wire[r][i + 1].symbol <= wire[r][j + 1].symbol
    <3> SUFFICES ASSUME NEW i \in DOMAIN wire'[r], NEW j \in DOMAIN wire'[r], i < j
                 PROVE  wire[r][i + 1].symbol <= wire[r][j + 1].symbol
      OBVIOUS
    <3>1. i + 1 < j + 1
      BY <2>2
    <3>2. QED
      BY <1>4, <2>3, <3>1
  <2>7. \A i \in DOMAIN wire[r] : wire[r][i].symbol <= m /\ wire[r][i].symbol <= symbol'
    BY <1>1, <1>3, <1>4, <1>5
  <2>8. QED
    BY <1>1, <1>3, <2>1, <2>2, <2>3, <2>4, <2>5, <2>6, <2>7 DEF m
<1>9. CASE ReadFailed(r)
  <2>1. wire'[r] = << >> /\ shown'[r] = shown[r]
    BY <1>9 DEF ReadFailed, TypeOK
  <2>2. QED
    BY <1>1, <1>2, <1>3, <1>4, <2>1 DEF m
<1>10. QED
  BY <1>6, <1>7, <1>8, <1>9, WireSteps

LEMMA Invariance == SafeSpec => [](TypeOK /\ IInv)
<1>1. TypeOK /\ IInv /\ [Next]_vars => IInv'
  BY NextExclusive, NextFields, NextCopied, NextNoTorn, NextOrder DEF IInv
<1>2. QED
  BY <1>1, InitInv, TypeCorrect, PTL DEF SafeSpec

(***************************************************************************)
(* The theorems                                                            *)
(***************************************************************************)
(* No subscriber is sent or shown a mixture of two calls of overwriteBook,  *)
(* for any number of handler threads.                                      *)
THEOREM SnapshotsAreWhole == SafeSpec => []NoTornSnapshot
<1>1. IInv => NoTornSnapshot
  BY DEF IInv
<1>2. QED
  BY <1>1, Invariance, PTL

(* No snapshot overtakes another one on its way from the service to a       *)
(* subscriber, and none is newer than the published book.                  *)
THEOREM SnapshotsInOrder == SafeSpec => []BooksInOrder
<1>1. IInv => BooksInOrder
  BY DEF IInv
<1>2. QED
  BY <1>1, Invariance, PTL

=============================================================================
