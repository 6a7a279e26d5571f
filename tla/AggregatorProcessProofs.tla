---------------------- MODULE AggregatorProcessProofs ----------------------
(***************************************************************************)
(* Theorems about the exchange sessions (ClientSession) and the process    *)
(* around them (AggregatorProcess), for all exchanges of the command line, *)
(* all sets of prices, quantities and tickers, and all bounds.             *)
(***************************************************************************)
EXTENDS AggregatorProcess, TLAPS

(* The theorems about the aggregator, whose price levels are those of the   *)
(* process.                                                                *)
Book == INSTANCE AggregatorProofs

(***************************************************************************)
(* Sequences                                                               *)
(***************************************************************************)
LEMMA Least ==
    ASSUME NEW T, T \subseteq Nat, T # {}
    PROVE  \E x \in T : \A y \in T : x <= y
BY Book!Least, PriceAssumption, QuantityAssumption, ConnectedAssumption DEF Exchange, Book!Exchange

LEMMA HeadAndTail ==
    ASSUME NEW S, NEW q \in Seq(S), q # << >>
    PROVE  /\ Head(q) \in S /\ Head(q) = q[1]
           /\ Tail(q) \in Seq(S) /\ Len(Tail(q)) = Len(q) - 1 /\ Len(q) >= 1
           /\ \A i \in 1..(Len(q) - 1) : Tail(q)[i] = q[i + 1]
OBVIOUS

LEMMA Appending ==
    ASSUME NEW S, NEW q \in Seq(S), NEW x \in S
    PROVE  /\ Append(q, x) \in Seq(S) /\ Len(Append(q, x)) = Len(q) + 1
           /\ \A i \in 1..Len(q) : Append(q, x)[i] = q[i]
           /\ Append(q, x)[Len(q) + 1] = x
OBVIOUS

LEMMA Concatenation ==
    ASSUME NEW S, NEW q \in Seq(S), NEW r \in Seq(S)
    PROVE  /\ q \o r \in Seq(S) /\ Len(q \o r) = Len(q) + Len(r)
           /\ \A i \in 1..Len(q) : (q \o r)[i] = q[i]
           /\ \A i \in 1..Len(r) : (q \o r)[Len(q) + i] = r[i]
OBVIOUS

LEMMA SameSequence ==
    ASSUME NEW S, NEW q \in Seq(S), NEW r \in Seq(S), Len(q) = Len(r),
           \A i \in 1..Len(q) : q[i] = r[i]
    PROVE  q = r
OBVIOUS

(* The oldest element goes from one queue to the other. *)
LEMMA HandOver ==
    ASSUME NEW S, NEW q \in Seq(S), NEW r \in Seq(S), r # << >>
    PROVE  Append(q, Head(r)) \o Tail(r) = q \o r
<1> DEFINE a == Append(q, Head(r))
           t == Tail(r)
           l == a \o t
           m == q \o r
           n == Len(q)
<1>1. /\ Head(r) \in S /\ Head(r) = r[1]
      /\ t \in Seq(S) /\ Len(t) = Len(r) - 1 /\ Len(r) >= 1
      /\ \A i \in 1..(Len(r) - 1) : t[i] = r[i + 1]
  BY HeadAndTail
<1>2. /\ a \in Seq(S) /\ Len(a) = n + 1 /\ \A i \in 1..n : a[i] = q[i]
      /\ a[n + 1] = r[1]
  BY <1>1, Appending
<1> HIDE DEF a, t
<1>3. /\ l \in Seq(S) /\ Len(l) = n + Len(r)
      /\ \A i \in 1..(n + 1) : l[i] = a[i]
      /\ \A i \in 1..(Len(r) - 1) : l[n + 1 + i] = r[i + 1]
  <2>1. /\ l \in Seq(S) /\ Len(l) = Len(a) + Len(t)
        /\ \A i \in 1..Len(a) : l[i] = a[i]
        /\ \A i \in 1..Len(t) : l[Len(a) + i] = t[i]
    <3>1. a \in Seq(S) /\ t \in Seq(S)
      BY <1>1, <1>2
    <3>2. \A u, v \in Seq(S) :
             /\ u \o v \in Seq(S) /\ Len(u \o v) = Len(u) + Len(v)
             /\ \A i \in 1..Len(u) : (u \o v)[i] = u[i]
             /\ \A i \in 1..Len(v) : (u \o v)[Len(u) + i] = v[i]
      BY Concatenation
    <3>3. QED
      BY <3>1, <3>2, Zenon
  <2> HIDE DEF l
  <2>2. n \in Nat /\ Len(r) \in Nat
    OBVIOUS
  <2>3. Len(l) = n + Len(r)
    BY <1>1, <1>2, <2>1, <2>2
  <2>4. QED
    BY <1>1, <1>2, <2>1, <2>3
<1>4. /\ m \in Seq(S) /\ Len(m) = n + Len(r)
      /\ \A i \in 1..n : m[i] = q[i]
      /\ \A i \in 1..Len(r) : m[n + i] = r[i]
  BY Concatenation
<1> HIDE DEF l, m
<1>5. ASSUME NEW i \in 1..Len(l) PROVE l[i] = m[i]
  <2>1. n \in Nat /\ Len(r) \in Nat /\ i \in Nat
    BY <1>3
  <2>2. CASE i <= n
    BY <1>2, <1>3, <1>4, <2>1, <2>2
  <2>3. CASE i = n + 1
    <3>1. l[i] = r[1]
      BY <1>2, <1>3, <2>1, <2>3
    <3>2. m[n + 1] = r[1]
      BY <1>1, <1>4, <2>1
    <3>3. QED
      BY <2>3, <3>1, <3>2
  <2>4. CASE i > n + 1
    <3> DEFINE k == i - n - 1
    <3>1. k \in 1..(Len(r) - 1) /\ k + 1 \in 1..Len(r) /\ i = n + 1 + k /\ i = n + (k + 1)
      BY <1>3, <2>1, <2>4
    <3>2. l[i] = r[k + 1] /\ m[i] = r[k + 1]
      BY <1>3, <1>4, <3>1
    <3>3. QED
      BY <3>2
  <2>5. QED
    BY <2>1, <2>2, <2>3, <2>4
<1>6. QED
  BY <1>3, <1>4, <1>5, SameSequence DEF l, m, a, t

(* The functions on 1..n are the sequences of length n. *)
LEMMA Functions ==
    ASSUME NEW S, NEW n \in Nat, NEW f \in [1..n -> S]
    PROVE  f \in Seq(S) /\ Len(f) = n
OBVIOUS

(***************************************************************************)
(* The exchange sessions                                                   *)
(***************************************************************************)
(* The session whose message is processed has a read pending as soon as     *)
(* the callback returns: nothing else completes for it meanwhile.          *)
Reading ==
    handler.session # 0 => stage[handler.session] = "reading"

SessionInv == SessionTypeOK /\ Reading

LEMMA SessionIsPlace == Session \subseteq Nat \ {0}
BY ExchangesAssumption DEF Session

LEMMA BatchType ==
    ASSUME NEW s, NEW batch \in Batch(s)
    PROVE  batch \in Seq(MarketUpdate)
<1>1. PICK n \in 0..MaxEntries : batch \in [1..n -> {u \in MarketUpdate : u.exchange = exchanges[s]}]
  BY DEF Batch
<1>2. n \in Nat /\ batch \in [1..n -> MarketUpdate]
  BY <1>1, MessagesAssumption
<1>3. QED
  BY <1>2, Functions

LEMMA SessionInitInv == SessionInit => SessionInv
<1> SUFFICES ASSUME SessionInit PROVE SessionInv
  OBVIOUS
<1>1. << >> \in Seq(MarketUpdate)
  OBVIOUS
<1>2. 0 \in 0..MaxMessages
  BY MessagesAssumption
<1>3. SessionTypeOK
  BY <1>1, <1>2
     DEF SessionInit, SessionTypeOK, NoHandler, Stage
<1>4. Reading
  BY DEF SessionInit, Reading, NoHandler
<1>5. QED
  BY <1>3, <1>4 DEF SessionInv

(* What a step that only moves a session on does to the invariant. *)
LEMMA MoveInv ==
    ASSUME SessionInv, NEW s \in Session, NEW next \in Stage,
           handler.session # s,
           stage' = [stage EXCEPT ![s] = next],
           UNCHANGED <<io, handler, messages, sink, feed>>
    PROVE  SessionInv'
<1>1. stage' \in [Session -> Stage]
  BY DEF SessionInv, SessionTypeOK
<1>2. SessionTypeOK'
  BY <1>1 DEF SessionInv, SessionTypeOK
<1>3. Reading'
  BY DEF SessionInv, Reading, SessionTypeOK
<1>4. QED
  BY <1>2, <1>3 DEF SessionInv

LEMMA CompleteInv ==
    ASSUME SessionInv, NEW s \in Session, NEW at, NEW next \in Stage,
           Complete(s, at, next)
    PROVE  SessionInv'
<1>1. PICK outcome \in {next, "ended"} : stage' = [stage EXCEPT ![s] = outcome]
  BY DEF Complete
<1>2. handler.session # s
  BY SessionIsPlace DEF Complete, Callback, NoHandler
<1>3. outcome \in Stage
  BY <1>1 DEF Stage
<1>4. QED
  BY <1>1, <1>2, <1>3, MoveInv DEF Complete

LEMMA OnReadMessageInv ==
    ASSUME SessionInv, NEW s \in Session, OnReadMessage(s)
    PROVE  SessionInv'
<1>1. PICK batch \in Batch(s), throws \in BOOLEAN :
         /\ handler' = [session |-> s, todo |-> batch, throws |-> throws]
         /\ feed' = feed \o batch
  BY DEF OnReadMessage
<1>2. /\ stage[s] = "reading" /\ handler.todo = << >> /\ messages < MaxMessages
      /\ messages' = messages + 1 /\ UNCHANGED <<stage, io, sink>>
  BY DEF OnReadMessage, Callback, NoHandler
<1>3. batch \in Seq(MarketUpdate)
  BY BatchType
<1>4. feed \in Seq(MarketUpdate)
  BY DEF SessionInv, SessionTypeOK
<1>5. feed' \in Seq(MarketUpdate)
  BY <1>1, <1>3, <1>4
<1>6. messages' \in 0..MaxMessages
  BY <1>2, MessagesAssumption DEF SessionInv, SessionTypeOK
<1>7. handler' \in [session : Session \cup {0}, todo : Seq(MarketUpdate), throws : BOOLEAN]
  BY <1>1, <1>3
<1>8. SessionTypeOK'
  BY <1>2, <1>5, <1>6, <1>7 DEF SessionInv, SessionTypeOK
<1>9. Reading'
  BY <1>1, <1>2 DEF Reading
<1>10. QED
  BY <1>8, <1>9 DEF SessionInv

LEMMA PublishInv ==
    ASSUME SessionInv, Publish
    PROVE  SessionInv'
<1> DEFINE todo == handler.todo
<1>1. /\ todo # << >> /\ sink' = Append(sink, Head(todo))
      /\ handler' = [handler EXCEPT !.todo = Tail(todo)]
      /\ UNCHANGED <<stage, io, messages, feed>>
  BY DEF Publish
<1>2. /\ todo \in Seq(MarketUpdate) /\ sink \in Seq(MarketUpdate)
      /\ handler \in [session : Session \cup {0}, todo : Seq(MarketUpdate), throws : BOOLEAN]
  BY DEF SessionInv, SessionTypeOK
<1>3. Head(todo) \in MarketUpdate /\ Tail(todo) \in Seq(MarketUpdate)
  BY <1>1, <1>2, HeadAndTail
<1>4. sink' \in Seq(MarketUpdate)
  BY <1>1, <1>2, <1>3, Appending
<1> HIDE DEF todo
<1>5. /\ handler' \in [session : Session \cup {0}, todo : Seq(MarketUpdate), throws : BOOLEAN]
      /\ handler'.session = handler.session
  BY <1>1, <1>2, <1>3
<1>6. SessionTypeOK'
  BY <1>1, <1>4, <1>5 DEF SessionInv, SessionTypeOK
<1>7. Reading'
  BY <1>1, <1>5 DEF SessionInv, Reading
<1>8. QED
  BY <1>6, <1>7 DEF SessionInv

LEMMA SessionNextInv == SessionInv /\ [SessionNext]_sessionVars => SessionInv'
<1> SUFFICES ASSUME SessionInv, [SessionNext]_sessionVars PROVE SessionInv'
  OBVIOUS
<1>1. ASSUME NEW s \in Session, Connect(s) PROVE SessionInv'
  <2>1. PICK next \in {"resolving", "ended"} : stage' = [stage EXCEPT ![s] = next]
    BY <1>1 DEF Connect
  <2>2. stage[s] = "new" /\ UNCHANGED <<io, handler, messages, sink, feed>>
    BY <1>1 DEF Connect
  <2>3. handler.session # s
    BY <2>2, SessionIsPlace DEF SessionInv, Reading
  <2>4. next \in Stage
    BY <2>1 DEF Stage
  <2>5. QED
    BY <2>1, <2>2, <2>3, <2>4, MoveInv
<1>2. ASSUME NEW s \in Session, OnResolve(s) PROVE SessionInv'
  BY <1>2, CompleteInv DEF OnResolve, Stage
<1>3. ASSUME NEW s \in Session, TimedCallback(s) PROVE SessionInv'
  BY <1>3, CompleteInv DEF TimedCallback, OnConnect, OnHandshakeSSL,
                           OnHandshake, Stage
<1>4. ASSUME NEW s \in Session, OnSubscribe(s) PROVE SessionInv'
  BY <1>4, CompleteInv DEF OnSubscribe, Stage
<1>5. ASSUME NEW s \in Session, OnReadError(s) PROVE SessionInv'
  <2>1. handler.session # s
    BY <1>5, SessionIsPlace DEF OnReadError, Callback, NoHandler
  <2>2. QED
    BY <1>5, <2>1, MoveInv DEF OnReadError, Stage
<1>6. ASSUME NEW s \in Session, OnReadNothing(s) PROVE SessionInv'
  <2>1. messages' \in 0..MaxMessages
    BY <1>6, MessagesAssumption DEF OnReadNothing, SessionInv, SessionTypeOK
  <2>2. QED
    BY <1>6, <2>1 DEF OnReadNothing, SessionInv, SessionTypeOK, Reading
<1>7. ASSUME NEW s \in Session, OnReadMessage(s) PROVE SessionInv'
  BY <1>7, OnReadMessageInv
<1>8. CASE Publish
  BY <1>8, PublishInv
<1>9. CASE EndMessage
  <2>1. << >> \in Seq(MarketUpdate)
    OBVIOUS
  <2>2. handler'.session = 0
    BY <1>9 DEF EndMessage, NoHandler
  <2>3. QED
    BY <1>9, <2>1, <2>2
       DEF EndMessage, NoHandler, SessionInv, SessionTypeOK, Reading
<1>10. CASE Run \/ Throw \/ Return
  BY <1>10 DEF Run, Throw, Return, SessionInv, SessionTypeOK, Reading
<1>11. CASE UNCHANGED sessionVars
  BY <1>11 DEF sessionVars, SessionInv, SessionTypeOK, Reading
<1>12. QED
  BY <1>1, <1>2, <1>3, <1>4, <1>5, <1>6, <1>7, <1>8, <1>9, <1>10, <1>11
     DEF SessionNext, ReadCallback, MainStep

(* The type invariant of the sessions. *)
THEOREM SessionsTypeCorrect == SessionSafeSpec => []SessionTypeOK
<1>1. SessionInv => SessionTypeOK
  BY DEF SessionInv
<1>2. QED
  BY <1>1, SessionInitInv, SessionNextInv, PTL DEF SessionSafeSpec

(* How a step of the sessions may change what is published and what is      *)
(* still to be published: a message comes in when nothing is left to       *)
(* publish, the oldest update of the message goes to the sink, or nothing   *)
(* changes.                                                                *)
LEMMA SessionMoves ==
    ASSUME SessionInv, [SessionNext]_sessionVars
    PROVE  \/ /\ handler.todo = << >>
              /\ handler'.todo \in Seq(MarketUpdate)
              /\ feed' = feed \o handler'.todo
              /\ sink' = sink
           \/ /\ handler.todo # << >>
              /\ sink' = Append(sink, Head(handler.todo))
              /\ handler'.todo = Tail(handler.todo)
              /\ feed' = feed
           \/ handler'.todo = handler.todo /\ sink' = sink /\ feed' = feed
<1>1. ASSUME NEW s \in Session, OnReadMessage(s)
      PROVE  /\ handler.todo = << >>
             /\ handler'.todo \in Seq(MarketUpdate)
             /\ feed' = feed \o handler'.todo
             /\ sink' = sink
  BY <1>1, BatchType DEF OnReadMessage, Callback, NoHandler
<1>2. CASE Publish
  BY <1>2 DEF Publish, SessionInv, SessionTypeOK
<1>3. CASE EndMessage
  BY <1>3 DEF EndMessage, NoHandler
<1>4. CASE UNCHANGED <<handler, sink, feed>>
  BY <1>4
<1>5. ASSUME NEW s, NEW at, NEW next, Complete(s, at, next)
      PROVE  UNCHANGED <<handler, sink, feed>>
  BY <1>5 DEF Complete
<1>6. ASSUME NEW s \in Session,
             \/ Connect(s) \/ OnResolve(s) \/ TimedCallback(s)
             \/ OnSubscribe(s) \/ OnReadError(s) \/ OnReadNothing(s)
      PROVE  UNCHANGED <<handler, sink, feed>>
  BY <1>5, <1>6 DEF Connect, OnResolve, TimedCallback,
                    OnConnect, OnHandshakeSSL, OnHandshake,
                    OnSubscribe, OnReadError, OnReadNothing
<1>7. CASE Run \/ Throw \/ Return \/ UNCHANGED sessionVars
  BY <1>7 DEF Run, Throw, Return, sessionVars
<1>8. QED
  BY <1>1, <1>2, <1>3, <1>4, <1>6, <1>7
     DEF SessionNext, ReadCallback, MainStep

(* Messages are published whole and one after the other: what the sink got  *)
(* and what the running callback still has to publish is the concatenation  *)
(* of the messages processed (ClientSession::onRead, processMessage).      *)
THEOREM SessionsKeepOrder == SessionSafeSpec => []MessagesInOrder
<1>1. SessionInit => MessagesInOrder
  BY DEF SessionInit, MessagesInOrder, NoHandler
<1>2. SessionInv /\ MessagesInOrder /\ [SessionNext]_sessionVars
        => MessagesInOrder'
  <2> SUFFICES ASSUME SessionInv, MessagesInOrder, [SessionNext]_sessionVars
               PROVE  MessagesInOrder'
    OBVIOUS
  <2> DEFINE todo == handler.todo
  <2>1. /\ todo \in Seq(MarketUpdate) /\ sink \in Seq(MarketUpdate) /\ feed \in Seq(MarketUpdate)
        /\ sink \o todo = feed
    BY DEF SessionInv, SessionTypeOK, MessagesInOrder
  <2> HIDE DEF todo
  <2>2. CASE /\ todo = << >> /\ feed' = feed \o handler'.todo /\ sink' = sink
    <3>1. sink = feed
      BY <2>1, <2>2
    <3>2. QED
      BY <2>2, <3>1 DEF MessagesInOrder
  <2>3. CASE /\ todo # << >> /\ sink' = Append(sink, Head(todo))
             /\ handler'.todo = Tail(todo) /\ feed' = feed
    BY <2>1, <2>3, HandOver DEF MessagesInOrder
  <2>4. CASE handler'.todo = todo /\ sink' = sink /\ feed' = feed
    BY <2>1, <2>4 DEF MessagesInOrder
  <2>5. QED
    BY <2>2, <2>3, <2>4, SessionMoves DEF todo
<1>3. QED
  BY <1>1, <1>2, SessionInitInv, SessionNextInv, PTL DEF SessionSafeSpec

(* A session that ended is never heard of again: no callback of it starts   *)
(* anything, and no message of it is published any more.                   *)
THEOREM SessionsEndForGood == SessionSafeSpec => EndedForGood
<1> DEFINE Gone == \A s \in Session : stage[s] = "ended" =>
                       /\ stage'[s] = "ended"
                       /\ handler'.session # s
<1>1. SessionInv /\ [SessionNext]_sessionVars => [Gone]_sessionVars
  <2> SUFFICES ASSUME SessionInv, SessionNext,
                      NEW r \in Session, stage[r] = "ended"
               PROVE  stage'[r] = "ended" /\ handler'.session # r
    BY Zenon
  <2>1. stage \in [Session -> Stage] /\ handler.session # r
    BY SessionIsPlace DEF SessionInv, Reading, SessionTypeOK
  <2>2. ASSUME NEW s \in Session, NEW at, NEW next, at # "ended",
               Complete(s, at, next)
        PROVE  stage'[r] = "ended" /\ handler' = handler
    BY <2>1, <2>2 DEF Complete, Callback
  <2>3. ASSUME NEW s \in Session,
               \/ OnResolve(s) \/ TimedCallback(s) \/ OnSubscribe(s)
        PROVE  stage'[r] = "ended" /\ handler' = handler
    BY <2>2, <2>3 DEF OnResolve, TimedCallback, OnConnect,
                      OnHandshakeSSL, OnHandshake, OnSubscribe
  <2>4. ASSUME NEW s \in Session,
               \/ Connect(s) \/ OnReadError(s) \/ OnReadNothing(s)
        PROVE  stage'[r] = "ended" /\ handler' = handler
    BY <2>1, <2>4 DEF Connect, OnReadError, OnReadNothing,
                      Callback
  <2>5. ASSUME NEW s \in Session, OnReadMessage(s)
        PROVE  stage'[r] = "ended" /\ handler'.session # r
    BY <2>1, <2>5 DEF OnReadMessage, Callback
  <2>6. CASE Publish
    BY <2>1, <2>6 DEF Publish, SessionInv, SessionTypeOK
  <2>7. CASE EndMessage
    BY <2>1, <2>7, SessionIsPlace DEF EndMessage, NoHandler
  <2>8. CASE Run \/ Throw \/ Return
    BY <2>1, <2>8 DEF Run, Throw, Return
  <2>9. QED
    BY <2>1, <2>3, <2>4, <2>5, <2>6, <2>7, <2>8
       DEF SessionNext, ReadCallback, MainStep
<1>2. QED
  BY <1>1, SessionInitInv, SessionNextInv, PTL DEF SessionSafeSpec, EndedForGood

(***************************************************************************)
(* The aggregator of the process and that of the theorems are the same     *)
(***************************************************************************)
LEMMA SameTotal == ASSUME NEW q PROVE Agg!total(q) = Book!total(q)
BY DEF Agg!total, Book!total

LEMMA SameUpdateSide ==
    ASSUME NEW map, NEW u PROVE Agg!updateSide(map, u) = Book!updateSide(map, u)
BY DEF Agg!updateSide, Book!updateSide, Agg!total, Book!total, Agg!set, Book!set, Agg!at, Book!at,
       Agg!NoQuantities, Book!NoQuantities, Agg!put, Book!put, Agg!erase, Book!erase,
       Agg!Exchange, Book!Exchange

LEMMA SameOnUpdate ==
    ASSUME NEW levels, NEW u PROVE Agg!onUpdate(levels, u) = Book!onUpdate(levels, u)
BY SameUpdateSide DEF Agg!onUpdate, Book!onUpdate

LEMMA SameQuotes ==
    ASSUME NEW side, NEW map PROVE Agg!quotes(side, map) = Book!quotes(side, map)
<1>1. \A prices : Agg!iterated(side, prices) = Book!iterated(side, prices)
  BY DEF Agg!iterated, Book!iterated, Agg!before, Book!before, Agg!Cardinality, Book!Cardinality
<1>2. QED
  BY <1>1, SameTotal DEF Agg!quotes, Book!quotes

LEMMA SameGenerateBook ==
    ASSUME NEW levels PROVE Agg!generateBook(levels) = Book!generateBook(levels)
BY SameQuotes DEF Agg!generateBook, Book!generateBook

(***************************************************************************)
(* The process: its threads and their types                                *)
(***************************************************************************)
ThreadInv ==
    /\ thread \in {"pop", "apply", "clock", "snapshot"}
    /\ IF thread = "pop" THEN update = NoUpdate ELSE update \in MarketUpdate
    /\ elapsed \in 0..PERIOD
    /\ missed \in Seq(0..PERIOD)

LEMMA ThreadInitInv == Init => SessionInv /\ ThreadInv
<1> SUFFICES ASSUME Init PROVE SessionInv /\ ThreadInv
  OBVIOUS
<1>1. SessionInv
  BY SessionInitInv DEF Init
<1>2. ThreadInv
  BY PeriodAssumption DEF Init, ThreadInv
<1>3. QED
  BY <1>1, <1>2

LEMMA ThreadNextInv ==
    SessionInv /\ ThreadInv /\ [Next]_vars => SessionInv' /\ ThreadInv'
<1> SUFFICES ASSUME SessionInv, ThreadInv, [Next]_vars PROVE SessionInv' /\ ThreadInv'
  OBVIOUS
<1>1. CASE SessionStep
  <2>1. SessionInv'
    BY <1>1, SessionNextInv DEF SessionStep
  <2>2. ThreadInv'
    BY <1>1 DEF SessionStep, ThreadInv, threadVars
  <2>3. QED
    BY <2>1, <2>2
<1>2. CASE Pop
  <2>1. sink \in Seq(MarketUpdate) /\ sink # << >>
    BY <1>2 DEF Pop, SessionInv, SessionTypeOK
  <2>2. Head(sink) \in MarketUpdate /\ Tail(sink) \in Seq(MarketUpdate)
    BY <2>1, HeadAndTail
  <2>3. SessionInv'
    BY <1>2, <2>2 DEF Pop, SessionInv, SessionTypeOK, Reading
  <2>4. ThreadInv'
    BY <1>2, <2>2 DEF Pop, ThreadInv
  <2>5. QED
    BY <2>3, <2>4
<1>3. ASSUME UNCHANGED sessionVars PROVE SessionInv'
  BY <1>3 DEF sessionVars, SessionInv, SessionTypeOK, Reading
<1>4. CASE Apply
  <2>1. Append(missed, elapsed) \in Seq(0..PERIOD)
    BY DEF ThreadInv
  <2>2. QED
    BY <1>3, <1>4, <2>1 DEF Apply, ThreadInv
<1>5. CASE ClockDue
  BY <1>3, <1>5, PeriodAssumption DEF ClockDue, ThreadInv
<1>6. CASE ClockNotDue
  BY <1>3, <1>6 DEF ClockNotDue, ThreadInv
<1>7. CASE Snapshot
  BY <1>3, <1>7 DEF Snapshot, ThreadInv
<1>8. CASE Tick
  BY <1>3, <1>8, PeriodAssumption DEF Tick, ThreadInv
<1>9. CASE UNCHANGED vars
  BY <1>3, <1>9 DEF vars, threadVars, ThreadInv
<1>10. QED
  BY <1>1, <1>2, <1>4, <1>5, <1>6, <1>7, <1>8, <1>9 DEF Next, ThreadStep

(* The process drives the aggregator as its specification says: the price   *)
(* levels change only by onUpdate, with an update of an exchange, and not   *)
(* while a book is generated.                                              *)
THEOREM ProcessRunsAggregator == SafeSpec => Book!Spec
<1>1. Init => Book!Init
  BY DEF Init, Agg!Init, Agg!NoLevels, Agg!EmptyMap, Agg!NoQuantities, Agg!Exchange, Agg!Side,
         Book!Init, Book!NoLevels, Book!EmptyMap, Book!NoQuantities, Book!Exchange, Book!Side
<1>2. SessionInv /\ ThreadInv /\ [Next]_vars => [Book!Next]_priceLevels
  <2> SUFFICES ASSUME SessionInv, ThreadInv, [Next]_vars, priceLevels' # priceLevels
               PROVE  Book!Next
    BY Zenon
  <2>1. thread = "apply" /\ priceLevels' = Agg!onUpdate(priceLevels, update)
    BY DEF Next, SessionStep, ThreadStep, Pop, Apply, ClockDue, ClockNotDue, Snapshot, Tick,
           vars, threadVars
  <2>2. update \in Book!MarketUpdate
    BY <2>1 DEF ThreadInv, Book!MarketUpdate, MarketUpdate, Book!Side, Side
  <2>3. priceLevels' = Book!onUpdate(priceLevels, update)
    BY <2>1, SameOnUpdate
  <2>4. QED
    BY <2>2, <2>3 DEF Book!Next, Book!OnUpdate
<1>3. QED
  BY <1>1, <1>2, ThreadInitInv, ThreadNextInv, PTL DEF SafeSpec, Book!Spec

(* What the theorems about the aggregator say of the process. *)
LEMMA ProcessBook ==
    SafeSpec => [](Book!TypeOK /\ Book!NoEmptyLevel /\ Book!Finite)
<1>1. Book!Spec => []Book!TypeOK
  BY Book!TypeCorrect, PriceAssumption, QuantityAssumption, ConnectedAssumption DEF Exchange, Book!Exchange
<1>2. Book!Spec => []Book!NoEmptyLevel
  BY Book!LevelsAreQuoted, PriceAssumption, QuantityAssumption, ConnectedAssumption DEF Exchange, Book!Exchange
<1>3. Book!Spec => []Book!Finite
  BY Book!LevelsAreFinite, PriceAssumption, QuantityAssumption, ConnectedAssumption DEF Exchange, Book!Exchange
<1>4. QED
  BY <1>1, <1>2, <1>3, ProcessRunsAggregator, PTL

(* At any time, the book that generateBook would make of the price levels   *)
(* is exact; in particular the one that a snapshot takes.                  *)
THEOREM ProcessBookIsExact == SafeSpec => []Book!BookIsExact
<1>1. Book!Spec => []Book!BookIsExact
  BY Book!BookIsRight, PriceAssumption, QuantityAssumption, ConnectedAssumption DEF Exchange, Book!Exchange
<1>2. QED
  BY <1>1, ProcessRunsAggregator, PTL

(***************************************************************************)
(* The replay of a sequence of updates                                     *)
(***************************************************************************)
(* The book after the n first updates of us, for each n. *)
Replays(g, us, m) ==
    g = [n \in 0..m |-> IF n = 0 THEN Agg!NoLevels ELSE Agg!onUpdate(g[n - 1], us[n])]

LEMMA ReplayDef ==
    ASSUME NEW us
    PROVE  Replay(us) = (CHOOSE g : Replays(g, us, Len(us)))[Len(us)]
BY DEF Replay, Replays

(* The recursion has a solution, by induction on the number of updates.    *)
LEMMA ReplayExists ==
    ASSUME NEW us, NEW m \in Nat
    PROVE  \E g : Replays(g, us, m)
<1> DEFINE Bad == {k \in Nat : ~ \E g : Replays(g, us, k)}
<1>1. SUFFICES ASSUME Bad # {} PROVE FALSE
  OBVIOUS
<1>2. PICK k \in Bad : \A l \in Bad : k <= l
  BY <1>1, Least
<1>3. k # 0
  <2> DEFINE g == [n \in 0..0 |-> Agg!NoLevels]
  <2>1. g = [n \in 0..0 |-> IF n = 0 THEN Agg!NoLevels ELSE Agg!onUpdate(g[n - 1], us[n])]
    OBVIOUS
  <2>2. Replays(g, us, 0)
    BY <2>1 DEF Replays
  <2>3. QED
    BY <2>2
<1>4. k - 1 \in Nat /\ k - 1 \notin Bad
  BY <1>2, <1>3
<1>5. PICK g : Replays(g, us, k - 1)
  BY <1>4
<1> DEFINE h == [n \in 0..k |-> IF n = k THEN Agg!onUpdate(g[k - 1], us[k]) ELSE g[n]]
<1>6. h = [n \in 0..k |-> IF n = 0 THEN Agg!NoLevels ELSE Agg!onUpdate(h[n - 1], us[n])]
  <2>1. ASSUME NEW n \in 0..k
        PROVE  h[n] = IF n = 0 THEN Agg!NoLevels ELSE Agg!onUpdate(h[n - 1], us[n])
    <3>1. CASE n = 0
      BY <1>3, <1>4, <1>5, <3>1 DEF Replays
    <3>2. CASE n # 0 /\ n # k
      <4>1. n \in 0..(k - 1) /\ n - 1 \in 0..(k - 1) /\ n - 1 # k /\ n - 1 \in 0..k
        BY <1>2, <3>2
      <4>2. h[n] = g[n] /\ h[n - 1] = g[n - 1]
        BY <3>2, <4>1
      <4>3. g[n] = Agg!onUpdate(g[n - 1], us[n])
        BY <1>5, <3>2, <4>1 DEF Replays
      <4>4. QED
        BY <3>2, <4>2, <4>3
    <3>3. CASE n = k
      <4>1. k - 1 \in 0..k /\ k - 1 # k
        BY <1>2, <1>4
      <4>2. h[k - 1] = g[k - 1]
        BY <4>1
      <4>3. QED
        BY <1>3, <3>3, <4>2
    <3>4. QED
      BY <3>1, <3>2, <3>3
  <2>2. QED
    BY <2>1
<1>7. Replays(h, us, k)
  BY <1>6 DEF Replays
<1>8. QED
  BY <1>2, <1>7

(* Two replays agree as long as their updates do. *)
LEMMA ReplaysAgree ==
    ASSUME NEW us, NEW vs, NEW m \in Nat, NEW n \in Nat, m <= n,
           NEW g, Replays(g, us, m), NEW h, Replays(h, vs, n),
           \A i \in 1..m : us[i] = vs[i]
    PROVE  \A i \in 0..m : g[i] = h[i]
<1> DEFINE Bad == {i \in 0..m : g[i] # h[i]}
<1>1. SUFFICES ASSUME Bad # {} PROVE FALSE
  OBVIOUS
<1>2. Bad \subseteq Nat
  OBVIOUS
<1>3. PICK k \in Bad : \A l \in Bad : k <= l
  BY <1>1, <1>2, Least
<1>4. k # 0
  BY DEF Replays
<1>5. k - 1 \in 0..m /\ k - 1 \notin Bad /\ k \in 1..m /\ k \in 0..n
  BY <1>3, <1>4
<1>6. g[k - 1] = h[k - 1] /\ us[k] = vs[k]
  BY <1>5
<1>7. g[k] = Agg!onUpdate(g[k - 1], us[k]) /\ h[k] = Agg!onUpdate(h[k - 1], vs[k])
  BY <1>4, <1>5 DEF Replays
<1>8. QED
  BY <1>6, <1>7

(* One more update is one more application of onUpdate. *)
LEMMA ReplayMore ==
    ASSUME NEW S, NEW us \in Seq(S), NEW u \in S
    PROVE  Replay(Append(us, u)) = Agg!onUpdate(Replay(us), u)
<1> DEFINE vs == Append(us, u)
           m == Len(us)
           g == CHOOSE x : Replays(x, us, m)
           h == CHOOSE x : Replays(x, vs, m + 1)
<1>1. m \in Nat /\ Len(vs) = m + 1 /\ vs[m + 1] = u /\ \A i \in 1..m : us[i] = vs[i]
  BY Appending
<1>2. Replays(g, us, m)
  BY <1>1, ReplayExists
<1>3. Replays(h, vs, m + 1)
  <2>1. \E x : Replays(x, vs, m + 1)
    BY <1>1, ReplayExists
  <2>2. QED
    BY <2>1
<1>4. Replay(us) = g[m]
  BY ReplayDef
<1>5. Replay(vs) = h[m + 1]
  BY <1>1, ReplayDef
<1> HIDE DEF g, h, vs, m
<1>6. g[m] = h[m]
  <2>1. \A i \in 0..m : g[i] = h[i]
    BY <1>1, <1>2, <1>3, ReplaysAgree
  <2>2. QED
    BY <1>1, <2>1
<1>7. h[m + 1] = Agg!onUpdate(h[m], vs[m + 1])
  BY <1>1, <1>3 DEF Replays
<1>8. QED
  BY <1>1, <1>4, <1>5, <1>6, <1>7 DEF vs

LEMMA ReplayNothing == Replay(<< >>) = Agg!NoLevels
<1> DEFINE g == CHOOSE x : Replays(x, << >>, 0)
<1>1. Replays(g, << >>, 0)
  BY ReplayExists
<1>2. Len(<< >>) = 0
  OBVIOUS
<1>3. Replay(<< >>) = g[0]
  BY <1>2, ReplayDef
<1> HIDE DEF g
<1>4. QED
  BY <1>1, <1>3 DEF Replays

(***************************************************************************)
(* From the sessions to the book                                           *)
(***************************************************************************)
LEMMA Associative ==
    ASSUME NEW S, NEW a \in Seq(S), NEW b \in Seq(S), NEW c \in Seq(S)
    PROVE  (a \o b) \o c = a \o (b \o c)
OBVIOUS

LEMMA EmptyEnds ==
    ASSUME NEW S, NEW a \in Seq(S)
    PROVE  a \o << >> = a /\ << >> \o a = a
OBVIOUS

LEMMA One ==
    ASSUME NEW S, NEW a \in Seq(S), NEW x \in S
    PROVE  <<x>> \in Seq(S) /\ a \o <<x>> = Append(a, x) /\ Append(<< >>, x) = <<x>>
OBVIOUS

(* The same facts for sequences of updates. *)
LEMMA UpdatesAssociative ==
    \A a, b, c \in Seq(MarketUpdate) : (a \o b) \o c = a \o (b \o c)
BY Associative

LEMMA UpdateSequences ==
    /\ \A a, b \in Seq(MarketUpdate) :
          /\ a \o b \in Seq(MarketUpdate) /\ Len(a \o b) = Len(a) + Len(b)
          /\ \A i \in 1..Len(a) : (a \o b)[i] = a[i]
          /\ \A i \in 1..Len(b) : (a \o b)[Len(a) + i] = b[i]
    /\ \A a, b \in Seq(MarketUpdate) :
          b # << >> => Append(a, Head(b)) \o Tail(b) = a \o b
<1>1. \A a, b \in Seq(MarketUpdate) :
         /\ a \o b \in Seq(MarketUpdate) /\ Len(a \o b) = Len(a) + Len(b)
         /\ \A i \in 1..Len(a) : (a \o b)[i] = a[i]
         /\ \A i \in 1..Len(b) : (a \o b)[Len(a) + i] = b[i]
  BY Concatenation
<1>2. ASSUME NEW a \in Seq(MarketUpdate), NEW b \in Seq(MarketUpdate), b # << >>
      PROVE  Append(a, Head(b)) \o Tail(b) = a \o b
  BY <1>2, HandOver
<1>3. QED
  BY <1>1, <1>2, Zenon

(* The update in the hand of the thread, which the book lacks. *)
hand == IF thread = "apply" THEN <<update>> ELSE << >>

(* The feed is what the book was made of, followed by the update in the     *)
(* hand of the thread, the queue and the rest of the message that is being  *)
(* processed.                                                              *)
Flow ==
    \E past \in Seq(MarketUpdate) :
        /\ feed = past \o (hand \o (sink \o handler.todo))
        /\ priceLevels = Replay(past)

LEMMA FlowTypes ==
    ASSUME SessionInv, ThreadInv
    PROVE  /\ hand \in Seq(MarketUpdate) /\ sink \in Seq(MarketUpdate)
           /\ handler.todo \in Seq(MarketUpdate) /\ feed \in Seq(MarketUpdate)
<1>1. << >> \in Seq(MarketUpdate)
  OBVIOUS
<1>2. thread = "apply" => <<update>> \in Seq(MarketUpdate)
  BY DEF ThreadInv
<1>3. QED
  BY <1>1, <1>2 DEF hand, SessionInv, SessionTypeOK

LEMMA FlowNext == SessionInv /\ ThreadInv /\ Flow /\ [Next]_vars => Flow'
<1> SUFFICES ASSUME SessionInv, ThreadInv, Flow, [Next]_vars PROVE Flow'
  OBVIOUS
<1> DEFINE todo == handler.todo
<1>1. PICK past \in Seq(MarketUpdate) :
         feed = past \o (hand \o (sink \o todo)) /\ priceLevels = Replay(past)
  BY DEF Flow
<1>2. /\ hand \in Seq(MarketUpdate) /\ sink \in Seq(MarketUpdate)
      /\ todo \in Seq(MarketUpdate) /\ feed \in Seq(MarketUpdate)
  BY FlowTypes
<1> HIDE DEF todo
<1>3. CASE SessionStep
  <2>1. hand' = hand /\ priceLevels' = priceLevels /\ SessionNext
    BY <1>3 DEF SessionStep, threadVars, hand
  <2>2. feed' = past \o (hand \o (sink' \o handler'.todo))
    <3>1. CASE /\ todo = << >> /\ handler'.todo \in Seq(MarketUpdate)
               /\ feed' = feed \o handler'.todo /\ sink' = sink
      <4> DEFINE batch == handler'.todo
                 rest == hand \o sink
      <4>1. batch \in Seq(MarketUpdate) /\ rest \in Seq(MarketUpdate)
        BY <1>2, <3>1, Concatenation
      <4>2. feed = past \o rest
        BY <1>1, <1>2, <3>1, EmptyEnds
      <4> HIDE DEF batch
      <4>3. rest \o batch = hand \o (sink \o batch) /\ feed' = feed \o batch
        <5>1. hand \in Seq(MarketUpdate) /\ sink \in Seq(MarketUpdate) /\ batch \in Seq(MarketUpdate)
          BY <1>2, <4>1
        <5>2. (hand \o sink) \o batch = hand \o (sink \o batch)
          BY <5>1, UpdatesAssociative
        <5>3. QED
          BY <3>1, <5>2 DEF batch
      <4> HIDE DEF rest
      <4>4. feed' = past \o (rest \o batch)
        BY <4>1, <4>2, <4>3, UpdatesAssociative, Zenon
      <4>5. QED
        BY <3>1, <4>3, <4>4 DEF batch
    <3>2. CASE /\ todo # << >> /\ sink' = Append(sink, Head(todo))
               /\ handler'.todo = Tail(todo) /\ feed' = feed
      <4>1. Append(sink, Head(todo)) \o Tail(todo) = sink \o todo
        BY <1>2, <3>2, UpdateSequences, Zenon
      <4>2. QED
        BY <1>1, <3>2, <4>1, Zenon
    <3>3. CASE handler'.todo = todo /\ sink' = sink /\ feed' = feed
      BY <1>1, <3>3
    <3>4. QED
      BY <2>1, <3>1, <3>2, <3>3, SessionMoves DEF todo
  <2>3. QED
    BY <1>1, <2>1, <2>2 DEF Flow
<1>4. CASE Pop
  <2>1. /\ sink # << >> /\ sink' = Tail(sink) /\ handler' = handler /\ feed' = feed
        /\ hand = << >> /\ hand' = <<Head(sink)>> /\ priceLevels' = priceLevels
    BY <1>4 DEF Pop, hand
  <2>2. Head(sink) \in MarketUpdate /\ Tail(sink) \in Seq(MarketUpdate)
    BY <1>2, <2>1, HeadAndTail
  <2>3. <<Head(sink)>> \o Tail(sink) = sink
    <3> DEFINE e == << >>
    <3>1. e \in Seq(MarketUpdate) /\ Append(e, Head(sink)) = <<Head(sink)>> /\ e \o sink = sink
      BY <1>2, <2>2, One, EmptyEnds
    <3>2. Append(e, Head(sink)) \o Tail(sink) = e \o sink
      BY <1>2, <2>1, <3>1, HandOver
    <3>3. QED
      BY <3>1, <3>2
  <2>4. <<Head(sink)>> \in Seq(MarketUpdate)
    BY <2>2, <1>2, One
  <2>5. <<Head(sink)>> \o (Tail(sink) \o todo) = sink \o todo
    <3> DEFINE x == <<Head(sink)>>  y == Tail(sink)
    <3>1. x \in Seq(MarketUpdate) /\ y \in Seq(MarketUpdate) /\ x \o y = sink
      BY <2>2, <2>3, <2>4
    <3>2. todo \in Seq(MarketUpdate)
      BY <1>2
    <3> HIDE DEF x, y
    <3>3. (x \o y) \o todo = x \o (y \o todo)
      BY <3>1, <3>2, UpdatesAssociative, Zenon
    <3>4. QED
      BY <3>1, <3>3 DEF x, y
  <2>6. hand \o (sink \o todo) = sink \o todo
    BY <1>2, <2>1, Concatenation, EmptyEnds
  <2>7. feed' = past \o (hand' \o (sink' \o handler'.todo))
    BY <1>1, <2>1, <2>5, <2>6 DEF todo
  <2>8. QED
    BY <1>1, <2>1, <2>7 DEF Flow
<1>5. CASE Apply
  <2>1. /\ thread = "apply" /\ hand = <<update>> /\ hand' = << >>
        /\ priceLevels' = Agg!onUpdate(priceLevels, update)
        /\ sink' = sink /\ handler' = handler /\ feed' = feed /\ update \in MarketUpdate
    BY <1>5 DEF Apply, hand, sessionVars, ThreadInv
  <2> DEFINE more == Append(past, update)
             rest == sink \o todo
  <2>2. more \in Seq(MarketUpdate) /\ rest \in Seq(MarketUpdate)
        /\ <<update>> \in Seq(MarketUpdate) /\ past \o <<update>> = more
    BY <1>2, <2>1, Appending, Concatenation, One
  <2>3. Replay(more) = priceLevels'
    BY <1>1, <2>1, ReplayMore
  <2>4. feed = past \o (<<update>> \o rest)
    BY <1>1, <2>1
  <2> HIDE DEF more, rest
  <2>5. feed = more \o rest
    <3> DEFINE one == <<update>>
    <3>1. one \in Seq(MarketUpdate) /\ past \o one = more /\ feed = past \o (one \o rest)
      BY <2>2, <2>4
    <3> HIDE DEF one
    <3>2. (past \o one) \o rest = past \o (one \o rest)
      BY <2>2, <3>1, UpdatesAssociative, Zenon
    <3>3. QED
      BY <3>1, <3>2, Zenon
  <2>6. << >> \o rest = rest
    BY <2>2, EmptyEnds
  <2>7. feed' = more \o (hand' \o (sink' \o handler'.todo))
    BY <2>1, <2>5, <2>6 DEF rest, todo
  <2>8. QED
    BY <2>2, <2>3, <2>7 DEF Flow
<1>6. CASE ClockDue \/ ClockNotDue \/ Snapshot \/ Tick \/ UNCHANGED vars
  <2>1. hand' = hand /\ UNCHANGED <<sink, handler, feed, priceLevels>>
    BY <1>6 DEF ClockDue, ClockNotDue, Snapshot, Tick, vars, sessionVars, threadVars, hand
  <2>2. QED
    BY <1>1, <2>1 DEF Flow, todo
<1>7. QED
  BY <1>3, <1>4, <1>5, <1>6 DEF Next, ThreadStep

LEMMA Prefix ==
    ASSUME NEW S, NEW a \in Seq(S), NEW b \in Seq(S)
    PROVE  SubSeq(a \o b, 1, Len(a)) = a
OBVIOUS

LEMMA FlowInit == Init => Flow
<1> SUFFICES ASSUME Init PROVE Flow
  OBVIOUS
<1>1. << >> \in Seq(MarketUpdate) /\ << >> \o (<< >> \o (<< >> \o << >>)) = << >>
  OBVIOUS
<1>2. /\ feed = << >> /\ sink = << >> /\ handler.todo = << >> /\ hand = << >>
      /\ priceLevels = Replay(<< >>)
  BY ReplayNothing DEF Init, SessionInit, NoHandler, hand, Agg!Init
<1>3. QED
  BY <1>1, <1>2 DEF Flow

(* What was applied is the beginning of the feed. *)
LEMMA FlowDone ==
    ASSUME SessionInv, ThreadInv, Flow
    PROVE  BookFollowsFeed /\ Done \in 0..Len(feed)
<1> DEFINE todo == handler.todo
           rest == hand \o (sink \o todo)
<1>1. PICK past \in Seq(MarketUpdate) : feed = past \o rest /\ priceLevels = Replay(past)
  BY DEF Flow
<1>2. /\ hand \in Seq(MarketUpdate) /\ sink \in Seq(MarketUpdate)
      /\ todo \in Seq(MarketUpdate)
  BY FlowTypes
<1>3. /\ sink \o todo \in Seq(MarketUpdate) /\ Len(sink \o todo) = Len(sink) + Len(todo)
  BY <1>2, Concatenation
<1>4. /\ rest \in Seq(MarketUpdate) /\ Len(rest) = Len(hand) + Len(sink \o todo)
      /\ \A i \in 1..Len(hand) : rest[i] = hand[i]
  BY <1>2, <1>3, Concatenation
<1>5. Len(rest) = Len(hand) + Len(sink) + Len(todo)
  <2>1. Len(hand) \in Nat /\ Len(sink) \in Nat /\ Len(todo) \in Nat
    BY <1>2
  <2> DEFINE both == sink \o todo
  <2>2. Len(both) = Len(sink) + Len(todo) /\ Len(rest) = Len(hand) + Len(both)
    BY <1>3, <1>4
  <2> HIDE DEF both, rest, todo
  <2>3. QED
    BY <2>1, <2>2
<1> HIDE DEF rest
<1>6. /\ Len(feed) = Len(past) + Len(rest)
      /\ \A i \in 1..Len(rest) : feed[Len(past) + i] = rest[i]
  BY <1>1, <1>4, UpdateSequences, Zenon
<1>7. Len(hand) = IF thread = "apply" THEN 1 ELSE 0
  BY DEF hand
<1>8. Done = Len(past)
  <2>1. /\ Len(past) \in Nat /\ Len(rest) \in Nat /\ Len(hand) \in Nat /\ Len(sink) \in Nat
        /\ Len(todo) \in Nat
    BY <1>2, <1>4
  <2> HIDE DEF todo
  <2>2. Len(feed) - Len(todo) - Len(sink) - Len(hand) = Len(past)
    BY <1>5, <1>6, <2>1
  <2>3. Done = Len(feed) - Len(todo) - Len(sink) - Len(hand)
    BY <1>7 DEF Done, todo
  <2>4. QED
    BY <2>2, <2>3
<1>9. SubSeq(feed, 1, Done) = past
  BY <1>1, <1>4, <1>8, Prefix
<1>10. ASSUME thread = "apply" PROVE feed[Done + 1] = update
  <2>1. hand[1] = update /\ Len(hand) = 1
    BY <1>10 DEF hand
  <2>2. 1 \in 1..Len(hand) /\ 1 \in 1..Len(rest)
    BY <1>2, <1>3, <1>4, <2>1
  <2>3. QED
    BY <1>4, <1>6, <1>8, <2>1, <2>2
<1>11. Done \in 0..Len(feed)
  <2>1. Len(past) \in Nat /\ Len(rest) \in Nat
    BY <1>4
  <2>2. QED
    BY <1>6, <1>8, <2>1
<1>12. QED
  BY <1>1, <1>9, <1>10, <1>11 DEF BookFollowsFeed

(* The book follows the feed: the price levels are always what the updates  *)
(* received make, applied in the order of their arrival, up to those that   *)
(* are still on their way from a session to the aggregation thread.        *)
THEOREM BookIsUpToDate == SafeSpec => []BookFollowsFeed
<1>1. SessionInv /\ ThreadInv /\ Flow => BookFollowsFeed
  BY FlowDone
<1>2. QED
  BY <1>1, FlowInit, FlowNext, ThreadInitInv, ThreadNextInv, PTL DEF SafeSpec

(***************************************************************************)
(* What a served book misses                                               *)
(***************************************************************************)
LEMMA PrefixOfMore ==
    ASSUME NEW S, NEW a \in Seq(S), NEW b \in Seq(S), NEW k \in 0..Len(a)
    PROVE  SubSeq(a \o b, 1, k) = SubSeq(a, 1, k)
OBVIOUS

(* Only Apply makes more of the feed part of the book, and what was part of *)
(* it remains.                                                             *)
LEMMA DoneMoves ==
    ASSUME SessionInv, ThreadInv, [Next]_vars
    PROVE  /\ Done' = IF Apply THEN Done + 1 ELSE Done
           /\ \A k \in 0..Len(feed) : SubSeq(feed', 1, k) = SubSeq(feed, 1, k)
<1> DEFINE todo == handler.todo
           one(t) == IF t = "apply" THEN 1 ELSE 0
<1>1. /\ sink \in Seq(MarketUpdate) /\ todo \in Seq(MarketUpdate) /\ feed \in Seq(MarketUpdate)
      /\ Len(sink) \in Nat /\ Len(todo) \in Nat /\ Len(feed) \in Nat
  BY FlowTypes
<1>2. /\ Done = Len(feed) - Len(todo) - Len(sink) - one(thread)
      /\ Done' = Len(feed') - Len(handler'.todo) - Len(sink') - one(thread')
  BY DEF Done
<1>3. CASE SessionStep
  <2>1. thread' = thread /\ SessionNext /\ ~Apply
    BY <1>3 DEF SessionStep, threadVars, Apply, ThreadInv
  <2>2. CASE /\ todo = << >> /\ handler'.todo \in Seq(MarketUpdate)
             /\ feed' = feed \o handler'.todo /\ sink' = sink
    <3> DEFINE batch == handler'.todo
    <3>1. batch \in Seq(MarketUpdate) /\ feed' = feed \o batch
      BY <2>2
    <3> HIDE DEF batch
    <3>2. Len(feed') = Len(feed) + Len(batch) /\ Len(batch) \in Nat
      BY <1>1, <3>1, Concatenation
    <3>3. \A k \in 0..Len(feed) : SubSeq(feed', 1, k) = SubSeq(feed, 1, k)
      BY <1>1, <3>1, PrefixOfMore
    <3>4. Len(todo) = 0
      BY <2>2
    <3> HIDE DEF todo
    <3>5. Done' = Done
      <4>1. one(thread) \in Nat
        OBVIOUS
      <4>2. Done = Len(feed) - Len(todo) - Len(sink) - one(thread)
        BY <1>2
      <4>3. Done' = Len(feed') - Len(batch) - Len(sink) - one(thread)
        BY <1>2, <2>1, <2>2 DEF batch
      <4> HIDE DEF one
      <4>4. QED
        BY <1>1, <3>2, <3>4, <4>1, <4>2, <4>3
    <3>6. QED
      BY <2>1, <3>3, <3>5
  <2>3. CASE /\ todo # << >> /\ sink' = Append(sink, Head(todo))
             /\ handler'.todo = Tail(todo) /\ feed' = feed
    <3>1. Len(Tail(todo)) = Len(todo) - 1 /\ Head(todo) \in MarketUpdate
      BY <1>1, <2>3, HeadAndTail
    <3>2. Len(sink') = Len(sink) + 1
      BY <1>1, <2>3, <3>1, Appending
    <3>3. one(thread) \in Nat /\ Len(handler'.todo) = Len(todo) - 1
      BY <2>3, <3>1
    <3>4. Done' = Len(feed) - Len(handler'.todo) - Len(sink') - one(thread)
      BY <1>2, <2>1, <2>3
    <3> HIDE DEF todo, one
    <3>5. Done' = Done
      BY <1>1, <1>2, <3>2, <3>3, <3>4
    <3>6. QED
      BY <2>1, <2>3, <3>5
  <2>4. CASE handler'.todo = todo /\ sink' = sink /\ feed' = feed
    BY <1>2, <2>1, <2>4
  <2>5. QED
    BY <2>1, <2>2, <2>3, <2>4, SessionMoves DEF todo
<1>4. CASE Pop
  <2>1. /\ thread = "pop" /\ thread' = "apply" /\ sink # << >> /\ sink' = Tail(sink)
        /\ handler' = handler /\ feed' = feed /\ ~Apply
    BY <1>4 DEF Pop, Apply
  <2>2. Len(sink') = Len(sink) - 1
    BY <1>1, <2>1, HeadAndTail
  <2>3. QED
    BY <1>1, <1>2, <2>1, <2>2
<1>5. CASE Apply
  <2>1. thread = "apply" /\ thread' = "clock" /\ UNCHANGED <<handler, feed, sink>>
    BY <1>5 DEF Apply, sessionVars
  <2>2. Len(handler'.todo) = Len(todo) /\ Len(feed') = Len(feed) /\ Len(sink') = Len(sink)
    BY <2>1
  <2>3. one(thread) = 1 /\ one(thread') = 0
    BY <2>1
  <2> HIDE DEF todo, one
  <2>4. Done' = Done + 1
    BY <1>1, <1>2, <2>2, <2>3
  <2>5. QED
    BY <1>5, <2>1, <2>4
<1>6. CASE ClockDue \/ ClockNotDue \/ Snapshot \/ Tick \/ UNCHANGED vars
  <2>1. UNCHANGED <<handler, feed, sink>> /\ one(thread') = one(thread) /\ ~Apply
    BY <1>6 DEF ClockDue, ClockNotDue, Snapshot, Tick, Apply, vars, threadVars, sessionVars
  <2>2. QED
    BY <1>2, <2>1
<1>7. QED
  BY <1>3, <1>4, <1>5, <1>6 DEF Next, ThreadStep

(* The served book is that of the feed without the missed updates.  Only    *)
(* the one just applied may find the snapshot due, which then follows.     *)
Lag ==
    /\ Len(missed) <= Done
    /\ served.book = Agg!generateBook(Replay(SubSeq(feed, 1, Done - Len(missed))))
    /\ \A i \in 1..Len(missed) :
          \/ missed[i] < PERIOD
          \/ i = Len(missed) /\ thread = "clock" /\ missed[i] <= elapsed
          \/ thread = "snapshot"

LEMMA LagInit == Init => Lag
<1> SUFFICES ASSUME Init PROVE Lag
  OBVIOUS
<1>1. /\ feed = << >> /\ Len(sink) = 0 /\ Len(handler.todo) = 0 /\ thread = "pop"
      /\ Len(missed) = 0 /\ Len(feed) = 0
  BY DEF Init, SessionInit, NoHandler
<1>2. Done = 0
  BY <1>1 DEF Done
<1>3. SubSeq(feed, 1, 0) = << >>
  BY <1>1
<1>4. ASSUME NEW s \in Side PROVE Agg!quotes(s, Agg!NoLevels[s]) = << >>
  <2>1. Agg!NoLevels[s] = Book!EmptyMap
    BY DEF Agg!NoLevels, Agg!EmptyMap, Agg!NoQuantities, Agg!Exchange, Agg!Side, Side,
           Book!EmptyMap, Book!NoQuantities, Book!Exchange
  <2>2. Book!quotes(s, Book!EmptyMap) = << >>
    BY Book!NothingQuoted, PriceAssumption, QuantityAssumption, ConnectedAssumption
       DEF Exchange, Book!Exchange
  <2>3. QED
    BY <2>1, <2>2, SameQuotes
<1>5. served.book = Agg!generateBook(Replay(<< >>))
  BY <1>4, ReplayNothing DEF Init, Agg!generateBook, Side
<1>6. Done - Len(missed) = 0 /\ Len(missed) <= Done /\ 1..Len(missed) = {}
  BY <1>1, <1>2
<1>7. served.book = Agg!generateBook(Replay(SubSeq(feed, 1, Done - Len(missed))))
  BY <1>3, <1>5, <1>6
<1>8. QED
  BY <1>6, <1>7 DEF Lag

LEMMA LagNext ==
    SessionInv /\ ThreadInv /\ Flow /\ Lag /\ [Next]_vars => Lag'
<1> SUFFICES ASSUME SessionInv, ThreadInv, Flow, Lag, [Next]_vars PROVE Lag'
  OBVIOUS
<1>1. missed \in Seq(0..PERIOD) /\ Len(missed) \in Nat /\ Done \in 0..Len(feed) /\ elapsed \in 0..PERIOD
      /\ Len(feed) \in Nat /\ PERIOD \in Nat
  BY FlowDone, FlowTypes, PeriodAssumption DEF ThreadInv
<1>2. \A k \in 0..Len(feed) : SubSeq(feed', 1, k) = SubSeq(feed, 1, k)
  BY DoneMoves
<1> DEFINE k == Done - Len(missed)
<1>3. k \in 0..Len(feed)
  BY <1>1 DEF Lag
<1>4. CASE Apply
  <2>1. /\ thread' = "clock" /\ missed' = Append(missed, elapsed) /\ elapsed' = elapsed
        /\ served' = served /\ thread = "apply" /\ Done' = Done + 1
    BY <1>4, DoneMoves DEF Apply
  <2>2. /\ Len(missed') = Len(missed) + 1 /\ missed'[Len(missed) + 1] = elapsed
        /\ \A i \in 1..Len(missed) : missed'[i] = missed[i]
    BY <1>1, <2>1, Appending
  <2>3. Done' - Len(missed') = k /\ Len(missed') <= Done'
    BY <1>1, <2>1, <2>2 DEF Lag
  <2>4. served'.book = Agg!generateBook(Replay(SubSeq(feed', 1, k)))
    BY <1>2, <1>3, <2>1 DEF Lag
  <2>5. ASSUME NEW i \in 1..Len(missed') PROVE missed'[i] < PERIOD \/ (i = Len(missed') /\ missed'[i] <= elapsed')
    <3>1. CASE i <= Len(missed)
      BY <1>1, <2>1, <2>2, <3>1 DEF Lag
    <3>2. CASE i = Len(missed')
      BY <1>1, <2>1, <2>2, <3>2
    <3>3. QED
      BY <1>1, <2>2, <3>1, <3>2
  <2>6. QED
    BY <2>1, <2>3, <2>4, <2>5 DEF Lag
<1>5. CASE Snapshot
  <2>1. /\ missed' = << >> /\ priceLevels' = priceLevels /\ Done' = Done /\ Len(missed') = 0
        /\ served'.book = Agg!generateBook(priceLevels)
    <3>1. ~Apply
      BY <1>5 DEF Snapshot, Apply
    <3>2. QED
      BY <1>5, <3>1, DoneMoves DEF Snapshot
  <2>2. priceLevels = Replay(SubSeq(feed, 1, Done))
    BY FlowDone DEF BookFollowsFeed
  <2>3. SubSeq(feed', 1, Done) = SubSeq(feed, 1, Done) /\ Done' - Len(missed') = Done
    BY <1>1, <1>2, <2>1
  <2>4. served'.book = Agg!generateBook(Replay(SubSeq(feed', 1, Done' - Len(missed'))))
    BY <2>1, <2>2, <2>3
  <2>5. QED
    BY <1>1, <2>1, <2>4 DEF Lag
<1>6. ASSUME UNCHANGED <<missed, served>>, ~Apply
      PROVE  /\ Len(missed') <= Done'
             /\ served'.book = Agg!generateBook(Replay(SubSeq(feed', 1, Done' - Len(missed'))))
  <2>1. Done' = Done
    BY <1>6, DoneMoves
  <2>2. Done' - Len(missed') = k /\ SubSeq(feed', 1, k) = SubSeq(feed, 1, k)
    BY <1>2, <1>3, <1>6, <2>1
  <2>3. QED
    BY <1>6, <2>1, <2>2 DEF Lag
<1>7. CASE ClockDue
  <2>1. UNCHANGED <<missed, served>> /\ ~Apply /\ thread' = "snapshot"
    BY <1>7 DEF ClockDue, Apply
  <2>2. QED
    BY <1>6, <2>1 DEF Lag
<1>8. CASE ClockNotDue
  <2>1. /\ UNCHANGED <<missed, served, elapsed>> /\ ~Apply /\ thread = "clock" /\ thread' = "pop"
        /\ elapsed < PERIOD
    BY <1>8 DEF ClockNotDue, Apply
  <2>2. \A i \in 1..Len(missed) : missed[i] < PERIOD
    BY <1>1, <2>1 DEF Lag
  <2>3. QED
    BY <1>6, <2>1, <2>2 DEF Lag
<1>9. CASE Pop
  <2>1. UNCHANGED <<missed, served>> /\ ~Apply /\ thread = "pop"
    BY <1>9 DEF Pop, Apply
  <2>2. QED
    BY <1>6, <2>1 DEF Lag
<1>10. CASE Tick
  <2>1. UNCHANGED <<missed, served, thread>> /\ ~Apply /\ elapsed' = elapsed + 1
    BY <1>10 DEF Tick, Apply, ThreadInv
  <2>2. \A i \in 1..Len(missed) : missed[i] <= elapsed => missed[i] <= elapsed'
    BY <1>1, <2>1
  <2>3. QED
    BY <1>6, <2>1, <2>2 DEF Lag
<1>11. CASE SessionStep \/ UNCHANGED vars
  <2>1. UNCHANGED <<missed, served, thread, elapsed, priceLevels>>
    BY <1>11 DEF SessionStep, vars, threadVars
  <2>2. ~Apply
    BY <2>1 DEF Apply
  <2>3. QED
    BY <1>6, <2>1, <2>2 DEF Lag
<1>12. QED
  BY <1>4, <1>5, <1>7, <1>8, <1>9, <1>10, <1>11 DEF Next, ThreadStep

(* What the subscribers miss: between two turns of the aggregation thread,  *)
(* the book that is served is the one that the feed makes without its last  *)
(* updates, each applied less than a second after the clock was read for    *)
(* the snapshot (aggregator.cpp, the loop of the aggregation thread).      *)
THEOREM SnapshotsAreTimely == SafeSpec => []StaleWindow
<1>1. ThreadInv /\ Lag => StaleWindow
  BY DEF ThreadInv, Lag, StaleWindow
<1>2. QED
  BY <1>1, LagInit, LagNext, FlowInit, FlowNext, ThreadInitInv, ThreadNextInv, PTL DEF SafeSpec

(***************************************************************************)
(* What the subscribers see                                                *)
(***************************************************************************)
(* The levels of each side, as the theorems about the aggregator need them. *)
LEMMA Levels ==
    ASSUME Book!TypeOK, Book!NoEmptyLevel, Book!Finite, NEW s \in Side
    PROVE  /\ Book!IsMap(priceLevels[s])
           /\ Book!IsFiniteSet(DOMAIN priceLevels[s])
           /\ \A p \in DOMAIN priceLevels[s] :
                 \E e \in Book!Exchange : priceLevels[s][p][e] > 0
BY DEF Book!TypeOK, Book!NoEmptyLevel, Book!Finite, Book!IsMap, Book!Side, Side

(* The type invariant of the process. *)
THEOREM TypeCorrect == SafeSpec => []TypeOK
<1> DEFINE BookInv == Book!TypeOK /\ Book!NoEmptyLevel /\ Book!Finite
           Quotes == Seq([price : Price, quantity : Nat])
           ServedInv == /\ served.symbol \in Ticker \cup {"none"}
                        /\ served.book \in [ask : Quotes, bid : Quotes]
<1>1. Init => ServedInv
  BY DEF Init
<1>2. ThreadInv /\ BookInv /\ ServedInv /\ [Next]_vars => ServedInv'
  <2> SUFFICES ASSUME ThreadInv, BookInv, ServedInv, [Next]_vars PROVE ServedInv'
    OBVIOUS
  <2>1. CASE Snapshot
    <3>1. update.ticker \in Ticker
      BY <2>1 DEF Snapshot, ThreadInv, MarketUpdate
    <3>2. ASSUME NEW s \in Side PROVE Agg!quotes(s, priceLevels[s]) \in Quotes
      <4>1. Book!quotes(s, priceLevels[s]) \in Quotes
        BY Levels, Book!QuotesType, PriceAssumption, QuantityAssumption, ConnectedAssumption
           DEF Exchange, Book!Exchange
      <4>2. QED
        BY <4>1, SameQuotes
    <3>3. Agg!generateBook(priceLevels) \in [ask : Quotes, bid : Quotes]
      BY <3>2 DEF Agg!generateBook, Side
    <3>4. QED
      BY <2>1, <3>1, <3>3 DEF Snapshot
  <2>2. CASE UNCHANGED served
    BY <2>2
  <2>3. QED
    BY <2>1, <2>2 DEF Next, SessionStep, ThreadStep, Pop, Apply, ClockDue, ClockNotDue, Tick,
                      vars, threadVars
<1>3. SessionInv /\ ThreadInv /\ BookInv /\ ServedInv => TypeOK
  <2>1. Book!TypeOK => Agg!TypeOK
    BY DEF Book!TypeOK, Agg!TypeOK, Book!Side, Agg!Side, Book!Exchange, Agg!Exchange
  <2>2. QED
    BY <2>1 DEF SessionInv, ThreadInv, TypeOK
<1> HIDE DEF BookInv, ServedInv
<1>4. SafeSpec => []BookInv
  BY ProcessBook DEF BookInv
<1>5. QED
  BY <1>1, <1>2, <1>3, <1>4, ThreadInitInv, ThreadNextInv, PTL DEF SafeSpec

(* The view of a book that lists exactly the prices with a positive depth   *)
(* shows the depth at every price.                                         *)
LEMMA ViewOfSide ==
    ASSUME NEW side, NEW depth \in [Price -> Nat], NEW p \in Price,
           {<<side[i].price, side[i].quantity>> : i \in DOMAIN side}
             = {<<x, depth[x]>> : x \in {y \in Price : depth[y] > 0}}
    PROVE  LET At == {i \in DOMAIN side : side[i].price = p}
           IN  (IF At = {} THEN 0 ELSE side[CHOOSE i \in At : TRUE].quantity) = depth[p]
<1> DEFINE At == {i \in DOMAIN side : side[i].price = p}
           D == {y \in Price : depth[y] > 0}
<1>1. ASSUME NEW i \in At PROVE side[i].quantity = depth[p]
  <2>1. <<side[i].price, side[i].quantity>> \in {<<x, depth[x]>> : x \in D}
    OBVIOUS
  <2>2. PICK x \in D : <<side[i].price, side[i].quantity>> = <<x, depth[x]>>
    BY <2>1
  <2>3. QED
    BY <2>2
<1>2. ASSUME depth[p] # 0 PROVE At # {}
  <2>1. p \in D
    BY <1>2
  <2>2. <<p, depth[p]>> \in {<<side[i].price, side[i].quantity>> : i \in DOMAIN side}
    BY <2>1
  <2>3. PICK i \in DOMAIN side : <<p, depth[p]>> = <<side[i].price, side[i].quantity>>
    BY <2>2
  <2>4. QED
    BY <2>3
<1> HIDE DEF At
<1>3. At # {} => (CHOOSE i \in At : TRUE) \in At
  OBVIOUS
<1>4. (IF At = {} THEN 0 ELSE side[CHOOSE i \in At : TRUE].quantity) = depth[p]
  BY <1>1, <1>2, <1>3
<1>5. QED
  BY <1>4 DEF At

LEMMA ViewOfBook ==
    ASSUME Book!TypeOK, Book!NoEmptyLevel, Book!Finite
    PROVE  View(Agg!generateBook(priceLevels)) = Feed!Depth
<1> DEFINE depth(s) == [p \in Price |-> Agg!total(Agg!at(priceLevels[s], p))]
           At(side, p) == {i \in DOMAIN side : side[i].price = p}
           Of(side) == [p \in Price |->
              IF At(side, p) = {} THEN 0 ELSE side[CHOOSE i \in At(side, p) : TRUE].quantity]
<1>1. ASSUME NEW s \in Side PROVE Of(Agg!quotes(s, priceLevels[s])) = depth(s)
  <2> DEFINE side == Agg!quotes(s, priceLevels[s])
             map == priceLevels[s]
  <2>1. \A p : Book!total(Book!at(map, p)) = Agg!total(Agg!at(map, p))
    BY SameTotal DEF Book!at, Agg!at, Book!NoQuantities, Agg!NoQuantities, Book!Exchange, Agg!Exchange
  <2>2. {<<side[i].price, side[i].quantity>> : i \in DOMAIN side}
          = {<<p, Book!total(Book!at(map, p))>> : p \in {x \in Price : Book!total(Book!at(map, x)) > 0}}
    <3> DEFINE bs == Book!quotes(s, map)
    <3>1. /\ Book!IsMap(map) /\ Book!IsFiniteSet(DOMAIN map)
          /\ \A p \in DOMAIN map : \E e \in Book!Exchange : map[p][e] > 0
      BY Levels
    <3>2. {<<bs[i].price, bs[i].quantity>> : i \in DOMAIN bs}
            = {<<p, Book!total(Book!at(map, p))>> : p \in {x \in Price : Book!total(Book!at(map, x)) > 0}}
      <4> HIDE DEF map
      <4>1. QED
        BY <3>1, Book!QuotesAreExact, PriceAssumption, QuantityAssumption, ConnectedAssumption
           DEF Exchange, Book!Exchange
    <3>3. side = bs
      BY SameQuotes
    <3>4. QED
      BY <3>2, <3>3
  <2>3. \A p \in Price : depth(s)[p] = Book!total(Book!at(map, p))
    BY <2>1
  <2>4. depth(s) \in [Price -> Nat]
    <3>1. ASSUME NEW p \in Price PROVE Book!total(Book!at(map, p)) \in Nat
      <4>1. Book!at(map, p) \in [Book!Exchange -> Nat]
        BY Levels, Book!AtType, PriceAssumption, QuantityAssumption, ConnectedAssumption
           DEF Exchange, Book!Exchange
      <4>2. QED
        BY <4>1, Book!TotalZero, PriceAssumption, QuantityAssumption, ConnectedAssumption
           DEF Exchange, Book!Exchange
    <3>2. QED
      BY <2>1, <3>1
  <2> DEFINE d == depth(s)
  <2>5. {<<side[i].price, side[i].quantity>> : i \in DOMAIN side}
          = {<<p, d[p]>> : p \in {x \in Price : d[x] > 0}}
    <3> DEFINE P == {x \in Price : Book!total(Book!at(map, x)) > 0}
    <3>1. P = {x \in Price : d[x] > 0}
      BY <2>3
    <3>2. {<<p, Book!total(Book!at(map, p))>> : p \in P} = {<<p, d[p]>> : p \in P}
      BY <2>3
    <3>3. QED
      BY <2>2, <3>1, <3>2
  <2>6. d \in [Price -> Nat]
    BY <2>4
  <2> HIDE DEF side, d
  <2>7. ASSUME NEW p \in Price
        PROVE  (IF At(side, p) = {} THEN 0 ELSE side[CHOOSE i \in At(side, p) : TRUE].quantity) = d[p]
    BY <2>5, <2>6, ViewOfSide
  <2>8. Of(side) = d
    BY <2>6, <2>7
  <2>9. QED
    BY <2>8 DEF side, d
<1>2. Feed!Depth = [s \in Side |-> depth(s)]
  BY DEF Feed!Depth, Feed!Side, Side, Agg!Quote, Agg!Side
<1>3. View(Agg!generateBook(priceLevels))
        = [s \in Side |-> IF s = "ASK" THEN Of(Agg!quotes("ASK", priceLevels["ASK"]))
                                       ELSE Of(Agg!quotes("BID", priceLevels["BID"]))]
  BY DEF View, Agg!generateBook
<1> HIDE DEF depth, Of
<1>4. QED
  BY <1>1, <1>2, <1>3 DEF Side

(* The process implements the consolidated feed: what the subscribers see   *)
(* is always the depth of all quotes at one instant, although updates are   *)
(* received, queued and applied between two snapshots.                     *)
THEOREM ProcessImplementsFeed == SafeSpec => ImplementsFeed
<1> DEFINE quote == Agg!Quote(priceLevels)
           view == View(served.book)
           BookInv == Book!TypeOK /\ Book!NoEmptyLevel /\ Book!Finite
<1>1. Init => Feed!FeedInit
  <2> SUFFICES ASSUME Init PROVE Feed!FeedInit
    OBVIOUS
  <2>1. quote = Feed!NoQuotes
    BY DEF Init, Agg!Init, Agg!NoLevels, Agg!EmptyMap, Agg!Quote, Agg!at, Agg!NoQuantities,
           Agg!Side, Agg!Exchange, Feed!NoQuotes, Feed!Side, Feed!Exchange
  <2>2. served.book.ask = << >> /\ served.book.bid = << >> /\ DOMAIN << >> = {}
    BY DEF Init
  <2>3. view = [s \in Feed!Side |-> [p \in Price |-> 0]]
    BY <2>2 DEF View, Feed!Side, Side
  <2>4. QED
    BY <2>1, <2>3 DEF Feed!FeedInit, Feed!TableInit
<1>2. BookInv /\ [Next]_vars /\ [Book!Table!TableNext]_(Book!Quote(priceLevels))
        => [Feed!Apply \/ Feed!Refresh]_<<quote, view>>
  <2> SUFFICES ASSUME BookInv, [Next]_vars, [Book!Table!TableNext]_(Book!Quote(priceLevels))
               PROVE  [Feed!Apply \/ Feed!Refresh]_<<quote, view>>
    OBVIOUS
  <2>1. Book!Quote(priceLevels) = quote /\ Book!Quote(priceLevels)' = quote'
    BY DEF Book!Quote, Agg!Quote, Book!at, Agg!at, Book!NoQuantities, Agg!NoQuantities,
           Book!Exchange, Agg!Exchange, Book!Side, Agg!Side
  <2>2. CASE Apply
    <3>1. view' = view
      BY <2>2 DEF Apply
    <3>2. CASE quote' = quote
      BY <3>1, <3>2
    <3>3. CASE Book!Table!TableNext
      <4>1. Feed!TableNext
        BY <2>1, <3>3 DEF Book!Table!TableNext, Feed!TableNext, Book!Table!Overwrite, Feed!Overwrite,
                   Book!Table!MarketUpdate, Feed!MarketUpdate, Book!Table!Side, Feed!Side
      <4>2. QED
        BY <3>1, <4>1 DEF Feed!Apply
    <3>4. QED
      BY <2>1, <3>2, <3>3
  <2>3. CASE Snapshot
    <3>1. priceLevels' = priceLevels /\ served'.book = Agg!generateBook(priceLevels)
      BY <2>3 DEF Snapshot
    <3>2. view' = View(Agg!generateBook(priceLevels))
      BY <3>1 DEF View
    <3>3. view' = Feed!Depth
      BY <3>2, ViewOfBook
    <3>4. quote' = quote
      BY <3>1 DEF Agg!Quote
    <3>5. QED
      BY <3>3, <3>4 DEF Feed!Refresh
  <2>4. CASE UNCHANGED <<priceLevels, served>>
    BY <2>4 DEF Agg!Quote, View
  <2>5. QED
    BY <2>2, <2>3, <2>4 DEF Next, SessionStep, ThreadStep, Pop, ClockDue, ClockNotDue, Tick,
                            vars, threadVars
<1>3. Book!Spec => Book!ImplementsTable
  BY Book!AggregatorImplementsTable, PriceAssumption, QuantityAssumption, ConnectedAssumption
     DEF Exchange, Book!Exchange
<1> HIDE DEF BookInv, quote, view
<1>4. SafeSpec => []BookInv
  BY ProcessBook DEF BookInv
<1>5. [Feed!Apply \/ Feed!Refresh]_<<quote, view>> <=>
      [Feed!Apply \/ Feed!Refresh]_<<Agg!Quote(priceLevels), View(served.book)>>
  BY DEF quote, view
<1>6. QED
  BY <1>1, <1>2, <1>3, <1>4, ProcessRunsAggregator, PTL
     DEF SafeSpec, Book!ImplementsTable, Book!Table!TableSpec, ImplementsFeed, Feed!FeedSpec,
         quote, view

=============================================================================
