----------------------- MODULE MarketDataQueueProofs -----------------------
(***************************************************************************)
(* Theorems about MarketDataQueue, for all finite sets of producers and    *)
(* consumers, all sets of closers and updates, and all bounds.             *)
(***************************************************************************)
EXTENDS MarketDataQueue, FiniteSetTheorems, TLAPS

(***************************************************************************)
(* Types and mutual exclusion                                              *)
(***************************************************************************)
LEMMA InitType == Init => TypeOK
<1> SUFFICES ASSUME Init PROVE TypeOK
  OBVIOUS
<1>1. arg \in [Producers -> Update]
  <2> DEFINE any == CHOOSE u \in Update : TRUE
  <2>1. any \in Update
    BY UpdateAssumption
  <2> HIDE DEF any
  <2>2. arg = [p \in Producers |-> any]
    BY DEF Init, any
  <2>3. QED
    BY <2>1, <2>2
<1>2. /\ mutex = NoThread /\ queue = << >> /\ shutdown = FALSE
      /\ pc = [t \in Threads |-> "idle"]
      /\ pushes = 0 /\ spurious = 0 /\ sent = << >> /\ received = << >>
  BY DEF Init
<1>3. /\ pc \in [Threads -> ProducerPC \cup ConsumerPC \cup CloserPC]
      /\ \A p \in Producers : pc[p] \in ProducerPC
      /\ \A c \in Consumers : pc[c] \in ConsumerPC
      /\ \A k \in Closers : pc[k] \in CloserPC
  BY <1>2 DEF Threads, ProducerPC, ConsumerPC, CloserPC
<1>4. /\ pushes \in 0..MaxPushes /\ spurious \in 0..MaxSpurious
      /\ queue \in Seq(Update) /\ sent \in Seq(Update) /\ received \in Seq(Update)
  BY <1>2, BoundsAssumption
<1>5. shutdown \in BOOLEAN /\ mutex \in Threads \cup {NoThread}
  BY <1>2
<1>6. QED
  BY <1>1, <1>3, <1>4, <1>5 DEF TypeOK

LEMMA NextType == TypeOK /\ [Next]_vars => TypeOK'
<1> SUFFICES ASSUME TypeOK, [Next]_vars PROVE TypeOK'
  OBVIOUS
<1> USE ThreadsAssumption DEF Threads, ProducerPC, ConsumerPC, CloserPC
<1>1. ASSUME NEW p \in Producers, NEW u \in Update, PushCall(p, u) PROVE TypeOK'
  BY <1>1, BoundsAssumption DEF TypeOK, PushCall
<1>2. ASSUME NEW p \in Producers, PushLock(p) PROVE TypeOK'
  BY <1>2 DEF TypeOK, PushLock, Acquire
<1>3. ASSUME NEW p \in Producers, PushRefuse(p) PROVE TypeOK'
  BY <1>3 DEF TypeOK, PushRefuse
<1>4. ASSUME NEW p \in Producers, PushStore(p) PROVE TypeOK'
  BY <1>4 DEF TypeOK, PushStore
<1>5. ASSUME NEW p \in Producers, PushNotify(p) PROVE TypeOK'
  BY <1>5, SMTT(30) DEF TypeOK, PushNotify, Waiting
<1>6. ASSUME NEW c \in Consumers, PopCall(c) PROVE TypeOK'
  BY <1>6 DEF TypeOK, PopCall
<1>7. ASSUME NEW c \in Consumers, PopLock(c) PROVE TypeOK'
  BY <1>7 DEF TypeOK, PopLock, Acquire
<1>8. ASSUME NEW c \in Consumers, PopWait(c) PROVE TypeOK'
  BY <1>8 DEF TypeOK, PopWait
<1>9. ASSUME NEW c \in Consumers, PopTake(c) PROVE TypeOK'
  <2>1. Head(queue) \in Update /\ Tail(queue) \in Seq(Update)
    BY <1>9 DEF TypeOK, PopTake
  <2>2. QED
    BY <1>9, <2>1 DEF TypeOK, PopTake
<1>10. ASSUME NEW c \in Consumers, PopClosed(c) PROVE TypeOK'
  BY <1>10 DEF TypeOK, PopClosed
<1>11. ASSUME NEW c \in Consumers, SpuriousWake(c) PROVE TypeOK'
  BY <1>11, BoundsAssumption DEF TypeOK, SpuriousWake
<1>12. ASSUME NEW k \in Closers, ShutdownCall(k) PROVE TypeOK'
  BY <1>12 DEF TypeOK, ShutdownCall
<1>13. ASSUME NEW k \in Closers, ShutdownLock(k) PROVE TypeOK'
  BY <1>13 DEF TypeOK, ShutdownLock, Acquire
<1>14. ASSUME NEW k \in Closers, ShutdownSet(k) PROVE TypeOK'
  BY <1>14 DEF TypeOK, ShutdownSet
<1>15. ASSUME NEW k \in Closers, ShutdownNotifyAll(k) PROVE TypeOK'
  BY <1>15 DEF TypeOK, ShutdownNotifyAll, Waiting
<1>16. CASE UNCHANGED vars
  BY <1>16 DEF TypeOK, vars
<1>17. QED
  BY <1>1, <1>2, <1>3, <1>4, <1>5, <1>6, <1>7, <1>8, <1>9, <1>10, <1>11, <1>12,
     <1>13, <1>14, <1>15, <1>16 DEF Next, PushStep, PopStep, ShutdownStep

(* The type invariant of MarketDataQueue.hpp holds in every behaviour. *)
THEOREM TypeCorrect == SafeSpec => []TypeOK
BY InitType, NextType, PTL DEF SafeSpec

LEMMA InitExclusion == Init => MutualExclusion
BY ThreadsAssumption DEF Init, MutualExclusion, Critical, Threads

LEMMA NextExclusion == TypeOK /\ MutualExclusion /\ [Next]_vars => MutualExclusion'
<1> SUFFICES ASSUME TypeOK, MutualExclusion, [Next]_vars PROVE MutualExclusion'
  OBVIOUS
<1> USE ThreadsAssumption DEF TypeOK, MutualExclusion, Threads, Critical
<1>1. ASSUME NEW p \in Producers, NEW u \in Update, PushCall(p, u) PROVE MutualExclusion'
  BY <1>1 DEF PushCall
<1>2. ASSUME NEW p \in Producers, PushLock(p) PROVE MutualExclusion'
  BY <1>2 DEF PushLock, Acquire
<1>3. ASSUME NEW p \in Producers, PushRefuse(p) PROVE MutualExclusion'
  BY <1>3 DEF PushRefuse
<1>4. ASSUME NEW p \in Producers, PushStore(p) PROVE MutualExclusion'
  BY <1>4 DEF PushStore
<1>5. ASSUME NEW p \in Producers, PushNotify(p) PROVE MutualExclusion'
  BY <1>5 DEF PushNotify, Waiting
<1>6. ASSUME NEW c \in Consumers, PopCall(c) PROVE MutualExclusion'
  BY <1>6 DEF PopCall
<1>7. ASSUME NEW c \in Consumers, PopLock(c) PROVE MutualExclusion'
  BY <1>7 DEF PopLock, Acquire
<1>8. ASSUME NEW c \in Consumers, PopWait(c) PROVE MutualExclusion'
  BY <1>8 DEF PopWait
<1>9. ASSUME NEW c \in Consumers, PopTake(c) PROVE MutualExclusion'
  BY <1>9 DEF PopTake
<1>10. ASSUME NEW c \in Consumers, PopClosed(c) PROVE MutualExclusion'
  BY <1>10 DEF PopClosed
<1>11. ASSUME NEW c \in Consumers, SpuriousWake(c) PROVE MutualExclusion'
  BY <1>11 DEF SpuriousWake
<1>12. ASSUME NEW k \in Closers, ShutdownCall(k) PROVE MutualExclusion'
  BY <1>12 DEF ShutdownCall
<1>13. ASSUME NEW k \in Closers, ShutdownLock(k) PROVE MutualExclusion'
  BY <1>13 DEF ShutdownLock, Acquire
<1>14. ASSUME NEW k \in Closers, ShutdownSet(k) PROVE MutualExclusion'
  BY <1>14 DEF ShutdownSet
<1>15. ASSUME NEW k \in Closers, ShutdownNotifyAll(k) PROVE MutualExclusion'
  BY <1>15 DEF ShutdownNotifyAll, Waiting
<1>16. CASE UNCHANGED vars
  BY <1>16 DEF MutualExclusion, vars
<1>17. QED
  BY <1>1, <1>2, <1>3, <1>4, <1>5, <1>6, <1>7, <1>8, <1>9, <1>10, <1>11, <1>12,
     <1>13, <1>14, <1>15, <1>16 DEF Next, PushStep, PopStep, ShutdownStep

(* At most one thread is inside the critical sections of push, pop and      *)
(* shutdownQueue, and it owns the mutex.                                   *)
THEOREM Exclusion == SafeSpec => []MutualExclusion
BY InitExclusion, NextExclusion, TypeCorrect, PTL DEF SafeSpec

(***************************************************************************)
(* First in, first out                                                     *)
(***************************************************************************)
(* The only steps that touch the queue and its histories are the store of   *)
(* push and the take of pop.                                               *)
LEMMA QueueSteps ==
    ASSUME [Next]_vars
    PROVE  \/ \E p \in Producers : PushStore(p)
           \/ \E c \in Consumers : PopTake(c)
           \/ UNCHANGED <<queue, sent, received>>
BY DEF Next, vars, PushStep, PopStep, ShutdownStep, PushCall, PushLock, PushRefuse,
       PushNotify, PopCall, PopLock, PopWait, PopClosed, SpuriousWake, ShutdownCall,
       ShutdownLock, ShutdownSet, ShutdownNotifyAll, Acquire

LEMMA NextFIFO == TypeOK /\ FIFO /\ [Next]_vars => FIFO'
<1> SUFFICES ASSUME TypeOK, FIFO, [Next]_vars PROVE FIFO'
  OBVIOUS
<1>1. ASSUME NEW p \in Producers, PushStore(p) PROVE FIFO'
  <2> DEFINE u == arg[p]
  <2>1. u \in Update /\ received \in Seq(Update) /\ queue \in Seq(Update)
    BY DEF TypeOK
  <2> HIDE DEF u
  <2>2. Append(received \o queue, u) = received \o Append(queue, u)
    BY <2>1
  <2>3. QED
    BY <1>1, <2>2 DEF PushStore, FIFO, u
<1>2. ASSUME NEW c \in Consumers, PopTake(c) PROVE FIFO'
  BY <1>2, SMTT(30) DEF PopTake, FIFO, TypeOK
<1>3. CASE UNCHANGED <<queue, sent, received>>
  BY <1>3 DEF FIFO
<1>4. QED
  BY <1>1, <1>2, <1>3, QueueSteps

(* No update is lost, duplicated or reordered between push and pop. *)
THEOREM FirstInFirstOut == SafeSpec => []FIFO
<1>1. Init => FIFO
  BY DEF Init, FIFO
<1>2. QED
  BY <1>1, NextFIFO, TypeCorrect, PTL DEF SafeSpec

(***************************************************************************)
(* The end of the consumers                                                *)
(***************************************************************************)
Stopped == \E c \in Consumers : pc[c] = "stopped"

(* The flag is never cleared, only pop's return of false stops a consumer,  *)
(* and nothing enters the queue after shutdown.                            *)
LEMMA NextDrained ==
    TypeOK /\ FIFO /\ FIFO' /\ DrainedBeforeStop /\ [Next]_vars => DrainedBeforeStop'
<1> SUFFICES ASSUME TypeOK, FIFO', DrainedBeforeStop, [Next]_vars, Stopped'
             PROVE  (shutdown /\ queue = << >>)' /\ (sent = received)'
  BY DEF DrainedBeforeStop, Stopped
<1>1. (shutdown /\ queue = << >>)'
  <2>1. CASE Stopped
    <3>1. shutdown /\ queue = << >>
      BY <2>1 DEF DrainedBeforeStop, Stopped
    <3>2. \A p \in Producers : ~PushStore(p)
      BY <3>1 DEF PushStore
    <3>3. \A c \in Consumers : ~PopTake(c)
      BY <3>1 DEF PopTake
    <3>4. queue' = queue
      BY <3>2, <3>3, QueueSteps
    <3>5. shutdown'
      BY <3>1 DEF Next, vars, PushStep, PopStep, ShutdownStep, PushCall, PushLock,
         PushRefuse, PushStore, PushNotify, PopCall, PopLock, PopWait, PopTake, PopClosed,
         SpuriousWake, ShutdownCall, ShutdownLock, ShutdownSet, ShutdownNotifyAll, Acquire
    <3>6. QED
      BY <3>1, <3>4, <3>5
  <2>2. CASE ~Stopped
    <3> USE ThreadsAssumption DEF TypeOK, Threads
    <3>1. PICK c \in Consumers : pc'[c] = "stopped" /\ pc[c] # "stopped"
      BY <2>2 DEF Stopped
    <3>2. \E d \in Consumers : PopClosed(d)
      BY <3>1 DEF Next, vars, PushStep, PopStep, ShutdownStep, PushCall, PushLock,
         PushRefuse, PushStore, PushNotify, PopCall, PopLock, PopWait, PopTake,
         SpuriousWake, ShutdownCall, ShutdownLock, ShutdownSet, ShutdownNotifyAll, Acquire
    <3>3. QED
      BY <3>2 DEF PopClosed
  <2>3. QED
    BY <2>1, <2>2
<1>2. (sent = received)'
  <2>1. received' \in Seq(Update)
    BY NextType DEF TypeOK
  <2>2. received' \o << >> = received'
    BY <2>1
  <2>3. QED
    BY <1>1, <2>2 DEF FIFO
<1>3. QED
  BY <1>1, <1>2

(* A consumer leaves its loop only after shutdown, with the queue drained   *)
(* and everything that push accepted delivered; and so it stays.           *)
THEOREM NothingStranded == SafeSpec => []DrainedBeforeStop
<1>1. Init => DrainedBeforeStop
  BY DEF Init, DrainedBeforeStop, Threads
<1>2. QED
  BY <1>1, NextDrained, NextFIFO, FirstInFirstOut, TypeCorrect, PTL DEF SafeSpec

(***************************************************************************)
(* No lost wakeup                                                          *)
(*                                                                         *)
(* A step moves at most one consumer in or out of Awake and one producer   *)
(* in or out of Notifier; the lemmas say what that does to their sizes.     *)
(***************************************************************************)
Coming == Cardinality(Awake) + Cardinality(Notifier)

LEMMA Finite ==
    /\ IsFiniteSet(Awake) /\ Cardinality(Awake) \in Nat
    /\ IsFiniteSet(Notifier) /\ Cardinality(Notifier) \in Nat
    /\ IsFiniteSet(Awake') /\ Cardinality(Awake') \in Nat
    /\ IsFiniteSet(Notifier') /\ Cardinality(Notifier') \in Nat
<1>1. Awake \in SUBSET Consumers /\ Awake' \in SUBSET Consumers
  BY DEF Awake
<1>2. Notifier \in SUBSET Producers /\ Notifier' \in SUBSET Producers
  BY DEF Notifier
<1>3. QED
  BY <1>1, <1>2, FS_Subset, FS_CardinalityType, ThreadsAssumption

LEMMA ConsumerWakes ==
    ASSUME TypeOK, NEW c \in Consumers, pc[c] \notin {"lock", "test"},
           pc' = [pc EXCEPT ![c] = "lock"]
    PROVE  /\ Cardinality(Awake') = Cardinality(Awake) + 1
           /\ Notifier' = Notifier
           /\ Waiting' \subseteq Waiting
<1> USE ThreadsAssumption DEF TypeOK, Threads
<1>1. Awake' = Awake \cup {c} /\ c \notin Awake
  BY DEF Awake
<1>2. Notifier' = Notifier /\ Waiting' \subseteq Waiting
  BY DEF Notifier, Waiting
<1>3. QED
  BY <1>1, <1>2, FS_AddElement, Finite

(* The consumers' first half of NoLostWakeup. *)
Enough == Waiting # {} => Len(queue) <= Coming

LEMMA NextEnough == TypeOK /\ Enough /\ [Next]_vars => Enough'
<1> SUFFICES ASSUME TypeOK, Enough, [Next]_vars PROVE Enough'
  OBVIOUS
<1> USE ThreadsAssumption DEF Threads
<1>a. ASSUME Waiting' = Waiting, Awake' = Awake, Notifier' = Notifier, queue' = queue
      PROVE  Enough'
  BY <1>a DEF Enough, Coming
<1>b. Len(queue) \in Nat
  BY DEF TypeOK
<1>1. ASSUME NEW p \in Producers, NEW u \in Update, PushCall(p, u) PROVE Enough'
  BY <1>1, <1>a DEF TypeOK, PushCall, Waiting, Awake, Notifier
<1>2. ASSUME NEW p \in Producers, PushLock(p) PROVE Enough'
  BY <1>2, <1>a DEF TypeOK, PushLock, Acquire, Waiting, Awake, Notifier
<1>3. ASSUME NEW p \in Producers, PushRefuse(p) PROVE Enough'
  BY <1>3, <1>a DEF TypeOK, PushRefuse, Waiting, Awake, Notifier
<1>4. ASSUME NEW p \in Producers, PushStore(p) PROVE Enough'
  <2>1. Waiting' = Waiting /\ Awake' = Awake
    BY <1>4 DEF TypeOK, PushStore, Waiting, Awake
  <2>2. Notifier' = Notifier \cup {p} /\ p \notin Notifier
    BY <1>4 DEF TypeOK, PushStore, Notifier
  <2>3. Cardinality(Notifier') = Cardinality(Notifier) + 1
    BY <2>2, Finite, FS_AddElement
  <2>4. Len(queue') = Len(queue) + 1
    BY <1>4 DEF TypeOK, PushStore
  <2>5. QED
    BY <1>b, <2>1, <2>3, <2>4, Finite DEF Enough, Coming
<1>5. ASSUME NEW p \in Producers, PushNotify(p) PROVE Enough'
  <2>1. CASE Waiting = {}
    <3>1. Waiting' = {}
      BY <1>5, <2>1 DEF TypeOK, PushNotify, Waiting
    <3>2. QED
      BY <3>1 DEF Enough
  <2>2. CASE Waiting # {}
    <3>1. PICK c \in Waiting : pc' = [pc EXCEPT ![p] = "idle", ![c] = "lock"]
      BY <1>5, <2>2 DEF PushNotify
    <3>2. Awake' = Awake \cup {c} /\ c \notin Awake
      BY <3>1 DEF TypeOK, Waiting, Awake
    <3>3. Notifier' = Notifier \ {p} /\ p \in Notifier
      BY <1>5, <3>1 DEF TypeOK, PushNotify, Waiting, Notifier
    <3>4. /\ Cardinality(Awake') = Cardinality(Awake) + 1
          /\ Cardinality(Notifier') = Cardinality(Notifier) - 1
      BY <3>2, <3>3, Finite, FS_AddElement, FS_RemoveElement
    <3>5. queue' = queue
      BY <1>5 DEF PushNotify
    <3>6. QED
      BY <1>b, <2>2, <3>4, <3>5, Finite DEF Enough, Coming
  <2>3. QED
    BY <2>1, <2>2
<1>6. ASSUME NEW c \in Consumers, PopCall(c) PROVE Enough'
  <2>1. queue' = queue /\ pc[c] \notin {"lock", "test"} /\ pc' = [pc EXCEPT ![c] = "lock"]
    BY <1>6 DEF PopCall
  <2>2. /\ Cardinality(Awake') = Cardinality(Awake) + 1
        /\ Notifier' = Notifier
        /\ Waiting' \subseteq Waiting
    BY <2>1, ConsumerWakes
  <2>3. QED
    BY <1>b, <2>1, <2>2, Finite DEF Enough, Coming
<1>7. ASSUME NEW c \in Consumers, PopLock(c) PROVE Enough'
  BY <1>7, <1>a DEF TypeOK, PopLock, Acquire, Waiting, Awake, Notifier
<1>8. ASSUME NEW c \in Consumers, PopWait(c) PROVE Enough'
  <2>1. Len(queue') = 0
    BY <1>8 DEF PopWait
  <2>2. QED
    BY <2>1, Finite DEF Enough, Coming
<1>9. ASSUME NEW c \in Consumers, PopTake(c) PROVE Enough'
  <2>1. Awake' = Awake \ {c} /\ c \in Awake
    BY <1>9 DEF TypeOK, PopTake, Awake
  <2>2. Notifier' = Notifier /\ Waiting' = Waiting
    BY <1>9 DEF TypeOK, PopTake, Notifier, Waiting
  <2>3. Cardinality(Awake') = Cardinality(Awake) - 1
    BY <2>1, Finite, FS_RemoveElement
  <2>4. Len(queue') = Len(queue) - 1
    BY <1>9 DEF TypeOK, PopTake
  <2>5. QED
    BY <1>b, <2>2, <2>3, <2>4, Finite DEF Enough, Coming
<1>10. ASSUME NEW c \in Consumers, PopClosed(c) PROVE Enough'
  <2>1. Len(queue') = 0
    BY <1>10 DEF PopClosed
  <2>2. QED
    BY <2>1, Finite DEF Enough, Coming
<1>11. ASSUME NEW c \in Consumers, SpuriousWake(c) PROVE Enough'
  <2>1. queue' = queue /\ pc[c] \notin {"lock", "test"} /\ pc' = [pc EXCEPT ![c] = "lock"]
    BY <1>11 DEF SpuriousWake
  <2>2. /\ Cardinality(Awake') = Cardinality(Awake) + 1
        /\ Notifier' = Notifier
        /\ Waiting' \subseteq Waiting
    BY <2>1, ConsumerWakes
  <2>3. QED
    BY <1>b, <2>1, <2>2, Finite DEF Enough, Coming
<1>12. ASSUME NEW k \in Closers, ShutdownCall(k) PROVE Enough'
  BY <1>12, <1>a DEF TypeOK, ShutdownCall, Waiting, Awake, Notifier
<1>13. ASSUME NEW k \in Closers, ShutdownLock(k) PROVE Enough'
  BY <1>13, <1>a DEF TypeOK, ShutdownLock, Acquire, Waiting, Awake, Notifier
<1>14. ASSUME NEW k \in Closers, ShutdownSet(k) PROVE Enough'
  BY <1>14, <1>a DEF TypeOK, ShutdownSet, Waiting, Awake, Notifier
<1>15. ASSUME NEW k \in Closers, ShutdownNotifyAll(k) PROVE Enough'
  <2>1. Waiting' = {}
    BY <1>15 DEF TypeOK, ShutdownNotifyAll, Waiting
  <2>2. QED
    BY <2>1 DEF Enough
<1>16. CASE UNCHANGED vars
  BY <1>16, <1>a DEF vars, Waiting, Awake, Notifier
<1>17. QED
  BY <1>1, <1>2, <1>3, <1>4, <1>5, <1>6, <1>7, <1>8, <1>9, <1>10, <1>11, <1>12,
     <1>13, <1>14, <1>15, <1>16 DEF Next, PushStep, PopStep, ShutdownStep

(* The other half: a consumer that sleeps after shutdown will be notified. *)
Released == shutdown /\ Waiting # {} => \E k \in Closers : pc[k] = "notifyAll"

LEMMA NextReleased == TypeOK /\ Released /\ [Next]_vars => Released'
<1> SUFFICES ASSUME TypeOK, Released, [Next]_vars PROVE Released'
  OBVIOUS
<1> USE ThreadsAssumption DEF TypeOK, Threads, Released, Waiting
<1>1. ASSUME NEW p \in Producers, NEW u \in Update, PushCall(p, u) PROVE Released'
  BY <1>1 DEF PushCall
<1>2. ASSUME NEW p \in Producers, PushLock(p) PROVE Released'
  BY <1>2 DEF PushLock, Acquire
<1>3. ASSUME NEW p \in Producers, PushRefuse(p) PROVE Released'
  BY <1>3 DEF PushRefuse
<1>4. ASSUME NEW p \in Producers, PushStore(p) PROVE Released'
  BY <1>4 DEF PushStore
<1>5. ASSUME NEW p \in Producers, PushNotify(p) PROVE Released'
  BY <1>5 DEF PushNotify
<1>6. ASSUME NEW c \in Consumers, PopCall(c) PROVE Released'
  BY <1>6 DEF PopCall
<1>7. ASSUME NEW c \in Consumers, PopLock(c) PROVE Released'
  BY <1>7 DEF PopLock, Acquire
<1>8. ASSUME NEW c \in Consumers, PopWait(c) PROVE Released'
  BY <1>8 DEF PopWait
<1>9. ASSUME NEW c \in Consumers, PopTake(c) PROVE Released'
  BY <1>9 DEF PopTake
<1>10. ASSUME NEW c \in Consumers, PopClosed(c) PROVE Released'
  BY <1>10 DEF PopClosed
<1>11. ASSUME NEW c \in Consumers, SpuriousWake(c) PROVE Released'
  BY <1>11 DEF SpuriousWake
<1>12. ASSUME NEW k \in Closers, ShutdownCall(k) PROVE Released'
  BY <1>12 DEF ShutdownCall
<1>13. ASSUME NEW k \in Closers, ShutdownLock(k) PROVE Released'
  BY <1>13 DEF ShutdownLock, Acquire
<1>14. ASSUME NEW k \in Closers, ShutdownSet(k) PROVE Released'
  BY <1>14 DEF ShutdownSet
<1>15. ASSUME NEW k \in Closers, ShutdownNotifyAll(k) PROVE Released'
  BY <1>15 DEF ShutdownNotifyAll
<1>16. CASE UNCHANGED vars
  BY <1>16 DEF vars
<1>17. QED
  BY <1>1, <1>2, <1>3, <1>4, <1>5, <1>6, <1>7, <1>8, <1>9, <1>10, <1>11, <1>12,
     <1>13, <1>14, <1>15, <1>16 DEF Next, PushStep, PopStep, ShutdownStep

(* No notification is lost, whatever the interleaving of push, pop and      *)
(* shutdownQueue: a sleeping consumer is outnumbered by the threads that   *)
(* come for the queued updates.                                            *)
THEOREM WakeupsAreKept == SafeSpec => []NoLostWakeup
<1>1. Init => Enough /\ Released
  <2>1. Init => Waiting = {}
    BY DEF Init, Waiting, Threads
  <2>2. QED
    BY <2>1 DEF Enough, Released
<1>2. Enough /\ Released => NoLostWakeup
  BY DEF Enough, Released, NoLostWakeup, Coming
<1>3. QED
  BY <1>1, <1>2, NextEnough, NextReleased, TypeCorrect, PTL DEF SafeSpec

(***************************************************************************)
(* The queue implements the channel                                        *)
(***************************************************************************)
(* What TLAPS shows of ImplementsChannel: all of it but the delivery of     *)
(* what was accepted, which rests on fairness.                             *)
THEOREM QueueImplementsChannel == SafeSpec => Channel!ChanSafeSpec
<1>1. Init => Channel!ChanInit
  BY DEF Init, Channel!ChanInit
<1>2. TypeOK /\ FIFO /\ [Next]_vars => [Channel!ChanNext]_(Channel!chanVars)
  <2> SUFFICES ASSUME TypeOK, FIFO, [Next]_vars
               PROVE  Channel!ChanNext \/ UNCHANGED <<sent, received, ~shutdown>>
    BY DEF Channel!chanVars
  <2>1. ASSUME NEW p \in Producers, PushStore(p) PROVE Channel!ChanNext
    <3>1. arg[p] \in Update
      BY DEF TypeOK
    <3>2. Channel!Send(arg[p])
      BY <2>1 DEF PushStore, Channel!Send
    <3>3. QED
      BY <3>1, <3>2 DEF Channel!ChanNext
  <2>2. ASSUME NEW c \in Consumers, PopTake(c) PROVE Channel!ChanNext
    <3>1. Len(received) < Len(sent) /\ sent[Len(received) + 1] = Head(queue)
      BY <2>2 DEF PopTake, FIFO, TypeOK
    <3>2. Channel!Receive
      BY <2>2, <3>1 DEF PopTake, Channel!Receive
    <3>3. QED
      BY <3>2 DEF Channel!ChanNext
  <2>3. ASSUME NEW k \in Closers, ShutdownSet(k)
        PROVE  Channel!ChanNext \/ UNCHANGED <<sent, received, ~shutdown>>
    <3>1. CASE shutdown
      BY <2>3, <3>1 DEF ShutdownSet
    <3>2. CASE ~shutdown
      BY <2>3, <3>2 DEF ShutdownSet, Channel!Close, Channel!ChanNext
    <3>3. QED
      BY <3>1, <3>2
  <2>4. \/ \E p \in Producers : PushStore(p)
        \/ \E c \in Consumers : PopTake(c)
        \/ \E k \in Closers : ShutdownSet(k)
        \/ UNCHANGED <<sent, received, shutdown>>
    BY DEF Next, vars, PushStep, PopStep, ShutdownStep, PushCall, PushLock, PushRefuse,
           PushNotify, PopCall, PopLock, PopWait, PopClosed, SpuriousWake, ShutdownCall,
           ShutdownLock, ShutdownNotifyAll, Acquire
  <2>5. QED
    BY <2>1, <2>2, <2>3, <2>4
<1>3. QED
  BY <1>1, <1>2, TypeCorrect, FirstInFirstOut, PTL DEF SafeSpec, Channel!ChanSafeSpec

=============================================================================
