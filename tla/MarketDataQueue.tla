-------------------------- MODULE MarketDataQueue --------------------------
(***************************************************************************)
(* core/MarketDataQueue.hpp: the queue between the exchange sessions and   *)
(* the aggregation thread, built from a std::queue, a std::mutex, a        *)
(* std::condition_variable and a shutdown flag.                            *)
(*                                                                         *)
(* Threads: Producers call push, Consumers call pop in a loop as the       *)
(* aggregation thread does (aggregator.cpp), Closers call shutdownQueue    *)
(* once.  The mutex is a variable of its own, so a thread can be           *)
(* interrupted while it holds it; a thread in condition.wait is at pc      *)
(* "waiting" and leaves it by a notification or spuriously.                *)
(*                                                                         *)
(* sent and received are history variables: the updates in the order in    *)
(* which push accepted them and in which pop handed them out.              *)
(***************************************************************************)
EXTENDS Naturals, Sequences, FiniteSets

CONSTANTS
    Producers,      \* threads that call push
    Consumers,      \* threads that call pop
    Closers,        \* threads that call shutdownQueue
    Update,         \* the market updates
    NoThread,       \* the owner of a free mutex
    MaxPushes,      \* bound: calls of push
    MaxSpurious     \* bound: spurious wakeups

Threads == Producers \cup Consumers \cup Closers

ASSUME ThreadsAssumption ==
    /\ IsFiniteSet(Producers)
    /\ IsFiniteSet(Consumers)
    /\ Producers \cap Consumers = {}
    /\ Producers \cap Closers = {}
    /\ Consumers \cap Closers = {}
    /\ NoThread \notin Threads

ASSUME UpdateAssumption == Update # {}

ASSUME BoundsAssumption == MaxPushes \in Nat /\ MaxSpurious \in Nat

VARIABLES
    mutex,          \* the thread that holds the mutex, or NoThread
    queue,          \* the std::queue
    shutdown,       \* the shutdown flag
    pc,             \* where each thread is
    arg,            \* the argument of each producer's call of push
    pushes,         \* the number of calls of push so far
    spurious,       \* the number of spurious wakeups so far
    sent,           \* history: updates accepted by push
    received        \* history: updates returned by pop

vars == <<mutex, queue, shutdown, pc, arg, pushes, spurious, sent, received>>

ProducerPC == {"idle", "lock", "body", "notify"}
ConsumerPC == {"idle", "lock", "test", "waiting", "stopped"}
CloserPC   == {"idle", "lock", "set", "notifyAll", "done"}

(* The points at which a thread is inside a critical section. *)
Critical == {"body", "test", "set"}

Waiting == {c \in Consumers : pc[c] = "waiting"}

Init ==
    /\ mutex = NoThread
    /\ queue = << >>
    /\ shutdown = FALSE
    /\ pc = [t \in Threads |-> "idle"]
    /\ arg = [p \in Producers |-> CHOOSE u \in Update : TRUE]
    /\ pushes = 0
    /\ spurious = 0
    /\ sent = << >>
    /\ received = << >>

(***************************************************************************)
(* The mutex                                                               *)
(***************************************************************************)
Acquire(t, next) ==
    /\ pc[t] = "lock"
    /\ mutex = NoThread
    /\ mutex' = t
    /\ pc' = [pc EXCEPT ![t] = next]
    /\ UNCHANGED <<queue, shutdown, arg, pushes, spurious, sent, received>>

(***************************************************************************)
(* push                                                                    *)
(***************************************************************************)
PushCall(p, u) ==
    /\ pc[p] = "idle"
    /\ pushes < MaxPushes
    /\ pushes' = pushes + 1
    /\ arg' = [arg EXCEPT ![p] = u]
    /\ pc' = [pc EXCEPT ![p] = "lock"]
    /\ UNCHANGED <<mutex, queue, shutdown, spurious, sent, received>>

PushLock(p) == Acquire(p, "body")

(* A plausible bug: push waits after shutdown instead of returning false. *)
PushRefuseWaits(p) ==
    /\ pc[p] = "body"
    /\ shutdown
    /\ mutex' = NoThread
    /\ pc' = [pc EXCEPT ![p] = "waiting"]
    /\ UNCHANGED <<queue, shutdown, arg, pushes, spurious, sent, received>>

(* push returns false after shutdown: the update is dropped. *)
PushRefuse(p) ==
    /\ pc[p] = "body"
    /\ shutdown
    /\ mutex' = NoThread
    /\ pc' = [pc EXCEPT ![p] = "idle"]
    /\ UNCHANGED <<queue, shutdown, arg, pushes, spurious, sent, received>>

(* A plausible bug: notify only when the queue was empty. *)
PushStoreNotifyFirst(p) ==
    /\ pc[p] = "body"
    /\ ~shutdown
    /\ queue' = Append(queue, arg[p])
    /\ sent' = Append(sent, arg[p])
    /\ mutex' = NoThread
    /\ pc' = [pc EXCEPT ![p] = IF queue = << >> THEN "notify" ELSE "idle"]
    /\ UNCHANGED <<shutdown, arg, pushes, spurious, received>>

PushStore(p) ==
    /\ pc[p] = "body"
    /\ ~shutdown
    /\ queue' = Append(queue, arg[p])
    /\ sent' = Append(sent, arg[p])
    /\ mutex' = NoThread
    /\ pc' = [pc EXCEPT ![p] = "notify"]
    /\ UNCHANGED <<shutdown, arg, pushes, spurious, received>>

(* A plausible bug: the notification is forgotten. *)
PushNotifyNobody(p) ==
    /\ pc[p] = "notify"
    /\ pc' = [pc EXCEPT ![p] = "idle"]
    /\ UNCHANGED <<mutex, queue, shutdown, arg, pushes, spurious, sent, received>>

(* condition.notify_one(), after the scoped lock is released: it wakes one *)
(* of the waiting threads, and nobody when none is waiting.                *)
PushNotify(p) ==
    /\ pc[p] = "notify"
    /\ IF Waiting = {}
         THEN pc' = [pc EXCEPT ![p] = "idle"]
         ELSE \E c \in Waiting : pc' = [pc EXCEPT ![p] = "idle", ![c] = "lock"]
    /\ UNCHANGED <<mutex, queue, shutdown, arg, pushes, spurious, sent, received>>

(***************************************************************************)
(* pop                                                                     *)
(***************************************************************************)
PopCall(c) ==
    /\ pc[c] = "idle"
    /\ pc' = [pc EXCEPT ![c] = "lock"]
    /\ UNCHANGED <<mutex, queue, shutdown, arg, pushes, spurious, sent, received>>

(* The first acquisition, and the one that ends condition.wait. *)
PopLock(c) == Acquire(c, "test")

(* A plausible bug: the thread sleeps with the mutex held. *)
PopWaitHolding(c) ==
    /\ pc[c] = "test"
    /\ ~shutdown
    /\ queue = << >>
    /\ pc' = [pc EXCEPT ![c] = "waiting"]
    /\ UNCHANGED <<mutex, queue, shutdown, arg, pushes, spurious, sent, received>>

(* The predicate of condition.wait is false: release the mutex and wait. *)
PopWait(c) ==
    /\ pc[c] = "test"
    /\ ~shutdown
    /\ queue = << >>
    /\ mutex' = NoThread
    /\ pc' = [pc EXCEPT ![c] = "waiting"]
    /\ UNCHANGED <<queue, shutdown, arg, pushes, spurious, sent, received>>

(* A plausible bug: queue.pop() is forgotten. *)
PopTakeFront(c) ==
    /\ pc[c] = "test"
    /\ queue # << >>
    /\ Len(received) < MaxPushes
    /\ received' = Append(received, Head(queue))
    /\ mutex' = NoThread
    /\ pc' = [pc EXCEPT ![c] = "idle"]
    /\ UNCHANGED <<queue, shutdown, arg, pushes, spurious, sent>>

PopTake(c) ==
    /\ pc[c] = "test"
    /\ queue # << >>
    /\ received' = Append(received, Head(queue))
    /\ queue' = Tail(queue)
    /\ mutex' = NoThread
    /\ pc' = [pc EXCEPT ![c] = "idle"]
    /\ UNCHANGED <<shutdown, arg, pushes, spurious, sent>>

(* A plausible bug: pop returns false after shutdown whatever is queued. *)
PopClosedAtOnce(c) ==
    /\ pc[c] = "test"
    /\ shutdown
    /\ mutex' = NoThread
    /\ pc' = [pc EXCEPT ![c] = "stopped"]
    /\ UNCHANGED <<queue, shutdown, arg, pushes, spurious, sent, received>>

(* pop returns false: the caller leaves its loop. *)
PopClosed(c) ==
    /\ pc[c] = "test"
    /\ shutdown
    /\ queue = << >>
    /\ mutex' = NoThread
    /\ pc' = [pc EXCEPT ![c] = "stopped"]
    /\ UNCHANGED <<queue, shutdown, arg, pushes, spurious, sent, received>>

(* A condition variable may wake a thread that nobody notified. *)
SpuriousWake(c) ==
    /\ pc[c] = "waiting"
    /\ spurious < MaxSpurious
    /\ spurious' = spurious + 1
    /\ pc' = [pc EXCEPT ![c] = "lock"]
    /\ UNCHANGED <<mutex, queue, shutdown, arg, pushes, sent, received>>

(***************************************************************************)
(* shutdownQueue                                                           *)
(***************************************************************************)
ShutdownCall(k) ==
    /\ pc[k] = "idle"
    /\ pc' = [pc EXCEPT ![k] = "lock"]
    /\ UNCHANGED <<mutex, queue, shutdown, arg, pushes, spurious, sent, received>>

ShutdownLock(k) == Acquire(k, "set")

ShutdownSet(k) ==
    /\ pc[k] = "set"
    /\ shutdown' = TRUE
    /\ mutex' = NoThread
    /\ pc' = [pc EXCEPT ![k] = "notifyAll"]
    /\ UNCHANGED <<queue, arg, pushes, spurious, sent, received>>

(* A plausible bug: notify_one instead of notify_all. *)
ShutdownNotifyOne(k) ==
    /\ pc[k] = "notifyAll"
    /\ IF Waiting = {}
         THEN pc' = [pc EXCEPT ![k] = "done"]
         ELSE \E c \in Waiting : pc' = [pc EXCEPT ![k] = "done", ![c] = "lock"]
    /\ UNCHANGED <<mutex, queue, shutdown, arg, pushes, spurious, sent, received>>

ShutdownNotifyAll(k) ==
    /\ pc[k] = "notifyAll"
    /\ pc' = [t \in Threads |-> IF t = k THEN "done"
                                ELSE IF t \in Waiting THEN "lock" ELSE pc[t]]
    /\ UNCHANGED <<mutex, queue, shutdown, arg, pushes, spurious, sent, received>>

(***************************************************************************)
(* The specification                                                       *)
(***************************************************************************)
(* The steps by which a call that was made goes on. *)
PushStep(p) == PushLock(p) \/ PushRefuse(p) \/ PushStore(p) \/ PushNotify(p)

PopStep(c) == PopCall(c) \/ PopLock(c) \/ PopWait(c) \/ PopTake(c) \/ PopClosed(c)

ShutdownStep(k) == ShutdownLock(k) \/ ShutdownSet(k) \/ ShutdownNotifyAll(k)

Next ==
    \/ \E p \in Producers : (\E u \in Update : PushCall(p, u)) \/ PushStep(p)
    \/ \E c \in Consumers : PopStep(c) \/ SpuriousWake(c)
    \/ \E k \in Closers : ShutdownCall(k) \/ ShutdownStep(k)

SafeSpec == Init /\ [][Next]_vars

(* The operating system runs every thread that can run.  Nothing is said   *)
(* of when a thread calls push or shutdownQueue, nor of which of the        *)
(* contenders gets a mutex.                                                *)
Fairness ==
    /\ \A p \in Producers : WF_vars(PushStep(p))
    /\ \A c \in Consumers : WF_vars(PopStep(c))
    /\ \A k \in Closers : WF_vars(ShutdownStep(k))

Spec == SafeSpec /\ Fairness

(***************************************************************************)
(* Properties                                                              *)
(***************************************************************************)
(* The type invariant: each variable of MarketDataQueue.hpp holds a value   *)
(* of its type, and each thread is at a point of the method it runs.       *)
TypeOK ==
    /\ mutex \in Threads \cup {NoThread}
    /\ queue \in Seq(Update)
    /\ shutdown \in BOOLEAN
    /\ pc \in [Threads -> ProducerPC \cup ConsumerPC \cup CloserPC]
    /\ \A p \in Producers : pc[p] \in ProducerPC
    /\ \A c \in Consumers : pc[c] \in ConsumerPC
    /\ \A k \in Closers : pc[k] \in CloserPC
    /\ arg \in [Producers -> Update]
    /\ pushes \in 0..MaxPushes
    /\ spurious \in 0..MaxSpurious
    /\ sent \in Seq(Update)
    /\ received \in Seq(Update)

(* The mutex is owned by the thread that is inside a critical section of    *)
(* push, pop or shutdownQueue, and by no other: two threads never touch    *)
(* the std::queue at the same time.                                        *)
MutualExclusion == \A t \in Threads : pc[t] \in Critical <=> mutex = t

(* No update is lost, duplicated or reordered: what push accepted is what   *)
(* pop returned followed by what is still queued, at any time, whatever     *)
(* the interleaving, and also across shutdownQueue.                        *)
FIFO == sent = received \o queue

(* Threads that are on their way to look at the queue: a consumer that     *)
(* will acquire the mutex or holds it, a producer that will notify.        *)
Awake    == {c \in Consumers : pc[c] \in {"lock", "test"}}
Notifier == {p \in Producers : pc[p] = "notify"}

(* No wakeup is lost: while a consumer sleeps in pop there are at least as  *)
(* many threads coming to take an update, or about to wake one that will,   *)
(* as there are queued updates; and after shutdown nobody sleeps unless a   *)
(* notify_all is on its way.  notify_one after the lock is released, and    *)
(* notifications that find nobody waiting, must not break this.            *)
NoLostWakeup ==
    /\ Waiting # {} => Len(queue) <= Cardinality(Awake) + Cardinality(Notifier)
    /\ shutdown /\ Waiting # {} => \E k \in Closers : pc[k] = "notifyAll"

(* After shutdownQueue a consumer leaves its loop only when the queue was   *)
(* drained, and a push that comes later is refused: nothing is stranded.   *)
DrainedBeforeStop ==
    (\E c \in Consumers : pc[c] = "stopped") => shutdown /\ queue = << >> /\ sent = received

Channel == INSTANCE UpdateChannel WITH open <- ~shutdown

(* The queue implements the closable first-in first-out channel, delivery   *)
(* of every accepted update included: push, pop and shutdownQueue, however  *)
(* their steps interleave, are the three operations of the channel.        *)
ImplementsChannel == Channel!ChanSpec

(* shutdownQueue ends every consumer: the thread that is blocked in pop is  *)
(* woken, drains the queue, gets false and leaves its loop.                *)
ShutdownStops == \A c \in Consumers : shutdown ~> pc[c] = "stopped"

=============================================================================
