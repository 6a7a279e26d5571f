-------------------------- MODULE InternalExchange --------------------------
(***************************************************************************)
(* ws/ServerSessionListening.hpp and ws/ServerSessionConnected.hpp: the    *)
(* internal exchange, a websocket server that sends the same burst of      *)
(* quotes once a second to every peer.  One io_context on one thread:      *)
(* every callback is one step, in the listener and in the sessions.        *)
(*                                                                         *)
(* pending holds the asynchronous operations a session has started and not *)
(* seen the end of: a session lives as long as it has one.                 *)
(*                                                                         *)
(* doClose, onClose and cancelPublishing have no caller and are left out.  *)
(***************************************************************************)
EXTENDS Naturals, Sequences, FiniteSets

CONSTANTS
    Peers,          \* the connections that are made
    Burst,          \* the number of messages that generateMessages adds
    MaxBursts,      \* bound: bursts sent to one peer
    MaxErrors,      \* bound: accepts that fail
    Garbled         \* what a peer may get instead of a message

ASSUME BurstAssumption == Burst \in Nat \ {0} /\ MaxBursts \in Nat /\ Garbled \notin Nat

ASSUME ErrorsAssumption == MaxErrors \in Nat

VARIABLES
    listener,       \* the acceptor: not made yet, listening, or not
    accepting,      \* whether an accept is pending
    errors,         \* the number of accepts that failed
    known,          \* the peers whose connection was accepted
    pending,        \* the operations pending in each session
    messages,       \* the queue of each session
    request,        \* what each peer asked for
    ended,          \* history: the peers that failed or were turned away
    sent,           \* history: the messages handed to the websocket
    bursts          \* history: how often generateMessages was called

listenerVars == <<listener, accepting, errors, known>>

vars == <<listenerVars, pending, messages, request, ended, sent, bursts>>

Operation == {"handshakeSSL", "read", "accept", "timer", "write"}

(* A request for a websocket below /marketdata/, for another path, or for   *)
(* no websocket at all.                                                    *)
Request == {"marketdata", "elsewhere", "plain"}

Init ==
    /\ listener = "new"
    /\ accepting = FALSE
    /\ errors = 0
    /\ known = {}
    /\ pending = [c \in Peers |-> {}]
    /\ messages = [c \in Peers |-> << >>]
    /\ request \in [Peers -> Request]
    /\ ended = {}
    /\ sent = [c \in Peers |-> << >>]
    /\ bursts = [c \in Peers |-> 0]

(***************************************************************************)
(* ServerSessionListening                                                  *)
(***************************************************************************)

(* The constructor opens, binds and listens, each of which may fail; then  *)
(* the error is logged and the rest left out.  run is called all the same. *)
Listen ==
    /\ listener = "new"
    /\ listener' \in {"listening", "failed"}
    /\ accepting' = TRUE
    /\ UNCHANGED <<errors, known, pending, messages, request, ended, sent, bursts>>

(* onAccept: the session is made and run, and the acceptor armed again. *)
OnAccept(c) ==
    /\ accepting
    /\ listener = "listening"
    /\ c \notin known
    /\ known' = known \cup {c}
    /\ pending' = [pending EXCEPT ![c] = {"handshakeSSL"}]
    /\ UNCHANGED <<listener, accepting, errors, messages, request, ended, sent, bursts>>

(* A plausible bug: onAccept returns on an error, as other callbacks do. *)
OnAcceptErrorReturn ==
    /\ accepting
    /\ errors < MaxErrors
    /\ errors' = errors + 1
    /\ accepting' = FALSE
    /\ UNCHANGED <<listener, known, pending, messages, request, ended, sent, bursts>>

(* onAccept with an error: the peer gave up, the process has too many       *)
(* files, or the acceptor does not listen, in which case every accept      *)
(* fails.  No session is made and the acceptor is armed again.             *)
OnAcceptError ==
    /\ accepting
    /\ errors < MaxErrors
    /\ errors' = errors + 1
    /\ UNCHANGED <<listener, accepting, known, pending, messages, request, ended, sent, bursts>>

(***************************************************************************)
(* ServerSessionConnected                                                  *)
(***************************************************************************)
(* A callback with an error, the expiry of a timeout included, logs and     *)
(* returns; the session has nothing pending any more and is destroyed.     *)
Fail(c, op) ==
    /\ op \in pending[c]
    /\ pending' = [pending EXCEPT ![c] = @ \ {op}]
    /\ ended' = ended \cup {c}
    /\ UNCHANGED <<listenerVars, messages, request, sent, bursts>>

(* Operation op ends and operation next is started. *)
Then(c, op, next) ==
    /\ op \in pending[c]
    /\ pending' = [pending EXCEPT ![c] = (@ \ {op}) \cup {next}]
    /\ UNCHANGED <<listenerVars, messages, request, ended, sent, bursts>>

OnHandshakeSSL(c) == Then(c, "handshakeSSL", "read")

(* Another path is answered with 404 and the session ends; a request that   *)
(* is no upgrade is dropped without an answer.                             *)
OnRead(c) ==
    \/ /\ request[c] = "marketdata"
       /\ Then(c, "read", "accept")
    \/ /\ request[c] # "marketdata"
       /\ Fail(c, "read")

(* A plausible bug: publishing starts at once, next to the timer. *)
OnHandshakeWSEager(c) ==
    /\ "accept" \in pending[c]
    /\ pending' = [pending EXCEPT ![c] = {"timer", "write"}]
    /\ UNCHANGED <<listenerVars, messages, request, ended, sent, bursts>>

OnHandshakeWS(c) == Then(c, "accept", "timer")

(* A plausible bug: the message stays in the queue until it was sent. *)
doPublishKeep(c, op, queue) ==
    IF queue = << >>
      THEN /\ pending' = [pending EXCEPT ![c] = (@ \ {op}) \cup {"timer"}]
           /\ messages' = [messages EXCEPT ![c] = queue]
           /\ UNCHANGED sent
      ELSE /\ pending' = [pending EXCEPT ![c] = (@ \ {op}) \cup {"write"}]
           /\ messages' = [messages EXCEPT ![c] = IF op = "timer" THEN queue ELSE Tail(queue)]
           /\ sent' = [sent EXCEPT ![c] = Append(@, Head(queue))]

(* A plausible bug: a queue that was drained is not filled again. *)
doPublishNoTimer(c, op, queue) ==
    IF queue = << >>
      THEN /\ pending' = [pending EXCEPT ![c] = @ \ {op}]
           /\ messages' = [messages EXCEPT ![c] = queue]
           /\ UNCHANGED sent
      ELSE /\ pending' = [pending EXCEPT ![c] = (@ \ {op}) \cup {"write"}]
           /\ messages' = [messages EXCEPT ![c] = Tail(queue)]
           /\ sent' = [sent EXCEPT ![c] = Append(@, Head(queue))]

(* doPublish, called by the callback of op: the timer is armed when the     *)
(* queue is empty, otherwise the first message is written.  The text that   *)
(* is passed to async_write is a temporary: what is sent may be garbage.   *)
doPublish(c, op, queue) ==
    IF queue = << >>
      THEN /\ pending' = [pending EXCEPT ![c] = (@ \ {op}) \cup {"timer"}]
           /\ messages' = [messages EXCEPT ![c] = queue]
           /\ UNCHANGED sent
      ELSE /\ pending' = [pending EXCEPT ![c] = (@ \ {op}) \cup {"write"}]
           /\ messages' = [messages EXCEPT ![c] = Tail(queue)]
           /\ \E m \in {Head(queue), Garbled} : sent' = [sent EXCEPT ![c] = Append(@, m)]

generateMessages == [i \in 1..Burst |-> i]

OnScheduleEvent(c) ==
    /\ "timer" \in pending[c]
    /\ bursts[c] < MaxBursts
    /\ bursts' = [bursts EXCEPT ![c] = @ + 1]
    /\ doPublish(c, "timer", messages[c] \o generateMessages)
    /\ UNCHANGED <<listenerVars, request, ended>>

OnPublish(c) ==
    /\ "write" \in pending[c]
    /\ doPublish(c, "write", messages[c])
    /\ UNCHANGED <<listenerVars, request, ended, bursts>>

(***************************************************************************)
(* The specification                                                       *)
(***************************************************************************)
(* A plausible bug: no timeout is set for the handshake of the transport. *)
TimedOperationLate == {"accept", "timer", "write"}

(* The operations that end by a timeout at the latest: 30 seconds for each  *)
(* handshake, the timer itself, the idle timeout of the websocket for a     *)
(* write.  The timeout of the socket is cancelled before the HTTP request   *)
(* is read, and that of the websocket is not running yet.                  *)
TimedOperation == {"handshakeSSL", "accept", "timer", "write"}

SessionStep(c) ==
    \/ OnHandshakeSSL(c) \/ OnRead(c) \/ OnHandshakeWS(c)
    \/ OnScheduleEvent(c) \/ OnPublish(c)
    \/ \E op \in Operation : Fail(c, op)

Next ==
    \/ Listen \/ OnAcceptError
    \/ \E c \in Peers : OnAccept(c) \/ SessionStep(c)

SafeSpec == Init /\ [][Next]_vars

(* main makes the listener, a connection that is made is accepted if the    *)
(* acceptor is armed, and the timed operations of a session end, well or    *)
(* with an error.  Nothing is assumed of a peer that sends no request.     *)
Fairness ==
    /\ WF_vars(Listen)
    /\ \A c \in Peers :
          /\ WF_vars(OnAccept(c))
          /\ WF_vars(pending[c] \cap TimedOperation # {} /\ SessionStep(c))

Spec == SafeSpec /\ Fairness

(***************************************************************************)
(* Properties                                                              *)
(***************************************************************************)
(* The type invariant of the server. *)
TypeOK ==
    /\ listener \in {"new", "listening", "failed"}
    /\ accepting \in BOOLEAN
    /\ errors \in 0..MaxErrors
    /\ known \subseteq Peers
    /\ pending \in [Peers -> SUBSET Operation]
    /\ messages \in [Peers -> Seq(1..Burst)]
    /\ request \in [Peers -> Request]
    /\ ended \subseteq Peers
    /\ sent \in [Peers -> Seq(1..Burst \cup {Garbled})]
    /\ bursts \in [Peers -> 0..MaxBursts]

(* A live session has exactly one operation pending and one that ended has  *)
(* none: two writes on one websocket, or a write and a timer that starts    *)
(* another, would be undefined, and without any the session would silently  *)
(* disappear.                                                              *)
OneOperation ==
    \A c \in Peers :
        Cardinality(pending[c]) = IF c \in known \ ended THEN 1 ELSE 0

(* The peer gets whole bursts in their order, nothing twice and nothing     *)
(* left out: the messages sent and those still queued are the bursts        *)
(* generated so far.  The queue never holds more than one burst, because    *)
(* the timer is armed again only when the last message was sent.           *)
BurstsInOrder ==
    \A c \in Peers :
        LET all == sent[c] \o messages[c]
        IN  /\ Len(messages[c]) < Burst
            /\ Len(all) = bursts[c] * Burst
            /\ \A i \in DOMAIN all : all[i] \in {((i - 1) % Burst) + 1, Garbled}

(* A burst that was begun is sent to its end, and another one follows,      *)
(* unless an operation of the session fails.                               *)
BurstsGoOn ==
    \A c \in Peers : \A n \in 0..(MaxBursts - 1) :
        ("timer" \in pending[c] /\ bursts[c] = n)
          ~> (c \in ended \/ ("timer" \in pending[c] /\ bursts[c] = n + 1))

(* Accepts that fail do not stop the server: as long as the acceptor        *)
(* listens, every connection that is made is accepted in the end, however   *)
(* many accepts failed before and whatever the other sessions do.          *)
PeersAreAccepted == \A c \in Peers : listener = "listening" ~> c \in known

(* A peer can hang its session only by not sending its request: every other *)
(* operation of the set-up is left behind, so that in the end a session is  *)
(* publishing, or gone, or waits for the request.                          *)
OnlyTheRequestHangs ==
    \A c \in Peers : <>[](pending[c] \cap {"handshakeSSL", "accept"} = {})

=============================================================================
