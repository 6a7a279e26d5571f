--------------------------- MODULE ClientSession ---------------------------
(***************************************************************************)
(* ws/ClientSession.hpp with ws/WebsocketClient.hpp: one websocket session *)
(* per exchange of the command line, where an exchange may be given twice, *)
(* all of them driven by the callbacks of one io_context that the main     *)
(* thread runs.  A callback runs to its end before the next one starts,    *)
(* but other threads see it half done: a message is published update by    *)
(* update.                                                                 *)
(*                                                                         *)
(* What an exchange sends is abstracted to what the session makes of it:   *)
(* nothing (the text is no JSON, or checkMessage refuses it), or a         *)
(* sequence of updates that processMessage publishes, after which it       *)
(* returns or throws (a price that is no number, a missing member).        *)
(*                                                                         *)
(* feed is a history variable: the updates of all messages that reached    *)
(* processMessage, in order.                                               *)
(***************************************************************************)
EXTENDS MarketData, Sequences

CONSTANTS
    exchanges,      \* the exchanges of the command line, in their order
    Subscribing,    \* the exchanges whose configuration has a subscription
    MaxMessages,    \* bound: messages received from all exchanges
    MaxEntries,     \* bound: updates in one message
    MaxUpdates      \* bound: updates in all messages

ASSUME ExchangesAssumption == exchanges \in Seq(Connected)

ASSUME SubscribingAssumption == Subscribing \subseteq Connected

ASSUME MessagesAssumption == {MaxMessages, MaxEntries, MaxUpdates} \subseteq Nat

VARIABLES
    stage,          \* what each session waits for
    io,             \* the main thread, in or around io_context::run
    handler,        \* the message that is being processed
    messages,       \* the number of messages received so far
    sink,           \* the updates written to the MarketDataSink
    feed            \* history: the updates of the messages processed

sessionVars == <<stage, io, handler, messages, sink, feed>>

Stage == {"new", "resolving", "connecting", "handshakingSSL", "handshaking",
          "subscribing", "reading", "ended"}

(* A session is known by its place on the command line. *)
Session == DOMAIN exchanges

NoHandler == [session |-> 0, todo |-> << >>, throws |-> FALSE]

SessionInit ==
    /\ stage = [s \in Session |-> "new"]
    /\ io = "starting"
    /\ handler = NoHandler
    /\ messages = 0
    /\ sink = << >>
    /\ feed = << >>

(***************************************************************************)
(* Before the io_context runs                                              *)
(***************************************************************************)
(* WebsocketClient::connect, for one exchange after the other: the session   *)
(* is made and run; it ends at once when the name of the host cannot be     *)
(* set.                                                                    *)
Connect(s) ==
    /\ io = "starting"
    /\ stage[s] = "new"
    /\ \A r \in 1..(s - 1) : stage[r] # "new"
    /\ \E next \in {"resolving", "ended"} : stage' = [stage EXCEPT ![s] = next]
    /\ UNCHANGED <<io, handler, messages, sink, feed>>

(* WebsocketClient::run, after the last connect. *)
Run ==
    /\ io = "starting"
    /\ \A s \in Session : stage[s] # "new"
    /\ io' = "running"
    /\ UNCHANGED <<stage, handler, messages, sink, feed>>

(***************************************************************************)
(* The callbacks                                                           *)
(***************************************************************************)
(* A plausible bug: a second thread runs the io_context. *)
CallbackAnytime(s, at) ==
    /\ io = "running"
    /\ stage[s] = at

(* The io_context starts a callback of a session that waits at stage at. *)
Callback(s, at) ==
    /\ io = "running"
    /\ handler = NoHandler
    /\ stage[s] = at

(* A callback with an error code, the expiry of a timeout included, logs    *)
(* and returns: nothing is pending for the session any more and it is       *)
(* destroyed.  Without an error the next operation is started.             *)
Complete(s, at, next) ==
    /\ Callback(s, at)
    /\ \E outcome \in {next, "ended"} : stage' = [stage EXCEPT ![s] = outcome]
    /\ UNCHANGED <<io, handler, messages, sink, feed>>

(* A plausible bug: a session that ended is started again. *)
OnResolveAgain(s) ==
    Complete(s, "resolving", "connecting") \/ Complete(s, "ended", "resolving")

OnResolve(s) == Complete(s, "resolving", "connecting")

OnConnect(s) == Complete(s, "connecting", "handshakingSSL")

(* A plausible bug: a failed handshake connects again, without a limit. *)
OnHandshakeSSLRetry(s) ==
    Complete(s, "handshakingSSL", "handshaking") \/ Complete(s, "handshakingSSL", "connecting")

OnHandshakeSSL(s) == Complete(s, "handshakingSSL", "handshaking")

OnHandshake(s) ==
    Complete(s, "handshaking", IF exchanges[s] \in Subscribing THEN "subscribing" ELSE "reading")

(* The buffer that doSubscribe passes does not outlive the call, so the     *)
(* exchange may get garbage; the session goes on to read all the same.     *)
OnSubscribe(s) == Complete(s, "subscribing", "reading")

OnReadError(s) ==
    /\ Callback(s, "reading")
    /\ stage' = [stage EXCEPT ![s] = "ended"]
    /\ UNCHANGED <<io, handler, messages, sink, feed>>

(* parse_error is caught, checkMessage returned false, or there was nothing *)
(* to publish: the buffer is cleared and the next read is started.         *)
OnReadNothing(s) ==
    /\ Callback(s, "reading")
    /\ messages < MaxMessages
    /\ messages' = messages + 1
    /\ UNCHANGED <<stage, io, handler, sink, feed>>

Batch(s) ==
    UNION {[1..n -> {u \in MarketUpdate : u.exchange = exchanges[s]}] : n \in 0..MaxEntries}

(* processMessage starts: it will publish the batch, then return or throw. *)
OnReadMessage(s) ==
    /\ Callback(s, "reading")
    /\ messages < MaxMessages
    /\ messages' = messages + 1
    /\ \E batch \in Batch(s), throws \in BOOLEAN :
          /\ batch # << >> \/ throws
          /\ Len(feed) + Len(batch) <= MaxUpdates
          /\ handler' = [session |-> s, todo |-> batch, throws |-> throws]
          /\ feed' = feed \o batch
    /\ UNCHANGED <<stage, io, sink>>

Publish ==
    /\ io = "running"
    /\ handler.todo # << >>
    /\ sink' = Append(sink, Head(handler.todo))
    /\ handler' = [handler EXCEPT !.todo = Tail(@)]
    /\ UNCHANGED <<stage, io, messages, feed>>

(* onRead clears the buffer and starts the next read. *)
EndMessage ==
    /\ io = "running"
    /\ handler # NoHandler
    /\ handler.todo = << >>
    /\ ~handler.throws
    /\ handler' = NoHandler
    /\ UNCHANGED <<stage, io, messages, sink, feed>>

(* onMessage catches json::parse_error only: any other exception leaves     *)
(* io_context::run and main, and ends the process with all its sessions.   *)
Throw ==
    /\ io = "running"
    /\ handler.throws
    /\ handler.todo = << >>
    /\ io' = "aborted"
    /\ UNCHANGED <<stage, handler, messages, sink, feed>>

(* io_context::run returns when no session has an operation pending. *)
Return ==
    /\ io = "running"
    /\ handler = NoHandler
    /\ \A s \in Session : stage[s] = "ended"
    /\ io' = "returned"
    /\ UNCHANGED <<stage, handler, messages, sink, feed>>

(***************************************************************************)
(* The specification                                                       *)
(***************************************************************************)
(* The operations that a timeout ends if the exchange does not. *)
TimedCallback(s) == OnConnect(s) \/ OnHandshakeSSL(s) \/ OnHandshake(s)

ReadCallback(s) == OnReadError(s) \/ OnReadNothing(s) \/ OnReadMessage(s)

MainStep == Run \/ Publish \/ EndMessage \/ Throw \/ Return

SessionNext ==
    \/ \E s \in Session :
          \/ Connect(s) \/ OnResolve(s) \/ TimedCallback(s)
          \/ OnSubscribe(s) \/ ReadCallback(s)
    \/ MainStep

SessionSafeSpec == SessionInit /\ [][SessionNext]_sessionVars

(* The main thread runs while it can.  A name is resolved or not in the     *)
(* end, and the connection and both handshakes end, if only by the timeout  *)
(* of 30 seconds; a subscription or a message may stay out for ever, as no  *)
(* timeout is set for them.                                                *)
SessionFairness ==
    /\ WF_sessionVars(MainStep)
    /\ \A s \in Session :
          /\ WF_sessionVars(Connect(s))
          /\ WF_sessionVars(OnResolve(s))
          /\ WF_sessionVars(TimedCallback(s))

SessionSpec == SessionSafeSpec /\ SessionFairness

(***************************************************************************)
(* Properties                                                              *)
(***************************************************************************)
(* The type invariant of the sessions and their io_context. *)
SessionTypeOK ==
    /\ stage \in [Session -> Stage]
    /\ io \in {"starting", "running", "returned", "aborted"}
    /\ handler \in [session : Session \cup {0}, todo : Seq(MarketUpdate),
                    throws : BOOLEAN]
    /\ messages \in 0..MaxMessages
    /\ sink \in Seq(MarketUpdate)
    /\ feed \in Seq(MarketUpdate)

(* Messages are published whole and one after the other: what the sink got  *)
(* and what the running callback still has to publish is the concatenation  *)
(* of the messages processed.  Two sessions never mix their messages, and   *)
(* only the last message can be incomplete.                                *)
MessagesInOrder == sink \o handler.todo = feed

(* A session that ended is never heard of again: nothing reconnects it, and *)
(* no message of it is published any more; another session of the same      *)
(* exchange goes on.                                                       *)
EndedForGood ==
    [][\A s \in Session : stage[s] = "ended" =>
          /\ stage'[s] = "ended"
          /\ handler'.session # s]_sessionVars

(* The timeouts do their work: a session does not hang between the start    *)
(* of its connection and the end of the websocket handshake, whatever the   *)
(* exchange does, unless the process is gone.                              *)
SetupEnds ==
    \A s \in Session :
        stage[s] \in {"resolving", "connecting", "handshakingSSL", "handshaking"}
          ~> (stage[s] \in {"subscribing", "reading", "ended"} \/ io = "aborted")

=============================================================================
