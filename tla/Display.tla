------------------------------ MODULE Display ------------------------------
(***************************************************************************)
(* core/Display.hpp: the terminal that all threads of a program share.     *)
(* The aggregation thread shows its table and logs every update, the main  *)
(* thread logs from the callbacks of the sessions or shows what the viewer *)
(* reads, the server thread logs that it listens.                          *)
(*                                                                         *)
(* A content is a line of the log, or a table of many lines: it reaches    *)
(* the stream in parts, between which other threads run.  A thread makes   *)
(* its content, with the timestamp and the level, before it asks for the   *)
(* mutex; that touches nothing that is shared and is part of the call.     *)
(***************************************************************************)
EXTENDS Naturals, Sequences

CONSTANTS
    Threads,        \* the threads that use the display
    NoThread,       \* the owner of a free mutex
    Parts,          \* the parts in which a content reaches the stream
    MaxCalls        \* bound: calls of all threads

ASSUME ThreadsAssumption == NoThread \notin Threads

ASSUME PartsAssumption == Parts \in Nat \ {0} /\ MaxCalls \in Nat

VARIABLES
    verbose,        \* the member that instantiate set
    mutex,          \* the thread that holds the mutex, or NoThread
    pc,             \* where each thread is in its call
    content,        \* the number of the call whose content each thread prints
    written,        \* the parts of it that are written
    out,            \* the stream: the parts in their order
    calls           \* history: all calls, in the order in which they were made

vars == <<verbose, mutex, pc, content, written, out, calls>>

(* debug; info, warning and error, which differ in a word only; show. *)
Level == {"debug", "log", "show"}

Init ==
    /\ verbose \in BOOLEAN
    /\ mutex = NoThread
    /\ pc = [t \in Threads |-> "idle"]
    /\ content = [t \in Threads |-> 0]
    /\ written = [t \in Threads |-> 0]
    /\ out = << >>
    /\ calls = << >>

(***************************************************************************)
(* The steps of a call                                                     *)
(***************************************************************************)
(* A plausible bug: debug does not look at verbose. *)
printsAlways(level) == TRUE

(* debug returns at once unless the display is verbose. *)
prints(level) == level = "debug" => verbose

Call(t, level) ==
    /\ pc[t] = "idle"
    /\ Len(calls) < MaxCalls
    /\ calls' = Append(calls, [thread |-> t, level |-> level])
    /\ IF prints(level)
         THEN /\ content' = [content EXCEPT ![t] = Len(calls) + 1]
              /\ pc' = [pc EXCEPT ![t] = "lock"]
         ELSE UNCHANGED <<content, pc>>
    /\ UNCHANGED <<verbose, mutex, written, out>>

(* A plausible bug: show does not lock. *)
LockLogOnly(t) ==
    /\ pc[t] = "lock"
    /\ IF calls[content[t]].level = "show" THEN UNCHANGED mutex
       ELSE mutex = NoThread /\ mutex' = t
    /\ written' = [written EXCEPT ![t] = 0]
    /\ pc' = [pc EXCEPT ![t] = "write"]
    /\ UNCHANGED <<verbose, content, out, calls>>

Lock(t) ==
    /\ pc[t] = "lock"
    /\ mutex = NoThread
    /\ mutex' = t
    /\ written' = [written EXCEPT ![t] = 0]
    /\ pc' = [pc EXCEPT ![t] = "write"]
    /\ UNCHANGED <<verbose, content, out, calls>>

Write(t) ==
    /\ pc[t] = "write"
    /\ written[t] < Parts
    /\ out' = Append(out, [call |-> content[t], part |-> written[t] + 1])
    /\ written' = [written EXCEPT ![t] = @ + 1]
    /\ UNCHANGED <<verbose, mutex, pc, content, calls>>

(* The end of the scope of the lock, and of the call. *)
Unlock(t) ==
    /\ pc[t] = "write"
    /\ written[t] = Parts
    /\ mutex' = NoThread
    /\ pc' = [pc EXCEPT ![t] = "idle"]
    /\ UNCHANGED <<verbose, content, written, out, calls>>

(***************************************************************************)
(* The specification                                                       *)
(***************************************************************************)
Next ==
    \E t \in Threads :
        \/ \E level \in Level : Call(t, level)
        \/ Lock(t) \/ Write(t) \/ Unlock(t)

Spec == Init /\ [][Next]_vars

(***************************************************************************)
(* Properties                                                              *)
(***************************************************************************)
(* The type invariant of the display and the threads that use it. *)
TypeOK ==
    /\ verbose \in BOOLEAN
    /\ mutex \in Threads \cup {NoThread}
    /\ pc \in [Threads -> {"idle", "lock", "write"}]
    /\ content \in [Threads -> Nat]
    /\ written \in [Threads -> 0..Parts]
    /\ out \in Seq([call : Nat, part : 1..Parts])
    /\ calls \in Seq([thread : Threads, level : Level])

(* Contents are never mixed: the parts of one content stand one after the   *)
(* other and in their order, whichever threads print, so that only the last *)
(* content can be incomplete, and its thread then holds the mutex.         *)
ContentsAreWhole ==
    /\ \A k \in DOMAIN out :
          /\ out[k].part = ((k - 1) % Parts) + 1
          /\ out[k].call = out[k - out[k].part + 1].call
    /\ Len(out) % Parts # 0 => mutex = calls[out[Len(out)].call].thread

(* The calls that a user expects to see: all but debug messages of a quiet  *)
(* display.                                                                *)
Expected(t) ==
    {n \in DOMAIN calls : calls[n].thread = t /\ (calls[n].level = "debug" => verbose)}

(* The places of the stream that a thread wrote. *)
WrittenBy(t) == {k \in DOMAIN out : calls[out[k].call].thread = t}

(* One part stands before another in what a thread has to write. *)
Before(x, y) == x.call < y.call \/ (x.call = y.call /\ x.part < y.part)

(* When a thread has returned from its calls, the stream holds what it      *)
(* printed: each message and table with all its parts, once and in the      *)
(* order of the calls, with the debug messages exactly if the display is    *)
(* verbose.                                                                *)
NothingIsLost ==
    \A t \in Threads :
        pc[t] = "idle" =>
          /\ \A n \in Expected(t), p \in 1..Parts :
                \E k \in DOMAIN out : out[k] = [call |-> n, part |-> p]
          /\ \A k \in WrittenBy(t) : out[k].call \in Expected(t)
          /\ \A j, k \in WrittenBy(t) : j < k => Before(out[j], out[k])

=============================================================================
