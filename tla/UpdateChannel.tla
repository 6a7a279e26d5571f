--------------------------- MODULE UpdateChannel ---------------------------
(***************************************************************************)
(* What the market data queue promises to the threads that share it: a    *)
(* closable first-in first-out channel.  An update that was accepted is    *)
(* delivered exactly once, in the order of acceptance; after the channel   *)
(* is closed nothing is accepted any more, but what was accepted before    *)
(* is still delivered.                                                     *)
(*                                                                         *)
(* The state is the history of the channel: what was accepted (sent), what *)
(* was handed out (received), and whether it is open.                      *)
(***************************************************************************)
EXTENDS Naturals, Sequences

CONSTANT Update        \* the updates that may be sent

VARIABLES sent, received, open

chanVars == <<sent, received, open>>

ChanInit ==
    /\ sent = << >>
    /\ received = << >>
    /\ open = TRUE

(* An update is accepted; a closed channel accepts nothing. *)
Send(u) ==
    /\ open
    /\ sent' = Append(sent, u)
    /\ UNCHANGED <<received, open>>

(* The oldest accepted update that was not delivered yet is delivered. *)
Receive ==
    /\ Len(received) < Len(sent)
    /\ received' = Append(received, sent[Len(received) + 1])
    /\ UNCHANGED <<sent, open>>

Close ==
    /\ open
    /\ open' = FALSE
    /\ UNCHANGED <<sent, received>>

ChanNext ==
    \/ \E u \in Update : Send(u)
    \/ Receive
    \/ Close

ChanSafeSpec == ChanInit /\ [][ChanNext]_chanVars

(* Whatever was accepted is delivered in the end, closed or not. *)
ChanSpec == ChanSafeSpec /\ WF_chanVars(Receive)

=============================================================================
