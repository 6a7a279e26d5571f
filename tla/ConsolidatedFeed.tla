-------------------------- MODULE ConsolidatedFeed --------------------------
(***************************************************************************)
(* What the aggregator process promises to its subscribers: it keeps the   *)
(* last quote of every exchange, and from time to time it replaces what    *)
(* the subscribers see by the depth of all quotes at that instant.  The    *)
(* view is never a mixture of two instants and never goes back.            *)
(***************************************************************************)
EXTENDS QuoteTable

CONSTANT Sum(_)     \* the sum of the quantities of all exchanges

VARIABLE view       \* view[side][price], as the subscribers see it

Depth == [s \in Side |-> [p \in Price |-> Sum(quote[s][p])]]

FeedInit == TableInit /\ view = [s \in Side |-> [p \in Price |-> 0]]

Apply == TableNext /\ UNCHANGED view

Refresh == view' = Depth /\ UNCHANGED quote

FeedSpec == FeedInit /\ [][Apply \/ Refresh]_<<quote, view>>

=============================================================================
