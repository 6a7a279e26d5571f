----------------------------- MODULE QuoteTable -----------------------------
(***************************************************************************)
(* What the aggregator promises: it remembers, for each side, price and    *)
(* exchange, the quantity of the last update, and it shows at each price   *)
(* the sum over the exchanges.  Nothing is said of how the quotes are      *)
(* stored, nor of when a price level exists.                               *)
(***************************************************************************)
EXTENDS MarketData

VARIABLE quote      \* quote[side][price][exchange]

NoQuotes == [s \in Side |-> [p \in Price |-> [e \in Exchange |-> 0]]]

TableInit == quote = NoQuotes

(* The last update wins, for its own exchange, side and price alone. *)
Overwrite(table, u) == [table EXCEPT ![u.side][u.price][u.exchange] = u.quantity]

TableNext == \E u \in MarketUpdate : quote' = Overwrite(quote, u)

TableSpec == TableInit /\ [][TableNext]_quote

=============================================================================
