----------------------------- MODULE Aggregator -----------------------------
(***************************************************************************)
(* biz/Aggregator.hpp: the consolidated book.  Each side is a std::map     *)
(* from the price to the quantities of the eight exchanges at that price,  *)
(* and a level is erased when its total falls to zero.                     *)
(*                                                                         *)
(* The operators take the price levels as an argument, so that the process *)
(* around the aggregator (AggregatorProcess) can use them on its own       *)
(* state.                                                                  *)
(***************************************************************************)
EXTENDS MarketData, Sequences, FiniteSets

Sets == INSTANCE FiniteSetsExt

VARIABLE priceLevels    \* one map from prices to quantities per side

(***************************************************************************)
(* class Quantities; its members reset and empty have no caller            *)
(***************************************************************************)
NoQuantities == [e \in Exchange |-> 0]

set(quantities, e, n) == [quantities EXCEPT ![e] = n]

total(quantities) ==
    quantities["BINANCE"] + quantities["BITMEX"] + quantities["BYBIT"] +
    quantities["COINBASE"] + quantities["HYPERLIQUID"] + quantities["INTERNAL"] +
    quantities["KRAKEN"] + quantities["OKX"]

(***************************************************************************)
(* std::map                                                                *)
(***************************************************************************)
EmptyMap == [p \in {} |-> NoQuantities]

(* map[price]: a level that does not exist is created with no quantities. *)
at(map, p) == IF p \in DOMAIN map THEN map[p] ELSE NoQuantities

put(map, p, quantities) ==
    [x \in DOMAIN map \cup {p} |-> IF x = p THEN quantities ELSE map[x]]

erase(map, p) == [x \in DOMAIN map \ {p} |-> map[x]]

(***************************************************************************)
(* onUpdate and generateBook                                               *)
(***************************************************************************)
(* A plausible bug: the price and the quantity are swapped. *)
updateSideSwapped(map, u) ==
    put(map, u.quantity, set(at(map, u.quantity), u.exchange, u.price))

(* A plausible bug: the level is never erased. *)
updateSideKeep(map, u) ==
    put(map, u.price, set(at(map, u.price), u.exchange, u.quantity))

(* A plausible bug: a quantity of zero erases the level of all exchanges. *)
updateSideEraseAll(map, u) ==
    IF u.quantity = 0
      THEN erase(map, u.price)
      ELSE put(map, u.price, set(at(map, u.price), u.exchange, u.quantity))

updateSide(map, u) ==
    LET quantities == set(at(map, u.price), u.exchange, u.quantity)
    IN  IF total(quantities) = 0
          THEN erase(map, u.price)
          ELSE put(map, u.price, quantities)

onUpdate(levels, u) == [levels EXCEPT ![u.side] = updateSide(@, u)]

(* A plausible bug: both maps are ordered by std::less. *)
beforeLess(side, p, q) == p < q

(* The iteration order of the two maps: std::less for the asks and         *)
(* std::greater for the bids.                                              *)
before(side, p, q) == IF side = "ASK" THEN p < q ELSE p > q

iterated(side, prices) ==
    CHOOSE f \in [1..Cardinality(prices) -> prices] :
        \A i, j \in DOMAIN f : i < j => before(side, f[i], f[j])

quotes(side, map) ==
    LET prices == iterated(side, DOMAIN map)
    IN  [i \in DOMAIN prices |->
            [price |-> prices[i], quantity |-> total(map[prices[i]])]]

generateBook(levels) ==
    [ask |-> quotes("ASK", levels["ASK"]), bid |-> quotes("BID", levels["BID"])]

(***************************************************************************)
(* The specification                                                       *)
(***************************************************************************)
NoLevels == [s \in Side |-> EmptyMap]

Init == priceLevels = NoLevels

OnUpdate(u) == priceLevels' = onUpdate(priceLevels, u)

Next == \E u \in MarketUpdate : OnUpdate(u)

Spec == Init /\ [][Next]_priceLevels

(***************************************************************************)
(* Properties                                                              *)
(***************************************************************************)
(* The type invariant: the price levels are one map per side, from prices   *)
(* to a quantity for each exchange of the enumeration.                     *)
TypeOK ==
    /\ priceLevels = [s \in Side |-> priceLevels[s]]
    /\ \A s \in Side :
           /\ DOMAIN priceLevels[s] \subseteq Price
           /\ priceLevels[s] \in [DOMAIN priceLevels[s] -> [Exchange -> Nat]]

(* A level exists only while some exchange quotes at its price: onUpdate    *)
(* erases it with the update that takes its last quantity away.            *)
NoEmptyLevel ==
    \A s \in Side : \A p \in DOMAIN priceLevels[s] :
        \E e \in Exchange : priceLevels[s][p][e] > 0

(* The quote table that the price levels stand for. *)
Quote(levels) ==
    [s \in Side |-> [p \in Price |-> at(levels[s], p)]]

Table == INSTANCE QuoteTable WITH quote <- Quote(priceLevels)

(* The aggregator implements the quote table: an update changes the quote   *)
(* of its own exchange, side and price and no other one; in particular the  *)
(* erasure of a level never takes the quantity of another exchange away.   *)
ImplementsTable == Table!TableSpec

(* What everyone quotes at a price, by the quote table. *)
Depth(s, p) == Sets!MapThenSumSet(LAMBDA e : Quote(priceLevels)[s][p][e], Exchange)

(* generateBook lists each price at which somebody quotes exactly once, the *)
(* best price first, with the sum of all exchanges; and nothing else.      *)
BookIsExact ==
    LET book == generateBook(priceLevels)
        Exact(s, side) ==
            /\ \A i, j \in DOMAIN side :
                   i < j => IF s = "ASK" THEN side[i].price < side[j].price
                                         ELSE side[i].price > side[j].price
            /\ {<<side[i].price, side[i].quantity>> : i \in DOMAIN side}
                 = {<<p, Depth(s, p)>> : p \in {x \in Price : Depth(s, x) > 0}}
    IN  Exact("ASK", book.ask) /\ Exact("BID", book.bid)

=============================================================================
