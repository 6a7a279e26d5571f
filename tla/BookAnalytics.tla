--------------------------- MODULE BookAnalytics ---------------------------
(***************************************************************************)
(* What the subscribers compute from a snapshot: biz/BestBidOffer.hpp,     *)
(* biz/PriceBands.hpp, biz/NotionalVolumeBands.hpp and biz/Statistics.hpp, *)
(* called by the onSnapshot of their rpc/MarketDataHandler*.hpp, and the   *)
(* table that core/Formatter.hpp prints of it.  Only Statistics keeps      *)
(* state from one snapshot to the next.                                    *)
(*                                                                         *)
(* The code computes with doubles.  Here prices and quantities of a book   *)
(* are naturals, and a result that is not whole is a fraction <<n, d>>:    *)
(* doubles add, subtract, multiply and compare whole numbers exactly, and  *)
(* nothing is compared with a quotient.  The shifted price of a price band *)
(* is a rounded product that is compared with prices, and is rounded here. *)
(* A row of a printed table holds labels and quotes, or None where the     *)
(* table is blank; widths, colours and the decimals of a quote are left    *)
(* out.                                                                    *)
(***************************************************************************)
EXTENDS Integers, Sequences, FiniteSets

Sets == INSTANCE FiniteSetsExt

CONSTANTS
    Price, Quantity,    \* the prices and quantities of a book
    Bps,                \* the bands of config/price-bands.json
    rounding(_, _, _),  \* for a side, a best price and a band: which way the
                        \* double that is the shifted price is off
    Notionals,          \* the bands of config/notional-volume-bands.json
    None                \* std::nullopt

Side == {"ASK", "BID"}

(* A level of a price band has a fraction for its price, one of a notional  *)
(* band for its quantity too.                                              *)
Band == [price : Int \X Int, quantity : Nat \cup (Nat \X Nat)]

ASSUME BookAssumption == Price \cup Quantity \subseteq Nat \ {0} /\ IsFiniteSet(Price)

ASSUME NoneAssumption == None \notin Nat \cup Band

(* The values of the configurations come in any order, and may repeat. *)
ASSUME BpsAssumption == Bps \in Seq(Int)

ASSUME NotionalsAssumption == Notionals \in Seq(Nat \ {0})

ASSUME RoundingAssumption ==
    \A side \in Side, best \in Price, i \in DOMAIN Bps : rounding(side, best, Bps[i]) \in {-1, 0, 1}

(* The notional at which a label changes its unit, and the unit: "", K, M. *)
unitOf(value) == IF value >= 1000000 THEN 1000000 ELSE IF value >= 1000 THEN 1000 ELSE 1

(* No configured notional lies half way between two labels, where the       *)
(* rounding depends on the representation of a double.                     *)
ASSUME LabelsAssumption ==
    \A i \in DOMAIN Notionals :
        LET unit == unitOf(Notionals[i]) IN 2 * ((10 * Notionals[i]) % unit) # unit

VARIABLES
    book,               \* the book of the last snapshot
    stats,              \* the member of Statistics
    asksSeen, bidsSeen  \* history: the prices of all snapshots

vars == <<book, stats, asksSeen, bidsSeen>>

quotesOf(b, side) == IF side = "ASK" THEN b.ask ELSE b.bid

(* The running total of a loop over values, after each of them. *)
cumulated(values) ==
    LET sum[i \in 0..Len(values)] == IF i = 0 THEN 0 ELSE sum[i - 1] + values[i]
    IN  sum

cumulatedQuantity(quotes, n) == cumulated([i \in DOMAIN quotes |-> quotes[i].quantity])[n]

cumulatedNotional(quotes, n) ==
    cumulated([i \in DOMAIN quotes |-> quotes[i].price * quotes[i].quantity])[n]

(* The number of levels that a loop takes before its break at the first    *)
(* one that does not fit.                                                  *)
taken(fits) == Sets!Max({n \in 0..Len(fits) : \A i \in 1..n : fits[i]})

(* The bands that exist, in the order of the configured values. *)
existing(bands) ==
    LET kept[i \in 0..Len(bands)] ==
            IF i = 0 THEN << >>
            ELSE IF bands[i] = None THEN kept[i - 1] ELSE Append(kept[i - 1], bands[i])
    IN  kept[Len(bands)]

(***************************************************************************)
(* computeBestBidOffer                                                     *)
(***************************************************************************)

bestBidOffer(b) ==
    LET top(quotes) == SubSeq(quotes, 1, IF Len(quotes) > 0 THEN 1 ELSE 0)
    IN  [ask |-> top(b.ask), bid |-> top(b.bid)]

(***************************************************************************)
(* PriceBands                                                              *)
(***************************************************************************)
(* 20000 times the shifted price.  The exact one is a multiple of 1/10000;  *)
(* the double is that, or off by less than half of it to one side, which is *)
(* all that a comparison with a whole price can tell.                      *)
shiftedPrice(quotes, side, bps) ==
    LET best == quotes[1].price
    IN  2 * best * (IF side = "ASK" THEN 10000 + bps ELSE 10000 - bps) + rounding(side, best, bps)

(* A plausible bug: the comparison is not strict. *)
insideOrAt(quote, side, shifted) ==
    IF side = "ASK" THEN quote.price * 20000 <= shifted ELSE quote.price * 20000 >= shifted

(* A level inside the band: strictly better than the shifted price. *)
inside(quote, side, shifted) ==
    IF side = "ASK" THEN quote.price * 20000 < shifted ELSE quote.price * 20000 > shifted

priceBand(quotes, side, bps) ==
    IF quotes = << >> THEN None
    ELSE LET shifted == shiftedPrice(quotes, side, bps)
             n == taken([i \in DOMAIN quotes |-> inside(quotes[i], side, shifted)])
         IN  [price |-> <<shifted, 20000>>, quantity |-> cumulatedQuantity(quotes, n)]

(* compute *)
priceBands(b) ==
    LET of(side) ==
            existing([i \in DOMAIN Bps |-> priceBand(quotesOf(b, side), side, Bps[i])])
    IN  [ask |-> of("ASK"), bid |-> of("BID")]

(***************************************************************************)
(* NotionalVolumeBands                                                     *)
(***************************************************************************)
(* A plausible bug: a band that cannot be filled is reported all the same. *)
notionalBandUnfilled(quotes, desired) ==
    LET n == taken([i \in DOMAIN quotes |-> cumulatedNotional(quotes, i) <= desired])
        worth == cumulatedNotional(quotes, n)
    IN  IF n = 0 THEN None
        ELSE [price |-> <<worth, cumulatedQuantity(quotes, n)>>,
              quantity |-> <<cumulatedQuantity(quotes, n), 1>>]

(* A plausible bug: the last level is taken whole, the notional in part. *)
notionalBandWhole(quotes, desired) ==
    LET n == taken([i \in DOMAIN quotes |-> cumulatedNotional(quotes, i) <= desired])
    IN  IF n < Len(quotes)
          THEN [price |-> <<desired, cumulatedQuantity(quotes, n + 1)>>,
                quantity |-> <<cumulatedQuantity(quotes, n + 1), 1>>]
          ELSE None

(* The levels that fit into the desired notional are taken whole and the    *)
(* next one in part; quantity is that of the whole levels plus missing /    *)
(* price of the partial one.                                               *)
notionalBand(quotes, desired) ==
    LET n == taken([i \in DOMAIN quotes |-> cumulatedNotional(quotes, i) <= desired])
        whole == cumulatedQuantity(quotes, n)
        missing == desired - cumulatedNotional(quotes, n)
        quantity == IF n < Len(quotes)
                      THEN <<whole * quotes[n + 1].price + missing, quotes[n + 1].price>>
                      ELSE <<whole, 1>>
    IN  IF n < Len(quotes) \/ missing <= 0
          THEN [price |-> <<desired * quantity[2], quantity[1]>>, quantity |-> quantity]
          ELSE None

notionalBands(b) ==
    LET of(side) ==
            existing([i \in DOMAIN Notionals |-> notionalBand(quotesOf(b, side), Notionals[i])])
    IN  [ask |-> of("ASK"), bid |-> of("BID")]

(***************************************************************************)
(* Statistics                                                              *)
(***************************************************************************)
NoStats ==
    [currentAsk |-> None, currentBid |-> None, spread |-> None, crossed |-> None,
     lowestAsk |-> None, highestBid |-> None, askCount |-> 0, bidCount |-> 0]

(* A plausible bug: the lowest price of the last snapshot only. *)
lowestOfLast(known, current, quotes) ==
    IF quotes = << >> THEN current ELSE quotes[1].price

(* std::min and std::max over the levels, from the extreme known so far; a  *)
(* first extreme is the current price.                                     *)
lowest(known, current, quotes) ==
    LET start == IF known = None THEN current ELSE known
    IN  IF quotes = << >> THEN start
        ELSE Sets!Min({start} \cup {quotes[i].price : i \in DOMAIN quotes})

highest(known, current, quotes) ==
    LET start == IF known = None THEN current ELSE known
    IN  IF quotes = << >> THEN start
        ELSE Sets!Max({start} \cup {quotes[i].price : i \in DOMAIN quotes})

(* The current prices are assigned only when their side has a level. *)
current(known, quotes) == IF quotes = << >> THEN known ELSE quotes[1].price

compute(s, b) ==
    LET ask == current(s.currentAsk, b.ask)
        bid == current(s.currentBid, b.bid)
        both == ask # None /\ bid # None
    IN  [currentAsk |-> ask, currentBid |-> bid,
         spread |-> IF both THEN ask - bid ELSE None,
         crossed |-> IF both THEN ask <= bid ELSE None,
         lowestAsk |-> lowest(s.lowestAsk, ask, b.ask),
         highestBid |-> highest(s.highestBid, bid, b.bid),
         askCount |-> Len(b.ask), bidCount |-> Len(b.bid)]

(***************************************************************************)
(* Formatter                                                               *)
(***************************************************************************)
(* The label of a price band is a sign before the number of basis points. *)
humanizeBps(bps, minus) == IF minus THEN -bps ELSE bps

(* The label of a notional has one decimal: a number of tenths of a unit. *)
humanizeNotional(value) ==
    [tenths |-> (10 * value + unitOf(value) \div 2) \div unitOf(value), unit |-> unitOf(value)]

(* The captions that the handlers make once, in their constructors. *)
notionalCaptions ==
    LET labels == [i \in DOMAIN Notionals |-> humanizeNotional(Notionals[i])]
    IN  [ask |-> labels, bid |-> labels]

priceCaptions ==
    [ask |-> [i \in DOMAIN Bps |-> humanizeBps(Bps[i], FALSE)],
     bid |-> [i \in DOMAIN Bps |-> humanizeBps(Bps[i], TRUE)]]

NoCaptions == [ask |-> << >>, bid |-> << >>]

(* toString of a book: a row for each level that one of the sides has, up   *)
(* to depth rows if depth is not 0, with the labels by position.           *)
table(b, captions, depth) ==
    LET levels == Sets!Max({Len(b.ask), Len(b.bid)})
        cell(column, i) == IF i \in DOMAIN column THEN column[i] ELSE None
        line(side, i) == [label |-> cell(quotesOf(captions, side), i),
                          quote |-> cell(quotesOf(b, side), i)]
    IN  [i \in 1..(IF depth = 0 THEN levels ELSE Sets!Min({levels, depth})) |->
            [side \in Side |-> line(side, i)]]

(* What the onSnapshot of three of the handlers show of a book. *)
showBestBidOffer(b) == table(bestBidOffer(b), NoCaptions, 0)

showPriceBands(b) == table(priceBands(b), priceCaptions, 0)

showNotionalVolumeBands(b) == table(notionalBands(b), notionalCaptions, 0)

(***************************************************************************)
(* The specification: snapshots arrive, any book after any other           *)
(***************************************************************************)
(* One side of a book as the aggregator generates it: distinct prices, the  *)
(* best one first.                                                         *)
Level == [price : Price, quantity : Quantity]

SideBook(side) ==
    {quotes \in UNION {[1..n -> Level] : n \in 0..Cardinality(Price)} :
        \A i, j \in DOMAIN quotes : i < j =>
            IF side = "ASK" THEN quotes[i].price < quotes[j].price
                            ELSE quotes[i].price > quotes[j].price}

Books == [ask : SideBook("ASK"), bid : SideBook("BID")]

Init ==
    /\ book = [ask |-> << >>, bid |-> << >>]
    /\ stats = NoStats
    /\ asksSeen = {}
    /\ bidsSeen = {}

OnSnapshot(b) ==
    /\ book' = b
    /\ stats' = compute(stats, b)
    /\ asksSeen' = asksSeen \cup {b.ask[i].price : i \in DOMAIN b.ask}
    /\ bidsSeen' = bidsSeen \cup {b.bid[i].price : i \in DOMAIN b.bid}

Next == \E b \in Books : OnSnapshot(b)

Spec == Init /\ [][Next]_vars

(***************************************************************************)
(* Properties                                                              *)
(***************************************************************************)
Less(x, y) == x[1] * y[2] < y[1] * x[2]

(* The extremes of Statistics are those of all snapshots so far, also       *)
(* across snapshots in which a side was empty.                             *)
ExtremesOfAllTime ==
    /\ stats.lowestAsk = IF asksSeen = {} THEN None ELSE Sets!Min(asksSeen)
    /\ stats.highestBid = IF bidsSeen = {} THEN None ELSE Sets!Max(bidsSeen)

(* The quote and the label printed in row i of a table, None if the table   *)
(* has no such row.                                                        *)
Printed(rows, side, i) == IF i \in DOMAIN rows THEN rows[i][side] ELSE [label |-> None, quote |-> None]

(* What is printed in row i for a price band is right: next to the label of *)
(* +n or -n basis points stands the price that far from the best one, but   *)
(* for the rounding of a double, and all the quantity that the book has at  *)
(* prices strictly better than it.  So a level within n basis points always *)
(* counts and one beyond them never does; one exactly that far off counts   *)
(* if the rounding has put the printed price behind it.                    *)
PriceBandMatches(rows, side, i) ==
    LET quotes == quotesOf(book, side)
        printed == Printed(rows, side, i)
        limit == quotes[1].price * (10000 + printed.label)
        price == printed.quote.price
        Better(p) == IF side = "ASK" THEN p * price[2] < price[1] ELSE p * price[2] > price[1]
    IN  IF quotes = << >> THEN printed.quote = None
        ELSE /\ \E error \in {-1, 0, 1} : price = <<2 * limit + error, 20000>>
             /\ printed.quote.quantity =
                  Sets!MapThenSumSet(LAMBDA j : quotes[j].quantity,
                                     {j \in DOMAIN quotes : Better(quotes[j].price)})

(* All printed price bands are right, in whatever order they are            *)
(* configured.  The break of the loop never cuts a level off, and a side    *)
(* without levels leaves all its rows blank, so that no label stands at the *)
(* quote of another band.                                                  *)
PriceBandsMatch ==
    LET rows == showPriceBands(book) IN
    \A side \in Side : \A i \in DOMAIN Bps : PriceBandMatches(rows, side, i)

(* The configured notionals up to the k-th that a side is worth. *)
Filled(quotes, k) == {i \in 1..k : Notionals[i] <= cumulatedNotional(quotes, Len(quotes))}

(* What is printed for the i-th notional is right: if the side is worth it, *)
(* the table has a band whose average price times quantity is that notional,*)
(* one row higher for each notional before it that is left out.  The label  *)
(* of that row is the nearest to the notional if none before it is left     *)
(* out, and there are no rows but those of filled notionals.               *)
NotionalLabelMatches(rows, side, i) ==
    LET quotes == quotesOf(book, side)
        row == Cardinality(Filled(quotes, i))
        printed == Printed(rows, side, row)
        label == printed.label
        price == printed.quote.price
        quantity == printed.quote.quantity
    IN  /\ i \in Filled(quotes, i) =>
             /\ price[1] * quantity[1] = Notionals[i] * price[2] * quantity[2]
             /\ row = i => /\ (10 * label.tenths - 5) * label.unit < 100 * Notionals[i]
                           /\ (10 * label.tenths + 5) * label.unit > 100 * Notionals[i]
        /\ i > Cardinality(Filled(quotes, Len(Notionals))) => Printed(rows, side, i).quote = None

(* All printed notionals are right, in whatever order they are configured:  *)
(* only a band that is left out before others can move these to rows that   *)
(* are not theirs, and ascending notionals are all in their own row.       *)
NotionalLabelsMatch ==
    LET rows == showNotionalVolumeBands(book) IN
    \A side \in Side : \A i \in DOMAIN Notionals : NotionalLabelMatches(rows, side, i)

(* The subscribers agree: the best bid and offer are the first row of the   *)
(* whole book, the average price of a notional band lies between that price *)
(* and the worst one of the side, and a larger notional never gets a better *)
(* average.                                                                *)
AveragesAreFair ==
    \A side \in Side :
        LET quotes == quotesOf(book, side)
            best == quotesOf(bestBidOffer(book), side)
            band(i) == notionalBand(quotes, Notionals[i])
            Bands == {i \in DOMAIN Notionals : band(i) # None}
            NotBetter(x, y) == IF side = "ASK" THEN ~Less(x, y) ELSE ~Less(y, x)
        IN  /\ showBestBidOffer(book) = table(book, NoCaptions, 1)
            /\ \A i \in Bands :
                  /\ NotBetter(band(i).price, <<best[1].price, 1>>)
                  /\ NotBetter(<<quotes[Len(quotes)].price, 1>>, band(i).price)
                  /\ \A j \in Bands :
                        Notionals[i] < Notionals[j] => NotBetter(band(j).price, band(i).price)

(* test/Statistics.cpp, "for an empty book": CHECK(!result.currentAskPrice). *)
(* A side without levels has no current price.                             *)
CurrentIsCurrent ==
    /\ book.ask = << >> => stats.currentAsk = None
    /\ book.bid = << >> => stats.currentBid = None

=============================================================================
