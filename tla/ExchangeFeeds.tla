--------------------------- MODULE ExchangeFeeds ---------------------------
(***************************************************************************)
(* cex/ExchangeSession*.hpp: what the adapters make of the messages of     *)
(* their exchanges, and what becomes of the exchange's own book on the way *)
(* to the aggregator.                                                      *)
(*                                                                         *)
(* One exchange at a time has a book of its own (theirs) and tells about   *)
(* it in messages.  checkMessage and processMessage of its adapter are     *)
(* applied to each message, and the updates published are written to the  *)
(* table of last quotes, which is what the aggregator keeps (QuoteTable).  *)
(*                                                                         *)
(* A message is abstracted to what the adapters look at: its topic, which  *)
(* members hold the levels, the number of its elements where it is an      *)
(* array, and the levels in their order.  A level is listed under its side *)
(* (ask, bid), or as a row that names its side.                            *)
(***************************************************************************)
EXTENDS MarketData, Sequences, FiniteSets

Sequence == INSTANCE SequencesExt

Sets == INSTANCE FiniteSetsExt

CONSTANTS
    Broken,         \* a text where a number or a side is expected
    Missing         \* a member that is not there

ASSUME TextAssumption == Broken \notin Nat \cup Side /\ Missing \notin Nat \cup {Broken}

(* Messages are finite, and so are the prices in them. *)
ASSUME FiniteAssumption == IsFiniteSet(Price)

VARIABLES
    exchange,       \* the exchange of the session
    theirs,         \* the exchange's book: theirs[side][price]
    announced,      \* the exchange sent its book after the subscription
    quote,          \* the table of last quotes: quote[exchange][side][price]
    alive,          \* the process was not ended by an exception
    unheard         \* history: the levels whose last change was in a message discarded

feedsVars == <<exchange, theirs, announced, quote, alive, unheard>>

Depths == [Side -> [Price -> Quantity]]

(***************************************************************************)
(* The outcome of processMessage                                           *)
(***************************************************************************)
(* What a level becomes: an update that is published, nothing, or an        *)
(* exception.                                                              *)
Skip == [is |-> "nothing"]
Throws == [is |-> "exception"]

publish(e, s, price, quantity) ==
    IF Broken \in {s, price, quantity} THEN Throws
    ELSE [is |-> "update", exchange |-> e, side |-> s, price |-> price, quantity |-> quantity]

(* Levels are published one by one up to the first that throws. *)
outcome(results) ==
    LET last == Sets!Max({n \in 0..Len(results) : \A i \in 1..n : results[i].is # "exception"})
    IN  [published |-> SubSeq(results, 1, last), throws |-> last < Len(results)]

(* The levels of one side in their order. *)
listed(e, s, entries) ==
    [i \in DOMAIN entries |-> publish(e, s, entries[i].price, entries[i].quantity)]

(* The same with entry.size() >= 2 tested first. *)
listedIfPair(e, s, entries) ==
    [i \in DOMAIN entries |-> IF entries[i].quantity = Missing THEN Skip
                              ELSE publish(e, s, entries[i].price, entries[i].quantity)]

(* fromString<Side>; any other word is an InvalidSide exception. *)
fromStringSide(word) ==
    CASE word \in {"ASK", "SELL", "OFFER"} -> "ASK"
      [] word \in {"BID", "BUY"}           -> "BID"
      [] OTHER                             -> Broken

(***************************************************************************)
(* checkMessage.  A message about the book has topic "book"; a "bare" one   *)
(* lacks the member that holds the levels; "other" is an acknowledgement,   *)
(* a heartbeat or another channel.  The adapters of BitMEX and Coinbase     *)
(* look the member up although it is not there, which is undefined, as is   *)
(* the lookup of the internal exchange's adapter, which accepts everything. *)
(* Kraken's adapter wants an array of four elements.                       *)
(***************************************************************************)
checkBinance(m)     == IF m.topic = "book" THEN "yes" ELSE "no"
checkBitMEX(m)      == CASE m.topic = "book" -> "yes" [] m.topic = "bare" -> "undefined" [] OTHER -> "no"
checkBybit(m)       == IF m.topic = "book" THEN "yes" ELSE "no"
checkCoinbase(m)    == CASE m.topic = "book" -> "yes" [] m.topic = "bare" -> "undefined" [] OTHER -> "no"
checkHyperliquid(m) == IF m.topic = "book" THEN "yes" ELSE "no"
checkInternal(m)    == IF m.topic = "book" THEN "yes" ELSE "undefined"
checkKraken(m)      == IF m.topic = "book" /\ m.size = 4 THEN "yes" ELSE "no"
checkOKX(m)         == IF m.topic = "book" THEN "yes" ELSE "no"

(***************************************************************************)
(* processMessage                                                          *)
(***************************************************************************)
processBinance(m) ==
    outcome(listedIfPair("BINANCE", "ASK", m.ask) \o listedIfPair("BINANCE", "BID", m.bid))

Satoshi == 100000000

(* A plausible bug: a row without a size is passed over. *)
processBitMEXSizedOnly(m) ==
    outcome([i \in DOMAIN m.rows |->
        IF m.rows[i].quantity = Missing THEN Skip
        ELSE publish("BITMEX", fromStringSide(m.rows[i].side), m.rows[i].price,
                     IF m.rows[i].quantity = Broken THEN Broken
                     ELSE m.rows[i].quantity \div Satoshi)])

(* A row that deletes a level has no size: item.value("size", 0).  The      *)
(* action of the message is not looked at.                                 *)
processBitMEX(m) ==
    LET bitcoins(size) == CASE size = Missing -> 0
                            [] size = Broken  -> Broken
                            [] OTHER          -> size \div Satoshi
    IN  outcome([i \in DOMAIN m.rows |->
            publish("BITMEX", fromStringSide(m.rows[i].side), m.rows[i].price,
                    bitcoins(m.rows[i].quantity))])

(* A plausible bug: the name of another exchange, from a copied adapter. *)
processBybitCopied(m) ==
    outcome(listed("BINANCE", "ASK", m.ask) \o listed("BYBIT", "BID", m.bid))

processBybit(m) ==
    outcome(listed("BYBIT", "ASK", m.ask) \o listed("BYBIT", "BID", m.bid))

processCoinbase(m) ==
    outcome([i \in DOMAIN m.rows |->
        publish("COINBASE", fromStringSide(m.rows[i].side), m.rows[i].price, m.rows[i].quantity)])

(* A plausible bug: levels[0] are taken for the asks. *)
processHyperliquidSwapped(m) ==
    outcome(listed("HYPERLIQUID", "ASK", m.bid) \o listed("HYPERLIQUID", "BID", m.ask))

(* levels[0] are the bids, levels[1] the asks. *)
processHyperliquid(m) ==
    outcome(listed("HYPERLIQUID", "BID", m.bid) \o listed("HYPERLIQUID", "ASK", m.ask))

(* One row per message. *)
processInternal(m) ==
    outcome(<<publish("INTERNAL", fromStringSide(m.rows[1].side),
                      m.rows[1].price, m.rows[1].quantity)>>)

(* A plausible bug: a deleted level, with quantity zero, is passed over. *)
processKrakenNonZero(m) ==
    LET kept(s, entries) == listed("KRAKEN", s, SelectSeq(entries, LAMBDA x : x.quantity # 0))
    IN  IF m.members = "snapshot" THEN outcome(<< >>)
        ELSE outcome(kept("BID", m.bid) \o kept("ASK", m.ask))

(* The members b and a of an update are read; those of the book that        *)
(* follows the subscription, bs and as, are not.                           *)
processKraken(m) ==
    IF m.members = "snapshot" THEN outcome(<< >>)
    ELSE outcome(listed("KRAKEN", "BID", m.bid) \o listed("KRAKEN", "ASK", m.ask))

processOKX(m) ==
    outcome(listedIfPair("OKX", "ASK", m.ask) \o listedIfPair("OKX", "BID", m.bid))

(* SessionFactory::make: the adapter of an exchange. *)
checkMessage(e, m) ==
    CASE e = "BINANCE"     -> checkBinance(m)     [] e = "BITMEX"   -> checkBitMEX(m)
      [] e = "BYBIT"       -> checkBybit(m)       [] e = "COINBASE" -> checkCoinbase(m)
      [] e = "HYPERLIQUID" -> checkHyperliquid(m) [] e = "INTERNAL" -> checkInternal(m)
      [] e = "KRAKEN"      -> checkKraken(m)      [] e = "OKX"      -> checkOKX(m)

processMessage(e, m) ==
    CASE e = "BINANCE"     -> processBinance(m)     [] e = "BITMEX"   -> processBitMEX(m)
      [] e = "BYBIT"       -> processBybit(m)       [] e = "COINBASE" -> processCoinbase(m)
      [] e = "HYPERLIQUID" -> processHyperliquid(m) [] e = "INTERNAL" -> processInternal(m)
      [] e = "KRAKEN"      -> processKraken(m)      [] e = "OKX"      -> processOKX(m)

(* The table of last quotes after the updates among some results: for each  *)
(* exchange, side and price the last one wins.                             *)
written(table, results) ==
    [e \in Exchange |-> [s \in Side |-> [p \in Price |->
        LET updates == {i \in DOMAIN results :
                          /\ results[i].is = "update"
                          /\ results[i].exchange = e
                          /\ results[i].side = s
                          /\ results[i].price = p}
        IN  IF updates = {} THEN table[e][s][p] ELSE results[Sets!Max(updates)].quantity]]]

(* ClientSession::onMessage, with the table of last quotes as the sink. *)
OnMessage(m) ==
    LET check == checkMessage(exchange, m)
        result == processMessage(exchange, m)
    IN  CASE check = "no" -> UNCHANGED <<quote, alive>>
          [] check = "undefined" -> UNCHANGED quote /\ alive' \in BOOLEAN
          [] OTHER -> quote' = written(quote, result.published) /\ alive' = ~result.throws

(***************************************************************************)
(* The exchanges, as far as the adapters and prototype/ know them          *)
(***************************************************************************)
(* The exchanges whose messages list rows, and their words for the sides. *)
RowWise == {"BITMEX", "COINBASE", "INTERNAL"}

Word(e, s) ==
    CASE e = "BITMEX"   -> IF s = "ASK" THEN "SELL" ELSE "BUY"
      [] e = "COINBASE" -> IF s = "ASK" THEN "OFFER" ELSE "BID"
      [] OTHER          -> s

(* How an exchange writes a quantity: BitMEX in satoshis, and not at all    *)
(* when a level is deleted.                                                *)
Written(e, quantity) ==
    IF e # "BITMEX" THEN quantity ELSE IF quantity = 0 THEN Missing ELSE quantity * Satoshi

(* The levels <<side, price>> of a book as rows, in some order. *)
Rows(e, book, levels) ==
    LET list == Sequence!SetToSeq(levels)
    IN  [i \in DOMAIN list |->
            [side |-> Word(e, list[i][1]), price |-> list[i][2],
             quantity |-> Written(e, book[list[i][1]][list[i][2]])]]

(* A message about some levels of a book. *)
Message(e, members, size, book, levels) ==
    LET of(s) == Rows(e, book, {l \in levels : l[1] = s})
    IN  IF e \in RowWise
          THEN [topic |-> "book", members |-> members, size |-> size,
                rows |-> Rows(e, book, levels)]
          ELSE [topic |-> "book", members |-> members, size |-> size,
                ask |-> of("ASK"), bid |-> of("BID")]

(* The elements of Kraken's array: a number, an object with the levels, the *)
(* channel and the ticker.  The two sides of an update come in one object   *)
(* or in two.                                                              *)
Sizes(e, levels) ==
    IF e = "KRAKEN" /\ \A s \in Side : \E l \in levels : l[1] = s THEN {4, 5} ELSE {4}

Quoted(book) == {l \in Side \X Price : book[l[1]][l[2]] # 0}

Changed(book, new) == {l \in Side \X Price : book[l[1]][l[2]] # new[l[1]][l[2]]}

(* Binance and the internal exchange send no book after the subscription. *)
Unannounced == {"BINANCE", "INTERNAL"}

FeedsInit ==
    /\ exchange \in Connected
    /\ theirs \in Depths
    /\ announced = (exchange \in Unannounced)
    /\ quote = [e \in Exchange |-> [s \in Side |-> [p \in Price |-> 0]]]
    /\ alive = TRUE
    /\ unheard = {}

(* The book as it is at the time of the subscription. *)
Announce ==
    /\ alive
    /\ ~announced
    /\ announced' = TRUE
    /\ OnMessage(Message(exchange, "snapshot", 4, theirs, Quoted(theirs)))
    /\ UNCHANGED <<exchange, theirs, unheard>>

(* The book changes.  Hyperliquid sends the levels it has, the internal     *)
(* exchange one level, the others the levels that changed, those that were  *)
(* deleted with quantity zero.                                             *)
Change ==
    /\ alive
    /\ announced
    /\ \E new \in Depths :
          LET changed == Changed(theirs, new)
              told == IF exchange = "HYPERLIQUID" THEN Quoted(new) ELSE changed
          IN  /\ changed # {}
              /\ exchange = "INTERNAL" => Cardinality(changed) = 1
              /\ theirs' = new
              /\ \E size \in Sizes(exchange, told) :
                    LET m == Message(exchange, "update", size, new, told)
                    IN  /\ OnMessage(m)
                        /\ unheard' = IF checkMessage(exchange, m) = "no"
                                        THEN unheard \cup told ELSE unheard \ told
    /\ UNCHANGED <<exchange, announced>>

(* A message that is not about the book, or that lacks its levels. *)
Aside ==
    /\ alive
    /\ \E topic \in {"other", "bare"} :
          OnMessage([topic |-> topic, members |-> "update", ask |-> << >>, bid |-> << >>,
                     rows |-> << >>])
    /\ UNCHANGED <<exchange, theirs, announced, unheard>>

(* A message with a flaw in one of its levels: a text that is no number,    *)
(* or, where the adapter tests for it, no quantity at all.                 *)
Flawed ==
    /\ alive
    /\ announced
    /\ \E l \in Side \X Price, flaw \in {Broken, Missing} :
          LET m == Message(exchange, "update", 4, theirs, {l})
          IN  /\ flaw = Missing => exchange \in {"BINANCE", "OKX"}
              /\ OnMessage(IF exchange \in RowWise THEN [m EXCEPT !.rows[1].quantity = flaw]
                           ELSE IF l[1] = "ASK" THEN [m EXCEPT !.ask[1].quantity = flaw]
                           ELSE [m EXCEPT !.bid[1].quantity = flaw])
    /\ UNCHANGED <<exchange, theirs, announced, unheard>>

FeedsNext == Announce \/ Change \/ Aside \/ Flawed

FeedsSpec == FeedsInit /\ [][FeedsNext]_feedsVars

(***************************************************************************)
(* Properties                                                              *)
(***************************************************************************)
(* An adapter publishes under the name of its own exchange: the quotes of   *)
(* the seven others are never touched, although all adapters are copies of  *)
(* one another.                                                            *)
OwnQuotesOnly ==
    \A e \in Exchange \ {exchange} : \A s \in Side, p \in Price : quote[e][s][p] = 0

(* The exchanges that send their book after the subscription, and whose     *)
(* adapter reads it, are mirrored: after every message the quotes are the   *)
(* exchange's book, deleted levels included, whatever the notation of its   *)
(* sides, quantities and deletions.                                        *)
Mirrored ==
    alive /\ announced /\ exchange \in {"BITMEX", "BYBIT", "COINBASE", "OKX"}
      => quote[exchange] = theirs

(* Of Binance, Kraken and the internal exchange only the levels that change *)
(* are known.  A level may be missing, but one that is quoted is quoted as  *)
(* the exchange quotes it, and a level it deleted is gone, unless its last  *)
(* change was in a message that the adapter discarded, which Kraken's       *)
(* adapter alone does.                                                     *)
NeverWrong ==
    alive /\ exchange \in {"BINANCE", "KRAKEN", "INTERNAL"} =>
        /\ \A s \in Side, p \in Price :
              <<s, p>> \notin unheard => quote[exchange][s][p] \in {0, theirs[s][p]}
        /\ exchange # "KRAKEN" => unheard = {}

(* Every level of the current book of Hyperliquid is quoted.  Levels it no  *)
(* longer lists stay quoted as well: nothing is claimed for them.          *)
CurrentLevelsQuoted ==
    alive /\ announced /\ exchange = "HYPERLIQUID" =>
        \A l \in Quoted(theirs) : quote[exchange][l[1]][l[2]] = theirs[l[1]][l[2]]

=============================================================================
