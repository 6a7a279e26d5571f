--------------------------- MODULE ExchangeProofs ---------------------------
(***************************************************************************)
(* Theorems about the exchanges' end of a feed: about ExchangeFeeds, what  *)
(* the adapters make of the messages of an exchange, for all finite sets   *)
(* of prices, all quantities and all exchanges connected; and about        *)
(* InternalExchange, the exchange of this project, for every set of peers, *)
(* every size of a burst and all bounds.  The two share no variable.       *)
(***************************************************************************)
EXTENDS ExchangeFeeds, InternalExchange, FiniteSetTheorems, NaturalsInduction,
        WellFoundedInduction, TLAPS

(***************************************************************************)
(* ExchangeFeeds: what a list of updates tells about a book                *)
(***************************************************************************)
(* The update that tells about level l of a book. *)
Update(e, book, l) ==
    [is |-> "update", exchange |-> e, side |-> l[1], price |-> l[2],
     quantity |-> book[l[1]][l[2]]]

(* Results that tell about all levels of a set, and about nothing else. *)
Tells(results, e, book, levels) ==
    /\ levels \subseteq Side \X Price
    /\ Len(results) \in Nat
    /\ DOMAIN results = 1..Len(results)
    /\ \A i \in DOMAIN results : \E l \in levels : results[i] = Update(e, book, l)
    /\ \A l \in levels : \E i \in DOMAIN results : results[i] = Update(e, book, l)
    /\ results \in Seq({Update(e, book, l) : l \in levels})

(* The greatest of some positions: the one least far from the end. *)
LEMMA LastIs ==
    ASSUME NEW n \in Nat, NEW S, S \subseteq 0..n, S # {}
    PROVE  Sets!Max(S) \in S /\ \A i \in S : i <= Sets!Max(S)
<1> DEFINE T == {n - i : i \in S}
           R == {ss \in Nat \X Nat : ss[1] < ss[2]}
<1>1. IsWellFoundedOn(R, Nat)
  BY NatLessThanWellFounded, Zenon DEF OpToRel
<1>0. \A i \in S : i \in Nat /\ n - i \in Nat
  OBVIOUS
<1>2. T \subseteq Nat /\ T # {}
  BY <1>0
<1>3. \A i, j \in S : ~(<<n - i, n - j>> \in R) => i <= j
  BY <1>0
<1>4. \A x \in T : \E i \in S : x = n - i
  OBVIOUS
<1>5. \A i \in S : n - i \in T
  OBVIOUS
<1> HIDE DEF R, T
<1>6. PICK x \in T : \A y \in T : ~(<<y, x>> \in R)
  BY <1>1, <1>2, WFMin
<1>7. PICK j \in S : x = n - j
  BY <1>4, <1>6
<1>8. \A i \in S : j >= i
  BY <1>0, <1>3, <1>5, <1>6, <1>7
<1>9. Sets!Max(S) \in S /\ \A y \in S : Sets!Max(S) >= y
  BY <1>8 DEF Sets!Max
<1>10. QED
  BY <1>9

(* SetToSeq lists all elements of a finite set. *)
LEMMA Listed ==
    ASSUME NEW S, IsFiniteSet(S)
    PROVE  /\ Cardinality(S) \in Nat
           /\ Sequence!SetToSeq(S) \in [1..Cardinality(S) -> S]
           /\ \A x \in S : \E i \in 1..Cardinality(S) : Sequence!SetToSeq(S)[i] = x
<1> DEFINE n == Cardinality(S)
           Inj(f) == \A a, b \in DOMAIN f : f[a] = f[b] => a = b
           f == Sequence!SetToSeq(S)
<1>1. n \in Nat /\ ExistsBijection(1..n, S)
  BY FS_CardinalityType
<1>2. PICK g : g \in Bijection(1..n, S)
  BY <1>1 DEF ExistsBijection
<1>3. g \in [1..n -> S] /\ Inj(g)
  BY <1>2 DEF Bijection, Injection, IsInjective
<1>4. f = CHOOSE h \in [1..n -> S] : Inj(h)
  BY Zenon DEF Sequence!SetToSeq, Sequence!IsInjective, Sequence!Cardinality, Cardinality
<1> HIDE DEF f
<1>5. f \in [1..n -> S] /\ Inj(f)
  <2> HIDE DEF n, Inj
  <2>1. QED
    BY <1>3, <1>4
<1>6. f \in Injection(1..n, S)
  BY <1>5 DEF Injection, IsInjective
<1>7. IsFiniteSet(1..n) /\ Cardinality(1..n) = n
  BY <1>1, FS_Interval
<1>8. f \in Surjection(1..n, S)
  BY <1>6, <1>7, FS_Injection
<1>9. \A x \in S : \E i \in 1..n : f[i] = x
  BY <1>8 DEF Surjection
<1>10. QED
  BY <1>1, <1>5, <1>9 DEF f

(* Results that tell about levels are all published. *)
LEMMA OutcomeTells ==
    ASSUME NEW results, NEW e, NEW book, NEW levels, Tells(results, e, book, levels)
    PROVE  outcome(results) = [published |-> results, throws |-> FALSE]
<1> DEFINE n == Len(results)
           clean == {k \in 0..n : \A i \in 1..k : results[i].is # "exception"}
<1>1. n \in Nat /\ DOMAIN results = 1..n /\ results \in Seq({Update(e, book, l) : l \in levels})
  BY DEF Tells
<1>2. \A i \in 1..n : results[i].is # "exception"
  BY <1>1 DEF Tells, Update
<1>3. n \in clean /\ clean \subseteq 0..n
  BY <1>1, <1>2
<1>4. Sets!Max(clean) = n
  <2> HIDE DEF n, clean
  <2>1. Sets!Max(clean) \in clean /\ n <= Sets!Max(clean)
    BY <1>1, <1>3, LastIs
  <2>2. Sets!Max(clean) \in 0..n
    BY <1>3, <2>1
  <2>3. QED
    BY <1>1, <2>1, <2>2
<1>5. SubSeq(results, 1, n) = results
  BY <1>1
<1>6. outcome(results) = [published |-> SubSeq(results, 1, Sets!Max(clean)),
                          throws |-> Sets!Max(clean) < n]
  BY DEF outcome
<1>7. (n < n) = FALSE
  BY <1>1
<1> HIDE DEF clean, n
<1>8. QED
  BY <1>4, <1>5, <1>6, <1>7

(* The table after results that tell about some levels. *)
LEMMA WrittenIs ==
    ASSUME NEW results, NEW e, NEW book, NEW levels, Tells(results, e, book, levels),
           NEW table, NEW x \in Exchange, NEW s \in Side, NEW p \in Price
    PROVE  written(table, results)[x][s][p] =
             IF x = e /\ <<s, p>> \in levels THEN book[s][p] ELSE table[x][s][p]
<1> DEFINE updates == {i \in DOMAIN results :
                          /\ results[i].is = "update"
                          /\ results[i].exchange = x
                          /\ results[i].side = s
                          /\ results[i].price = p}
<1>1. written(table, results)[x][s][p] =
        IF updates = {} THEN table[x][s][p] ELSE results[Sets!Max(updates)].quantity
  BY DEF written
<1>2. updates \subseteq 0..Len(results) /\ Len(results) \in Nat
  BY DEF Tells
<1>3. ASSUME NEW i \in updates
      PROVE  x = e /\ <<s, p>> \in levels /\ results[i].quantity = book[s][p]
  <2>1. PICK l \in levels : l \in Side \X Price /\ results[i] = Update(e, book, l)
    BY DEF Tells
  <2>2. l[1] = s /\ l[2] = p /\ x = e /\ results[i].quantity = book[s][p]
    BY <2>1 DEF Update
  <2>3. l = <<s, p>>
    BY <2>1, <2>2
  <2>4. QED
    BY <2>2, <2>3
<1>4. ASSUME x = e, <<s, p>> \in levels PROVE updates # {}
  <2>1. PICK i \in DOMAIN results : results[i] = Update(e, book, <<s, p>>)
    BY <1>4 DEF Tells
  <2>2. i \in updates
    BY <1>4, <2>1 DEF Update
  <2>3. QED
    BY <2>2
<1> HIDE DEF updates
<1>5. CASE updates = {}
  BY <1>1, <1>4, <1>5
<1>6. CASE updates # {}
  <2>1. Sets!Max(updates) \in updates
    BY <1>2, <1>6, LastIs
  <2>2. QED
    BY <1>1, <1>3, <1>6, <2>1
<1>7. QED
  BY <1>5, <1>6

(* Two lists that tell about levels, one after the other. *)
LEMMA BothTell ==
    ASSUME NEW e, NEW book, NEW L, NEW M, NEW r, NEW q,
           Tells(r, e, book, L), Tells(q, e, book, M)
    PROVE  Tells(r \o q, e, book, L \cup M)
<1> DEFINE U == {Update(e, book, l) : l \in L \cup M}
           m == Len(r)  n == Len(q)
<1>1. r \in Seq(U) /\ q \in Seq(U) /\ m \in Nat /\ n \in Nat
  <2>1. /\ {Update(e, book, l) : l \in L} \subseteq U /\ {Update(e, book, l) : l \in M} \subseteq U
    OBVIOUS
  <2> HIDE DEF U
  <2>2. QED
    BY <2>1 DEF Tells
<1>2. /\ r \o q \in Seq(U) /\ Len(r \o q) = m + n /\ DOMAIN (r \o q) = 1..(m + n)
      /\ DOMAIN r = 1..m /\ DOMAIN q = 1..n
      /\ \A i \in 1..m : (r \o q)[i] = r[i] /\ i \in 1..(m + n)
      /\ \A i \in 1..n : (r \o q)[m + i] = q[i] /\ m + i \in 1..(m + n)
  <2> HIDE DEF U
  <2>1. QED
    BY <1>1
<1>3. \A i \in 1..(m + n) : \E l \in L \cup M : (r \o q)[i] = Update(e, book, l)
  BY <1>2
<1>4. \A l \in L : \E i \in 1..(m + n) : (r \o q)[i] = Update(e, book, l)
  BY <1>2 DEF Tells
<1>5. \A l \in M : \E i \in 1..(m + n) : (r \o q)[i] = Update(e, book, l)
  BY <1>2, ZenonT(40) DEF Tells
<1>6. L \cup M \subseteq Side \X Price /\ m + n \in Nat
  BY <1>1 DEF Tells
<1> HIDE DEF m, n
<1>7. QED
  BY <1>2, <1>3, <1>4, <1>5, <1>6 DEF Tells

(* One result for each position of a list of levels. *)
LEMMA EachTells ==
    ASSUME NEW e, NEW book, NEW L, L \subseteq Side \X Price, IsFiniteSet(L), NEW r,
           r = [i \in DOMAIN Sequence!SetToSeq(L) |-> Update(e, book, Sequence!SetToSeq(L)[i])]
    PROVE  Tells(r, e, book, L)
<1> DEFINE f == Sequence!SetToSeq(L)  n == Cardinality(L)
<1>1. n \in Nat /\ f \in [1..n -> L] /\ \A x \in L : \E i \in 1..n : f[i] = x
  BY Listed
<1> HIDE DEF f, n
<1>2. r = [i \in 1..n |-> Update(e, book, f[i])]
  BY <1>1 DEF f
<1>3. Len(r) = n /\ DOMAIN r = 1..n
  BY <1>1, <1>2
<1>4. r \in Seq({Update(e, book, l) : l \in L})
  BY <1>1, <1>2, SMTT(30)
<1>5. \A i \in 1..n : r[i] = Update(e, book, f[i]) /\ f[i] \in L
  BY <1>1, <1>2
<1>6. \A i \in 1..n : \E l \in L : r[i] = Update(e, book, l)
  BY <1>5
<1>7. \A l \in L : \E i \in 1..n : r[i] = Update(e, book, l)
  BY <1>1, <1>5
<1>8. QED
  BY <1>1, <1>3, <1>4, <1>6, <1>7 DEF Tells

(* The messages of the exchanges that list levels by side. *)
LEMMA SideTells ==
    ASSUME NEW e, e \in Exchange \ RowWise, NEW book \in Depths, NEW s \in Side,
           NEW L, L \subseteq Side \X Price, IsFiniteSet(L), \A l \in L : l[1] = s,
           NEW entries, entries = Rows(e, book, L)
    PROVE  Tells(listed(e, s, entries), e, book, L) /\ Tells(listedIfPair(e, s, entries), e, book, L)
<1> DEFINE f == Sequence!SetToSeq(L)  n == Cardinality(L)
<1>1. n \in Nat /\ f \in [1..n -> L]
  BY Listed
<1> HIDE DEF f, n
<1>2. entries = [i \in 1..n |-> [side |-> Word(e, f[i][1]), price |-> f[i][2],
                                 quantity |-> Written(e, book[f[i][1]][f[i][2]])]]
  BY <1>1 DEF f, Rows
<1>3. ASSUME NEW i \in 1..n
      PROVE  /\ entries[i].quantity # Missing
             /\ publish(e, s, entries[i].price, entries[i].quantity) = Update(e, book, f[i])
  <2>0. f[i] \in L
    BY <1>1
  <2>1. f[i][1] = s /\ f[i][2] \in Price /\ f[i][2] \in Nat
    BY <2>0, PriceAssumption
  <2>2. book[s][f[i][2]] \in Nat
    BY <2>1, QuantityAssumption DEF Depths
  <2>3. entries[i].price = f[i][2] /\ entries[i].quantity = book[s][f[i][2]]
    BY <1>2, <2>1 DEF Written, RowWise
  <2>4. Broken \notin {s, entries[i].price, entries[i].quantity} /\ entries[i].quantity # Missing
    BY <2>1, <2>2, <2>3, TextAssumption
  <2>5. QED
    BY <2>1, <2>3, <2>4 DEF publish, Update
<1>4. DOMAIN entries = 1..n
  BY <1>2
<1>5. listed(e, s, entries) = [i \in 1..n |-> Update(e, book, f[i])]
  BY <1>3, <1>4 DEF listed
<1>6. listedIfPair(e, s, entries) = [i \in 1..n |-> Update(e, book, f[i])]
  BY <1>3, <1>4 DEF listedIfPair
<1>7. DOMAIN f = 1..n
  BY <1>1
<1>8. QED
  BY <1>5, <1>6, <1>7, EachTells DEF f

(* The rows of a message, and what may stand for a quantity in them. *)
LEMMA RowsType ==
    ASSUME NEW e, NEW book \in Depths, NEW L, L \subseteq Side \X Price, IsFiniteSet(L)
    PROVE  /\ DOMAIN Rows(e, book, L) = 1..Cardinality(L) /\ Cardinality(L) \in Nat
           /\ \A i \in 1..Cardinality(L) : Rows(e, book, L)[i].quantity \in Nat \cup {Missing}
<1> DEFINE f == Sequence!SetToSeq(L)  n == Cardinality(L)
<1>1. n \in Nat /\ f \in [1..n -> L]
  BY Listed
<1> HIDE DEF f, n
<1>2. Rows(e, book, L) = [i \in 1..n |-> [side |-> Word(e, f[i][1]), price |-> f[i][2],
                              quantity |-> Written(e, book[f[i][1]][f[i][2]])]]
  BY <1>1 DEF f, Rows
<1>3. \A l \in L : book[l[1]][l[2]] \in Nat
  BY QuantityAssumption DEF Depths
<1>4. \A q \in Nat : Written(e, q) \in Nat \cup {Missing}
  BY DEF Written, Satoshi
<1>5. QED
  BY <1>1, <1>2, <1>3, <1>4 DEF n

(* The messages of the exchanges that list rows: each row, read as its      *)
(* adapter does.                                                           *)
LEMMA RowTells ==
    ASSUME NEW e, e \in RowWise, NEW book \in Depths,
           NEW L, L \subseteq Side \X Price, IsFiniteSet(L),
           NEW rows, rows = Rows(e, book, L),
           NEW read, DOMAIN read = Nat \cup {Missing},
           \A q \in Nat : read[Written(e, q)] = q,
           NEW results,
           results = [i \in DOMAIN rows |->
                        publish(e, fromStringSide(rows[i].side), rows[i].price, read[rows[i].quantity])]
    PROVE  Tells(results, e, book, L)
<1> DEFINE f == Sequence!SetToSeq(L)  n == Cardinality(L)
<1>1. n \in Nat /\ f \in [1..n -> L]
  BY Listed
<1> HIDE DEF f, n
<1>2. rows = [i \in 1..n |-> [side |-> Word(e, f[i][1]), price |-> f[i][2],
                              quantity |-> Written(e, book[f[i][1]][f[i][2]])]]
  BY <1>1 DEF f, Rows
<1>3. ASSUME NEW i \in 1..n
      PROVE  publish(e, fromStringSide(rows[i].side), rows[i].price, read[rows[i].quantity])
               = Update(e, book, f[i])
  <2> DEFINE l == f[i]  q == book[l[1]][l[2]]
  <2>0. l \in L
    BY <1>1
  <2>1. l[1] \in Side /\ l[2] \in Price /\ l[2] \in Nat
    BY <2>0, PriceAssumption
  <2>2. q \in Nat
    BY <2>1, QuantityAssumption DEF Depths
  <2>3. rows[i].side = Word(e, l[1]) /\ rows[i].price = l[2] /\ rows[i].quantity = Written(e, q)
    BY <1>2
  <2>4. fromStringSide(Word(e, l[1])) = l[1]
    BY <2>1 DEF fromStringSide, Word, Side, RowWise
  <2>5. read[rows[i].quantity] = q
    BY <2>2, <2>3
  <2> HIDE DEF q
  <2>6. Broken \notin {l[1], l[2], q}
    BY <2>1, <2>2, TextAssumption
  <2>7. publish(e, l[1], l[2], q) = Update(e, book, l)
    BY <2>6 DEF publish, Update, q
  <2>8. QED
    BY <2>3, <2>4, <2>5, <2>7
<1>4. DOMAIN rows = 1..n /\ DOMAIN f = 1..n
  BY <1>1, <1>2
<1>5. results = [i \in 1..n |-> Update(e, book, f[i])]
  BY <1>3, <1>4
<1>6. QED
  BY <1>4, <1>5, EachTells DEF f

(* What the adapter of an exchange makes of a message about some levels of  *)
(* its book: the updates of exactly these levels.                          *)
LEMMA ProcessTells ==
    ASSUME NEW e \in Exchange, NEW members, NEW size, NEW book \in Depths,
           NEW L, L \subseteq Side \X Price, IsFiniteSet(L),
           e = "INTERNAL" => Cardinality(L) = 1,
           e = "KRAKEN" => members # "snapshot"
    PROVE  /\ Tells(processMessage(e, Message(e, members, size, book, L)).published, e, book, L)
           /\ processMessage(e, Message(e, members, size, book, L)).throws = FALSE
<1> DEFINE m == Message(e, members, size, book, L)
           of(s) == {l \in L : l[1] = s}
           Good(o) == Tells(o.published, e, book, L) /\ o.throws = FALSE
<1>1. \A results : Tells(results, e, book, L) => Good(outcome(results))
  BY OutcomeTells
<1>2. /\ of("ASK") \cup of("BID") = L /\ of("BID") \cup of("ASK") = L
      /\ \A s \in Side : IsFiniteSet(of(s)) /\ of(s) \subseteq Side \X Price
  BY FS_Subset DEF Side
<1>3. "ASK" \in Side /\ "BID" \in Side
  BY DEF Side
<1>4. \A l \in of("ASK") : l[1] = "ASK"
  OBVIOUS
<1>5. \A l \in of("BID") : l[1] = "BID"
  OBVIOUS
<1>6. e \notin RowWise => m.ask = Rows(e, book, of("ASK")) /\ m.bid = Rows(e, book, of("BID"))
                          /\ m.members = members
  BY DEF Message
<1>7. e \in RowWise => m.rows = Rows(e, book, L)
  BY DEF Message
<1> HIDE DEF of, m, Good
<1>8. ASSUME e \notin RowWise
      PROVE  /\ Good(outcome(listed(e, "ASK", m.ask) \o listed(e, "BID", m.bid)))
             /\ Good(outcome(listed(e, "BID", m.bid) \o listed(e, "ASK", m.ask)))
             /\ Good(outcome(listedIfPair(e, "ASK", m.ask) \o listedIfPair(e, "BID", m.bid)))
  <2>1. Tells(listed(e, "ASK", m.ask), e, book, of("ASK")) /\ Tells(listedIfPair(e, "ASK", m.ask), e, book, of("ASK"))
    BY <1>2, <1>3, <1>4, <1>6, <1>8, SideTells
  <2>2. Tells(listed(e, "BID", m.bid), e, book, of("BID")) /\ Tells(listedIfPair(e, "BID", m.bid), e, book, of("BID"))
    BY <1>2, <1>3, <1>5, <1>6, <1>8, SideTells
  <2>3. /\ Tells(listed(e, "ASK", m.ask) \o listed(e, "BID", m.bid), e, book, L)
        /\ Tells(listed(e, "BID", m.bid) \o listed(e, "ASK", m.ask), e, book, L)
        /\ Tells(listedIfPair(e, "ASK", m.ask) \o listedIfPair(e, "BID", m.bid), e, book, L)
    BY <1>2, <2>1, <2>2, BothTell
  <2>4. QED
    BY <1>1, <2>3
<1>10. CASE e \notin RowWise
  <2>1. e \in {"BINANCE", "BYBIT", "HYPERLIQUID", "KRAKEN", "OKX"}
    BY <1>10 DEF Exchange, RowWise
  <2>2. CASE e = "BINANCE"
    BY <1>8, <1>10, <2>2 DEF processMessage, processBinance, m, Good
  <2>3. CASE e = "BYBIT"
    BY <1>8, <1>10, <2>3 DEF processMessage, processBybit, m, Good
  <2>4. CASE e = "HYPERLIQUID"
    BY <1>8, <1>10, <2>4 DEF processMessage, processHyperliquid, m, Good
  <2>5. CASE e = "KRAKEN"
    BY <1>6, <1>8, <1>10, <2>5 DEF processMessage, processKraken, m, Good
  <2>6. CASE e = "OKX"
    BY <1>8, <1>10, <2>6 DEF processMessage, processOKX, m, Good
  <2>7. QED
    BY <2>1, <2>2, <2>3, <2>4, <2>5, <2>6
<1>11. CASE e \in RowWise
  <2> DEFINE rows == Rows(e, book, L)
             Says(read) == [i \in DOMAIN rows |->
                publish(e, fromStringSide(rows[i].side), rows[i].price, read[rows[i].quantity])]
             same == [q \in Nat \cup {Missing} |-> q]
             bitcoins == [q \in Nat \cup {Missing} |-> IF q = Missing THEN 0 ELSE q \div Satoshi]
  <2>1. m.rows = rows
    BY <1>7, <1>11
  <2>2. DOMAIN rows = 1..Cardinality(L) /\ \A i \in DOMAIN rows : rows[i].quantity \in Nat \cup {Missing}
    BY <1>11, RowsType
  <2>3. ASSUME NEW read, DOMAIN read = Nat \cup {Missing}, \A q \in Nat : read[Written(e, q)] = q
        PROVE  Good(outcome(Says(read)))
    <3> DEFINE results == Says(read)
    <3>1. Tells(results, e, book, L)
      BY <1>11, <2>3, RowTells
    <3> HIDE DEF results
    <3>2. Good(outcome(results))
      BY <1>1, <3>1
    <3>3. QED
      BY <3>2 DEF results
  <2>4. e # "BITMEX" => \A q \in Nat : same[Written(e, q)] = q
    BY DEF Written
  <2>5. e = "BITMEX" => \A q \in Nat : bitcoins[Written(e, q)] = q
    <3> SUFFICES ASSUME e = "BITMEX", NEW q \in Nat PROVE bitcoins[Written(e, q)] = q
      OBVIOUS
    <3>1. CASE q = 0
      BY <3>1 DEF Written
    <3>2. CASE q # 0
      <4>1. Written(e, q) = q * Satoshi
        BY <3>2 DEF Written
      <4>2. q * Satoshi \in Nat /\ (q * Satoshi) \div Satoshi = q
        BY DEF Satoshi
      <4>3. QED
        BY <4>1, <4>2, TextAssumption
    <3>3. QED
      BY <3>1, <3>2
  <2>6. DOMAIN same = Nat \cup {Missing} /\ DOMAIN bitcoins = Nat \cup {Missing}
    OBVIOUS
  <2>7. \A q \in Nat \cup {Missing} : same[q] = q
    OBVIOUS
  <2> HIDE DEF rows
  <2>8. CASE e = "BITMEX"
    <3>1. processBitMEX(m) = outcome(Says(bitcoins))
      BY <2>1, <2>2, <2>8, TextAssumption DEF processBitMEX
    <3> HIDE DEF Says, bitcoins
    <3>2. QED
      BY <2>3, <2>5, <2>6, <2>8, <3>1, ZenonT(40) DEF processMessage, m, Good
  <2> HIDE DEF same, bitcoins
  <2>9. CASE e = "COINBASE"
    <3>1. processCoinbase(m) = outcome(Says(same))
      BY <2>1, <2>2, <2>7, <2>9 DEF processCoinbase
    <3> HIDE DEF Says
    <3>2. QED
      BY <2>3, <2>4, <2>6, <2>9, <3>1, ZenonT(40) DEF processMessage, m, Good
  <2>10. CASE e = "INTERNAL"
    <3>1. DOMAIN rows = 1..1 /\ 1 \in DOMAIN rows
      BY <2>2, <2>10
    <3> DEFINE u == publish("INTERNAL", fromStringSide(rows[1].side), rows[1].price, rows[1].quantity)
    <3>2. Says(same) = [i \in 1..1 |-> u]
      <4>1. \A i \in 1..1 : i = 1
        OBVIOUS
      <4>2. same[rows[1].quantity] = rows[1].quantity
        BY <2>2, <2>7, <3>1
      <4>3. QED
        BY <2>10, <3>1, <4>1, <4>2
    <3> HIDE DEF u
    <3>3. [i \in 1..1 |-> u] = <<u>>
      OBVIOUS
    <3> HIDE DEF Says
    <3>4. processInternal(m) = outcome(Says(same))
      BY <2>1, <3>2, <3>3 DEF processInternal, u
    <3>5. QED
      BY <2>3, <2>4, <2>6, <2>10, <3>4 DEF processMessage, m, Good
  <2>11. QED
    BY <1>11, <2>8, <2>9, <2>10 DEF RowWise
<1>12. QED
  BY <1>10, <1>11

(***************************************************************************)
(* The inductive invariant of ExchangeFeeds                                *)
(***************************************************************************)
FeedsTypeOK ==
    /\ exchange \in Exchange
    /\ theirs \in Depths
    /\ announced \in BOOLEAN
    /\ quote \in [Exchange -> [Side -> [Price -> Quantity \cup {0}]]]
    /\ alive \in BOOLEAN

(* Before the exchange has sent its book nothing is quoted. *)
Fresh ==
    ~announced =>
        /\ exchange \notin Unannounced
        /\ \A e \in Exchange, s \in Side, p \in Price : quote[e][s][p] = 0

FeedsInv ==
    FeedsTypeOK /\ Fresh /\ OwnQuotesOnly /\ Mirrored /\ NeverWrong /\ CurrentLevelsQuoted

(* The quotes after the levels L of a book were told. *)
Told(book, L) ==
    \A e \in Exchange, s \in Side, p \in Price :
        quote'[e][s][p] = IF e = exchange /\ <<s, p>> \in L THEN book[s][p] ELSE quote[e][s][p]

(* A message lists finitely many levels. *)
LEMMA LevelsAreFinite == ASSUME NEW L, L \subseteq Side \X Price PROVE IsFiniteSet(L)
<1>1. IsFiniteSet(Side)
  <2>1. Side = {"ASK"} \cup {"BID"}
    BY DEF Side
  <2>2. QED
    BY <2>1, FS_Singleton, FS_Union
<1>2. IsFiniteSet(Side \X Price)
  BY <1>1, FiniteAssumption, FS_Product
<1>3. QED
  BY <1>2, FS_Subset

(* Every adapter accepts a message about the book, Kraken's one with four   *)
(* elements.                                                               *)
LEMMA BookIsAccepted ==
    ASSUME FeedsTypeOK, NEW m, m.topic = "book", exchange = "KRAKEN" => m.size = 4
    PROVE  checkMessage(exchange, m) = "yes"
BY DEF FeedsTypeOK, Exchange, checkMessage, checkBinance, checkBitMEX, checkBybit, checkCoinbase,
   checkHyperliquid, checkInternal, checkKraken, checkOKX

(* A message about the levels L of a book leaves the process alive, and     *)
(* these levels, no others, are quoted as in the book.                     *)
LEMMA MessageTells ==
    ASSUME FeedsTypeOK, NEW members, NEW size, NEW book \in Depths, NEW L, L \subseteq Side \X Price,
           exchange = "INTERNAL" => Cardinality(L) = 1,
           exchange = "KRAKEN" => members # "snapshot" /\ size = 4,
           OnMessage(Message(exchange, members, size, book, L))
    PROVE  /\ Told(book, L) /\ alive' = TRUE
           /\ quote' \in [Exchange -> [Side -> [Price -> Quantity \cup {0}]]]
<1> DEFINE m == Message(exchange, members, size, book, L)
           results == processMessage(exchange, m).published
<1>1. Tells(results, exchange, book, L) /\ processMessage(exchange, m).throws = FALSE
  BY LevelsAreFinite, ProcessTells DEF FeedsTypeOK
<1>2. checkMessage(exchange, m) = "yes"
  <2>1. m.topic = "book" /\ m.size = size
    BY DEF Message
  <2> HIDE DEF m
  <2>2. QED
    BY <2>1, BookIsAccepted
<1> HIDE DEF m
<1>3. quote' = written(quote, results) /\ alive' = TRUE
  BY <1>1, <1>2 DEF OnMessage, m
<1> HIDE DEF results
<1>4. \A e \in Exchange, s \in Side, p \in Price :
        written(quote, results)[e][s][p] =
          IF e = exchange /\ <<s, p>> \in L THEN book[s][p] ELSE quote[e][s][p]
  <2> TAKE e \in Exchange, s \in Side, p \in Price
  <2>1. QED
    BY <1>1, WrittenIs
<1>5. Told(book, L)
  BY <1>3, <1>4 DEF Told
<1>6. \A e \in Exchange, s \in Side, p \in Price : quote'[e][s][p] \in Quantity \cup {0}
  <2> TAKE e \in Exchange, s \in Side, p \in Price
  <2>1. book[s][p] \in Quantity /\ quote[e][s][p] \in Quantity \cup {0}
    BY DEF FeedsTypeOK, Depths
  <2>2. QED
    BY <1>5, <2>1 DEF Told
<1>7. quote' \in [Exchange -> [Side -> [Price -> Quantity \cup {0}]]]
  <2>1. quote' = [e \in Exchange |-> [s \in Side |-> [p \in Price |-> quote'[e][s][p]]]]
    BY <1>3 DEF written
  <2>2. QED
    BY <1>6, <2>1
<1>8. QED
  BY <1>3, <1>5, <1>7

(* Kraken's book after the subscription is not read. *)
LEMMA KrakenAnnounces ==
    ASSUME FeedsTypeOK, exchange = "KRAKEN", NEW book, NEW L,
           OnMessage(Message(exchange, "snapshot", 4, book, L))
    PROVE  quote' = quote /\ alive' = TRUE
<1> DEFINE m == Message(exchange, "snapshot", 4, book, L)
<1>1. m.topic = "book" /\ m.members = "snapshot" /\ m.size = 4
  BY DEF Message
<1> HIDE DEF m
<1>2. outcome(<< >>) = [published |-> << >>, throws |-> FALSE]
  <2> DEFINE S == {n \in 0..Len(<< >>) : \A i \in 1..n : << >>[i].is # "exception"}
  <2>1. S = {0}
    <3>1. Len(<< >>) = 0 /\ 0..0 = {0} /\ 1..0 = {}
      OBVIOUS
    <3>2. QED
      BY <3>1
  <2>2. Sets!Max({0}) = 0
    BY DEF Sets!Max
  <2>3. outcome(<< >>) = [published |-> SubSeq(<< >>, 1, Sets!Max(S)), throws |-> Sets!Max(S) < Len(<< >>)]
    BY DEF outcome
  <2>4. SubSeq(<< >>, 1, 0) = << >> /\ (0 < Len(<< >>)) = FALSE
    OBVIOUS
  <2> HIDE DEF S
  <2>5. QED
    BY <2>1, <2>2, <2>3, <2>4
<1>3. checkMessage(exchange, m) = "yes" /\ processMessage(exchange, m) = outcome(<< >>)
  BY <1>1 DEF checkMessage, checkKraken, processMessage, processKraken
<1>4. quote' = written(quote, << >>) /\ alive' = TRUE
  <2>1. processMessage(exchange, m).published = << >> /\ processMessage(exchange, m).throws = FALSE
    BY <1>2, <1>3
  <2>2. QED
    BY <1>3, <2>1 DEF OnMessage, m
<1>5. written(quote, << >>) = quote
  BY DEF written, FeedsTypeOK
<1>6. QED
  BY <1>4, <1>5

(* Levels that cannot be read change no quote. *)
LEMMA UnreadableTellsNothing ==
    ASSUME FeedsTypeOK, NEW results \in Seq({Throws, Skip})
    PROVE  /\ written(quote, outcome(results).published) = quote
           /\ outcome(results).throws \in BOOLEAN
<1> DEFINE n == Len(results)
           clean == {k \in 0..n : \A i \in 1..k : results[i].is # "exception"}
           k == Sets!Max(clean)
<1>1. n \in Nat
  OBVIOUS
<1>2. 0 \in clean /\ clean \subseteq 0..n
  BY <1>1
<1>3. outcome(results) = [published |-> SubSeq(results, 1, k), throws |-> k < n]
  BY DEF outcome
<1> HIDE DEF clean, n
<1>4. k \in clean /\ k \in 0..n
  BY <1>1, <1>2, LastIs
<1> HIDE DEF k
<1> DEFINE r == SubSeq(results, 1, k)
<1>5. r \in Seq({Throws, Skip})
  BY <1>1, <1>4 DEF n
<1> HIDE DEF r
<1>6. \A i \in DOMAIN r : r[i].is # "update"
  BY <1>5 DEF Throws, Skip
<1>7. written(quote, r) = quote
  BY <1>6 DEF written, FeedsTypeOK
<1>8. QED
  BY <1>1, <1>3, <1>4, <1>7 DEF r

(* A side whose quantities cannot be read is skipped, or throws. *)
LEMMA FlawedSide ==
    ASSUME NEW e, NEW s, NEW n \in Nat, NEW entries, DOMAIN entries = 1..n,
           NEW flaw \in {Broken, Missing}, \A i \in 1..n : entries[i].quantity = flaw
    PROVE  /\ listedIfPair(e, s, entries) \in Seq({Throws, Skip})
           /\ flaw = Broken => listed(e, s, entries) \in Seq({Throws, Skip})
<1>1. \A i \in 1..n : flaw = Broken => publish(e, s, entries[i].price, entries[i].quantity) = Throws
  BY DEF publish
<1>2. flaw = Broken => listed(e, s, entries) = [i \in 1..n |-> Throws]
  BY <1>1 DEF listed
<1>3. CASE flaw = Broken
  <2>1. listedIfPair(e, s, entries) = [i \in 1..n |-> Throws]
    BY <1>1, <1>3, TextAssumption DEF listedIfPair
  <2>2. QED
    BY <1>2, <2>1
<1>4. CASE flaw = Missing
  <2>1. listedIfPair(e, s, entries) = [i \in 1..n |-> Skip]
    BY <1>4 DEF listedIfPair
  <2>2. QED
    BY <1>4, <2>1, TextAssumption
<1>5. QED
  BY <1>3, <1>4

(* A message whose levels are all skipped, or throw, changes no quote. *)
LEMMA UnreadableMessage ==
    ASSUME FeedsTypeOK, NEW m, m.topic = "book", m.size = 4, OnMessage(m),
           \E results \in Seq({Throws, Skip}) : processMessage(exchange, m) = outcome(results)
    PROVE  quote' = quote /\ alive' \in BOOLEAN
<1>1. PICK results \in Seq({Throws, Skip}) : processMessage(exchange, m) = outcome(results)
  OBVIOUS
<1>2. quote' = written(quote, outcome(results).published) /\ alive' = ~outcome(results).throws
  BY <1>1, BookIsAccepted DEF OnMessage
<1>3. QED
  BY <1>2, UnreadableTellsNothing

(* A message with a flaw in its only level changes no quote. *)
LEMMA FlawTellsNothing ==
    ASSUME FeedsTypeOK, Flawed
    PROVE  quote' = quote /\ alive' \in BOOLEAN
<1>1. PICK l \in Side \X Price, flaw \in {Broken, Missing} :
        LET m == Message(exchange, "update", 4, theirs, {l})
        IN  /\ flaw = Missing => exchange \in {"BINANCE", "OKX"}
            /\ OnMessage(IF exchange \in RowWise THEN [m EXCEPT !.rows[1].quantity = flaw]
                         ELSE IF l[1] = "ASK" THEN [m EXCEPT !.ask[1].quantity = flaw]
                         ELSE [m EXCEPT !.bid[1].quantity = flaw])
  BY DEF Flawed
<1> DEFINE m == Message(exchange, "update", 4, theirs, {l})
           f == IF exchange \in RowWise THEN [m EXCEPT !.rows[1].quantity = flaw]
                ELSE IF l[1] = "ASK" THEN [m EXCEPT !.ask[1].quantity = flaw]
                ELSE [m EXCEPT !.bid[1].quantity = flaw]
           of(s) == {x \in {l} : x[1] = s}
<1>2. OnMessage(f) /\ (flaw = Missing => exchange \in {"BINANCE", "OKX"})
  BY <1>1
<1>3. l[1] \in Side /\ {l} \subseteq Side \X Price /\ theirs \in Depths /\ IsFiniteSet({l})
  BY FS_Singleton DEF FeedsTypeOK
<1>4. \A s \in Side : of(s) = IF s = l[1] THEN {l} ELSE {}
  OBVIOUS
<1>5. Cardinality({l}) = 1 /\ Cardinality({}) = 0
  BY FS_Singleton, FS_EmptySet
<1>6. DOMAIN Rows(exchange, theirs, {l}) = 1..1 /\ DOMAIN Rows(exchange, theirs, {}) = 1..0
  <2>1. DOMAIN Rows(exchange, theirs, {l}) = 1..1
    BY <1>3, <1>5, RowsType
  <2>2. IsFiniteSet({}) /\ {} \subseteq Side \X Price
    BY FS_EmptySet
  <2>3. DOMAIN Rows(exchange, theirs, {}) = 1..0
    BY <1>3, <1>5, <2>2, RowsType
  <2>4. QED
    BY <2>1, <2>3
<1>7. CASE exchange \in RowWise
  <2>1. m = [topic |-> "book", members |-> "update", size |-> 4, rows |-> Rows(exchange, theirs, {l})]
    BY <1>7 DEF Message
  <2> DEFINE rows == Rows(exchange, theirs, {l})
  <2> HIDE DEF m, rows
  <2>3. f = [m EXCEPT !.rows[1].quantity = flaw]
    BY <1>7
  <2> HIDE DEF f
  <2>4. f.topic = "book" /\ f.size = 4 /\ DOMAIN f.rows = 1..1 /\ f.rows[1].quantity = flaw
    BY <1>6, <2>1, <2>3 DEF rows
  <2>5. flaw = Broken
    BY <1>2, <1>7 DEF RowWise
  <2>6. \A e, s, p : publish(e, s, p, Broken) = Throws
    BY DEF publish
  <2>7. \A i \in DOMAIN f.rows : f.rows[i].quantity = Broken
    BY <2>4, <2>5
  <2>8. \E results \in Seq({Throws, Skip}) : processMessage(exchange, f) = outcome(results)
    <3>1. CASE exchange = "BITMEX"
      <4>1. processBitMEX(f) = outcome([i \in 1..1 |-> Throws])
        BY <2>4, <2>6, <2>7, TextAssumption DEF processBitMEX
      <4>2. QED
        BY <3>1, <4>1 DEF processMessage
    <3>2. CASE exchange = "COINBASE"
      <4>1. processCoinbase(f) = outcome([i \in 1..1 |-> Throws])
        BY <2>4, <2>6, <2>7 DEF processCoinbase
      <4>2. QED
        BY <3>2, <4>1 DEF processMessage
    <3>3. CASE exchange = "INTERNAL"
      <4>1. processInternal(f) = outcome(<<Throws>>)
        BY <2>4, <2>5, <2>6 DEF processInternal
      <4>2. QED
        BY <3>3, <4>1 DEF processMessage
    <3>4. QED
      BY <1>7, <3>1, <3>2, <3>3 DEF RowWise
  <2>9. QED
    BY <1>2, <2>4, <2>8, UnreadableMessage
<1>8. CASE exchange \notin RowWise
  <2> DEFINE ask == Rows(exchange, theirs, of("ASK"))
             bid == Rows(exchange, theirs, of("BID"))
  <2>1. m = [topic |-> "book", members |-> "update", size |-> 4, ask |-> ask, bid |-> bid]
    BY <1>8 DEF Message
  <2>2. /\ l[1] = "ASK" => DOMAIN ask = 1..1 /\ DOMAIN bid = 1..0
        /\ l[1] # "ASK" => DOMAIN ask = 1..0 /\ DOMAIN bid = 1..1
    BY <1>3, <1>4, <1>6 DEF Side
  <2> HIDE DEF m, ask, bid
  <2>3. f.topic = "book" /\ f.members = "update" /\ f.size = 4
    BY <1>8, <2>1
  <2>4. \E a, b \in {0, 1} :
          /\ DOMAIN f.ask = 1..a /\ \A i \in 1..a : f.ask[i].quantity = flaw
          /\ DOMAIN f.bid = 1..b /\ \A i \in 1..b : f.bid[i].quantity = flaw
    <3>1. CASE l[1] = "ASK"
      <4>1. DOMAIN f.ask = 1..1 /\ f.ask[1].quantity = flaw /\ f.bid = bid
        BY <1>8, <2>1, <2>2, <3>1
      <4>2. QED
        BY <2>2, <3>1, <4>1
    <3>2. CASE l[1] # "ASK"
      <4>1. DOMAIN f.bid = 1..1 /\ f.bid[1].quantity = flaw /\ f.ask = ask
        BY <1>8, <2>1, <2>2, <3>2
      <4>2. QED
        BY <2>2, <3>2, <4>1
    <3>3. QED
      BY <3>1, <3>2
  <2> HIDE DEF f
  <2> DEFINE Unread == Seq({Throws, Skip})
  <2>5. \A e, s : /\ listedIfPair(e, s, f.ask) \in Unread /\ listedIfPair(e, s, f.bid) \in Unread
                  /\ flaw = Broken => listed(e, s, f.ask) \in Unread /\ listed(e, s, f.bid) \in Unread
    BY <2>4, FlawedSide
  <2>6. \A r, q \in Unread : r \o q \in Unread
    OBVIOUS
  <2> HIDE DEF Unread
  <2>7. \E results \in Unread : processMessage(exchange, f) = outcome(results)
    <3>1. CASE exchange = "BINANCE"
      BY <2>5, <2>6, <3>1 DEF processMessage, processBinance
    <3>2. CASE exchange = "OKX"
      BY <2>5, <2>6, <3>2 DEF processMessage, processOKX
    <3>3. CASE exchange \notin {"BINANCE", "OKX"}
      <4>1. flaw = Broken
        BY <1>2, <3>3
      <4>2. CASE exchange = "BYBIT"
        BY <2>5, <2>6, <4>1, <4>2 DEF processMessage, processBybit
      <4>3. CASE exchange = "HYPERLIQUID"
        BY <2>5, <2>6, <4>1, <4>3 DEF processMessage, processHyperliquid
      <4>4. CASE exchange = "KRAKEN"
        BY <2>3, <2>5, <2>6, <4>1, <4>4 DEF processMessage, processKraken
      <4>5. QED
        BY <1>8, <3>3, <4>2, <4>3, <4>4 DEF FeedsTypeOK, Exchange, RowWise
    <3>4. QED
      BY <3>1, <3>2, <3>3
  <2>8. QED
    BY <1>2, <2>3, <2>7, UnreadableMessage DEF Unread
<1>9. QED
  BY <1>7, <1>8

(* A message without levels changes no quote. *)
LEMMA AsideTellsNothing ==
    ASSUME FeedsTypeOK, Aside
    PROVE  quote' = quote /\ alive' \in BOOLEAN
<1>1. PICK topic \in {"other", "bare"} :
        OnMessage([topic |-> topic, members |-> "update", ask |-> << >>, bid |-> << >>, rows |-> << >>])
  BY DEF Aside
<1> DEFINE m == [topic |-> topic, members |-> "update", ask |-> << >>, bid |-> << >>, rows |-> << >>]
<1>2. m.topic = topic
  OBVIOUS
<1> HIDE DEF m
<1>3. checkMessage(exchange, m) \in {"no", "undefined"}
  BY <1>2 DEF FeedsTypeOK, Exchange, checkMessage, checkBinance, checkBitMEX, checkBybit, checkCoinbase,
     checkHyperliquid, checkInternal, checkKraken, checkOKX
<1>4. QED
  BY <1>1, <1>3 DEF OnMessage, m, FeedsTypeOK

(* A message of Kraken with another number of elements is discarded. *)
LEMMA DiscardedTellsNothing ==
    ASSUME exchange = "KRAKEN", NEW members, NEW size, size # 4, NEW book, NEW L,
           OnMessage(Message(exchange, members, size, book, L))
    PROVE  /\ checkMessage(exchange, Message(exchange, members, size, book, L)) = "no"
           /\ UNCHANGED <<quote, alive>>
<1> DEFINE m == Message(exchange, members, size, book, L)
<1>1. m.size = size
  BY DEF Message
<1> HIDE DEF m
<1>2. checkMessage(exchange, m) = "no"
  BY <1>1 DEF checkMessage, checkKraken
<1>3. QED
  BY <1>2 DEF OnMessage, m

(* What a step may do: it changes no quote, or it tells about the levels of *)
(* their book, or about those that changed, or Kraken's adapter discards    *)
(* what changed.                                                           *)
Quiet ==
    /\ quote' = quote /\ theirs' = theirs /\ unheard' = unheard
    /\ announced' = announced \/ (exchange = "KRAKEN" /\ announced')

First ==
    /\ ~announced /\ announced' /\ theirs' = theirs /\ unheard' = unheard
    /\ Told(theirs', Quoted(theirs'))

Later ==
    LET L == IF exchange = "HYPERLIQUID" THEN Quoted(theirs') ELSE Changed(theirs, theirs')
    IN  announced /\ announced' /\ unheard' = unheard \ L /\ Told(theirs', L)

Discarded ==
    /\ exchange = "KRAKEN" /\ announced /\ announced' /\ quote' = quote
    /\ unheard' = unheard \cup Changed(theirs, theirs')

LEMMA FeedsSteps ==
    ASSUME FeedsTypeOK, Fresh, FeedsNext
    PROVE  /\ exchange' = exchange /\ alive /\ FeedsTypeOK'
           /\ Quiet \/ First \/ Later \/ Discarded
<1>1. CASE Announce
  <2>1. /\ alive /\ ~announced /\ announced' = TRUE /\ exchange' = exchange /\ theirs' = theirs
        /\ OnMessage(Message(exchange, "snapshot", 4, theirs, Quoted(theirs))) /\ unheard' = unheard
    BY <1>1 DEF Announce
  <2>2. CASE exchange = "KRAKEN"
    <3>1. quote' = quote /\ alive' = TRUE
      BY <2>1, <2>2, KrakenAnnounces
    <3>2. QED
      BY <2>1, <2>2, <3>1 DEF FeedsTypeOK, Quiet
  <2>3. CASE exchange # "KRAKEN"
    <3>1. Quoted(theirs) \subseteq Side \X Price /\ exchange # "INTERNAL" /\ theirs \in Depths
      BY <2>1 DEF Quoted, Fresh, Unannounced, FeedsTypeOK
    <3>2. /\ Told(theirs, Quoted(theirs)) /\ alive' = TRUE
          /\ quote' \in [Exchange -> [Side -> [Price -> Quantity \cup {0}]]]
      BY <2>1, <2>3, <3>1, MessageTells
    <3>3. QED
      BY <2>1, <3>2 DEF FeedsTypeOK, First
  <2>4. QED
    BY <2>2, <2>3
<1>2. CASE Change
  <2> DEFINE Levels(new) == IF exchange = "HYPERLIQUID" THEN Quoted(new) ELSE Changed(theirs, new)
  <2>1. PICK new \in Depths :
          /\ exchange = "INTERNAL" => Cardinality(Changed(theirs, new)) = 1
          /\ theirs' = new
          /\ \E size \in Sizes(exchange, Levels(new)) :
                /\ OnMessage(Message(exchange, "update", size, new, Levels(new)))
                /\ unheard' =
                     IF checkMessage(exchange, Message(exchange, "update", size, new, Levels(new))) = "no"
                       THEN unheard \cup Levels(new) ELSE unheard \ Levels(new)
    BY <1>2 DEF Change
  <2>2. alive /\ announced /\ announced' = announced /\ exchange' = exchange
    BY <1>2 DEF Change
  <2> DEFINE L == Levels(new)
  <2>3. L \subseteq Side \X Price /\ (exchange = "INTERNAL" => Cardinality(L) = 1)
    BY <2>1 DEF Quoted, Changed
  <2>4. L = IF exchange = "HYPERLIQUID" THEN Quoted(theirs') ELSE Changed(theirs, theirs')
    BY <2>1
  <2> HIDE DEF Levels
  <2>5. PICK size \in Sizes(exchange, L) :
          /\ OnMessage(Message(exchange, "update", size, new, L))
          /\ unheard' = IF checkMessage(exchange, Message(exchange, "update", size, new, L)) = "no"
                          THEN unheard \cup L ELSE unheard \ L
    BY <2>1
  <2> HIDE DEF L
  <2>6. CASE exchange = "KRAKEN" /\ size # 4
    <3>1. unheard' = unheard \cup L /\ UNCHANGED <<quote, alive>>
      BY <2>5, <2>6, DiscardedTellsNothing
    <3>2. QED
      BY <2>1, <2>2, <2>4, <2>6, <3>1 DEF FeedsTypeOK, Discarded
  <2>7. CASE exchange = "KRAKEN" => size = 4
    <3> DEFINE m == Message(exchange, "update", size, new, L)
    <3>1. /\ Told(new, L) /\ alive' = TRUE
          /\ quote' \in [Exchange -> [Side -> [Price -> Quantity \cup {0}]]]
      BY <2>3, <2>5, <2>7, MessageTells
    <3>2. m.topic = "book" /\ m.size = size
      BY DEF Message
    <3>3. unheard' = IF checkMessage(exchange, m) = "no" THEN unheard \cup L ELSE unheard \ L
      BY <2>5
    <3> HIDE DEF m
    <3>4. checkMessage(exchange, m) = "yes"
      BY <2>7, <3>2, BookIsAccepted
    <3>5. unheard' = unheard \ L
      BY <3>3, <3>4
    <3>6. Later
      BY <2>1, <2>2, <2>4, <3>1, <3>5 DEF Later
    <3>7. FeedsTypeOK'
      BY <2>1, <2>2, <3>1 DEF FeedsTypeOK
    <3>8. QED
      BY <2>2, <3>6, <3>7
  <2>8. QED
    BY <2>6, <2>7
<1>3. CASE Aside
  <2>1. /\ alive /\ exchange' = exchange /\ theirs' = theirs /\ announced' = announced
        /\ unheard' = unheard
    BY <1>3 DEF Aside
  <2>2. quote' = quote /\ alive' \in BOOLEAN
    BY <1>3, AsideTellsNothing
  <2>3. FeedsTypeOK'
    BY <2>1, <2>2 DEF FeedsTypeOK
  <2>4. QED
    BY <2>1, <2>2, <2>3 DEF Quiet
<1>4. CASE Flawed
  <2>1. /\ alive /\ exchange' = exchange /\ theirs' = theirs /\ announced' = announced
        /\ unheard' = unheard
    BY <1>4 DEF Flawed
  <2>2. quote' = quote /\ alive' \in BOOLEAN
    BY <1>4, FlawTellsNothing
  <2>3. FeedsTypeOK'
    BY <2>1, <2>2 DEF FeedsTypeOK
  <2>4. QED
    BY <2>1, <2>2, <2>3 DEF Quiet
<1>5. QED
  BY <1>1, <1>2, <1>3, <1>4 DEF FeedsNext

(***************************************************************************)
(* The four properties of the feeds                                        *)
(***************************************************************************)
(* Nothing is quoted before the first message. *)
LEMMA FeedsInitially == FeedsInit => FeedsInv
<1> SUFFICES ASSUME FeedsInit PROVE FeedsInv
  OBVIOUS
<1>1. FeedsTypeOK
  BY ConnectedAssumption DEF FeedsInit, FeedsTypeOK
<1>2. \A e \in Exchange, s \in Side, p \in Price : quote[e][s][p] = 0
  BY DEF FeedsInit
<1>3. announced <=> exchange \in Unannounced
  BY DEF FeedsInit
<1>4. Fresh /\ OwnQuotesOnly
  BY <1>2, <1>3 DEF Fresh, OwnQuotesOnly
<1>5. Mirrored /\ CurrentLevelsQuoted
  BY <1>3 DEF Mirrored, CurrentLevelsQuoted, Unannounced
<1>6. NeverWrong
  BY <1>1, <1>2 DEF NeverWrong, FeedsTypeOK, FeedsInit
<1>7. QED
  BY <1>1, <1>4, <1>5, <1>6 DEF FeedsInv

(* A step that tells about the levels that changed makes quotes right that  *)
(* were right before; the first one tells about a table without quotes.     *)
LEMMA FeedsInductive == FeedsInv /\ [FeedsNext]_feedsVars => FeedsInv'
<1> SUFFICES ASSUME FeedsInv, [FeedsNext]_feedsVars PROVE FeedsInv'
  OBVIOUS
<1>1. CASE UNCHANGED feedsVars
  BY <1>1 DEF feedsVars, FeedsInv, FeedsTypeOK, Fresh, OwnQuotesOnly, Mirrored, NeverWrong,
     CurrentLevelsQuoted, Quoted
<1>2. CASE FeedsNext
  <2>1. /\ FeedsTypeOK /\ Fresh /\ OwnQuotesOnly /\ Mirrored /\ NeverWrong /\ CurrentLevelsQuoted
    BY DEF FeedsInv
  <2>2. exchange' = exchange /\ alive /\ FeedsTypeOK'
    BY <1>2, <2>1, FeedsSteps
  <2>3. Quiet \/ First \/ Later \/ Discarded
    BY <1>2, <2>1, FeedsSteps
  <2>4. CASE Quiet
    <3>1. Fresh'
      BY <2>1, <2>2, <2>4 DEF Fresh, FeedsTypeOK, Quiet
    <3>2. OwnQuotesOnly'
      BY <2>1, <2>2, <2>4 DEF OwnQuotesOnly, Quiet
    <3>3. Mirrored' /\ CurrentLevelsQuoted'
      BY <2>1, <2>2, <2>4 DEF Mirrored, CurrentLevelsQuoted, Quoted, Quiet
    <3>4. NeverWrong'
      BY <2>1, <2>2, <2>4 DEF NeverWrong, Quiet
    <3>5. QED
      BY <2>2, <3>1, <3>2, <3>3, <3>4 DEF FeedsInv
  <2>5. \A s \in Side, p \in Price :
           /\ <<s, p>> \in Quoted(theirs') <=> theirs'[s][p] # 0
           /\ <<s, p>> \in Changed(theirs, theirs') <=> theirs[s][p] # theirs'[s][p]
    BY DEF Quoted, Changed
  <2> DEFINE Partial == exchange \in {"BINANCE", "KRAKEN", "INTERNAL"}
             Right(q, x, heard) ==
                /\ exchange \in {"BITMEX", "BYBIT", "COINBASE", "OKX"} => q = x
                /\ Partial /\ heard => q \in {0, x}
                /\ exchange = "HYPERLIQUID" /\ x # 0 => q = x
             Known(s, p) == <<s, p>> \notin unheard'
             Whole == Partial /\ exchange # "KRAKEN" => unheard' = {}
             After(L, s, p) == IF <<s, p>> \in L THEN theirs'[s][p] ELSE quote[exchange][s][p]
  <2>6. ASSUME NEW L, Told(theirs', L), announced',
               \A s \in Side, p \in Price : Right(After(L, s, p), theirs'[s][p], Known(s, p)), Whole
        PROVE  FeedsInv'
    <3>1. Fresh'
      BY <2>6 DEF Fresh
    <3>2. OwnQuotesOnly'
      <4> SUFFICES ASSUME NEW e \in Exchange \ {exchange}, NEW s \in Side, NEW p \in Price
                   PROVE  quote'[e][s][p] = 0
        BY <2>2 DEF OwnQuotesOnly
      <4>1. quote'[e][s][p] = quote[e][s][p]
        BY <2>6 DEF Told
      <4>2. QED
        BY <2>1, <4>1 DEF OwnQuotesOnly
    <3>3. \A s \in Side, p \in Price : Right(quote'[exchange][s][p], theirs'[s][p], Known(s, p))
      <4>1. \A s \in Side, p \in Price : quote'[exchange][s][p] = After(L, s, p)
        <5> TAKE s \in Side, p \in Price
        <5>1. exchange \in Exchange
          BY <2>1 DEF FeedsTypeOK
        <5>2. QED
          BY <2>6, <5>1 DEF Told
      <4> HIDE DEF Right, After, Known
      <4>2. QED
        BY <2>6, <4>1
    <3>4. Mirrored'
      <4>1. exchange \in {"BITMEX", "BYBIT", "COINBASE", "OKX"} =>
              \A s \in Side, p \in Price : quote'[exchange][s][p] = theirs'[s][p]
        BY <3>3
      <4>2. (\A s \in Side, p \in Price : quote'[exchange][s][p] = theirs'[s][p]) =>
              quote'[exchange] = theirs'
        <5> SUFFICES ASSUME \A s \in Side, p \in Price : quote'[exchange][s][p] = theirs'[s][p]
                     PROVE  quote'[exchange] = theirs'
          OBVIOUS
        <5>1. /\ quote'[exchange] \in [Side -> [Price -> Quantity \cup {0}]]
              /\ theirs' \in [Side -> [Price -> Quantity]]
          BY <2>1, <2>2 DEF FeedsTypeOK, Depths
        <5>2. \A s \in Side : quote'[exchange][s] = theirs'[s]
          BY <5>1
        <5>3. QED
          BY <5>1, <5>2
      <4>3. QED
        BY <2>2, <4>1, <4>2 DEF Mirrored
    <3>5. NeverWrong'
      BY <2>2, <2>6, <3>3 DEF NeverWrong
    <3>6. CurrentLevelsQuoted'
      <4>1. exchange = "HYPERLIQUID" => \A s \in Side, p \in Price :
              theirs'[s][p] # 0 => quote'[exchange][s][p] = theirs'[s][p]
        BY <3>3
      <4>2. QED
        BY <2>2, <4>1 DEF CurrentLevelsQuoted, Quoted
    <3>7. QED
      BY <2>2, <3>1, <3>2, <3>4, <3>5, <3>6 DEF FeedsInv
  <2>7. Partial /\ exchange # "KRAKEN" => unheard = {}
    BY <2>1, <2>2 DEF NeverWrong
  <2>8. CASE First
    <3>1. \A s \in Side, p \in Price : quote[exchange][s][p] = 0
      BY <2>1, <2>8 DEF Fresh, FeedsTypeOK, First
    <3>2. \A s \in Side, p \in Price :
            Right(After(Quoted(theirs'), s, p), theirs'[s][p], Known(s, p))
      BY <2>5, <3>1
    <3>3. Told(theirs', Quoted(theirs')) /\ announced' /\ Whole
      BY <2>7, <2>8 DEF First
    <3> HIDE DEF Right, After, Known, Whole
    <3>4. QED
      BY <2>6, <3>2, <3>3
  <2>9. CASE Later
    <3>1. CASE exchange = "HYPERLIQUID"
      <4>1. \A s \in Side, p \in Price :
              Right(After(Quoted(theirs'), s, p), theirs'[s][p], Known(s, p))
        BY <2>5, <3>1
      <4>2. Told(theirs', Quoted(theirs')) /\ announced' /\ Whole
        BY <2>9, <3>1 DEF Later
      <4> HIDE DEF Right, After, Known, Whole
      <4>3. QED
        BY <2>6, <4>1, <4>2
    <3>2. CASE exchange # "HYPERLIQUID"
      <4>1. exchange \in {"BITMEX", "BYBIT", "COINBASE", "OKX"} =>
              \A s \in Side, p \in Price : quote[exchange][s][p] = theirs[s][p]
        BY <2>1, <2>2, <2>9 DEF Mirrored, Later
      <4>2. Partial => \A s \in Side, p \in Price :
              <<s, p>> \notin unheard => quote[exchange][s][p] \in {0, theirs[s][p]}
        BY <2>1, <2>2 DEF NeverWrong
      <4>3. /\ Told(theirs', Changed(theirs, theirs')) /\ announced'
            /\ unheard' = unheard \ Changed(theirs, theirs')
        BY <2>9, <3>2 DEF Later
      <4>4. \A s \in Side, p \in Price :
              Right(After(Changed(theirs, theirs'), s, p), theirs'[s][p], Known(s, p))
        BY <2>5, <3>2, <4>1, <4>2, <4>3
      <4>5. Whole
        BY <2>7, <4>3
      <4> HIDE DEF Right, After, Known, Whole
      <4>6. QED
        BY <2>6, <4>3, <4>4, <4>5
    <3>3. QED
      BY <3>1, <3>2
  <2>10. CASE Discarded
    <3>1. Fresh' /\ OwnQuotesOnly'
      BY <2>1, <2>2, <2>10 DEF Fresh, OwnQuotesOnly, Discarded
    <3>2. Mirrored' /\ CurrentLevelsQuoted'
      BY <2>2, <2>10 DEF Mirrored, CurrentLevelsQuoted, Discarded
    <3>3. \A s \in Side, p \in Price :
            <<s, p>> \notin unheard' => quote[exchange][s][p] \in {0, theirs'[s][p]}
      <4>1. \A s \in Side, p \in Price : <<s, p>> \notin unheard' =>
              <<s, p>> \notin unheard /\ theirs[s][p] = theirs'[s][p]
        BY <2>5, <2>10 DEF Discarded
      <4>2. \A s \in Side, p \in Price :
              <<s, p>> \notin unheard => quote[exchange][s][p] \in {0, theirs[s][p]}
        BY <2>1, <2>2, <2>10 DEF NeverWrong, Discarded
      <4>3. QED
        BY <4>1, <4>2
    <3>4. NeverWrong'
      BY <2>2, <2>10, <3>3 DEF NeverWrong, Discarded
    <3>5. QED
      BY <2>2, <3>1, <3>2, <3>4 DEF FeedsInv
  <2>11. QED
    BY <2>3, <2>4, <2>8, <2>9, <2>10
<1>3. QED
  BY <1>1, <1>2

(* The inductive invariant holds throughout. *)
LEMMA FeedsAlways == FeedsSpec => []FeedsInv
BY FeedsInitially, FeedsInductive, PTL DEF FeedsSpec

(* For every set of connected exchanges, prices and quantities: an adapter  *)
(* publishes under the name of its own exchange only.                      *)
THEOREM AdaptersKeepApart == FeedsSpec => []OwnQuotesOnly
<1>1. FeedsInv => OwnQuotesOnly
  BY DEF FeedsInv
<1>2. QED
  BY <1>1, FeedsAlways, PTL

(* The adapters of BitMEX, Bybit, Coinbase and OKX read the first book and  *)
(* every change, so that these exchanges are mirrored after every message,  *)
(* however many levels they have.                                          *)
THEOREM BooksAreMirrored == FeedsSpec => []Mirrored
<1>1. FeedsInv => Mirrored
  BY DEF FeedsInv
<1>2. QED
  BY <1>1, FeedsAlways, PTL

(* Of Binance, Kraken and the internal exchange no level is quoted that the *)
(* exchange does not quote, but for levels of Kraken whose last change was  *)
(* in a message of more than four elements, which checkMessage refuses.    *)
THEOREM QuotesAreNeverWrong == FeedsSpec => []NeverWrong
<1>1. FeedsInv => NeverWrong
  BY DEF FeedsInv
<1>2. QED
  BY <1>1, FeedsAlways, PTL

(* All levels that Hyperliquid lists are quoted, although its adapter never *)
(* takes one back.                                                         *)
THEOREM ListedLevelsAreQuoted == FeedsSpec => []CurrentLevelsQuoted
<1>1. FeedsInv => CurrentLevelsQuoted
  BY DEF FeedsInv
<1>2. QED
  BY <1>1, FeedsAlways, PTL

(***************************************************************************)
(* ExchangeFeeds: its table is that of QuoteTable                          *)
(***************************************************************************)
(* The table of last quotes as QuoteTable arranges it, by side and price. *)
Transposed(table) ==
    [s \in Side |-> [p \in Price |-> [e \in Exchange |-> table[e][s][p]]]]

Table == INSTANCE QuoteTable WITH quote <- Transposed(quote)

(* What may become of a level in processMessage. *)
Results ==
    [is : {"update"}, exchange : Exchange, side : Side, price : Price, quantity : Quantity]
      \cup {Skip, Throws}

(* A message without levels changes nothing. *)
LEMMA NothingIsWritten ==
    ASSUME NEW table
    PROVE  Transposed(written(table, << >>)) = Transposed(table)
  BY DEF Transposed, written

(* Table U differs from T by one update. *)
Differs(T, U, r) ==
    \A e \in Exchange, s \in Side, p \in Price :
        U[e][s][p] = IF e = r.exchange /\ s = r.side /\ p = r.price THEN r.quantity ELSE T[e][s][p]

(* QuoteTable calls that an overwritten quote. *)
LEMMA DiffersByOverwrite ==
    ASSUME NEW T, NEW U, NEW r, r.exchange \in Exchange, r.side \in Side, r.price \in Price,
           Differs(T, U, r)
    PROVE  Transposed(U) = Table!Overwrite(Transposed(T), r)
<1> DEFINE x == r.exchange  t == r.side  k == r.price  q == r.quantity
<1>1. /\ x \in Exchange /\ t \in Side /\ k \in Price
      /\ \A e \in Exchange, s \in Side, p \in Price :
            U[e][s][p] = IF e = x /\ s = t /\ p = k THEN q ELSE T[e][s][p]
  BY DEF Differs
<1>2. Table!Overwrite(Transposed(T), r) = [Transposed(T) EXCEPT ![t][k][x] = q]
  BY DEF Table!Overwrite
<1> HIDE DEF x, t, k, q
<1> DEFINE row(s, p) == [e \in Exchange |-> U[e][s][p]]
           old(s, p) == [e \in Exchange |-> T[e][s][p]]
<1>3. row(t, k) = [old(t, k) EXCEPT ![x] = q]
  <2>1. \A e \in Exchange : U[e][t][k] = IF e = x THEN q ELSE T[e][t][k]
    BY <1>1
  <2>2. QED
    BY <1>1, <2>1
<1>4. \A s \in Side, p \in Price : ~(s = t /\ p = k) => row(s, p) = old(s, p)
  BY <1>1
<1>5. /\ Transposed(T) = [s \in Side |-> [p \in Price |-> old(s, p)]]
      /\ Transposed(U) = [s \in Side |-> [p \in Price |-> row(s, p)]]
  BY DEF Transposed
<1> HIDE DEF row, old
<1>6. [p \in Price |-> row(t, p)] = [[p \in Price |-> old(t, p)] EXCEPT ![k] = [old(t, k) EXCEPT ![x] = q]]
  BY <1>1, <1>3, <1>4
<1>7. \A s \in Side \ {t} : [p \in Price |-> row(s, p)] = [p \in Price |-> old(s, p)]
  BY <1>4
<1> DEFINE new(s) == [p \in Price |-> row(s, p)]
           was(s) == [p \in Price |-> old(s, p)]
           changed == [was(t) EXCEPT ![k] = [old(t, k) EXCEPT ![x] = q]]
<1>8. was(t)[k] = old(t, k)
  BY <1>1
<1>9. Transposed(T)[t] = was(t)
  BY <1>1, <1>5
<1>10. [Transposed(T) EXCEPT ![t][k][x] = q] = [Transposed(T) EXCEPT ![t] = changed]
  BY <1>8, <1>9
<1>11. /\ Transposed(T) = [s \in Side |-> was(s)] /\ Transposed(U) = [s \in Side |-> new(s)]
       /\ new(t) = changed /\ \A s \in Side \ {t} : new(s) = was(s)
  BY <1>5, <1>6, <1>7
<1> HIDE DEF new, was, changed
<1>12. Transposed(U) = [Transposed(T) EXCEPT ![t] = changed]
  BY <1>11
<1>13. QED
  BY <1>2, <1>10, <1>12

(* The closed form of ExchangeFeeds for what a message writes is what the   *)
(* aggregator does with its updates one by one: no result changes nothing, *)
(* each further one that is an update is one more step of QuoteTable, which *)
(* Aggregator::onUpdate implements, and any other leaves the table alone.   *)
THEOREM UpdatesAreOverwrites ==
    ASSUME NEW table, NEW results \in Seq(Results), NEW r \in Results
    PROVE  /\ Transposed(written(table, << >>)) = Transposed(table)
           /\ Transposed(written(table, Append(results, r))) =
                IF r.is = "update" THEN Table!Overwrite(Transposed(written(table, results)), r)
                ELSE Transposed(written(table, results))
<1> DEFINE n == Len(results)
           more == Append(results, r)
           Of(q, e, s, p) == {i \in DOMAIN q :
                          /\ q[i].is = "update"
                          /\ q[i].exchange = e
                          /\ q[i].side = s
                          /\ q[i].price = p}
           Hits(e, s, p) == r.is = "update" /\ r.exchange = e /\ r.side = s /\ r.price = p
<1>1. /\ n \in Nat /\ DOMAIN results = 1..n /\ DOMAIN more = 1..(n + 1)
      /\ more[n + 1] = r /\ \A i \in 1..n : more[i] = results[i]
  OBVIOUS
<1>2. \A q : \A e \in Exchange, s \in Side, p \in Price :
        written(table, q)[e][s][p] =
          IF Of(q, e, s, p) = {} THEN table[e][s][p] ELSE q[Sets!Max(Of(q, e, s, p))].quantity
  BY DEF written
<1> HIDE DEF n, more
<1>3. ASSUME NEW e \in Exchange, NEW s \in Side, NEW p \in Price
      PROVE  written(table, more)[e][s][p] =
               IF Hits(e, s, p) THEN r.quantity ELSE written(table, results)[e][s][p]
  <2> DEFINE O == Of(results, e, s, p)  P == Of(more, e, s, p)
  <2>1. O \subseteq 0..n /\ P \subseteq 0..(n + 1) /\ n + 1 \in Nat
    BY <1>1
  <2>2. CASE Hits(e, s, p)
    <3>1. n + 1 \in P
      BY <1>1, <2>2
    <3> HIDE DEF P, O
    <3>2. Sets!Max(P) \in P /\ n + 1 <= Sets!Max(P)
      <4>1. P # {}
        BY <3>1
      <4> DEFINE k == n + 1
      <4>2. k \in Nat /\ P \subseteq 0..k /\ k \in P
        BY <2>1, <3>1
      <4> HIDE DEF k
      <4>3. Sets!Max(P) \in P /\ k <= Sets!Max(P)
        BY <4>1, <4>2, LastIs
      <4>4. QED
        BY <4>3 DEF k
    <3>3. Sets!Max(P) = n + 1
      <4>1. Sets!Max(P) \in 0..(n + 1)
        BY <2>1, <3>2
      <4>2. QED
        BY <1>1, <3>2, <4>1
    <3>4. written(table, more)[e][s][p] = more[n + 1].quantity
      BY <1>2, <3>1, <3>3 DEF P
    <3>5. QED
      BY <1>1, <2>2, <3>4
  <2>3. CASE ~Hits(e, s, p)
    <3>1. P = O
      BY <1>1, <2>3
    <3>2. O # {} => Sets!Max(O) \in 1..n
      <4>1. O \subseteq 1..n
        BY <1>1
      <4> HIDE DEF O
      <4>2. QED
        BY <1>1, <2>1, <4>1, LastIs
    <3>3. O # {} => more[Sets!Max(O)] = results[Sets!Max(O)]
      BY <1>1, <3>2
    <3> HIDE DEF O, P
    <3>4. QED
      BY <1>2, <2>3, <3>1, <3>3 DEF O, P
  <2>4. QED
    BY <2>2, <2>3
<1>4. CASE r.is = "update"
  <2>1. r.exchange \in Exchange /\ r.side \in Side /\ r.price \in Price
    BY <1>4 DEF Results, Skip, Throws
  <2> DEFINE T == written(table, results)  U == written(table, more)
  <2>2. Differs(T, U, r)
    BY <1>3, <1>4 DEF Differs
  <2> HIDE DEF T, U
  <2>3. Transposed(U) = Table!Overwrite(Transposed(T), r)
    BY <2>1, <2>2, DiffersByOverwrite
  <2>4. QED
    BY <1>4, <2>3, NothingIsWritten DEF T, U, more
<1>5. CASE r.is # "update"
  <2>1. \A e \in Exchange, s \in Side, p \in Price :
          written(table, more)[e][s][p] = written(table, results)[e][s][p]
    BY <1>3, <1>5
  <2>2. QED
    <3>1. Transposed(written(table, more)) = Transposed(written(table, results))
      BY <2>1 DEF Transposed
    <3>2. QED
      BY <1>5, <3>1, NothingIsWritten DEF more
<1>6. QED
  BY <1>4, <1>5

(***************************************************************************)
(* InternalExchange: the inductive invariant                               *)
(***************************************************************************)
(* A session has at most one operation pending, and one exactly while it    *)
(* lives.                                                                  *)
Alone ==
    \A c \in Peers :
        /\ pending[c] = {} \/ \E op \in Operation : pending[c] = {op}
        /\ c \in known \ ended <=> pending[c] # {}
        /\ c \in ended => c \in known

(* The queue holds messages only while one is being written, unless the     *)
(* session failed meanwhile.                                               *)
Drained ==
    \A c \in Peers : c \notin ended /\ "write" \notin pending[c] => messages[c] = << >>

IInv == TypeOK /\ Alone /\ Drained /\ BurstsInOrder

(***************************************************************************)
(* The operations of a session                                             *)
(***************************************************************************)
LEMMA HeadAndTail ==
    ASSUME NEW S, NEW s \in Seq(S), s # << >>
    PROVE  /\ Len(s) \in Nat /\ Len(s) > 0
           /\ Head(s) \in S /\ Head(s) = s[1]
           /\ Tail(s) \in Seq(S) /\ Len(Tail(s)) = Len(s) - 1
           /\ \A i \in 1..(Len(s) - 1) : Tail(s)[i] = s[i + 1]
OBVIOUS

LEMMA LargerRange == ASSUME NEW S, NEW T, S \subseteq T, NEW s \in Seq(S) PROVE s \in Seq(T)
OBVIOUS

LEMMA Concatenation ==
    ASSUME NEW S, NEW s \in Seq(S), NEW t \in Seq(S)
    PROVE  /\ s \o t \in Seq(S) /\ Len(s) \in Nat /\ Len(t) \in Nat
           /\ Len(s \o t) = Len(s) + Len(t) /\ DOMAIN (s \o t) = 1..(Len(s) + Len(t))
           /\ \A i \in 1..Len(s) : (s \o t)[i] = s[i]
           /\ \A i \in 1..Len(t) : (s \o t)[Len(s) + i] = t[i]
OBVIOUS

LEMMA GeneratedBurst ==
    /\ generateMessages \in Seq(1..Burst)
    /\ Len(generateMessages) = Burst
    /\ generateMessages # << >>
    /\ \A i \in 1..Burst : generateMessages[i] = i
BY BurstAssumption DEF generateMessages

(* doPublish ends one operation and starts one other. *)
LEMMA PublishStep ==
    ASSUME TypeOK, NEW c \in Peers, NEW op \in Operation, op \in pending[c],
           NEW queue \in Seq(1..Burst), doPublish(c, op, queue)
    PROVE  /\ \E next \in {"timer", "write"} :
                pending' = [pending EXCEPT ![c] = (@ \ {op}) \cup {next}]
           /\ messages' \in [Peers -> Seq(1..Burst)]
           /\ sent' \in [Peers -> Seq(1..Burst \cup {Garbled})]
<1>1. CASE queue = << >>
  BY <1>1 DEF doPublish, TypeOK
<1>2. CASE queue # << >>
  <2>1. Head(queue) \in 1..Burst /\ Tail(queue) \in Seq(1..Burst)
    BY <1>2, HeadAndTail
  <2>2. PICK m \in {Head(queue), Garbled} : sent' = [sent EXCEPT ![c] = Append(@, m)]
    BY <1>2 DEF doPublish
  <2>3. messages' = [messages EXCEPT ![c] = Tail(queue)]
    BY <1>2 DEF doPublish
  <2>4. Append(sent[c], m) \in Seq(1..Burst \cup {Garbled})
    BY <2>1 DEF TypeOK
  <2>5. sent' \in [Peers -> Seq(1..Burst \cup {Garbled})]
    BY <2>2, <2>4 DEF TypeOK
  <2>6. messages' \in [Peers -> Seq(1..Burst)]
    BY <2>1, <2>3 DEF TypeOK
  <2>7. QED
    BY <1>2, <2>5, <2>6 DEF doPublish
<1>3. QED
  BY <1>1, <1>2

(* What a step does to the operations of a session: it is accepted, goes    *)
(* on, or fails.                                                           *)
LEMMA OperationSteps ==
    ASSUME TypeOK, NEW c \in Peers, SessionStep(c)
    PROVE  /\ UNCHANGED <<listenerVars, request>>
           /\ \/ /\ ended' = ended
                 /\ \E op, next \in Operation :
                      /\ op \in pending[c]
                      /\ pending' = [pending EXCEPT ![c] = (@ \ {op}) \cup {next}]
              \/ /\ ended' = ended \cup {c}
                 /\ UNCHANGED <<messages, sent, bursts>>
                 /\ \E op \in Operation : /\ op \in pending[c]
                                          /\ pending' = [pending EXCEPT ![c] = @ \ {op}]
<1> USE DEF Operation
<1>1. CASE OnHandshakeSSL(c) \/ OnRead(c) \/ OnHandshakeWS(c) \/ \E op \in Operation : Fail(c, op)
  BY <1>1 DEF OnHandshakeSSL, OnRead, OnHandshakeWS, Then, Fail
<1>2. CASE OnScheduleEvent(c)
  <2>1. messages[c] \o generateMessages \in Seq(1..Burst)
    BY GeneratedBurst DEF TypeOK
  <2>2. \E next \in {"timer", "write"} :
            pending' = [pending EXCEPT ![c] = (@ \ {"timer"}) \cup {next}]
    BY <1>2, <2>1, PublishStep DEF OnScheduleEvent
  <2>3. QED
    BY <1>2, <2>2 DEF OnScheduleEvent
<1>3. CASE OnPublish(c)
  <2>1. messages[c] \in Seq(1..Burst)
    BY DEF TypeOK
  <2>2. \E next \in {"timer", "write"} :
            pending' = [pending EXCEPT ![c] = (@ \ {"write"}) \cup {next}]
    BY <1>3, <2>1, PublishStep DEF OnPublish
  <2>3. QED
    BY <1>3, <2>2 DEF OnPublish
<1>4. QED
  BY <1>1, <1>2, <1>3 DEF SessionStep

(***************************************************************************)
(* Types                                                                   *)
(***************************************************************************)
LEMMA InitType == Init => TypeOK
<1> SUFFICES ASSUME Init PROVE TypeOK
  OBVIOUS
<1>1. << >> \in Seq(1..Burst) /\ << >> \in Seq(1..Burst \cup {Garbled})
  OBVIOUS
<1>2. /\ messages \in [Peers -> Seq(1..Burst)]
      /\ sent \in [Peers -> Seq(1..Burst \cup {Garbled})]
  BY <1>1 DEF Init
<1>3. errors \in 0..MaxErrors /\ bursts \in [Peers -> 0..MaxBursts]
  BY BurstAssumption, ErrorsAssumption DEF Init
<1>4. QED
  BY <1>2, <1>3 DEF Init, TypeOK

LEMMA NextType == TypeOK /\ [Next]_vars => TypeOK'
<1> SUFFICES ASSUME TypeOK, [Next]_vars PROVE TypeOK'
  OBVIOUS
<1>1. CASE Listen \/ OnAcceptError
  <2>1. errors' \in 0..MaxErrors
    BY <1>1, ErrorsAssumption DEF TypeOK, Listen, OnAcceptError
  <2>2. CASE Listen
    BY <2>1, <2>2 DEF TypeOK, Listen
  <2>3. CASE OnAcceptError
    BY <2>1, <2>3 DEF TypeOK, OnAcceptError
  <2>4. QED
    BY <1>1, <2>2, <2>3
<1>2. ASSUME NEW c \in Peers, OnAccept(c) PROVE TypeOK'
  BY <1>2 DEF TypeOK, OnAccept, Operation
<1>3. ASSUME NEW c \in Peers, SessionStep(c) PROVE TypeOK'
  <2>1. /\ pending' \in [Peers -> SUBSET Operation]
        /\ ended' \subseteq Peers
        /\ UNCHANGED <<listenerVars, request>>
    <3>1. PICK op \in Operation, next \in Operation :
              \/ pending' = [pending EXCEPT ![c] = (@ \ {op}) \cup {next}]
              \/ pending' = [pending EXCEPT ![c] = @ \ {op}]
      BY <1>3, OperationSteps
    <3>2. (pending[c] \ {op}) \cup {next} \in SUBSET Operation
      BY DEF TypeOK
    <3>3. pending[c] \ {op} \in SUBSET Operation
      BY DEF TypeOK
    <3>4. pending' \in [Peers -> SUBSET Operation]
      BY <3>1, <3>2, <3>3 DEF TypeOK
    <3>5. ended' = ended \/ ended' = ended \cup {c}
      BY <1>3, OperationSteps
    <3>6. UNCHANGED <<listenerVars, request>>
      BY <1>3, OperationSteps
    <3>7. QED
      BY <3>4, <3>5, <3>6 DEF TypeOK
  <2>2. CASE UNCHANGED <<messages, sent, bursts>>
    BY <2>1, <2>2 DEF TypeOK, listenerVars
  <2>3. CASE OnScheduleEvent(c)
    <3>1. messages[c] \o generateMessages \in Seq(1..Burst)
      BY GeneratedBurst DEF TypeOK
    <3>2. /\ messages' \in [Peers -> Seq(1..Burst)]
          /\ sent' \in [Peers -> Seq(1..Burst \cup {Garbled})]
      BY <2>3, <3>1, PublishStep DEF OnScheduleEvent, Operation
    <3>3. bursts' \in [Peers -> 0..MaxBursts]
      BY <2>3, BurstAssumption DEF TypeOK, OnScheduleEvent
    <3>4. QED
      BY <2>1, <3>2, <3>3 DEF TypeOK, listenerVars
  <2>4. CASE OnPublish(c)
    <3>1. /\ messages' \in [Peers -> Seq(1..Burst)]
          /\ sent' \in [Peers -> Seq(1..Burst \cup {Garbled})]
      BY <2>4, PublishStep DEF TypeOK, OnPublish, Operation
    <3>2. QED
      BY <2>1, <2>4, <3>1 DEF TypeOK, listenerVars, OnPublish
  <2>5. QED
    BY <1>3, <2>2, <2>3, <2>4
       DEF SessionStep, OnHandshakeSSL, OnRead, OnHandshakeWS, Then, Fail
<1>4. CASE UNCHANGED vars
  BY <1>4 DEF TypeOK, vars, listenerVars
<1>5. QED
  BY <1>1, <1>2, <1>3, <1>4 DEF Next

(***************************************************************************)
(* One operation at a time                                                 *)
(***************************************************************************)
LEMMA NextAlone == TypeOK /\ Alone /\ [Next]_vars => Alone'
<1> SUFFICES ASSUME TypeOK, Alone, [Next]_vars, NEW d \in Peers
             PROVE  /\ pending'[d] = {} \/ \E op \in Operation : pending'[d] = {op}
                    /\ d \in known' \ ended' <=> pending'[d] # {}
                    /\ d \in ended' => d \in known'
  BY DEF Alone
<1>1. /\ pending[d] = {} \/ \E op \in Operation : pending[d] = {op}
      /\ d \in known \ ended <=> pending[d] # {}
      /\ d \in ended => d \in known
  BY DEF Alone
<1>2. CASE Listen \/ OnAcceptError \/ UNCHANGED vars
  BY <1>1, <1>2 DEF Listen, OnAcceptError, vars, listenerVars
<1>3. ASSUME NEW c \in Peers, OnAccept(c)
      PROVE  /\ pending'[d] = {} \/ \E op \in Operation : pending'[d] = {op}
             /\ d \in known' \ ended' <=> pending'[d] # {}
             /\ d \in ended' => d \in known'
  <2>1. c \notin ended
    BY <1>3 DEF OnAccept, Alone
  <2>2. QED
    BY <1>1, <1>3, <2>1 DEF OnAccept, TypeOK, Operation
<1>4. ASSUME NEW c \in Peers, SessionStep(c)
      PROVE  /\ pending'[d] = {} \/ \E op \in Operation : pending'[d] = {op}
             /\ d \in known' \ ended' <=> pending'[d] # {}
             /\ d \in ended' => d \in known'
  <2>1. known' = known
    BY <1>4, OperationSteps DEF listenerVars
  <2>2. CASE d # c
    <3>1. pending'[d] = pending[d] /\ (d \in ended' <=> d \in ended)
      BY <1>4, <2>2, OperationSteps DEF TypeOK
    <3>2. QED
      BY <1>1, <2>1, <3>1
  <2>3. CASE d = c
    <3>1. CASE ended' = ended \cup {c} /\ \E op \in Operation :
                 op \in pending[c] /\ pending' = [pending EXCEPT ![c] = @ \ {op}]
      <4>1. pending'[c] = {}
        BY <1>1, <2>3, <3>1 DEF TypeOK
      <4>2. QED
        BY <1>1, <2>1, <2>3, <3>1, <4>1
    <3>2. CASE ended' = ended /\ \E op, next \in Operation :
                 /\ op \in pending[c]
                 /\ pending' = [pending EXCEPT ![c] = (@ \ {op}) \cup {next}]
      <4>1. \E next \in Operation : pending'[c] = {next}
        BY <1>1, <2>3, <3>2 DEF TypeOK
      <4>2. QED
        BY <1>1, <2>1, <2>3, <3>2, <4>1
    <3>3. QED
      BY <1>4, <3>1, <3>2, OperationSteps
  <2>4. QED
    BY <2>2, <2>3
<1>5. QED
  BY <1>2, <1>3, <1>4 DEF Next

LEMMA AloneIsOne == Alone => OneOperation
<1>1. \A op : Cardinality({op}) = 1
  BY FS_Singleton
<1>2. Cardinality({}) = 0
  BY FS_EmptySet
<1>3. QED
  BY <1>1, <1>2 DEF Alone, OneOperation

(***************************************************************************)
(* The bursts                                                              *)
(***************************************************************************)
(* The remainder of an index that lies in burst number q. *)
LEMMA Remainder ==
    \A q \in Nat, r \in 0..(Burst - 1) : (Burst * q + r) % Burst = r
BY BurstAssumption

(* A timer that expires starts a burst behind the messages that were sent. *)
LEMMA BurstBegins ==
    ASSUME IInv, NEW c \in Peers, OnScheduleEvent(c)
    PROVE  LET all == sent'[c] \o messages'[c]
           IN  /\ Len(messages'[c]) < Burst
               /\ Len(all) = bursts'[c] * Burst
               /\ \A i \in DOMAIN all : all[i] \in {((i - 1) % Burst) + 1, Garbled}
<1> DEFINE old == sent[c]
           k == bursts[c]
<1>1. /\ old \in Seq(1..Burst \cup {Garbled}) /\ messages[c] \in Seq(1..Burst)
      /\ k \in Nat /\ Burst \in Nat \ {0} /\ Len(old) \in Nat
  BY BurstAssumption DEF IInv, TypeOK
<1>2. messages[c] = << >>
  BY DEF OnScheduleEvent, IInv, Alone, Drained, Operation
<1>3. Len(old) = k * Burst /\ \A i \in 1..Len(old) : old[i] \in {((i - 1) % Burst) + 1, Garbled}
  <2>1. old \o messages[c] = old
    BY <1>1, <1>2
  <2>2. /\ Len(old \o messages[c]) = k * Burst
        /\ \A i \in DOMAIN (old \o messages[c]) :
              (old \o messages[c])[i] \in {((i - 1) % Burst) + 1, Garbled}
    BY DEF IInv, BurstsInOrder
  <2>3. DOMAIN old = 1..Len(old)
    BY <1>1
  <2>4. QED
    BY <2>1, <2>2, <2>3
<1>4. messages[c] \o generateMessages = generateMessages
  BY <1>2, GeneratedBurst
<1>5. PICK m \in {1, Garbled} : sent'[c] = Append(old, m)
  BY <1>4, GeneratedBurst, BurstAssumption DEF OnScheduleEvent, doPublish, IInv, TypeOK
<1>6. messages'[c] = Tail(generateMessages)
  BY <1>4, GeneratedBurst DEF OnScheduleEvent, doPublish, IInv, TypeOK
<1>7. bursts'[c] = k + 1
  BY DEF OnScheduleEvent, IInv, TypeOK
<1> DEFINE all == sent'[c] \o messages'[c]
<1> HIDE DEF old, k
<1>8. /\ messages'[c] \in Seq(1..Burst) /\ Len(messages'[c]) = Burst - 1
      /\ \A i \in 1..(Burst - 1) : messages'[c][i] = i + 1
  BY <1>1, <1>6, GeneratedBurst
<1>9. /\ sent'[c] \in Seq(1..Burst \cup {Garbled}) /\ Len(sent'[c]) = Len(old) + 1
      /\ \A i \in 1..Len(old) : sent'[c][i] = old[i]
      /\ sent'[c][Len(old) + 1] = m
  BY <1>1, <1>5
<1>10. /\ Len(all) = Len(old) + Burst /\ DOMAIN all = 1..(Len(old) + Burst)
       /\ \A i \in 1..Len(old) : all[i] = old[i]
       /\ all[Len(old) + 1] = m
       /\ \A i \in 2..Burst : all[Len(old) + i] = i
  <2> DEFINE S == 1..Burst \cup {Garbled}
             s == sent'[c]
             q == messages'[c]
  <2>0. s \in Seq(S) /\ q \in Seq(S)
    BY <1>8, <1>9, LargerRange
  <2> HIDE DEF S, s, q
  <2>1. /\ Len(s \o q) = Len(s) + Len(q) /\ DOMAIN (s \o q) = 1..(Len(s) + Len(q))
        /\ \A i \in 1..Len(s) : (s \o q)[i] = s[i]
        /\ \A i \in 1..Len(q) : (s \o q)[Len(s) + i] = q[i]
    BY <2>0, Concatenation
  <2>2. /\ Len(all) = Len(old) + Burst /\ DOMAIN all = 1..(Len(old) + Burst)
        /\ \A i \in 1..(Len(old) + 1) : all[i] = sent'[c][i]
    <3>1. Len(s) = Len(old) + 1 /\ Len(q) = Burst - 1 /\ all = s \o q
      BY <1>8, <1>9 DEF s, q
    <3>2. (Len(old) + 1) + (Burst - 1) = Len(old) + Burst
      BY <1>1
    <3>3. QED
      BY <2>1, <3>1, <3>2 DEF s
  <2>3. \A i \in 1..(Burst - 1) : all[(Len(old) + 1) + i] = messages'[c][i]
    BY <1>1, <1>8, <1>9, <2>1 DEF s, q
  <2> HIDE DEF all
  <2>4. ASSUME NEW i \in 2..Burst PROVE all[Len(old) + i] = i
    <3>1. i - 1 \in 1..(Burst - 1) /\ Len(old) + i = (Len(old) + 1) + (i - 1)
      BY <1>1
    <3>2. messages'[c][i - 1] = i
      BY <1>1, <1>8, <3>1
    <3>3. QED
      BY <2>3, <3>1, <3>2
  <2>5. \A i \in 1..Len(old) : i \in 1..(Len(old) + 1)
    BY <1>1
  <2>6. Len(old) + 1 \in 1..(Len(old) + 1)
    BY <1>1
  <2>7. QED
    BY <1>9, <2>2, <2>4, <2>5, <2>6
<1> HIDE DEF all
<1>11. Len(all) = (k + 1) * Burst
  BY <1>1, <1>3, <1>10
<1>12. ASSUME NEW i \in DOMAIN all PROVE all[i] \in {((i - 1) % Burst) + 1, Garbled}
  <2>1. CASE i \in 1..Len(old)
    BY <1>3, <1>10, <2>1
  <2>2. CASE i \notin 1..Len(old)
    <3>1. PICK j \in 1..Burst : i = Len(old) + j
      <4>1. i \in Nat /\ i > Len(old) /\ i <= Len(old) + Burst
        BY <1>1, <1>10, <2>2
      <4>2. i - Len(old) \in 1..Burst /\ i = Len(old) + (i - Len(old))
        BY <1>1, <4>1
      <4>3. QED
        BY <4>2
    <3>2. i - 1 = Burst * k + (j - 1) /\ j - 1 \in 0..(Burst - 1)
      BY <1>1, <1>3, <3>1
    <3>3. (i - 1) % Burst = j - 1
      BY <1>1, <3>2, Remainder
    <3>4. all[i] \in {j, Garbled}
      BY <1>1, <1>10, <3>1
    <3>5. ((i - 1) % Burst) + 1 = j
      BY <1>1, <3>3
    <3>6. QED
      BY <3>4, <3>5
  <2>3. QED
    BY <2>1, <2>2
<1>13. Len(messages'[c]) < Burst
  BY <1>1, <1>8
<1>14. QED
  BY <1>7, <1>11, <1>12, <1>13 DEF all

(* A message that was sent is followed by the next one of its burst. *)
LEMMA BurstGoesOn ==
    ASSUME IInv, NEW c \in Peers, OnPublish(c)
    PROVE  LET all == sent'[c] \o messages'[c]
           IN  /\ Len(messages'[c]) < Burst
               /\ Len(all) = bursts'[c] * Burst
               /\ \A i \in DOMAIN all : all[i] \in {((i - 1) % Burst) + 1, Garbled}
<1> DEFINE old == sent[c]
           queue == messages[c]
           all == sent'[c] \o messages'[c]
<1>1. /\ old \in Seq(1..Burst \cup {Garbled}) /\ queue \in Seq(1..Burst)
      /\ Burst \in Nat \ {0} /\ Len(old) \in Nat /\ Len(queue) \in Nat
  BY BurstAssumption DEF IInv, TypeOK
<1>2. /\ Len(queue) < Burst /\ Len(old \o queue) = bursts[c] * Burst
      /\ \A i \in DOMAIN (old \o queue) :
            (old \o queue)[i] \in {((i - 1) % Burst) + 1, Garbled}
  BY DEF IInv, BurstsInOrder
<1>3. bursts'[c] = bursts[c]
  BY DEF OnPublish
<1>4. CASE queue = << >>
  <2>1. messages'[c] = queue /\ sent'[c] = old
    BY <1>4 DEF OnPublish, doPublish, IInv, TypeOK
  <2>2. QED
    BY <1>2, <1>3, <2>1
<1>5. CASE queue # << >>
  <2>1. messages'[c] = Tail(queue)
    BY <1>5 DEF OnPublish, doPublish, IInv, TypeOK
  <2>2. PICK m \in {Head(queue), Garbled} : sent'[c] = Append(old, m)
    BY <1>5 DEF OnPublish, doPublish, IInv, TypeOK
  <2> HIDE DEF old, queue
  <2>3. /\ Tail(queue) \in Seq(1..Burst) /\ Len(Tail(queue)) = Len(queue) - 1
        /\ \A i \in 1..(Len(queue) - 1) : Tail(queue)[i] = queue[i + 1]
        /\ Len(queue) > 0 /\ Head(queue) = queue[1] /\ queue[1] \in 1..Burst
    BY <1>1, <1>5
  <2>4. /\ Append(old, m) \in Seq(1..Burst \cup {Garbled})
        /\ Len(Append(old, m)) = Len(old) + 1
        /\ \A i \in 1..Len(old) : Append(old, m)[i] = old[i]
        /\ Append(old, m)[Len(old) + 1] = m
    BY <1>1, <2>3
  <2>5. /\ Len(all) = Len(old) + Len(queue) /\ DOMAIN all = 1..(Len(old) + Len(queue))
        /\ \A i \in 1..(Len(old) + 1) : all[i] = Append(old, m)[i]
        /\ \A i \in 1..(Len(queue) - 1) : all[(Len(old) + 1) + i] = Tail(queue)[i]
    BY <1>1, <2>1, <2>2, <2>3, <2>4, SMTT(30)
  <2>6. /\ Len(old \o queue) = Len(old) + Len(queue)
        /\ DOMAIN (old \o queue) = 1..(Len(old) + Len(queue))
        /\ \A i \in 1..Len(old) : (old \o queue)[i] = old[i]
        /\ \A i \in 1..Len(queue) : (old \o queue)[Len(old) + i] = queue[i]
    BY <1>1
  <2> HIDE DEF all
  <2>7. ASSUME NEW i \in DOMAIN all PROVE all[i] \in {(old \o queue)[i], Garbled}
    <3>1. CASE i \in 1..Len(old)
      BY <1>1, <2>4, <2>5, <2>6, <3>1
    <3>2. CASE i = Len(old) + 1
      <4>1. (old \o queue)[Len(old) + 1] = queue[1]
        BY <1>1, <2>3, <2>6
      <4>2. QED
        BY <1>1, <2>3, <2>4, <2>5, <3>2, <4>1
    <3>3. CASE i > Len(old) + 1
      <4>1. PICK j \in 1..(Len(queue) - 1) : i = (Len(old) + 1) + j
        <5>1. i - (Len(old) + 1) \in 1..(Len(queue) - 1)
              /\ i = (Len(old) + 1) + (i - (Len(old) + 1))
          BY <1>1, <2>5, <3>3
        <5>2. QED
          BY <5>1
      <4>2. j + 1 \in 1..Len(queue) /\ i = Len(old) + (j + 1)
        BY <1>1, <4>1
      <4>3. (old \o queue)[i] = queue[j + 1]
        BY <2>6, <4>2
      <4>4. all[i] = queue[j + 1]
        BY <2>3, <2>5, <4>1
      <4>5. QED
        BY <4>3, <4>4
    <3>4. i \in Nat /\ i >= 1
      BY <1>1, <2>5
    <3>5. i \in 1..Len(old) \/ i = Len(old) + 1 \/ i > Len(old) + 1
      BY <1>1, <3>4
    <3>6. QED
      BY <3>1, <3>2, <3>3, <3>5
  <2>8. Len(messages'[c]) < Burst
    BY <1>1, <1>2, <2>1, <2>3
  <2>9. Len(all) = bursts'[c] * Burst
    BY <1>2, <1>3, <2>5, <2>6
  <2>10. ASSUME NEW i \in DOMAIN all PROVE all[i] \in {((i - 1) % Burst) + 1, Garbled}
    BY <1>2, <2>5, <2>6, <2>7
  <2>11. QED
    BY <2>8, <2>9, <2>10 DEF all
<1>6. QED
  BY <1>4, <1>5

(* Only the two callbacks that publish change the messages of a session. *)
LEMMA MessageSteps ==
    ASSUME IInv, [Next]_vars, NEW d \in Peers
    PROVE  \/ messages'[d] = messages[d] /\ sent'[d] = sent[d] /\ bursts'[d] = bursts[d]
           \/ OnScheduleEvent(d) \/ OnPublish(d)
<1>1. CASE Listen \/ OnAcceptError \/ UNCHANGED vars
  BY <1>1 DEF Listen, OnAcceptError, vars
<1>2. ASSUME NEW c \in Peers, OnAccept(c)
      PROVE  UNCHANGED <<messages, sent, bursts>>
  BY <1>2 DEF OnAccept
<1>3. ASSUME NEW c \in Peers, SessionStep(c), ~OnScheduleEvent(c), ~OnPublish(c)
      PROVE  UNCHANGED <<messages, sent, bursts>>
  BY <1>3 DEF SessionStep, OnHandshakeSSL, OnRead, OnHandshakeWS, Then, Fail
<1>4. ASSUME NEW c \in Peers, c # d, OnScheduleEvent(c) \/ OnPublish(c)
      PROVE  messages'[d] = messages[d] /\ sent'[d] = sent[d] /\ bursts'[d] = bursts[d]
  BY <1>4 DEF OnScheduleEvent, OnPublish, doPublish, IInv, TypeOK
<1>5. QED
  BY <1>1, <1>2, <1>3, <1>4 DEF Next

LEMMA NextBursts == IInv /\ [Next]_vars => BurstsInOrder'
<1> SUFFICES ASSUME IInv, [Next]_vars, NEW d \in Peers
             PROVE  LET all == sent'[d] \o messages'[d]
                    IN  /\ Len(messages'[d]) < Burst
                        /\ Len(all) = bursts'[d] * Burst
                        /\ \A i \in DOMAIN all : all[i] \in {((i - 1) % Burst) + 1, Garbled}
  BY DEF BurstsInOrder
<1>1. CASE messages'[d] = messages[d] /\ sent'[d] = sent[d] /\ bursts'[d] = bursts[d]
  BY <1>1 DEF IInv, BurstsInOrder
<1>2. QED
  BY <1>1, MessageSteps, BurstBegins, BurstGoesOn

LEMMA NextDrained == IInv /\ [Next]_vars => Drained'
<1> SUFFICES ASSUME IInv, [Next]_vars, NEW d \in Peers, d \notin ended', "write" \notin pending'[d]
             PROVE  messages'[d] = << >>
  BY DEF Drained
<1>1. d \notin ended /\ ("write" \notin pending[d] => messages[d] = << >>)
  <2>1. ended \subseteq ended'
    BY OperationSteps DEF IInv, Next, Listen, OnAcceptError, OnAccept, vars
  <2>2. QED
    BY <2>1 DEF IInv, Drained
<1>2. CASE OnScheduleEvent(d) \/ OnPublish(d)
  BY <1>2 DEF OnScheduleEvent, OnPublish, doPublish, IInv, TypeOK
<1>3. CASE messages'[d] = messages[d] /\ ~OnPublish(d) /\ ~OnScheduleEvent(d)
  <2>1. CASE Listen \/ OnAcceptError \/ UNCHANGED vars
    BY <1>1, <1>3, <2>1 DEF Listen, OnAcceptError, vars
  <2>2. ASSUME NEW c \in Peers, OnAccept(c) PROVE "write" \notin pending[d]
    BY <2>2 DEF OnAccept, IInv, TypeOK, Alone
  <2>3. ASSUME NEW c \in Peers, SessionStep(c), c # d PROVE pending'[d] = pending[d]
    <3>1. TypeOK
      BY DEF IInv
    <3>2. PICK S : pending' = [pending EXCEPT ![c] = S]
      BY <2>3, <3>1, OperationSteps
    <3>3. QED
      BY <2>3, <3>1, <3>2 DEF TypeOK
  <2>4. ASSUME SessionStep(d) PROVE "write" \notin pending[d]
    BY <1>3, <2>4 DEF SessionStep, OnHandshakeSSL, OnRead, OnHandshakeWS, Then, Fail, IInv,
       TypeOK, Alone, Operation
  <2>5. QED
    BY <1>1, <1>3, <2>1, <2>2, <2>3, <2>4 DEF Next
<1>4. QED
  BY <1>2, <1>3, MessageSteps

LEMMA InitInv == Init => IInv
<1> SUFFICES ASSUME Init PROVE IInv
  OBVIOUS
<1>1. Alone /\ Drained
  BY DEF Init, Alone, Drained
<1>2. ASSUME NEW c \in Peers
      PROVE  LET all == sent[c] \o messages[c]
             IN  /\ Len(messages[c]) < Burst
                 /\ Len(all) = bursts[c] * Burst
                 /\ \A i \in DOMAIN all : all[i] \in {((i - 1) % Burst) + 1, Garbled}
  <2>1. sent[c] \o messages[c] = << >> /\ messages[c] = << >> /\ bursts[c] = 0
    BY DEF Init
  <2>2. \A i \in DOMAIN << >> : FALSE
    OBVIOUS
  <2>3. Len(<< >>) = 0 /\ 0 < Burst /\ 0 * Burst = 0
    BY BurstAssumption
  <2>4. QED
    BY <2>1, <2>2, <2>3, Zenon
<1>3. QED
  BY <1>1, <1>2, InitType DEF IInv, BurstsInOrder

LEMMA Invariance == SafeSpec => []IInv
<1>1. IInv /\ [Next]_vars => IInv'
  BY NextType, NextAlone, NextDrained, NextBursts DEF IInv
<1>2. QED
  BY <1>1, InitInv, PTL DEF SafeSpec

(***************************************************************************)
(* The theorems                                                            *)
(***************************************************************************)
(* The type invariant of the server. *)
THEOREM TypeCorrect == SafeSpec => []TypeOK
<1>1. IInv => TypeOK
  BY DEF IInv
<1>2. QED
  BY <1>1, Invariance, PTL

(* A live session has exactly one operation pending, one that failed or is  *)
(* not accepted yet has none: no two writes overlap on a websocket.        *)
THEOREM OperationsDoNotOverlap == SafeSpec => []OneOperation
<1>1. IInv => OneOperation
  BY AloneIsOne DEF IInv
<1>2. QED
  BY <1>1, Invariance, PTL

(* A peer gets the bursts whole, in order, and nothing twice: what was      *)
(* sent and what is queued make up the bursts generated so far.            *)
THEOREM BurstsArriveInOrder == SafeSpec => []BurstsInOrder
<1>1. IInv => BurstsInOrder
  BY DEF IInv
<1>2. QED
  BY <1>1, Invariance, PTL

=============================================================================
