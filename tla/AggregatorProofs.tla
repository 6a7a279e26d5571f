-------------------------- MODULE AggregatorProofs --------------------------
(***************************************************************************)
(* Theorems about Aggregator, for all sets of prices, quantities, tickers  *)
(* and exchanges.                                                          *)
(***************************************************************************)
EXTENDS Aggregator, FiniteSetTheorems, TLAPS

LEMMA SumOfEight ==
    ASSUME NEW a \in Nat, NEW b \in Nat, NEW c \in Nat, NEW d \in Nat,
           NEW e \in Nat, NEW f \in Nat, NEW g \in Nat, NEW h \in Nat
    PROVE  /\ a + b + c + d + e + f + g + h \in Nat
           /\ a + b + c + d + e + f + g + h = 0 <=>
                a = 0 /\ b = 0 /\ c = 0 /\ d = 0 /\ e = 0 /\ f = 0 /\ g = 0 /\ h = 0
OBVIOUS

(* Quantities::total() is zero exactly when no exchange quotes: the test    *)
(* that erases a level never erases a quote, because quantities are not     *)
(* negative.                                                               *)
LEMMA TotalZero ==
    ASSUME NEW q \in [Exchange -> Nat]
    PROVE  /\ total(q) \in Nat
           /\ total(q) = 0 <=> \A e \in Exchange : q[e] = 0
<1>1. /\ q["BINANCE"] \in Nat /\ q["BITMEX"] \in Nat /\ q["BYBIT"] \in Nat
      /\ q["COINBASE"] \in Nat /\ q["HYPERLIQUID"] \in Nat /\ q["INTERNAL"] \in Nat
      /\ q["KRAKEN"] \in Nat /\ q["OKX"] \in Nat
  BY DEF Exchange
<1>2. PICK a \in Nat, b \in Nat, c \in Nat, d \in Nat,
           e \in Nat, f \in Nat, g \in Nat, h \in Nat :
         /\ q["BINANCE"] = a /\ q["BITMEX"] = b /\ q["BYBIT"] = c /\ q["COINBASE"] = d
         /\ q["HYPERLIQUID"] = e /\ q["INTERNAL"] = f /\ q["KRAKEN"] = g /\ q["OKX"] = h
  BY <1>1
<1>3. total(q) = a + b + c + d + e + f + g + h
  BY <1>2 DEF total
<1>4. (\A x \in Exchange : q[x] = 0) <=>
        a = 0 /\ b = 0 /\ c = 0 /\ d = 0 /\ e = 0 /\ f = 0 /\ g = 0 /\ h = 0
  BY <1>2 DEF Exchange
<1>5. QED
  BY <1>3, <1>4, SumOfEight

LEMMA SetType ==
    ASSUME NEW q \in [Exchange -> Nat], NEW e \in Exchange, NEW n \in Nat
    PROVE  set(q, e, n) \in [Exchange -> Nat]
BY DEF set

(* What at and updateSide return for the maps of a book. *)
IsMap(map) ==
    /\ DOMAIN map \subseteq Price
    /\ map \in [DOMAIN map -> [Exchange -> Nat]]

LEMMA AtType ==
    ASSUME NEW map, IsMap(map), NEW p
    PROVE  at(map, p) \in [Exchange -> Nat]
BY DEF at, IsMap, NoQuantities

LEMMA UpdateSide ==
    ASSUME NEW map, IsMap(map), NEW u \in MarketUpdate
    PROVE  /\ IsMap(updateSide(map, u))
           /\ \A p : at(updateSide(map, u), p) =
                     IF p = u.price THEN set(at(map, p), u.exchange, u.quantity)
                                    ELSE at(map, p)
           /\ \A p \in DOMAIN updateSide(map, u) :
                 \/ p \in DOMAIN map /\ updateSide(map, u)[p] = map[p]
                 \/ total(updateSide(map, u)[p]) # 0
<1> DEFINE q == set(at(map, u.price), u.exchange, u.quantity)
<1>1. /\ u.price \in Price
      /\ u.exchange \in Exchange
      /\ u.quantity \in Nat
  BY ConnectedAssumption, QuantityAssumption DEF MarketUpdate
<1>2. q \in [Exchange -> Nat]
  BY <1>1, AtType, SetType
<1> HIDE DEF q
<1>3. CASE total(q) = 0
  <2>1. updateSide(map, u) = erase(map, u.price)
    BY <1>3 DEF updateSide, q
  <2>2. q = NoQuantities
    BY <1>2, <1>3, TotalZero DEF NoQuantities
  <2>3. ASSUME NEW p
        PROVE  at(erase(map, u.price), p) = IF p = u.price THEN q ELSE at(map, p)
    BY <2>2 DEF at, erase
  <2>4. QED
    BY <2>1, <2>3 DEF erase, IsMap, q
<1>4. CASE total(q) # 0
  <2>1. updateSide(map, u) = put(map, u.price, q)
    BY <1>4 DEF updateSide, q
  <2>2. IsMap(put(map, u.price, q))
    BY <1>1, <1>2 DEF IsMap, put
  <2>3. ASSUME NEW p
        PROVE  at(put(map, u.price, q), p) = IF p = u.price THEN q ELSE at(map, p)
    BY DEF at, put
  <2>4. ASSUME NEW p \in DOMAIN put(map, u.price, q)
        PROVE  \/ p \in DOMAIN map /\ put(map, u.price, q)[p] = map[p]
               \/ total(put(map, u.price, q)[p]) # 0
    BY <1>4 DEF put
  <2>5. QED
    BY <2>1, <2>2, <2>3, <2>4 DEF q
<1>5. QED
  BY <1>3, <1>4

(* The type invariant holds whatever is received from the exchanges. *)
THEOREM TypeCorrect == Spec => []TypeOK
<1>1. Init => TypeOK
  BY DEF Init, TypeOK, NoLevels, EmptyMap
<1>2. TypeOK /\ [Next]_priceLevels => TypeOK'
  <2> SUFFICES ASSUME TypeOK, [Next]_priceLevels PROVE TypeOK'
    OBVIOUS
  <2>1. ASSUME NEW u \in MarketUpdate, OnUpdate(u) PROVE TypeOK'
    <3>1. /\ priceLevels' = [priceLevels EXCEPT ![u.side] = updateSide(priceLevels[u.side], u)]
          /\ u.side \in Side
      BY <2>1 DEF OnUpdate, onUpdate, MarketUpdate
    <3>2. IsMap(updateSide(priceLevels[u.side], u))
      BY <3>1, UpdateSide DEF TypeOK, IsMap
    <3>3. ASSUME NEW s \in Side PROVE IsMap(priceLevels'[s])
      BY <3>1, <3>2 DEF TypeOK, IsMap
    <3>4. priceLevels' = [s \in Side |-> priceLevels'[s]]
      BY <3>1 DEF TypeOK
    <3>5. QED
      BY <3>3, <3>4 DEF TypeOK, IsMap
  <2>2. CASE UNCHANGED priceLevels
    BY <2>2 DEF TypeOK
  <2>3. QED
    BY <2>1, <2>2 DEF Next
<1>3. QED
  BY <1>1, <1>2, PTL DEF Spec

(* A level exists only while some exchange quotes at its price. *)
THEOREM LevelsAreQuoted == Spec => []NoEmptyLevel
<1>1. Init => NoEmptyLevel
  BY DEF Init, NoEmptyLevel, NoLevels, EmptyMap
<1>2. TypeOK /\ NoEmptyLevel /\ [Next]_priceLevels => NoEmptyLevel'
  <2> SUFFICES ASSUME TypeOK, NoEmptyLevel, [Next]_priceLevels PROVE NoEmptyLevel'
    OBVIOUS
  <2>1. ASSUME NEW u \in MarketUpdate, OnUpdate(u) PROVE NoEmptyLevel'
    <3> DEFINE map == updateSide(priceLevels[u.side], u)
    <3>1. priceLevels' = [priceLevels EXCEPT ![u.side] = map] /\ u.side \in Side
      BY <2>1 DEF OnUpdate, onUpdate, MarketUpdate
    <3>2. /\ IsMap(map)
          /\ \A p \in DOMAIN map :
                \/ p \in DOMAIN priceLevels[u.side] /\ map[p] = priceLevels[u.side][p]
                \/ total(map[p]) # 0
      BY <3>1, UpdateSide DEF TypeOK, IsMap
    <3> HIDE DEF map
    <3> SUFFICES ASSUME NEW s \in Side, NEW p \in DOMAIN priceLevels'[s]
                 PROVE  \E e \in Exchange : priceLevels'[s][p][e] > 0
      BY DEF NoEmptyLevel
    <3>3. CASE s # u.side
      BY <3>1, <3>3 DEF TypeOK, NoEmptyLevel
    <3>4. CASE s = u.side /\ total(map[p]) # 0
      <4>1. priceLevels'[s] = map
        BY <3>1, <3>4 DEF TypeOK
      <4>2. map[p] \in [Exchange -> Nat]
        BY <3>2, <4>1 DEF IsMap
      <4>3. \E e \in Exchange : map[p][e] # 0
        BY <3>4, <4>2, TotalZero
      <4>4. QED
        BY <4>1, <4>2, <4>3
    <3>5. CASE s = u.side /\ total(map[p]) = 0
      BY <3>1, <3>2, <3>5 DEF TypeOK, NoEmptyLevel
    <3>6. QED
      BY <3>3, <3>4, <3>5
  <2>2. CASE UNCHANGED priceLevels
    BY <2>2 DEF NoEmptyLevel
  <2>3. QED
    BY <2>1, <2>2 DEF Next
<1>3. QED
  BY <1>1, <1>2, TypeCorrect, PTL DEF Spec

(* The aggregator implements the quote table: every update overwrites the   *)
(* quote of its exchange, side and price and leaves all others alone.      *)
THEOREM AggregatorImplementsTable == Spec => ImplementsTable
<1>1. Init => Table!TableInit
  BY DEF Init, Table!TableInit, Table!NoQuotes, Quote, at, NoLevels, EmptyMap,
         NoQuantities, Table!Side, Table!Exchange, Side, Exchange
<1>2. TypeOK /\ [Next]_priceLevels => [Table!TableNext]_(Quote(priceLevels))
  <2> SUFFICES ASSUME TypeOK, [Next]_priceLevels
               PROVE  [Table!TableNext]_(Quote(priceLevels))
    OBVIOUS
  <2>1. ASSUME NEW u \in MarketUpdate, OnUpdate(u) PROVE Table!TableNext
    <3> DEFINE map == updateSide(priceLevels[u.side], u)
    <3>1. /\ priceLevels' = [priceLevels EXCEPT ![u.side] = map]
          /\ u.side \in Side
          /\ u.price \in Price
      BY <2>1 DEF OnUpdate, onUpdate, MarketUpdate
    <3>2. \A p : at(map, p) = IF p = u.price
                               THEN set(at(priceLevels[u.side], p), u.exchange, u.quantity)
                               ELSE at(priceLevels[u.side], p)
      BY <3>1, UpdateSide DEF TypeOK, IsMap
    <3> HIDE DEF map
    <3>3. \A s \in Side : priceLevels'[s] = IF s = u.side THEN map ELSE priceLevels[s]
      BY <3>1 DEF TypeOK
    <3>4. Quote(priceLevels)' = [Quote(priceLevels) EXCEPT
                                   ![u.side][u.price][u.exchange] = u.quantity]
      <4> DEFINE new == [at(priceLevels[u.side], u.price) EXCEPT ![u.exchange] = u.quantity]
      <4>1. Quote(priceLevels)' = [s \in Side |-> [p \in Price |->
               IF s = u.side /\ p = u.price THEN new ELSE at(priceLevels[s], p)]]
        BY <3>2, <3>3 DEF Quote, set
      <4>2. [Quote(priceLevels) EXCEPT ![u.side][u.price][u.exchange] = u.quantity]
              = [Quote(priceLevels) EXCEPT ![u.side] =
                   [Quote(priceLevels)[u.side] EXCEPT ![u.price] =
                      [Quote(priceLevels)[u.side][u.price] EXCEPT ![u.exchange] = u.quantity]]]
        OBVIOUS
      <4>3. Quote(priceLevels)[u.side][u.price] = at(priceLevels[u.side], u.price)
        BY <3>1 DEF Quote
      <4> HIDE DEF new
      <4>4. [Quote(priceLevels) EXCEPT ![u.side] =
               [Quote(priceLevels)[u.side] EXCEPT ![u.price] = new]]
              = [s \in Side |-> [p \in Price |->
                   IF s = u.side /\ p = u.price THEN new ELSE at(priceLevels[s], p)]]
        BY <3>1 DEF Quote
      <4>5. QED
        BY <4>1, <4>2, <4>3, <4>4 DEF new
    <3>5. QED
      BY <3>4 DEF Table!TableNext, Table!Overwrite, Table!MarketUpdate, MarketUpdate,
                  Table!Side, Side
  <2>2. CASE UNCHANGED priceLevels
    BY <2>2 DEF Quote
  <2>3. QED
    BY <2>1, <2>2 DEF Next
<1>3. QED
  BY <1>1, <1>2, TypeCorrect, PTL DEF Spec, ImplementsTable, Table!TableSpec

(***************************************************************************)
(* The order of iteration                                                  *)
(***************************************************************************)
LEMMA Least ==
    ASSUME NEW T, T \subseteq Nat, T # {}
    PROVE  \E x \in T : \A y \in T : x <= y
<1> DEFINE R == {ss \in Nat \X Nat : ss[1] < ss[2]}
<1>1. IsWellFoundedOn(R, Nat)
  BY NatLessThanWellFounded, Zenon DEF OpToRel
<1> HIDE DEF R
<1>2. PICK x \in T : \A y \in T : ~(<<y, x>> \in R)
  BY <1>1, WFMin
<1>3. \A m \in Nat, n \in Nat : m < n => <<m, n>> \in R
  BY DEF R
<1>4. \A y \in T : ~(y < x)
  BY <1>2, <1>3
<1>5. QED
  BY <1>4

(* An enumeration of a set of prices in the order of a map. *)
Enumerates(f, side, S) ==
    /\ f \in [1..Cardinality(S) -> S]
    /\ \A i, j \in DOMAIN f : i < j => before(side, f[i], f[j])

(* There is one, by induction on the number of prices: the least price      *)
(* comes first among the asks, and last among the bids.                    *)
LEMMA EnumerationExists ==
    ASSUME NEW S, IsFiniteSet(S), S \subseteq Nat, NEW side
    PROVE  \E f : Enumerates(f, side, S)
<1> DEFINE Bad == {R \in SUBSET S : ~ \E f : Enumerates(f, side, R)}
           T == {Cardinality(R) : R \in Bad}
<1>1. SUFFICES ASSUME Bad # {} PROVE FALSE
  OBVIOUS
<1>2. \A R \in SUBSET S : IsFiniteSet(R) /\ Cardinality(R) \in Nat
  BY FS_Subset, FS_CardinalityType
<1>3. PICK n \in T : \A m \in T : n <= m
  <2>1. T \subseteq Nat /\ T # {}
    BY <1>1, <1>2
  <2>2. QED
    BY <2>1, Least
<1>4. PICK R \in Bad : Cardinality(R) = n
  BY <1>3
<1>5. /\ R \in SUBSET S /\ IsFiniteSet(R) /\ n \in Nat /\ R \subseteq Nat
      /\ ~ \E f : Enumerates(f, side, R)
  BY <1>2, <1>4
<1>6. R # {}
  <2>1. ASSUME R = {} PROVE FALSE
    <3>1. Cardinality(R) = 0
      BY <2>1, FS_EmptySet
    <3>2. 1..0 = {}
      OBVIOUS
    <3>3. Enumerates([k \in {} |-> k], side, R)
      BY <2>1, <3>1, <3>2 DEF Enumerates
    <3>4. QED
      BY <1>5, <3>3
  <2>2. QED
    BY <2>1
<1>7. PICK x \in R : \A y \in R : x <= y
  BY <1>5, <1>6, Least
<1> DEFINE Q == R \ {x}
<1>8. Cardinality(Q) = n - 1 /\ n - 1 \in Nat
  <2>1. Cardinality(Q) = n - 1
    BY <1>4, <1>5, FS_RemoveElement
  <2>2. n # 0
    BY <1>4, <1>5, <1>6, FS_EmptySet
  <2>3. QED
    BY <1>5, <2>1, <2>2
<1>9. PICK f : Enumerates(f, side, Q)
  <2>1. Q \in SUBSET S /\ Cardinality(Q) \notin T
    BY <1>3, <1>5, <1>8
  <2>2. QED
    BY <2>1
<1>10. /\ f \in [1..(n - 1) -> Q]
       /\ \A i, j \in 1..(n - 1) : i < j => before(side, f[i], f[j])
  BY <1>8, <1>9 DEF Enumerates
<1>11. \A k \in 1..(n - 1) : f[k] \in R /\ x < f[k]
  <2>1. \A k \in 1..(n - 1) : f[k] \in R /\ f[k] # x
    BY <1>10
  <2>2. \A y \in R : y # x => x < y
    BY <1>5, <1>7
  <2>3. QED
    BY <2>1, <2>2
<1> HIDE DEF Q, T, Bad
<1>12. CASE side = "ASK"
  <2> DEFINE g == [i \in 1..n |-> IF i = 1 THEN x ELSE f[i - 1]]
  <2>1. \A i \in 1..n : i # 1 => i - 1 \in 1..(n - 1)
    BY <1>5
  <2>2. g \in [1..n -> R]
    BY <1>11, <2>1
  <2>3. ASSUME NEW i \in 1..n, NEW j \in 1..n, i < j PROVE before(side, g[i], g[j])
    <3>1. j # 1 /\ (i # 1 => i - 1 < j - 1)
      BY <1>5, <2>3
    <3>2. CASE i = 1
      BY <1>11, <1>12, <2>1, <3>1, <3>2 DEF before
    <3>3. CASE i # 1
      BY <1>10, <2>1, <3>1, <3>3
    <3>4. QED
      BY <3>2, <3>3
  <2>4. Enumerates(g, side, R)
    BY <1>4, <2>2, <2>3 DEF Enumerates
  <2>5. QED
    BY <1>5, <2>4
<1>13. CASE side # "ASK"
  <2> DEFINE g == [i \in 1..n |-> IF i = n THEN x ELSE f[i]]
  <2>1. \A i \in 1..n : i # n => i \in 1..(n - 1)
    BY <1>5
  <2>2. g \in [1..n -> R]
    BY <1>11, <2>1
  <2>3. ASSUME NEW i \in 1..n, NEW j \in 1..n, i < j PROVE before(side, g[i], g[j])
    <3>1. i # n
      BY <1>5, <2>3
    <3>2. CASE j = n
      BY <1>5, <1>11, <1>13, <2>1, <3>1, <3>2 DEF before
    <3>3. CASE j # n
      BY <1>10, <2>1, <2>3, <3>1, <3>3
    <3>4. QED
      BY <3>2, <3>3
  <2>4. Enumerates(g, side, R)
    BY <1>4, <2>2, <2>3 DEF Enumerates
  <2>5. QED
    BY <1>5, <2>4
<1>14. QED
  BY <1>12, <1>13

(* The iteration visits each price exactly once. *)
LEMMA Iteration ==
    ASSUME NEW S, IsFiniteSet(S), S \subseteq Nat, NEW side
    PROVE  /\ Enumerates(iterated(side, S), side, S)
           /\ \A p \in S : \E i \in DOMAIN iterated(side, S) : iterated(side, S)[i] = p
<1> DEFINE f == iterated(side, S)
           n == Cardinality(S)
<1>1. Enumerates(f, side, S)
  <2>1. PICK g : Enumerates(g, side, S)
    BY EnumerationExists
  <2>2. g \in [1..n -> S] /\ \A i, j \in DOMAIN g : i < j => before(side, g[i], g[j])
    BY <2>1 DEF Enumerates
  <2>3. QED
    BY <2>2 DEF Enumerates, iterated
<1> HIDE DEF f
<1>2. n \in Nat /\ f \in [1..n -> S] /\ DOMAIN f = 1..n
  BY <1>1, FS_CardinalityType DEF Enumerates
<1>3. \A i, j \in 1..n : i # j => f[i] # f[j]
  <2>1. \A p, q \in Nat : before(side, p, q) => p # q
    BY DEF before
  <2>2. \A i, j \in 1..n : i < j => before(side, f[i], f[j])
    BY <1>1, <1>2 DEF Enumerates
  <2>3. \A i \in 1..n : f[i] \in Nat
    BY <1>2
  <2>4. \A i, j \in 1..n : i < j => f[i] # f[j]
    BY <2>1, <2>2, <2>3
  <2>5. QED
    BY <1>2, <2>4
<1>4. ASSUME NEW p \in S, \A i \in 1..n : f[i] # p PROVE FALSE
  <2>1. IsFiniteSet(S \ {p}) /\ Cardinality(S \ {p}) = n - 1
    BY FS_RemoveElement
  <2>2. IsFiniteSet(1..n) /\ Cardinality(1..n) = n
    BY <1>2, FS_Interval
  <2>3. f \in [1..n -> S \ {p}]
    BY <1>2, <1>4
  <2>4. Cardinality(S \ {p}) < Cardinality(1..n)
    BY <1>2, <2>1, <2>2
  <2>5. \E i, j \in 1..n : i # j /\ f[i] = f[j]
    <3> DEFINE A == 1..n
               B == S \ {p}
    <3>1. IsFiniteSet(A) /\ IsFiniteSet(B) /\ Cardinality(B) < Cardinality(A) /\ f \in [A -> B]
      BY <2>1, <2>2, <2>3, <2>4
    <3> HIDE DEF A, B
    <3>2. \E i, j \in A : i # j /\ f[i] = f[j]
      BY <3>1, FS_PigeonHole, Zenon
    <3>3. QED
      BY <3>2 DEF A
  <2>6. QED
    BY <1>3, <2>5
<1>5. QED
  BY <1>1, <1>2, <1>4 DEF f

(***************************************************************************)
(* The sum over the exchanges                                              *)
(***************************************************************************)
LEMMA ExchangesAreFinite == IsFiniteSet(Exchange)
<1>1. /\ IsFiniteSet({"BINANCE"}) /\ IsFiniteSet({"BITMEX"}) /\ IsFiniteSet({"BYBIT"})
      /\ IsFiniteSet({"COINBASE"}) /\ IsFiniteSet({"HYPERLIQUID"})
      /\ IsFiniteSet({"INTERNAL"}) /\ IsFiniteSet({"KRAKEN"}) /\ IsFiniteSet({"OKX"})
  BY FS_Singleton
<1>2. IsFiniteSet({"BINANCE"} \cup {"BITMEX"}) /\ IsFiniteSet({"BYBIT"} \cup {"COINBASE"})
  BY <1>1, FS_Union
<1>3. IsFiniteSet({"HYPERLIQUID"} \cup {"INTERNAL"}) /\ IsFiniteSet({"KRAKEN"} \cup {"OKX"})
  BY <1>1, FS_Union
<1>4. IsFiniteSet(({"BINANCE"} \cup {"BITMEX"}) \cup ({"BYBIT"} \cup {"COINBASE"}))
  BY <1>2, FS_Union
<1>5. IsFiniteSet(({"HYPERLIQUID"} \cup {"INTERNAL"}) \cup ({"KRAKEN"} \cup {"OKX"}))
  BY <1>3, FS_Union
<1> DEFINE A == ({"BINANCE"} \cup {"BITMEX"}) \cup ({"BYBIT"} \cup {"COINBASE"})
           B == ({"HYPERLIQUID"} \cup {"INTERNAL"}) \cup ({"KRAKEN"} \cup {"OKX"})
<1>6. IsFiniteSet(A \cup B)
  BY <1>4, <1>5, FS_Union
<1>7. Exchange = A \cup B
  BY DEF Exchange
<1>8. QED
  BY <1>6, <1>7

(* The quantities of the exchanges of s only. *)
part(q, s) == [e \in Exchange |-> IF e \in s THEN q[e] ELSE 0]

LEMMA PartType ==
    ASSUME NEW q \in [Exchange -> Nat], NEW s
    PROVE  part(q, s) \in [Exchange -> Nat] /\ total(part(q, s)) \in Nat
<1>1. part(q, s) \in [Exchange -> Nat]
  BY DEF part
<1>2. QED
  BY <1>1, TotalZero

(* Taking an exchange out takes its quantity off the total. *)
LEMMA TotalWithout ==
    ASSUME NEW q \in [Exchange -> Nat], NEW s, NEW x \in s, x \in Exchange
    PROVE  total(part(q, s)) = q[x] + total(part(q, s \ {x}))
<1> DEFINE f == part(q, s)
           g == part(q, s \ {x})
<1>1. /\ f \in [Exchange -> Nat] /\ g \in [Exchange -> Nat]
      /\ f[x] = q[x] /\ g[x] = 0 /\ q[x] \in Nat
      /\ \A e \in Exchange : e # x => f[e] = g[e]
  BY PartType DEF part
<1> HIDE DEF f, g
<1>2. /\ f["BINANCE"] \in Nat /\ f["BITMEX"] \in Nat /\ f["BYBIT"] \in Nat
      /\ f["COINBASE"] \in Nat /\ f["HYPERLIQUID"] \in Nat /\ f["INTERNAL"] \in Nat
      /\ f["KRAKEN"] \in Nat /\ f["OKX"] \in Nat
  BY <1>1 DEF Exchange
<1>3. /\ g["BINANCE"] = IF x = "BINANCE" THEN 0 ELSE f["BINANCE"]
      /\ g["BITMEX"] = IF x = "BITMEX" THEN 0 ELSE f["BITMEX"]
      /\ g["BYBIT"] = IF x = "BYBIT" THEN 0 ELSE f["BYBIT"]
      /\ g["COINBASE"] = IF x = "COINBASE" THEN 0 ELSE f["COINBASE"]
      /\ g["HYPERLIQUID"] = IF x = "HYPERLIQUID" THEN 0 ELSE f["HYPERLIQUID"]
      /\ g["INTERNAL"] = IF x = "INTERNAL" THEN 0 ELSE f["INTERNAL"]
      /\ g["KRAKEN"] = IF x = "KRAKEN" THEN 0 ELSE f["KRAKEN"]
      /\ g["OKX"] = IF x = "OKX" THEN 0 ELSE f["OKX"]
  BY <1>1 DEF Exchange
<1>4. total(f) = f[x] + total(g)
  <2>1. CASE x = "BINANCE"
    BY <1>2, <1>3, <2>1 DEF total
  <2>2. CASE x = "BITMEX"
    BY <1>2, <1>3, <2>2 DEF total
  <2>3. CASE x = "BYBIT"
    BY <1>2, <1>3, <2>3 DEF total
  <2>4. CASE x = "COINBASE"
    BY <1>2, <1>3, <2>4 DEF total
  <2>5. CASE x = "HYPERLIQUID"
    BY <1>2, <1>3, <2>5 DEF total
  <2>6. CASE x = "INTERNAL"
    BY <1>2, <1>3, <2>6 DEF total
  <2>7. CASE x = "KRAKEN"
    BY <1>2, <1>3, <2>7 DEF total
  <2>8. CASE x = "OKX"
    BY <1>2, <1>3, <2>8 DEF total
  <2>9. QED
    BY <2>1, <2>2, <2>3, <2>4, <2>5, <2>6, <2>7, <2>8 DEF Exchange
<1>5. QED
  BY <1>1, <1>4 DEF f, g

(* The sum over the set of exchanges, which names none of them, is what     *)
(* Quantities::total() computes by naming all eight.                       *)
LEMMA SumIsTotal ==
    ASSUME NEW q \in [Exchange -> Nat]
    PROVE  Sets!MapThenSumSet(LAMBDA e : q[e], Exchange) = total(q)
<1> DEFINE pick(s) == CHOOSE x \in s : TRUE
           Rec(iter) == [s \in SUBSET Exchange |->
                           IF s = {} THEN 0 ELSE q[pick(s)] + iter[s \ {pick(s)}]]
           sum == CHOOSE iter : iter = Rec(iter)
           T == [s \in SUBSET Exchange |-> total(part(q, s))]
<1>1. Sets!MapThenSumSet(LAMBDA e : q[e], Exchange) = sum[Exchange]
  BY DEF Sets!MapThenSumSet, Sets!MapThenFoldSet
<1>2. \A s \in SUBSET Exchange : s # {} => pick(s) \in s
  OBVIOUS
<1> HIDE DEF pick
<1>3. T = Rec(T)
  <2>1. ASSUME NEW s \in SUBSET Exchange, s = {} PROVE T[s] = 0
    <3>1. \A e \in Exchange : part(q, s)[e] = 0
      BY <2>1 DEF part
    <3>2. QED
      BY <3>1, PartType, TotalZero
  <2>2. ASSUME NEW s \in SUBSET Exchange, s # {}
        PROVE  T[s] = q[pick(s)] + T[s \ {pick(s)}]
    BY <1>2, <2>2, TotalWithout
  <2>3. QED
    BY <2>1, <2>2
<1>4. sum = Rec(sum)
  BY <1>3
<1> HIDE DEF sum
<1>5. \A s \in SUBSET Exchange : sum[s] = T[s]
  <2> DEFINE Bad == {s \in SUBSET Exchange : sum[s] # T[s]}
             C == {Cardinality(s) : s \in Bad}
  <2>1. SUFFICES ASSUME Bad # {} PROVE FALSE
    OBVIOUS
  <2>2. \A s \in SUBSET Exchange : IsFiniteSet(s) /\ Cardinality(s) \in Nat
    BY ExchangesAreFinite, FS_Subset, FS_CardinalityType
  <2>3. C \subseteq Nat /\ C # {}
    BY <2>1, <2>2
  <2>4. PICK n \in C : \A m \in C : n <= m
    BY <2>3, Least
  <2>5. PICK s \in Bad : Cardinality(s) = n
    BY <2>4
  <2>6. s \in SUBSET Exchange /\ sum[s] # T[s] /\ IsFiniteSet(s) /\ n \in Nat
    BY <2>2, <2>5
  <2>7. s # {}
    BY <1>3, <1>4, <2>6
  <2> DEFINE x == pick(s)
  <2>8. x \in s /\ Cardinality(s \ {x}) = n - 1
    BY <1>2, <2>5, <2>6, <2>7, FS_RemoveElement
  <2>9. s \ {x} \in SUBSET Exchange /\ sum[s \ {x}] = T[s \ {x}]
    BY <2>4, <2>6, <2>8
  <2>10. sum[s] = q[x] + sum[s \ {x}] /\ T[s] = q[x] + T[s \ {x}]
    BY <1>3, <1>4, <2>6, <2>7
  <2>11. QED
    BY <2>6, <2>9, <2>10
<1>6. part(q, Exchange) = q
  BY DEF part
<1>7. QED
  BY <1>1, <1>5, <1>6

(***************************************************************************)
(* The consolidated book                                                   *)
(***************************************************************************)
(* Each map holds finitely many levels, so that it can be iterated over.   *)
Finite == \A s \in Side : IsFiniteSet(DOMAIN priceLevels[s])

LEMMA UpdateSideFinite ==
    ASSUME NEW map, NEW u, IsFiniteSet(DOMAIN map)
    PROVE  IsFiniteSet(DOMAIN updateSide(map, u))
<1> DEFINE p == u.price
<1>1. IsFiniteSet(DOMAIN map \cup {p}) /\ IsFiniteSet(DOMAIN map \ {p})
  BY FS_AddElement, FS_RemoveElement, FS_Subset
<1>2. \/ DOMAIN updateSide(map, u) = DOMAIN map \cup {p}
      \/ DOMAIN updateSide(map, u) = DOMAIN map \ {p}
  BY DEF updateSide, put, erase
<1>3. QED
  BY <1>1, <1>2

LEMMA LevelsAreFinite == Spec => []Finite
<1>1. Init => Finite
  BY FS_EmptySet DEF Init, Finite, NoLevels, EmptyMap
<1>2. TypeOK /\ Finite /\ [Next]_priceLevels => Finite'
  <2> SUFFICES ASSUME TypeOK, Finite, [Next]_priceLevels PROVE Finite'
    OBVIOUS
  <2>1. ASSUME NEW u \in MarketUpdate, OnUpdate(u) PROVE Finite'
    <3>1. /\ priceLevels' = [priceLevels EXCEPT ![u.side] = updateSide(priceLevels[u.side], u)]
          /\ u.side \in Side
      BY <2>1 DEF OnUpdate, onUpdate, MarketUpdate
    <3>2. IsFiniteSet(DOMAIN updateSide(priceLevels[u.side], u))
      BY <3>1, UpdateSideFinite DEF Finite
    <3>3. QED
      BY <3>1, <3>2 DEF TypeOK, Finite
  <2>2. CASE UNCHANGED priceLevels
    BY <2>2 DEF Finite
  <2>3. QED
    BY <2>1, <2>2 DEF Next
<1>3. QED
  BY <1>1, <1>2, TypeCorrect, PTL DEF Spec

LEMMA NothingQuoted == ASSUME NEW s PROVE quotes(s, EmptyMap) = << >>
<1>1. DOMAIN EmptyMap = {} /\ IsFiniteSet({}) /\ Cardinality({}) = 0
  BY FS_EmptySet DEF EmptyMap
<1>2. DOMAIN iterated(s, {}) = 1..0
  BY <1>1, Iteration DEF Enumerates
<1>3. QED
  BY <1>1, <1>2 DEF quotes

LEMMA QuotesType ==
    ASSUME NEW map, IsMap(map), IsFiniteSet(DOMAIN map), NEW s
    PROVE  quotes(s, map) \in Seq([price : Price, quantity : Nat])
<1> DEFINE S == DOMAIN map
           f == iterated(s, S)
           n == Cardinality(S)
<1>1. S \subseteq Nat /\ S \subseteq Price
  BY PriceAssumption DEF IsMap
<1>2. f \in [1..n -> S]
  BY <1>1, Iteration DEF Enumerates
<1>3. n \in Nat
  BY FS_CardinalityType
<1>4. \A p \in S : total(map[p]) \in Nat
  BY TotalZero DEF IsMap
<1> HIDE DEF f, n
<1>5. [i \in DOMAIN f |-> [price |-> f[i], quantity |-> total(map[f[i]])]]
        \in [1..n -> [price : Price, quantity : Nat]]
  BY <1>1, <1>2, <1>4
<1>6. quotes(s, map) \in [1..n -> [price : Price, quantity : Nat]]
  BY <1>5 DEF quotes, f
<1>7. QED
  <2> DEFINE X == [price : Price, quantity : Nat]
             g == quotes(s, map)
  <2>1. g \in [1..n -> X]
    BY <1>6
  <2> HIDE DEF X, g
  <2>2. g \in Seq(X)
    BY <1>3, <2>1
  <2>3. QED
    BY <2>2 DEF X, g

(* The quotes of one side, for a map without empty levels. *)
LEMMA QuotesAreExact ==
    ASSUME NEW map, IsMap(map), IsFiniteSet(DOMAIN map), NEW s,
           \A p \in DOMAIN map : \E e \in Exchange : map[p][e] > 0
    PROVE  LET side == quotes(s, map)
           IN  /\ \A i, j \in DOMAIN side :
                      i < j => before(s, side[i].price, side[j].price)
               /\ {<<side[i].price, side[i].quantity>> : i \in DOMAIN side}
                    = {<<p, total(at(map, p))>> : p \in {x \in Price : total(at(map, x)) > 0}}
<1> DEFINE S == DOMAIN map
           f == iterated(s, S)
           side == quotes(s, map)
<1>1. S \subseteq Nat /\ S \subseteq Price
  BY PriceAssumption DEF IsMap
<1>2. /\ Enumerates(f, s, S)
      /\ \A p \in S : \E i \in DOMAIN f : f[i] = p
  BY <1>1, Iteration
<1>3. /\ DOMAIN side = DOMAIN f
      /\ \A i \in DOMAIN f : side[i].price = f[i] /\ side[i].quantity = total(map[f[i]])
  BY DEF quotes
<1>4. \A i \in DOMAIN f : f[i] \in S
  BY <1>2 DEF Enumerates
<1>5. ASSUME NEW x \in Price PROVE x \in S <=> total(at(map, x)) > 0
  <2>1. CASE x \in S
    <3>1. at(map, x) = map[x] /\ map[x] \in [Exchange -> Nat]
      BY <2>1 DEF at, IsMap
    <3>2. total(map[x]) \in Nat /\ total(map[x]) # 0
      <4>1. \E e \in Exchange : map[x][e] # 0
        BY <2>1, <3>1
      <4>2. QED
        BY <3>1, <4>1, TotalZero
    <3>3. QED
      BY <2>1, <3>1, <3>2
  <2>2. CASE x \notin S
    <3>1. at(map, x) = NoQuantities /\ NoQuantities \in [Exchange -> Nat]
          /\ \A e \in Exchange : NoQuantities[e] = 0
      BY <2>2 DEF at, NoQuantities
    <3>2. total(at(map, x)) = 0
      BY <3>1, TotalZero
    <3>3. QED
      BY <2>2, <3>2
  <2>3. QED
    BY <2>1, <2>2
<1> HIDE DEF f, side
<1>6. ASSUME NEW i \in DOMAIN side, NEW j \in DOMAIN side, i < j
      PROVE  before(s, side[i].price, side[j].price)
  BY <1>2, <1>3, <1>6 DEF Enumerates
<1>7. {<<side[i].price, side[i].quantity>> : i \in DOMAIN side} = {<<p, total(map[p])>> : p \in S}
  BY <1>2, <1>3, <1>4
<1>8. {<<p, total(map[p])>> : p \in S}
        = {<<p, total(at(map, p))>> : p \in {x \in Price : total(at(map, x)) > 0}}
  <2>1. \A p \in S : at(map, p) = map[p]
    BY DEF at
  <2>2. S = {x \in Price : total(at(map, x)) > 0}
    BY <1>1, <1>5
  <2>3. QED
    BY <2>1, <2>2
<1>9. QED
  BY <1>6, <1>7, <1>8 DEF side

(* generateBook lists each price at which somebody quotes exactly once, the *)
(* best price first, with the sum of all exchanges; and nothing else.      *)
THEOREM BookIsRight == Spec => []BookIsExact
<1>1. TypeOK /\ NoEmptyLevel /\ Finite => BookIsExact
  <2> SUFFICES ASSUME TypeOK, NoEmptyLevel, Finite PROVE BookIsExact
    OBVIOUS
  <2>1. ASSUME NEW s \in Side
        PROVE  /\ IsMap(priceLevels[s])
               /\ IsFiniteSet(DOMAIN priceLevels[s])
               /\ \A p \in DOMAIN priceLevels[s] : \E e \in Exchange : priceLevels[s][p][e] > 0
    BY DEF TypeOK, NoEmptyLevel, Finite, IsMap
  <2>2. ASSUME NEW s \in Side, NEW p \in Price
        PROVE  Depth(s, p) = total(at(priceLevels[s], p))
    <3> DEFINE q == at(priceLevels[s], p)
    <3>1. Quote(priceLevels)[s][p] = q /\ q \in [Exchange -> Nat]
      BY <2>1, AtType DEF Quote
    <3>2. Depth(s, p) = Sets!MapThenSumSet(LAMBDA e : q[e], Exchange)
      BY <3>1 DEF Depth
    <3> HIDE DEF q
    <3>3. QED
      BY <3>1, <3>2, SumIsTotal DEF q
  <2>3. ASSUME NEW s \in Side
        PROVE  LET side == quotes(s, priceLevels[s])
               IN  /\ \A i, j \in DOMAIN side :
                          i < j => before(s, side[i].price, side[j].price)
                   /\ {<<side[i].price, side[i].quantity>> : i \in DOMAIN side}
                        = {<<p, Depth(s, p)>> : p \in {x \in Price : Depth(s, x) > 0}}
    <3> DEFINE map == priceLevels[s]
               D == {x \in Price : total(at(map, x)) > 0}
    <3>1. D = {x \in Price : Depth(s, x) > 0}
      BY <2>2
    <3>2. {<<p, total(at(map, p))>> : p \in D} = {<<p, Depth(s, p)>> : p \in D}
      BY <2>2
    <3>3. QED
      BY <2>1, <3>1, <3>2, QuotesAreExact
  <2>4. QED
    BY <2>3 DEF BookIsExact, generateBook, before, Side
<1>2. QED
  BY <1>1, TypeCorrect, LevelsAreQuoted, LevelsAreFinite, PTL

=============================================================================
