------------------------ MODULE BookAnalyticsProofs ------------------------
(***************************************************************************)
(* Theorems about BookAnalytics, for books of any prices and quantities    *)
(* and for any configured bands.                                           *)
(***************************************************************************)
EXTENDS BookAnalytics, FiniteSetTheorems, NaturalsInduction, WellFoundedInduction, TLAPS

(***************************************************************************)
(* Least and greatest numbers                                              *)
(***************************************************************************)
LEMMA Least ==
    ASSUME NEW T, T \subseteq Nat, T # {}
    PROVE  \E x \in T : \A y \in T : x <= y
<1> DEFINE R == {ss \in Nat \X Nat : ss[1] < ss[2]}
<1>1. IsWellFoundedOn(R, Nat)
  BY NatLessThanWellFounded, Zenon DEF OpToRel
<1> HIDE DEF R
<1>2. PICK x \in T : \A y \in T : ~(<<y, x>> \in R)
  BY <1>1, WFMin
<1>3. \A m \in Nat, n \in Nat : m < n => <<m, n>> \in R
  BY DEF R
<1>4. \A y \in T : ~(y < x)
  BY <1>2, <1>3
<1>5. QED
  BY <1>4

(* Of the finite sets of numbers without a greatest one, one with the       *)
(* fewest elements has a greatest one after all.                           *)
LEMMA Greatest ==
    ASSUME NEW S, S \subseteq Nat, S # {}, IsFiniteSet(S)
    PROVE  \E x \in S : \A y \in S : x >= y
<1> DEFINE Top(R) == \E x \in R : \A y \in R : x >= y
           Bad == {R \in SUBSET S : R # {} /\ ~Top(R)}
           T == {Cardinality(R) : R \in Bad}
<1>1. SUFFICES ASSUME Bad # {} PROVE FALSE
  OBVIOUS
<1>2. \A R \in SUBSET S : IsFiniteSet(R) /\ Cardinality(R) \in Nat
  BY FS_Subset, FS_CardinalityType
<1>3. PICK n \in T : \A m \in T : n <= m
  <2>1. T \subseteq Nat /\ T # {}
    BY <1>1, <1>2
  <2>2. QED
    BY <2>1, Least
<1>4. PICK R \in Bad : Cardinality(R) = n
  BY <1>3
<1>5. PICK x \in R : TRUE
  BY <1>4
<1> DEFINE Q == R \ {x}
<1>6. /\ R \in SUBSET S /\ Q \in SUBSET S /\ n \in Nat /\ x \in Nat /\ R \subseteq Nat
      /\ ~Top(R) /\ IsFiniteSet(R)
  BY <1>2, <1>4
<1>7. Cardinality(Q) = n - 1
  BY <1>4, <1>5, <1>6, FS_RemoveElement
<1>8. Q \notin Bad
  <2>1. n - 1 \notin T
    BY <1>3, <1>6
  <2>2. QED
    BY <1>7, <2>1
<1>9. CASE Q = {}
  <2>1. \A y \in R : y = x
    BY <1>9
  <2>2. QED
    BY <1>6, <2>1
<1>10. CASE Q # {}
  <2>1. PICK m \in Q : \A y \in Q : m >= y
    BY <1>6, <1>8, <1>10
  <2>2. m \in R /\ m \in Nat /\ \A y \in R : y = x \/ m >= y
    BY <1>6, <2>1
  <2>3. CASE x >= m
    <3>1. \A y \in R : x >= y
      BY <1>6, <2>2, <2>3
    <3>2. QED
      BY <1>6, <3>1
  <2>4. CASE ~(x >= m)
    <3>1. \A y \in R : m >= y
      BY <1>6, <2>2, <2>4
    <3>2. QED
      BY <1>6, <2>2, <3>1
  <2>5. QED
    BY <2>3, <2>4
<1>11. QED
  BY <1>9, <1>10

(* Induction over the numbers up to n. *)
LEMMA UpTo ==
    ASSUME NEW n \in Nat, NEW S, 0 \in S, \A i \in 1..n : i - 1 \in S => i \in S
    PROVE  \A i \in 0..n : i \in S
<1> DEFINE T == (0..n) \ S
<1>1. SUFFICES ASSUME T # {} PROVE FALSE
  OBVIOUS
<1>2. PICK k \in T : \A l \in T : k <= l
  <2>1. T \subseteq Nat
    OBVIOUS
  <2>2. QED
    BY <1>1, <2>1, Least
<1>3. k \in 1..n /\ k - 1 \in 0..n /\ ~(k <= k - 1)
  BY <1>2
<1>4. k - 1 \notin T
  BY <1>2, <1>3
<1>5. QED
  BY <1>2, <1>3, <1>4

(* A recursion over the numbers up to n has a solution. *)
Solves(g, n, V, base, step) ==
    /\ g \in [0..n -> V] /\ g[0] = base
    /\ \A i \in 1..n : g[i] = step[<<g[i - 1], i>>]

LEMMA Recursion ==
    ASSUME NEW n \in Nat, NEW V, NEW base, base \in V,
           NEW step, step \in [V \X (1..n) -> V]
    PROVE  \E g : Solves(g, n, V, base, step)
<1> DEFINE S == {m \in 0..n : \E g : Solves(g, m, V, base, step)}
<1>1. 0 \in S
  <2> DEFINE g == [i \in 0..0 |-> base]
  <2>1. Solves(g, 0, V, base, step)
    BY DEF Solves
  <2> HIDE DEF g
  <2>2. QED
    BY <2>1
<1>2. ASSUME NEW k \in 1..n, k - 1 \in S PROVE k \in S
  <2>1. PICK g : Solves(g, k - 1, V, base, step)
    BY <1>2
  <2> DEFINE h == [i \in 0..k |-> IF i = k THEN step[<<g[k - 1], k>>] ELSE g[i]]
  <2>2. k - 1 \in 0..(k - 1) /\ k - 1 \in 0..k /\ k - 1 # k /\ k # 0 /\ k \in Nat
    OBVIOUS
  <2>3. g[k - 1] \in V
    BY <2>1, <2>2 DEF Solves
  <2>4. h \in [0..k -> V]
    BY <2>1, <2>3 DEF Solves
  <2>5. h[0] = base
    BY <2>1, <2>2 DEF Solves
  <2>6. ASSUME NEW i \in 1..k PROVE h[i] = step[<<h[i - 1], i>>]
    <3>1. i - 1 \in 0..k /\ i - 1 # k /\ (i # k => i \in 1..(k - 1)) /\ i \in 0..k
      OBVIOUS
    <3>2. h[i - 1] = g[i - 1]
      BY <3>1
    <3>3. QED
      BY <2>1, <3>1, <3>2 DEF Solves
  <2>7. Solves(h, k, V, base, step)
    BY <2>4, <2>5, <2>6 DEF Solves
  <2> HIDE DEF h
  <2>8. QED
    BY <2>7
<1> HIDE DEF S
<1>3. \A m \in 0..n : m \in S
  BY <1>1, <1>2, UpTo
<1>4. n \in S
  BY <1>3
<1>5. QED
  BY <1>4 DEF S

LEMMA MinIs ==
    ASSUME NEW S, S \subseteq Nat, S # {}
    PROVE  Sets!Min(S) \in S /\ \A y \in S : Sets!Min(S) <= y
BY Least DEF Sets!Min

LEMMA MaxIs ==
    ASSUME NEW S, S \subseteq Nat, S # {}, IsFiniteSet(S)
    PROVE  Sets!Max(S) \in S /\ \A y \in S : Sets!Max(S) >= y
BY Greatest DEF Sets!Max

(* std::min over the new prices, from the least of the old ones, is the     *)
(* least of all of them.                                                   *)
LEMMA MinOfUnion ==
    ASSUME NEW S, S \subseteq Nat, S # {}, NEW T, T \subseteq Nat
    PROVE  Sets!Min({Sets!Min(S)} \cup T) = Sets!Min(S \cup T)
<1> DEFINE m == Sets!Min(S)  l == Sets!Min({m} \cup T)  k == Sets!Min(S \cup T)
<1>1. m \in S /\ m \in Nat /\ \A y \in S : m <= y
  BY MinIs
<1>2. l \in {m} \cup T /\ \A y \in {m} \cup T : l <= y
  <2>1. {m} \cup T \subseteq Nat /\ {m} \cup T # {}
    BY <1>1
  <2> HIDE DEF m
  <2>2. QED
    BY <2>1, MinIs
<1>3. k \in S \cup T /\ \A y \in S \cup T : k <= y
  BY MinIs
<1> HIDE DEF m, l, k
<1>4. l \in Nat /\ k \in Nat /\ k <= l
  BY <1>1, <1>2, <1>3
<1>5. l <= k
  BY <1>1, <1>2, <1>3, <1>4
<1>6. QED
  BY <1>4, <1>5 DEF l, k, m

LEMMA MaxOfUnion ==
    ASSUME NEW S, S \subseteq Nat, S # {}, IsFiniteSet(S), NEW T, T \subseteq Nat, IsFiniteSet(T)
    PROVE  Sets!Max({Sets!Max(S)} \cup T) = Sets!Max(S \cup T)
<1> DEFINE m == Sets!Max(S)  l == Sets!Max({m} \cup T)  k == Sets!Max(S \cup T)
<1>1. m \in S /\ m \in Nat /\ \A y \in S : m >= y
  BY MaxIs
<1>2. l \in {m} \cup T /\ \A y \in {m} \cup T : l >= y
  <2>1. {m} \cup T \subseteq Nat /\ {m} \cup T # {} /\ IsFiniteSet({m} \cup T)
    BY <1>1, FS_Singleton, FS_Union
  <2> HIDE DEF m
  <2>2. QED
    BY <2>1, MaxIs
<1>3. k \in S \cup T /\ \A y \in S \cup T : k >= y
  BY MaxIs, FS_Union
<1> HIDE DEF m, l, k
<1>4. l \in Nat /\ k \in Nat /\ k >= l
  BY <1>1, <1>2, <1>3
<1>5. l >= k
  BY <1>1, <1>2, <1>3, <1>4
<1>6. QED
  BY <1>4, <1>5 DEF l, k, m

(***************************************************************************)
(* The books                                                               *)
(***************************************************************************)
(* A side of a book: a sequence of levels with prices and quantities.      *)
IsSide(quotes) ==
    /\ quotes \in Seq(Level)
    /\ Len(quotes) \in Nat
    /\ DOMAIN quotes = 1..Len(quotes)
    /\ quotes = << >> <=> Len(quotes) = 0
    /\ \A i \in 1..Len(quotes) :
          /\ quotes[i].price \in Nat /\ quotes[i].price > 0
          /\ quotes[i].quantity \in Nat /\ quotes[i].quantity > 0

LEMMA SidesAreSides ==
    ASSUME NEW side, NEW quotes \in SideBook(side)
    PROVE  IsSide(quotes)
<1>1. Cardinality(Price) \in Nat
  BY BookAssumption, FS_CardinalityType
<1>2. PICK n \in 0..Cardinality(Price) : quotes \in [1..n -> Level]
  BY DEF SideBook
<1>3. \A l \in Level :
        /\ l.price \in Nat /\ l.price > 0 /\ l.quantity \in Nat /\ l.quantity > 0
  BY BookAssumption DEF Level
<1> HIDE DEF Level
<1>4. n \in Nat
  BY <1>1
<1>5. quotes \in Seq(Level) /\ Len(quotes) = n /\ DOMAIN quotes = 1..n
  BY <1>2, <1>4
<1>6. quotes = << >> <=> n = 0
  BY <1>4, <1>5
<1>7. \A i \in 1..n : quotes[i] \in Level
  BY <1>2
<1>8. QED
  BY <1>3, <1>4, <1>5, <1>6, <1>7 DEF IsSide

LEMMA BooksAreBooks ==
    ASSUME NEW b \in Books
    PROVE  IsSide(b.ask) /\ IsSide(b.bid)
BY SidesAreSides DEF Books

(* The prices of a side. *)
Prices(quotes) == {quotes[i].price : i \in DOMAIN quotes}

LEMMA PricesOfSide ==
    ASSUME NEW quotes, IsSide(quotes)
    PROVE  /\ Prices(quotes) \subseteq Nat /\ IsFiniteSet(Prices(quotes))
           /\ quotes = << >> => Prices(quotes) = {}
           /\ quotes # << >> => quotes[1].price \in Prices(quotes)
<1>1. IsFiniteSet(1..Len(quotes))
  BY FS_Interval DEF IsSide
<1>2. IsFiniteSet(Prices(quotes))
  <2> DEFINE n == Len(quotes)  f == [i \in 1..n |-> quotes[i].price]
  <2>1. f \in Surjection(1..n, {quotes[i].price : i \in 1..n})
    BY DEF Surjection
  <2>2. IsFiniteSet({quotes[i].price : i \in 1..n})
    BY <1>1, <2>1, FS_Surjection
  <2>3. QED
    BY <2>2 DEF Prices, IsSide
<1>3. QED
  BY <1>2 DEF Prices, IsSide

(***************************************************************************)
(* Statistics                                                              *)
(***************************************************************************)
(* The extremes are known exactly when a price was seen; until then there   *)
(* is no current price either.                                             *)
StatsInv ==
    /\ asksSeen \subseteq Nat /\ bidsSeen \subseteq Nat /\ IsFiniteSet(bidsSeen)
    /\ asksSeen = {} => stats.currentAsk = None
    /\ bidsSeen = {} => stats.currentBid = None
    /\ ExtremesOfAllTime

LEMMA LowestOfAll ==
    ASSUME NEW quotes, IsSide(quotes), NEW seen, seen \subseteq Nat, NEW known, NEW last,
           known = IF seen = {} THEN None ELSE Sets!Min(seen),
           seen = {} => last = None
    PROVE  LET now == seen \cup Prices(quotes)
           IN  /\ lowest(known, current(last, quotes), quotes)
                     = IF now = {} THEN None ELSE Sets!Min(now)
               /\ now \subseteq Nat
               /\ now = {} => current(last, quotes) = None
<1> DEFINE now == seen \cup Prices(quotes)
<1>1. now \subseteq Nat /\ Prices(quotes) \subseteq Nat
  BY PricesOfSide
<1>2. seen # {} => known # None
  <2>1. seen # {} => Sets!Min(seen) \in Nat
    BY MinIs
  <2>2. QED
    BY <2>1, NoneAssumption
<1>3. CASE quotes = << >>
  <2>1. now = seen
    BY <1>3, PricesOfSide
  <2>2. current(last, quotes) = last
    BY <1>3 DEF current
  <2>3. lowest(known, last, quotes) = known
    BY <1>3, <1>2 DEF lowest
  <2>4. QED
    BY <1>1, <2>1, <2>2, <2>3
<1>4. CASE quotes # << >>
  <2> DEFINE p == quotes[1].price
  <2>1. p \in Prices(quotes) /\ now # {}
    BY <1>4, PricesOfSide
  <2>2. CASE seen = {}
    <3>1. lowest(known, current(last, quotes), quotes) = Sets!Min({p} \cup Prices(quotes))
      BY <1>4, <2>2 DEF lowest, current, Prices
    <3>2. {p} \cup Prices(quotes) = now
      BY <2>1, <2>2
    <3>3. QED
      BY <1>1, <2>1, <3>1, <3>2
  <2>3. CASE seen # {}
    <3>1. known # None
      BY <1>2, <2>3
    <3>2. lowest(known, current(last, quotes), quotes)
            = Sets!Min({Sets!Min(seen)} \cup Prices(quotes))
      BY <1>4, <2>3, <3>1 DEF lowest, Prices
    <3>3. QED
      BY <1>1, <2>1, <2>3, <3>2, MinOfUnion
  <2>4. QED
    BY <2>2, <2>3
<1>5. QED
  BY <1>3, <1>4

LEMMA HighestOfAll ==
    ASSUME NEW quotes, IsSide(quotes), NEW seen, seen \subseteq Nat, IsFiniteSet(seen),
           NEW known, NEW last,
           known = IF seen = {} THEN None ELSE Sets!Max(seen),
           seen = {} => last = None
    PROVE  LET now == seen \cup Prices(quotes)
           IN  /\ highest(known, current(last, quotes), quotes)
                     = IF now = {} THEN None ELSE Sets!Max(now)
               /\ now \subseteq Nat /\ IsFiniteSet(now)
               /\ now = {} => current(last, quotes) = None
<1> DEFINE now == seen \cup Prices(quotes)
<1>1. /\ now \subseteq Nat /\ IsFiniteSet(now)
      /\ Prices(quotes) \subseteq Nat /\ IsFiniteSet(Prices(quotes))
  BY PricesOfSide, FS_Union
<1>2. seen # {} => known # None
  <2>1. seen # {} => Sets!Max(seen) \in Nat
    BY MaxIs
  <2>2. QED
    BY <2>1, NoneAssumption
<1>3. CASE quotes = << >>
  <2>1. now = seen
    BY <1>3, PricesOfSide
  <2>2. current(last, quotes) = last
    BY <1>3 DEF current
  <2>3. highest(known, last, quotes) = known
    BY <1>3, <1>2 DEF highest
  <2>4. QED
    BY <1>1, <2>1, <2>2, <2>3
<1>4. CASE quotes # << >>
  <2> DEFINE p == quotes[1].price
  <2>1. p \in Prices(quotes) /\ now # {}
    BY <1>4, PricesOfSide
  <2>2. CASE seen = {}
    <3>1. highest(known, current(last, quotes), quotes) = Sets!Max({p} \cup Prices(quotes))
      BY <1>4, <2>2 DEF highest, current, Prices
    <3>2. {p} \cup Prices(quotes) = now
      BY <2>1, <2>2
    <3>3. QED
      BY <1>1, <2>1, <3>1, <3>2
  <2>3. CASE seen # {}
    <3>1. known # None
      BY <1>2, <2>3
    <3>2. highest(known, current(last, quotes), quotes)
            = Sets!Max({Sets!Max(seen)} \cup Prices(quotes))
      BY <1>4, <2>3, <3>1 DEF highest, Prices
    <3>3. QED
      BY <1>1, <2>1, <2>3, <3>2, MaxOfUnion
  <2>4. QED
    BY <2>2, <2>3
<1>5. QED
  BY <1>3, <1>4

(* The lowest ask and the highest bid that Statistics keeps are those of    *)
(* all snapshots so far, also when a side was empty in some of them: the    *)
(* member that survives from one onSnapshot to the next never forgets and   *)
(* never invents a price.                                                  *)
THEOREM ExtremesAreRight == Spec => []ExtremesOfAllTime
<1>1. Init => StatsInv
  BY FS_EmptySet DEF Init, StatsInv, ExtremesOfAllTime, NoStats
<1>2. StatsInv /\ [Next]_vars => StatsInv'
  <2> SUFFICES ASSUME StatsInv, [Next]_vars PROVE StatsInv'
    OBVIOUS
  <2>1. ASSUME NEW b \in Books, OnSnapshot(b) PROVE StatsInv'
    <3>1. IsSide(b.ask) /\ IsSide(b.bid)
      BY BooksAreBooks
    <3>2. /\ asksSeen' = asksSeen \cup Prices(b.ask)
          /\ bidsSeen' = bidsSeen \cup Prices(b.bid)
      BY <2>1 DEF OnSnapshot, Prices
    <3>3. /\ stats'.currentAsk = current(stats.currentAsk, b.ask)
          /\ stats'.currentBid = current(stats.currentBid, b.bid)
          /\ stats'.lowestAsk
               = lowest(stats.lowestAsk, current(stats.currentAsk, b.ask), b.ask)
          /\ stats'.highestBid
               = highest(stats.highestBid, current(stats.currentBid, b.bid), b.bid)
      BY <2>1 DEF OnSnapshot, compute
    <3>4. /\ stats'.lowestAsk = IF asksSeen' = {} THEN None ELSE Sets!Min(asksSeen')
          /\ asksSeen' \subseteq Nat
          /\ asksSeen' = {} => stats'.currentAsk = None
      <4> DEFINE known == stats.lowestAsk  last == stats.currentAsk  quotes == b.ask
      <4>1. /\ IsSide(quotes) /\ asksSeen \subseteq Nat
            /\ known = IF asksSeen = {} THEN None ELSE Sets!Min(asksSeen)
            /\ asksSeen = {} => last = None
        BY <3>1 DEF StatsInv, ExtremesOfAllTime
      <4> HIDE DEF known, last, quotes
      <4>2. /\ lowest(known, current(last, quotes), quotes)
                 = IF asksSeen \cup Prices(quotes) = {} THEN None
                   ELSE Sets!Min(asksSeen \cup Prices(quotes))
            /\ asksSeen \cup Prices(quotes) \subseteq Nat
            /\ asksSeen \cup Prices(quotes) = {} => current(last, quotes) = None
        BY <4>1, LowestOfAll
      <4>3. QED
        BY <3>2, <3>3, <4>2 DEF known, last, quotes
    <3>5. /\ stats'.highestBid = IF bidsSeen' = {} THEN None ELSE Sets!Max(bidsSeen')
          /\ bidsSeen' \subseteq Nat /\ IsFiniteSet(bidsSeen')
          /\ bidsSeen' = {} => stats'.currentBid = None
      <4> DEFINE known == stats.highestBid  last == stats.currentBid  quotes == b.bid
      <4>1. /\ IsSide(quotes) /\ bidsSeen \subseteq Nat /\ IsFiniteSet(bidsSeen)
            /\ known = IF bidsSeen = {} THEN None ELSE Sets!Max(bidsSeen)
            /\ bidsSeen = {} => last = None
        BY <3>1 DEF StatsInv, ExtremesOfAllTime
      <4> HIDE DEF known, last, quotes
      <4>2. /\ highest(known, current(last, quotes), quotes)
                 = IF bidsSeen \cup Prices(quotes) = {} THEN None
                   ELSE Sets!Max(bidsSeen \cup Prices(quotes))
            /\ bidsSeen \cup Prices(quotes) \subseteq Nat /\ IsFiniteSet(bidsSeen \cup Prices(quotes))
            /\ bidsSeen \cup Prices(quotes) = {} => current(last, quotes) = None
        BY <4>1, HighestOfAll
      <4>3. QED
        BY <3>2, <3>3, <4>2 DEF known, last, quotes
    <3>6. QED
      BY <3>4, <3>5 DEF StatsInv, ExtremesOfAllTime
  <2>2. CASE UNCHANGED vars
    BY <2>2 DEF vars, StatsInv, ExtremesOfAllTime
  <2>3. QED
    BY <2>1, <2>2 DEF Next
<1>3. StatsInv => ExtremesOfAllTime
  BY DEF StatsInv
<1>4. QED
  BY <1>1, <1>2, <1>3, PTL DEF Spec

(***************************************************************************)
(* Loops over the levels and over the bands                                *)
(***************************************************************************)
(* The running total starts at 0, grows by each value, and never shrinks.  *)
LEMMA CumulatedIs ==
    ASSUME NEW n \in Nat, NEW v \in [1..n -> Nat]
    PROVE  /\ cumulated(v)[0] = 0
           /\ \A i \in 1..n : cumulated(v)[i] = cumulated(v)[i - 1] + v[i]
           /\ \A i \in 0..n : cumulated(v)[i] \in Nat
           /\ \A i, j \in 0..n : i <= j => cumulated(v)[i] <= cumulated(v)[j]
<1> DEFINE Is(g) == g = [i \in 0..Len(v) |-> IF i = 0 THEN 0 ELSE g[i - 1] + v[i]]
           c == cumulated(v)
<1>1. Len(v) = n
  OBVIOUS
<1>2. \E g : Is(g)
  <2> DEFINE step == [p \in Nat \X (1..n) |-> p[1] + v[p[2]]]
  <2>1. step \in [Nat \X (1..n) -> Nat]
    OBVIOUS
  <2>2. \A a \in Nat, i \in 1..n : step[<<a, i>>] = a + v[i]
    OBVIOUS
  <2> HIDE DEF step
  <2>3. PICK g : Solves(g, n, Nat, 0, step)
    BY <2>1, Recursion
  <2>4. \A i \in 1..n : g[i] = g[i - 1] + v[i]
    <3>1. \A i \in 1..n : i - 1 \in 0..n
      OBVIOUS
    <3>2. QED
      BY <2>2, <2>3, <3>1 DEF Solves
  <2>5. \A i \in 0..n : i = 0 \/ i \in 1..n
    OBVIOUS
  <2>6. Is(g)
    BY <1>1, <2>3, <2>4, <2>5 DEF Solves
  <2> HIDE DEF Is
  <2>7. QED
    BY <2>6
<1>3. c = CHOOSE g : Is(g)
  BY DEF cumulated
<1> HIDE DEF c
<1>4. c = [i \in 0..n |-> IF i = 0 THEN 0 ELSE c[i - 1] + v[i]]
  <2> HIDE DEF Is
  <2>1. Is(c)
    BY <1>2, <1>3
  <2>2. QED
    BY <1>1, <2>1 DEF Is
<1> HIDE DEF Is
<1>5. c[0] = 0
  BY <1>4
<1>6. \A i \in 1..n : c[i] = c[i - 1] + v[i]
  BY <1>4
<1>7. \A i \in 0..n : c[i] \in Nat
  <2> DEFINE S == {i \in 0..n : c[i] \in Nat}
  <2>1. 0 \in S
    BY <1>5
  <2>2. ASSUME NEW i \in 1..n, i - 1 \in S PROVE i \in S
    BY <1>6, <2>2
  <2> HIDE DEF S
  <2>3. \A i \in 0..n : i \in S
    BY <2>1, <2>2, UpTo
  <2>4. QED
    BY <2>3 DEF S
<1>8. ASSUME NEW i \in 0..n PROVE \A j \in 0..n : i <= j => c[i] <= c[j]
  <2> DEFINE S == {j \in 0..n : i <= j => c[i] <= c[j]}
  <2>1. 0 \in S
    BY <1>7
  <2>2. ASSUME NEW j \in 1..n, j - 1 \in S PROVE j \in S
    <3>1. j \in 0..n /\ j - 1 \in 0..n /\ v[j] \in Nat
      OBVIOUS
    <3>2. c[i] \in Nat /\ c[j] \in Nat /\ c[j - 1] \in Nat /\ c[j] = c[j - 1] + v[j]
      BY <1>6, <1>7, <3>1
    <3>3. i <= j - 1 \/ i = j \/ ~(i <= j)
      OBVIOUS
    <3>4. QED
      BY <2>2, <3>1, <3>2, <3>3
  <2> HIDE DEF S
  <2>3. \A j \in 0..n : j \in S
    BY <2>1, <2>2, UpTo
  <2>4. QED
    BY <2>3 DEF S
<1>9. QED
  BY <1>5, <1>6, <1>7, <1>8 DEF c

(* A loop takes all levels before the first one that does not fit. *)
LEMMA TakenIs ==
    ASSUME NEW n \in Nat, NEW fits, Len(fits) = n
    PROVE  /\ taken(fits) \in 0..n
           /\ \A i \in 1..taken(fits) : fits[i]
           /\ taken(fits) < n => ~fits[taken(fits) + 1]
<1> DEFINE S == {k \in 0..n : \A i \in 1..k : fits[i]}  t == taken(fits)
<1>1. t = Sets!Max(S)
  BY DEF taken
<1>2. S \subseteq Nat /\ IsFiniteSet(S) /\ 0 \in S
  <2>1. IsFiniteSet(0..n) /\ S \subseteq 0..n
    BY FS_Interval
  <2>2. IsFiniteSet(S)
    BY <2>1, FS_Subset
  <2>3. QED
    BY <2>2
<1>3. t \in S /\ \A k \in S : t >= k
  <2> HIDE DEF S, t
  <2>1. QED
    BY <1>1, <1>2, MaxIs
<1> HIDE DEF t
<1>4. t \in 0..n /\ \A i \in 1..t : fits[i]
  BY <1>3
<1>5. ASSUME t < n, fits[t + 1] PROVE FALSE
  <2>1. t + 1 \in 0..n /\ ~(t >= t + 1)
    BY <1>4, <1>5
  <2>2. \A i \in 1..(t + 1) : i = t + 1 \/ i \in 1..t
    BY <1>4
  <2>3. t + 1 \in S
    BY <1>4, <1>5, <2>1, <2>2
  <2>4. QED
    BY <1>3, <2>1, <2>3
<1>6. QED
  BY <1>4, <1>5 DEF t

(* The positions up to the i-th of bands that exist, and how many they are. *)
Kept(bands, i) == {k \in 1..i : bands[k] # None}

count(bands, i) == Cardinality(Kept(bands, i))

LEMMA CountIs ==
    ASSUME NEW n \in Nat, NEW bands
    PROVE  /\ count(bands, 0) = 0
           /\ \A i \in 0..n : count(bands, i) \in Nat
           /\ \A i \in 1..n : count(bands, i) =
                 IF bands[i] = None THEN count(bands, i - 1) ELSE count(bands, i - 1) + 1
<1>1. \A i \in 0..n : IsFiniteSet(Kept(bands, i))
  <2> TAKE i \in 0..n
  <2>1. IsFiniteSet(1..i) /\ Kept(bands, i) \subseteq 1..i
    BY FS_Interval DEF Kept
  <2>2. QED
    BY <2>1, FS_Subset
<1>2. count(bands, 0) = 0
  <2>1. Kept(bands, 0) = {}
    BY DEF Kept
  <2>2. QED
    BY <2>1, FS_EmptySet DEF count
<1>3. \A i \in 0..n : count(bands, i) \in Nat
  BY <1>1, FS_CardinalityType DEF count
<1>4. ASSUME NEW i \in 1..n
      PROVE  count(bands, i) =
               IF bands[i] = None THEN count(bands, i - 1) ELSE count(bands, i - 1) + 1
  <2>1. \A k : k \in 1..i <=> k \in 1..(i - 1) \/ k = i
    OBVIOUS
  <2>2. CASE bands[i] = None
    <3>1. Kept(bands, i) = Kept(bands, i - 1)
      BY <2>1, <2>2 DEF Kept
    <3>2. QED
      BY <2>2, <3>1 DEF count
  <2>3. CASE bands[i] # None
    <3>1. i \notin 1..(i - 1) /\ i - 1 \in 0..n
      OBVIOUS
    <3>2. Kept(bands, i) = Kept(bands, i - 1) \cup {i} /\ i \notin Kept(bands, i - 1)
      BY <2>1, <2>3, <3>1 DEF Kept
    <3>3. QED
      BY <1>1, <2>3, <3>1, <3>2, FS_AddElement DEF count
  <2>4. QED
    BY <2>2, <2>3
<1>5. QED
  BY <1>2, <1>3, <1>4

(* A band that exists comes after those that exist before it: each one that *)
(* is left out moves it up by a position.                                  *)
LEMMA ExistingIs ==
    ASSUME NEW n \in Nat, NEW bands \in [1..n -> Band \cup {None}]
    PROVE  /\ existing(bands) \in Seq(Band) /\ Len(existing(bands)) = count(bands, n)
           /\ DOMAIN existing(bands) = 1..count(bands, n)
           /\ \A i \in 1..n : bands[i] # None =>
                 /\ count(bands, i) \in 1..count(bands, n)
                 /\ existing(bands)[count(bands, i)] = bands[i]
<1> DEFINE V == Seq(Band)
           Step(s, i) == IF bands[i] = None THEN s ELSE Append(s, bands[i])
           Is(g) == g = [i \in 0..Len(bands) |-> IF i = 0 THEN << >> ELSE Step(g[i - 1], i)]
<1>1. Len(bands) = n
  OBVIOUS
<1>2. \A s \in V, i \in 1..n : Step(s, i) \in V
  <2>1. \A i \in 1..n : bands[i] = None \/ bands[i] \in Band
    OBVIOUS
  <2> HIDE DEF Band
  <2>2. QED
    BY <2>1
<1> HIDE DEF Step
<1>3. \E g : Is(g)
  <2> DEFINE step == [p \in V \X (1..n) |-> Step(p[1], p[2])]
  <2>1. step \in [V \X (1..n) -> V]
    BY <1>2
  <2>2. \A s \in V, i \in 1..n : step[<<s, i>>] = Step(s, i)
    OBVIOUS
  <2>3. << >> \in V
    OBVIOUS
  <2> HIDE DEF step, V
  <2>4. PICK g : Solves(g, n, V, << >>, step)
    BY <2>1, <2>3, Recursion
  <2>5. \A i \in 1..n : g[i] = Step(g[i - 1], i)
    <3>1. \A i \in 1..n : i - 1 \in 0..n
      OBVIOUS
    <3>2. QED
      BY <2>2, <2>4, <3>1 DEF Solves
  <2>6. \A i \in 0..n : i = 0 \/ i \in 1..n
    OBVIOUS
  <2>7. Is(g)
    BY <1>1, <2>4, <2>5, <2>6 DEF Solves
  <2> HIDE DEF Is
  <2>8. QED
    BY <2>7
<1> DEFINE c == CHOOSE g : Is(g)
<1>4. existing(bands) = c[n]
  BY <1>1 DEF existing, Step
<1> HIDE DEF c
<1>5. c = [i \in 0..n |-> IF i = 0 THEN << >> ELSE Step(c[i - 1], i)]
  <2> HIDE DEF Is
  <2>1. Is(c)
    BY <1>3 DEF c
  <2>2. QED
    BY <1>1, <2>1 DEF Is
<1> HIDE DEF Is
<1>6. c[0] = << >> /\ \A i \in 1..n : c[i] = Step(c[i - 1], i)
  BY <1>5
<1> DEFINE m(i) == count(bands, i)
           S == {i \in 0..n : /\ c[i] \in V /\ Len(c[i]) = m(i)
                              /\ \A k \in 1..i : bands[k] # None =>
                                    m(k) \in 1..m(i) /\ c[i][m(k)] = bands[k]}
<1>7. /\ m(0) = 0 /\ \A i \in 0..n : m(i) \in Nat
      /\ \A i \in 1..n : m(i) = IF bands[i] = None THEN m(i - 1) ELSE m(i - 1) + 1
  BY CountIs
<1> HIDE DEF m
<1>8. 0 \in S
  <2>1. 1..0 = {} /\ 0 \in 0..n
    OBVIOUS
  <2>2. << >> \in V /\ Len(<< >>) = 0
    OBVIOUS
  <2> HIDE DEF V
  <2>3. QED
    BY <1>6, <1>7, <2>1, <2>2
<1>9. ASSUME NEW i \in 1..n, i - 1 \in S PROVE i \in S
  <2> DEFINE s == c[i - 1]
  <2>1. /\ s \in V /\ Len(s) = m(i - 1)
        /\ \A k \in 1..(i - 1) : bands[k] # None => m(k) \in 1..m(i - 1) /\ s[m(k)] = bands[k]
        /\ i \in 0..n /\ c[i] = Step(s, i)
    BY <1>6, <1>9
  <2> HIDE DEF s
  <2>2. /\ m(i - 1) \in Nat /\ m(i) = IF bands[i] = None THEN m(i - 1) ELSE m(i - 1) + 1
        /\ \A k \in 1..i : k = i \/ k \in 1..(i - 1)
    BY <1>7
  <2>3. CASE bands[i] = None
    <3>1. Step(s, i) = s /\ m(i) = m(i - 1)
      BY <2>2, <2>3 DEF Step
    <3> HIDE DEF V
    <3>2. QED
      BY <2>1, <2>2, <2>3, <3>1
  <2>4. CASE bands[i] # None
    <3>1. bands[i] \in Band /\ Step(s, i) = Append(s, bands[i]) /\ m(i) = Len(s) + 1
      BY <2>1, <2>2, <2>4 DEF Step
    <3>2. \A x \in Band, q \in Seq(Band) :
             /\ Append(q, x) \in Seq(Band) /\ Len(Append(q, x)) = Len(q) + 1
             /\ Append(q, x)[Len(q) + 1] = x
             /\ \A k \in 1..Len(q) : Append(q, x)[k] = q[k]
      <4> HIDE DEF Band
      <4>1. QED
        OBVIOUS
    <3>3. /\ c[i] \in V /\ Len(c[i]) = m(i) /\ c[i][m(i)] = bands[i]
          /\ \A k \in 1..m(i - 1) : c[i][k] = s[k]
      BY <2>1, <3>1, <3>2
    <3>4. m(i) \in 1..m(i) /\ \A k \in 1..m(i - 1) : k \in 1..m(i)
      BY <2>1, <2>2, <3>1
    <3> HIDE DEF V
    <3>5. \A k \in 1..i : bands[k] # None => m(k) \in 1..m(i) /\ c[i][m(k)] = bands[k]
      BY <2>1, <2>2, <3>3, <3>4
    <3>6. QED
      BY <2>1, <3>3, <3>5
  <2>5. QED
    BY <2>3, <2>4
<1> HIDE DEF S, V
<1>10. \A i \in 0..n : i \in S
  BY <1>8, <1>9, UpTo
<1>11. /\ c[n] \in V /\ Len(c[n]) = m(n)
       /\ \A k \in 1..n : bands[k] # None => m(k) \in 1..m(n) /\ c[n][m(k)] = bands[k]
  <2>1. n \in 0..n
    OBVIOUS
  <2>2. QED
    BY <1>10, <2>1 DEF S
<1>12. \A q \in V : DOMAIN q = 1..Len(q)
  BY DEF V
<1>13. QED
  BY <1>4, <1>11, <1>12 DEF V, m

(***************************************************************************)
(* Sums over sets of levels                                                *)
(***************************************************************************)
(* The values at the positions of s, and 0 elsewhere. *)
part(v, n, s) == [i \in 1..n |-> IF i \in s THEN v[i] ELSE 0]

LEMMA PartType ==
    ASSUME NEW n \in Nat, NEW v \in [1..n -> Nat], NEW s
    PROVE  part(v, n, s) \in [1..n -> Nat]
BY DEF part

(* The total of the values at the positions of s. *)
total(v, n, s) == cumulated(part(v, n, s))[n]

(* Taking a position out takes its value off the total. *)
LEMMA TotalWithout ==
    ASSUME NEW n \in Nat, NEW v, v \in [1..n -> Nat], NEW x, x \in 1..n, NEW s, x \in s
    PROVE  total(v, n, s) = v[x] + total(v, n, s \ {x})
<1> DEFINE f == part(v, n, s)  g == part(v, n, s \ {x})
           a == cumulated(f)  b == cumulated(g)
<1>1. f \in [1..n -> Nat] /\ g \in [1..n -> Nat] /\ v[x] \in Nat
  BY PartType
<1>2. f[x] = v[x] /\ g[x] = 0 /\ \A i \in 1..n : i # x => f[i] = g[i]
  BY DEF part
<1> HIDE DEF f, g
<1>3. /\ a[0] = 0 /\ \A i \in 1..n : a[i] = a[i - 1] + f[i]
      /\ \A i \in 0..n : a[i] \in Nat
  BY <1>1, CumulatedIs
<1>4. /\ b[0] = 0 /\ \A i \in 1..n : b[i] = b[i - 1] + g[i]
      /\ \A i \in 0..n : b[i] \in Nat
  BY <1>1, CumulatedIs
<1> HIDE DEF a, b
<1> DEFINE S == {i \in 0..n : /\ i < x => a[i] = b[i]
                              /\ i >= x => a[i] = b[i] + v[x]}
<1>5. 0 \in S
  <2>1. 0 \in 0..n /\ ~(0 >= x)
    OBVIOUS
  <2>2. QED
    BY <1>3, <1>4, <2>1
<1>6. ASSUME NEW i \in 1..n, i - 1 \in S PROVE i \in S
  <2>1. /\ i \in 0..n /\ i - 1 \in 0..n /\ a[i] = a[i - 1] + f[i] /\ b[i] = b[i - 1] + g[i]
        /\ a[i] \in Nat /\ a[i - 1] \in Nat /\ b[i] \in Nat /\ b[i - 1] \in Nat
        /\ f[i] \in Nat /\ g[i] \in Nat
    <3>1. i \in 0..n /\ i - 1 \in 0..n
      OBVIOUS
    <3>2. QED
      BY <1>1, <1>3, <1>4, <3>1
  <2>2. CASE i = x
    <3>1. i - 1 < x /\ i >= x /\ ~(i < x)
      BY <2>2
    <3>2. a[i - 1] = b[i - 1] /\ f[i] = v[x] /\ g[i] = 0
      BY <1>2, <1>6, <2>2, <3>1
    <3>3. QED
      BY <1>1, <2>1, <3>1, <3>2, SMTT(30)
  <2>3. CASE i # x
    <3>1. (i >= x <=> i - 1 >= x) /\ (i < x <=> i - 1 < x)
      BY <2>3
    <3>2. f[i] = g[i]
      BY <1>2, <2>3
    <3>3. CASE i < x
      <4>1. a[i - 1] = b[i - 1] /\ ~(i >= x)
        BY <1>6, <3>1, <3>3
      <4>2. QED
        BY <2>1, <3>2, <4>1
    <3>4. CASE i >= x
      <4>1. a[i - 1] = b[i - 1] + v[x] /\ ~(i < x)
        BY <1>6, <3>1, <3>4
      <4>2. QED
        <5>1. \A p, q, o \in Nat : (p + q) + o = (p + o) + q
          OBVIOUS
        <5>2. a[i] = (b[i - 1] + v[x]) + g[i]
          BY <2>1, <3>2, <4>1
        <5>3. a[i] = (b[i - 1] + g[i]) + v[x]
          BY <1>1, <2>1, <5>1, <5>2, SMTT(30)
        <5>4. QED
          BY <2>1, <4>1, <5>3
    <3>5. QED
      BY <3>3, <3>4
  <2>4. QED
    BY <2>2, <2>3
<1> HIDE DEF S
<1>7. \A i \in 0..n : i \in S
  BY <1>5, <1>6, UpTo
<1>8. n \in 0..n /\ n >= x
  OBVIOUS
<1>9. a[n] = b[n] + v[x] /\ b[n] \in Nat
  BY <1>4, <1>7, <1>8 DEF S
<1>10. a[n] = v[x] + b[n]
  BY <1>1, <1>9
<1>11. QED
  BY <1>10 DEF total, a, b, f, g

(* The total of the first m values. *)
LEMMA TotalOfFirst ==
    ASSUME NEW n \in Nat, NEW v \in [1..n -> Nat], NEW m \in 0..n
    PROVE  total(v, n, 1..m) = cumulated(v)[m]
<1> DEFINE f == part(v, n, 1..m)  a == cumulated(f)  c == cumulated(v)
<1>1. f \in [1..n -> Nat] /\ \A i \in 1..n : f[i] = IF i <= m THEN v[i] ELSE 0
  BY PartType DEF part
<1> HIDE DEF f
<1>2. /\ a[0] = 0 /\ \A i \in 1..n : a[i] = a[i - 1] + f[i]
      /\ \A i \in 0..n : a[i] \in Nat
  BY <1>1, CumulatedIs
<1>3. /\ c[0] = 0 /\ \A i \in 1..n : c[i] = c[i - 1] + v[i]
      /\ \A i \in 0..n : c[i] \in Nat
  BY CumulatedIs
<1> HIDE DEF a, c
<1> DEFINE S == {i \in 0..n : a[i] = IF i <= m THEN c[i] ELSE c[m]}
<1>4. 0 \in S
  BY <1>2, <1>3
<1>5. ASSUME NEW i \in 1..n, i - 1 \in S PROVE i \in S
  <2>1. /\ i \in 0..n /\ i - 1 \in 0..n /\ a[i] = a[i - 1] + f[i] /\ c[i] = c[i - 1] + v[i]
        /\ a[i - 1] = IF i - 1 <= m THEN c[i - 1] ELSE c[m]
        /\ f[i] = IF i <= m THEN v[i] ELSE 0
        /\ a[i - 1] \in Nat
    BY <1>1, <1>2, <1>3, <1>5
  <2>2. CASE i <= m
    BY <2>1, <2>2
  <2>3. CASE ~(i <= m)
    <3>1. i - 1 <= m => i - 1 = m
      BY <2>3
    <3>2. a[i - 1] = c[m]
      BY <2>1, <3>1
    <3>3. QED
      BY <2>1, <2>3, <3>2
  <2>4. QED
    BY <2>2, <2>3
<1> HIDE DEF S
<1>6. \A i \in 0..n : i \in S
  BY <1>4, <1>5, UpTo
<1>7. a[n] = c[m]
  <2>1. n \in S
    BY <1>6
  <2>2. n <= m => n = m
    OBVIOUS
  <2>3. QED
    BY <2>1, <2>2 DEF S
<1>8. QED
  BY <1>7 DEF total, a, c, f

(* The sum over the set of the first m levels, in whatever order, is the    *)
(* running total after m of them.                                          *)
LEMMA SumIsCumulated ==
    ASSUME NEW quotes, IsSide(quotes), NEW m \in 0..Len(quotes)
    PROVE  Sets!MapThenSumSet(LAMBDA j : quotes[j].quantity, 1..m) = cumulatedQuantity(quotes, m)
<1> DEFINE n == Len(quotes)
           D == 1..m
           v == [i \in DOMAIN quotes |-> quotes[i].quantity]
           pick(s) == CHOOSE x \in s : TRUE
           Rec(iter) == [s \in SUBSET D |->
                           IF s = {} THEN 0
                           ELSE quotes[pick(s)].quantity + iter[s \ {pick(s)}]]
           sum == CHOOSE iter : iter = Rec(iter)
           T == [s \in SUBSET D |-> total(v, n, s)]
<1>1. Sets!MapThenSumSet(LAMBDA j : quotes[j].quantity, D) = sum[D]
  BY DEF Sets!MapThenSumSet, Sets!MapThenFoldSet
<1>2. n \in Nat /\ v \in [1..n -> Nat] /\ m \in Nat /\ m <= n
  BY DEF IsSide
<1>3. \A x \in D : x \in 1..n /\ quotes[x].quantity = v[x] /\ v[x] \in Nat
  BY <1>2 DEF IsSide
<1>4. \A s \in SUBSET D : s # {} => pick(s) \in s /\ pick(s) \in D
  OBVIOUS
<1>5. \A s : total(v, n, s) \in Nat
  <2> HIDE DEF n, v
  <2>1. \A s : part(v, n, s) \in [1..n -> Nat]
    BY <1>2, PartType
  <2>2. QED
    BY <1>2, <2>1, CumulatedIs DEF total
<1> HIDE DEF pick, n, v, D
<1>6. T = Rec(T)
  <2>1. ASSUME NEW s \in SUBSET D, s = {} PROVE T[s] = 0
    <3>1. 1..0 = {} /\ 0 \in 0..n
      BY <1>2
    <3>2. total(v, n, {}) = cumulated(v)[0]
      BY <1>2, <3>1, TotalOfFirst
    <3>3. cumulated(v)[0] = 0
      BY <1>2, CumulatedIs
    <3>4. QED
      BY <2>1, <3>2, <3>3
  <2>2. ASSUME NEW s \in SUBSET D, s # {}
        PROVE  T[s] = quotes[pick(s)].quantity + T[s \ {pick(s)}]
    <3>1. pick(s) \in s /\ pick(s) \in 1..n /\ quotes[pick(s)].quantity = v[pick(s)]
      BY <1>3, <1>4, <2>2
    <3>2. total(v, n, s) = v[pick(s)] + total(v, n, s \ {pick(s)})
      BY <1>2, <3>1, TotalWithout
    <3>3. s \ {pick(s)} \in SUBSET D
      OBVIOUS
    <3>4. QED
      BY <3>1, <3>2, <3>3
  <2>3. QED
    BY <2>1, <2>2
<1>7. sum = Rec(sum)
  BY <1>6
<1> HIDE DEF sum
<1>8. \A s \in SUBSET D : sum[s] = T[s]
  <2> DEFINE Bad == {s \in SUBSET D : sum[s] # T[s]}
             C == {Cardinality(s) : s \in Bad}
  <2>1. SUFFICES ASSUME Bad # {} PROVE FALSE
    OBVIOUS
  <2>2. \A s \in SUBSET D : IsFiniteSet(s) /\ Cardinality(s) \in Nat
    <3>1. IsFiniteSet(D)
      BY <1>2, FS_Interval DEF D
    <3>2. QED
      BY <3>1, FS_Subset, FS_CardinalityType
  <2>3. C \subseteq Nat /\ C # {}
    BY <2>1, <2>2
  <2>4. PICK k \in C : \A l \in C : k <= l
    BY <2>3, Least
  <2>5. PICK s \in Bad : Cardinality(s) = k
    BY <2>4
  <2>6. s \in SUBSET D /\ sum[s] # T[s] /\ IsFiniteSet(s) /\ k \in Nat
    BY <2>2, <2>5
  <2>7. s # {}
    BY <1>6, <1>7, <2>6
  <2> DEFINE x == pick(s)
  <2>8. x \in s /\ Cardinality(s \ {x}) = k - 1
    BY <1>4, <2>5, <2>6, <2>7, FS_RemoveElement
  <2>9. s \ {x} \in SUBSET D /\ sum[s \ {x}] = T[s \ {x}]
    BY <2>4, <2>6, <2>8
  <2>10. /\ sum[s] = quotes[x].quantity + sum[s \ {x}]
         /\ T[s] = quotes[x].quantity + T[s \ {x}]
    BY <1>6, <1>7, <2>6, <2>7
  <2>11. QED
    BY <2>6, <2>9, <2>10
<1>9. total(v, n, D) = cumulated(v)[m]
  BY <1>2, TotalOfFirst DEF D
<1>10. cumulatedQuantity(quotes, m) = cumulated(v)[m]
  BY DEF cumulatedQuantity, v
<1>11. sum[D] = cumulated(v)[m]
  BY <1>8, <1>9
<1>12. QED
  BY <1>1, <1>10, <1>11 DEF D

(***************************************************************************)
(* The printed table                                                       *)
(***************************************************************************)
IsColumn(column) == Len(column) \in Nat /\ DOMAIN column = 1..Len(column)

(* Row i shows the level i of a side and its label, and is blank on a side  *)
(* that has fewer levels.                                                  *)
LEMMA PrintedIs ==
    ASSUME NEW b, IsColumn(b.ask), IsColumn(b.bid), NEW captions,
           NEW side \in Side, NEW i \in Nat \ {0}
    PROVE  /\ i \in DOMAIN quotesOf(b, side) =>
                 /\ Printed(table(b, captions, 0), side, i).quote = quotesOf(b, side)[i]
                 /\ i \in DOMAIN quotesOf(captions, side) =>
                      Printed(table(b, captions, 0), side, i).label = quotesOf(captions, side)[i]
           /\ i \notin DOMAIN quotesOf(b, side) =>
                 Printed(table(b, captions, 0), side, i).quote = None
<1> DEFINE levels == Sets!Max({Len(b.ask), Len(b.bid)})
           cell(column, k) == IF k \in DOMAIN column THEN column[k] ELSE None
           rows == table(b, captions, 0)
           column == quotesOf(b, side)
<1>1. levels \in Nat /\ Len(b.ask) <= levels /\ Len(b.bid) <= levels
  <2> DEFINE m == Len(b.ask)  n == Len(b.bid)
  <2>1. m \in Nat /\ n \in Nat
    BY DEF IsColumn
  <2> HIDE DEF m, n
  <2>2. {m, n} \subseteq Nat /\ {m, n} # {} /\ IsFiniteSet({m, n})
    <3>1. IsFiniteSet({m}) /\ IsFiniteSet({n}) /\ {m, n} = {m} \cup {n}
      BY FS_Singleton
    <3>2. QED
      BY <2>1, <3>1, FS_Union
  <2>3. Sets!Max({m, n}) \in {m, n} /\ Sets!Max({m, n}) >= m /\ Sets!Max({m, n}) >= n
    BY <2>2, MaxIs
  <2>4. QED
    BY <2>1, <2>3 DEF m, n
<1>2. rows = [k \in 1..levels |->
                [s \in Side |-> [label |-> cell(quotesOf(captions, s), k),
                                 quote |-> cell(quotesOf(b, s), k)]]]
  BY DEF table
<1> HIDE DEF levels, rows
<1>3. ASSUME i \in 1..levels
      PROVE  /\ Printed(rows, side, i).label = cell(quotesOf(captions, side), i)
             /\ Printed(rows, side, i).quote = cell(column, i)
  BY <1>2, <1>3 DEF Printed
<1>4. ASSUME i \notin 1..levels PROVE Printed(rows, side, i).quote = None
  BY <1>2, <1>4 DEF Printed
<1>5. i \in DOMAIN column => i \in 1..levels
  <2>1. IsColumn(column) /\ Len(column) <= levels
    BY <1>1 DEF quotesOf, Side
  <2>2. QED
    BY <1>1, <2>1 DEF IsColumn
<1> HIDE DEF column
<1>6. QED
  BY <1>3, <1>4, <1>5 DEF rows, column

(***************************************************************************)
(* The bands of prices                                                     *)
(***************************************************************************)
(* The best price comes first. *)
Sorted(quotes, side) ==
    \A i, j \in 1..Len(quotes) : i < j =>
        IF side = "ASK" THEN quotes[i].price < quotes[j].price
                        ELSE quotes[i].price > quotes[j].price

(* The levels at the positions of S, in any order. *)
Quantities(quotes, S) == Sets!MapThenSumSet(LAMBDA j : quotes[j].quantity, S)

(* The band with a shifted price and all the quantity inside it. *)
IsPriceBand(band, quotes, side, shifted) ==
    /\ band \in Band
    /\ band.price = <<shifted, 20000>>
    /\ band.quantity =
         Quantities(quotes, {j \in DOMAIN quotes : inside(quotes[j], side, shifted)})

(* Because the best price comes first, the break of the loop cuts no level  *)
(* off that is inside the band.                                            *)
LEMMA PriceBandIs ==
    ASSUME NEW side \in Side, NEW quotes, IsSide(quotes), Sorted(quotes, side),
           NEW bps \in Int, quotes # << >>, rounding(side, quotes[1].price, bps) \in {-1, 0, 1}
    PROVE  IsPriceBand(priceBand(quotes, side, bps), quotes, side,
                       shiftedPrice(quotes, side, bps))
<1> DEFINE shifted == shiftedPrice(quotes, side, bps)
           n == Len(quotes)
           fits == [j \in DOMAIN quotes |-> inside(quotes[j], side, shifted)]
           t == taken(fits)
           S == {j \in DOMAIN quotes : inside(quotes[j], side, shifted)}
<1>1. n \in Nat /\ DOMAIN quotes = 1..n /\ 1 \in 1..n
  BY DEF IsSide
<1>2. \A j \in 1..n : quotes[j].price \in Nat
  BY DEF IsSide
<1>3. shifted \in Int
  <2>1. quotes[1].price \in Int
    BY <1>1, <1>2
  <2>2. \A p, q \in Int : p * q \in Int
    OBVIOUS
  <2> DEFINE factor == IF side = "ASK" THEN 10000 + bps ELSE 10000 - bps
             error == rounding(side, quotes[1].price, bps)
  <2>3. factor \in Int /\ error \in Int /\ 2 * quotes[1].price \in Int
    BY <2>1
  <2>4. shifted = (2 * quotes[1].price) * factor + error
    BY DEF shiftedPrice
  <2> HIDE DEF factor, error, shifted
  <2>5. (2 * quotes[1].price) * factor \in Int
    BY <2>2, <2>3
  <2>6. QED
    BY <2>3, <2>4, <2>5
<1>4. priceBand(quotes, side, bps)
        = [price |-> <<shifted, 20000>>, quantity |-> cumulatedQuantity(quotes, t)]
  BY DEF priceBand
<1> HIDE DEF shifted
<1>5. Len(fits) = n
  BY <1>1
<1>6. \A j \in 1..n : fits[j] <=> inside(quotes[j], side, shifted)
  BY <1>1
<1> HIDE DEF fits
<1>7. t \in 0..n /\ (\A j \in 1..t : fits[j]) /\ (t < n => ~fits[t + 1])
  BY <1>1, <1>5, TakenIs
<1> HIDE DEF t, n
<1>8. S = 1..t
  <2>1. \A j \in 1..t : j \in 1..n
    BY <1>1, <1>7
  <2>2. ASSUME NEW j \in 1..n, inside(quotes[j], side, shifted), ~(j <= t) PROVE FALSE
    <3>1. t < n /\ t + 1 \in 1..n /\ (t + 1 = j \/ t + 1 < j)
      BY <1>1, <1>7, <2>2
    <3>2. ~inside(quotes[t + 1], side, shifted)
      BY <1>6, <1>7, <3>1
    <3>3. t + 1 < j
      BY <2>2, <3>1, <3>2
    <3>4. IF side = "ASK" THEN quotes[t + 1].price < quotes[j].price
                          ELSE quotes[t + 1].price > quotes[j].price
      BY <3>1, <3>3 DEF Sorted, n
    <3>5. quotes[t + 1].price \in Nat /\ quotes[j].price \in Nat
      BY <1>2, <3>1
    <3>6. QED
      BY <1>3, <2>2, <3>2, <3>4, <3>5, SMTT(30) DEF inside
  <2>3. \A j \in 1..n : j <= t => j \in 1..t
    BY <1>1, <1>7
  <2>4. QED
    BY <1>1, <1>6, <1>7, <2>1, <2>2, <2>3
<1> HIDE DEF S
<1>9. cumulatedQuantity(quotes, t) = Quantities(quotes, S)
  BY <1>7, <1>8, SumIsCumulated DEF Quantities, n
<1>10. cumulatedQuantity(quotes, t) \in Nat
  <2> DEFINE v == [j \in DOMAIN quotes |-> quotes[j].quantity]
  <2>1. v \in [1..n -> Nat]
    BY <1>1 DEF IsSide, n
  <2>2. cumulatedQuantity(quotes, t) = cumulated(v)[t]
    BY DEF cumulatedQuantity
  <2> HIDE DEF v
  <2>3. QED
    BY <1>1, <1>7, <2>1, <2>2, CumulatedIs
<1>11. QED
  BY <1>3, <1>4, <1>9, <1>10 DEF IsPriceBand, Band, S, shifted

LEMMA RoundingIs ==
    ASSUME NEW side \in Side, NEW quotes, IsSide(quotes), quotes # << >>, NEW i \in DOMAIN Bps
    PROVE  Bps[i] \in Int /\ rounding(side, quotes[1].price, Bps[i]) \in {-1, 0, 1}
<1>1. quotes[1].price \in Price
  <2>1. 1 \in 1..Len(quotes) /\ quotes \in Seq(Level)
    BY DEF IsSide
  <2>2. quotes[1] \in Level
    BY <2>1
  <2>3. QED
    BY <2>2 DEF Level
<1>2. QED
  BY <1>1, BpsAssumption, RoundingAssumption

(* Either all bands of a side exist or none. *)
LEMMA PriceBandsOfSide ==
    ASSUME NEW side \in Side, NEW quotes, IsSide(quotes), Sorted(quotes, side)
    PROVE  LET bands == existing([i \in DOMAIN Bps |-> priceBand(quotes, side, Bps[i])])
           IN  /\ IsColumn(bands)
               /\ quotes = << >> => DOMAIN bands = {}
               /\ quotes # << >> =>
                     /\ DOMAIN bands = DOMAIN Bps
                     /\ \A i \in DOMAIN Bps : bands[i] = priceBand(quotes, side, Bps[i])
<1> DEFINE n == Len(Bps)
           all == [i \in DOMAIN Bps |-> priceBand(quotes, side, Bps[i])]
<1>1. n \in Nat /\ DOMAIN Bps = 1..n
  BY BpsAssumption
<1>2. \A i \in 1..n : all[i] = priceBand(quotes, side, Bps[i])
  BY <1>1
<1>3. \A i \in 1..n : /\ quotes = << >> => all[i] = None
                      /\ quotes # << >> => all[i] \in Band /\ all[i] # None
  <2>1. ASSUME NEW i \in 1..n, quotes = << >> PROVE all[i] = None
    BY <1>2, <2>1 DEF priceBand
  <2>2. ASSUME NEW i \in 1..n, quotes # << >> PROVE all[i] \in Band
    <3> DEFINE bps == Bps[i]
    <3>1. bps \in Int /\ rounding(side, quotes[1].price, bps) \in {-1, 0, 1}
      BY <1>1, <2>2, RoundingIs
    <3> HIDE DEF bps
    <3>2. IsPriceBand(priceBand(quotes, side, bps), quotes, side, shiftedPrice(quotes, side, bps))
      BY <2>2, <3>1, PriceBandIs
    <3>3. QED
      BY <1>2, <3>2 DEF bps, IsPriceBand
  <2>3. QED
    BY <2>1, <2>2, NoneAssumption
<1>4. all \in [1..n -> Band \cup {None}]
  <2>1. \A i \in 1..n : all[i] \in Band \cup {None}
    BY <1>3
  <2>2. DOMAIN all = 1..n /\ all = [i \in 1..n |-> all[i]]
    BY <1>1
  <2> HIDE DEF all
  <2>3. QED
    BY <2>1, <2>2
<1> HIDE DEF all, n
<1>5. /\ existing(all) \in Seq(Band) /\ Len(existing(all)) = count(all, n)
      /\ DOMAIN existing(all) = 1..count(all, n)
      /\ \A i \in 1..n : all[i] # None => existing(all)[count(all, i)] = all[i]
  BY <1>1, <1>4, ExistingIs
<1>6. count(all, n) \in Nat
  <2>1. n \in 0..n
    BY <1>1
  <2>2. QED
    BY <1>1, <2>1, CountIs
<1>7. IsColumn(existing(all))
  BY <1>5, <1>6 DEF IsColumn
<1>8. ASSUME quotes = << >> PROVE DOMAIN existing(all) = {}
  <2>1. Kept(all, n) = {}
    BY <1>3, <1>8 DEF Kept
  <2>2. count(all, n) = 0
    BY <2>1, FS_EmptySet DEF count
  <2>3. QED
    BY <1>5, <2>2
<1>9. ASSUME quotes # << >>
      PROVE  /\ DOMAIN existing(all) = DOMAIN Bps
             /\ \A i \in DOMAIN Bps : existing(all)[i] = all[i]
  <2>1. \A i \in 0..n : count(all, i) = i
    <3> TAKE i \in 0..n
    <3>1. \A k \in 1..i : k \in 1..n
      BY <1>1
    <3>2. Kept(all, i) = 1..i
      BY <1>3, <1>9, <3>1 DEF Kept
    <3>3. Cardinality(1..i) = i
      <4>1. i \in Nat /\ (1 > i => i = 0) /\ i - 1 + 1 = i
        BY <1>1
      <4>2. QED
        BY <4>1, FS_Interval
    <3>4. QED
      BY <3>2, <3>3 DEF count
  <2>2. n \in 0..n /\ \A i \in 1..n : i \in 0..n
    BY <1>1
  <2>3. QED
    BY <1>1, <1>3, <1>5, <1>9, <2>1, <2>2
<1>10. QED
  BY <1>1, <1>2, <1>7, <1>8, <1>9 DEF all

(* The book of the last snapshot is one that the aggregator generates. *)
BookInv ==
    \A side \in Side : IsSide(quotesOf(book, side)) /\ Sorted(quotesOf(book, side), side)

LEMMA BookIsBook == Spec => []BookInv
<1>1. Init => BookInv
  <2> SUFFICES ASSUME Init PROVE BookInv
    OBVIOUS
  <2>1. << >> \in Seq(Level) /\ Len(<< >>) = 0 /\ 1..0 = {} /\ DOMAIN << >> = 1..0
    OBVIOUS
  <2>2. IsSide(<< >>)
    BY <2>1 DEF IsSide
  <2>3. \A side \in Side : quotesOf(book, side) = << >>
    BY DEF Init, quotesOf
  <2>4. QED
    BY <2>1, <2>2, <2>3 DEF BookInv, Sorted
<1>2. BookInv /\ [Next]_vars => BookInv'
  <2> SUFFICES ASSUME BookInv, [Next]_vars PROVE BookInv'
    OBVIOUS
  <2>1. ASSUME NEW b \in Books, OnSnapshot(b) PROVE BookInv'
    <3>1. IsSide(b.ask) /\ IsSide(b.bid)
      BY BooksAreBooks
    <3>2. Sorted(b.ask, "ASK") /\ Sorted(b.bid, "BID")
      <4>1. b.ask \in SideBook("ASK") /\ b.bid \in SideBook("BID")
        BY DEF Books
      <4>2. QED
        BY <3>1, <4>1 DEF SideBook, Sorted, IsSide
    <3>3. book' = b
      BY <2>1 DEF OnSnapshot
    <3>4. QED
      BY <3>1, <3>2, <3>3 DEF BookInv, quotesOf, Side
  <2>2. CASE UNCHANGED vars
    BY <2>2 DEF vars, BookInv
  <2>3. QED
    BY <2>1, <2>2 DEF Next
<1>3. QED
  BY <1>1, <1>2, PTL DEF Spec

(* Next to the label of +n or -n basis points stands the price that far     *)
(* from the best one, as far as a double can tell, and all the quantity     *)
(* that the book has strictly inside the printed price, for bands in any    *)
(* order and whichever way the products are rounded: the break of           *)
(* calculateBand cuts nothing off because generateBook orders the levels,   *)
(* and no band is printed at the label of another one.                     *)
THEOREM PriceBandsAreRight == Spec => []PriceBandsMatch
<1>1. BookInv => PriceBandsMatch
  <2> SUFFICES ASSUME BookInv PROVE PriceBandsMatch
    OBVIOUS
  <2> DEFINE rows == showPriceBands(book)
  <2>1. ASSUME NEW side \in Side, NEW i \in DOMAIN Bps
        PROVE  PriceBandMatches(rows, side, i)
    <3> DEFINE quotes == quotesOf(book, side)
               bands == priceBands(book)
               column == quotesOf(bands, side)
               printed == Printed(rows, side, i)
               label == printed.label
    <3>1. IsSide(quotes) /\ Sorted(quotes, side)
      BY DEF BookInv
    <3>2. Bps[i] \in Int /\ i \in Nat \ {0}
      BY BpsAssumption
    <3>3. IsColumn(bands.ask) /\ IsColumn(bands.bid)
      <4>1. "ASK" \in Side /\ "BID" \in Side
        BY DEF Side
      <4>2. \A s \in Side :
               IsColumn(existing([k \in DOMAIN Bps |-> priceBand(quotesOf(book, s), s, Bps[k])]))
        BY PriceBandsOfSide DEF BookInv
      <4>3. QED
        BY <4>1, <4>2 DEF priceBands
    <3>4. column = existing([k \in DOMAIN Bps |-> priceBand(quotes, side, Bps[k])])
      BY DEF priceBands, quotesOf, Side
    <3> HIDE DEF quotes
    <3>5. /\ quotes = << >> => DOMAIN column = {}
          /\ quotes # << >> => /\ DOMAIN column = DOMAIN Bps
                               /\ column[i] = priceBand(quotes, side, Bps[i])
      BY <3>1, <3>4, PriceBandsOfSide
    <3>6. /\ i \in DOMAIN quotesOf(priceCaptions, side)
          /\ quotesOf(priceCaptions, side)[i] = IF side = "ASK" THEN Bps[i] ELSE -Bps[i]
      BY DEF quotesOf, priceCaptions, humanizeBps
    <3>7. rows = table(bands, priceCaptions, 0)
      BY DEF showPriceBands
    <3> HIDE DEF rows, bands
    <3>8. /\ i \in DOMAIN column => printed.quote = column[i]
                                    /\ label = quotesOf(priceCaptions, side)[i]
          /\ i \notin DOMAIN column => printed.quote = None
      BY <3>2, <3>3, <3>6, <3>7, PrintedIs
    <3> HIDE DEF column, printed
    <3>9. CASE quotes = << >>
      <4>1. printed.quote = None
        BY <3>5, <3>8, <3>9
      <4>2. QED
        BY <3>9, <4>1 DEF quotes, printed, PriceBandMatches
    <3>10. CASE quotes # << >>
      <4> DEFINE bps == Bps[i]
                 shifted == shiftedPrice(quotes, side, bps)
                 best == quotes[1].price
                 error == rounding(side, best, bps)
                 limit == best * (10000 + label)
                 price == printed.quote.price
                 Better(p) == IF side = "ASK" THEN p * price[2] < price[1] ELSE p * price[2] > price[1]
                 In == {j \in DOMAIN quotes : inside(quotes[j], side, shifted)}
                 Ahead == {j \in DOMAIN quotes : Better(quotes[j].price)}
      <4>1. printed.quote = priceBand(quotes, side, bps)
            /\ label = IF side = "ASK" THEN bps ELSE -bps
        BY <3>5, <3>6, <3>8, <3>10
      <4>2. error \in {-1, 0, 1} /\ bps \in Int
        BY <3>1, <3>10, RoundingIs
      <4>3. best \in Nat
        BY <3>1, <3>10 DEF IsSide
      <4> HIDE DEF bps
      <4>4. IsPriceBand(printed.quote, quotes, side, shifted)
        BY <3>1, <3>10, <4>1, <4>2, PriceBandIs
      <4>5. shifted = 2 * limit + error
        <5> DEFINE factor == 10000 + label
        <5>1. factor = (IF side = "ASK" THEN 10000 + bps ELSE 10000 - bps) /\ factor \in Int
          BY <4>1, <4>2
        <5>2. shifted = (2 * best) * factor + error
          BY <5>1 DEF shiftedPrice
        <5> HIDE DEF factor, best, error
        <5>3. (2 * best) * factor = 2 * (best * factor)
          BY <4>3, <5>1
        <5>4. QED
          BY <5>2, <5>3 DEF factor
      <4> HIDE DEF shifted, limit, error, best
      <4>6. price = <<shifted, 20000>> /\ price[1] = shifted /\ price[2] = 20000
            /\ printed.quote.quantity = Quantities(quotes, In)
        BY <4>4 DEF IsPriceBand
      <4>7. In = Ahead
        BY <4>6 DEF inside
      <4> HIDE DEF In, Ahead
      <4>8. \E e \in {-1, 0, 1} : price = <<2 * limit + e, 20000>>
        BY <4>2, <4>5, <4>6
      <4>9. printed.quote.quantity = Quantities(quotes, Ahead)
        BY <4>6, <4>7
      <4>10. QED
        BY <3>10, <4>8, <4>9 DEF quotes, printed, limit, best, Ahead, Quantities, PriceBandMatches
    <3>11. QED
      BY <3>9, <3>10
  <2>2. QED
    BY <2>1 DEF PriceBandsMatch
<1>2. QED
  BY <1>1, BookIsBook, PTL

(***************************************************************************)
(* The bands of notionals                                                  *)
(***************************************************************************)
(* The notional of a whole side. *)
Worth(quotes) == cumulatedNotional(quotes, Len(quotes))

LEMMA NotionalsAccumulate ==
    ASSUME NEW quotes, IsSide(quotes)
    PROVE  /\ cumulatedNotional(quotes, 0) = 0 /\ cumulatedQuantity(quotes, 0) = 0
           /\ \A i \in 1..Len(quotes) :
                 /\ cumulatedNotional(quotes, i)
                      = cumulatedNotional(quotes, i - 1) + quotes[i].price * quotes[i].quantity
                 /\ cumulatedQuantity(quotes, i)
                      = cumulatedQuantity(quotes, i - 1) + quotes[i].quantity
           /\ \A i \in 0..Len(quotes) : /\ cumulatedNotional(quotes, i) \in Nat
                                        /\ cumulatedQuantity(quotes, i) \in Nat
           /\ \A i, j \in 0..Len(quotes) :
                 i <= j => cumulatedNotional(quotes, i) <= cumulatedNotional(quotes, j)
<1> DEFINE n == Len(quotes)
           v == [i \in DOMAIN quotes |-> quotes[i].price * quotes[i].quantity]
           w == [i \in DOMAIN quotes |-> quotes[i].quantity]
<1>1. n \in Nat /\ DOMAIN quotes = 1..n
      /\ \A i \in 1..n : quotes[i].price \in Nat /\ quotes[i].quantity \in Nat
  BY DEF IsSide
<1>2. v \in [1..n -> Nat]
  <2>1. \A p, q \in Nat : p * q \in Nat
    OBVIOUS
  <2>2. \A i \in 1..n : quotes[i].price * quotes[i].quantity \in Nat
    BY <1>1, <2>1
  <2>3. QED
    BY <1>1, <2>2
<1>3. w \in [1..n -> Nat]
  BY <1>1
<1>4. \A i : /\ cumulatedNotional(quotes, i) = cumulated(v)[i]
             /\ cumulatedQuantity(quotes, i) = cumulated(w)[i]
  BY DEF cumulatedNotional, cumulatedQuantity
<1>5. \A i \in 1..n : v[i] = quotes[i].price * quotes[i].quantity /\ w[i] = quotes[i].quantity
  BY <1>1
<1> HIDE DEF v, w, n
<1>6. /\ cumulated(v)[0] = 0
      /\ \A i \in 1..n : cumulated(v)[i] = cumulated(v)[i - 1] + v[i]
      /\ \A i \in 0..n : cumulated(v)[i] \in Nat
      /\ \A i, j \in 0..n : i <= j => cumulated(v)[i] <= cumulated(v)[j]
  BY <1>1, <1>2, CumulatedIs
<1>7. /\ cumulated(w)[0] = 0
      /\ \A i \in 1..n : cumulated(w)[i] = cumulated(w)[i - 1] + w[i]
      /\ \A i \in 0..n : cumulated(w)[i] \in Nat
  BY <1>1, <1>3, CumulatedIs
<1>8. QED
  BY <1>4, <1>5, <1>6, <1>7, ZenonT(40) DEF n

(* A band whose average price times its quantity is the desired notional.  *)
IsNotionalBand(band, desired) ==
    /\ band \in Band
    /\ band.price[1] * band.quantity[1] = desired * band.price[2] * band.quantity[2]

(* The levels that the loop of calculateBand takes whole. *)
filled(quotes, desired) ==
    taken([i \in DOMAIN quotes |-> cumulatedNotional(quotes, i) <= desired])

(* They are worth the desired notional at most, and more with the next one. *)
LEMMA FilledIs ==
    ASSUME NEW quotes, IsSide(quotes), NEW desired \in Nat, NEW n, n = filled(quotes, desired)
    PROVE  /\ n \in 0..Len(quotes) /\ n \in Nat
           /\ cumulatedNotional(quotes, n) \in Nat /\ cumulatedQuantity(quotes, n) \in Nat
           /\ cumulatedNotional(quotes, n) <= desired
           /\ n < Len(quotes) => ~(cumulatedNotional(quotes, n + 1) <= desired)
<1> DEFINE len == Len(quotes)
           sum(i) == cumulatedNotional(quotes, i)
           fits == [i \in DOMAIN quotes |-> sum(i) <= desired]
<1>1. len \in Nat /\ DOMAIN quotes = 1..len
  BY DEF IsSide
<1>2. sum(0) = 0 /\ \A i \in 0..len : sum(i) \in Nat /\ cumulatedQuantity(quotes, i) \in Nat
  BY NotionalsAccumulate
<1>3. n = taken(fits) /\ Len(fits) = len
  BY <1>1 DEF filled
<1> HIDE DEF sum
<1>4. \A i \in 1..len : fits[i] <=> sum(i) <= desired
  BY <1>1
<1> HIDE DEF fits, len
<1>5. n \in 0..len /\ (\A i \in 1..n : fits[i]) /\ (n < len => ~fits[n + 1])
  BY <1>1, <1>3, TakenIs
<1>6. n \in Nat /\ sum(n) \in Nat /\ cumulatedQuantity(quotes, n) \in Nat
  BY <1>1, <1>2, <1>5
<1>7. sum(n) <= desired
  <2>1. CASE n = 0
    BY <1>2, <2>1
  <2>2. CASE n # 0
    <3>1. n \in 1..n /\ n \in 1..len
      BY <1>1, <1>5, <1>6, <2>2
    <3>2. QED
      BY <1>4, <1>5, <3>1
  <2>3. QED
    BY <2>1, <2>2
<1>8. n < len => n + 1 \in 1..len
  BY <1>1, <1>5
<1>9. n < len => ~(sum(n + 1) <= desired)
  BY <1>4, <1>5, <1>8
<1>10. QED
  BY <1>5, <1>6, <1>7, <1>9 DEF len, sum

(* There is a band exactly when the side is worth the notional: the loop    *)
(* breaks before the end only on a side worth more, and without a break     *)
(* nothing may be missing.                                                 *)
LEMMA NotionalBandIs ==
    ASSUME NEW quotes, IsSide(quotes), NEW desired \in Nat
    PROVE  /\ desired > Worth(quotes) => notionalBand(quotes, desired) = None
           /\ ~(desired > Worth(quotes)) => IsNotionalBand(notionalBand(quotes, desired), desired)
<1> DEFINE len == Len(quotes)
           sum(i) == cumulatedNotional(quotes, i)
           n == filled(quotes, desired)
           whole == cumulatedQuantity(quotes, n)
           missing == desired - sum(n)
           quantity == IF n < len
                         THEN <<whole * quotes[n + 1].price + missing, quotes[n + 1].price>>
                         ELSE <<whole, 1>>
<1>1. len \in Nat /\ DOMAIN quotes = 1..len /\ \A i \in 1..len : quotes[i].price \in Nat
  BY DEF IsSide
<1>2. /\ sum(0) = 0 /\ \A i \in 0..len : sum(i) \in Nat /\ cumulatedQuantity(quotes, i) \in Nat
      /\ \A i, j \in 0..len : i <= j => sum(i) <= sum(j)
  BY NotionalsAccumulate
<1>3. notionalBand(quotes, desired) =
        IF n < len \/ missing <= 0
          THEN [price |-> <<desired * quantity[2], quantity[1]>>, quantity |-> quantity]
          ELSE None
  BY DEF notionalBand, filled
<1>4. Worth(quotes) = sum(len)
  BY DEF Worth
<1> HIDE DEF n
<1>5. /\ n \in 0..len /\ n \in Nat /\ sum(n) \in Nat /\ whole \in Nat /\ sum(n) <= desired
      /\ n < len => ~(sum(n + 1) <= desired)
  BY FilledIs DEF n
<1> HIDE DEF len, sum, whole
<1>6. missing \in Nat /\ sum(len) \in Nat
  BY <1>1, <1>2, <1>5
<1>7. (n < len \/ missing <= 0) <=> ~(desired > sum(len))
  <2>1. CASE n < len
    <3>1. n + 1 \in 1..len /\ n + 1 \in 0..len /\ len \in 0..len /\ n + 1 <= len
      BY <1>1, <1>5, <2>1
    <3>2. ~(sum(n + 1) <= desired)
      BY <1>5, <2>1
    <3>3. sum(n + 1) <= sum(len) /\ sum(n + 1) \in Nat
      BY <1>2, <3>1
    <3>4. QED
      BY <1>6, <2>1, <3>2, <3>3
  <2>2. CASE ~(n < len)
    <3>1. n = len
      BY <1>1, <1>5, <2>2
    <3>2. QED
      BY <1>5, <1>6, <2>2, <3>1
  <2>3. QED
    BY <2>1, <2>2
<1>8. quantity \in Nat \X Nat
  <2>1. CASE n < len
    <3>1. n + 1 \in 1..len
      BY <1>1, <1>5, <2>1
    <3>2. \A p, q, r \in Nat : p * q + r \in Nat
      OBVIOUS
    <3>3. whole * quotes[n + 1].price + missing \in Nat /\ quotes[n + 1].price \in Nat
      BY <1>1, <1>5, <1>6, <3>1, <3>2
    <3>4. QED
      BY <2>1, <3>3
  <2>2. CASE ~(n < len)
    BY <1>5, <2>2
  <2>3. QED
    BY <2>1, <2>2
<1> HIDE DEF quantity, missing
<1>9. ASSUME ~(desired > sum(len)) PROVE IsNotionalBand(notionalBand(quotes, desired), desired)
  <2> DEFINE band == notionalBand(quotes, desired)
  <2>1. band = [price |-> <<desired * quantity[2], quantity[1]>>, quantity |-> quantity]
    BY <1>3, <1>7, <1>9
  <2>2. quantity[1] \in Nat /\ quantity[2] \in Nat
    BY <1>8
  <2>3. \A p, q \in Nat : p * q \in Int
    OBVIOUS
  <2>4. desired * quantity[2] \in Int /\ quantity[1] \in Int
    BY <2>2, <2>3
  <2>5. band \in Band
    BY <1>8, <2>1, <2>4 DEF Band
  <2>6. \A p, q, r \in Nat : (p * q) * r = (p * r) * q
    OBVIOUS
  <2>7. (desired * quantity[2]) * quantity[1] = (desired * quantity[1]) * quantity[2]
    BY <2>2, <2>6
  <2>8. /\ band.price[1] = desired * quantity[2] /\ band.price[2] = quantity[1]
        /\ band.quantity = quantity
    BY <2>1
  <2> HIDE DEF band
  <2>9. IsNotionalBand(band, desired)
    BY <2>5, <2>7, <2>8 DEF IsNotionalBand
  <2>10. QED
    BY <2>9 DEF band
<1>10. QED
  BY <1>3, <1>4, <1>7, <1>9

(* The label of a notional is the nearest one with a decimal. *)
LEMMA LabelIsNearest ==
    ASSUME NEW value \in Nat, 2 * ((10 * value) % unitOf(value)) # unitOf(value)
    PROVE  LET label == humanizeNotional(value)
           IN  /\ (10 * label.tenths - 5) * label.unit < 100 * value
               /\ (10 * label.tenths + 5) * label.unit > 100 * value
<1> DEFINE unit == unitOf(value)
           tenths == (10 * value + unit \div 2) \div unit
<1>1. humanizeNotional(value).tenths = tenths /\ humanizeNotional(value).unit = unit
  BY DEF humanizeNotional
<1>2. unit \in {1, 1000, 1000000}
  BY DEF unitOf
<1>3. (10 * tenths - 5) * unit < 100 * value /\ (10 * tenths + 5) * unit > 100 * value
  <2>1. CASE unit = 1
    <3>1. tenths = 10 * value
      BY <2>1
    <3>2. QED
      BY <2>1, <3>1
  <2>2. CASE unit = 1000
    <3>1. tenths = (10 * value + 500) \div 1000 /\ 2 * ((10 * value) % 1000) # 1000
      BY <2>2
    <3>2. QED
      BY <2>2, <3>1
  <2>3. CASE unit = 1000000
    <3>1. tenths = (10 * value + 500000) \div 1000000 /\ 2 * ((10 * value) % 1000000) # 1000000
      BY <2>3
    <3>2. QED
      BY <2>3, <3>1
  <2>4. QED
    BY <1>2, <2>1, <2>2, <2>3
<1>4. QED
  BY <1>1, <1>3

(* The bands that exist are those of the notionals that the side is worth,  *)
(* each after those of such notionals before it.                           *)
LEMMA NotionalBandsOfSide ==
    ASSUME NEW quotes, IsSide(quotes)
    PROVE  LET bands == existing([i \in DOMAIN Notionals |-> notionalBand(quotes, Notionals[i])])
               row(i) == Cardinality(Filled(quotes, i))
           IN  /\ IsColumn(bands) /\ DOMAIN bands = 1..row(Len(Notionals))
               /\ row(Len(Notionals)) \in Nat
               /\ \A i \in DOMAIN Notionals :
                     i \in Filled(quotes, i) =>
                        row(i) \in DOMAIN bands /\ bands[row(i)] = notionalBand(quotes, Notionals[i])
<1> DEFINE n == Len(Notionals)
           all == [i \in DOMAIN Notionals |-> notionalBand(quotes, Notionals[i])]
           worth == Worth(quotes)
<1>1. n \in Nat /\ DOMAIN Notionals = 1..n /\ \A i \in 1..n : Notionals[i] \in Nat
  BY NotionalsAssumption
<1>2. worth \in Nat
  BY NotionalsAccumulate DEF Worth, IsSide
<1>3. \A i \in 1..n : all[i] = notionalBand(quotes, Notionals[i])
  BY <1>1
<1>4. \A i \in 1..n : /\ Notionals[i] > worth => all[i] = None
                      /\ ~(Notionals[i] > worth) => all[i] \in Band
  <2> SUFFICES ASSUME NEW i \in 1..n
               PROVE  /\ Notionals[i] > worth => all[i] = None
                      /\ ~(Notionals[i] > worth) => all[i] \in Band
    OBVIOUS
  <2> DEFINE desired == Notionals[i]
  <2>1. desired \in Nat
    BY <1>1
  <2> HIDE DEF desired
  <2>2. /\ desired > Worth(quotes) => notionalBand(quotes, desired) = None
        /\ ~(desired > Worth(quotes)) => IsNotionalBand(notionalBand(quotes, desired), desired)
    BY <2>1, NotionalBandIs
  <2>3. QED
    BY <1>3, <2>2 DEF desired, IsNotionalBand
<1>5. all \in [1..n -> Band \cup {None}]
  <2>1. \A i \in 1..n : all[i] \in Band \cup {None}
    BY <1>4
  <2>2. all = [i \in 1..n |-> all[i]]
    BY <1>1
  <2> HIDE DEF all
  <2>3. QED
    BY <2>1, <2>2
<1> HIDE DEF worth, all, n
<1>6. \A i \in 1..n : all[i] # None <=> Notionals[i] <= worth
  <2>1. \A i \in 1..n : Notionals[i] > worth <=> ~(Notionals[i] <= worth)
    BY <1>1, <1>2
  <2>2. QED
    BY <1>4, <2>1, NoneAssumption
<1>7. \A i \in 0..n : Filled(quotes, i) = Kept(all, i)
  <2> TAKE i \in 0..n
  <2>1. \A k \in 1..i : k \in 1..n
    BY <1>1
  <2>2. QED
    BY <1>6, <2>1 DEF Filled, Kept, worth, Worth
<1>8. n \in 0..n /\ \A i \in 1..n : i \in 0..n /\ i \in 1..i
  BY <1>1
<1>9. \A i \in 0..n : Cardinality(Filled(quotes, i)) = count(all, i)
  BY <1>7 DEF count
<1>10. /\ Len(existing(all)) = count(all, n) /\ DOMAIN existing(all) = 1..count(all, n)
       /\ \A i \in 1..n : all[i] # None =>
             count(all, i) \in 1..count(all, n) /\ existing(all)[count(all, i)] = all[i]
  BY <1>1, <1>5, ExistingIs
<1>11. count(all, n) \in Nat
  <2>1. n \in 0..n
    BY <1>1
  <2>2. QED
    BY <1>1, <2>1, CountIs
<1>12. IsColumn(existing(all))
  BY <1>10, <1>11 DEF IsColumn
<1>13. ASSUME NEW i \in 1..n, i \in Filled(quotes, i)
       PROVE  /\ Cardinality(Filled(quotes, i)) \in DOMAIN existing(all)
              /\ existing(all)[Cardinality(Filled(quotes, i))] = notionalBand(quotes, Notionals[i])
  <2>1. all[i] # None
    BY <1>7, <1>8, <1>13 DEF Kept
  <2>2. QED
    BY <1>3, <1>8, <1>9, <1>10, <2>1
<1>14. QED
  BY <1>1, <1>8, <1>9, <1>10, <1>11, <1>12, <1>13 DEF all, n

(* Every configured notional that a side is worth, and no other, is         *)
(* printed: price times quantity is that notional, one row higher for each  *)
(* notional before it that calculateBand leaves out, and at the nearest     *)
(* label if there is none.  humanizeNotional runs once, in the constructor  *)
(* of the handler, and the table pairs labels and bands by position: that   *)
(* is right for ascending notionals, of which the last ones are left out.   *)
THEOREM NotionalLabelsAreRight == Spec => []NotionalLabelsMatch
<1>1. BookInv => NotionalLabelsMatch
  <2> SUFFICES ASSUME BookInv PROVE NotionalLabelsMatch
    OBVIOUS
  <2> DEFINE rows == showNotionalVolumeBands(book)
  <2>1. ASSUME NEW side \in Side, NEW i \in DOMAIN Notionals
        PROVE  NotionalLabelMatches(rows, side, i)
    <3> DEFINE quotes == quotesOf(book, side)
               bands == notionalBands(book)
               column == quotesOf(bands, side)
               captions == notionalCaptions
               row == Cardinality(Filled(quotes, i))
               last == Cardinality(Filled(quotes, Len(Notionals)))
               printed == Printed(rows, side, row)
               desired == Notionals[i]
               band == notionalBand(quotes, desired)
    <3>1. IsSide(quotes)
      BY DEF BookInv
    <3>2. desired \in Nat /\ i \in Nat \ {0}
      BY NotionalsAssumption
    <3>3. IsColumn(bands.ask) /\ IsColumn(bands.bid)
      <4>1. "ASK" \in Side /\ "BID" \in Side
        BY DEF Side
      <4>2. \A s \in Side :
               IsColumn(existing([k \in DOMAIN Notionals |->
                                    notionalBand(quotesOf(book, s), Notionals[k])]))
        BY NotionalBandsOfSide DEF BookInv
      <4>3. QED
        BY <4>1, <4>2 DEF notionalBands
    <3>4. column = existing([k \in DOMAIN Notionals |-> notionalBand(quotes, Notionals[k])])
      BY DEF notionalBands, quotesOf, Side
    <3> HIDE DEF quotes
    <3>5. /\ DOMAIN column = 1..last /\ last \in Nat
          /\ i \in Filled(quotes, i) => row \in DOMAIN column /\ column[row] = band
      BY <3>1, <3>4, NotionalBandsOfSide
    <3>6. /\ i \in DOMAIN quotesOf(captions, side)
          /\ quotesOf(captions, side)[i] = humanizeNotional(desired)
      BY DEF quotesOf, notionalCaptions
    <3>7. rows = table(bands, captions, 0)
      BY DEF showNotionalVolumeBands
    <3>8. 2 * ((10 * desired) % unitOf(desired)) # unitOf(desired)
      BY LabelsAssumption
    <3> HIDE DEF rows, bands, captions, desired, row, last
    <3>9. ASSUME NEW k \in Nat \ {0}
          PROVE  /\ k \in DOMAIN column =>
                       /\ Printed(rows, side, k).quote = column[k]
                       /\ k \in DOMAIN quotesOf(captions, side) =>
                            Printed(rows, side, k).label = quotesOf(captions, side)[k]
                 /\ k \notin DOMAIN column => Printed(rows, side, k).quote = None
      <4> DEFINE shown == table(bands, captions, 0)
      <4>1. /\ k \in DOMAIN column =>
                 /\ Printed(shown, side, k).quote = column[k]
                 /\ k \in DOMAIN quotesOf(captions, side) =>
                      Printed(shown, side, k).label = quotesOf(captions, side)[k]
            /\ k \notin DOMAIN column => Printed(shown, side, k).quote = None
        BY <3>3, PrintedIs, ZenonT(60)
      <4>2. QED
        BY <3>7, <4>1
    <3> HIDE DEF column, band
    <3>10. ASSUME i > last PROVE Printed(rows, side, i).quote = None
      <4>1. i \notin DOMAIN column
        BY <3>2, <3>5, <3>10
      <4>2. QED
        BY <3>2, <3>9, <4>1
    <3>11. ASSUME i \in Filled(quotes, i)
           PROVE  /\ printed.quote.price[1] * printed.quote.quantity[1]
                       = desired * printed.quote.price[2] * printed.quote.quantity[2]
                  /\ row = i =>
                       /\ (10 * printed.label.tenths - 5) * printed.label.unit < 100 * desired
                       /\ (10 * printed.label.tenths + 5) * printed.label.unit > 100 * desired
      <4>1. row \in DOMAIN column /\ row \in Nat \ {0} /\ column[row] = band
        BY <3>5, <3>11
      <4>2. printed.quote = band
        BY <3>9, <4>1
      <4>3. ~(desired > Worth(quotes))
        <5>1. desired <= Worth(quotes)
          BY <3>11 DEF Filled, Worth, desired
        <5>2. Worth(quotes) \in Nat
          BY <3>1, NotionalsAccumulate DEF Worth, IsSide
        <5>3. QED
          BY <3>2, <5>1, <5>2
      <4>4. IsNotionalBand(band, desired)
        BY <3>1, <3>2, <4>3, NotionalBandIs DEF band
      <4>5. row = i => printed.label = humanizeNotional(desired)
        BY <3>6, <3>9, <4>1
      <4>6. LET label == humanizeNotional(desired)
            IN  /\ (10 * label.tenths - 5) * label.unit < 100 * desired
                /\ (10 * label.tenths + 5) * label.unit > 100 * desired
        BY <3>2, <3>8, LabelIsNearest
      <4> HIDE DEF printed
      <4>7. QED
        BY <4>2, <4>4, <4>5, <4>6 DEF IsNotionalBand
    <3>12. QED
      BY <3>10, <3>11 DEF quotes, desired, row, last, NotionalLabelMatches
  <2>2. QED
    BY <2>1 DEF NotionalLabelsMatch
<1>2. QED
  BY <1>1, BookIsBook, PTL

(***************************************************************************)
(* The averages                                                            *)
(***************************************************************************)
(* Not better than: on the side of the asks a price that is not lower, on   *)
(* that of the bids one that is not higher.                                *)
AtLeast(side, x, y) == IF side = "ASK" THEN x >= y ELSE x <= y

(* The comparison of the other side. *)
Other(side) == IF side = "ASK" THEN "BID" ELSE "ASK"

LEMMA OtherIs ==
    ASSUME NEW side \in Side, NEW u \in Int, NEW v \in Int
    PROVE  AtLeast(Other(side), u, v) <=> AtLeast(side, v, u)
BY DEF AtLeast, Other, Side

(* What may be done on both sides of a comparison: multiply by a number,    *)
(* divide by a positive one, add another comparison.                       *)
LEMMA AtLeastTimes ==
    ASSUME NEW side, NEW x \in Int, NEW y \in Int, AtLeast(side, x, y), NEW k \in Nat
    PROVE  AtLeast(side, k * x, k * y)
<1>1. \A d \in Nat : k * d >= 0
  OBVIOUS
<1>2. k * (x - y) = k * x - k * y /\ k * (y - x) = k * y - k * x
      /\ k * x \in Int /\ k * y \in Int
  OBVIOUS
<1>3. CASE side = "ASK"
  <2>1. x - y \in Nat
    BY <1>3 DEF AtLeast
  <2>2. QED
    BY <1>1, <1>2, <1>3, <2>1 DEF AtLeast
<1>4. CASE side # "ASK"
  <2>1. y - x \in Nat
    BY <1>4 DEF AtLeast
  <2>2. QED
    BY <1>1, <1>2, <1>4, <2>1 DEF AtLeast
<1>5. QED
  BY <1>3, <1>4

LEMMA AtLeastDivided ==
    ASSUME NEW side, NEW x \in Int, NEW y \in Int, NEW g \in Nat \ {0}, AtLeast(side, g * x, g * y)
    PROVE  AtLeast(side, x, y)
<1>1. \A d \in Nat \ {0} : g * d > 0
  OBVIOUS
<1>2. g * (x - y) = g * x - g * y /\ g * (y - x) = g * y - g * x /\ g * x \in Int /\ g * y \in Int
  OBVIOUS
<1>3. CASE side = "ASK"
  <2>1. SUFFICES ASSUME y - x \in Nat \ {0} PROVE FALSE
    BY <1>3 DEF AtLeast
  <2>2. QED
    BY <1>1, <1>2, <1>3, <2>1 DEF AtLeast
<1>4. CASE side # "ASK"
  <2>1. SUFFICES ASSUME x - y \in Nat \ {0} PROVE FALSE
    BY <1>4 DEF AtLeast
  <2>2. QED
    BY <1>1, <1>2, <1>4, <2>1 DEF AtLeast
<1>5. QED
  BY <1>3, <1>4

LEMMA AtLeastSum ==
    ASSUME NEW side, NEW x \in Int, NEW y \in Int, AtLeast(side, x, y),
           NEW u \in Int, NEW v \in Int, AtLeast(side, u, v)
    PROVE  AtLeast(side, x + u, y + v)
BY DEF AtLeast

(* When the levels bought whole cost b at least on average, and what is     *)
(* missing is bought at b at least, the average is b at least.              *)
LEMMA AverageFromPrice ==
    ASSUME NEW side, NEW C \in Nat, NEW W \in Nat, NEW D \in Nat, C <= D,
           NEW p \in Nat, NEW b \in Nat,
           AtLeast(side, C, b * W), AtLeast(side, p, b)
    PROVE  AtLeast(side, D * p, b * (W * p + (D - C)))
<1> DEFINE r == D - C  M == b * W
<1>1. r \in Nat /\ M \in Nat
  OBVIOUS
<1>2. D * p = p * C + r * p
  OBVIOUS
<1>3. b * (W * p + r) = p * M + r * b
  OBVIOUS
<1>4. AtLeast(side, p * C, p * M)
  <2> HIDE DEF M, r
  <2>1. QED
    BY <1>1, AtLeastTimes DEF M
<1>5. AtLeast(side, r * p, r * b)
  <2> HIDE DEF M, r
  <2>1. QED
    BY <1>1, AtLeastTimes DEF M
<1>6. p * C \in Int /\ p * M \in Int /\ r * p \in Int /\ r * b \in Int
  OBVIOUS
<1> HIDE DEF r, M
<1>7. AtLeast(side, p * C + r * p, p * M + r * b)
  BY <1>4, <1>5, <1>6, AtLeastSum
<1>8. QED
  BY <1>2, <1>3, <1>7 DEF r

(* Levels that cost p at least each cost it at least together. *)
LEMMA LevelsAtLeast ==
    ASSUME NEW quotes, IsSide(quotes), NEW side, NEW p \in Nat,
           NEW j \in 0..Len(quotes), NEW i \in 0..j,
           \A k \in (i + 1)..j : AtLeast(side, quotes[k].price, p)
    PROVE  AtLeast(side, cumulatedNotional(quotes, j) - cumulatedNotional(quotes, i),
                   p * (cumulatedQuantity(quotes, j) - cumulatedQuantity(quotes, i)))
<1> DEFINE C(k) == cumulatedNotional(quotes, k)
           W(k) == cumulatedQuantity(quotes, k)
           S == {k \in 0..j : k < i \/ AtLeast(side, C(k) - C(i), p * (W(k) - W(i)))}
<1>1. /\ Len(quotes) \in Nat /\ j \in Nat /\ i \in 0..Len(quotes)
      /\ \A k \in 0..Len(quotes) : C(k) \in Nat /\ W(k) \in Nat
      /\ \A k \in 1..Len(quotes) : /\ C(k) = C(k - 1) + quotes[k].price * quotes[k].quantity
                                   /\ W(k) = W(k - 1) + quotes[k].quantity
                                   /\ quotes[k].price \in Nat /\ quotes[k].quantity \in Nat
  <2>1. Len(quotes) \in Nat /\ \A k \in 1..Len(quotes) : quotes[k].price \in Nat /\ quotes[k].quantity \in Nat
    BY DEF IsSide
  <2>2. j \in Nat /\ i \in 0..Len(quotes)
    BY <2>1
  <2>3. QED
    BY <2>1, <2>2, NotionalsAccumulate
<1> HIDE DEF C, W
<1>2. AtLeast(side, C(i) - C(i), p * (W(i) - W(i)))
  <2>1. C(i) - C(i) = 0 /\ p * (W(i) - W(i)) = 0
    BY <1>1
  <2>2. QED
    BY <2>1 DEF AtLeast
<1>3. 0 \in S
  <2>1. 0 < i \/ i = 0
    OBVIOUS
  <2>2. QED
    BY <1>1, <1>2, <2>1
<1>4. ASSUME NEW k \in 1..j, k - 1 \in S PROVE k \in S
  <2>1. CASE k < i
    BY <1>1, <2>1
  <2>2. CASE k = i
    BY <1>1, <1>2, <2>2
  <2>3. CASE k > i
    <3> DEFINE c == C(k - 1) - C(i)  w == W(k - 1) - W(i)
               x == quotes[k].price  q == quotes[k].quantity
    <3>1. k \in (i + 1)..j /\ k \in 1..Len(quotes) /\ k - 1 \in 0..Len(quotes) /\ ~(k - 1 < i)
      BY <1>1, <2>3, SMTT(30)
    <3>2. /\ c \in Int /\ w \in Int /\ x \in Nat /\ q \in Nat
          /\ AtLeast(side, x, p) /\ AtLeast(side, c, p * w)
      <4>1. /\ C(k - 1) \in Nat /\ C(i) \in Nat /\ W(k - 1) \in Nat /\ W(i) \in Nat
            /\ x \in Nat /\ q \in Nat
        BY <1>1, <3>1
      <4>2. AtLeast(side, x, p)
        BY <3>1
      <4>3. AtLeast(side, c, p * w)
        BY <1>4, <3>1
      <4>4. QED
        BY <4>1, <4>2, <4>3, SMTT(30)
    <3>3. C(k) - C(i) = c + x * q /\ W(k) - W(i) = w + q
      <4>1. \A a, b, r \in Int : (a + r) - b = (a - b) + r
        OBVIOUS
      <4>2. /\ C(k - 1) \in Int /\ C(i) \in Int /\ W(k - 1) \in Int /\ W(i) \in Int
            /\ x * q \in Int /\ q \in Int /\ C(k) = C(k - 1) + x * q /\ W(k) = W(k - 1) + q
        <5>1. x * q \in Int
          BY <3>2
        <5>2. C(k) = C(k - 1) + x * q /\ W(k) = W(k - 1) + q
          BY <1>1, <3>1
        <5>3. C(k - 1) \in Int /\ C(i) \in Int /\ W(k - 1) \in Int /\ W(i) \in Int
          BY <1>1, <3>1, SMTT(30)
        <5>4. QED
          BY <3>2, <5>1, <5>2, <5>3, SMTT(30)
      <4>3. QED
        BY <4>1, <4>2
    <3> HIDE DEF c, w, x, q
    <3>4. AtLeast(side, q * x, q * p)
      BY <3>2, AtLeastTimes
    <3>5. q * x \in Int /\ q * p \in Int /\ p * w \in Int
      BY <3>2
    <3>6. AtLeast(side, c + q * x, p * w + q * p)
      BY <3>2, <3>4, <3>5, AtLeastSum
    <3>7. q * x = x * q /\ p * (w + q) = p * w + q * p
      BY <3>2
    <3>8. AtLeast(side, C(k) - C(i), p * (W(k) - W(i)))
      BY <3>3, <3>6, <3>7
    <3>9. QED
      BY <1>1, <3>8
  <2>4. QED
    BY <2>1, <2>2, <2>3
<1> HIDE DEF S
<1>5. \A k \in 0..j : k \in S
  BY <1>1, <1>3, <1>4, UpTo
<1>6. j \in S /\ ~(j < i)
  BY <1>1, <1>5
<1>7. QED
  BY <1>6 DEF S, C, W

(* A notional D1, bought up to a level of price p1, and a larger one D2,    *)
(* bought up to a level that is not better: multiplying the two averages    *)
(* out, what D2 spends on top of D1 is spent at p1 or worse.                *)
LEMMA AverageOfMore ==
    ASSUME NEW side, NEW C1 \in Nat, NEW W1 \in Nat, NEW D1 \in Nat, C1 <= D1, NEW p1 \in Nat,
                     NEW C2 \in Nat, NEW W2 \in Nat, NEW D2 \in Nat, C2 <= D2, NEW p2 \in Nat,
           D1 <= D2, AtLeast(side, p2, p1), AtLeast(side, p1 * W1, C1),
           AtLeast(side, C2 - C1, p1 * (W2 - W1))
    PROVE  AtLeast(side, (D2 * p2) * (W1 * p1 + (D1 - C1)), (D1 * p1) * (W2 * p2 + (D2 - C2)))
<1> DEFINE Q1 == W1 * p1 + (D1 - C1)
           Q2 == W2 * p2 + (D2 - C2)
           more == D2 - D1
           c == C2 - C1
           w == p1 * (W2 - W1)
           r == D2 - C2
<1>1. Q1 \in Int /\ Q2 \in Int /\ more \in Nat /\ c \in Int /\ w \in Int /\ r \in Nat
  OBVIOUS
<1>2. AtLeast(side, Q1, D1)
  <2>1. p1 * W1 = W1 * p1 /\ W1 * p1 \in Int
    OBVIOUS
  <2>2. QED
    BY <2>1 DEF AtLeast
<1>3. AtLeast(side, p2 * Q1 + more * p2, p1 * Q2)
  <2>1. AtLeast(side, p2 * c, p2 * w)
    <3> HIDE DEF c, w
    <3>1. AtLeast(side, c, w)
      BY DEF c, w
    <3>2. QED
      BY <1>1, <3>1, AtLeastTimes
  <2>2. AtLeast(side, r * p2, r * p1)
    <3> HIDE DEF r
    <3>1. QED
      BY <1>1, AtLeastTimes
  <2>3. /\ p2 * c \in Int /\ p2 * w \in Int /\ r * p2 \in Int /\ r * p1 \in Int
    OBVIOUS
  <2>4. AtLeast(side, p2 * c + r * p2, p2 * w + r * p1)
    <3> HIDE DEF c, w, r
    <3>1. QED
      BY <2>1, <2>2, <2>3, AtLeastSum
  <2>5. p2 * Q1 + more * p2 = (p2 * c + r * p2) + (W1 * p1) * p2
    OBVIOUS
  <2>6. p1 * Q2 = (p2 * w + r * p1) + (W1 * p1) * p2
    OBVIOUS
  <2> DEFINE x == p2 * c + r * p2  y == p2 * w + r * p1  z == (W1 * p1) * p2
  <2>7. x \in Int /\ y \in Int /\ z \in Int
    OBVIOUS
  <2>8. AtLeast(side, x + z, y + z)
    <3> HIDE DEF x, y, z
    <3>1. AtLeast(side, x, y)
      BY <2>4 DEF x, y
    <3>2. QED
      BY <2>7, <3>1 DEF AtLeast
  <2>9. QED
    BY <2>5, <2>6, <2>8
<1> DEFINE x == p2 * Q1 + more * p2  y == p1 * Q2  k == more * p2
<1>4. x \in Int /\ y \in Int /\ k \in Nat
  <2> HIDE DEF Q1, Q2, more
  <2>1. QED
    BY <1>1
<1>5. AtLeast(side, D1 * x, D1 * y)
  <2>1. AtLeast(side, x, y)
    BY <1>3
  <2> HIDE DEF x, y
  <2>2. QED
    BY <1>4, <2>1, AtLeastTimes
<1>6. AtLeast(side, k * Q1, k * D1)
  <2> HIDE DEF k, Q1
  <2>1. QED
    BY <1>1, <1>2, <1>4, AtLeastTimes
<1>7. D1 * x \in Int /\ D1 * y \in Int /\ k * Q1 \in Int /\ k * D1 \in Int
  <2> HIDE DEF x, y, k, Q1
  <2>1. QED
    BY <1>1, <1>4
<1>8. AtLeast(side, D1 * x + k * Q1, D1 * y + k * D1)
  <2> HIDE DEF x, y, k, Q1
  <2>1. QED
    BY <1>5, <1>6, <1>7, AtLeastSum
<1>9. D1 * x + k * Q1 = (D2 * p2) * Q1 + k * D1
  <2> HIDE DEF Q1, Q2
  <2>1. QED
    BY <1>1
<1>10. D1 * y = (D1 * p1) * Q2
  <2> HIDE DEF Q1, Q2
  <2>1. QED
    BY <1>1
<1> DEFINE left == (D2 * p2) * Q1  right == (D1 * p1) * Q2  z == k * D1
<1>11. left \in Int /\ right \in Int /\ z \in Int
  <2> HIDE DEF Q1, Q2, k
  <2>1. QED
    BY <1>1, <1>4
<1>12. AtLeast(side, left + z, right + z)
  BY <1>8, <1>9, <1>10
<1>13. AtLeast(side, left, right)
  <2> HIDE DEF left, right, z
  <2>1. QED
    BY <1>11, <1>12 DEF AtLeast
<1>14. QED
  BY <1>13

(* The average price x of a desired notional: the first m levels are bought *)
(* whole, and what is missing at the price of the next one, of which there  *)
(* is enough.  x is a fraction in which a factor g was cancelled.           *)
Spends(quotes, desired, x, m, g) ==
    LET p == quotes[m + 1].price
    IN  /\ m + 1 \in 1..Len(quotes) /\ m \in 0..Len(quotes)
        /\ cumulatedNotional(quotes, m) <= desired
        /\ desired <= cumulatedNotional(quotes, m + 1)
        /\ x[1] \in Int /\ x[2] \in Int
        /\ g * x[1] = desired * p
        /\ g * x[2] = cumulatedQuantity(quotes, m) * p + (desired - cumulatedNotional(quotes, m))

(* calculateBand buys so; when nothing is missing after the last level, that *)
(* level counts as the one bought in part, all of it.                       *)
LEMMA BandSpends ==
    ASSUME NEW quotes, IsSide(quotes), NEW desired \in Nat \ {0}, ~(desired > Worth(quotes))
    PROVE  \E m \in Nat, g \in Nat \ {0} :
              Spends(quotes, desired, notionalBand(quotes, desired).price, m, g)
<1> DEFINE len == Len(quotes)
           sum(i) == cumulatedNotional(quotes, i)
           n == filled(quotes, desired)
           whole == cumulatedQuantity(quotes, n)
           missing == desired - sum(n)
           quantity == IF n < len
                         THEN <<whole * quotes[n + 1].price + missing, quotes[n + 1].price>>
                         ELSE <<whole, 1>>
           x == notionalBand(quotes, desired).price
<1>1. len \in Nat /\ DOMAIN quotes = 1..len
      /\ \A i \in 1..len : /\ quotes[i].price \in Nat \ {0} /\ quotes[i].quantity \in Nat
  BY DEF IsSide
<1>2. /\ sum(0) = 0 /\ \A i \in 0..len : sum(i) \in Nat /\ cumulatedQuantity(quotes, i) \in Nat
      /\ \A i \in 1..len :
           /\ sum(i) = sum(i - 1) + quotes[i].price * quotes[i].quantity
           /\ cumulatedQuantity(quotes, i) = cumulatedQuantity(quotes, i - 1) + quotes[i].quantity
      /\ \A i, j \in 0..len : i <= j => sum(i) <= sum(j)
  BY NotionalsAccumulate
<1>3. notionalBand(quotes, desired) =
        IF n < len \/ missing <= 0
          THEN [price |-> <<desired * quantity[2], quantity[1]>>, quantity |-> quantity]
          ELSE None
  BY DEF notionalBand, filled
<1>4. ~(desired > sum(len))
  BY DEF Worth
<1> HIDE DEF n
<1>5. /\ n \in 0..len /\ n \in Nat /\ sum(n) \in Nat /\ whole \in Nat /\ sum(n) <= desired
      /\ n < len => ~(sum(n + 1) <= desired)
  BY FilledIs DEF n
<1> HIDE DEF len, sum
<1>6. sum(len) \in Nat
  BY <1>1, <1>2
<1>7. CASE n < len
  <2> DEFINE p == quotes[n + 1].price
  <2>1. n + 1 \in 1..len /\ p \in Nat \ {0}
    BY <1>1, <1>5, <1>7
  <2>2. x = <<desired * p, whole * p + missing>>
    BY <1>3, <1>7
  <2>3. desired * p \in Int /\ whole * p + missing \in Int
    <3> HIDE DEF whole, p
    <3>1. QED
      BY <1>5, <2>1
  <2>4. ~(sum(n + 1) <= desired) /\ sum(n + 1) \in Nat
    BY <1>2, <1>5, <1>7, <2>1
  <2>5. Spends(quotes, desired, x, n, 1)
    <3> HIDE DEF x
    <3>1. x[1] = desired * p /\ x[2] = whole * p + missing
      BY <2>2
    <3>2. desired <= sum(n + 1)
      BY <2>4
    <3>3. 1 * x[1] = x[1] /\ 1 * x[2] = x[2] /\ x[1] \in Int /\ x[2] \in Int
      BY <2>3, <3>1
    <3>4. QED
      BY <1>5, <2>1, <3>1, <3>2, <3>3 DEF Spends, len, sum
  <2> HIDE DEF x
  <2>6. QED
    BY <1>5, <2>5 DEF x
<1>8. CASE ~(n < len)
  <2> DEFINE m == n - 1
             p == quotes[n].price
             q == quotes[n].quantity
  <2>1. n = len /\ sum(n) = desired /\ n # 0
    <3>1. n = len
      BY <1>1, <1>5, <1>8
    <3>2. sum(n) = desired
      BY <1>4, <1>5, <1>6, <3>1
    <3>3. QED
      BY <1>2, <3>1, <3>2
  <2>2. /\ m \in Nat /\ m + 1 = n /\ m + 1 \in 1..len /\ m \in 0..len /\ n \in 1..len
        /\ p \in Nat \ {0} /\ q \in Nat
    <3>1. /\ m \in Nat /\ m + 1 = n /\ m + 1 \in 1..len /\ m \in 0..len /\ n \in 1..len
      BY <1>5, <2>1
    <3>2. QED
      BY <1>1, <3>1
  <2> DEFINE W == cumulatedQuantity(quotes, m)
  <2>3. /\ sum(m) \in Nat /\ W \in Nat /\ whole = W + q /\ desired = sum(m) + p * q
    BY <1>2, <2>1, <2>2
  <2>4. x = <<desired * 1, whole>>
    <3>1. missing <= 0
      BY <1>5, <2>1
    <3> HIDE DEF missing
    <3>2. QED
      BY <1>3, <1>8, <3>1
  <2>5. p * (desired * 1) = desired * p
    BY <2>2
  <2>6. p * whole = W * p + (desired - sum(m))
    <3> HIDE DEF W, p, q, m, whole
    <3>1. p * (W + q) = W * p + p * q /\ p * q \in Int
      BY <2>2, <2>3
    <3>2. desired - sum(m) = p * q
      BY <2>3, <3>1
    <3>3. QED
      BY <2>3, <3>1, <3>2
  <2>7. Spends(quotes, desired, x, m, p)
    <3> HIDE DEF x
    <3>1. x[1] = desired * 1 /\ x[2] = whole /\ x[1] \in Int /\ x[2] \in Int
      BY <1>5, <2>4
    <3>2. quotes[m + 1].price = p
      BY <2>2
    <3>3. sum(m) <= desired /\ desired <= sum(m + 1)
      <4>1. m \in 0..len /\ n \in 0..len /\ m <= n
        BY <2>2
      <4>2. QED
        BY <1>2, <2>1, <2>2, <4>1
    <3> HIDE DEF m, p, W, whole
    <3>4. QED
      BY <2>2, <2>5, <2>6, <3>1, <3>2, <3>3 DEF Spends, len, sum, W
  <2> HIDE DEF x, m, p
  <2>8. QED
    BY <2>2, <2>7 DEF x
<1>9. QED
  BY <1>7, <1>8

(* The best levels are those of the first row. *)
LEMMA FirstRow ==
    ASSUME BookInv
    PROVE  showBestBidOffer(book) = table(book, NoCaptions, 1)
<1> DEFINE best == bestBidOffer(book)
           cell(column, k) == IF k \in DOMAIN column THEN column[k] ELSE None
           row(b, k) == [s \in Side |-> [label |-> cell(quotesOf(NoCaptions, s), k),
                                         quote |-> cell(quotesOf(b, s), k)]]
           m == Sets!Max({Len(best.ask), Len(best.bid)})
           levels == Sets!Max({Len(book.ask), Len(book.bid)})
           n == Sets!Min({levels, 1})
<1>1. IsSide(book.ask) /\ IsSide(book.bid)
  BY DEF BookInv, quotesOf, Side
<1>2. ASSUME NEW quotes, IsSide(quotes),
             NEW top, top = SubSeq(quotes, 1, IF Len(quotes) > 0 THEN 1 ELSE 0)
      PROVE  /\ Len(top) = (IF Len(quotes) > 0 THEN 1 ELSE 0) /\ DOMAIN top = 1..Len(top)
             /\ 1 \in DOMAIN top <=> 1 \in DOMAIN quotes
             /\ 1 \in DOMAIN top => top[1] = quotes[1]
             /\ Len(quotes) \in Nat
  <2>1. quotes \in Seq(Level) /\ Len(quotes) \in Nat /\ DOMAIN quotes = 1..Len(quotes)
    BY <1>2 DEF IsSide
  <2>2. CASE Len(quotes) > 0
    <3>1. top = SubSeq(quotes, 1, 1) /\ 1 \in 1..Len(quotes)
      BY <1>2, <2>1, <2>2
    <3> HIDE DEF Level
    <3>2. top \in Seq(Level) /\ Len(top) = 1 /\ top[1] = quotes[1]
      BY <2>1, <3>1
    <3>3. DOMAIN top = 1..1
      BY <3>2
    <3>4. QED
      BY <2>1, <2>2, <3>1, <3>2, <3>3
  <2>3. CASE ~(Len(quotes) > 0)
    <3>1. top = SubSeq(quotes, 1, 0) /\ Len(quotes) = 0
      BY <1>2, <2>1, <2>3
    <3> HIDE DEF Level
    <3>2. top \in Seq(Level) /\ Len(top) = 0
      BY <2>1, <3>1
    <3>3. DOMAIN top = 1..0
      BY <3>2
    <3>4. QED
      BY <2>1, <2>3, <3>1, <3>2, <3>3
  <2>4. QED
    BY <2>2, <2>3
<1>3. /\ best.ask = SubSeq(book.ask, 1, IF Len(book.ask) > 0 THEN 1 ELSE 0)
      /\ best.bid = SubSeq(book.bid, 1, IF Len(book.bid) > 0 THEN 1 ELSE 0)
  BY DEF bestBidOffer
<1>4. showBestBidOffer(book) = [k \in 1..m |-> row(best, k)]
  BY DEF showBestBidOffer, table
<1>5. table(book, NoCaptions, 1) = [k \in 1..n |-> row(book, k)]
  BY DEF table
<1> HIDE DEF best
<1>6. \A a, b \in Nat : Sets!Max({a, b}) \in {a, b} /\ Sets!Max({a, b}) >= a /\ Sets!Max({a, b}) >= b
  <2> SUFFICES ASSUME NEW a \in Nat, NEW b \in Nat
               PROVE  Sets!Max({a, b}) \in {a, b} /\ Sets!Max({a, b}) >= a /\ Sets!Max({a, b}) >= b
    OBVIOUS
  <2>1. {a, b} = {a} \cup {b} /\ IsFiniteSet({a}) /\ IsFiniteSet({b})
    BY FS_Singleton
  <2>2. IsFiniteSet({a, b})
    BY <2>1, FS_Union
  <2>3. QED
    BY <2>2, MaxIs
<1>7. m = n /\ n \in {0, 1}
  <2> DEFINE a == Len(book.ask)  b == Len(book.bid)
             c == Len(best.ask)  d == Len(best.bid)
  <2>1. /\ a \in Nat /\ b \in Nat /\ c = (IF a > 0 THEN 1 ELSE 0) /\ d = (IF b > 0 THEN 1 ELSE 0)
    BY <1>1, <1>2, <1>3
  <2> HIDE DEF a, b, c, d
  <2> DEFINE l == Sets!Max({a, b})
  <2>2. l \in {a, b} /\ l >= a /\ l >= b /\ l \in Nat
    BY <1>6, <2>1
  <2>3. c \in Nat /\ d \in Nat
    BY <2>1
  <2>4. Sets!Max({c, d}) \in {c, d} /\ Sets!Max({c, d}) >= c /\ Sets!Max({c, d}) >= d
    BY <1>6, <2>3
  <2> HIDE DEF l
  <2>5. /\ Sets!Min({l, 1}) \in {l, 1} /\ Sets!Min({l, 1}) <= l /\ Sets!Min({l, 1}) <= 1
    BY <2>2, MinIs
  <2>6. Sets!Max({c, d}) = Sets!Min({l, 1}) /\ Sets!Min({l, 1}) \in {0, 1}
    BY <2>1, <2>2, <2>4, <2>5
  <2>7. QED
    BY <2>6 DEF l, a, b, c, d
<1>8. row(best, 1) = row(book, 1)
  <2>1. \A s \in Side : cell(quotesOf(best, s), 1) = cell(quotesOf(book, s), 1)
    BY <1>1, <1>2, <1>3 DEF quotesOf, Side
  <2>2. QED
    BY <2>1
<1> HIDE DEF row, m, n
<1>9. \A k \in 1..n : k = 1
  BY <1>7
<1>10. QED
  BY <1>4, <1>5, <1>7, <1>8, <1>9

(* No level is better than one before it. *)
LEMMA LevelsGetWorse ==
    ASSUME NEW side \in Side, NEW quotes, IsSide(quotes), Sorted(quotes, side),
           NEW j \in 1..Len(quotes), NEW i \in 1..j
    PROVE  AtLeast(side, quotes[j].price, quotes[i].price)
<1>1. i \in 1..Len(quotes) /\ (i = j \/ i < j)
  BY DEF IsSide
<1>2. quotes[j].price \in Nat /\ quotes[i].price \in Nat
  BY <1>1 DEF IsSide
<1>3. QED
  BY <1>1, <1>2 DEF Sorted, AtLeast

(* The average price of a notional lies between the best price of the side  *)
(* and the worst one.                                                      *)
LEMMA AverageIsBetween ==
    ASSUME NEW side \in Side, NEW quotes, IsSide(quotes), Sorted(quotes, side),
           NEW desired \in Nat \ {0}, NEW x, NEW m \in Nat, NEW g \in Nat \ {0},
           Spends(quotes, desired, x, m, g)
    PROVE  /\ AtLeast(side, x[1], quotes[1].price * x[2])
           /\ AtLeast(side, quotes[Len(quotes)].price * x[2], x[1])
<1> DEFINE C == cumulatedNotional(quotes, m)
           W == cumulatedQuantity(quotes, m)
           p == quotes[m + 1].price
           Q == W * p + (desired - C)
<1>1. /\ m + 1 \in 1..Len(quotes) /\ m \in 0..Len(quotes) /\ C <= desired
      /\ x[1] \in Int /\ x[2] \in Int /\ g * x[1] = desired * p /\ g * x[2] = Q
  BY DEF Spends
<1>2. Len(quotes) \in Nat /\ \A k \in 1..Len(quotes) : quotes[k].price \in Nat
  BY DEF IsSide
<1>3. /\ C \in Nat /\ W \in Nat /\ p \in Nat
      /\ cumulatedNotional(quotes, 0) = 0 /\ cumulatedQuantity(quotes, 0) = 0
  BY <1>1, <1>2, NotionalsAccumulate
<1>4. ASSUME NEW s \in Side, NEW b \in Nat, \A k \in 1..(m + 1) : AtLeast(s, quotes[k].price, b)
      PROVE  AtLeast(s, x[1], b * x[2])
  <2>1. AtLeast(s, C - 0, b * (W - 0))
    <3>1. 0 \in 0..m /\ \A k \in (0 + 1)..m : AtLeast(s, quotes[k].price, b)
      BY <1>4
    <3>2. AtLeast(s, C - cumulatedNotional(quotes, 0), b * (W - cumulatedQuantity(quotes, 0)))
      BY <1>1, <3>1, LevelsAtLeast
    <3>3. QED
      BY <1>3, <3>2
  <2>2. AtLeast(s, C, b * W) /\ AtLeast(s, p, b)
    <3>1. C - 0 = C /\ W - 0 = W /\ m + 1 \in 1..(m + 1)
      BY <1>3
    <3>2. QED
      BY <1>4, <2>1, <3>1
  <2> HIDE DEF C, W, p
  <2>3. AtLeast(s, desired * p, b * (W * p + (desired - C)))
    BY <1>1, <1>3, <2>2, AverageFromPrice
  <2>4. AtLeast(s, g * x[1], b * (g * x[2]))
    BY <1>1, <2>3
  <2> DEFINE u == x[1]  v == x[2]
  <2>5. b * (g * v) = g * (b * v) /\ b * v \in Int /\ u \in Int
    <3>1. u \in Int /\ v \in Int
      BY <1>1
    <3> HIDE DEF u, v
    <3>2. QED
      BY <3>1
  <2> HIDE DEF u, v
  <2>6. AtLeast(s, u, b * v)
    <3>1. AtLeast(s, g * u, g * (b * v))
      BY <2>4, <2>5 DEF u, v
    <3> DEFINE y == b * v
    <3>2. y \in Int /\ AtLeast(s, g * u, g * y)
      BY <2>5, <3>1
    <3> HIDE DEF y
    <3>3. AtLeast(s, u, y)
      BY <2>5, <3>2, AtLeastDivided
    <3>4. QED
      BY <3>3 DEF y
  <2>7. QED
    BY <2>6 DEF u, v
<1> DEFINE best == quotes[1].price  worst == quotes[Len(quotes)].price
<1>5. best \in Nat /\ worst \in Nat
  <2>1. 1 \in 1..Len(quotes) /\ Len(quotes) \in 1..Len(quotes)
    BY <1>1, <1>2
  <2>2. QED
    BY <1>2, <2>1
<1>6. \A k \in 1..(m + 1) : AtLeast(side, quotes[k].price, best)
  <2> TAKE k \in 1..(m + 1)
  <2>1. k \in 1..Len(quotes) /\ 1 \in 1..k
    BY <1>1, <1>2
  <2>2. QED
    BY <2>1, LevelsGetWorse
<1>7. \A k \in 1..(m + 1) : AtLeast(Other(side), quotes[k].price, worst)
  <2> TAKE k \in 1..(m + 1)
  <2>1. k \in 1..Len(quotes) /\ Len(quotes) \in 1..Len(quotes)
    BY <1>1, <1>2
  <2>2. AtLeast(side, worst, quotes[k].price)
    BY <2>1, LevelsGetWorse
  <2>3. quotes[k].price \in Int /\ worst \in Int
    BY <1>2, <1>5, <2>1
  <2> HIDE DEF worst
  <2>4. QED
    BY <2>2, <2>3, OtherIs
<1> HIDE DEF best, worst
<1>8. AtLeast(side, x[1], best * x[2])
  BY <1>4, <1>5, <1>6
<1>9. AtLeast(Other(side), x[1], worst * x[2])
  <2>1. Other(side) \in Side
    BY DEF Other, Side
  <2>2. QED
    BY <1>4, <1>5, <1>7, <2>1
<1>10. AtLeast(side, worst * x[2], x[1])
  <2>1. worst * x[2] \in Int /\ x[1] \in Int
    BY <1>1, <1>5
  <2>2. QED
    BY <1>9, <2>1, OtherIs
<1>11. QED
  BY <1>8, <1>10 DEF best, worst

(* The average price of a larger notional is not better. *)
LEMMA AverageGetsWorse ==
    ASSUME NEW side \in Side, NEW quotes, IsSide(quotes), Sorted(quotes, side),
           NEW D1 \in Nat \ {0}, NEW x1, NEW m1 \in Nat, NEW g1 \in Nat \ {0},
           Spends(quotes, D1, x1, m1, g1),
           NEW D2 \in Nat \ {0}, NEW x2, NEW m2 \in Nat, NEW g2 \in Nat \ {0},
           Spends(quotes, D2, x2, m2, g2),
           D1 < D2
    PROVE  AtLeast(side, x2[1] * x1[2], x1[1] * x2[2])
<1> DEFINE C(i) == cumulatedNotional(quotes, i)
           W(i) == cumulatedQuantity(quotes, i)
           p1 == quotes[m1 + 1].price
           p2 == quotes[m2 + 1].price
<1>1. /\ m1 + 1 \in 1..Len(quotes) /\ m1 \in 0..Len(quotes) /\ C(m1) <= D1
      /\ x1[1] \in Int /\ x1[2] \in Int
      /\ g1 * x1[1] = D1 * p1 /\ g1 * x1[2] = W(m1) * p1 + (D1 - C(m1))
  BY DEF Spends
<1>2. /\ m2 + 1 \in 1..Len(quotes) /\ m2 \in 0..Len(quotes) /\ C(m2) <= D2 /\ D2 <= C(m2 + 1)
      /\ x2[1] \in Int /\ x2[2] \in Int
      /\ g2 * x2[1] = D2 * p2 /\ g2 * x2[2] = W(m2) * p2 + (D2 - C(m2))
  BY DEF Spends
<1>3. Len(quotes) \in Nat /\ p1 \in Nat /\ p2 \in Nat
  BY <1>1, <1>2 DEF IsSide
<1>4. /\ C(0) = 0 /\ W(0) = 0
      /\ \A i \in 0..Len(quotes) : C(i) \in Nat /\ W(i) \in Nat
      /\ \A i, j \in 0..Len(quotes) : i <= j => C(i) <= C(j)
  BY NotionalsAccumulate
<1>5. m1 <= m2
  <2>1. SUFFICES ASSUME m2 + 1 <= m1 PROVE FALSE
    OBVIOUS
  <2>2. m2 + 1 \in 0..Len(quotes)
    BY <1>2
  <2> HIDE DEF C
  <2>3. C(m2 + 1) <= C(m1) /\ C(m2 + 1) \in Nat /\ C(m1) \in Nat
    BY <1>1, <1>4, <2>1, <2>2
  <2>4. QED
    BY <1>1, <1>2, <2>3
<1>6. AtLeast(side, p2, p1)
  <2>1. m1 + 1 \in 1..(m2 + 1)
    BY <1>5
  <2>2. QED
    BY <1>2, <2>1, LevelsGetWorse
<1>7. AtLeast(side, p1 * W(m1), C(m1))
  <2>1. \A k \in (0 + 1)..m1 : AtLeast(Other(side), quotes[k].price, p1)
    <3> TAKE k \in (0 + 1)..m1
    <3>1. k \in 1..(m1 + 1) /\ k \in 1..Len(quotes)
      BY <1>1, <1>3
    <3>2. AtLeast(side, p1, quotes[k].price)
      BY <1>1, <3>1, LevelsGetWorse
    <3>3. quotes[k].price \in Int
      BY <3>1 DEF IsSide
    <3> HIDE DEF p1
    <3>4. QED
      BY <1>3, <3>2, <3>3, OtherIs
  <2> HIDE DEF p1
  <2>2. 0 \in 0..m1
    OBVIOUS
  <2>3. AtLeast(Other(side), C(m1) - C(0), p1 * (W(m1) - W(0)))
    BY <1>1, <1>3, <2>1, <2>2, LevelsAtLeast
  <2> HIDE DEF C, W
  <2>4. /\ C(m1) \in Nat /\ W(m1) \in Nat /\ C(m1) - C(0) = C(m1) /\ W(m1) - W(0) = W(m1)
    BY <1>1, <1>4, SMTT(30)
  <2>5. AtLeast(Other(side), C(m1), p1 * W(m1))
    BY <2>3, <2>4
  <2>6. p1 * W(m1) \in Int
    BY <1>3, <2>4
  <2>7. QED
    BY <2>4, <2>5, <2>6, OtherIs
<1>8. AtLeast(side, C(m2) - C(m1), p1 * (W(m2) - W(m1)))
  <2>1. \A k \in (m1 + 1)..m2 : AtLeast(side, quotes[k].price, p1)
    <3> TAKE k \in (m1 + 1)..m2
    <3>1. m1 + 1 \in 1..k /\ k \in 1..Len(quotes)
      BY <1>2, <1>3, SMTT(30)
    <3>2. QED
      BY <3>1, LevelsGetWorse
  <2>2. m1 \in 0..m2
    BY <1>5
  <2> HIDE DEF p1
  <2>3. QED
    BY <1>2, <1>3, <2>1, <2>2, LevelsAtLeast
<1> DEFINE C1 == C(m1)  W1 == W(m1)  C2 == C(m2)  W2 == W(m2)
           a1 == x1[1]  b1 == x1[2]  a2 == x2[1]  b2 == x2[2]
<1>9. C1 \in Nat /\ W1 \in Nat /\ C2 \in Nat /\ W2 \in Nat
  BY <1>1, <1>2, <1>4
<1>10. /\ a1 \in Int /\ b1 \in Int /\ a2 \in Int /\ b2 \in Int
       /\ g1 * a1 = D1 * p1 /\ g1 * b1 = W1 * p1 + (D1 - C1)
       /\ g2 * a2 = D2 * p2 /\ g2 * b2 = W2 * p2 + (D2 - C2)
       /\ C1 <= D1 /\ C2 <= D2
       /\ AtLeast(side, p1 * W1, C1) /\ AtLeast(side, C2 - C1, p1 * (W2 - W1))
  BY <1>1, <1>2, <1>7, <1>8
<1>11. D1 \in Nat /\ D2 \in Nat /\ D1 <= D2
  OBVIOUS
<1> HIDE DEF C1, W1, C2, W2, a1, b1, a2, b2, p1, p2
<1>12. AtLeast(side, (D2 * p2) * (W1 * p1 + (D1 - C1)), (D1 * p1) * (W2 * p2 + (D2 - C2)))
  BY <1>3, <1>6, <1>9, <1>10, <1>11, AverageOfMore
<1>13. AtLeast(side, (g2 * a2) * (g1 * b1), (g1 * a1) * (g2 * b2))
  BY <1>10, <1>12
<1> DEFINE g == g1 * g2  u == a2 * b1  v == a1 * b2
<1>14. /\ (g2 * a2) * (g1 * b1) = g * u /\ (g1 * a1) * (g2 * b2) = g * v
       /\ u \in Int /\ v \in Int
  BY <1>10
<1>15. g \in Nat \ {0}
  OBVIOUS
<1> HIDE DEF g, u, v
<1>16. AtLeast(side, u, v)
  BY <1>13, <1>14, <1>15, AtLeastDivided
<1>17. QED
  BY <1>16 DEF u, v, a1, b1, a2, b2

(* What the subscribers show fits together, for every book that the         *)
(* aggregator generates and all configured notionals: computeBestBidOffer   *)
(* shows the first row of the book, the average price that calculateBand    *)
(* gets for a notional is neither better than the best price nor worse than *)
(* the worst one, and a larger notional never gets a better average.        *)
THEOREM AveragesAreRight == Spec => []AveragesAreFair
<1>1. BookInv => AveragesAreFair
  <2> SUFFICES ASSUME BookInv, NEW side \in Side
               PROVE  LET quotes == quotesOf(book, side)
                          best == quotesOf(bestBidOffer(book), side)
                          band(i) == notionalBand(quotes, Notionals[i])
                          Bands == {i \in DOMAIN Notionals : band(i) # None}
                          NotBetter(x, y) == IF side = "ASK" THEN ~Less(x, y) ELSE ~Less(y, x)
                      IN  \A i \in Bands :
                            /\ NotBetter(band(i).price, <<best[1].price, 1>>)
                            /\ NotBetter(<<quotes[Len(quotes)].price, 1>>, band(i).price)
                            /\ \A j \in Bands : Notionals[i] < Notionals[j] =>
                                  NotBetter(band(j).price, band(i).price)
    BY FirstRow DEF AveragesAreFair
  <2> DEFINE quotes == quotesOf(book, side)
             best == quotesOf(bestBidOffer(book), side)
             band(i) == notionalBand(quotes, Notionals[i])
             Bands == {i \in DOMAIN Notionals : band(i) # None}
             NotBetter(x, y) == IF side = "ASK" THEN ~Less(x, y) ELSE ~Less(y, x)
  <2>1. IsSide(quotes) /\ Sorted(quotes, side)
    BY DEF BookInv
  <2>2. best = SubSeq(quotes, 1, IF Len(quotes) > 0 THEN 1 ELSE 0)
    BY DEF bestBidOffer, quotesOf, Side
  <2> HIDE DEF quotes, best
  <2>3. \A i \in Bands : i \in DOMAIN Notionals /\ band(i) # None
    OBVIOUS
  <2>4. \A i \in DOMAIN Notionals : Notionals[i] \in Nat \ {0}
    BY NotionalsAssumption
  <2> HIDE DEF Bands
  <2>5. \A i \in Bands : Notionals[i] \in Nat \ {0} /\ ~(Notionals[i] > Worth(quotes))
    <3> TAKE i \in Bands
    <3> DEFINE desired == Notionals[i]
    <3>1. desired \in Nat \ {0} /\ notionalBand(quotes, desired) # None
      BY <2>3, <2>4
    <3> HIDE DEF desired
    <3>2. ~(desired > Worth(quotes))
      BY <2>1, <3>1, NotionalBandIs
    <3>3. QED
      BY <3>1, <3>2 DEF desired
  <2>6. \A i \in Bands : \E m \in Nat, g \in Nat \ {0} :
           Spends(quotes, Notionals[i], band(i).price, m, g)
    <3> TAKE i \in Bands
    <3> DEFINE desired == Notionals[i]
    <3>1. desired \in Nat \ {0} /\ ~(desired > Worth(quotes)) /\ band(i) = notionalBand(quotes, desired)
      BY <2>5
    <3> HIDE DEF desired, band
    <3>2. QED
      BY <2>1, <3>1, BandSpends DEF desired
  <2> HIDE DEF band
  <2>7. \A x, y : x[1] \in Int /\ x[2] \in Int /\ y[1] \in Int /\ y[2] \in Int =>
           (NotBetter(x, y) <=> AtLeast(side, x[1] * y[2], y[1] * x[2]))
    <3> SUFFICES ASSUME NEW x, NEW y, x[1] \in Int, x[2] \in Int, y[1] \in Int, y[2] \in Int
                 PROVE  NotBetter(x, y) <=> AtLeast(side, x[1] * y[2], y[1] * x[2])
      OBVIOUS
    <3> DEFINE u == x[1] * y[2]  v == y[1] * x[2]
    <3>1. u \in Int /\ v \in Int
      OBVIOUS
    <3>2. Less(x, y) <=> u < v
      BY DEF Less
    <3>3. Less(y, x) <=> v < u
      BY DEF Less
    <3> HIDE DEF u, v
    <3>4. NotBetter(x, y) <=> AtLeast(side, u, v)
      BY <3>1, <3>2, <3>3 DEF AtLeast
    <3>5. QED
      BY <3>4 DEF u, v
  <2> HIDE DEF NotBetter
  <2>8. ASSUME NEW i \in Bands
        PROVE  /\ NotBetter(band(i).price, <<best[1].price, 1>>)
               /\ NotBetter(<<quotes[Len(quotes)].price, 1>>, band(i).price)
    <3> DEFINE x == band(i).price  desired == Notionals[i]
               b == best[1].price  w == quotes[Len(quotes)].price
    <3>1. PICK m \in Nat, g \in Nat \ {0} : Spends(quotes, desired, x, m, g)
      BY <2>6
    <3>2. desired \in Nat \ {0}
      BY <2>5
    <3>3. x[1] \in Int /\ x[2] \in Int /\ Len(quotes) > 0 /\ Len(quotes) \in Nat
      <4>1. Len(quotes) \in Nat
        BY <2>1 DEF IsSide
      <4>2. QED
        BY <3>1, <4>1 DEF Spends
    <3>4. b = quotes[1].price
      <4>1. best = SubSeq(quotes, 1, 1) /\ quotes \in Seq(Level) /\ 1 \in 1..Len(quotes)
        BY <2>1, <2>2, <3>3 DEF IsSide
      <4> HIDE DEF Level
      <4>2. best[1] = quotes[1]
        BY <3>3, <4>1
      <4>3. QED
        BY <4>2
    <3>5. b \in Nat /\ w \in Nat
      <4>1. 1 \in 1..Len(quotes) /\ Len(quotes) \in 1..Len(quotes)
        BY <3>3
      <4>2. QED
        BY <2>1, <3>4, <4>1 DEF IsSide
    <3> HIDE DEF x, desired
    <3>6. AtLeast(side, x[1], b * x[2]) /\ AtLeast(side, w * x[2], x[1])
      BY <2>1, <3>1, <3>2, <3>4, AverageIsBetween
    <3> HIDE DEF b, w
    <3>7. x[1] * 1 = x[1]
      BY <3>3
    <3> DEFINE y == <<b, 1>>  z == <<w, 1>>
    <3>8. y[1] = b /\ y[2] = 1 /\ z[1] = w /\ z[2] = 1
      OBVIOUS
    <3> HIDE DEF y, z
    <3>9. NotBetter(x, y)
      <4>1. y[1] \in Int /\ y[2] \in Int
        BY <3>5, <3>8
      <4>2. NotBetter(x, y) <=> AtLeast(side, x[1] * y[2], y[1] * x[2])
        BY <2>7, <3>3, <4>1, ZenonT(40)
      <4>3. QED
        BY <3>6, <3>7, <3>8, <4>2
    <3>10. NotBetter(z, x)
      <4>1. z[1] \in Int /\ z[2] \in Int
        BY <3>5, <3>8
      <4>2. NotBetter(z, x) <=> AtLeast(side, z[1] * x[2], x[1] * z[2])
        BY <2>7, <3>3, <4>1, ZenonT(40)
      <4>3. QED
        BY <3>6, <3>7, <3>8, <4>2
    <3>11. QED
      BY <3>9, <3>10 DEF x, y, z, b, w
  <2>9. ASSUME NEW i \in Bands, NEW j \in Bands, Notionals[i] < Notionals[j]
        PROVE  NotBetter(band(j).price, band(i).price)
    <3> DEFINE x1 == band(i).price  D1 == Notionals[i]
               x2 == band(j).price  D2 == Notionals[j]
    <3>1. PICK m1 \in Nat, g1 \in Nat \ {0} : Spends(quotes, D1, x1, m1, g1)
      BY <2>6
    <3>2. PICK m2 \in Nat, g2 \in Nat \ {0} : Spends(quotes, D2, x2, m2, g2)
      BY <2>6
    <3>3. D1 \in Nat \ {0} /\ D2 \in Nat \ {0} /\ D1 < D2
      BY <2>5, <2>9
    <3> HIDE DEF x1, x2, D1, D2
    <3>4. x1[1] \in Int /\ x1[2] \in Int /\ x2[1] \in Int /\ x2[2] \in Int
      BY <3>1, <3>2 DEF Spends
    <3>5. AtLeast(side, x2[1] * x1[2], x1[1] * x2[2])
      BY <2>1, <3>1, <3>2, <3>3, AverageGetsWorse
    <3>6. NotBetter(x2, x1)
      BY <2>7, <3>4, <3>5
    <3>7. QED
      BY <3>6 DEF x1, x2
  <2>10. QED
    BY <2>8, <2>9 DEF quotes, best, band, Bands, NotBetter
<1>2. QED
  BY <1>1, BookIsBook, PTL

=============================================================================
