--------------------------- MODULE StartupProofs ---------------------------
(***************************************************************************)
(* Theorems about Startup, for all texts and spellings, and for command    *)
(* lines and lists of exchanges of any length.                             *)
(***************************************************************************)
EXTENDS Startup, NaturalsInduction, WellFoundedInduction, TLAPS

LEMMA Least ==
    ASSUME NEW T, T \subseteq Nat, T # {}
    PROVE  \E x \in T : \A y \in T : x <= y
<1> DEFINE R == {ss \in Nat \X Nat : ss[1] < ss[2]}
<1>1. IsWellFoundedOn(R, Nat)
  BY NatLessThanWellFounded, Zenon DEF OpToRel
<1> HIDE DEF R
<1>2. PICK x \in T : \A y \in T : ~(<<y, x>> \in R)
  BY <1>1, WFMin
<1>3. \A m \in Nat, n \in Nat : m < n => <<m, n>> \in R
  BY DEF R
<1>4. \A y \in T : ~(y < x)
  BY <1>2, <1>3
<1>5. QED
  BY <1>4

(***************************************************************************)
(* Values and words                                                        *)
(***************************************************************************)
LEMMA FirstIsWord == ASSUME NEW line PROVE ~IsValue(line, 1)
<1>1. 1..(1 - 1) = {}
  OBVIOUS
<1>2. QED
  BY <1>1 DEF IsValue

(* The definition by odd numbers of --config is the rule that the parser    *)
(* follows: an argument is a value exactly when the one before it is a     *)
(* --config and no value itself.                                           *)
LEMMA ValueNext ==
    ASSUME NEW line, NEW j \in Nat \ {0}
    PROVE  IsValue(line, j + 1) <=> line[j] = "--config" /\ ~IsValue(line, j)
<1>1. ASSUME IsValue(line, j + 1) PROVE line[j] = "--config" /\ ~IsValue(line, j)
  <2>1. PICK n \in 1..j :
           /\ n % 2 = 1
           /\ \A k \in (j + 1 - n)..j : line[k] = "--config"
           /\ j + 1 - n > 1 => line[j - n] # "--config"
    <3>1. j + 1 - 1 = j /\ \A n \in 1..j : j + 1 - n - 1 = j - n
      OBVIOUS
    <3>2. QED
      BY <1>1, <3>1 DEF IsValue
  <2>2. j \in (j + 1 - n)..j
    BY <2>1
  <2>3. line[j] = "--config"
    BY <2>1, <2>2
  <2>4. ASSUME IsValue(line, j) PROVE FALSE
    <3>1. PICK m \in 1..(j - 1) :
             /\ m % 2 = 1
             /\ \A k \in (j - m)..(j - 1) : line[k] = "--config"
             /\ j - m > 1 => line[j - m - 1] # "--config"
      BY <2>4 DEF IsValue
    <3>2. CASE m < n - 1
      <4>1. j - m > 1 /\ j - m - 1 \in (j + 1 - n)..j
        BY <2>1, <3>1, <3>2
      <4>2. QED
        BY <2>1, <3>1, <4>1
    <3>3. CASE m > n - 1
      <4>1. j + 1 - n > 1 /\ j - n \in (j - m)..(j - 1)
        BY <2>1, <3>1, <3>3
      <4>2. QED
        BY <2>1, <3>1, <4>1
    <3>4. CASE m = n - 1
      BY <2>1, <3>1, <3>4
    <3>5. QED
      BY <2>1, <3>1, <3>2, <3>3, <3>4
  <2>5. QED
    BY <2>3, <2>4
<1>2. ASSUME line[j] = "--config", ~IsValue(line, j) PROVE IsValue(line, j + 1)
  <2> DEFINE T == {n \in 1..j : n = j \/ line[j - n] # "--config"}
  <2>1. PICK r \in T : \A y \in T : r <= y
    <3>1. j \in T /\ T \subseteq Nat
      OBVIOUS
    <3>2. QED
      BY <3>1, Least
  <2>2. r \in 1..j /\ (r = j \/ line[j - r] # "--config")
    BY <2>1
  <2>3. ASSUME NEW k \in (j + 1 - r)..j PROVE line[k] = "--config"
    <3>1. CASE k = j
      BY <1>2, <3>1
    <3>2. CASE k # j
      <4> DEFINE n == j - k
      <4>1. n \in 1..j /\ n < r /\ j - n = k
        BY <2>2, <3>2
      <4>2. n \notin T
        BY <2>1, <4>1
      <4>3. QED
        BY <4>1, <4>2
    <3>3. QED
      BY <3>1, <3>2
  <2> HIDE DEF T
  <2>4. CASE r % 2 = 1
    <3>1. r \in 1..(j + 1 - 1)
      BY <2>2
    <3>2. \A k \in (j + 1 - r)..(j + 1 - 1) : line[k] = "--config"
      BY <2>2, <2>3
    <3>3. j + 1 - r > 1 => line[j + 1 - r - 1] # "--config"
      <4>1. j + 1 - r - 1 = j - r /\ (j + 1 - r > 1 => r # j)
        BY <2>2
      <4>2. QED
        BY <2>2, <4>1
    <3>4. QED
      BY <2>4, <3>1, <3>2, <3>3 DEF IsValue
  <2>5. CASE r % 2 # 1
    <3> DEFINE n == r - 1
    <3>1. n \in 1..(j - 1) /\ n % 2 = 1
      BY <2>2, <2>5
    <3>2. \A k \in (j - n)..(j - 1) : line[k] = "--config"
      <4>1. \A k \in (j - n)..(j - 1) : k \in (j + 1 - r)..j
        BY <2>2
      <4>2. QED
        BY <2>3, <4>1
    <3>3. j - n > 1 => line[j - n - 1] # "--config"
      <4>1. j - n - 1 = j - r /\ (j - n > 1 => r # j)
        BY <2>2
      <4>2. QED
        BY <2>2, <4>1
    <3> HIDE DEF n
    <3>4. IsValue(line, j)
      BY <3>1, <3>2, <3>3 DEF IsValue
    <3>5. QED
      BY <1>2, <3>4
  <2>6. QED
    BY <2>4, <2>5
<1>3. QED
  BY <1>1, <1>2

(***************************************************************************)
(* What the first arguments say                                            *)
(***************************************************************************)
Named(g, line, m) ==
    g = [n \in 0..m |->
            IF n = 0 THEN << >>
            ELSE IF n \in Word(line) /\ line[n] \in Text
              THEN Append(g[n - 1], [id |-> upper[line[n]], name |-> lower[line[n]]])
              ELSE g[n - 1]]

names(line) == CHOOSE g : Named(g, line, Len(line))

Values(line, m) == {j \in 1..(m - 1) : IsValue(line, j)}

Last(values) == CHOOSE j \in values : \A k \in values : k <= j

Path(line, m) == IF Values(line, m) = {} THEN "" ELSE line[Last(Values(line, m))]

IsVerbose(line, m) == \E j \in Word(line) : j < m /\ line[j] = "--verbose"

LEMMA ReadBeforeIs ==
    ASSUME NEW line, NEW m
    PROVE  ReadBefore(line, m) = [configPath |-> Path(line, m),
                                  verbose |-> IsVerbose(line, m),
                                  exchanges |-> names(line)[m - 1]]
BY DEF ReadBefore, names, Named, Path, Last, Values, IsVerbose

(* The recursion that collects the exchanges has a solution. *)
LEMMA NamedExists ==
    ASSUME NEW line, NEW m \in Nat
    PROVE  \E g : Named(g, line, m)
<1> DEFINE Step(before, n) == IF n \in Word(line) /\ line[n] \in Text
              THEN Append(before, [id |-> upper[line[n]], name |-> lower[line[n]]])
              ELSE before
           Bad == {k \in Nat : ~ \E g : Named(g, line, k)}
<1>1. SUFFICES ASSUME Bad # {} PROVE FALSE
  OBVIOUS
<1>2. PICK k \in Bad : \A l \in Bad : k <= l
  BY <1>1, Least
<1>3. \A g, l : Named(g, line, l) <=>
                g = [n \in 0..l |-> IF n = 0 THEN << >> ELSE Step(g[n - 1], n)]
  BY DEF Named
<1> HIDE DEF Step
<1>4. k # 0
  <2> DEFINE g == [n \in 0..0 |-> << >>]
  <2>1. g = [n \in 0..0 |-> IF n = 0 THEN << >> ELSE Step(g[n - 1], n)]
    OBVIOUS
  <2>2. Named(g, line, 0)
    BY <1>3, <2>1
  <2>3. QED
    BY <2>2
<1>5. k - 1 \in Nat /\ k - 1 \notin Bad
  BY <1>2, <1>4
<1>6. PICK g : Named(g, line, k - 1)
  BY <1>5
<1>7. g = [n \in 0..(k - 1) |-> IF n = 0 THEN << >> ELSE Step(g[n - 1], n)]
  BY <1>3, <1>6
<1> DEFINE h == [n \in 0..k |-> IF n = k THEN Step(g[k - 1], k) ELSE g[n]]
<1>8. h = [n \in 0..k |-> IF n = 0 THEN << >> ELSE Step(h[n - 1], n)]
  <2>1. ASSUME NEW n \in 0..k
        PROVE  h[n] = IF n = 0 THEN << >> ELSE Step(h[n - 1], n)
    <3>1. CASE n = 0
      BY <1>4, <1>5, <1>7, <3>1
    <3>2. CASE n # 0 /\ n # k
      <4>1. n \in 0..(k - 1) /\ n - 1 \in 0..(k - 1) /\ n - 1 # k /\ n - 1 \in 0..k
        BY <1>2, <3>2
      <4>2. h[n] = g[n] /\ h[n - 1] = g[n - 1]
        BY <3>2, <4>1
      <4>3. g[n] = Step(g[n - 1], n)
        BY <1>7, <3>2, <4>1
      <4>4. QED
        BY <3>2, <4>2, <4>3
    <3>3. CASE n = k
      <4>1. k - 1 \in 0..k /\ k - 1 # k
        BY <1>2, <1>5
      <4>2. h[k - 1] = g[k - 1]
        BY <4>1
      <4>3. QED
        BY <1>4, <3>3, <4>2
    <3>4. QED
      BY <3>1, <3>2, <3>3
  <2>2. QED
    BY <2>1
<1>9. Named(h, line, k)
  BY <1>3, <1>8
<1>10. QED
  BY <1>2, <1>9

LEMMA NamesStep ==
    ASSUME NEW line \in Seq(Option \cup Text)
    PROVE  /\ names(line)[0] = << >>
           /\ \A n \in 1..Len(line) :
                 names(line)[n] =
                   IF n \in Word(line) /\ line[n] \in Text
                     THEN Append(names(line)[n - 1], [id |-> upper[line[n]], name |-> lower[line[n]]])
                     ELSE names(line)[n - 1]
<1>1. Len(line) \in Nat
  OBVIOUS
<1>2. Named(names(line), line, Len(line))
  BY <1>1, NamedExists DEF names
<1> DEFINE g == names(line)
<1> HIDE DEF g
<1>3. Named(g, line, Len(line))
  BY <1>2 DEF g
<1>4. /\ g[0] = << >>
      /\ \A n \in 1..Len(line) :
            g[n] = IF n \in Word(line) /\ line[n] \in Text
                     THEN Append(g[n - 1], [id |-> upper[line[n]], name |-> lower[line[n]]])
                     ELSE g[n - 1]
  <2>1. \A n \in 0..Len(line) :
           g[n] = IF n = 0 THEN << >>
                  ELSE IF n \in Word(line) /\ line[n] \in Text
                    THEN Append(g[n - 1], [id |-> upper[line[n]], name |-> lower[line[n]]])
                    ELSE g[n - 1]
    BY <1>3, Zenon DEF Named
  <2>2. 0 \in 0..Len(line) /\ \A n \in 1..Len(line) : n \in 0..Len(line) /\ n # 0
    BY <1>1
  <2>3. QED
    BY <2>1, <2>2, Zenon
<1>5. QED
  BY <1>4 DEF g

(* A word that is no --config is followed by a word, and says what it says. *)
LEMMA ReadWord ==
    ASSUME NEW line \in Seq(Option \cup Text), NEW m \in 1..Len(line),
           ~IsValue(line, m), line[m] # "--config"
    PROVE  /\ ~IsValue(line, m + 1)
           /\ Path(line, m + 1) = Path(line, m)
           /\ IsVerbose(line, m + 1) <=> IsVerbose(line, m) \/ line[m] = "--verbose"
           /\ names(line)[m] =
                IF line[m] \in Text
                  THEN Append(names(line)[m - 1], [id |-> upper[line[m]], name |-> lower[line[m]]])
                  ELSE names(line)[m - 1]
<1>1. m \in Word(line) /\ m \in Nat \ {0}
  BY DEF Word
<1>2. ~IsValue(line, m + 1)
  BY <1>1, ValueNext
<1>3. Values(line, m + 1) = Values(line, m)
  <2>1. \A j \in 1..(m + 1 - 1) : j = m \/ j \in 1..(m - 1)
    BY <1>1
  <2>2. \A j \in 1..(m - 1) : j \in 1..(m + 1 - 1)
    BY <1>1
  <2>3. QED
    BY <2>1, <2>2 DEF Values
<1>4. Path(line, m + 1) = Path(line, m)
  BY <1>3 DEF Path
<1>5. IsVerbose(line, m + 1) <=> IsVerbose(line, m) \/ line[m] = "--verbose"
  <2>1. \A j \in Word(line) : j < m + 1 <=> j < m \/ j = m
    BY <1>1 DEF Word
  <2>2. QED
    BY <1>1, <2>1 DEF IsVerbose
<1>6. QED
  BY <1>1, <1>2, <1>4, <1>5, NamesStep

(* A --config is followed by its value and then by a word; the value is     *)
(* the path.                                                               *)
LEMMA ReadConfig ==
    ASSUME NEW line \in Seq(Option \cup Text), NEW m \in 1..Len(line), m + 1 <= Len(line),
           ~IsValue(line, m), line[m] = "--config"
    PROVE  /\ ~IsValue(line, m + 2)
           /\ m + 1 \notin Word(line)
           /\ Path(line, m + 2) = line[m + 1]
           /\ IsVerbose(line, m + 2) <=> IsVerbose(line, m)
           /\ names(line)[m + 1] = names(line)[m - 1]
<1>1. m \in Word(line) /\ m \in Nat \ {0} /\ m + 1 \in 1..Len(line) /\ m + 1 \in Nat \ {0}
  BY DEF Word
<1>2. IsValue(line, m + 1) /\ m + 1 \notin Word(line)
  BY <1>1, ValueNext DEF Word
<1>3. ~IsValue(line, m + 2)
  <2>1. m + 1 + 1 = m + 2
    BY <1>1
  <2>2. ~IsValue(line, m + 1 + 1)
    BY <1>1, <1>2, ValueNext
  <2>3. QED
    BY <2>1, <2>2
<1>4. Last(Values(line, m + 2)) = m + 1 /\ Values(line, m + 2) # {}
  <2>1. m + 1 \in Values(line, m + 2) /\ \A k \in Values(line, m + 2) : k <= m + 1 /\ k \in Nat
    BY <1>1, <1>2 DEF Values
  <2>2. ASSUME NEW j \in Values(line, m + 2), \A k \in Values(line, m + 2) : k <= j
        PROVE  j = m + 1
    BY <1>1, <2>1, <2>2
  <2>3. QED
    BY <2>1, <2>2 DEF Last
<1>5. IsVerbose(line, m + 2) <=> IsVerbose(line, m)
  <2>1. \A j \in Word(line) : j < m + 2 <=> j < m \/ j = m \/ j = m + 1
    BY <1>1 DEF Word
  <2>2. QED
    BY <1>1, <1>2, <2>1 DEF IsVerbose
<1>6. names(line)[m + 1] = names(line)[m - 1]
  <2>1. names(line)[m] = names(line)[m - 1]
    BY <1>1, NamesStep, TextAssumption DEF Option
  <2>2. names(line)[m + 1] = names(line)[m + 1 - 1]
    <3> DEFINE n == m + 1
    <3>1. n \in 1..Len(line) /\ n \notin Word(line)
      BY <1>1, <1>2
    <3> HIDE DEF n
    <3>2. names(line)[n] = names(line)[n - 1]
      BY <3>1, NamesStep
    <3>3. QED
      BY <3>2 DEF n
  <2>3. m + 1 - 1 = m
    BY <1>1
  <2>4. QED
    BY <2>1, <2>2, <2>3
<1>7. QED
  BY <1>2, <1>3, <1>4, <1>5, <1>6 DEF Path

(* What the parser keeps of an exchange. *)
Entry == {[id |-> upper[t], name |-> lower[t]] : t \in Text}

LEMMA NamesType ==
    ASSUME NEW line \in Seq(Option \cup Text)
    PROVE  \A n \in 0..Len(line) : names(line)[n] \in Seq(Entry)
<1> DEFINE Bad == {n \in 0..Len(line) : names(line)[n] \notin Seq(Entry)}
<1>1. SUFFICES ASSUME Bad # {} PROVE FALSE
  OBVIOUS
<1>2. Bad \subseteq Nat /\ Len(line) \in Nat
  OBVIOUS
<1>3. PICK k \in Bad : \A l \in Bad : k <= l
  BY <1>1, <1>2, Least
<1>4. k # 0
  <2>1. << >> \in Seq(Entry)
    OBVIOUS
  <2>2. QED
    BY <1>3, <2>1, NamesStep
<1>5. k \in 1..Len(line) /\ k - 1 \in 0..Len(line) /\ k - 1 \notin Bad
  BY <1>2, <1>3, <1>4
<1>6. names(line)[k - 1] \in Seq(Entry)
  BY <1>5
<1>7. names(line)[k] \in Seq(Entry)
  <2> DEFINE entry == [id |-> upper[line[k]], name |-> lower[line[k]]]
  <2>1. line[k] \in Text => entry \in Entry
    BY DEF Entry
  <2>2. \/ names(line)[k] = names(line)[k - 1]
        \/ line[k] \in Text /\ names(line)[k] = Append(names(line)[k - 1], entry)
    BY <1>5, NamesStep
  <2>3. \A q \in Seq(Entry), e \in Entry : Append(q, e) \in Seq(Entry)
    OBVIOUS
  <2> HIDE DEF entry
  <2>4. QED
    BY <1>6, <2>1, <2>2, <2>3, Zenon
<1>8. QED
  BY <1>3, <1>7

LEMMA ReadingType ==
    ASSUME NEW line \in Seq(Option \cup Text)
    PROVE  /\ Reading(line).exchanges \in Seq(Entry)
           /\ Len(Reading(line).exchanges) \in Nat
<1>1. Len(line) \in 0..Len(line) /\ Len(line) + 1 - 1 = Len(line)
  OBVIOUS
<1>2. Reading(line).exchanges = names(line)[Len(line)]
  BY <1>1, ReadBeforeIs DEF Reading
<1>3. Reading(line).exchanges \in Seq(Entry)
  BY <1>1, <1>2, NamesType
<1>4. QED
  BY <1>3

(***************************************************************************)
(* The verdict on a command line                                           *)
(***************************************************************************)
(* No word before the m-th argument ends the program. *)
Good(line, m) ==
    \A k \in Word(line) : k < m => line[k] # "--help" /\ ~IsWrong(line, k)

LEMMA HelpAsked ==
    ASSUME NEW line, NEW m \in Word(line), Good(line, m), line[m] = "--help"
    PROVE  AsksForHelp(line)
BY DEF AsksForHelp, Ends, Good

LEMMA WrongIsRefused ==
    ASSUME NEW line \in Seq(Option \cup Text), NEW m \in Word(line), Good(line, m), IsWrong(line, m)
    PROVE  IsRefused(line) /\ ~AsksForHelp(line)
<1>1. line[m] # "--help"
  BY TextAssumption DEF IsWrong, Option
<1>2. IsRefused(line)
  BY <1>1 DEF IsRefused, Ends, Good
<1>3. ASSUME NEW j \in Word(line), Ends(line, j), line[j] = "--help" PROVE FALSE
  <2>1. j \in Nat /\ m \in Nat
    BY DEF Word
  <2>2. CASE j < m
    BY <1>3, <2>2 DEF Good
  <2>3. CASE m < j
    BY <1>3, <2>3 DEF Ends
  <2>4. CASE j = m
    BY <1>1, <1>3, <2>4
  <2>5. QED
    BY <2>1, <2>2, <2>3, <2>4
<1>4. QED
  BY <1>2, <1>3 DEF AsksForHelp

LEMMA GoodToTheEnd ==
    ASSUME NEW line \in Seq(Option \cup Text), Good(line, Len(line) + 1)
    PROVE  ~IsRefused(line) /\ ~AsksForHelp(line)
<1>1. \A j \in Word(line) : j < Len(line) + 1
  BY DEF Word
<1>2. QED
  BY <1>1 DEF Good, IsRefused, AsksForHelp, Ends

(* One word on. *)
LEMMA GoodNext ==
    ASSUME NEW line \in Seq(Option \cup Text), NEW m \in 1..Len(line), Good(line, m),
           line[m] # "--help", ~IsWrong(line, m)
    PROVE  /\ Good(line, m + 1)
           /\ m + 1 \notin Word(line) => Good(line, m + 2)
<1>1. \A j \in Word(line) : j \in Nat /\ (j < m + 1 <=> j < m \/ j = m)
                            /\ (j < m + 2 <=> j < m \/ j = m \/ j = m + 1)
  BY DEF Word
<1>2. QED
  BY <1>1 DEF Good

(***************************************************************************)
(* The parser                                                              *)
(***************************************************************************)
Parsed  == {"counting", "loading", "loaded", "spawning", "connecting", "serving",
            "running", "aborted"}
Counted == Parsed \ {"counting"}

ParseInv ==
    /\ program \in Program
    /\ argv \in Seq(Option \cup Text)
    /\ stage \in Parsed \cup {"parsing", "success", "failure"}
    /\ stage = "parsing" =>
          /\ i \in 1..(Len(argv) + 1)
          /\ ~IsValue(argv, i)
          /\ Good(argv, i)
          /\ arguments = ReadBefore(argv, i)
    /\ stage = "success" => AsksForHelp(argv)
    /\ stage = "failure" => ~AsksForHelp(argv) /\ ~IsUsable(program, argv)
    /\ stage \in Parsed =>
          /\ Good(argv, Len(argv) + 1)
          /\ arguments = Reading(argv)
          /\ arguments.configPath # ""
    /\ stage \in Counted => IsUsable(program, argv)

LEMMA ParseInitInv == Init => ParseInv
<1> SUFFICES ASSUME Init PROVE ParseInv
  OBVIOUS
<1>1. argv \in Seq(Option \cup Text)
  <2>1. PICK n \in 0..MaxArguments : argv \in [1..n -> Option \cup Text]
    BY DEF Init
  <2> DEFINE S == Option \cup Text
  <2>2. n \in Nat /\ argv \in [1..n -> S]
    BY <2>1, NumbersAssumption
  <2> HIDE DEF S
  <2>3. argv \in Seq(S)
    BY <2>2
  <2>4. QED
    BY <2>3 DEF S
<1>2. i = 1 /\ 1 \in 1..(Len(argv) + 1) /\ ~IsValue(argv, 1)
  BY <1>1, FirstIsWord DEF Init
<1>3. Good(argv, 1)
  BY <1>1 DEF Good, Word
<1>4. arguments = ReadBefore(argv, 1)
  <2>1. Path(argv, 1) = ""
    <3>1. Values(argv, 1) = {}
      BY DEF Values
    <3>2. QED
      BY <3>1 DEF Path
  <2>2. IsVerbose(argv, 1) = FALSE
    BY <1>1 DEF IsVerbose, Word
  <2>3. names(argv)[1 - 1] = << >>
    BY <1>1, NamesStep
  <2>4. arguments = [configPath |-> Path(argv, 1), verbose |-> IsVerbose(argv, 1),
                     exchanges |-> names(argv)[1 - 1]]
    BY <2>1, <2>2, <2>3 DEF Init, NoArguments
  <2>5. QED
    BY <2>4, ReadBeforeIs
<1>5. QED
  BY <1>1, <1>2, <1>3, <1>4 DEF Init, ParseInv, Parsed, Counted

(* The program is told off with an error. *)
LEMMA FailureInv ==
    ASSUME ParseInv, PrintUsageAndExit("failure"),
           ~AsksForHelp(argv), ~IsUsable(program, argv)
    PROVE  ParseInv'
BY DEF ParseInv, PrintUsageAndExit, afterParsing, Parsed, Counted

(* A word of the command line that is wrong. *)
LEMMA WrongInv ==
    ASSUME ParseInv, Parsing, IsWrong(argv, i), PrintUsageAndExit("failure")
    PROVE  ParseInv'
<1>1. i \in Word(argv) /\ Good(argv, i) /\ argv \in Seq(Option \cup Text)
  BY DEF ParseInv, Parsing, Word
<1>2. IsRefused(argv) /\ ~AsksForHelp(argv)
  BY <1>1, WrongIsRefused
<1>3. QED
  BY <1>2, FailureInv DEF IsUsable

(* The parser goes on. *)
LEMMA OnwardInv ==
    ASSUME ParseInv, Parsing, UNCHANGED <<stage, afterParsing>>,
           i' \in 1..(Len(argv) + 1), ~IsValue(argv, i'), Good(argv, i'),
           arguments' = [configPath |-> Path(argv, i'), verbose |-> IsVerbose(argv, i'),
                         exchanges |-> names(argv)[i' - 1]]
    PROVE  ParseInv'
<1>1. arguments' = ReadBefore(argv, i')
  BY ReadBeforeIs
<1>2. argv' = argv /\ program' = program /\ stage' = "parsing"
  BY DEF afterParsing, Parsing
<1>3. QED
  BY <1>1, <1>2 DEF ParseInv, Parsed, Counted

LEMMA ParseNextInv == ParseInv /\ [Next]_vars => ParseInv'
<1> SUFFICES ASSUME ParseInv, [Next]_vars PROVE ParseInv'
  OBVIOUS
<1>0. argv \in Seq(Option \cup Text)
  BY DEF ParseInv
<1>1. ASSUME Parsing
      PROVE  /\ i \in 1..Len(argv) /\ ~IsValue(argv, i) /\ Good(argv, i)
             /\ i \in Word(argv)
             /\ arguments = [configPath |-> Path(argv, i), verbose |-> IsVerbose(argv, i),
                             exchanges |-> names(argv)[i - 1]]
  <2>1. /\ i \in DOMAIN argv /\ ~IsValue(argv, i) /\ Good(argv, i)
        /\ arguments = ReadBefore(argv, i)
    BY <1>1 DEF ParseInv, Parsing
  <2>2. i \in 1..Len(argv)
    BY <1>0, <2>1
  <2>3. i \in Word(argv)
    BY <2>1 DEF Word
  <2>4. QED
    BY <2>1, <2>2, <2>3, ReadBeforeIs
<1>2. CASE ParseConfig
  <2>1. Parsing /\ argv[i] = "--config"
    BY <1>2 DEF ParseConfig
  <2>2. CASE i + 1 > Len(argv)
    <3>1. IsWrong(argv, i)
      BY <1>0, <1>1, <2>1, <2>2 DEF IsWrong
    <3>2. QED
      BY <1>2, <2>1, <2>2, <3>1, WrongInv DEF ParseConfig
  <2>3. CASE ~(i + 1 > Len(argv))
    <3>1. i + 1 <= Len(argv) /\ i + 2 \in 1..(Len(argv) + 1) /\ i + 2 - 1 = i + 1
      BY <1>0, <1>1, <2>1, <2>3
    <3>2. /\ ~IsValue(argv, i + 2)
          /\ i + 1 \notin Word(argv)
          /\ Path(argv, i + 2) = argv[i + 1]
          /\ IsVerbose(argv, i + 2) <=> IsVerbose(argv, i)
          /\ names(argv)[i + 1] = names(argv)[i - 1]
      BY <1>0, <1>1, <2>1, <3>1, ReadConfig
    <3>3. Good(argv, i + 2)
      <4>1. argv[i] # "--help" /\ ~IsWrong(argv, i)
        <5>1. argv[i] \notin Text
          BY <2>1, TextAssumption DEF Option
        <5>2. i # Len(argv)
          BY <1>0, <1>1, <2>1, <3>1
        <5>3. QED
          BY <2>1, <5>1, <5>2 DEF IsWrong
      <4>2. QED
        BY <1>0, <1>1, <2>1, <3>2, <4>1, GoodNext
    <3>4. /\ i' = i + 2 /\ UNCHANGED <<stage, afterParsing>>
          /\ arguments' = [arguments EXCEPT !.configPath = argv[i + 1]]
      BY <1>2, <2>3 DEF ParseConfig
    <3>5. (IsVerbose(argv, i + 2)) = IsVerbose(argv, i)
      BY <3>2 DEF IsVerbose
    <3>6. arguments' = [configPath |-> Path(argv, i'), verbose |-> IsVerbose(argv, i'),
                        exchanges |-> names(argv)[i' - 1]]
      BY <1>1, <2>1, <3>1, <3>2, <3>4, <3>5
    <3>7. QED
      BY <2>1, <3>1, <3>2, <3>3, <3>4, <3>6, OnwardInv
  <2>4. QED
    BY <2>2, <2>3
<1>3. ASSUME Parsing, argv[i] # "--config", argv[i] # "--help", ~IsWrong(argv, i)
      PROVE  /\ i + 1 \in 1..(Len(argv) + 1) /\ i + 1 - 1 = i
             /\ ~IsValue(argv, i + 1) /\ Good(argv, i + 1)
             /\ Path(argv, i + 1) = Path(argv, i)
             /\ IsVerbose(argv, i + 1) <=> IsVerbose(argv, i) \/ argv[i] = "--verbose"
             /\ names(argv)[i] =
                  IF argv[i] \in Text
                    THEN Append(names(argv)[i - 1], [id |-> upper[argv[i]], name |-> lower[argv[i]]])
                    ELSE names(argv)[i - 1]
  <2>1. i + 1 \in 1..(Len(argv) + 1) /\ i + 1 - 1 = i
    BY <1>0, <1>1, <1>3
  <2>2. Good(argv, i + 1)
    BY <1>0, <1>1, <1>3, GoodNext
  <2>3. QED
    BY <1>0, <1>1, <1>3, <2>1, <2>2, ReadWord
<1>4. CASE ParseVerbose
  <2>1. /\ Parsing /\ argv[i] = "--verbose" /\ i' = i + 1 /\ UNCHANGED <<stage, afterParsing>>
        /\ arguments' = [arguments EXCEPT !.verbose = TRUE]
    BY <1>4 DEF ParseVerbose
  <2>2. argv[i] \notin Text /\ ~IsWrong(argv, i) /\ argv[i] # "--config" /\ argv[i] # "--help"
    BY <2>1, TextAssumption DEF IsWrong, Option
  <2>3. IsVerbose(argv, i + 1) = TRUE
    BY <1>3, <2>1, <2>2 DEF IsVerbose
  <2>4. arguments' = [configPath |-> Path(argv, i'), verbose |-> IsVerbose(argv, i'),
                      exchanges |-> names(argv)[i' - 1]]
    <3>1. Path(argv, i') = Path(argv, i) /\ IsVerbose(argv, i') = TRUE
      BY <1>3, <2>1, <2>2, <2>3
    <3>2. names(argv)[i' - 1] = names(argv)[i - 1]
      <4>1. names(argv)[i] = names(argv)[i - 1]
        BY <1>3, <2>1, <2>2
      <4>2. i \in Int /\ i' = i + 1
        BY <1>1, <2>1
      <4>3. i' - 1 = i
        BY <4>2
      <4>4. QED
        BY <4>1, <4>3
    <3>3. arguments = [configPath |-> Path(argv, i), verbose |-> IsVerbose(argv, i),
                       exchanges |-> names(argv)[i - 1]]
      BY <1>1, <2>1
    <3>4. QED
      BY <2>1, <3>1, <3>2, <3>3
  <2>5. QED
    BY <1>3, <2>1, <2>2, <2>4, OnwardInv
<1>5. CASE ParseHelp
  <2>1. AsksForHelp(argv)
    BY <1>1, <1>5, HelpAsked DEF ParseHelp
  <2>2. QED
    BY <1>5, <2>1 DEF ParseHelp, PrintUsageAndExit, ParseInv, afterParsing, Parsed, Counted
<1>6. CASE ParseUnknown
  BY <1>6, WrongInv DEF ParseUnknown, IsWrong
<1>7. CASE ParseExchange
  <2>1. Parsing /\ argv[i] \in Text
    BY <1>7 DEF ParseExchange
  <2>2. CASE upper[argv[i]] \notin Exchange
    <3>1. IsWrong(argv, i)
      BY <2>1, <2>2 DEF IsWrong
    <3>2. QED
      BY <1>7, <2>1, <2>2, <3>1, WrongInv DEF ParseExchange
  <2>3. CASE upper[argv[i]] \in Exchange
    <3> DEFINE entry == [id |-> upper[argv[i]], name |-> lower[argv[i]]]
    <3>1. /\ i' = i + 1 /\ UNCHANGED <<stage, afterParsing>>
          /\ arguments' = [arguments EXCEPT !.exchanges = Append(arguments.exchanges, entry)]
      BY <1>7, <2>3 DEF ParseExchange
    <3>2. argv[i] \notin Option /\ ~IsWrong(argv, i) /\ argv[i] # "--config" /\ argv[i] # "--help"
          /\ argv[i] # "--verbose"
      BY <2>1, <2>3, TextAssumption DEF IsWrong, Option
    <3> HIDE DEF entry
    <3>3. (IsVerbose(argv, i + 1)) = IsVerbose(argv, i)
      BY <1>3, <2>1, <3>2 DEF IsVerbose
    <3>4. names(argv)[i] = Append(names(argv)[i - 1], entry)
      BY <1>3, <2>1, <3>2 DEF entry
    <3>5. arguments' = [configPath |-> Path(argv, i'), verbose |-> IsVerbose(argv, i'),
                        exchanges |-> names(argv)[i' - 1]]
      <4>1. Path(argv, i') = Path(argv, i) /\ IsVerbose(argv, i') = IsVerbose(argv, i)
        BY <1>3, <2>1, <3>1, <3>2, <3>3
      <4>2. names(argv)[i' - 1] = Append(names(argv)[i - 1], entry)
        <5>1. i \in Int /\ i' = i + 1
          BY <1>1, <2>1, <3>1
        <5>2. i' - 1 = i
          BY <5>1
        <5>3. QED
          BY <3>4, <5>2
      <4>3. arguments = [configPath |-> Path(argv, i), verbose |-> IsVerbose(argv, i),
                         exchanges |-> names(argv)[i - 1]]
        BY <1>1, <2>1
      <4>4. QED
        BY <3>1, <4>1, <4>2, <4>3
    <3>6. QED
      BY <1>3, <2>1, <3>1, <3>2, <3>5, OnwardInv
  <2>4. QED
    BY <2>2, <2>3
<1>8. CASE ParseEnd
  <2>1. stage = "parsing" /\ i = Len(argv) + 1 /\ arguments = Reading(argv) /\ Good(argv, Len(argv) + 1)
    <3>1. /\ stage = "parsing" /\ i \notin DOMAIN argv /\ i \in 1..(Len(argv) + 1)
          /\ arguments = ReadBefore(argv, i) /\ Good(argv, i)
      BY <1>8 DEF ParseEnd, ParseInv
    <3>2. i = Len(argv) + 1
      BY <1>0, <3>1
    <3>3. QED
      BY <3>1, <3>2 DEF Reading
  <2>2. ~IsRefused(argv) /\ ~AsksForHelp(argv)
    BY <1>0, <2>1, GoodToTheEnd
  <2>3. CASE arguments.configPath = ""
    BY <1>8, <2>1, <2>2, <2>3, FailureInv DEF ParseEnd, IsUsable
  <2>4. CASE arguments.configPath # ""
    BY <1>8, <2>1, <2>4 DEF ParseEnd, ParseInv, afterParsing, Parsed, Counted
  <2>5. QED
    BY <2>3, <2>4
<1>9. CASE AssertExchangeCount
  <2> DEFINE count == Len(arguments.exchanges)
             right == CASE program = "aggregator" -> countIsRight(count, 0, MaxExchanges)
                        [] program = "viewer"     -> countIsRight(count, 1, 0)
                        [] OTHER                  -> countIsRight(count, 0, 0)
  <2>1. /\ stage = "counting" /\ arguments = Reading(argv) /\ Good(argv, Len(argv) + 1)
        /\ arguments.configPath # ""
    BY <1>9 DEF AssertExchangeCount, ParseInv, Parsed
  <2>2. ~IsRefused(argv) /\ ~AsksForHelp(argv)
    BY <1>0, <2>1, GoodToTheEnd
  <2>3. count \in Nat
    BY <1>0, <2>1, ReadingType
  <2>4. right <=> IsUsable(program, argv)
    <3>1. IsUsable(program, argv) <=>
            CASE program = "aggregator" -> count <= MaxExchanges
              [] program = "viewer"     -> count = 1
              [] OTHER                  -> count = 0
      BY <2>1, <2>2 DEF IsUsable
    <3> HIDE DEF count
    <3>2. CASE program = "aggregator"
      BY <2>3, <3>1, <3>2, NumbersAssumption DEF countIsRight
    <3>3. CASE program = "viewer"
      BY <2>3, <3>1, <3>3 DEF countIsRight
    <3>4. CASE program # "aggregator" /\ program # "viewer"
      BY <2>3, <3>1, <3>4 DEF countIsRight
    <3>5. QED
      BY <3>2, <3>3, <3>4
  <2>5. CASE right
    BY <1>9, <2>1, <2>4, <2>5
       DEF AssertExchangeCount, ParseInv, afterParsing, Parsed, Counted
  <2>6. CASE ~right
    BY <1>9, <2>2, <2>4, <2>6, FailureInv DEF AssertExchangeCount
  <2>7. QED
    BY <2>5, <2>6
<1>10. ASSUME UNCHANGED <<program, argv, arguments>>, stage \in Counted, stage' \in Counted
       PROVE  ParseInv'
  BY <1>10 DEF ParseInv, Parsed, Counted
<1>11. CASE LoadConfig \/ LoadConfigThrows \/ Instantiate \/ Spawn \/ Connect \/ ConnectThrows
            \/ Run \/ Serve \/ Stream
  BY <1>10, <1>11 DEF LoadConfig, LoadConfigThrows, Instantiate, Spawn, Connect, ConnectThrows,
                      Run, Serve, Stream, Parsed, Counted, ParseInv, Program
<1>12. CASE UNCHANGED vars
  BY <1>12 DEF vars, ParseInv
<1>13. QED
  BY <1>2, <1>4, <1>5, <1>6, <1>7, <1>8, <1>9, <1>11, <1>12 DEF Next, Parse

(* The parser understands a command line the way a reader does: the last    *)
(* --config counts and takes the next argument whatever it looks like, and  *)
(* the first word that asks for help or is wrong decides.                  *)
THEOREM ParserIsRight == Spec => []ParsedAsRead
<1>1. ParseInv => ParsedAsRead
  BY DEF ParseInv, ParsedAsRead, Parsed
<1>2. QED
  BY <1>1, ParseInitInv, ParseNextInv, PTL DEF Spec

(***************************************************************************)
(* The configuration, the display and the work                             *)
(***************************************************************************)
Early == {"parsing", "success", "failure", "counting", "loading"}

Wanted(line) == Reading(line).exchanges

Ids(line) == [k \in DOMAIN Wanted(line) |-> Wanted(line)[k].id]

(* The sessions made so far are those of the first exchanges, which the     *)
(* configuration has.                                                      *)
Begun ==
    /\ Len(sessions) <= Len(Wanted(argv))
    /\ \A k \in 1..Len(sessions) :
          sessions[k] = Wanted(argv)[k].id /\ Wanted(argv)[k].name \in file.exchanges

WorkInv ==
    /\ sessions \in Seq({e.id : e \in Entry})
    /\ stage \in Early =>
          file = Unread /\ display = "none" /\ threads = {} /\ sessions = << >>
    /\ stage \in {"loaded", "spawning", "connecting", "serving"} => file \in Configuration
    /\ stage = "loaded" => display = "none" /\ threads = {} /\ sessions = << >>
    /\ stage = "spawning" => program = "aggregator" /\ sessions = << >>
    /\ stage = "connecting" => program \in {"aggregator", "viewer"} /\ Begun
    /\ stage = "serving" =>
          program \in {"internal-exchange", "subscriber"} /\ threads = {} /\ sessions = << >>
    /\ stage = "running" => IsComplete /\ sessions = Ids(argv)
    /\ stage = "aborted" =>
          /\ ~IsComplete
          /\ threads # {} => \E k \in DOMAIN Wanted(argv) :
                 Wanted(argv)[k].name \notin file.exchanges /\ Len(sessions) = k - 1

LEMMA ConfigurationIsNotUseless == \A f \in Configuration : f # Useless
<1> SUFFICES ASSUME NEW f \in Configuration, f = Useless PROVE FALSE
  OBVIOUS
<1>1. DOMAIN f = {"verbose", "exchanges", "usable"}
  BY DEF Configuration
<1>2. DOMAIN f = {"state"}
  BY DEF Useless
<1>3. QED
  BY <1>1, <1>2

LEMMA WorkInitInv == Init => WorkInv
<1> SUFFICES ASSUME Init PROVE WorkInv
  OBVIOUS
<1>1. << >> \in Seq({e.id : e \in Entry})
  OBVIOUS
<1>2. QED
  BY <1>1 DEF Init, WorkInv, Early

LEMMA WorkNextInv == ParseInv /\ WorkInv /\ [Next]_vars => WorkInv'
<1> SUFFICES ASSUME ParseInv, WorkInv, [Next]_vars PROVE WorkInv'
  OBVIOUS
<1> DEFINE wanted == Wanted(argv)
<1>1. /\ argv \in Seq(Option \cup Text) /\ program \in Program
      /\ wanted \in Seq(Entry) /\ Len(wanted) \in Nat /\ DOMAIN wanted = 1..Len(wanted)
      /\ sessions \in Seq({e.id : e \in Entry}) /\ Len(sessions) \in Nat
  <2> DEFINE S == Entry  T == {e.id : e \in Entry}
  <2>1. argv \in Seq(Option \cup Text) /\ program \in Program
    BY DEF ParseInv
  <2>2. wanted \in Seq(S)
    BY <2>1, ReadingType DEF Wanted
  <2>3. sessions \in Seq(T)
    BY DEF WorkInv
  <2> HIDE DEF wanted, S, T
  <2>4. Len(wanted) \in Nat /\ DOMAIN wanted = 1..Len(wanted)
    BY <2>2
  <2>5. Len(sessions) \in Nat
    BY <2>3
  <2>6. QED
    BY <2>1, <2>2, <2>3, <2>4, <2>5 DEF S, T
<1> HIDE DEF wanted
<1>2. CASE Parse \/ AssertExchangeCount
  <2>1. /\ stage \in Early /\ stage' \in Early
        /\ UNCHANGED <<program, argv, file, display, threads, sessions>>
    BY <1>2 DEF Parse, ParseConfig, ParseVerbose, ParseHelp, ParseUnknown, ParseExchange, ParseEnd,
                AssertExchangeCount, Parsing, PrintUsageAndExit, afterParsing, Early
  <2>2. QED
    BY <2>1 DEF WorkInv, Early
<1>3. CASE LoadConfig
  <2>1. Configuration' = Configuration
    BY <1>3 DEF LoadConfig, Configuration
  <2>2. QED
    BY <1>1, <1>3, <2>1 DEF LoadConfig, WorkInv, Early
<1>4. CASE LoadConfigThrows
  <2>1. stage' = "aborted" /\ file' = Useless /\ threads' = {} /\ sessions' = sessions
    BY <1>4 DEF LoadConfigThrows, WorkInv, Early
  <2>2. ~IsComplete'
    BY <2>1 DEF IsComplete
  <2>3. QED
    BY <1>1, <2>1, <2>2 DEF WorkInv, Early
<1>5. CASE Instantiate
  <2>1. /\ stage = "loaded" /\ UNCHANGED <<program, argv, file, threads, sessions>>
        /\ threads = {} /\ sessions = << >> /\ file \in Configuration
    BY <1>5 DEF Instantiate, WorkInv
  <2>2. Configuration' = Configuration
    BY <2>1 DEF Configuration
  <2>3. Begun'
    <3>1. Len(<< >>) = 0 /\ 1..0 = {}
      OBVIOUS
    <3>2. sessions' = << >> /\ Wanted(argv)' = wanted
      BY <2>1 DEF wanted
    <3>3. QED
      BY <1>1, <3>1, <3>2 DEF Begun
  <2>4. CASE program = "aggregator"
    BY <1>1, <1>5, <2>1, <2>2, <2>4 DEF Instantiate, WorkInv, Early
  <2>5. CASE program = "viewer"
    BY <1>1, <1>5, <2>1, <2>2, <2>3, <2>5 DEF Instantiate, WorkInv, Early
  <2>6. CASE program \notin {"aggregator", "viewer"}
    BY <1>1, <1>5, <2>1, <2>2, <2>6 DEF Instantiate, WorkInv, Early, Program
  <2>7. QED
    BY <2>4, <2>5, <2>6
<1>6. CASE Spawn
  <2>1. /\ stage = "spawning" /\ stage' = "connecting"
        /\ UNCHANGED <<program, argv, file, sessions>>
        /\ program = "aggregator" /\ sessions = << >> /\ file \in Configuration
    BY <1>6 DEF Spawn, WorkInv
  <2>2. Configuration' = Configuration
    BY <2>1 DEF Configuration
  <2>3. Begun'
    <3>1. Len(<< >>) = 0 /\ 1..0 = {}
      OBVIOUS
    <3>2. sessions' = << >> /\ Wanted(argv)' = wanted
      BY <2>1 DEF wanted
    <3>3. QED
      BY <1>1, <3>1, <3>2 DEF Begun
  <2>4. QED
    BY <1>1, <2>1, <2>2, <2>3 DEF WorkInv, Early
<1>7. CASE Connect
  <2> DEFINE e == Unconnected
             n == Len(sessions) + 1
  <2>1. /\ stage = "connecting" /\ stage' = stage /\ Len(sessions) < Len(wanted)
        /\ e = wanted[n] /\ e.name \in file.exchanges /\ sessions' = Append(sessions, e.id)
        /\ UNCHANGED <<program, argv, file>>
    BY <1>7 DEF Connect, Unconnected, ParseInv, Parsed, wanted, Wanted
  <2>2. n \in 1..Len(wanted) /\ e \in Entry
    BY <1>1, <2>1
  <2> DEFINE S == {x.id : x \in Entry}
  <2>3. e.id \in S
    BY <2>2
  <2> HIDE DEF e, S
  <2>4. /\ sessions' \in Seq(S) /\ Len(sessions') = n /\ sessions'[n] = e.id
        /\ \A k \in 1..Len(sessions) : sessions'[k] = sessions[k]
    BY <1>1, <2>1, <2>3 DEF S
  <2>5. Begun'
    <3>1. \A k \in 1..n : k = n \/ k \in 1..Len(sessions)
      BY <1>1
    <3>2. Wanted(argv)' = wanted /\ n <= Len(wanted)
      BY <2>1, <2>2 DEF wanted
    <3>3. \A k \in 1..Len(sessions) : sessions[k] = wanted[k].id /\ wanted[k].name \in file.exchanges
      BY <2>1 DEF WorkInv, Begun, wanted
    <3>4. ASSUME NEW k \in 1..n
          PROVE  sessions'[k] = wanted[k].id /\ wanted[k].name \in file'.exchanges
      BY <2>1, <2>4, <3>1, <3>3
    <3>5. QED
      BY <2>4, <3>2, <3>4 DEF Begun
  <2>6. Configuration' = Configuration
    BY <2>1 DEF Configuration
  <2>7. QED
    BY <2>1, <2>4, <2>5, <2>6 DEF WorkInv, Early, S
<1>8. CASE ConnectThrows
  <2> DEFINE n == Len(sessions) + 1
  <2>1. /\ stage = "connecting" /\ stage' = "aborted" /\ Len(sessions) < Len(wanted)
        /\ wanted[n].name \notin file.exchanges
        /\ UNCHANGED <<program, argv, file, sessions, threads>>
    BY <1>8 DEF ConnectThrows, Unconnected, ParseInv, Parsed, wanted, Wanted
  <2>2. n \in DOMAIN wanted /\ Len(sessions) = n - 1
    BY <1>1, <2>1
  <2>3. ~IsComplete' /\ Wanted(argv)' = wanted
    BY <2>1, <2>2 DEF IsComplete, wanted, Wanted
  <2>4. QED
    BY <1>1, <2>1, <2>2, <2>3 DEF WorkInv, Early
<1>9. CASE Run
  <2>1. /\ stage = "connecting" /\ stage' = "running" /\ Len(sessions) = Len(wanted)
        /\ UNCHANGED <<program, argv, file, sessions>> /\ file \in Configuration
        /\ program \in {"aggregator", "viewer"} /\ Begun
    BY <1>9 DEF Run, ParseInv, Parsed, wanted, Wanted, WorkInv
  <2>2. \A k \in DOMAIN wanted : sessions[k] = wanted[k].id /\ wanted[k].name \in file.exchanges
    BY <1>1, <2>1 DEF Begun, wanted
  <2>3. file # Useless /\ file.usable
    BY <2>1, ConfigurationIsNotUseless DEF Configuration
  <2>4. IsComplete'
    BY <2>1, <2>2, <2>3 DEF IsComplete, wanted, Wanted
  <2>5. sessions' = Ids(argv')
    <3>1. sessions = [k \in 1..Len(sessions) |-> sessions[k]]
      BY <1>1
    <3>2. sessions = [k \in DOMAIN wanted |-> wanted[k].id]
      BY <1>1, <2>1, <2>2, <3>1
    <3>3. QED
      BY <2>1, <3>2 DEF Ids, wanted
  <2>6. QED
    BY <1>1, <2>1, <2>4, <2>5 DEF WorkInv, Early
<1>10. CASE Serve \/ Stream
  <2>1. /\ stage = "serving" /\ stage' \in {"running", "aborted"}
        /\ UNCHANGED <<program, argv, file, sessions, threads>> /\ file \in Configuration
        /\ program \in {"internal-exchange", "subscriber"} /\ threads = {} /\ sessions = << >>
    BY <1>10 DEF Serve, Stream, WorkInv
  <2>2. stage' = "running" <=> file.usable
    BY <1>10, <2>1 DEF Serve, Stream, Configuration
  <2>3. Len(wanted) = 0 /\ DOMAIN wanted = {}
    <3>1. IsUsable(program, argv)
      BY <2>1 DEF ParseInv, Parsed, Counted
    <3>2. Len(wanted) = 0
      BY <2>1, <3>1 DEF IsUsable, wanted, Wanted
    <3>3. QED
      BY <1>1, <3>2
  <2>4. file # Useless
    BY <2>1, ConfigurationIsNotUseless
  <2>5. IsComplete' <=> file.usable
    BY <2>1, <2>3, <2>4 DEF IsComplete, wanted, Wanted
  <2>6. sessions' = Ids(argv')
    <3>1. << >> = [k \in {} |-> wanted[k].id]
      OBVIOUS
    <3>2. QED
      BY <2>1, <2>3, <3>1 DEF Ids, wanted
  <2>7. QED
    BY <1>1, <2>1, <2>2, <2>5, <2>6 DEF WorkInv, Early
<1>11. CASE UNCHANGED vars
  BY <1>11 DEF vars, WorkInv, Begun, IsComplete, Configuration
<1>12. QED
  BY <1>2, <1>3, <1>4, <1>5, <1>6, <1>7, <1>8, <1>9, <1>10, <1>11 DEF Next

(* A program gets to work exactly when its command line is usable and its   *)
(* configuration has what it asks for, with the sessions in the order of    *)
(* the command line; it fails or aborts only when one of them is wrong.    *)
THEOREM StartsWhenRight == Spec => []RunsWhenRight
<1>1. ParseInv /\ WorkInv => RunsWhenRight
  BY DEF ParseInv, WorkInv, RunsWhenRight, Parsed, Counted, Early, Ids, Wanted
<1>2. QED
  BY <1>1, ParseInitInv, ParseNextInv, WorkInitInv, WorkNextInv, PTL DEF Spec

(* Debug messages are shown exactly when the command line or the            *)
(* configuration asks for them: the display is made after both are known.  *)
THEOREM DisplayIsRight == Spec => []VerboseIsHeard
<1>1. Init => VerboseIsHeard
  BY DEF Init, VerboseIsHeard
<1>2. ParseInv /\ WorkInv /\ VerboseIsHeard /\ [Next]_vars => VerboseIsHeard'
  <2> SUFFICES ASSUME ParseInv, WorkInv, VerboseIsHeard, [Next]_vars PROVE VerboseIsHeard'
    OBVIOUS
  <2>1. CASE UNCHANGED <<display, file, argv>>
    BY <2>1 DEF VerboseIsHeard
  <2>2. CASE LoadConfig \/ LoadConfigThrows
    BY <2>2 DEF LoadConfig, LoadConfigThrows, WorkInv, Early, VerboseIsHeard
  <2>3. CASE Instantiate
    <3>1. /\ display = "none" /\ arguments = Reading(argv) /\ UNCHANGED <<file, argv>>
          /\ display' = getInstance(display, file.verbose \/ arguments.verbose)
      BY <2>3 DEF Instantiate, WorkInv, ParseInv, Parsed
    <3>2. QED
      BY <3>1 DEF getInstance, VerboseIsHeard
  <2>4. QED
    BY <2>1, <2>2, <2>3
       DEF Next, Parse, ParseConfig, ParseVerbose, ParseHelp, ParseUnknown, ParseExchange, ParseEnd,
           AssertExchangeCount, PrintUsageAndExit, afterParsing, Spawn, Connect, ConnectThrows, Run,
           Serve, Stream, vars
<1>3. QED
  BY <1>1, <1>2, ParseInitInv, ParseNextInv, WorkInitInv, WorkNextInv, PTL DEF Spec

=============================================================================
