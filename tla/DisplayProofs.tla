--------------------------- MODULE DisplayProofs ---------------------------
(***************************************************************************)
(* Theorems about Display, for all sets of threads, every number of parts  *)
(* of a content and every number of calls.                                 *)
(***************************************************************************)
EXTENDS Display, TLAPS

(***************************************************************************)
(* Types                                                                   *)
(***************************************************************************)
LEMMA InitType == Init => TypeOK
BY ThreadsAssumption, PartsAssumption DEF Init, TypeOK

LEMMA NextType == TypeOK /\ [Next]_vars => TypeOK'
<1> SUFFICES ASSUME TypeOK, [Next]_vars PROVE TypeOK'
  OBVIOUS
<1> USE ThreadsAssumption, PartsAssumption DEF TypeOK
<1>1. ASSUME NEW t \in Threads, NEW level \in Level, Call(t, level) PROVE TypeOK'
  <2>1. calls' \in Seq([thread : Threads, level : Level])
    BY <1>1 DEF Call
  <2>2. content' \in [Threads -> Nat]
    <3>1. Len(calls) + 1 \in Nat
      OBVIOUS
    <3>2. QED
      BY <1>1, <3>1 DEF Call
  <2>3. pc' \in [Threads -> {"idle", "lock", "write"}]
    BY <1>1 DEF Call
  <2>4. QED
    BY <1>1, <2>1, <2>2, <2>3 DEF Call
<1>2. ASSUME NEW t \in Threads, Lock(t) PROVE TypeOK'
  BY <1>2 DEF Lock
<1>3. ASSUME NEW t \in Threads, Write(t) PROVE TypeOK'
  <2>1. written[t] + 1 \in 1..Parts /\ written[t] + 1 \in 0..Parts
    BY <1>3 DEF Write
  <2>2. out' \in Seq([call : Nat, part : 1..Parts])
    BY <1>3, <2>1 DEF Write
  <2>3. written' \in [Threads -> 0..Parts]
    BY <1>3, <2>1 DEF Write
  <2>4. QED
    BY <1>3, <2>2, <2>3 DEF Write
<1>4. ASSUME NEW t \in Threads, Unlock(t) PROVE TypeOK'
  BY <1>4 DEF Unlock
<1>5. CASE UNCHANGED vars
  BY <1>5 DEF vars
<1>6. QED
  BY <1>1, <1>2, <1>3, <1>4, <1>5 DEF Next

(* The type invariant of the display and the threads that use it. *)
THEOREM TypeCorrect == Spec => []TypeOK
BY InitType, NextType, PTL DEF Spec

(***************************************************************************)
(* The inductive invariant                                                 *)
(***************************************************************************)
(* A thread writes exactly while it holds the mutex. *)
Exclusive == \A t \in Threads : pc[t] = "write" <=> mutex = t

(* A thread prints its latest call, and only one that is to be seen. *)
Current ==
    \A t \in Threads :
        pc[t] # "idle" => /\ content[t] \in Expected(t)
                          /\ \A n \in Expected(t) : n <= content[t]

(* Everything on the stream comes from a call and is to be seen. *)
Legal ==
    \A k \in DOMAIN out :
        out[k].call \in DOMAIN calls /\ prints(calls[out[k].call].level)

(* The stream ends with the content of the owner of the mutex, as far as it *)
(* is written, behind whole contents only.                                 *)
Progress ==
    /\ mutex = NoThread => \E q \in Nat : Len(out) = Parts * q
    /\ \A t \in Threads :
          pc[t] = "write" =>
            /\ \E q \in Nat : Len(out) = Parts * q + written[t]
            /\ \A k \in DOMAIN out : k > Len(out) - written[t] => out[k].call = content[t]

(* Of the call a thread is in, exactly the parts are on the stream that it  *)
(* has written so far, and of its earlier calls all parts are.             *)
Printed ==
    \A t \in Threads :
        /\ pc[t] = "lock" => \A k \in DOMAIN out : out[k].call # content[t]
        /\ pc[t] = "write" =>
             /\ \A k \in DOMAIN out : out[k].call = content[t] => out[k].part <= written[t]
             /\ \A p \in 1..written[t] :
                   \E k \in DOMAIN out : out[k] = [call |-> content[t], part |-> p]
        /\ \A n \in Expected(t), p \in 1..Parts :
              pc[t] = "idle" \/ n # content[t] =>
                \E k \in DOMAIN out : out[k] = [call |-> n, part |-> p]

(* Each thread writes in the order of its calls and of their parts. *)
Ordered ==
    \A j, k \in DOMAIN out :
        /\ j < k
        /\ calls[out[j].call].thread = calls[out[k].call].thread
        => Before(out[j], out[k])

IInv ==
    TypeOK /\ Exclusive /\ Current /\ Legal /\ Progress /\ Printed /\ Ordered /\ ContentsAreWhole

LEMMA Elements == ASSUME NEW S, NEW s \in Seq(S) PROVE \A i \in DOMAIN s : i \in Nat /\ s[i] \in S
OBVIOUS

LEMMA ElementTypes ==
    ASSUME TypeOK
    PROVE  /\ \A k \in DOMAIN out : out[k].call \in Nat /\ out[k].part \in Nat
           /\ \A n \in DOMAIN calls : n \in Nat /\ calls[n].thread \in Threads
<1>1. \A k \in DOMAIN out : out[k] \in [call : Nat, part : 1..Parts]
  BY Elements DEF TypeOK
<1>2. \A n \in DOMAIN calls : calls[n] \in [thread : Threads, level : Level] /\ n \in Nat
  BY Elements DEF TypeOK
<1>3. QED
  BY <1>1, <1>2

LEMMA InitInv == Init => IInv
<1> SUFFICES ASSUME Init PROVE IInv
  OBVIOUS
<1>1. \A i \in DOMAIN << >> : FALSE
  OBVIOUS
<1>2. Len(<< >>) = 0 /\ 0 % Parts = 0 /\ Parts * 0 = 0
  BY PartsAssumption
<1>3. Exclusive /\ Current
  BY ThreadsAssumption DEF Init, Exclusive, Current
<1>4. out = << >> /\ calls = << >>
  BY DEF Init
<1>5. Legal /\ Ordered
  BY <1>1, <1>4, Zenon DEF Legal, Ordered
<1>6. Progress
  BY <1>2 DEF Init, Progress
<1>7. Printed
  <2>1. \A t : Expected(t) = {}
    BY <1>1, <1>4, Zenon DEF Expected
  <2>2. \A t \in Threads : pc[t] = "idle"
    BY DEF Init
  <2>3. QED
    BY <2>1, <2>2 DEF Printed
<1>8. ContentsAreWhole
  BY <1>1, <1>2, <1>4, Zenon DEF ContentsAreWhole
<1>9. QED
  BY <1>3, <1>5, <1>6, <1>7, <1>8, InitType DEF IInv

(***************************************************************************)
(* A call                                                                  *)
(***************************************************************************)
(* A call has the next number: nothing on the stream is affected, and the   *)
(* calls to be seen are those before and perhaps this one.                 *)
LEMMA CallFacts ==
    ASSUME IInv, NEW t \in Threads, NEW level \in Level, Call(t, level)
    PROVE  /\ UNCHANGED <<verbose, mutex, written, out>>
           /\ Len(calls) + 1 \notin DOMAIN calls
           /\ \A n \in DOMAIN calls : n \in DOMAIN calls' /\ calls'[n] = calls[n] /\ n < Len(calls) + 1
           /\ \A s \in Threads \ {t} : /\ Expected(s)' = Expected(s)
                                       /\ pc'[s] = pc[s] /\ content'[s] = content[s]
           /\ pc[t] = "idle"
           /\ \/ /\ Expected(t)' = Expected(t) \cup {Len(calls) + 1}
                 /\ pc'[t] = "lock" /\ content'[t] = Len(calls) + 1
              \/ /\ Expected(t)' = Expected(t)
                 /\ UNCHANGED <<pc, content>>
<1> DEFINE new == Len(calls) + 1
<1>1. TypeOK
  BY DEF IInv
<1>2. /\ Len(calls) \in Nat /\ DOMAIN calls = 1..Len(calls) /\ DOMAIN calls' = 1..new
      /\ \A n \in DOMAIN calls : calls'[n] = calls[n] /\ n < new
      /\ calls'[new] = [thread |-> t, level |-> level]
  BY <1>1, SMTT(30) DEF Call, TypeOK
<1>3. DOMAIN calls' = DOMAIN calls \cup {new} /\ new \notin DOMAIN calls
  BY <1>2
<1>4. verbose' = verbose /\ calls'[new].thread = t /\ calls'[new].level = level
  BY <1>2 DEF Call
<1> HIDE DEF new
<1>5. ASSUME NEW s \in Threads
      PROVE  Expected(s)' = Expected(s)
                              \cup (IF s = t /\ (level = "debug" => verbose) THEN {new} ELSE {})
  BY <1>2, <1>3, <1>4 DEF Expected
<1>6. CASE prints(level)
  <2>1. Expected(t)' = Expected(t) \cup {new} /\ \A s \in Threads \ {t} : Expected(s)' = Expected(s)
    BY <1>5, <1>6 DEF prints
  <2>2. /\ content'[t] = new /\ pc'[t] = "lock" /\ pc[t] = "idle"
        /\ \A s \in Threads \ {t} : pc'[s] = pc[s] /\ content'[s] = content[s]
        /\ UNCHANGED <<verbose, mutex, written, out>>
    BY <1>1, <1>6 DEF Call, TypeOK, new
  <2>3. QED
    BY <1>2, <1>3, <2>1, <2>2 DEF new
<1>7. CASE ~prints(level)
  <2>1. \A s \in Threads : Expected(s)' = Expected(s)
    BY <1>5, <1>7 DEF prints
  <2>2. pc[t] = "idle" /\ UNCHANGED <<verbose, mutex, written, out, pc, content>>
    BY <1>7 DEF Call
  <2>3. QED
    BY <1>2, <1>3, <2>1, <2>2 DEF new
<1>8. QED
  BY <1>6, <1>7

LEMMA CallStep ==
    ASSUME IInv, NEW t \in Threads, NEW level \in Level, Call(t, level) PROVE IInv'
<1>1. /\ UNCHANGED <<verbose, mutex, written, out>>
      /\ \A n \in DOMAIN calls : n \in DOMAIN calls' /\ calls'[n] = calls[n] /\ n < Len(calls) + 1
      /\ pc[t] = "idle"
  BY CallFacts
<1>2. TypeOK /\ Exclusive /\ Current /\ Legal /\ Progress /\ Printed /\ Ordered /\ ContentsAreWhole
  BY DEF IInv
<1>3. Len(calls) + 1 \notin DOMAIN calls /\ Len(calls) + 1 \in Nat
  BY <1>2, CallFacts DEF TypeOK
<1>4. \A s \in Threads \ {t} : Expected(s)' = Expected(s) /\ pc'[s] = pc[s] /\ content'[s] = content[s]
  BY CallFacts
<1>5. \/ /\ Expected(t)' = Expected(t) \cup {Len(calls) + 1}
         /\ pc'[t] = "lock" /\ content'[t] = Len(calls) + 1
      \/ Expected(t)' = Expected(t) /\ UNCHANGED <<pc, content>>
  BY CallFacts
<1>6. \A s \in Threads : Expected(s) \subseteq Expected(s)'
  BY <1>4, <1>5
<1>7. TypeOK'
  BY <1>2, NextType DEF Next
<1>8. Exclusive'
  BY <1>1, <1>2, <1>4, <1>5, ThreadsAssumption DEF Exclusive
<1>9. Current'
  <2> SUFFICES ASSUME NEW s \in Threads, pc'[s] # "idle"
               PROVE  content'[s] \in Expected(s)' /\ \A n \in Expected(s)' : n <= content'[s]
    BY DEF Current
  <2>1. CASE s # t
    BY <1>2, <1>4, <2>1 DEF Current
  <2>2. CASE s = t
    <3>1. Expected(t) \subseteq DOMAIN calls /\ DOMAIN calls \subseteq Nat
      BY <1>2, SMTT(30) DEF Expected, TypeOK
    <3>2. \A n \in Expected(t) : n <= Len(calls) + 1
      BY <1>1, <1>3, <3>1
    <3>3. QED
      BY <1>1, <1>3, <1>5, <2>2, <3>2
  <2>3. QED
    BY <2>1, <2>2
<1>10. \A k \in DOMAIN out : /\ out[k].call \in DOMAIN calls
                             /\ calls'[out[k].call] = calls[out[k].call]
                             /\ out[k].call # Len(calls) + 1
                             /\ calls[out[k].call].thread \in Threads
  BY <1>1, <1>2, <1>3, ElementTypes DEF Legal
<1>11. Legal' /\ Ordered'
  BY <1>1, <1>2, <1>10 DEF Legal, Ordered, prints
<1>12. Progress'
  <2>1. \A s \in Threads : pc'[s] = "write" => pc[s] = "write" /\ content'[s] = content[s]
    BY <1>1, <1>4, <1>5
  <2>2. QED
    BY <1>1, <1>2, <2>1 DEF Progress
<1>13. Printed'
  <2> SUFFICES ASSUME NEW s \in Threads
               PROVE  /\ pc'[s] = "lock" => \A k \in DOMAIN out : out[k].call # content'[s]
                      /\ pc'[s] = "write" =>
                           /\ \A k \in DOMAIN out : out[k].call = content'[s] => out[k].part <= written[s]
                           /\ \A p \in 1..written[s] :
                                 \E k \in DOMAIN out : out[k] = [call |-> content'[s], part |-> p]
                      /\ \A n \in Expected(s)', p \in 1..Parts :
                            pc'[s] = "idle" \/ n # content'[s] =>
                              \E k \in DOMAIN out : out[k] = [call |-> n, part |-> p]
    BY <1>1 DEF Printed
  <2>1. CASE pc'[s] = pc[s] /\ content'[s] = content[s] /\ Expected(s)' = Expected(s)
    BY <1>2, <2>1 DEF Printed
  <2>2. CASE s = t /\ pc'[t] = "lock" /\ content'[t] = Len(calls) + 1
             /\ Expected(t)' = Expected(t) \cup {Len(calls) + 1}
    BY <1>1, <1>2, <1>10, <2>2 DEF Printed
  <2>3. QED
    BY <1>4, <1>5, <2>1, <2>2
<1>14. ContentsAreWhole'
  <2>1. Len(out) # 0 => Len(out) \in DOMAIN out
    BY <1>2 DEF TypeOK
  <2>2. 0 % Parts = 0
    BY PartsAssumption
  <2>3. Len(out) % Parts # 0 => mutex = calls'[out[Len(out)].call].thread
    BY <1>2, <1>10, <2>1, <2>2 DEF ContentsAreWhole
  <2>4. QED
    BY <1>1, <1>2, <2>3 DEF ContentsAreWhole
<1>15. QED
  BY <1>7, <1>8, <1>9, <1>11, <1>12, <1>13, <1>14 DEF IInv

(***************************************************************************)
(* The steps under the mutex                                               *)
(***************************************************************************)
LEMMA Multiple == \A q \in Nat, r \in 0..(Parts - 1) : (Parts * q + r) % Parts = r
BY PartsAssumption

LEMMA LockStep == ASSUME IInv, NEW t \in Threads, Lock(t) PROVE IInv'
<1>1. TypeOK /\ Exclusive /\ Current /\ Legal /\ Progress /\ Printed /\ Ordered /\ ContentsAreWhole
  BY DEF IInv
<1>2. /\ UNCHANGED <<verbose, content, out, calls>>
      /\ mutex = NoThread /\ mutex' = t /\ pc[t] = "lock" /\ pc'[t] = "write" /\ written'[t] = 0
      /\ \A s \in Threads \ {t} : pc'[s] = pc[s] /\ written'[s] = written[s]
  BY <1>1 DEF Lock, TypeOK
<1>3. \A s \in Threads : Expected(s)' = Expected(s) /\ (s # t => pc[s] # "write")
  BY <1>1, <1>2, ThreadsAssumption DEF Expected, Exclusive
<1>4. TypeOK'
  BY <1>1, NextType DEF Next
<1>5. Exclusive' /\ Current' /\ Legal' /\ Ordered'
  <2>1. Exclusive'
    BY <1>1, <1>2, <1>3 DEF Exclusive
  <2>2. Current'
    BY <1>1, <1>2, <1>3 DEF Current
  <2>3. Legal'
    BY <1>1, <1>2 DEF Legal, prints
  <2>4. Ordered'
    BY <1>1, <1>2 DEF Ordered
  <2>5. QED
    BY <2>1, <2>2, <2>3, <2>4
<1>6. PICK q \in Nat : Len(out) = Parts * q
  BY <1>1, <1>2 DEF Progress
<1>7. Progress'
  <2>1. Parts * q + 0 = Parts * q
    BY PartsAssumption
  <2>2. DOMAIN out = 1..Len(out) /\ Len(out) \in Nat
    BY <1>1 DEF TypeOK
  <2>3. \A k \in DOMAIN out : ~(k > Len(out) - 0)
    BY <2>2
  <2>4. QED
    BY <1>2, <1>3, <1>6, <2>1, <2>3, ThreadsAssumption DEF Progress
<1>8. Printed'
  <2>1. \A p \in 1..0 : FALSE
    OBVIOUS
  <2>2. QED
    BY <1>1, <1>2, <1>3, <2>1 DEF Printed
<1>9. ContentsAreWhole'
  <2>1. Parts * q + 0 = Parts * q
    BY PartsAssumption
  <2>2. 0 \in 0..(Parts - 1)
    BY PartsAssumption
  <2>3. Len(out) % Parts = 0
    BY <1>6, <2>1, <2>2, Multiple
  <2>4. QED
    BY <1>1, <1>2, <2>3 DEF ContentsAreWhole
<1>10. QED
  BY <1>4, <1>5, <1>7, <1>8, <1>9 DEF IInv

LEMMA UnlockStep == ASSUME IInv, NEW t \in Threads, Unlock(t) PROVE IInv'
<1>1. TypeOK /\ Exclusive /\ Current /\ Legal /\ Progress /\ Printed /\ Ordered /\ ContentsAreWhole
  BY DEF IInv
<1>2. /\ UNCHANGED <<verbose, content, written, out, calls>>
      /\ mutex = t /\ mutex' = NoThread /\ pc[t] = "write" /\ pc'[t] = "idle" /\ written[t] = Parts
      /\ \A s \in Threads \ {t} : pc'[s] = pc[s]
  BY <1>1 DEF Unlock, TypeOK, Exclusive
<1>3. \A s \in Threads : Expected(s)' = Expected(s) /\ (s # t => pc[s] # "write")
  BY <1>1, <1>2 DEF Expected, Exclusive
<1>4. TypeOK'
  BY <1>1, NextType DEF Next
<1>5. Exclusive' /\ Current' /\ Legal' /\ Ordered'
  <2>1. Exclusive'
    BY <1>1, <1>2, <1>3, ThreadsAssumption DEF Exclusive
  <2>2. Current'
    BY <1>1, <1>2, <1>3 DEF Current
  <2>3. Legal'
    BY <1>1, <1>2 DEF Legal, prints
  <2>4. Ordered'
    BY <1>1, <1>2 DEF Ordered
  <2>5. QED
    BY <2>1, <2>2, <2>3, <2>4
<1>6. PICK q \in Nat : Len(out) = Parts * q + Parts
  BY <1>1, <1>2 DEF Progress
<1>7. q + 1 \in Nat /\ Len(out) = Parts * (q + 1)
  BY <1>6, PartsAssumption
<1>8. Progress'
  BY <1>2, <1>3, <1>7 DEF Progress
<1>9. Printed'
  <2> SUFFICES ASSUME NEW s \in Threads
               PROVE  /\ pc'[s] = "lock" => \A k \in DOMAIN out : out[k].call # content[s]
                      /\ pc'[s] # "write"
                      /\ \A n \in Expected(s), p \in 1..Parts :
                            pc'[s] = "idle" \/ n # content[s] =>
                              \E k \in DOMAIN out : out[k] = [call |-> n, part |-> p]
    BY <1>2, <1>3 DEF Printed
  <2>1. CASE s # t
    BY <1>1, <1>2, <1>3, <2>1 DEF Printed
  <2>2. CASE s = t
    BY <1>1, <1>2, <2>2 DEF Printed
  <2>3. QED
    BY <2>1, <2>2
<1>10. ContentsAreWhole'
  <2>1. Parts * (q + 1) + 0 = Parts * (q + 1) /\ 0 \in 0..(Parts - 1)
    BY PartsAssumption
  <2>2. Len(out) % Parts = 0
    BY <1>7, <2>1, Multiple
  <2>3. QED
    BY <1>1, <1>2, <2>2 DEF ContentsAreWhole
<1>11. QED
  BY <1>4, <1>5, <1>8, <1>9, <1>10 DEF IInv

(* The owner of the mutex appends the next part of its content. *)
LEMMA WriteStep == ASSUME IInv, NEW t \in Threads, Write(t) PROVE IInv'
<1> DEFINE w == written[t]
           n == Len(out)
           x == [call |-> content[t], part |-> w + 1]
<1>1. TypeOK /\ Exclusive /\ Current /\ Legal /\ Progress /\ Printed /\ Ordered /\ ContentsAreWhole
  BY DEF IInv
<1>2. /\ UNCHANGED <<verbose, mutex, pc, content, calls>>
      /\ mutex = t /\ pc[t] = "write" /\ written'[t] = w + 1
      /\ \A s \in Threads \ {t} : written'[s] = written[s]
  BY <1>1 DEF Write, TypeOK, Exclusive
<1>3. w \in Nat /\ w < Parts /\ w + 1 \in 1..Parts /\ Parts \in Nat /\ n \in Nat /\ content[t] \in Nat
  BY <1>1, PartsAssumption DEF Write, TypeOK
<1>4. /\ Len(out') = n + 1 /\ DOMAIN out' = 1..(n + 1) /\ DOMAIN out = 1..n
      /\ \A k \in 1..n : out'[k] = out[k]
      /\ out'[n + 1] = x
  BY <1>1, <1>3 DEF Write, TypeOK
<1>5. \A k \in DOMAIN out' : k \in DOMAIN out \/ k = n + 1
  BY <1>3, <1>4
<1>6. DOMAIN out \subseteq DOMAIN out' /\ n + 1 \in DOMAIN out' /\ n + 1 \notin DOMAIN out
  BY <1>3, <1>4
<1>7. \A s \in Threads : Expected(s)' = Expected(s) /\ (s # t => pc[s] # "write")
  BY <1>1, <1>2 DEF Expected, Exclusive
<1>8. content[t] \in Expected(t) /\ \A i \in Expected(t) : i <= content[t]
  BY <1>1, <1>2 DEF Current
<1>9. content[t] \in DOMAIN calls /\ calls[content[t]].thread = t
  BY <1>8 DEF Expected
<1>10. x.call = content[t] /\ x.part = w + 1
  OBVIOUS
<1> HIDE DEF w, n, x
<1>11. TypeOK'
  BY <1>1, NextType DEF Next
<1>12. Exclusive' /\ Current'
  BY <1>1, <1>2, <1>7 DEF Exclusive, Current
<1>13. Legal'
  <2> SUFFICES ASSUME NEW k \in DOMAIN out'
               PROVE  out'[k].call \in DOMAIN calls /\ prints(calls[out'[k].call].level)
    BY <1>2 DEF Legal, prints
  <2>1. CASE k \in DOMAIN out
    BY <1>1, <1>4, <2>1 DEF Legal
  <2>2. CASE k = n + 1
    <3>1. prints(calls[content[t]].level)
      BY <1>8 DEF Expected, prints
    <3>2. QED
      BY <1>4, <1>9, <1>10, <2>2, <3>1
  <2>3. QED
    BY <1>5, <2>1, <2>2
<1>14. PICK q \in Nat : n = Parts * q + w
  BY <1>1, <1>2 DEF Progress, n, w
<1>15. \A k \in DOMAIN out : k > n - w => out[k].call = content[t]
  BY <1>1, <1>2 DEF Progress, n, w
<1>16. Progress'
  <2>1. n + 1 = Parts * q + (w + 1)
    BY <1>3, <1>14
  <2>2. ASSUME NEW k \in DOMAIN out', k > (n + 1) - (w + 1) PROVE out'[k].call = content[t]
    <3>1. CASE k \in DOMAIN out
      <4>1. k > n - w
        BY <1>3, <1>4, <2>2
      <4>2. QED
        BY <1>4, <1>15, <3>1, <4>1
    <3>2. QED
      BY <1>4, <1>5, <1>10, <3>1
  <2>3. mutex' # NoThread
    BY <1>2, ThreadsAssumption
  <2>4. QED
    BY <1>2, <1>4, <1>7, <2>1, <2>2, <2>3 DEF Progress
<1>17. Printed'
  <2> SUFFICES ASSUME NEW s \in Threads
               PROVE  /\ pc[s] = "lock" => \A k \in DOMAIN out' : out'[k].call # content[s]
                      /\ pc[s] = "write" =>
                           /\ \A k \in DOMAIN out' :
                                 out'[k].call = content[s] => out'[k].part <= written'[s]
                           /\ \A p \in 1..written'[s] :
                                 \E k \in DOMAIN out' : out'[k] = [call |-> content[s], part |-> p]
                      /\ \A i \in Expected(s), p \in 1..Parts :
                            pc[s] = "idle" \/ i # content[s] =>
                              \E k \in DOMAIN out' : out'[k] = [call |-> i, part |-> p]
    BY <1>2, <1>7 DEF Printed
  <2>1. ASSUME NEW i \in Expected(s), NEW p \in 1..Parts, pc[s] = "idle" \/ i # content[s]
        PROVE  \E k \in DOMAIN out' : out'[k] = [call |-> i, part |-> p]
    <3>1. PICK k \in DOMAIN out : out[k] = [call |-> i, part |-> p]
      BY <1>1, <2>1 DEF Printed
    <3>2. QED
      BY <1>4, <1>6, <3>1
  <2>2. ASSUME pc[s] = "lock", NEW k \in DOMAIN out' PROVE out'[k].call # content[s]
    <3>1. content[s] # content[t]
      BY <1>1, <1>2, <1>9, <2>2 DEF Current, Expected
    <3>2. CASE k \in DOMAIN out
      BY <1>1, <1>4, <2>2, <3>2 DEF Printed
    <3>3. QED
      BY <1>4, <1>5, <1>10, <3>1, <3>2
  <2>3. CASE pc[s] # "write"
    BY <2>1, <2>2, <2>3
  <2>4. CASE pc[s] = "write"
    <3>1. s = t
      BY <1>7, <2>4
    <3>2. ASSUME NEW k \in DOMAIN out', out'[k].call = content[t] PROVE out'[k].part <= w + 1
      <4>1. CASE k \in DOMAIN out
        <5>1. out[k].part <= w /\ out[k].part \in Nat
          BY <1>1, <1>2, <1>4, <3>2, <4>1, ElementTypes DEF Printed, w
        <5>2. QED
          BY <1>3, <1>4, <4>1, <5>1
      <4>2. QED
        BY <1>3, <1>4, <1>5, <1>10, <4>1
    <3>3. ASSUME NEW p \in 1..(w + 1)
          PROVE  \E k \in DOMAIN out' : out'[k] = [call |-> content[t], part |-> p]
      <4>1. CASE p \in 1..w
        <5>1. PICK k \in DOMAIN out : out[k] = [call |-> content[t], part |-> p]
          BY <1>1, <1>2, <4>1 DEF Printed, w
        <5>2. QED
          BY <1>4, <1>6, <5>1
      <4>2. CASE p = w + 1
        BY <1>4, <1>6, <4>2 DEF x
      <4>3. QED
        BY <1>3, <4>1, <4>2
    <3>4. QED
      BY <1>2, <2>1, <2>4, <3>1, <3>2, <3>3
  <2>5. QED
    BY <2>3, <2>4
<1>18. Ordered'
  <2> SUFFICES ASSUME NEW j \in DOMAIN out', NEW k \in DOMAIN out', j < k,
                      calls[out'[j].call].thread = calls[out'[k].call].thread
               PROVE  Before(out'[j], out'[k])
    BY <1>2 DEF Ordered
  <2>1. j \in DOMAIN out
    BY <1>3, <1>4
  <2>2. CASE k \in DOMAIN out
    BY <1>1, <1>4, <2>1, <2>2 DEF Ordered
  <2>3. CASE k = n + 1
    <3>1. out'[j] = out[j] /\ out'[k] = x
      BY <1>4, <2>1, <2>3
    <3>2. calls[out[j].call].thread = t
      BY <1>9, <1>10, <3>1
    <3>3. out[j].call \in Expected(t)
      BY <1>1, <2>1, <3>2 DEF Legal, Expected, prints
    <3>4. out[j].call <= content[t] /\ out[j].call \in Nat /\ out[j].part \in Nat
      BY <1>1, <1>8, <2>1, <3>3, ElementTypes
    <3>5. out[j].call = content[t] => out[j].part <= w
      BY <1>1, <1>2, <2>1 DEF Printed, w
    <3>6. QED
      BY <1>3, <1>10, <3>1, <3>4, <3>5 DEF Before
  <2>4. QED
    BY <1>5, <2>2, <2>3
<1>19. ContentsAreWhole'
  <2>1. n % Parts = w
    BY <1>3, <1>14, Multiple
  <2>2. ASSUME NEW k \in DOMAIN out'
        PROVE  /\ out'[k].part = ((k - 1) % Parts) + 1
               /\ out'[k].call = out'[k - out'[k].part + 1].call
    <3>1. CASE k \in DOMAIN out
      <4>1. /\ out'[k] = out[k] /\ out[k].part = ((k - 1) % Parts) + 1
            /\ out[k].call = out[k - out[k].part + 1].call
        BY <1>1, <1>4, <3>1 DEF ContentsAreWhole
      <4>2. k - out[k].part + 1 \in DOMAIN out
        <5>1. (k - 1) % Parts \in 0..(k - 1)
          <6>1. k - 1 \in Nat
            BY <1>4, <3>1
          <6>2. \A a \in Nat : a % Parts \in 0..a
            BY PartsAssumption
          <6>3. QED
            BY <6>1, <6>2
        <5>2. out[k].part \in 1..k
          BY <1>4, <3>1, <4>1, <5>1
        <5>3. QED
          BY <1>3, <1>4, <3>1, <5>2
      <4>3. QED
        BY <1>4, <4>1, <4>2
    <3>2. CASE k = n + 1
      <4>1. out'[k] = x /\ k - 1 = n
        BY <1>3, <1>4, <3>2
      <4>2. k - x.part + 1 = (n - w) + 1
        BY <1>3, <1>10, <3>2
      <4>3. out'[(n - w) + 1].call = content[t]
        <5>1. CASE w = 0
          BY <1>3, <1>4, <1>10, <5>1
        <5>2. CASE w > 0
          <6>1. w <= n
            <7>1. Parts * q \in Nat
              BY <1>3
            <7>2. QED
              BY <1>3, <1>14, <7>1
          <6>2. (n - w) + 1 \in 1..n /\ (n - w) + 1 > n - w
            BY <1>3, <5>2, <6>1
          <6>3. QED
            BY <1>4, <1>15, <6>2
        <5>3. QED
          BY <1>3, <5>1, <5>2
      <4>4. QED
        BY <1>10, <2>1, <4>1, <4>2, <4>3
    <3>3. QED
      BY <1>5, <3>1, <3>2
  <2>3. mutex' = calls'[out'[n + 1].call].thread
    BY <1>2, <1>4, <1>9, <1>10
  <2>4. QED
    BY <1>4, <2>2, <2>3 DEF ContentsAreWhole
<1>20. QED
  BY <1>11, <1>12, <1>13, <1>16, <1>17, <1>18, <1>19 DEF IInv

LEMMA Invariance == Spec => []IInv
<1>1. IInv /\ [Next]_vars => IInv'
  <2> SUFFICES ASSUME IInv, [Next]_vars PROVE IInv'
    OBVIOUS
  <2>1. CASE UNCHANGED vars
    BY <2>1 DEF vars, IInv, TypeOK, Exclusive, Current, Legal, Progress, Printed, Ordered,
       ContentsAreWhole, Expected, prints
  <2>2. QED
    BY <2>1, CallStep, LockStep, WriteStep, UnlockStep DEF Next
<1>2. QED
  BY <1>1, InitInv, PTL DEF Spec

(***************************************************************************)
(* The theorems                                                            *)
(***************************************************************************)
(* Whatever is printed by however many threads stays in one piece. *)
THEOREM OutputIsNotMixed == Spec => []ContentsAreWhole
<1>1. IInv => ContentsAreWhole
  BY DEF IInv
<1>2. QED
  BY <1>1, Invariance, PTL

(* What a thread printed is on the stream when its call has returned, once  *)
(* and in order, debug messages exactly when the display is verbose.       *)
THEOREM OutputIsComplete == Spec => []NothingIsLost
<1>1. IInv => NothingIsLost
  <2> SUFFICES ASSUME IInv, NEW t \in Threads, pc[t] = "idle"
               PROVE  /\ \A n \in Expected(t), p \in 1..Parts :
                            \E k \in DOMAIN out : out[k] = [call |-> n, part |-> p]
                      /\ \A k \in WrittenBy(t) : out[k].call \in Expected(t)
                      /\ \A j, k \in WrittenBy(t) : j < k => Before(out[j], out[k])
    BY DEF NothingIsLost
  <2>1. \A n \in Expected(t), p \in 1..Parts :
            \E k \in DOMAIN out : out[k] = [call |-> n, part |-> p]
    BY DEF IInv, Printed
  <2>2. \A k \in WrittenBy(t) : out[k].call \in Expected(t)
    BY DEF IInv, Legal, WrittenBy, Expected, prints
  <2>3. \A j, k \in WrittenBy(t) : j < k => Before(out[j], out[k])
    BY DEF IInv, Ordered, WrittenBy
  <2>4. QED
    BY <2>1, <2>2, <2>3
<1>2. QED
  BY <1>1, Invariance, PTL

=============================================================================
