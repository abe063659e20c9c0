------------------------- MODULE CommandLanes_proofs -------------------------
(***************************************************************************)
(* For every size of queue, every table and every set of commands: the     *)
(* arrays stay in the order their binary search relies on, and whatever    *)
(* they do, their contents do what CommandQueue allows.                    *)
(*                                                                         *)
(* The loops over an array are recursive functions, and what they compute  *)
(* is proved by induction on the index. The library's induction theorems   *)
(* take an operator; SetInduction takes the set of numbers a claim holds   *)
(* for.                                                                    *)
(***************************************************************************)
EXTENDS CommandLanes, TLAPS, FiniteSetTheorems, SequenceTheorems, WellFoundedInduction

-----------------------------------------------------------------------------
(* Induction                                                                *)

(* Every set of naturals that is not empty has a least element.             *)
LEMMA LeastNatural ==
    ASSUME NEW S, S \subseteq Nat, S # {}
    PROVE  \E n \in S : \A m \in S : n <= m
<1>1. \E x \in S : \A y \in S : ~(<<y, x>> \in OpToRel(<, Nat))
  BY NatLessThanWellFounded, WFMin, Zenon
<1>2. \A x, y \in Nat : <<y, x>> \in OpToRel(<, Nat) <=> y < x
  BY Zenon DEF OpToRel
<1>3. PICK n \in S : \A m \in S : ~(m < n)
  BY <1>1, <1>2
<1>4. \A m \in S : n <= m
  <2> TAKE m \in S
  <2>1. m \in Nat /\ n \in Nat /\ ~(m < n)
    BY <1>3
  <2> QED
    BY <2>1
<1> QED
  BY <1>4

(* Induction, over the set of the numbers for which a claim holds.          *)
LEMMA SetInduction ==
    ASSUME NEW S, 0 \in S, \A n \in Nat : n \in S => n + 1 \in S
    PROVE  Nat \subseteq S
<1> SUFFICES ASSUME Nat \ S # {} PROVE FALSE
  OBVIOUS
<1>1. PICK n \in Nat \ S : \A m \in Nat \ S : n <= m
  BY LeastNatural
<1>2. n # 0
  BY <1>1
<1>3. n - 1 \in Nat /\ n - 1 \in S
  BY <1>1, <1>2
<1> QED
  BY <1>1, <1>3

-----------------------------------------------------------------------------
(* What a loop has picked out of the first n elements of an array: those of *)
(* S, each once and in their order. `f` says where each comes from.         *)

PickedBy(f, picked, array, S, n) ==
    /\ f \in [1..Len(picked) -> 1..n]
    /\ \A j, k \in 1..Len(picked) : j < k => f[j] < f[k]
    /\ \A j \in 1..Len(picked) : picked[j] = array[f[j]] /\ array[f[j]] \in S
    /\ \A i \in 1..n : array[i] \in S => \E j \in 1..Len(picked) : f[j] = i

Picked(picked, array, S, n) == \E f : PickedBy(f, picked, array, S, n)

(* Before the first turn of a loop nothing is picked.                       *)
LEMMA PickNothing ==
    ASSUME NEW array, NEW S
    PROVE  Picked(<<>>, array, S, 0)
<1> DEFINE f == [j \in 1..0 |-> 0]
<1>1. PickedBy(f, <<>>, array, S, 0)
  BY DEF PickedBy
<1> QED
  BY <1>1 DEF Picked

(* A turn that pushes the next element,                                     *)
LEMMA PickNext ==
    ASSUME NEW T, NEW array \in Seq(T), NEW S, NEW n \in Nat, n < Len(array),
           NEW picked \in Seq(T), Picked(picked, array, S, n), array[n + 1] \in S
    PROVE  Picked(Append(picked, array[n + 1]), array, S, n + 1)
<1>1. PICK f : PickedBy(f, picked, array, S, n)
  BY DEF Picked
<1> DEFINE more == Append(picked, array[n + 1])
           g == [j \in 1..(Len(picked) + 1) |-> IF j = Len(picked) + 1 THEN n + 1 ELSE f[j]]
<1>2. Len(more) = Len(picked) + 1 /\ more[Len(picked) + 1] = array[n + 1]
      /\ \A j \in 1..Len(picked) : more[j] = picked[j]
  OBVIOUS
<1>3. Len(picked) \in Nat
  OBVIOUS
<1>4. f \in [1..Len(picked) -> 1..n]
  BY <1>1 DEF PickedBy
<1>5. g \in [1..Len(more) -> 1..(n + 1)]
  BY <1>2, <1>3, <1>4
<1>6. \A j, k \in 1..Len(more) : j < k => g[j] < g[k]
  <2> SUFFICES ASSUME NEW j \in 1..Len(more), NEW k \in 1..Len(more), j < k
               PROVE  g[j] < g[k]
    OBVIOUS
  <2>1. j \in 1..Len(picked) /\ g[j] = f[j] /\ f[j] \in 1..n
    BY <1>2, <1>3, <1>4
  <2>2. CASE k = Len(picked) + 1
    BY <2>1, <2>2, <1>2, <1>3
  <2>3. CASE k # Len(picked) + 1
    <3>1. k \in 1..Len(picked) /\ g[k] = f[k]
      BY <2>3, <1>2, <1>3
    <3> QED
      BY <2>1, <3>1, <1>1 DEF PickedBy
  <2> QED
    BY <2>2, <2>3
<1>7. \A j \in 1..Len(more) : more[j] = array[g[j]] /\ array[g[j]] \in S
  BY <1>1, <1>2, <1>3 DEF PickedBy
<1>8. \A i \in 1..(n + 1) : array[i] \in S => \E j \in 1..Len(more) : g[j] = i
  <2> SUFFICES ASSUME NEW i \in 1..(n + 1), array[i] \in S
               PROVE  \E j \in 1..Len(more) : g[j] = i
    OBVIOUS
  <2>1. CASE i = n + 1
    <3>1. g[Len(picked) + 1] = i /\ Len(picked) + 1 \in 1..Len(more)
      BY <2>1, <1>2, <1>3
    <3> QED
      BY <3>1
  <2>2. CASE i # n + 1
    <3>1. PICK j \in 1..Len(picked) : f[j] = i
      BY <2>2, <1>1 DEF PickedBy
    <3>2. g[j] = i /\ j \in 1..Len(more)
      BY <3>1, <1>2, <1>3
    <3> QED
      BY <3>2
  <2> QED
    BY <2>1, <2>2
<1>9. PickedBy(g, more, array, S, n + 1)
  BY <1>5, <1>6, <1>7, <1>8 DEF PickedBy
<1> QED
  BY <1>9 DEF Picked

(* and a turn that passes over it.                                          *)
LEMMA PickNot ==
    ASSUME NEW array, NEW S, NEW n \in Nat,
           NEW picked, Len(picked) \in Nat,
           Picked(picked, array, S, n), array[n + 1] \notin S
    PROVE  Picked(picked, array, S, n + 1)
<1>1. PICK f : PickedBy(f, picked, array, S, n)
  BY DEF Picked
<1>2. f \in [1..Len(picked) -> 1..(n + 1)]
  BY <1>1 DEF PickedBy
<1>3. \A i \in 1..(n + 1) : array[i] \in S => \E j \in 1..Len(picked) : f[j] = i
  <2> SUFFICES ASSUME NEW i \in 1..(n + 1), array[i] \in S
               PROVE  \E j \in 1..Len(picked) : f[j] = i
    OBVIOUS
  <2>1. i \in 1..n
    OBVIOUS
  <2> QED
    BY <1>1, <2>1 DEF PickedBy
<1>4. PickedBy(f, picked, array, S, n + 1)
  BY <1>1, <1>2, <1>3 DEF PickedBy
<1> QED
  BY <1>4 DEF Picked

(* What was picked keeps every order of the array, and is exactly what is   *)
(* in S.                                                                    *)
LEMMA PickedContents ==
    ASSUME NEW array, NEW S, NEW picked, Picked(picked, array, S, Len(array)),
           DOMAIN array = 1..Len(array), DOMAIN picked = 1..Len(picked)
    PROVE  Contents(picked) = {e \in Contents(array) : e \in S}
<1>1. PICK f : PickedBy(f, picked, array, S, Len(array))
  BY DEF Picked
<1> QED
  BY <1>1 DEF PickedBy, Contents

(* A relation between all earlier and later elements of the array holds     *)
(* between those that were picked.                                          *)
LEMMA PickedOrder ==
    ASSUME NEW array, NEW S, NEW picked, Picked(picked, array, S, Len(array)),
           NEW R, \A i, j \in 1..Len(array) : i < j => <<array[i], array[j]>> \in R
    PROVE  \A i, j \in 1..Len(picked) : i < j => <<picked[i], picked[j]>> \in R
<1>1. PICK f : PickedBy(f, picked, array, S, Len(array))
  BY DEF Picked
<1>2. /\ f \in [1..Len(picked) -> 1..Len(array)]
      /\ \A j, k \in 1..Len(picked) : j < k => f[j] < f[k]
      /\ \A j \in 1..Len(picked) : picked[j] = array[f[j]]
  BY <1>1 DEF PickedBy
<1> QED
  BY <1>2

-----------------------------------------------------------------------------
(* The loops                                                                *)

(* The loops that push what they meet of S pick it.                         *)
LEMMA SelectedPicks ==
    ASSUME NEW T, NEW array \in Seq(T), NEW S
    PROVE  /\ Selected(array, S) \in Seq(T)
           /\ Picked(Selected(array, S), array, S, Len(array))
<1> DEFINE L == Len(array)
           Step(g, n) == IF n = 0 THEN <<>>
                         ELSE IF array[n] \in S THEN Append(g[n - 1], array[n]) ELSE g[n - 1]
           Defined == {n \in Nat : \E g : g = [m \in 0..n |-> Step(g, m)]}
<1>1. L \in Nat
  OBVIOUS
<1>2. 0 \in Defined
  <2> DEFINE g == [m \in 0..0 |-> <<>>]
  <2>1. g = [m \in 0..0 |-> Step(g, m)]
    OBVIOUS
  <2> HIDE DEF g
  <2> QED
    BY <2>1
<1>3. ASSUME NEW n \in Nat, n \in Defined PROVE n + 1 \in Defined
  <2>1. PICK g : g = [m \in 0..n |-> Step(g, m)]
    BY <1>3
  <2> DEFINE h == [m \in 0..(n + 1) |-> IF m = n + 1 THEN Step(g, m) ELSE g[m]]
  <2>2. \A m \in 0..(n + 1) : m # 0 => h[m - 1] = g[m - 1]
    OBVIOUS
  <2> HIDE DEF h
  <2>3. \A m \in 0..(n + 1) : Step(h, m) = Step(g, m)
    BY <2>2
  <2> HIDE DEF Step
  <2>4. \A m \in 0..n : g[m] = Step(g, m)
    BY <2>1
  <2>5. h = [m \in 0..(n + 1) |-> h[m]] /\ \A m \in 0..(n + 1) : h[m] = Step(g, m)
    BY <2>4 DEF h
  <2>6. h = [m \in 0..(n + 1) |-> Step(h, m)]
    BY <2>3, <2>5
  <2>7. \E f : f = [m \in 0..(n + 1) |-> Step(f, m)]
    BY <2>6
  <2> QED
    BY <2>7
<1>4. Nat \subseteq Defined
  BY <1>2, <1>3, SetInduction
<1> DEFINE g == CHOOSE selected : selected = [m \in 0..L |-> Step(selected, m)]
<1>5. g = [m \in 0..L |-> Step(g, m)]
  BY <1>1, <1>4
<1>6. Selected(array, S) = g[L]
  BY DEF Selected
<1> HIDE DEF g
<1>10. \A m \in 0..L : g[m] = Step(g, m)
  BY <1>5
<1>11. g[0] = <<>>
  BY <1>1, <1>10
<1> DEFINE Right == {n \in Nat : n <= L => g[n] \in Seq(T) /\ Picked(g[n], array, S, n)}
<1>7. 0 \in Right
  <2>1. g[0] \in Seq(T) /\ Picked(g[0], array, S, 0)
    BY <1>11, PickNothing
  <2> QED
    BY <2>1
<1>8. ASSUME NEW n \in Nat, n \in Right PROVE n + 1 \in Right
  <2> SUFFICES ASSUME n + 1 <= L
               PROVE  g[n + 1] \in Seq(T) /\ Picked(g[n + 1], array, S, n + 1)
    OBVIOUS
  <2>1. g[n] \in Seq(T) /\ Picked(g[n], array, S, n) /\ n < L
    BY <1>1, <1>8
  <2>2. g[n + 1] = IF array[n + 1] \in S THEN Append(g[n], array[n + 1]) ELSE g[n]
    <3>1. n + 1 \in 0..L /\ n + 1 # 0 /\ (n + 1) - 1 = n
      BY <1>1
    <3> QED
      BY <1>10, <3>1
  <2>3. array[n + 1] \in T
    BY <1>1, <2>1
  <2>4. CASE array[n + 1] \in S
    BY <2>1, <2>2, <2>3, <2>4, PickNext
  <2>5. CASE array[n + 1] \notin S
    <3>1. Len(g[n]) \in Nat
      BY <2>1
    <3> QED
      BY <2>1, <2>2, <2>5, <3>1, PickNot
  <2> QED
    BY <2>4, <2>5
<1>9. Nat \subseteq Right
  BY <1>7, <1>8, SetInduction
<1> QED
  BY <1>1, <1>6, <1>9

(* One write of the compaction: what stands behind the write index grows by *)
(* the element read, the rest of the array is untouched.                    *)
LEMMA WriteBehind ==
    ASSUME NEW T, NEW old \in Seq(T), NEW e \in T, NEW w \in Nat, w < Len(old)
    PROVE  LET new == [old EXCEPT ![w + 1] = e]
           IN  /\ new \in Seq(T) /\ Len(new) = Len(old)
               /\ \A i \in 1..Len(old) : i # w + 1 => new[i] = old[i]
               /\ SubSeq(new, 1, w + 1) = Append(SubSeq(old, 1, w), e)
OBVIOUS

(* The compaction in place: behind the write index stands what the step     *)
(* leaves queued, and from the read index on the array is as it was.        *)
LEMMA CompactedPicks ==
    ASSUME NEW T, NEW lane \in Seq(T), NEW step \in Int,
           \A e \in T : e.step \in Int
    PROVE  /\ Compacted(lane, step) \in Seq(T)
           /\ Picked(Compacted(lane, step), lane, {e \in T : e.step > step}, Len(lane))
<1> DEFINE L == Len(lane)
           S == {e \in T : e.step > step}
           Step(g, n) ==
              IF n = 0 THEN [array |-> lane, write |-> 0]
              ELSE IF g[n - 1].array[n].step <= step THEN g[n - 1]
                   ELSE [array |-> [g[n - 1].array EXCEPT ![g[n - 1].write + 1]
                                                             = g[n - 1].array[n]],
                         write |-> g[n - 1].write + 1]
           Defined == {n \in Nat : \E g : g = [m \in 0..n |-> Step(g, m)]}
<1>1. L \in Nat
  OBVIOUS
<1>2. 0 \in Defined
  <2> DEFINE g == [m \in 0..0 |-> [array |-> lane, write |-> 0]]
  <2>1. g = [m \in 0..0 |-> Step(g, m)]
    OBVIOUS
  <2> HIDE DEF g
  <2> QED
    BY <2>1
<1>3. ASSUME NEW n \in Nat, n \in Defined PROVE n + 1 \in Defined
  <2>1. PICK g : g = [m \in 0..n |-> Step(g, m)]
    BY <1>3
  <2> DEFINE h == [m \in 0..(n + 1) |-> IF m = n + 1 THEN Step(g, m) ELSE g[m]]
  <2>2. \A m \in 0..(n + 1) : m # 0 => h[m - 1] = g[m - 1]
    OBVIOUS
  <2> HIDE DEF h
  <2>3. \A m \in 0..(n + 1) : Step(h, m) = Step(g, m)
    BY <2>2
  <2> HIDE DEF Step
  <2>4. \A m \in 0..n : g[m] = Step(g, m)
    BY <2>1
  <2>5. h = [m \in 0..(n + 1) |-> h[m]] /\ \A m \in 0..(n + 1) : h[m] = Step(g, m)
    BY <2>4 DEF h
  <2>6. h = [m \in 0..(n + 1) |-> Step(h, m)]
    BY <2>3, <2>5
  <2>7. \E f : f = [m \in 0..(n + 1) |-> Step(f, m)]
    BY <2>6
  <2> QED
    BY <2>7
<1>4. Nat \subseteq Defined
  BY <1>2, <1>3, SetInduction
<1> DEFINE g == CHOOSE scan : scan = [m \in 0..L |-> Step(scan, m)]
<1>5. g = [m \in 0..L |-> Step(g, m)]
  BY <1>1, <1>4
<1>6. Compacted(lane, step) = SubSeq(g[L].array, 1, g[L].write)
  BY DEF Compacted
<1> HIDE DEF g
<1>10. \A m \in 0..L : g[m] = Step(g, m)
  <2> HIDE DEF Step
  <2> QED
    BY <1>5
<1>11. g[0].array = lane /\ g[0].write = 0
  <2>1. Step(g, 0) = [array |-> lane, write |-> 0]
    OBVIOUS
  <2> HIDE DEF Step
  <2> QED
    BY <1>1, <1>10, <2>1
<1> DEFINE Behind(n) == SubSeq(g[n].array, 1, g[n].write)
           Right == {n \in Nat : n <= L =>
                        /\ g[n].array \in Seq(T) /\ Len(g[n].array) = L
                        /\ g[n].write \in 0..n
                        /\ \A i \in (n + 1)..L : g[n].array[i] = lane[i]
                        /\ Picked(Behind(n), lane, S, n)}
<1>7. 0 \in Right
  <2>1. Behind(0) = <<>>
    BY <1>11
  <2>2. Picked(Behind(0), lane, S, 0)
    BY <2>1, PickNothing
  <2> HIDE DEF Behind, S
  <2> QED
    BY <1>11, <2>2
<1>8. ASSUME NEW n \in Nat, n \in Right PROVE n + 1 \in Right
  <2> SUFFICES ASSUME n + 1 <= L
               PROVE  /\ g[n + 1].array \in Seq(T) /\ Len(g[n + 1].array) = L
                      /\ g[n + 1].write \in 0..(n + 1)
                      /\ \A i \in (n + 2)..L : g[n + 1].array[i] = lane[i]
                      /\ Picked(Behind(n + 1), lane, S, n + 1)
    OBVIOUS
  <2>1. /\ g[n].array \in Seq(T) /\ Len(g[n].array) = L
        /\ g[n].write \in 0..n
        /\ \A i \in (n + 1)..L : g[n].array[i] = lane[i]
        /\ Picked(Behind(n), lane, S, n)
    BY <1>1, <1>8
  <2>2. g[n].array[n + 1] = lane[n + 1] /\ lane[n + 1] \in T
    BY <1>1, <2>1
  <2>3. Behind(n) \in Seq(T) /\ Len(Behind(n)) = g[n].write
    BY <1>1, <2>1
  <2>4. g[n + 1] = IF lane[n + 1].step <= step THEN g[n]
                   ELSE [array |-> [g[n].array EXCEPT ![g[n].write + 1] = lane[n + 1]],
                         write |-> g[n].write + 1]
    <3>1. n + 1 \in 0..L /\ n + 1 # 0 /\ (n + 1) - 1 = n
      BY <1>1
    <3>2. g[n + 1] = Step(g, n + 1)
      BY <1>10, <3>1
    <3> QED
      BY <2>2, <3>1, <3>2
  <2>5. CASE lane[n + 1].step <= step
    <3>1. lane[n + 1] \notin S
      BY <2>2, <2>5
    <3>2. g[n + 1] = g[n]
      BY <2>4, <2>5
    <3> HIDE DEF S
    <3>3. Len(Behind(n)) \in Nat
      BY <2>3
    <3>4. Behind(n + 1) = Behind(n)
      BY <3>2
    <3> HIDE DEF Behind
    <3>5. Picked(Behind(n), lane, S, n + 1)
      BY <2>1, <3>1, <3>3, PickNot
    <3>6. g[n].write \in 0..(n + 1) /\ \A i \in (n + 2)..L : g[n].array[i] = lane[i]
      BY <1>1, <2>1
    <3> QED
      BY <2>1, <3>2, <3>4, <3>5, <3>6
  <2>6. CASE ~(lane[n + 1].step <= step)
    <3>1. lane[n + 1] \in S
      BY <2>2, <2>6
    <3> HIDE DEF S
    <3> DEFINE old == g[n].array
               w == g[n].write
               new == [old EXCEPT ![w + 1] = lane[n + 1]]
    <3>2. g[n + 1].array = new /\ g[n + 1].write = w + 1
      BY <2>4, <2>6
    <3>3. old \in Seq(T) /\ Len(old) = L /\ w \in Nat /\ w <= n /\ w < Len(old)
      BY <1>1, <2>1
    <3>4. Behind(n) = SubSeq(old, 1, w) /\ Behind(n + 1) = SubSeq(new, 1, w + 1)
      BY <3>2
    <3>5. \A i \in (n + 1)..L : old[i] = lane[i]
      BY <2>1
    <3> HIDE DEF Behind, old, w
    <3>6. /\ new \in Seq(T) /\ Len(new) = L
          /\ \A i \in 1..L : i # w + 1 => new[i] = old[i]
          /\ SubSeq(new, 1, w + 1) = Append(SubSeq(old, 1, w), lane[n + 1])
      BY <2>2, <3>3, WriteBehind
    <3> HIDE DEF new
    <3>7. \A i \in (n + 2)..L : new[i] = lane[i]
      BY <1>1, <3>3, <3>5, <3>6
    <3>8. Picked(Behind(n + 1), lane, S, n + 1)
      <4>1. Picked(Append(Behind(n), lane[n + 1]), lane, S, n + 1)
        BY <1>1, <2>1, <2>3, <3>1, PickNext
      <4> QED
        BY <3>4, <3>6, <4>1
    <3> QED
      BY <3>2, <3>3, <3>6, <3>7, <3>8
  <2> QED
    BY <2>5, <2>6
<1>9. Nat \subseteq Right
  BY <1>7, <1>8, SetInduction
<1>12. g[L].array \in Seq(T) /\ Len(g[L].array) = L /\ g[L].write \in 0..L
       /\ Picked(Behind(L), lane, S, L)
  <2> HIDE DEF Behind, S, L
  <2>1. L \in Right /\ L <= L
    BY <1>1, <1>9
  <2> QED
    BY <2>1
<1>13. Behind(L) \in Seq(T)
  BY <1>1, <1>12
<1> QED
  BY <1>6, <1>12, <1>13


-----------------------------------------------------------------------------
(* The binary search                                                        *)

(* Where e belongs: everything before it runs earlier, nothing behind it.   *)
Belongs(lane, e, at) ==
    /\ at \in 0..Len(lane)
    /\ \A i \in 1..Len(lane) : i <= at <=> Lane!Before(lane[i], e)

(* In a lane in order, whatever is earlier than e stands in front.          *)
InOrder(lane) ==
    \A i, j \in 1..Len(lane) : i < j => Lane!Before(lane[i], lane[j])

(* The order of a lane is transitive.                                       *)
LEMMA BeforeTransitive ==
    ASSUME NEW a, NEW b, NEW c,
           \A x \in {a, b, c} : x.timestamp \in Nat /\ x.sequence \in Nat,
           Lane!Before(a, b), Lane!Before(b, c)
    PROVE  Lane!Before(a, c)
BY DEF Lane!Before

(* `(low + high) >>> 1` lies in the range and below its end.                *)
LEMMA Midpoint ==
    ASSUME NEW low \in Nat, NEW high \in Nat, low < high
    PROVE  /\ (low + high) \div 2 \in Nat
           /\ low <= (low + high) \div 2 /\ (low + high) \div 2 < high
OBVIOUS

(* enqueue's binary search finds the place of an entry: the range it halves *)
(* has only earlier entries in front of it and none behind.                 *)
LEMMA SearchFinds ==
    ASSUME NEW lane \in Seq(Lane!Entry), InOrder(lane), NEW e \in Lane!Entry
    PROVE  Belongs(lane, e, InsertionIndex(lane, e))
<1> DEFINE L == Len(lane)
           Early(i) == Lane!Before(lane[i], e)
           Narrowed(r) ==
              IF r.low >= r.high THEN r
              ELSE IF Early((r.low + r.high) \div 2 + 1)
                   THEN [r EXCEPT !.low = (r.low + r.high) \div 2 + 1]
                   ELSE [r EXCEPT !.high = (r.low + r.high) \div 2]
           Step(g, n) == IF n = 0 THEN [low |-> 0, high |-> L] ELSE Narrowed(g[n - 1])
           Defined == {n \in Nat : \E g : g = [m \in 0..n |-> Step(g, m)]}
<1>1. L \in Nat
  OBVIOUS
<1> HIDE DEF Narrowed
<1>2. 0 \in Defined
  <2> DEFINE g == [m \in 0..0 |-> [low |-> 0, high |-> L]]
  <2>1. g = [m \in 0..0 |-> Step(g, m)]
    OBVIOUS
  <2> HIDE DEF g
  <2> QED
    BY <2>1
<1>3. ASSUME NEW n \in Nat, n \in Defined PROVE n + 1 \in Defined
  <2>1. PICK g : g = [m \in 0..n |-> Step(g, m)]
    BY <1>3
  <2> DEFINE h == [m \in 0..(n + 1) |-> IF m = n + 1 THEN Step(g, m) ELSE g[m]]
  <2>2. \A m \in 0..(n + 1) : m # 0 => h[m - 1] = g[m - 1]
    OBVIOUS
  <2> HIDE DEF h
  <2>3. \A m \in 0..(n + 1) : Step(h, m) = Step(g, m)
    BY <2>2
  <2> HIDE DEF Step
  <2>4. \A m \in 0..n : g[m] = Step(g, m)
    BY <2>1
  <2>5. h = [m \in 0..(n + 1) |-> h[m]] /\ \A m \in 0..(n + 1) : h[m] = Step(g, m)
    BY <2>4 DEF h
  <2>6. h = [m \in 0..(n + 1) |-> Step(h, m)]
    BY <2>3, <2>5
  <2>7. \E f : f = [m \in 0..(n + 1) |-> Step(f, m)]
    BY <2>6
  <2> QED
    BY <2>7
<1>4. Nat \subseteq Defined
  BY <1>2, <1>3, SetInduction
<1> DEFINE g == CHOOSE range : range = [m \in 0..L |-> Step(range, m)]
<1>5. g = [m \in 0..L |-> Step(g, m)]
  BY <1>1, <1>4
<1>6. InsertionIndex(lane, e) = g[L].low
  BY DEF InsertionIndex, Narrowed
<1> HIDE DEF g
<1>7. \A m \in 0..L : g[m] = Step(g, m)
  BY <1>5
\* The range has everything in front of it early and nothing early behind it.
<1> DEFINE Around(low, high) == /\ \A i \in 1..L : i <= low => Early(i)
                                /\ \A i \in 1..L : Early(i) => i <= high
           Bounds == [low : 0..L, high : 0..L]
           Right == {n \in Nat : n <= L =>
                        /\ g[n] \in Bounds /\ g[n].low <= g[n].high
                        /\ g[n].high - g[n].low <= L - n
                        /\ Around(g[n].low, g[n].high)}
<1>8. \A i, j \in 1..L : i <= j /\ Early(j) => Early(i)
  <2> SUFFICES ASSUME NEW i \in 1..L, NEW j \in 1..L, i < j, Early(j) PROVE Early(i)
    BY <1>1
  <2>1. Lane!Before(lane[i], lane[j])
    BY DEF InOrder
  <2>2. lane[i] \in Lane!Entry /\ lane[j] \in Lane!Entry
    OBVIOUS
  <2>3. \A x \in {lane[i], lane[j], e} : x.timestamp \in Nat /\ x.sequence \in Nat
    BY <2>2 DEF Lane!Entry
  <2> QED
    BY <2>1, <2>3, BeforeTransitive
<1> HIDE DEF Early
<1>9. 0 \in Right
  <2>1. g[0] = [low |-> 0, high |-> L]
    BY <1>1, <1>7
  <2> QED
    BY <1>1, <2>1
<1>10. ASSUME NEW n \in Nat, n \in Right PROVE n + 1 \in Right
  <2> SUFFICES ASSUME n + 1 <= L
               PROVE  /\ g[n + 1] \in Bounds /\ g[n + 1].low <= g[n + 1].high
                      /\ g[n + 1].high - g[n + 1].low <= L - (n + 1)
                      /\ Around(g[n + 1].low, g[n + 1].high)
    OBVIOUS
  <2> DEFINE low == g[n].low
             high == g[n].high
             mid == (low + high) \div 2
  <2>1. /\ g[n] \in Bounds /\ low \in 0..L /\ high \in 0..L /\ low <= high
        /\ high - low <= L - n /\ Around(low, high)
    BY <1>1, <1>10
  <2>2. g[n + 1] = Narrowed(g[n])
    <3>1. n + 1 \in 0..L /\ n + 1 # 0 /\ (n + 1) - 1 = n
      BY <1>1
    <3> QED
      BY <1>7, <3>1
  <2>3. CASE low >= high
    <3>1. g[n + 1] = g[n]
      BY <2>2, <2>3 DEF Narrowed
    <3>2. high - low <= L - (n + 1)
      <4> HIDE DEF low, high
      <4>1. low \in 0..L /\ high \in 0..L /\ low = high /\ n + 1 <= L
        BY <1>1, <2>1, <2>3
      <4> QED
        BY <1>1, <4>1
    <3>3. g[n + 1].low = low /\ g[n + 1].high = high /\ g[n + 1] \in Bounds
      BY <2>1, <3>1
    <3> HIDE DEF low, high, Around, Bounds
    <3> QED
      BY <2>1, <3>2, <3>3
  <2>4. CASE low < high
    <3>1. mid \in Nat /\ low <= mid /\ mid < high /\ mid + 1 \in 1..L
      <4> HIDE DEF low, high
      <4>1. low \in Nat /\ high \in Nat /\ low < high /\ high <= L
        BY <1>1, <2>1, <2>4
      <4>2. mid \in Nat /\ low <= mid /\ mid < high
        BY <4>1, Midpoint
      <4> HIDE DEF mid
      <4> QED
        BY <1>1, <4>1, <4>2
    <3>2. CASE Early(mid + 1)
      <4>1. g[n + 1] = [g[n] EXCEPT !.low = mid + 1]
        BY <2>1, <2>2, <2>4, <3>2 DEF Narrowed
      <4> HIDE DEF mid
      <4>2. g[n + 1].low = mid + 1 /\ g[n + 1].high = high /\ g[n + 1] \in Bounds
        BY <1>1, <2>1, <3>1, <4>1
      <4>3. Around(mid + 1, high)
        BY <1>8, <2>1, <3>1, <3>2
      <4> HIDE DEF low, high, Around
      <4> QED
        BY <1>1, <2>1, <3>1, <4>2, <4>3
    <3>3. CASE ~Early(mid + 1)
      <4>1. g[n + 1] = [g[n] EXCEPT !.high = mid]
        BY <2>1, <2>2, <2>4, <3>3 DEF Narrowed
      <4> HIDE DEF mid
      <4>2. g[n + 1].low = low /\ g[n + 1].high = mid /\ g[n + 1] \in Bounds
        BY <1>1, <2>1, <3>1, <4>1
      <4>3. Around(low, mid)
        BY <1>1, <1>8, <2>1, <3>1, <3>3
      <4> HIDE DEF low, high, Around
      <4> QED
        BY <1>1, <2>1, <3>1, <4>2, <4>3
    <3> QED
      BY <3>2, <3>3
  <2> QED
    BY <1>1, <2>1, <2>3, <2>4
<1>11. Nat \subseteq Right
  <2> HIDE DEF Right
  <2> QED
    BY <1>9, <1>10, SetInduction
<1>12. /\ g[L].low \in 0..L /\ g[L].high \in 0..L /\ g[L].low = g[L].high
       /\ Around(g[L].low, g[L].high)
  <2> HIDE DEF Around, L
  <2>1. L \in Right /\ L <= L
    BY <1>1, <1>11
  <2> QED
    BY <1>1, <2>1
<1>13. \A i \in 1..L : i <= g[L].low <=> Early(i)
  BY <1>12
<1> QED
  BY <1>6, <1>12, <1>13 DEF Belongs, Early

-----------------------------------------------------------------------------
(* Arrays of entries                                                        *)

\* In the order of execution: what a drain returns, a save, what is unread.
Ranked(array) ==
    \A i, j \in 1..Len(array) : i < j => Lane!Precedes(array[i], array[j])

(* The priorities are the three numbers of CommandPriority.                 *)
LEMMA Priorities == Lane!Priority = {0, 1, 2}
BY DEF Lane!Priority, Lane!SYSTEM, Lane!PLAYER, Lane!AUTOMATION

(* No entry is before itself, in its lane                                   *)
LEMMA BeforeIrreflexive ==
    ASSUME NEW e \in Lane!Entry
    PROVE  ~Lane!Before(e, e)
BY DEF Lane!Before, Lane!Entry

(* or in the order of execution.                                            *)
LEMMA PrecedesIrreflexive ==
    ASSUME NEW e \in Lane!Entry
    PROVE  ~Lane!Precedes(e, e)
BY Priorities DEF Lane!Precedes, Lane!Before, Lane!Entry

(* The array after `splice(low, 0, entry)`.                                 *)
Spliced(lane, e, at) == SubSeq(lane, 1, at) \o <<e>> \o SubSeq(lane, at + 1, Len(lane))

SplicedAt(new, lane, e, at) ==
    /\ Len(new) = Len(lane) + 1
    /\ \A i \in 1..(Len(lane) + 1) :
          new[i] = IF i <= at THEN lane[i] ELSE IF i = at + 1 THEN e ELSE lane[i - 1]

(* What stands where after a splice.                                        *)
LEMMA SpliceShape ==
    ASSUME NEW T, NEW lane \in Seq(T), NEW e \in T, NEW at \in 0..Len(lane)
    PROVE  /\ Spliced(lane, e, at) \in Seq(T)
           /\ SplicedAt(Spliced(lane, e, at), lane, e, at)
<1> DEFINE L == Len(lane)
           front == SubSeq(lane, 1, at)
           middle == front \o <<e>>
           back == SubSeq(lane, at + 1, L)
           all == middle \o back
<1>1. L \in Nat /\ at \in 0..L
  OBVIOUS
<1>2. front \in Seq(T) /\ Len(front) = at /\ \A i \in 1..at : front[i] = lane[i]
  BY <1>1
<1>3. back \in Seq(T) /\ Len(back) = L - at /\ \A i \in 1..(L - at) : back[i] = lane[at + i]
  BY <1>1
<1> HIDE DEF front, back, L
<1>4. <<e>> \in Seq(T) /\ Len(<<e>>) = 1 /\ <<e>>[1] = e
  OBVIOUS
<1>5. middle \in Seq(T) /\ Len(middle) = at + 1
  BY <1>1, <1>2, <1>4, ConcatProperties
<1>6. \A i \in 1..(at + 1) : middle[i] = IF i <= at THEN front[i] ELSE <<e>>[i - at]
  BY <1>1, <1>2, <1>4, ConcatProperties
<1> HIDE DEF middle
<1>7. all \in Seq(T) /\ Len(all) = L + 1
  <2>1. all \in Seq(T) /\ Len(all) = Len(middle) + Len(back)
    BY <1>3, <1>5, ConcatProperties, Zenon
  <2> QED
    BY <1>1, <1>3, <1>5, <2>1
<1>8. \A i \in 1..(L + 1) : all[i] = IF i <= at + 1 THEN middle[i] ELSE back[i - (at + 1)]
  BY <1>1, <1>3, <1>5, ConcatProperties
<1>9. Spliced(lane, e, at) = all
  BY DEF Spliced, front, middle, back, L
<1> HIDE DEF all
<1>10. ASSUME NEW i \in 1..(L + 1)
       PROVE  all[i] = IF i <= at THEN lane[i] ELSE IF i = at + 1 THEN e ELSE lane[i - 1]
  <2>1. CASE i <= at
    BY <1>1, <1>2, <1>6, <1>8, <2>1
  <2>2. CASE i = at + 1
    BY <1>1, <1>4, <1>6, <1>8, <2>2
  <2>3. CASE i > at + 1
    <3>1. i - (at + 1) \in 1..(L - at) /\ at + (i - (at + 1)) = i - 1
      BY <1>1, <2>3
    <3> QED
      BY <1>1, <1>3, <1>8, <2>3, <3>1
  <2> QED
    BY <1>1, <2>1, <2>2, <2>3
<1> QED
  BY <1>7, <1>9, <1>10 DEF L, SplicedAt

(* A splice at the index the binary search found keeps the lane in order.   *)
LEMMA SpliceKeepsOrder ==
    ASSUME NEW lane \in Seq(Lane!Entry), InOrder(lane), NEW e \in Lane!Entry,
           \A i \in 1..Len(lane) : lane[i].sequence < e.sequence
    PROVE  /\ SpliceIn(lane, e) \in Seq(Lane!Entry)
           /\ InOrder(SpliceIn(lane, e))
           /\ Contents(SpliceIn(lane, e)) = Contents(lane) \cup {e}
<1> DEFINE at == InsertionIndex(lane, e)
           new == SpliceIn(lane, e)
           L == Len(lane)
<1>1. at \in 0..L /\ \A i \in 1..L : i <= at <=> Lane!Before(lane[i], e)
  BY SearchFinds DEF Belongs
<1> HIDE DEF at
<1>2. /\ new \in Seq(Lane!Entry) /\ Len(new) = L + 1
      /\ \A i \in 1..(L + 1) : new[i] = IF i <= at THEN lane[i]
                                        ELSE IF i = at + 1 THEN e ELSE lane[i - 1]
  <2>1. new = Spliced(lane, e, at)
    BY DEF SpliceIn, Spliced, at
  <2> HIDE DEF new
  <2>2. at \in 0..Len(lane)
    BY <1>1
  <2>3. Spliced(lane, e, at) \in Seq(Lane!Entry) /\ SplicedAt(Spliced(lane, e, at), lane, e, at)
    BY <2>2, SpliceShape
  <2>4. new \in Seq(Lane!Entry) /\ SplicedAt(new, lane, e, at)
    BY <2>1, <2>3
  <2> QED
    BY <2>4 DEF SplicedAt
<1> HIDE DEF new
<1>3. \A i \in 1..L : lane[i] \in Lane!Entry
  OBVIOUS
<1>4. \A i \in 1..L : ~Lane!Before(lane[i], e) => Lane!Before(e, lane[i])
  BY <1>3 DEF Lane!Before, Lane!Entry
<1>5. InOrder(new)
  <2> SUFFICES ASSUME NEW i \in 1..(L + 1), NEW j \in 1..(L + 1), i < j
               PROVE  Lane!Before(new[i], new[j])
    BY <1>2 DEF InOrder
  <2>1. CASE j <= at
    <3>1. new[i] = lane[i] /\ new[j] = lane[j] /\ i \in 1..L /\ j \in 1..L
      BY <1>1, <1>2, <2>1
    <3> QED
      BY <3>1 DEF InOrder
  <2>2. CASE j = at + 1
    <3>1. new[i] = lane[i] /\ new[j] = e /\ i \in 1..L /\ i <= at
      BY <1>1, <1>2, <2>2
    <3> QED
      BY <1>1, <3>1
  <2>3. CASE i = at + 1
    <3>1. new[j] = lane[j - 1] /\ j - 1 \in 1..L /\ ~(j - 1 <= at) /\ new[i] = e
      BY <1>1, <1>2, <2>3
    <3> QED
      BY <1>1, <1>4, <3>1
  <2>4. CASE j > at + 1 /\ i # at + 1
    <3>1. new[j] = lane[j - 1] /\ j - 1 \in 1..L
      BY <1>1, <1>2, <2>4
    <3>2. CASE i <= at
      <4>1. new[i] = lane[i] /\ i \in 1..L /\ i < j - 1
        BY <1>1, <1>2, <2>4, <3>2
      <4> QED
        BY <3>1, <4>1 DEF InOrder
    <3>3. CASE i > at + 1
      <4>1. new[i] = lane[i - 1] /\ i - 1 \in 1..L /\ i - 1 < j - 1
        BY <1>1, <1>2, <2>4, <3>3
      <4> QED
        BY <3>1, <4>1 DEF InOrder
    <3> QED
      BY <1>1, <2>4, <3>2, <3>3
  <2> QED
    BY <1>1, <2>1, <2>2, <2>3, <2>4
<1>6. Contents(new) = Contents(lane) \cup {e}
  <2>1. DOMAIN new = 1..(L + 1) /\ DOMAIN lane = 1..L /\ L \in Nat
    BY <1>2
  <2>2. \A i \in 1..(L + 1) : new[i] \in Contents(lane) \cup {e}
    <3> SUFFICES ASSUME NEW i \in 1..(L + 1)
                 PROVE  new[i] = e \/ \E j \in 1..L : new[i] = lane[j]
      BY <2>1 DEF Contents
    <3>1. CASE i <= at
      BY <1>1, <1>2, <3>1
    <3>2. CASE i > at + 1
      <4>1. new[i] = lane[i - 1] /\ i - 1 \in 1..L
        BY <1>1, <1>2, <3>2
      <4> QED
        BY <4>1
    <3>3. CASE i = at + 1
      BY <1>1, <1>2, <3>3
    <3> QED
      BY <1>1, <3>1, <3>2, <3>3
  <2>3. \A i \in 1..L : lane[i] \in Contents(new)
    <3> SUFFICES ASSUME NEW i \in 1..L PROVE \E j \in 1..(L + 1) : new[j] = lane[i]
      BY <2>1 DEF Contents
    <3>1. CASE i <= at
      <4>1. new[i] = lane[i] /\ i \in 1..(L + 1)
        BY <1>2, <3>1
      <4> QED
        BY <4>1
    <3>2. CASE i > at
      <4>1. new[i + 1] = lane[i] /\ i + 1 \in 1..(L + 1)
        BY <1>1, <1>2, <3>2
      <4> QED
        BY <4>1
    <3> QED
      BY <1>1, <3>1, <3>2
  <2>4. e \in Contents(new)
    <3>1. new[at + 1] = e /\ at + 1 \in 1..(L + 1)
      BY <1>1, <1>2
    <3> QED
      BY <2>1, <3>1 DEF Contents
  <2> QED
    BY <2>1, <2>2, <2>3, <2>4 DEF Contents
<1> QED
  BY <1>2, <1>5, <1>6 DEF new

(* `shift()` takes the head, which is nowhere else in the array.            *)
LEMMA TailFacts ==
    ASSUME NEW array \in Seq(Lane!Entry), array # <<>>,
           InOrder(array) \/ Ranked(array)
    PROVE  /\ Tail(array) \in Seq(Lane!Entry)
           /\ \A i \in 1..Len(Tail(array)) : Tail(array)[i] = array[i + 1] /\ i + 1 \in 1..Len(array)
           /\ Len(Tail(array)) = Len(array) - 1 /\ Head(array) = array[1]
           /\ Contents(Tail(array)) = Contents(array) \ {Head(array)}
<1> DEFINE L == Len(array)
           tail == Tail(array)
<1>1. L \in Nat \ {0} /\ Head(array) = array[1] /\ DOMAIN array = 1..L
  OBVIOUS
<1>2. /\ tail \in Seq(Lane!Entry) /\ Len(tail) = L - 1 /\ DOMAIN tail = 1..(L - 1)
      /\ \A i \in 1..(L - 1) : tail[i] = array[i + 1] /\ i + 1 \in 1..L
  <2>1. tail \in Seq(Lane!Entry) /\ Len(tail) = L - 1
    BY <1>1
  <2>2. \A i \in 1..(L - 1) : i + 1 \in 1..L
    BY <1>1
  <2>3. \A i \in 1..(L - 1) : tail[i] = array[i + 1]
    BY <1>1
  <2>4. DOMAIN tail = 1..(L - 1)
    BY <2>1
  <2> QED
    BY <2>1, <2>2, <2>3, <2>4
<1>3. \A i \in 2..L : array[i] # array[1]
  <2> SUFFICES ASSUME NEW i \in 2..L, array[i] = array[1] PROVE FALSE
    OBVIOUS
  <2>1. 1 \in 1..L /\ i \in 1..L /\ 1 < i /\ array[1] \in Lane!Entry
    BY <1>1
  <2>2. Lane!Before(array[1], array[i]) \/ Lane!Precedes(array[1], array[i])
    BY <2>1 DEF InOrder, Ranked
  <2> QED
    BY <2>1, <2>2, BeforeIrreflexive, PrecedesIrreflexive
<1>4. \A i \in 2..L : tail[i - 1] = array[i] /\ i - 1 \in 1..(L - 1)
  BY <1>1, <1>2
<1> HIDE DEF tail
<1>5. Contents(tail) = Contents(array) \ {array[1]}
  <2>1. ASSUME NEW e \in Contents(tail) PROVE e \in Contents(array) /\ e # array[1]
    <3>1. PICK i \in 1..(L - 1) : e = tail[i]
      BY <1>2 DEF Contents
    <3>2. e = array[i + 1] /\ i + 1 \in 1..L /\ i + 1 \in 2..L
      BY <1>1, <1>2, <3>1
    <3> QED
      BY <1>1, <1>3, <3>2 DEF Contents
  <2>2. \A e \in Contents(array) : e # array[1] => e \in Contents(tail)
    BY <1>1, <1>2, <1>4 DEF Contents
  <2> QED
    BY <2>1, <2>2
<1> QED
  BY <1>1, <1>2, <1>5 DEF tail

(* Two arrays, the first wholly before the second, one after the other.     *)
LEMMA JoinRanked ==
    ASSUME NEW a \in Seq(Lane!Entry), NEW b \in Seq(Lane!Entry), Ranked(a), Ranked(b),
           \A i \in 1..Len(a), j \in 1..Len(b) : Lane!Precedes(a[i], b[j])
    PROVE  Ranked(a \o b) /\ Contents(a \o b) = Contents(a) \cup Contents(b)
<1> DEFINE ab == a \o b
<1>1. /\ Len(a) \in Nat /\ Len(b) \in Nat /\ DOMAIN a = 1..Len(a) /\ DOMAIN b = 1..Len(b)
  OBVIOUS
<1>2. /\ ab \in Seq(Lane!Entry) /\ Len(ab) = Len(a) + Len(b)
      /\ \A i \in 1..(Len(a) + Len(b)) :
            ab[i] = IF i <= Len(a) THEN a[i] ELSE b[i - Len(a)]
  BY ConcatProperties
<1> HIDE DEF ab
<1>3. ASSUME NEW i \in 1..Len(ab), NEW j \in 1..Len(ab), i < j
      PROVE  Lane!Precedes(ab[i], ab[j])
  <2>1. CASE j <= Len(a)
    <3>1. ab[i] = a[i] /\ ab[j] = a[j] /\ i \in 1..Len(a) /\ j \in 1..Len(a)
      BY <1>1, <1>2, <1>3, <2>1
    <3> QED
      BY <1>3, <3>1 DEF Ranked
  <2>2. CASE i <= Len(a) /\ j > Len(a)
    <3>1. ab[i] = a[i] /\ ab[j] = b[j - Len(a)] /\ i \in 1..Len(a) /\ j - Len(a) \in 1..Len(b)
      BY <1>1, <1>2, <2>2
    <3> QED
      BY <3>1
  <2>3. CASE i > Len(a)
    <3>1. /\ ab[i] = b[i - Len(a)] /\ ab[j] = b[j - Len(a)]
          /\ i - Len(a) \in 1..Len(b) /\ j - Len(a) \in 1..Len(b) /\ i - Len(a) < j - Len(a)
      BY <1>1, <1>2, <1>3, <2>3
    <3> QED
      BY <3>1 DEF Ranked
  <2> QED
    BY <1>1, <1>2, <1>3, <2>1, <2>2, <2>3
<1>4. DOMAIN ab = 1..(Len(a) + Len(b))
  BY <1>2
<1>5. \A e \in Contents(ab) : e \in Contents(a) \cup Contents(b)
  <2> SUFFICES ASSUME NEW i \in 1..(Len(a) + Len(b))
               PROVE  ab[i] \in Contents(a) \cup Contents(b)
    BY <1>4 DEF Contents
  <2>1. CASE i <= Len(a)
    BY <1>1, <1>2, <2>1 DEF Contents
  <2>2. CASE i > Len(a)
    <3>1. ab[i] = b[i - Len(a)] /\ i - Len(a) \in DOMAIN b
      BY <1>1, <1>2, <2>2
    <3> QED
      BY <3>1 DEF Contents
  <2> QED
    BY <1>1, <2>1, <2>2
<1>6. \A i \in 1..Len(a) : a[i] = ab[i] /\ i \in DOMAIN ab
  BY <1>1, <1>2, <1>4
<1>7. \A i \in 1..Len(b) : b[i] = ab[i + Len(a)] /\ i + Len(a) \in DOMAIN ab
  <2> TAKE i \in 1..Len(b)
  <2>1. i + Len(a) \in 1..(Len(a) + Len(b)) /\ ~(i + Len(a) <= Len(a)) /\ (i + Len(a)) - Len(a) = i
    BY <1>1
  <2> QED
    BY <1>2, <1>4, <2>1
<1>8. Contents(a) \cup Contents(b) \subseteq Contents(ab)
  BY <1>1, <1>6, <1>7 DEF Contents
<1> QED
  BY <1>3, <1>5, <1>8 DEF Ranked, ab

(* Entries in the order of execution differ, so that lengths count them.    *)
LEMMA RankedCardinality ==
    ASSUME NEW array \in Seq(Lane!Entry), Ranked(array)
    PROVE  Cardinality(Contents(array)) = Len(array)
<1> DEFINE L == Len(array)
           S == Contents(array)
<1>1. L \in Nat /\ array \in [1..L -> S] /\ S = {array[i] : i \in 1..L}
  BY DEF Contents
<1>2. \A i, j \in 1..L : array[i] = array[j] => i = j
  <2> SUFFICES ASSUME NEW i \in 1..L, NEW j \in 1..L, i < j, array[i] = array[j] PROVE FALSE
    BY <1>1
  <2>1. Lane!Precedes(array[i], array[j]) /\ array[i] \in Lane!Entry
    BY DEF Ranked
  <2> QED
    BY <2>1, PrecedesIrreflexive
<1>3. array \in Bijection(1..L, S)
  BY <1>1, <1>2 DEF Bijection, Injection, Surjection, IsInjective
<1>4. ExistsBijection(1..L, S)
  BY <1>3 DEF ExistsBijection
<1> HIDE DEF L, S
<1>5. Cardinality(S) = L
  BY <1>1, <1>4, FS_CountingElements
<1> QED
  BY <1>5 DEF L, S

-----------------------------------------------------------------------------
(* The lanes                                                                *)

\* What every array operation keeps: lane p is in order, holds entries of
\* priority p only, and none with a sequence number still to be given.
LaneKept(lane, p, n) ==
    /\ lane \in Seq(Lane!Entry)
    /\ InOrder(lane)
    /\ \A i \in 1..Len(lane) : lane[i].priority = p /\ lane[i].sequence < n

Kept(perLane, n) ==
    /\ perLane = [p \in Lane!Priority |-> perLane[p]]
    /\ \A p \in Lane!Priority : LaneKept(perLane[p], p, n)

All(perLane) == UNION {Contents(perLane[p]) : p \in DOMAIN perLane}

(* The queued entries are the contents of the lanes, before a step and after. *)
LEMMA QueuedIsAll == Queued = All(lanes) /\ Queued' = All(lanes')
BY DEF Queued, All

(* The contents of all lanes, by lane and index.                            *)
LEMMA InAll ==
    ASSUME NEW perLane, NEW n, Kept(perLane, n)
    PROVE  /\ \A e : e \in All(perLane) <=>
                 \E p \in Lane!Priority : \E i \in 1..Len(perLane[p]) : e = perLane[p][i]
           /\ \A p \in Lane!Priority : \A i \in 1..Len(perLane[p]) :
                 perLane[p][i] \in Lane!Entry /\ perLane[p][i].priority = p
                 /\ perLane[p][i].sequence < n
<1>1. DOMAIN perLane = Lane!Priority
  BY DEF Kept
<1>2. \A p \in Lane!Priority : perLane[p] \in Seq(Lane!Entry)
  BY DEF Kept, LaneKept
<1>3. \A p \in Lane!Priority : Contents(perLane[p]) = {perLane[p][i] : i \in 1..Len(perLane[p])}
  BY <1>2 DEF Contents
<1>4. \A p \in Lane!Priority : \A i \in 1..Len(perLane[p]) : perLane[p][i] \in Lane!Entry
  BY <1>2
<1> QED
  BY <1>1, <1>3, <1>4 DEF All, Kept, LaneKept

(* The three arrays one after the other.                                    *)
LEMMA PriorityOrderFacts ==
    ASSUME NEW perLane, NEW n, Kept(perLane, n)
    PROVE  /\ InPriorityOrder(perLane) \in Seq(Lane!Entry)
           /\ Ranked(InPriorityOrder(perLane))
           /\ Contents(InPriorityOrder(perLane)) = All(perLane)
<1> DEFINE a == perLane[0]
           b == perLane[1]
           c == perLane[2]
           ab == a \o b
           all == ab \o c
<1>1. InPriorityOrder(perLane) = all
  BY DEF InPriorityOrder, PriorityOrder, Lane!SYSTEM, Lane!PLAYER, Lane!AUTOMATION
<1>2. a \in Seq(Lane!Entry) /\ b \in Seq(Lane!Entry) /\ c \in Seq(Lane!Entry)
  BY Priorities DEF Kept, LaneKept
<1>3. All(perLane) = Contents(a) \cup Contents(b) \cup Contents(c)
  <2>1. DOMAIN perLane = {0, 1, 2}
    BY Priorities DEF Kept
  <2> QED
    BY <2>1 DEF All
<1>4. /\ \A i \in 1..Len(a) : a[i].priority = 0
      /\ \A i \in 1..Len(b) : b[i].priority = 1
      /\ \A i \in 1..Len(c) : c[i].priority = 2
  BY Priorities DEF Kept, LaneKept
<1>5. InOrder(a) /\ InOrder(b) /\ InOrder(c)
  BY Priorities DEF Kept, LaneKept
<1> HIDE DEF a, b, c
<1>6. ab \in Seq(Lane!Entry)
  BY <1>2, ConcatProperties
<1>7. /\ Ranked(ab) /\ Contents(ab) = Contents(a) \cup Contents(b)
      /\ \A i \in 1..Len(ab) : ab[i].priority <= 1
  <2>1. \A i \in 1..Len(a), j \in 1..Len(b) : Lane!Precedes(a[i], b[j])
    BY <1>4 DEF Lane!Precedes
  <2>2. Ranked(a) /\ Ranked(b)
    BY <1>4, <1>5 DEF Ranked, InOrder, Lane!Precedes
  <2>3. Ranked(ab) /\ Contents(ab) = Contents(a) \cup Contents(b)
    BY <1>2, <2>1, <2>2, JoinRanked
  <2>4. \A e \in Contents(ab) : e.priority <= 1
    <3>1. \A e \in Contents(a) \cup Contents(b) : e.priority \in {0, 1}
      BY <1>2, <1>4 DEF Contents
    <3> QED
      BY <2>3, <3>1
  <2>5. \A i \in 1..Len(ab) : ab[i] \in Contents(ab)
    <3> HIDE DEF ab
    <3>1. DOMAIN ab = 1..Len(ab)
      BY <1>6
    <3> QED
      BY <3>1 DEF Contents
  <2> QED
    BY <2>3, <2>4, <2>5
<1>8. \A i \in 1..Len(ab), j \in 1..Len(c) : Lane!Precedes(ab[i], c[j])
  <2> SUFFICES ASSUME NEW i \in 1..Len(ab), NEW j \in 1..Len(c)
               PROVE  ab[i].priority < c[j].priority
    BY DEF Lane!Precedes
  <2> HIDE DEF ab
  <2>1. ab[i] \in Lane!Entry
    BY <1>6
  <2>2. ab[i].priority \in {0, 1, 2}
    BY <2>1, Priorities DEF Lane!Entry
  <2>3. ab[i].priority <= 1 /\ c[j].priority = 2
    BY <1>4, <1>7
  <2> QED
    BY <2>2, <2>3
<1>9. Ranked(c)
  BY <1>4, <1>5 DEF Ranked, InOrder, Lane!Precedes
<1> HIDE DEF ab
<1>10. all \in Seq(Lane!Entry)
  BY <1>2, <1>6, ConcatProperties
<1>11. Ranked(all) /\ Contents(all) = Contents(ab) \cup Contents(c)
  BY <1>2, <1>6, <1>7, <1>8, <1>9, JoinRanked
<1> QED
  BY <1>1, <1>3, <1>7, <1>10, <1>11

-----------------------------------------------------------------------------
(* enqueue                                                                  *)

(* The entry spliced into its lane is the one entry the queue gains.        *)
LEMMA SplicedIntoLane ==
    ASSUME NEW room, NEW n \in Nat, Kept(room, n), NEW c \in Lane!Command,
           NEW new, new = [room EXCEPT ![c.priority] = SpliceIn(@, Lane!Stamped(c, n))]
    PROVE  Kept(new, n + 1) /\ All(new) = All(room) \cup {Lane!Stamped(c, n)}
<1> DEFINE e == Lane!Stamped(c, n)
           p == c.priority
           lane == SpliceIn(room[p], e)
<1>1. /\ e \in Lane!Entry /\ e.sequence = n /\ e.priority = p /\ p \in Lane!Priority
  BY DEF Lane!Stamped, Lane!Entry, Lane!Command
<1> HIDE DEF e, p
<1>2. \A q \in Lane!Priority : LaneKept(room[q], q, n)
  BY DEF Kept
<1>3. \A q \in Lane!Priority : \A i \in 1..Len(room[q]) :
         room[q][i].priority = q /\ room[q][i].sequence < n /\ room[q][i].sequence \in Nat
  <2> TAKE q \in Lane!Priority
  <2> TAKE i \in 1..Len(room[q])
  <2>1. room[q] \in Seq(Lane!Entry) /\ room[q][i].priority = q /\ room[q][i].sequence < n
    BY <1>2 DEF LaneKept
  <2>2. room[q][i] \in Lane!Entry
    BY <2>1
  <2> QED
    BY <2>1, <2>2 DEF Lane!Entry
<1>4. /\ lane \in Seq(Lane!Entry) /\ InOrder(lane)
      /\ Contents(lane) = Contents(room[p]) \cup {e}
  <2>1. room[p] \in Seq(Lane!Entry) /\ InOrder(room[p])
    BY <1>1, <1>2 DEF LaneKept
  <2>2. \A i \in 1..Len(room[p]) : room[p][i].sequence < e.sequence
    BY <1>1, <1>3
  <2> QED
    BY <1>1, <2>1, <2>2, SpliceKeepsOrder
<1> HIDE DEF lane
<1>5. /\ DOMAIN room = Lane!Priority /\ DOMAIN new = Lane!Priority
      /\ new[p] = lane /\ \A q \in Lane!Priority : q # p => new[q] = room[q]
      /\ new = [q \in Lane!Priority |-> new[q]]
  BY <1>1 DEF Kept, lane, p, e
<1>6. LaneKept(lane, p, n + 1)
  <2>1. \A x \in Contents(lane) : x.priority = p /\ x.sequence < n + 1
    <3>1. \A x \in Contents(room[p]) : x.priority = p /\ x.sequence < n + 1
      <4>1. DOMAIN room[p] = 1..Len(room[p])
        BY <1>1, <1>2 DEF LaneKept
      <4> QED
        BY <1>1, <1>3, <4>1 DEF Contents
    <3> QED
      BY <1>1, <1>4, <3>1
  <2>2. \A i \in 1..Len(lane) : lane[i] \in Contents(lane)
    BY <1>4 DEF Contents
  <2> QED
    BY <1>4, <2>1, <2>2 DEF LaneKept
<1>7. \A q \in Lane!Priority : q # p => LaneKept(room[q], q, n + 1)
  BY <1>2, <1>3 DEF LaneKept
<1>8. Kept(new, n + 1)
  BY <1>5, <1>6, <1>7 DEF Kept
<1>9. All(new) = All(room) \cup {e}
  BY <1>1, <1>4, <1>5 DEF All
<1> QED
  BY <1>8, <1>9 DEF e

(* What `shift()` removes from a lane is in no other lane either.           *)
LEMMA ShiftedOffLane ==
    ASSUME NEW perLane, NEW n, Kept(perLane, n), NEW p \in Lane!Priority, perLane[p] # <<>>,
           NEW new, new = [perLane EXCEPT ![p] = Tail(@)]
    PROVE  Kept(new, n) /\ All(new) = All(perLane) \ {Head(perLane[p])}
<1> DEFINE lane == Tail(perLane[p])
           v == Head(perLane[p])
           L == Len(perLane[p])
<1>1. \A q \in Lane!Priority : LaneKept(perLane[q], q, n)
  BY DEF Kept
<1>2. /\ perLane[p] \in Seq(Lane!Entry) /\ InOrder(perLane[p])
      /\ \A i \in 1..L : perLane[p][i].priority = p /\ perLane[p][i].sequence < n
  BY <1>1 DEF LaneKept
<1>3. /\ lane \in Seq(Lane!Entry) /\ Len(lane) = L - 1 /\ v = perLane[p][1]
      /\ \A i \in 1..Len(lane) : lane[i] = perLane[p][i + 1] /\ i + 1 \in 1..L
      /\ Contents(lane) = Contents(perLane[p]) \ {v}
  BY <1>2, TailFacts
<1>4. v.priority = p
  BY <1>2, <1>3
<1>5. /\ DOMAIN perLane = Lane!Priority /\ DOMAIN new = Lane!Priority
      /\ new[p] = lane /\ \A q \in Lane!Priority : q # p => new[q] = perLane[q]
      /\ new = [q \in Lane!Priority |-> new[q]]
  BY DEF Kept
<1> HIDE DEF lane, v, L
<1>6. LaneKept(lane, p, n)
  <2>1. InOrder(lane)
    <3> SUFFICES ASSUME NEW i \in 1..Len(lane), NEW j \in 1..Len(lane), i < j
                 PROVE  Lane!Before(lane[i], lane[j])
      BY DEF InOrder
    <3>1. /\ lane[i] = perLane[p][i + 1] /\ lane[j] = perLane[p][j + 1]
          /\ i + 1 \in 1..L /\ j + 1 \in 1..L /\ i + 1 < j + 1
      BY <1>3
    <3> QED
      BY <1>2, <3>1 DEF InOrder, L
  <2> QED
    BY <1>2, <1>3, <2>1 DEF LaneKept
<1>7. Kept(new, n)
  BY <1>1, <1>5, <1>6 DEF Kept
<1>8. \A q \in Lane!Priority : q # p => v \notin Contents(perLane[q])
  <2> SUFFICES ASSUME NEW q \in Lane!Priority, q # p, v \in Contents(perLane[q]) PROVE FALSE
    OBVIOUS
  <2>1. PICK i \in DOMAIN perLane[q] : v = perLane[q][i]
    BY DEF Contents
  <2>2. i \in 1..Len(perLane[q])
    BY <1>1 DEF LaneKept
  <2> QED
    BY <1>1, <1>4, <2>1, <2>2 DEF LaneKept
<1>9. All(new) = All(perLane) \ {v}
  <2>1. /\ \A x : x \in All(new) <=> \E q \in Lane!Priority : x \in Contents(new[q])
        /\ \A x : x \in All(perLane) <=> \E q \in Lane!Priority : x \in Contents(perLane[q])
    BY <1>5 DEF All
  <2>2. /\ Contents(new[p]) = Contents(perLane[p]) \ {v}
        /\ \A q \in Lane!Priority : q # p => Contents(new[q]) = Contents(perLane[q])
    BY <1>3, <1>5
  <2>3. ASSUME NEW x PROVE x \in All(new) <=> x \in All(perLane) /\ x # v
    BY <1>8, <2>1, <2>2
  <2> QED
    BY <2>3
<1> QED
  BY <1>7, <1>9 DEF v

(* The scan of dropLowestPriorityUpTo finds a lane exactly when there is an *)
(* entry to drop, and the head of that lane is the victim.                  *)
LEMMA VictimIsHead ==
    ASSUME NEW n, Kept(lanes, n), NEW p \in Lane!Priority
    PROVE  /\ VictimLanes(p) = {} <=> Lane!Evictable(p) = {}
           /\ VictimLanes(p) # {} =>
                 /\ VictimLane(p) \in VictimLanes(p)
                 /\ Lane!IsVictim(Head(lanes[VictimLane(p)]), p)
<1>1. \A q \in Lane!Priority : LaneKept(lanes[q], q, n)
  BY DEF Kept
<1>2. \A e : e \in Queued <=>
         \E q \in Lane!Priority : \E i \in 1..Len(lanes[q]) : e = lanes[q][i]
  BY InAll, QueuedIsAll
<1>3. ASSUME NEW q \in Lane!Priority
      PROVE  /\ lanes[q] \in Seq(Lane!Entry) /\ InOrder(lanes[q])
             /\ \A i \in 1..Len(lanes[q]) : lanes[q][i].priority = q
  BY <1>1 DEF LaneKept
<1>4. ASSUME NEW q \in VictimLanes(p)
      PROVE  /\ q \in Lane!Priority /\ q >= p /\ 1 \in 1..Len(lanes[q])
             /\ Head(lanes[q]) = lanes[q][1] /\ lanes[q][1] \in Lane!Evictable(p)
  <2>1. q \in Lane!Priority /\ q >= p /\ lanes[q] # <<>>
    BY DEF VictimLanes
  <2>2. 1 \in 1..Len(lanes[q]) /\ Head(lanes[q]) = lanes[q][1]
    BY <1>3, <2>1
  <2>3. lanes[q][1] \in Queued /\ lanes[q][1].priority = q
    BY <1>2, <1>3, <2>1, <2>2
  <2> QED
    BY <2>1, <2>2, <2>3 DEF Lane!Evictable
<1>5. ASSUME NEW e \in Lane!Evictable(p)
      PROVE  \E q \in VictimLanes(p) : \E i \in 1..Len(lanes[q]) :
                e = lanes[q][i] /\ e.priority = q
  <2>1. e \in Queued /\ e.priority >= p
    BY DEF Lane!Evictable
  <2>2. PICK q \in Lane!Priority : \E i \in 1..Len(lanes[q]) : e = lanes[q][i]
    BY <1>2, <2>1
  <2>3. e.priority = q /\ lanes[q] # <<>>
    BY <1>3, <2>2
  <2> QED
    BY <2>1, <2>2, <2>3 DEF VictimLanes
<1>6. VictimLanes(p) = {} <=> Lane!Evictable(p) = {}
  BY <1>4, <1>5
<1>7. ASSUME VictimLanes(p) # {}
      PROVE  VictimLane(p) \in VictimLanes(p) /\ \A r \in VictimLanes(p) : r <= VictimLane(p)
  <2>1. VictimLanes(p) \subseteq {0, 1, 2}
    BY Priorities DEF VictimLanes
  <2>2. \E q \in VictimLanes(p) : \A r \in VictimLanes(p) : r <= q
    BY <1>7, <2>1
  <2> QED
    BY <2>2 DEF VictimLane
<1>8. ASSUME VictimLanes(p) # {}
      PROVE  Lane!IsVictim(Head(lanes[VictimLane(p)]), p)
  <2> DEFINE q == VictimLane(p)
             v == Head(lanes[q])
  <2>1. q \in VictimLanes(p) /\ \A r \in VictimLanes(p) : r <= q
    BY <1>7, <1>8
  <2> HIDE DEF q
  <2>2. q \in Lane!Priority /\ 1 \in 1..Len(lanes[q]) /\ v = lanes[q][1] /\ v \in Lane!Evictable(p)
    BY <1>4, <2>1
  <2>3. v.priority = q
    BY <1>3, <2>2
  <2> HIDE DEF v
  <2>4. ASSUME NEW e \in Lane!Evictable(p)
        PROVE  e.priority <= q /\ (e.priority = q => (e = v \/ Lane!Before(v, e)))
    <3>1. PICK r \in VictimLanes(p) : \E i \in 1..Len(lanes[r]) : e = lanes[r][i] /\ e.priority = r
      BY <1>5
    <3>2. r <= q
      BY <2>1
    <3>3. ASSUME r = q PROVE e = v \/ Lane!Before(v, e)
      <4>1. PICK i \in 1..Len(lanes[q]) : e = lanes[q][i]
        BY <3>1, <3>3
      <4>2. CASE i = 1
        BY <2>2, <4>1, <4>2
      <4>3. CASE i # 1
        <5>1. 1 < i
          BY <4>3
        <5> QED
          BY <1>3, <2>2, <4>1, <5>1 DEF InOrder
      <4> QED
        BY <4>2, <4>3
    <3> QED
      BY <3>1, <3>2, <3>3
  <2>5. Lane!IsVictim(v, p)
    BY <2>2, <2>3, <2>4 DEF Lane!IsVictim
  <2> QED
    BY <2>5 DEF v, q
<1> QED
  BY <1>6, <1>7, <1>8

(* An enqueue does to the queued entries what CommandQueue says it does.    *)
LEMMA EnqueueMaps ==
    ASSUME Kept(lanes, nextSequence), nextSequence \in Nat, NEW c \in Lane!Command, Enqueue(c)
    PROVE  /\ Lane!Enqueue(c)
           /\ Kept(lanes', nextSequence') /\ nextSequence' \in Nat
<1> DEFINE p == c.priority
           e == Lane!Stamped(c, nextSequence)
<1>1. p \in Lane!Priority
  BY DEF Lane!Command
<1>2. /\ VictimLanes(p) = {} <=> Lane!Evictable(p) = {}
      /\ VictimLanes(p) # {} =>
            /\ VictimLane(p) \in VictimLanes(p)
            /\ Lane!IsVictim(Head(lanes[VictimLane(p)]), p)
  BY <1>1, VictimIsHead
<1>3. CASE EnqueueRefused(c)
  <2>1. /\ lanes' = lanes /\ nextSequence' = nextSequence /\ totalSize' = totalSize
        /\ ~Lane!Authorized(c) \/ (totalSize >= MaxSize /\ VictimLanes(p) = {})
    BY <1>3 DEF EnqueueRefused
  <2>2. Queued' = Queued
    BY <2>1, QueuedIsAll
  <2>3. Lane!EnqueueRefused(c)
    BY <1>2, <2>1, <2>2 DEF Lane!EnqueueRefused, Lane!queueVars
  <2> QED
    BY <2>1, <2>3 DEF Lane!Enqueue
<1>4. CASE EnqueueWithRoom(c)
  <2>1. /\ Lane!Authorized(c) /\ totalSize < MaxSize /\ totalSize' = totalSize + 1
        /\ lanes' = [lanes EXCEPT ![p] = SpliceIn(@, e)] /\ nextSequence' = nextSequence + 1
    BY <1>4 DEF EnqueueWithRoom, Admit
  <2>2. Kept(lanes', nextSequence + 1) /\ All(lanes') = All(lanes) \cup {e}
    BY <2>1, SplicedIntoLane
  <2>3. Queued' = Queued \cup {e}
    BY <2>2, QueuedIsAll
  <2>4. Lane!EnqueueWithRoom(c)
    BY <2>1, <2>3 DEF Lane!EnqueueWithRoom, Lane!Insert
  <2> QED
    BY <2>1, <2>2, <2>4 DEF Lane!Enqueue
<1>5. CASE EnqueueFull(c)
  <2> DEFINE q == VictimLane(p)
             v == Head(lanes[q])
             room == [lanes EXCEPT ![q] = Tail(@)]
  <2>1. /\ Lane!Authorized(c) /\ totalSize >= MaxSize /\ totalSize' = (totalSize - 1) + 1
        /\ lanes' = [room EXCEPT ![p] = SpliceIn(@, e)] /\ nextSequence' = nextSequence + 1
        /\ VictimLanes(p) # {}
    BY <1>5 DEF EnqueueFull, Admit
  <2>2. q \in Lane!Priority /\ lanes[q] # <<>> /\ Lane!IsVictim(v, p)
    BY <1>2, <2>1 DEF VictimLanes
  <2> HIDE DEF q
  <2>3. Kept(room, nextSequence) /\ All(room) = All(lanes) \ {v}
    BY <2>2, ShiftedOffLane
  <2> HIDE DEF room
  <2>4. Kept(lanes', nextSequence + 1) /\ All(lanes') = All(room) \cup {e}
    BY <2>1, <2>3, SplicedIntoLane
  <2>5. Queued' = (Queued \ {v}) \cup {e}
    BY <2>3, <2>4, QueuedIsAll
  <2> HIDE DEF v
  <2>6. v \in Queued
    BY <2>2 DEF Lane!IsVictim, Lane!Evictable
  <2>7. Lane!InsertEvicting(c, v)
    BY <2>1, <2>5 DEF Lane!InsertEvicting
  <2>8. Lane!EnqueueFull(c)
    BY <2>1, <2>2, <2>6, <2>7 DEF Lane!EnqueueFull
  <2> QED
    BY <2>1, <2>4, <2>8 DEF Lane!Enqueue
<1> QED
  BY <1>3, <1>4, <1>5 DEF Enqueue

-----------------------------------------------------------------------------
(* dequeueUpToStep, exportForSave, restoreFromSave                          *)

(* What is picked out of a lane is in the order of the lane,                *)
LEMMA PickedInOrder ==
    ASSUME NEW array \in Seq(Lane!Entry), InOrder(array), NEW S,
           NEW picked \in Seq(Lane!Entry), Picked(picked, array, S, Len(array))
    PROVE  InOrder(picked)
<1> DEFINE R == {pair \in Lane!Entry \X Lane!Entry : Lane!Before(pair[1], pair[2])}
<1>1. \A i \in 1..Len(array) : array[i] \in Lane!Entry
  OBVIOUS
<1>2. \A i, j \in 1..Len(array) : i < j => <<array[i], array[j]>> \in R
  BY <1>1 DEF InOrder
<1>3. \A a, b : <<a, b>> \in R => Lane!Before(a, b)
  OBVIOUS
<1> HIDE DEF R
<1>4. \A i, j \in 1..Len(picked) : i < j => <<picked[i], picked[j]>> \in R
  BY <1>2, PickedOrder
<1> QED
  BY <1>3, <1>4 DEF InOrder

(* and what is picked in the order of execution stays in it.                *)
LEMMA PickedRanked ==
    ASSUME NEW array \in Seq(Lane!Entry), Ranked(array), NEW S,
           NEW picked \in Seq(Lane!Entry), Picked(picked, array, S, Len(array))
    PROVE  Ranked(picked)
<1> DEFINE R == {pair \in Lane!Entry \X Lane!Entry : Lane!Precedes(pair[1], pair[2])}
<1>1. \A i \in 1..Len(array) : array[i] \in Lane!Entry
  OBVIOUS
<1>2. \A i, j \in 1..Len(array) : i < j => <<array[i], array[j]>> \in R
  BY <1>1 DEF Ranked
<1>3. \A a, b : <<a, b>> \in R => Lane!Precedes(a, b)
  OBVIOUS
<1> HIDE DEF R
<1>4. \A i, j \in 1..Len(picked) : i < j => <<picked[i], picked[j]>> \in R
  BY <1>2, PickedOrder
<1> QED
  BY <1>3, <1>4 DEF Ranked

(* Lanes picked out of the lanes are lanes.                                 *)
LEMMA PickedLanes ==
    ASSUME NEW perLane, NEW n, Kept(perLane, n), NEW S, NEW new,
           new = [p \in Lane!Priority |-> new[p]],
           \A p \in Lane!Priority :
              new[p] \in Seq(Lane!Entry) /\ Picked(new[p], perLane[p], S[p], Len(perLane[p]))
    PROVE  /\ Kept(new, n)
           /\ \A e : e \in All(new) <=>
                 \E p \in Lane!Priority : e \in Contents(perLane[p]) /\ e \in S[p]
<1>1. ASSUME NEW p \in Lane!Priority
      PROVE  LaneKept(new[p], p, n) /\ Contents(new[p]) = {e \in Contents(perLane[p]) : e \in S[p]}
  <2> DEFINE old == perLane[p]
             now == new[p]
             In == S[p]
  <2>1. /\ old \in Seq(Lane!Entry) /\ InOrder(old)
        /\ \A i \in 1..Len(old) : old[i].priority = p /\ old[i].sequence < n
    BY DEF Kept, LaneKept
  <2>2. now \in Seq(Lane!Entry) /\ Picked(now, old, In, Len(old))
    OBVIOUS
  <2> HIDE DEF old, now, In
  <2>3. InOrder(now)
    BY <2>1, <2>2, PickedInOrder
  <2>4. DOMAIN old = 1..Len(old) /\ DOMAIN now = 1..Len(now)
    BY <2>1, <2>2
  <2>5. Contents(now) = {e \in Contents(old) : e \in In}
    BY <2>2, <2>4, PickedContents
  <2>6. \A e \in Contents(old) : e.priority = p /\ e.sequence < n
    BY <2>1, <2>4 DEF Contents
  <2>7. \A i \in 1..Len(now) : now[i] \in Contents(now)
    BY <2>4 DEF Contents
  <2>8. LaneKept(now, p, n)
    BY <2>2, <2>3, <2>5, <2>6, <2>7 DEF LaneKept
  <2> QED
    BY <2>5, <2>8 DEF old, now, In
<1>2. Kept(new, n)
  BY <1>1 DEF Kept
<1>3. DOMAIN new = Lane!Priority
  OBVIOUS
<1>4. \A e : e \in All(new) <=> \E p \in Lane!Priority : e \in Contents(new[p])
  BY <1>3 DEF All
<1> QED
  BY <1>1, <1>2, <1>4

(* The instance of CommandQueue counts the way this module does.            *)
LEMMA SameCardinality == \A S : Lane!Cardinality(S) = Cardinality(S)
BY DEF Cardinality, Lane!Cardinality

(* A drain takes from the queue what it returns, and returns it in order.   *)
LEMMA DequeueMaps ==
    ASSUME Kept(lanes, nextSequence), NEW step \in Int, DequeueUpToStep(step)
    PROVE  /\ Lane!DequeueUpToStep(step)
           /\ Kept(lanes', nextSequence')
           /\ drained' \in Seq(Lane!Entry) /\ Ranked(drained')
<1> DEFINE due == [p \in Lane!Priority |-> DueOf(lanes[p], step)]
           Late == [p \in Lane!Priority |-> {e \in Lane!Entry : e.step > step}]
           Early == [p \in Lane!Priority |-> {e \in Contents(lanes[p]) : e.step <= step}]
<1>1. /\ totalSize # 0 /\ nextSequence' = nextSequence
      /\ lanes' = [p \in Lane!Priority |-> Compacted(lanes[p], step)]
      /\ drained' = InPriorityOrder(due) /\ totalSize' = totalSize - Len(drained')
  BY DEF DequeueUpToStep
<1>2. \A p \in Lane!Priority : lanes[p] \in Seq(Lane!Entry)
  BY DEF Kept, LaneKept
<1>3. \A e \in Lane!Entry : e.step \in Int
  BY DEF Lane!Entry
<1>4. \A e : e \in Queued <=> \E p \in Lane!Priority : e \in Contents(lanes[p])
  BY QueuedIsAll DEF All, Kept
<1>5. \A p \in Lane!Priority : \A e \in Contents(lanes[p]) : e \in Lane!Entry
  <2> TAKE p \in Lane!Priority
  <2>1. lanes[p] \in Seq(Lane!Entry)
    BY <1>2
  <2> QED
    BY <2>1 DEF Contents
<1>6. /\ Kept(lanes', nextSequence)
      /\ \A e : e \in All(lanes') <=> e \in Queued /\ e.step > step
  <2>1. ASSUME NEW p \in Lane!Priority
        PROVE  /\ Compacted(lanes[p], step) \in Seq(Lane!Entry)
               /\ Picked(Compacted(lanes[p], step), lanes[p], {e \in Lane!Entry : e.step > step},
                         Len(lanes[p]))
    BY <1>2, <1>3, CompactedPicks
  <2>2. /\ lanes' = [p \in Lane!Priority |-> lanes'[p]]
        /\ \A p \in Lane!Priority : lanes'[p] = Compacted(lanes[p], step)
    BY <1>1
  <2>3. \A p \in Lane!Priority : Late[p] = {e \in Lane!Entry : e.step > step}
    OBVIOUS
  <2> HIDE DEF Late
  <2>4. \A p \in Lane!Priority :
           lanes'[p] \in Seq(Lane!Entry) /\ Picked(lanes'[p], lanes[p], Late[p], Len(lanes[p]))
    BY <2>1, <2>2, <2>3
  <2>5. /\ Kept(lanes', nextSequence)
        /\ \A e : e \in All(lanes') <=>
              \E p \in Lane!Priority : e \in Contents(lanes[p]) /\ e \in Late[p]
    BY <2>2, <2>4, PickedLanes
  <2> QED
    BY <1>4, <1>5, <2>3, <2>5
<1>7. /\ Kept(due, nextSequence)
      /\ \A e : e \in All(due) <=> e \in Queued /\ e.step <= step
  <2>1. /\ due = [p \in Lane!Priority |-> due[p]]
        /\ \A p \in Lane!Priority : Early[p] = {e \in Contents(lanes[p]) : e.step <= step}
        /\ \A p \in Lane!Priority : due[p] = Selected(lanes[p], Early[p])
    BY DEF DueOf
  <2> HIDE DEF due, Early
  <2>2. \A p \in Lane!Priority :
           due[p] \in Seq(Lane!Entry) /\ Picked(due[p], lanes[p], Early[p], Len(lanes[p]))
    BY <1>2, <2>1, SelectedPicks
  <2>3. /\ Kept(due, nextSequence)
        /\ \A e : e \in All(due) <=>
              \E p \in Lane!Priority : e \in Contents(lanes[p]) /\ e \in Early[p]
    BY <2>1, <2>2, PickedLanes
  <2> QED
    BY <1>4, <2>1, <2>3
<1> HIDE DEF due
<1>8. /\ drained' \in Seq(Lane!Entry) /\ Ranked(drained') /\ Contents(drained') = All(due)
  BY <1>1, <1>7, PriorityOrderFacts
<1>9. Contents(drained') = Lane!Due(step)
  BY <1>7, <1>8 DEF Lane!Due
<1>10. Len(drained') = Cardinality(Lane!Due(step))
  BY <1>8, <1>9, RankedCardinality
<1>11. Queued' = Queued \ Lane!Due(step)
  <2>1. \A e \in Queued : e.step \in Int
    BY <1>3, <1>4, <1>5
  <2> QED
    BY <1>6, <2>1, QueuedIsAll DEF Lane!Due
<1>12. Lane!Drained(step) = Lane!Due(step)
  BY <1>1 DEF Lane!Drained
<1>13. Lane!DequeueUpToStep(step)
  BY <1>1, <1>10, <1>11, <1>12, SameCardinality DEF Lane!DequeueUpToStep
<1> QED
  BY <1>1, <1>6, <1>8, <1>13

(* An emptied queue has empty lanes.                                        *)
LEMMA ClearMaps ==
    ASSUME Kept(lanes, nextSequence), Clear
    PROVE  Lane!Clear /\ Kept(lanes', nextSequence') /\ nextSequence' = nextSequence
<1>1. /\ lanes' = IF totalSize = 0 THEN lanes ELSE [p \in Lane!Priority |-> <<>>]
      /\ totalSize' = 0 /\ nextSequence' = nextSequence
  BY DEF Clear
<1>2. CASE totalSize = 0
  <2>1. Queued' = Queued
    BY <1>1, <1>2, QueuedIsAll
  <2> QED
    BY <1>1, <1>2, <2>1 DEF Lane!Clear
<1>3. CASE totalSize # 0
  <2>1. Queued' = {}
    <3>1. \A p \in DOMAIN lanes' : Contents(lanes'[p]) = {}
      BY <1>1, <1>3 DEF Contents
    <3> QED
      BY <3>1, QueuedIsAll DEF All
  <2>2. \A n : LaneKept(<<>>, 0, n) /\ LaneKept(<<>>, 1, n) /\ LaneKept(<<>>, 2, n)
    BY DEF LaneKept, InOrder
  <2>3. Kept(lanes', nextSequence)
    BY <1>1, <1>3, <2>2, Priorities DEF Kept
  <2> QED
    BY <1>1, <1>3, <2>1, <2>3 DEF Lane!Clear
<1> QED
  BY <1>2, <1>3

(* A save is what may be saved of the queue, in the order of execution.     *)
LEMMA ExportMaps ==
    ASSUME Kept(lanes, nextSequence), ExportForSave
    PROVE  /\ Lane!ExportForSave
           /\ save' \in Seq(Lane!Entry) /\ Ranked(save')
<1> DEFINE all == InPriorityOrder(lanes)
           May == {e \in Queued : e.type \in Serializable}
<1>1. /\ save' = IF totalSize = 0 THEN <<>> ELSE Selected(all, May)
      /\ unread' = unread /\ rebase' = rebase /\ inRestore' = inRestore
  BY DEF ExportForSave
<1>2. all \in Seq(Lane!Entry) /\ Ranked(all) /\ Contents(all) = Queued
  BY PriorityOrderFacts, QueuedIsAll
<1> HIDE DEF all
<1>3. Contents(unread)' = Contents(unread)
  BY <1>1 DEF Contents
<1>4. CASE totalSize = 0
  <2>1. save' = <<>>
    BY <1>1, <1>4
  <2>2. Contents(save)' = {}
    BY <2>1 DEF Contents
  <2>3. Contents(save)' = {e \in Queued : totalSize # 0 /\ e.type \in Serializable}
    BY <1>4, <2>2
  <2>4. Lane!ExportForSave
    BY <1>1, <1>3, <2>3 DEF Lane!ExportForSave
  <2>5. <<>> \in Seq(Lane!Entry) /\ Ranked(<<>>)
    BY DEF Ranked
  <2> QED
    BY <2>1, <2>4, <2>5
<1>5. CASE totalSize # 0
  <2>1. save' = Selected(all, May)
    BY <1>1, <1>5
  <2> HIDE DEF May
  <2>2. save' \in Seq(Lane!Entry) /\ Picked(save', all, May, Len(all))
    BY <1>2, <2>1, SelectedPicks
  <2>3. Ranked(save')
    BY <1>2, <2>2, PickedRanked
  <2>4. Contents(save)' = {e \in Contents(all) : e \in May}
    <3>1. DOMAIN all = 1..Len(all) /\ DOMAIN (save') = 1..Len(save')
      BY <1>2, <2>2
    <3>2. Contents(save') = {e \in Contents(all) : e \in May}
      BY <2>2, <3>1, PickedContents
    <3> QED
      BY <3>2 DEF Contents
  <2>5. Contents(save)' = {e \in Queued : totalSize # 0 /\ e.type \in Serializable}
    BY <1>2, <1>5, <2>4 DEF May
  <2> QED
    BY <1>1, <1>3, <2>2, <2>3, <2>5 DEF Lane!ExportForSave
<1> QED
  BY <1>4, <1>5

(* The head of what is unread is first in the order of execution, and what  *)
(* is re-enqueued for it is a command.                                      *)
LEMMA HeadIsNext ==
    ASSUME unread \in Seq(Lane!Entry), Ranked(unread), unread # <<>>, rebase \in Int
    PROVE  /\ Head(unread) \in Contents(unread)
           /\ \A f \in Contents(unread) \ {Head(unread)} : Lane!Precedes(Head(unread), f)
           /\ Lane!Restored(Head(unread)) \in Lane!Command
           /\ Contents(Tail(unread)) = Contents(unread) \ {Head(unread)}
           /\ Tail(unread) \in Seq(Lane!Entry) /\ Ranked(Tail(unread))
<1>1. DOMAIN unread = 1..Len(unread) /\ 1 \in 1..Len(unread) /\ Head(unread) = unread[1]
  OBVIOUS
<1>2. Head(unread) \in Contents(unread) /\ Head(unread) \in Lane!Entry
  BY <1>1 DEF Contents
<1>3. ASSUME NEW f \in Contents(unread), f # Head(unread)
      PROVE  Lane!Precedes(Head(unread), f)
  <2>1. PICK i \in 1..Len(unread) : f = unread[i]
    BY <1>1 DEF Contents
  <2>2. 1 < i
    BY <1>1, <1>3, <2>1
  <2> QED
    BY <1>1, <2>1, <2>2 DEF Ranked
<1>4. Lane!Restored(Head(unread)) \in Lane!Command
  BY <1>2 DEF Lane!Restored, Lane!RebasedStep, Lane!Entry, Lane!Command
<1>5. /\ Tail(unread) \in Seq(Lane!Entry)
      /\ \A i \in 1..Len(Tail(unread)) :
            Tail(unread)[i] = unread[i + 1] /\ i + 1 \in 1..Len(unread)
      /\ Contents(Tail(unread)) = Contents(unread) \ {Head(unread)}
  BY TailFacts
<1>6. Ranked(Tail(unread))
  <2> DEFINE tail == Tail(unread)
  <2> SUFFICES ASSUME NEW i \in 1..Len(tail), NEW j \in 1..Len(tail), i < j
               PROVE  Lane!Precedes(tail[i], tail[j])
    BY DEF Ranked
  <2>1. /\ tail[i] = unread[i + 1] /\ tail[j] = unread[j + 1] /\ i + 1 < j + 1
        /\ i + 1 \in 1..Len(unread) /\ j + 1 \in 1..Len(unread)
    BY <1>5
  <2> QED
    BY <2>1 DEF Ranked
<1> QED
  BY <1>2, <1>3, <1>4, <1>5, <1>6

-----------------------------------------------------------------------------
(* The inductive invariant, and what every step of the arrays implements    *)

Execution(array) == array \in Seq(Lane!Entry) /\ Ranked(array)

LanesInv ==
    /\ Kept(lanes, nextSequence) /\ nextSequence \in Nat
    /\ Execution(drained) /\ Execution(save) /\ Execution(unread)
    /\ rebase \in Int

(* A new queue satisfies the invariant and is an initial state of the       *)
(* specification.                                                           *)
LEMMA LanesInit == Init => LanesInv /\ Lane!Init
<1> SUFFICES ASSUME Init PROVE LanesInv /\ Lane!Init
  OBVIOUS
<1>1. /\ lanes = [p \in Lane!Priority |-> <<>>] /\ nextSequence = 0 /\ totalSize = 0
      /\ drained = <<>> /\ save = <<>> /\ unread = <<>> /\ rebase = 0 /\ inRestore = FALSE
  BY DEF Init
<1>2. \A n : LaneKept(<<>>, 0, n) /\ LaneKept(<<>>, 1, n) /\ LaneKept(<<>>, 2, n)
  BY DEF LaneKept, InOrder
<1>3. Kept(lanes, nextSequence)
  BY <1>1, <1>2, Priorities DEF Kept
<1>4. Execution(<<>>)
  BY DEF Execution, Ranked
<1>5. LanesInv
  BY <1>1, <1>3, <1>4 DEF LanesInv
<1>6. Contents(<<>>) = {}
  BY DEF Contents
<1>7. Queued = {}
  BY <1>1, <1>6 DEF Queued
<1>8. Lane!Init
  BY <1>1, <1>6, <1>7 DEF Lane!Init, Lane!QueueInit
<1> QED
  BY <1>5, <1>8

(* Every step keeps the invariant and is a step of the specification or     *)
(* leaves its variables alone.                                              *)
LEMMA LanesStep ==
    ASSUME LanesAssumption, LanesInv, [Next]_vars
    PROVE  LanesInv' /\ [Lane!Next]_Lane!vars
<1>1. /\ Kept(lanes, nextSequence) /\ nextSequence \in Nat
      /\ Execution(drained) /\ Execution(save) /\ Execution(unread) /\ rebase \in Int
  BY DEF LanesInv
<1>2. Execution(<<>>)
  BY DEF Execution, Ranked
<1>3. /\ Timestamps \subseteq Nat /\ Steps \subseteq Nat
      /\ \A a, b \in Steps : a \in Int /\ a - b \in Int
  BY DEF LanesAssumption
<1>4. CASE CallerEnqueues /\ drained' = <<>>
  <2>1. /\ ~inRestore /\ nextSequence < MaxSequence
        /\ save' = save /\ unread' = unread /\ rebase' = rebase /\ inRestore' = inRestore
    BY <1>4 DEF CallerEnqueues, saveVars
  <2>2. PICK t \in Types, x \in Payloads, p \in Lane!Priority, ts \in Timestamps, s \in Steps :
           /\ \A e \in Queued \cup Contents(save) : e.payload # x
           /\ Enqueue([type |-> t, payload |-> x, priority |-> p, timestamp |-> ts, step |-> s])
    BY <1>4 DEF CallerEnqueues
  <2> DEFINE c == [type |-> t, payload |-> x, priority |-> p, timestamp |-> ts, step |-> s]
  <2>3. c \in Lane!Command
    BY <1>3 DEF Lane!Command
  <2> HIDE DEF c
  <2>4. Lane!Enqueue(c) /\ Kept(lanes', nextSequence') /\ nextSequence' \in Nat
    BY <1>1, <2>2, <2>3, EnqueueMaps DEF c
  <2>5. LanesInv'
    BY <1>1, <1>2, <1>4, <2>1, <2>4 DEF LanesInv
  <2>6. Contents(save)' = Contents(save) /\ Contents(unread)' = Contents(unread)
    BY <2>1 DEF Contents
  <2>7. Lane!CallerEnqueues
    BY <2>1, <2>2, <2>4, <2>6 DEF Lane!CallerEnqueues, Lane!Idle, Lane!saveVars, c
  <2> QED
    BY <2>5, <2>7 DEF Lane!Next
<1>5. CASE CallerDequeues
  <2>1. /\ ~inRestore
        /\ save' = save /\ unread' = unread /\ rebase' = rebase /\ inRestore' = inRestore
    BY <1>5 DEF CallerDequeues, saveVars
  <2>2. Contents(save)' = Contents(save) /\ Contents(unread)' = Contents(unread)
    BY <2>1 DEF Contents
  <2>3. CASE DequeueNothing
    <3>1. /\ lanes' = lanes /\ nextSequence' = nextSequence /\ totalSize' = totalSize
          /\ drained' = <<>>
      BY <2>3 DEF DequeueNothing
    <3>2. LanesInv'
      BY <1>1, <1>2, <2>1, <3>1 DEF LanesInv
    <3>3. Queued' = Queued
      BY <3>1, QueuedIsAll
    <3>4. UNCHANGED Lane!vars
      BY <2>1, <2>2, <3>1, <3>3 DEF Lane!vars
    <3> QED
      BY <3>2, <3>4
  <2>4. CASE \E s \in Steps : DequeueUpToStep(s)
    <3>1. PICK s \in Steps : DequeueUpToStep(s)
      BY <2>4
    <3>2. s \in Int
      BY <1>3
    <3>3. /\ Lane!DequeueUpToStep(s) /\ Kept(lanes', nextSequence')
          /\ Execution(drained') /\ nextSequence' = nextSequence
      BY <1>1, <3>1, <3>2, DequeueMaps DEF Execution, DequeueUpToStep
    <3>4. LanesInv'
      BY <1>1, <2>1, <3>3 DEF LanesInv
    <3>5. Lane!CallerDequeues
      BY <2>1, <2>2, <3>3 DEF Lane!CallerDequeues, Lane!Idle, Lane!saveVars
    <3> QED
      BY <3>4, <3>5 DEF Lane!Next
  <2> QED
    BY <1>5, <2>3, <2>4 DEF CallerDequeues
<1>6. CASE CallerClears /\ drained' = <<>>
  <2>1. /\ ~inRestore /\ Clear
        /\ save' = save /\ unread' = unread /\ rebase' = rebase /\ inRestore' = inRestore
    BY <1>6 DEF CallerClears, saveVars
  <2>2. Contents(save)' = Contents(save) /\ Contents(unread)' = Contents(unread)
    BY <2>1 DEF Contents
  <2>3. Lane!Clear /\ Kept(lanes', nextSequence') /\ nextSequence' = nextSequence
    BY <1>1, <2>1, ClearMaps
  <2>4. LanesInv'
    BY <1>1, <1>2, <1>6, <2>1, <2>3 DEF LanesInv
  <2>5. Lane!CallerClears
    BY <2>1, <2>2, <2>3 DEF Lane!CallerClears, Lane!Idle, Lane!saveVars
  <2> QED
    BY <2>4, <2>5 DEF Lane!Next
<1>7. CASE CallerSaves /\ drained' = <<>>
  <2>1. /\ ~inRestore /\ ExportForSave
        /\ lanes' = lanes /\ nextSequence' = nextSequence /\ totalSize' = totalSize
        /\ unread' = unread /\ rebase' = rebase
    BY <1>7 DEF CallerSaves, ExportForSave
  <2>2. Lane!ExportForSave /\ Execution(save')
    BY <1>1, <2>1, ExportMaps DEF Execution
  <2>3. LanesInv'
    BY <1>1, <1>2, <1>7, <2>1, <2>2 DEF LanesInv
  <2>4. Queued' = Queued
    BY <2>1, QueuedIsAll
  <2>5. Lane!CallerSaves
    BY <2>1, <2>2, <2>4 DEF Lane!CallerSaves, Lane!Idle, Lane!queueVars
  <2> QED
    BY <2>3, <2>5 DEF Lane!Next
<1>8. CASE CallerRestores /\ drained' = <<>>
  <2>1. ~inRestore /\ nextSequence + Len(save) <= MaxSequence
    BY <1>8 DEF CallerRestores
  <2>2. PICK savedStep \in Steps, currentStep \in Steps : RestoreBegin(currentStep - savedStep)
    BY <1>8 DEF CallerRestores
  <2> DEFINE delta == currentStep - savedStep
  <2>3. delta \in Int
    BY <1>3
  <2>4. /\ Clear /\ unread' = save /\ save' = save /\ rebase' = delta /\ inRestore' = TRUE
    BY <2>2 DEF RestoreBegin
  <2>5. Lane!Clear /\ Kept(lanes', nextSequence') /\ nextSequence' = nextSequence
    BY <1>1, <2>4, ClearMaps
  <2>6. LanesInv'
    BY <1>1, <1>2, <1>8, <2>3, <2>4, <2>5 DEF LanesInv
  <2>7. Contents(save)' = Contents(save) /\ Contents(unread)' = Contents(save)
    BY <2>4 DEF Contents
  <2>8. Lane!RestoreBegin(delta)
    BY <2>4, <2>5, <2>7 DEF Lane!RestoreBegin
  <2>9. nextSequence + Lane!Cardinality(Contents(save)) <= MaxSequence
    BY <1>1, <2>1, RankedCardinality, SameCardinality DEF Execution
  <2>10. Lane!CallerRestores
    BY <2>1, <2>8, <2>9 DEF Lane!CallerRestores, Lane!Idle
  <2> QED
    BY <2>6, <2>10 DEF Lane!Next
<1>9. CASE RestoreNext /\ drained' = <<>>
  <2> DEFINE e == Head(unread)
             c == Lane!Restored(e)
  <2>1. /\ unread # <<>> /\ Enqueue(c) /\ unread' = Tail(unread)
        /\ save' = save /\ rebase' = rebase /\ inRestore' = inRestore
    BY <1>9 DEF RestoreNext
  <2>2. /\ e \in Contents(unread) /\ c \in Lane!Command
        /\ \A f \in Contents(unread) \ {e} : Lane!Precedes(e, f)
        /\ Contents(Tail(unread)) = Contents(unread) \ {e} /\ Execution(Tail(unread))
    BY <1>1, <2>1, HeadIsNext DEF Execution
  <2> HIDE DEF c
  <2>3. Lane!Enqueue(c) /\ Kept(lanes', nextSequence') /\ nextSequence' \in Nat
    BY <1>1, <2>1, <2>2, EnqueueMaps
  <2>4. LanesInv'
    BY <1>1, <1>2, <1>9, <2>1, <2>2, <2>3 DEF LanesInv
  <2>5. Contents(save)' = Contents(save) /\ Contents(unread)' = Contents(unread) \ {e}
    <3>1. Contents(unread)' = Contents(Tail(unread))
      BY <2>1 DEF Contents
    <3> HIDE DEF e
    <3>2. Contents(save)' = Contents(save)
      BY <2>1 DEF Contents
    <3> QED
      BY <2>2, <3>1, <3>2
  <2> HIDE DEF e
  <2>6. Lane!RestoreNext
    BY <2>1, <2>2, <2>3, <2>5 DEF Lane!RestoreNext, c
  <2> QED
    BY <2>4, <2>6 DEF Lane!Next
<1>10. CASE RestoreEnd /\ drained' = <<>>
  <2>1. /\ inRestore /\ unread = <<>> /\ inRestore' = FALSE
        /\ lanes' = lanes /\ nextSequence' = nextSequence /\ totalSize' = totalSize
        /\ save' = save /\ unread' = unread /\ rebase' = rebase
    BY <1>10 DEF RestoreEnd
  <2>2. LanesInv'
    BY <1>1, <1>2, <1>10, <2>1 DEF LanesInv
  <2>3. /\ Contents(save)' = Contents(save) /\ Contents(unread)' = Contents(unread)
        /\ Contents(unread) = {} /\ Queued' = Queued
    BY <2>1, QueuedIsAll DEF Contents
  <2>4. Lane!RestoreEnd
    BY <2>1, <2>3 DEF Lane!RestoreEnd, Lane!queueVars
  <2> QED
    BY <2>2, <2>4 DEF Lane!Next
<1>11. CASE UNCHANGED vars
  <2>1. /\ lanes' = lanes /\ nextSequence' = nextSequence /\ totalSize' = totalSize
        /\ drained' = drained
        /\ save' = save /\ unread' = unread /\ rebase' = rebase /\ inRestore' = inRestore
    BY <1>11 DEF vars
  <2>2. LanesInv'
    BY <1>1, <2>1 DEF LanesInv
  <2>3. /\ Contents(save)' = Contents(save) /\ Contents(unread)' = Contents(unread)
        /\ Queued' = Queued
    BY <2>1, QueuedIsAll DEF Contents
  <2>4. UNCHANGED Lane!vars
    BY <2>1, <2>3 DEF Lane!vars
  <2> QED
    BY <2>2, <2>4
<1> QED
  BY <1>4, <1>5, <1>6, <1>7, <1>8, <1>9, <1>10, <1>11 DEF Next

(* The invariant holds in every state.                                      *)
LEMMA LanesInductive == Spec => []LanesInv
<1>1. LanesInv /\ [Next]_vars => LanesInv'
  BY LanesStep, LanesAssumption
<1> QED
  BY <1>1, LanesInit, PTL DEF Spec

(* Whatever is spliced, shifted, compacted or restored (command-queue.ts):  *)
(* the order the binary search relies on holds, and drains and saves come   *)
(* out in execution order.                                                  *)
THEOREM LanesCorrect == Spec => []LanesInOrder
<1>1. LanesInv => LanesInOrder
  <2> SUFFICES ASSUME LanesInv PROVE LanesInOrder
    OBVIOUS
  <2>1. ASSUME NEW p \in Lane!Priority
        PROVE  /\ SortedBy(Lane!Before, lanes[p])
               /\ \A i \in DOMAIN lanes[p] : lanes[p][i].priority = p
    <3>1. LaneKept(lanes[p], p, nextSequence)
      BY DEF LanesInv, Kept
    <3>2. DOMAIN lanes[p] = 1..Len(lanes[p])
      BY <3>1 DEF LaneKept
    <3> QED
      BY <3>1, <3>2 DEF LaneKept, InOrder, SortedBy
  <2>2. ASSUME NEW array, Execution(array)
        PROVE  \A i, j \in DOMAIN array : i < j => Lane!Precedes(array[i], array[j])
    <3>1. DOMAIN array = 1..Len(array)
      BY <2>2 DEF Execution
    <3> QED
      BY <2>2, <3>1 DEF Execution, Ranked
  <2>3. SortedBy(Lane!Precedes, drained) /\ SortedBy(Lane!Precedes, save)
    BY <2>2 DEF LanesInv, SortedBy
  <2> QED
    BY <2>1, <2>3 DEF LanesInOrder
<1> QED
  BY <1>1, LanesInductive, PTL

(* The arrays implement the specification: whatever their methods do, the   *)
(* entries they contain change as CommandQueue allows, its counter included.*)
THEOREM RefinementCorrect == Spec => ImplementsCommandQueue
<1>1. LanesInv /\ [Next]_vars => [Lane!Next]_Lane!vars
  BY LanesStep, LanesAssumption
<1> QED
  BY <1>1, LanesInit, LanesInductive, PTL DEF Spec, ImplementsCommandQueue, Lane!Spec
=============================================================================
