-------------------------- MODULE EventsAndSync_proofs --------------------------
(***************************************************************************)
(* The event bus, and the two ways a client keeps up with its server, for  *)
(* every value of the constants. They are in one module because all three  *)
(* rest on what Select, the filter of an array, keeps and leaves out.      *)
(*                                                                         *)
(* ClientPrediction: for every number of commands, every limit of steps,   *)
(* pending commands and checksums, whatever snapshots come late, twice or  *)
(* never, the client's runtime agrees with the one it reconciled with      *)
(* last.                                                                   *)
(*                                                                         *)
(* EventBroadcast: for every configuration, however batches are repeated,  *)
(* damaged or abandoned half applied, a client records every event, again  *)
(* only after its deduper has forgotten it, and hears the frames, and the  *)
(* events of one step, in the order in which the server published them.    *)
(*                                                                         *)
(* EventBus: for every number of channels, every capacity and any number   *)
(* of subscribers that come, go, publish or throw, a completed step has    *)
(* handed each of its events to each subscriber once, and the buffers,     *)
(* one per channel, are one queue.                                         *)
(***************************************************************************)
EXTENDS ClientPrediction, EventBroadcast, EventBus, FiniteSetTheorems, SequenceTheorems,
        WellFoundedInduction, TLAPS

-----------------------------------------------------------------------------
(* Induction and recursion                                                  *)

(* Every set of naturals that is not empty has a least element.             *)
LEMMA LeastNatural ==
    ASSUME NEW S, S \subseteq Nat, S # {}
    PROVE  \E n \in S : \A m \in S : n <= m
<1>1. \E x \in S : \A y \in S : ~(<<y, x>> \in OpToRel(<, Nat))
  BY NatLessThanWellFounded, WFMin, Zenon
<1>2. \A x, y \in Nat : <<y, x>> \in OpToRel(<, Nat) <=> y < x
  BY Zenon DEF OpToRel
<1>3. PICK n \in S : \A m \in S : ~(m < n)
  BY <1>1, <1>2
<1>4. \A m \in S : n <= m
  <2> TAKE m \in S
  <2>1. m \in Nat /\ n \in Nat /\ ~(m < n)
    BY <1>3
  <2> QED
    BY <2>1
<1> QED
  BY <1>4

(* Induction, over the set of the numbers for which a claim holds.          *)
LEMMA SetInduction ==
    ASSUME NEW S, 0 \in S, \A n \in Nat : n \in S => n + 1 \in S
    PROVE  Nat \subseteq S
<1> SUFFICES ASSUME Nat \ S # {} PROVE FALSE
  OBVIOUS
<1> DEFINE T == Nat \ S
<1>1. T \subseteq Nat /\ T # {}
  OBVIOUS
<1> HIDE DEF T
<1>2. PICK n \in T : \A m \in T : n <= m
  BY <1>1, LeastNatural
<1> USE DEF T
<1>3. n # 0
  OBVIOUS
<1>4. n - 1 \in Nat /\ n - 1 \in S
  BY <1>2, <1>3
<1> QED
  BY <1>4

(* A function defined by recursion on 0..L: its first value is given and    *)
(* each further value is `next` of its index and the value before.          *)
Recursive(f, first, next, L, X) ==
    /\ f \in [0..L -> X]
    /\ f[0] = first
    /\ \A n \in 1..L : f[n] = next[<<n, f[n - 1]>>]

(* There is one.                                                            *)
LEMMA Recursion ==
    ASSUME NEW X, NEW first \in X, NEW L \in Nat, NEW next \in [(1..L) \X X -> X]
    PROVE  \E f : Recursive(f, first, next, L, X)
<1> DEFINE Follows(f, n) == f[0] = first /\ \A m \in 1..n : f[m] = next[<<m, f[m - 1]>>]
           Defined == {n \in Nat : n <= L => \E f \in [0..n -> X] : Follows(f, n)}
<1>1. 0 \in Defined
  <2> DEFINE f == [m \in 0..0 |-> first]
  <2>1. f \in [0..0 -> X] /\ Follows(f, 0)
    OBVIOUS
  <2> HIDE DEF f
  <2> QED
    BY <2>1
<1>2. ASSUME NEW n \in Nat, n \in Defined PROVE n + 1 \in Defined
  <2> SUFFICES ASSUME n + 1 <= L PROVE \E f \in [0..(n + 1) -> X] : Follows(f, n + 1)
    OBVIOUS
  <2>1. PICK f \in [0..n -> X] : Follows(f, n)
    BY <1>2
  <2>2. next[<<n + 1, f[n]>>] \in X
    <3>1. n + 1 \in 1..L /\ f[n] \in X
      BY <2>1
    <3> QED
      BY <3>1
  <2> DEFINE h == [m \in 0..(n + 1) |-> IF m = n + 1 THEN next[<<n + 1, f[n]>>] ELSE f[m]]
  <2>3. h \in [0..(n + 1) -> X]
    BY <2>1, <2>2
  <2>4. \A m \in 0..n : h[m] = f[m]
    OBVIOUS
  <2>5. h[n + 1] = next[<<n + 1, f[n]>>]
    OBVIOUS
  <2> HIDE DEF h
  <2>6. h[0] = first
    BY <2>1, <2>4
  <2>7. ASSUME NEW m \in 1..(n + 1) PROVE h[m] = next[<<m, h[m - 1]>>]
    <3>1. CASE m = n + 1
      BY <2>4, <2>5, <3>1
    <3>2. CASE m # n + 1
      <4>1. m \in 1..n /\ m \in 0..n /\ m - 1 \in 0..n
        BY <3>2
      <4> QED
        BY <2>1, <2>4, <4>1
    <3> QED
      BY <3>1, <3>2
  <2>8. Follows(h, n + 1)
    BY <2>6, <2>7
  <2> QED
    BY <2>3, <2>8
<1> HIDE DEF Defined
<1>3. Nat \subseteq Defined
  BY <1>1, <1>2, SetInduction
<1>4. PICK f \in [0..L -> X] : Follows(f, L)
  BY <1>3 DEF Defined
<1>5. Recursive(f, first, next, L, X)
  BY <1>4 DEF Recursive
<1> QED
  BY <1>5

-----------------------------------------------------------------------------
(* Select                                                                   *)

(* What the loop has chosen when it has gone through n elements.            *)
Choosing(f, s, S, T) ==
    /\ f \in [0..Len(s) -> Seq(T)]
    /\ f[0] = <<>>
    /\ \A n \in 1..Len(s) :
          f[n] = IF s[n] \in S THEN Append(f[n - 1], s[n]) ELSE f[n - 1]

(* Select is what its loop has chosen when it has gone through the array.   *)
LEMMA SelectLoop ==
    ASSUME NEW T, NEW s \in Seq(T), NEW S
    PROVE  \E f : Choosing(f, s, S, T) /\ Select(s, S) = f[Len(s)]
<1> DEFINE L == Len(s)
           Step(f, n) == IF n = 0 THEN <<>>
                         ELSE IF s[n] \in S THEN Append(f[n - 1], s[n])
                         ELSE f[n - 1]
           X == Seq(T)
           next == [p \in (1..L) \X X |-> IF s[p[1]] \in S THEN Append(p[2], s[p[1]]) ELSE p[2]]
<1>1. L \in Nat /\ \A n \in 1..L : s[n] \in T
  OBVIOUS
<1>2. <<>> \in X
  OBVIOUS
<1>3. next \in [(1..L) \X X -> X]
  <2>1. ASSUME NEW n \in 1..L, NEW v \in X
        PROVE  (IF s[n] \in S THEN Append(v, s[n]) ELSE v) \in X
    BY <1>1
  <2> QED
    BY <2>1
<1>4. \A n \in 1..L, v \in X :
         next[<<n, v>>] = IF s[n] \in S THEN Append(v, s[n]) ELSE v
  OBVIOUS
<1> HIDE DEF next, L, X
<1>a. PICK f : Recursive(f, <<>>, next, L, X)
  BY <1>1, <1>2, <1>3, Recursion
<1>5. f \in [0..L -> X] /\ f[0] = <<>> /\ \A n \in 1..L : f[n] = next[<<n, f[n - 1]>>]
  BY <1>a DEF Recursive
<1>6. \A n \in 1..L : f[n] = IF s[n] \in S THEN Append(f[n - 1], s[n]) ELSE f[n - 1]
  <2> TAKE n \in 1..L
  <2>1. f[n - 1] \in X
    BY <1>1, <1>5
  <2> QED
    BY <1>4, <1>5, <2>1
<1>7. f = [n \in 0..L |-> Step(f, n)]
  <2>1. \A n \in 0..L : f[n] = Step(f, n)
    <3> TAKE n \in 0..L
    <3>1. n = 0 \/ n \in 1..L
      BY <1>1
    <3> QED
      BY <1>5, <1>6, <3>1
  <2>2. f = [n \in 0..L |-> f[n]]
    BY <1>5
  <2> QED
    BY <2>1, <2>2
<1> DEFINE c == CHOOSE g : g = [n \in 0..L |-> Step(g, n)]
<1>8. c = [n \in 0..L |-> Step(c, n)]
  BY <1>7, Zenon
<1>9. Select(s, S) = IF s = <<>> THEN <<>> ELSE c[L]
  BY Zenon DEF Select, L
<1> HIDE DEF c
<1>10. \A n \in 0..L : c[n] = Step(c, n)
  BY <1>8, Zenon
<1> DEFINE Same == {n \in Nat : n <= L => c[n] = f[n]}
<1>11. 0 \in Same
  <2>1. c[0] = <<>>
    BY <1>1, <1>10
  <2> QED
    BY <1>5, <2>1
<1>12. ASSUME NEW n \in Nat, n \in Same PROVE n + 1 \in Same
  <2> SUFFICES ASSUME n + 1 <= L PROVE c[n + 1] = f[n + 1]
    OBVIOUS
  <2>1. n + 1 \in 1..L /\ n + 1 \in 0..L /\ n + 1 # 0 /\ (n + 1) - 1 = n /\ c[n] = f[n]
    BY <1>1, <1>12
  <2>2. c[n + 1] = IF s[n + 1] \in S THEN Append(c[n], s[n + 1]) ELSE c[n]
    BY <1>10, <2>1
  <2>3. f[n + 1] = IF s[n + 1] \in S THEN Append(f[n], s[n + 1]) ELSE f[n]
    BY <1>6, <2>1
  <2> QED
    BY <2>1, <2>2, <2>3
<1> HIDE DEF Same
<1>13. c[L] = f[L]
  <2>1. Nat \subseteq Same
    BY <1>11, <1>12, SetInduction
  <2> QED
    BY <1>1, <2>1 DEF Same
<1> USE DEF L, X
<1>14. Choosing(f, s, S, T)
  BY <1>5, <1>6 DEF Choosing
<1>15. s = <<>> => f[L] = <<>>
  BY <1>5
<1> QED
  BY <1>9, <1>13, <1>14, <1>15

(* What is selected are the elements of the array that belong to the set,   *)
(* and they stand in the order of the array.                                *)
LEMMA SelectElements ==
    ASSUME NEW T, NEW s \in Seq(T), NEW S
    PROVE  /\ Select(s, S) \in Seq(T)
           /\ \A k \in 1..Len(Select(s, S)) : \E i \in 1..Len(s) : Select(s, S)[k] = s[i] /\ s[i] \in S
           /\ \A i \in 1..Len(s) : s[i] \in S => \E k \in 1..Len(Select(s, S)) : Select(s, S)[k] = s[i]
<1> DEFINE Sound(t, n) == /\ \A k \in 1..Len(t) : \E i \in 1..n : t[k] = s[i] /\ s[i] \in S
                          /\ \A i \in 1..n : s[i] \in S => \E k \in 1..Len(t) : t[k] = s[i]
<1>a. PICK f : Choosing(f, s, S, T) /\ Select(s, S) = f[Len(s)]
  BY SelectLoop
<1> DEFINE L == Len(s)
<1>1. /\ f \in [0..L -> Seq(T)] /\ f[0] = <<>> /\ Select(s, S) = f[L]
      /\ \A n \in 1..L : f[n] = IF s[n] \in S THEN Append(f[n - 1], s[n]) ELSE f[n - 1]
  BY <1>a DEF Choosing
<1>2. L \in Nat /\ \A n \in 1..L : s[n] \in T
  OBVIOUS
<1> DEFINE Right == {n \in Nat : n <= L => Sound(f[n], n)}
<1> HIDE DEF L
<1>3. 0 \in Right
  BY <1>1
<1>4. ASSUME NEW n \in Nat, n \in Right PROVE n + 1 \in Right
  <2> SUFFICES ASSUME n + 1 <= L PROVE Sound(f[n + 1], n + 1)
    OBVIOUS
  <2>1. /\ n + 1 \in 1..L /\ n \in 0..L /\ s[n + 1] \in T /\ f[n] \in Seq(T)
        /\ f[n + 1] = IF s[n + 1] \in S THEN Append(f[n], s[n + 1]) ELSE f[n]
        /\ \A i \in 1..(n + 1) : i \in 1..n \/ i = n + 1
    <3>1. n + 1 \in 1..L /\ n \in 0..L /\ (n + 1) - 1 = n
      BY <1>2
    <3> QED
      BY <1>1, <1>2, <3>1
  <2>2. Sound(f[n], n)
    BY <1>2, <1>4
  <2>3. CASE s[n + 1] \in S
    <3> DEFINE t == f[n]
               u == Append(t, s[n + 1])
    <3>1. f[n + 1] = u /\ t \in Seq(T) /\ u \in Seq(T)
      BY <2>1, <2>3
    <3>2. /\ Len(u) = Len(t) + 1 /\ u[Len(t) + 1] = s[n + 1] /\ Len(t) \in Nat
          /\ \A k \in 1..Len(t) : u[k] = t[k]
      BY <2>1
    <3> HIDE DEF t, u
    <3>3. Sound(t, n)
      BY <2>2 DEF t
    <3>4. ASSUME NEW k \in 1..Len(u) PROVE \E i \in 1..(n + 1) : u[k] = s[i] /\ s[i] \in S
      <4>1. CASE k = Len(t) + 1
        BY <2>3, <3>2, <4>1
      <4>2. CASE k # Len(t) + 1
        <5>1. k \in 1..Len(t)
          BY <3>2, <4>2
        <5>2. PICK i \in 1..n : t[k] = s[i] /\ s[i] \in S
          BY <3>3, <5>1
        <5> QED
          BY <3>2, <5>1, <5>2
      <4> QED
        BY <4>1, <4>2
    <3>5. ASSUME NEW i \in 1..(n + 1), s[i] \in S PROVE \E k \in 1..Len(u) : u[k] = s[i]
      <4>1. CASE i = n + 1
        <5>1. Len(t) + 1 \in 1..Len(u)
          BY <3>2
        <5> QED
          BY <3>2, <4>1, <5>1
      <4>2. CASE i \in 1..n
        <5>1. PICK k \in 1..Len(t) : t[k] = s[i]
          BY <3>3, <3>5, <4>2
        <5>2. k \in 1..Len(u)
          BY <3>2
        <5> QED
          BY <3>2, <5>1, <5>2
      <4> QED
        BY <2>1, <4>1, <4>2
    <3> QED
      BY <3>1, <3>4, <3>5
  <2>4. CASE s[n + 1] \notin S
    <3>1. f[n + 1] = f[n]
      BY <2>1, <2>4
    <3>2. \A i \in 1..n : i \in 1..(n + 1)
      OBVIOUS
    <3> QED
      BY <2>1, <2>2, <2>4, <3>1, <3>2
  <2> QED
    BY <2>3, <2>4
<1> HIDE DEF Right
<1>5. Nat \subseteq Right
  BY <1>3, <1>4, SetInduction
<1>6. Sound(f[L], L)
  <2>1. L \in Right /\ L <= L
    BY <1>2, <1>5
  <2> HIDE DEF Sound
  <2> QED
    BY <2>1 DEF Right
<1>7. Select(s, S) \in Seq(T)
  <2>1. L \in 0..L
    BY <1>2
  <2> QED
    BY <1>1, <2>1, Zenon
<1> QED
  BY <1>1, <1>6, <1>7 DEF L

(* Two loops over arrays that begin alike have chosen the same.             *)
LEMMA ChoosingAgrees ==
    ASSUME NEW T, NEW s \in Seq(T), NEW t \in Seq(T), NEW S, NEW f, NEW g,
           Choosing(f, s, S, T), Choosing(g, t, S, T),
           NEW N \in Nat, N <= Len(s), N <= Len(t), \A n \in 1..N : s[n] = t[n]
    PROVE  f[N] = g[N]
<1> DEFINE Same == {n \in Nat : n <= N => f[n] = g[n]}
<1>1. 0 \in Same
  BY DEF Choosing
<1>2. ASSUME NEW n \in Nat, n \in Same PROVE n + 1 \in Same
  <2> SUFFICES ASSUME n + 1 <= N PROVE f[n + 1] = g[n + 1]
    OBVIOUS
  <2>1. /\ n + 1 \in 1..Len(s) /\ n + 1 \in 1..Len(t) /\ n + 1 \in 1..N /\ (n + 1) - 1 = n
        /\ f[n] = g[n]
    BY <1>2
  <2>2. f[n + 1] = IF s[n + 1] \in S THEN Append(f[n], s[n + 1]) ELSE f[n]
    BY <2>1 DEF Choosing
  <2>3. g[n + 1] = IF t[n + 1] \in S THEN Append(g[n], t[n + 1]) ELSE g[n]
    BY <2>1 DEF Choosing
  <2> QED
    BY <2>1, <2>2, <2>3
<1> HIDE DEF Same
<1>3. Nat \subseteq Same
  BY <1>1, <1>2, SetInduction
<1> QED
  BY <1>3 DEF Same

(* Appended elements that do not belong to the set make no difference.      *)
LEMMA SelectSkips ==
    ASSUME NEW T, NEW s \in Seq(T), NEW t \in Seq(T), NEW S,
           \A i \in 1..Len(t) : t[i] \notin S
    PROVE  Select(s \o t, S) = Select(s, S)
<1> DEFINE u == s \o t
<1>1. /\ u \in Seq(T) /\ Len(u) = Len(s) + Len(t) /\ Len(s) \in Nat /\ Len(t) \in Nat
      /\ \A n \in 1..Len(s) : u[n] = s[n]
      /\ \A n \in 1..Len(t) : u[Len(s) + n] = t[n]
  OBVIOUS
<1> HIDE DEF u
<1>2. PICK f : Choosing(f, s, S, T) /\ Select(s, S) = f[Len(s)]
  BY SelectLoop
<1>3. PICK g : Choosing(g, u, S, T) /\ Select(u, S) = g[Len(u)]
  BY <1>1, SelectLoop
<1>4. f[Len(s)] = g[Len(s)]
  <2>1. Len(s) <= Len(u) /\ Len(s) <= Len(s)
    BY <1>1
  <2>2. u \in Seq(T) /\ Len(s) \in Nat /\ \A n \in 1..Len(s) : s[n] = u[n]
    BY <1>1
  <2> QED
    BY <1>2, <1>3, <2>1, <2>2, ChoosingAgrees
<1> DEFINE Same == {n \in Nat : n <= Len(t) => g[Len(s) + n] = g[Len(s)]}
<1>5. 0 \in Same
  BY <1>1
<1>6. ASSUME NEW n \in Nat, n \in Same PROVE n + 1 \in Same
  <2> SUFFICES ASSUME n + 1 <= Len(t) PROVE g[Len(s) + (n + 1)] = g[Len(s)]
    OBVIOUS
  <2> DEFINE m == Len(s) + (n + 1)
  <2>1. m \in 1..Len(u) /\ m - 1 = Len(s) + n /\ n + 1 \in 1..Len(t)
    BY <1>1
  <2>2. u[m] \notin S
    BY <1>1, <2>1
  <2>3. g[m] = IF u[m] \in S THEN Append(g[m - 1], u[m]) ELSE g[m - 1]
    BY <1>3, <2>1 DEF Choosing
  <2>4. g[Len(s) + n] = g[Len(s)]
    BY <1>1, <1>6
  <2> QED
    BY <2>1, <2>2, <2>3, <2>4
<1> HIDE DEF Same
<1>7. g[Len(s) + Len(t)] = g[Len(s)]
  <2>1. Nat \subseteq Same
    BY <1>5, <1>6, SetInduction
  <2> QED
    BY <1>1, <2>1 DEF Same
<1> QED
  BY <1>1, <1>2, <1>3, <1>4, <1>7 DEF u

(* If all belong to it, all are selected.                                   *)
LEMMA SelectAll ==
    ASSUME NEW T, NEW s \in Seq(T), NEW S, \A i \in 1..Len(s) : s[i] \in S
    PROVE  Select(s, S) = s
<1> DEFINE L == Len(s)
<1>1. PICK f : Choosing(f, s, S, T) /\ Select(s, S) = f[L]
  BY SelectLoop
<1>2. L \in Nat /\ \A n \in 1..L : s[n] \in T
  OBVIOUS
<1> DEFINE Copied(t, n) == t \in Seq(T) /\ Len(t) = n /\ \A i \in 1..n : t[i] = s[i]
           Right == {n \in Nat : n <= L => Copied(f[n], n)}
<1>3. 0 \in Right
  BY <1>1 DEF Choosing
<1>4. ASSUME NEW n \in Nat, n \in Right PROVE n + 1 \in Right
  <2> SUFFICES ASSUME n + 1 <= L PROVE Copied(f[n + 1], n + 1)
    OBVIOUS
  <2>1. n + 1 \in 1..L /\ (n + 1) - 1 = n /\ Copied(f[n], n) /\ s[n + 1] \in T
    BY <1>2, <1>4
  <2>2. f[n + 1] = Append(f[n], s[n + 1])
    BY <1>1, <2>1 DEF Choosing
  <2> QED
    BY <2>1, <2>2
<1> HIDE DEF Right
<1>5. Nat \subseteq Right
  BY <1>3, <1>4, SetInduction
<1>6. Copied(f[L], L)
  BY <1>2, <1>5 DEF Right
<1> QED
  BY <1>1, <1>6

-----------------------------------------------------------------------------
(* The invariant                                                            *)

PendingEntries == [id : Ids, step : Nat]

(* A runtime has executed commands before its present step only.            *)
Runtimes ==
    {r \in [step : Nat, executed : [Ids -> Seq(Nat)], queue : SUBSET PendingEntries] :
        /\ \A id \in Ids : \A n \in 1..Len(r.executed[id]) : r.executed[id][n] < r.step
        /\ IsFiniteSet(r.queue)}

(* An entry of the history holds the runtime at its step.                   *)
HistoryEntries == {e \in [step : Nat, checksum : Runtimes] : e.checksum.step = e.step}

PredictionTypes ==
    /\ {server, client, confirmed} \cup snapshots \subseteq Runtimes
    /\ uplink \subseteq Ids
    /\ DOMAIN issued \subseteq Ids /\ \A id \in DOMAIN issued : issued[id] \in Nat
    /\ history \in Seq(HistoryEntries)
    /\ pendingCommands \in Seq(PendingEntries)
    /\ localStep \in Int
    /\ \/ lastConfirmedStep = None
       \/ lastConfirmedStep = confirmed.step

(* The client has reached every step it has recorded or seen confirmed.     *)
Reached ==
    /\ lastConfirmedStep <= client.step
    /\ \A i \in 1..Len(history) : history[i].step <= client.step

(* Whatever a runtime knows of was issued, a pending command at its step.   *)
OnlyIssued ==
    /\ uplink \subseteq DOMAIN issued
    /\ \A r \in {server, client} \cup snapshots, id \in Ids : Predicted(r, id) => id \in DOMAIN issued
    /\ \A i \in 1..Len(pendingCommands) :
          LET c == pendingCommands[i] IN c.id \in DOMAIN issued /\ issued[c.id] = c.step

(* What became of a command of the client's since a checksum was recorded:  *)
(* it is pending, the recorded runtime knows it, or its step is confirmed.  *)
TrackedSince(r, id) ==
    \/ pendingOverflowed \/ predictionDisabled
    \/ id \in IdsOf(pendingCommands)
    \/ Predicted(r, id)
    \/ issued[id] <= lastConfirmedStep

HistoryTracks ==
    \A i \in 1..Len(history), id \in Ids :
        Predicted(client, id) => TrackedSince(history[i].checksum, id)

PredictionInv ==
    /\ PredictionTypes /\ Reached /\ OnlyIssued /\ HistoryTracks
    /\ AgreesWithConfirmed /\ HistoryIsOurs /\ NothingUntracked

-----------------------------------------------------------------------------
(* Runtimes                                                                 *)

(* How often a tick executes a command.                                     *)
DueIn(r, id) == Cardinality({c \in r.queue : c.id = id /\ c.step <= r.step})

LEMMA DueIsNat ==
    ASSUME NEW r \in Runtimes, NEW id \in Ids
    PROVE  /\ DueIn(r, id) \in Nat
           /\ (\E c \in r.queue : c.id = id /\ c.step <= r.step) => DueIn(r, id) # 0
           /\ DueIn(r, id) # 0 => \E c \in r.queue : c.id = id /\ c.step <= r.step
<1> DEFINE S == {c \in r.queue : c.id = id /\ c.step <= r.step}
<1>1. IsFiniteSet(S)
  <2>1. IsFiniteSet(r.queue) /\ S \subseteq r.queue
    BY DEF Runtimes
  <2> QED
    BY <2>1, FS_Subset
<1>2. Cardinality(S) \in Nat /\ (Cardinality(S) = 0 <=> S = {})
  BY <1>1, FS_CardinalityType, FS_EmptySet
<1>3. DueIn(r, id) = Cardinality(S)
  BY DEF DueIn
<1> QED
  BY <1>2, <1>3

(* A tick is one more step, and appends that step to what it executes.      *)
LEMMA TickedFields ==
    ASSUME NEW r \in Runtimes
    PROVE  /\ Ticked(r).step = r.step + 1
           /\ Ticked(r).queue = {c \in r.queue : c.step > r.step}
           /\ \A id \in Ids : Ticked(r).executed[id] = r.executed[id] \o [n \in 1..DueIn(r, id) |-> r.step]
           /\ Ticked(r).executed = [id \in Ids |-> Ticked(r).executed[id]]
           /\ Ticked(r) = [step |-> Ticked(r).step, executed |-> Ticked(r).executed,
                           queue |-> Ticked(r).queue]
BY DEF Ticked, DueIn

LEMMA RuntimeFields ==
    ASSUME NEW r \in Runtimes
    PROVE  /\ r.step \in Nat
           /\ r.executed = [id \in Ids |-> r.executed[id]]
           /\ r.queue \subseteq PendingEntries /\ IsFiniteSet(r.queue)
           /\ \A id \in Ids :
                 /\ r.executed[id] \in Seq(Nat)
                 /\ \A n \in 1..Len(r.executed[id]) : r.executed[id][n] < r.step
BY DEF Runtimes

LEMMA RuntimeIntro ==
    ASSUME NEW at \in Nat, NEW executed, NEW queue,
           executed = [id \in Ids |-> executed[id]],
           queue \subseteq PendingEntries, IsFiniteSet(queue),
           \A id \in Ids :
              /\ executed[id] \in Seq(Nat)
              /\ \A n \in 1..Len(executed[id]) : executed[id][n] < at
    PROVE  [step |-> at, executed |-> executed, queue |-> queue] \in Runtimes
<1>1. executed \in [Ids -> Seq(Nat)]
  BY Zenon
<1> QED
  BY <1>1 DEF Runtimes

LEMMA TickedRuntime ==
    ASSUME NEW r \in Runtimes
    PROVE  Ticked(r) \in Runtimes
<1> DEFINE t == Ticked(r)
<1>1. /\ t.step = r.step + 1 /\ t.queue = {c \in r.queue : c.step > r.step}
      /\ \A id \in Ids : t.executed[id] = r.executed[id] \o [n \in 1..DueIn(r, id) |-> r.step]
      /\ t.executed = [id \in Ids |-> t.executed[id]]
      /\ t = [step |-> t.step, executed |-> t.executed, queue |-> t.queue]
  BY TickedFields, Zenon
<1> HIDE DEF t
<1>2. ASSUME NEW id \in Ids
      PROVE  /\ t.executed[id] \in Seq(Nat)
             /\ \A n \in 1..Len(t.executed[id]) : t.executed[id][n] < r.step + 1
  <2> DEFINE s == r.executed[id]
             d == DueIn(r, id)
             u == [n \in 1..d |-> r.step]
  <2>1. s \in Seq(Nat) /\ r.step \in Nat /\ d \in Nat /\ \A n \in 1..Len(s) : s[n] < r.step
    BY RuntimeFields, DueIsNat
  <2>2. t.executed[id] = s \o u
    BY <1>1
  <2> HIDE DEF s, d
  <2>3. u \in Seq(Nat) /\ Len(u) = d /\ \A n \in 1..d : u[n] = r.step
    BY <2>1
  <2> HIDE DEF u
  <2>4. s \o u \in Seq(Nat) /\ Len(s \o u) = Len(s) + d
    BY <2>1, <2>3
  <2>5. ASSUME NEW n \in 1..(Len(s) + d) PROVE (s \o u)[n] < r.step + 1
    <3>1. CASE n \in 1..Len(s)
      <4>1. (s \o u)[n] = s[n] /\ s[n] \in Nat
        BY <2>1, <2>3, <3>1
      <4> QED
        BY <2>1, <3>1, <4>1
    <3>2. CASE n \notin 1..Len(s)
      <4>1. n - Len(s) \in 1..d /\ (s \o u)[n] = u[n - Len(s)]
        BY <2>1, <2>3, <3>2
      <4> QED
        BY <2>1, <2>3, <4>1
    <3> QED
      BY <3>1, <3>2
  <2> QED
    BY <2>2, <2>4, <2>5
<1>3. t.step \in Nat /\ t.queue \subseteq PendingEntries /\ IsFiniteSet(t.queue)
  <2>1. r.step \in Nat /\ r.queue \subseteq PendingEntries /\ IsFiniteSet(r.queue)
    BY RuntimeFields
  <2>2. t.queue \subseteq r.queue
    BY <1>1
  <2> QED
    BY <1>1, <2>1, <2>2, FS_Subset
<1>4. \A id \in Ids :
         /\ t.executed[id] \in Seq(Nat)
         /\ \A n \in 1..Len(t.executed[id]) : t.executed[id][n] < t.step
  BY <1>1, <1>2
<1>5. [step |-> t.step, executed |-> t.executed, queue |-> t.queue] \in Runtimes
  BY <1>1, <1>3, <1>4, RuntimeIntro, Zenon
<1> QED
  BY <1>1, <1>5 DEF t

(* It changes nothing that was executed before its step.                    *)
LEMMA TickedBefore ==
    ASSUME NEW r \in Runtimes, NEW n \in Int, n <= r.step
    PROVE  ExecutedBefore(Ticked(r), n) = ExecutedBefore(r, n)
<1>1. ASSUME NEW id \in Ids
      PROVE  Select(Ticked(r).executed[id], 0..(n - 1)) = Select(r.executed[id], 0..(n - 1))
  <2> DEFINE s == r.executed[id]
             d == DueIn(r, id)
             u == [k \in 1..d |-> r.step]
  <2>1. s \in Seq(Nat) /\ r.step \in Nat /\ d \in Nat
    BY RuntimeFields, DueIsNat
  <2>2. Ticked(r).executed[id] = s \o u
    BY TickedFields, Zenon
  <2> HIDE DEF s, d
  <2>3. u \in Seq(Nat) /\ Len(u) = d /\ \A k \in 1..d : u[k] = r.step
    BY <2>1
  <2> HIDE DEF u
  <2>4. \A k \in 1..Len(u) : u[k] \notin 0..(n - 1)
    BY <2>1, <2>3
  <2>5. Select(s \o u, 0..(n - 1)) = Select(s, 0..(n - 1))
    BY <2>1, <2>3, <2>4, SelectSkips
  <2> QED
    BY <2>2, <2>5 DEF s
<1> QED
  BY <1>1, Zenon DEF ExecutedBefore

(* All that a runtime has executed, it has executed before its step.        *)
LEMMA BeforeNow ==
    ASSUME NEW r \in Runtimes
    PROVE  ExecutedBefore(r, r.step) = r.executed
<1>1. ASSUME NEW id \in Ids PROVE Select(r.executed[id], 0..(r.step - 1)) = r.executed[id]
  <2> DEFINE s == r.executed[id]
  <2>1. s \in Seq(Nat) /\ r.step \in Nat /\ \A n \in 1..Len(s) : s[n] < r.step
    BY RuntimeFields
  <2> HIDE DEF s
  <2>2. \A n \in 1..Len(s) : s[n] \in 0..(r.step - 1)
    <3> TAKE n \in 1..Len(s)
    <3>1. s[n] \in Nat /\ s[n] < r.step
      BY <2>1
    <3> QED
      BY <2>1, <3>1
  <2> QED
    BY <2>1, <2>2, SelectAll DEF s
<1>2. r.executed = [id \in Ids |-> r.executed[id]]
  BY RuntimeFields
<1> QED
  BY <1>1, <1>2, Zenon DEF ExecutedBefore

(* Nothing is forgotten and nothing comes from nowhere.                     *)
LEMMA TickedPredicted ==
    ASSUME NEW r \in Runtimes, NEW id \in Ids
    PROVE  Predicted(Ticked(r), id) <=> Predicted(r, id)
<1> DEFINE s == r.executed[id]
           d == DueIn(r, id)
           u == [k \in 1..d |-> r.step]
<1>1. s \in Seq(Nat) /\ r.step \in Nat /\ d \in Nat /\ r.queue \subseteq PendingEntries
  BY RuntimeFields, DueIsNat
<1>2. Ticked(r).executed[id] = s \o u /\ Ticked(r).queue = {c \in r.queue : c.step > r.step}
  BY TickedFields, Zenon
<1>3. /\ (\E c \in r.queue : c.id = id /\ c.step <= r.step) => d # 0
      /\ d # 0 => \E c \in r.queue : c.id = id /\ c.step <= r.step
  BY DueIsNat
<1> HIDE DEF s, d
<1>4. u \in Seq(Nat) /\ Len(u) = d
  BY <1>1
<1> HIDE DEF u
<1>5. s \o u # <<>> <=> (s # <<>> \/ d # 0)
  BY <1>1, <1>4
<1>6. \A c \in r.queue : c.step <= r.step \/ c.step > r.step
  BY <1>1 DEF PendingEntries
<1>7. (\E c \in Ticked(r).queue : c.id = id) <=> \E c \in r.queue : c.id = id /\ c.step > r.step
  BY <1>2
<1> QED
  BY <1>2, <1>3, <1>5, <1>6, <1>7 DEF Predicted, s

(* Commands enqueued are known and change nothing else.                     *)
LEMMA EnqueuedFields ==
    ASSUME NEW r \in Runtimes, NEW commands \in SUBSET PendingEntries, IsFiniteSet(commands)
    PROVE  /\ Enqueued(r, commands) \in Runtimes
           /\ Enqueued(r, commands).step = r.step
           /\ Enqueued(r, commands).executed = r.executed
           /\ \A id \in Ids : Predicted(Enqueued(r, commands), id) <=>
                 Predicted(r, id) \/ \E c \in commands : c.id = id
<1> DEFINE e == Enqueued(r, commands)
<1>1. r = [step |-> r.step, executed |-> r.executed, queue |-> r.queue]
  BY DEF Runtimes
<1>2. e = [step |-> r.step, executed |-> r.executed, queue |-> r.queue \cup commands]
  BY <1>1 DEF Enqueued
<1> HIDE DEF e
<1>3. e.step = r.step /\ e.executed = r.executed /\ e.queue = r.queue \cup commands
  BY <1>2
<1>4. IsFiniteSet(r.queue \cup commands)
  BY RuntimeFields, FS_Union
<1>5. e \in Runtimes
  <2>1. r.queue \cup commands \subseteq PendingEntries
    BY RuntimeFields
  <2> QED
    BY <1>2, <1>4, <2>1, RuntimeFields, RuntimeIntro
<1>6. \A id \in Ids : Predicted(e, id) <=> Predicted(r, id) \/ \E c \in commands : c.id = id
  BY <1>3 DEF Predicted
<1> QED
  BY <1>3, <1>5, <1>6 DEF e

(* ExecutedBefore depends on what is executed alone.                        *)
LEMMA BeforeSame ==
    ASSUME NEW r, NEW t, r.executed = t.executed, NEW n
    PROVE  ExecutedBefore(r, n) = ExecutedBefore(t, n)
BY Zenon DEF ExecutedBefore

-----------------------------------------------------------------------------
(* The history                                                              *)

(* An entry of the timeline r is on.                                        *)
Ours(e, r) == e.step <= r.step /\ e.checksum.executed = ExecutedBefore(r, e.step)

Records == [entries : Seq(HistoryEntries), last : Int]

LEMMA OursTicked ==
    ASSUME NEW r \in Runtimes, NEW e \in HistoryEntries, Ours(e, r)
    PROVE  Ours(e, Ticked(r))
<1>1. e.step \in Int /\ e.step <= r.step /\ r.step \in Nat
  <2>1. r.step \in Nat
    BY RuntimeFields, Zenon
  <2>2. e.step \in Nat
    BY DEF HistoryEntries
  <2> QED
    BY <2>1, <2>2 DEF Ours
<1>2. ExecutedBefore(Ticked(r), e.step) = ExecutedBefore(r, e.step)
  BY <1>1, TickedBefore
<1>3. Ticked(r).step = r.step + 1
  BY TickedFields
<1> QED
  BY <1>1, <1>2, <1>3 DEF Ours

LEMMA OursNew ==
    ASSUME NEW r \in Runtimes
    PROVE  /\ [step |-> r.step, checksum |-> r] \in HistoryEntries
           /\ Ours([step |-> r.step, checksum |-> r], r)
<1>1. r.step \in Nat /\ ExecutedBefore(r, r.step) = r.executed
  BY RuntimeFields, BeforeNow
<1> QED
  BY <1>1 DEF HistoryEntries, Ours

(* recordChecksum and pruneHistory: the entries were there or are the new   *)
(* one.                                                                     *)
LEMMA RecordingEntries ==
    ASSUME NEW m, m.entries \in Seq(HistoryEntries), NEW r \in Runtimes
    PROVE  /\ Recording(m, r).entries \in Seq(HistoryEntries)
           /\ \A i \in 1..Len(Recording(m, r).entries) :
                 \/ Recording(m, r).entries[i] = [step |-> r.step, checksum |-> r]
                 \/ \E j \in 1..Len(m.entries) : Recording(m, r).entries[i] = m.entries[j]
<1> DEFINE entry == [step |-> r.step, checksum |-> r]
           all == Append(m.entries, entry)
           kept == IF Len(all) > MaxPredictionSteps THEN Tail(all) ELSE all
           S == {e \in Range(kept) : e.step >= entry.step - MaxPredictionSteps}
           result == Select(kept, S)
<1>1. CASE ShouldRecord(m.last, r.step)
  <2>1. Recording(m, r).entries = result
    BY <1>1, Zenon DEF Recording, WithChecksum, StateChecksum
  <2> HIDE DEF S
  <2>2. entry \in HistoryEntries
    BY OursNew
  <2> HIDE DEF entry
  <2>3. all \in Seq(HistoryEntries) /\ all # <<>>
        /\ \A i \in 1..Len(all) : all[i] = entry \/ \E j \in 1..Len(m.entries) : all[i] = m.entries[j]
    BY <2>2
  <2> HIDE DEF all
  <2>4. /\ kept \in Seq(HistoryEntries)
        /\ \A i \in 1..Len(kept) : \E j \in 1..Len(all) : kept[i] = all[j]
    BY <2>3
  <2> HIDE DEF kept
  <2>5. /\ result \in Seq(HistoryEntries)
        /\ \A i \in 1..Len(result) : \E j \in 1..Len(kept) : result[i] = kept[j]
    BY <2>4, SelectElements
  <2> HIDE DEF result
  <2>6. ASSUME NEW i \in 1..Len(result)
        PROVE  result[i] = entry \/ \E j \in 1..Len(m.entries) : result[i] = m.entries[j]
    <3>1. PICK j \in 1..Len(kept) : result[i] = kept[j]
      BY <2>5
    <3>2. PICK k \in 1..Len(all) : kept[j] = all[k]
      BY <2>4
    <3> QED
      BY <2>3, <3>1, <3>2
  <2> QED
    BY <2>1, <2>5, <2>6 DEF entry
<1>2. CASE ~ShouldRecord(m.last, r.step)
  BY <1>2 DEF Recording
<1> QED
  BY <1>1, <1>2

LEMMA RecordingType ==
    ASSUME NEW m \in Records, NEW r \in Runtimes
    PROVE  Recording(m, r) \in Records
<1>1. Recording(m, r).entries \in Seq(HistoryEntries)
  BY RecordingEntries DEF Records
<1>2. r.step \in Int
  <2>1. r.step \in Nat
    BY RuntimeFields, Zenon
  <2> QED
    BY <2>1
<1>3. CASE ShouldRecord(m.last, r.step)
  <2> DEFINE w == WithChecksum(m.entries, [step |-> r.step, checksum |-> StateChecksum(r)])
  <2>1. Recording(m, r) = [entries |-> w, last |-> r.step]
    BY <1>3 DEF Recording
  <2> HIDE DEF w
  <2> QED
    BY <1>1, <1>2, <2>1 DEF Records
<1>4. CASE ~ShouldRecord(m.last, r.step)
  BY <1>4 DEF Recording
<1> QED
  BY <1>3, <1>4

-----------------------------------------------------------------------------
(* replayToStep                                                             *)

(* What holds after every step replayed from a restored runtime in which    *)
(* the commands ids were enqueued.                                          *)
Replays(acc, restored, ids) ==
    /\ acc.runtime \in Runtimes /\ acc.records \in Records
    /\ acc.runtime.step >= restored.step
    /\ ExecutedBefore(acc.runtime, restored.step) = restored.executed
    /\ \A id \in Ids : Predicted(acc.runtime, id) <=> Predicted(restored, id)
    /\ \A i \in 1..Len(acc.records.entries) :
          /\ Ours(acc.records.entries[i], acc.runtime)
          /\ \A id \in Ids : Predicted(restored, id) =>
                id \in ids \/ Predicted(acc.records.entries[i].checksum, id)

(* One step replayed.                                                       *)
Further(acc) ==
    [runtime |-> Ticked(acc.runtime), records |-> Recording(acc.records, Ticked(acc.runtime))]

LEMMA ReplaysFurther ==
    ASSUME NEW acc, NEW restored \in Runtimes, NEW ids, Replays(acc, restored, ids)
    PROVE  Replays(Further(acc), restored, ids)
<1> DEFINE r == acc.runtime
           t == Ticked(r)
           old == acc.records.entries
           new == Recording(acc.records, t).entries
<1>1. r \in Runtimes /\ acc.records \in Records /\ r.step >= restored.step
      /\ ExecutedBefore(r, restored.step) = restored.executed
      /\ \A id \in Ids : Predicted(r, id) <=> Predicted(restored, id)
  BY DEF Replays
<1>2. t \in Runtimes /\ t.step = r.step + 1
  BY <1>1, TickedRuntime, TickedFields
<1>3. r.step \in Nat /\ restored.step \in Nat
  BY <1>1, RuntimeFields
<1>4. t.step >= restored.step
  BY <1>1, <1>2, <1>3
<1>5. ExecutedBefore(t, restored.step) = restored.executed
  <2>1. ExecutedBefore(t, restored.step) = ExecutedBefore(r, restored.step)
    BY <1>1, <1>3, TickedBefore
  <2> QED
    BY <1>1, <2>1
<1>6. \A id \in Ids : Predicted(t, id) <=> Predicted(restored, id)
  BY <1>1, TickedPredicted
<1>7. old \in Seq(HistoryEntries)
  BY <1>1 DEF Records
<1>8. /\ new \in Seq(HistoryEntries)
      /\ \A i \in 1..Len(new) : \/ new[i] = [step |-> t.step, checksum |-> t]
                                \/ \E j \in 1..Len(old) : new[i] = old[j]
  BY <1>2, <1>7, RecordingEntries
<1>9. Recording(acc.records, t) \in Records
  BY <1>1, <1>2, RecordingType
<1>10. \A j \in 1..Len(old) :
          /\ Ours(old[j], r)
          /\ \A id \in Ids : Predicted(restored, id) => id \in ids \/ Predicted(old[j].checksum, id)
  BY DEF Replays
<1>11. Ours([step |-> t.step, checksum |-> t], t)
  BY <1>2, OursNew
<1> HIDE DEF t, new, old, r
<1>12. ASSUME NEW i \in 1..Len(new)
       PROVE  /\ Ours(new[i], t)
              /\ \A id \in Ids : Predicted(restored, id) => id \in ids \/ Predicted(new[i].checksum, id)
  <2>1. CASE new[i] = [step |-> t.step, checksum |-> t]
    <3>1. new[i].checksum = t
      BY <2>1
    <3> QED
      BY <1>6, <1>11, <2>1, <3>1
  <2>2. ASSUME NEW j \in 1..Len(old), new[i] = old[j] PROVE Ours(new[i], t)
    <3>1. old[j] \in HistoryEntries
      BY <1>7
    <3> QED
      BY <1>1, <1>10, <2>2, <3>1, OursTicked DEF t
  <2> QED
    BY <1>8, <1>10, <2>1, <2>2
<1>13. Further(acc).runtime = t /\ Further(acc).records = Recording(acc.records, t)
  BY DEF Further, t, r
<1> QED
  BY <1>2, <1>4, <1>5, <1>6, <1>9, <1>12, <1>13, Zenon DEF Replays, new

LEMMA ReplayedKeeps ==
    ASSUME NEW restored \in Runtimes, NEW m, NEW target \in Int, NEW ids,
           Replays([runtime |-> restored, records |-> m], restored, ids)
    PROVE  Replays(Replayed(restored, m, target), restored, ids)
<1> DEFINE L == IF target > restored.step THEN target - restored.step ELSE 0
           first == [runtime |-> restored, records |-> m]
           X == {acc \in [runtime : Runtimes, records : Records] : Replays(acc, restored, ids)}
           next == [p \in (1..L) \X X |-> Further(p[2])]
           Step(f, n) == IF n = 0 THEN first
                         ELSE [runtime |-> Ticked(f[n - 1].runtime),
                               records |-> Recording(f[n - 1].records, Ticked(f[n - 1].runtime))]
<1>1. L \in Nat
  <2>1. restored.step \in Nat
    BY RuntimeFields, Zenon
  <2> QED
    BY <2>1
<1> HIDE DEF L
<1>2. first \in X
  <2>1. restored \in Runtimes /\ m \in Records
    BY DEF Replays
  <2> QED
    BY <2>1
<1>3. \A acc \in X : Further(acc) \in X
  <2> TAKE acc \in X
  <2>1. Replays(Further(acc), restored, ids)
    BY ReplaysFurther
  <2>2. Further(acc).runtime \in Runtimes /\ Further(acc).records \in Records
    BY <2>1, Zenon DEF Replays
  <2>3. Further(acc) = [runtime |-> Further(acc).runtime, records |-> Further(acc).records]
    BY DEF Further
  <2> QED
    BY <2>1, <2>2, <2>3
<1>4. next \in [(1..L) \X X -> X] /\ \A n \in 1..L, acc \in X : next[<<n, acc>>] = Further(acc)
  <2> HIDE DEF X
  <2> QED
    BY <1>3
<1> HIDE DEF next, first, X
<1>5. PICK f : Recursive(f, first, next, L, X)
  BY <1>1, <1>2, <1>4, Recursion
<1>6. f \in [0..L -> X] /\ f[0] = first /\ \A n \in 1..L : f[n] = next[<<n, f[n - 1]>>]
  BY <1>5 DEF Recursive
<1>7. \A n \in 1..L : f[n] = Further(f[n - 1]) /\ n - 1 \in 0..L
  <2> TAKE n \in 1..L
  <2>1. n - 1 \in 0..L
    BY <1>1
  <2>2. f[n - 1] \in X
    BY <1>6, <2>1
  <2> QED
    BY <1>4, <1>6, <2>1, <2>2
<1>8. f = [n \in 0..L |-> Step(f, n)]
  <2>1. \A n \in 0..L : f[n] = Step(f, n)
    <3> TAKE n \in 0..L
    <3>1. n = 0 \/ n \in 1..L
      BY <1>1
    <3>2. CASE n = 0
      BY <1>6, <3>2
    <3>3. CASE n \in 1..L
      <4>1. n # 0
        BY <1>1, <3>3
      <4>2. f[n] = Further(f[n - 1])
        BY <1>7, <3>3
      <4>3. Step(f, n) = Further(f[n - 1])
        BY <4>1 DEF Further
      <4> QED
        BY <4>2, <4>3
    <3> QED
      BY <3>1, <3>2, <3>3
  <2>2. f = [n \in 0..L |-> f[n]]
    BY <1>6
  <2> QED
    BY <2>1, <2>2
<1> DEFINE c == CHOOSE g : g = [n \in 0..L |-> Step(g, n)]
<1>9. c = [n \in 0..L |-> Step(c, n)]
  BY <1>8, Zenon
<1>10. Replayed(restored, m, target) = c[L]
  BY Zenon DEF Replayed, L, first
<1> HIDE DEF c
<1>11. \A n \in 0..L : c[n] = Step(c, n)
  BY <1>9, Zenon
<1> DEFINE Same == {n \in Nat : n <= L => c[n] = f[n]}
<1>12. 0 \in Same
  <2>1. 0 \in 0..L
    BY <1>1
  <2>2. c[0] = Step(c, 0)
    BY <1>11, <2>1, Zenon
  <2> QED
    BY <1>6, <2>2
<1>13. ASSUME NEW n \in Nat, n \in Same PROVE n + 1 \in Same
  <2> SUFFICES ASSUME n + 1 <= L PROVE c[n + 1] = f[n + 1]
    OBVIOUS
  <2>1. n + 1 \in 1..L /\ n + 1 \in 0..L /\ n + 1 # 0 /\ (n + 1) - 1 = n /\ c[n] = f[n]
    BY <1>1, <1>13
  <2>2. c[n + 1] = Further(c[n])
    BY <1>11, <2>1 DEF Further
  <2>3. f[n + 1] = Further(f[n])
    BY <1>7, <2>1
  <2> QED
    BY <2>1, <2>2, <2>3
<1> HIDE DEF Same
<1>14. Replayed(restored, m, target) \in X
  <2>1. Nat \subseteq Same
    BY <1>12, <1>13, SetInduction
  <2>2. c[L] = f[L] /\ L \in 0..L
    BY <1>1, <2>1 DEF Same
  <2> QED
    BY <1>6, <1>10, <2>2
<1> QED
  BY <1>14 DEF X

-----------------------------------------------------------------------------
(* The actions                                                              *)

(* What a runtime that was restored from snapshot s, given the commands and *)
(* replayed, is to the snapshot.                                            *)
LEMMA ReconcileResult ==
    ASSUME NEW s \in Runtimes, NEW commands \in Seq(PendingEntries), NEW target \in Int,
           Reconcile(s, commands, target)
    PROVE  /\ client' \in Runtimes /\ history' \in Seq(HistoryEntries) /\ localStep' \in Int
           /\ client'.step >= s.step
           /\ ExecutedBefore(client', s.step) = s.executed
           /\ \A id \in Ids : Predicted(client', id) <=> Predicted(s, id) \/ id \in IdsOf(commands)
           /\ \A i \in 1..Len(history') :
                 /\ Ours(history'[i], client')
                 /\ \A id \in Ids : Predicted(client', id) =>
                       id \in IdsOf(commands) \/ Predicted(history'[i].checksum, id)
<1> DEFINE C == ReplayQueue(commands)
           restored == Enqueued(s, C)
           ids == IdsOf(commands)
           m == ReplayStart(s)
           result == Replayed(restored, m, target)
<1>1. C \in SUBSET PendingEntries /\ IsFiniteSet(C) /\ \A id : (\E c \in C : c.id = id) <=> id \in ids
  <2>1. Len(commands) \in Nat /\ \A i \in 1..Len(commands) : commands[i] \in PendingEntries
    OBVIOUS
  <2>2. C = {commands[i] : i \in 1..Len(commands)}
    BY DEF ReplayQueue
  <2>3. IsFiniteSet(1..Len(commands))
    <3>1. \A L \in Nat : IsFiniteSet(1..L)
      BY FS_Interval
    <3> QED
      BY <2>1, <3>1
  <2>4. IsFiniteSet(C)
    <3> DEFINE f == [i \in 1..Len(commands) |-> commands[i]]
    <3>1. f \in Surjection(1..Len(commands), C)
      BY <2>2 DEF Surjection
    <3> QED
      BY <2>3, <3>1, FS_Surjection
  <2>5. C \in SUBSET PendingEntries
    BY <2>1, <2>2
  <2>6. \A id : (\E c \in C : c.id = id) <=> id \in ids
    BY <2>2 DEF IdsOf
  <2> QED
    BY <2>4, <2>5, <2>6
<1> HIDE DEF C, ids
<1>2. /\ restored \in Runtimes /\ restored.step = s.step /\ restored.executed = s.executed
      /\ \A id \in Ids : Predicted(restored, id) <=> Predicted(s, id) \/ \E c \in C : c.id = id
  BY <1>1, EnqueuedFields
<1>3. s.step \in Nat /\ ExecutedBefore(s, s.step) = s.executed
  BY BeforeNow, RuntimeFields
<1>4. m \in Records /\ \A i \in 1..Len(m.entries) : m.entries[i] = [step |-> s.step, checksum |-> s]
  <2>1. Fresh \in Records /\ Fresh.entries = <<>>
    BY DEF Fresh, Records, None
  <2>2. Fresh.entries \in Seq(HistoryEntries)
    BY <2>1
  <2>3. m = Recording(Fresh, s)
    BY DEF ReplayStart
  <2> HIDE DEF m
  <2>4. m \in Records
    BY <2>1, <2>3, RecordingType
  <2>5. \A i \in 1..Len(m.entries) : \/ m.entries[i] = [step |-> s.step, checksum |-> s]
                                     \/ \E j \in 1..Len(Fresh.entries) : m.entries[i] = Fresh.entries[j]
    BY <2>2, <2>3, RecordingEntries
  <2>6. 1..Len(Fresh.entries) = {}
    BY <2>1
  <2> QED
    BY <2>4, <2>5, <2>6
<1> HIDE DEF m, restored
<1> DEFINE start == [runtime |-> restored, records |-> m]
<1>5. Replays(start, restored, ids)
  <2>1. start.runtime = restored /\ start.records = m
    OBVIOUS
  <2> HIDE DEF start
  <2>2. restored.step >= restored.step
    BY <1>2, <1>3
  <2>3. ExecutedBefore(restored, restored.step) = restored.executed
    BY <1>2, BeforeNow
  <2>4. ASSUME NEW i \in 1..Len(m.entries)
        PROVE  /\ Ours(m.entries[i], restored)
               /\ \A id \in Ids : Predicted(restored, id) =>
                     id \in ids \/ Predicted(m.entries[i].checksum, id)
    <3>1. m.entries[i].step = s.step /\ m.entries[i].checksum = s
      BY <1>4
    <3>2. Ours(m.entries[i], restored)
      BY <1>2, <1>3, <2>3, <3>1 DEF Ours
    <3> QED
      BY <1>1, <1>2, <3>1, <3>2
  <2> QED
    BY <1>2, <1>4, <2>1, <2>2, <2>3, <2>4, Zenon DEF Replays
<1>6. Replays(result, restored, ids)
  BY <1>2, <1>5, ReplayedKeeps
<1>7. /\ client' = result.runtime /\ history' = result.records.entries
      /\ localStep' = result.runtime.step
  BY DEF Reconcile, restored, m, C
<1> HIDE DEF result
<1>8. /\ client' \in Runtimes /\ result.records \in Records
      /\ client'.step >= s.step
      /\ ExecutedBefore(client', s.step) = s.executed
      /\ \A id \in Ids : Predicted(client', id) <=> Predicted(restored, id)
      /\ \A i \in 1..Len(history') :
            /\ Ours(history'[i], client')
            /\ \A id \in Ids : Predicted(restored, id) =>
                  id \in ids \/ Predicted(history'[i].checksum, id)
  BY <1>2, <1>6, <1>7, Zenon DEF Replays
<1>9. history' \in Seq(HistoryEntries)
  BY <1>7, <1>8 DEF Records
<1>10. localStep' \in Int
  <2>1. client'.step \in Nat
    BY <1>8, RuntimeFields, Zenon
  <2> QED
    BY <1>7, <2>1
<1> QED
  BY <1>1, <1>2, <1>8, <1>9, <1>10 DEF ids

LEMMA PredictionInvInit == PredictionInit => PredictionInv
<1> SUFFICES ASSUME PredictionInit PROVE PredictionInv
  OBVIOUS
<1>1. NewRuntime \in Runtimes
  <2> DEFINE executed == [id \in Ids |-> <<>>]
  <2>1. IsFiniteSet({})
    BY FS_EmptySet
  <2>2. \A id \in Ids : executed[id] \in Seq(Nat) /\ 1..Len(executed[id]) = {}
    OBVIOUS
  <2>3. executed = [id \in Ids |-> executed[id]]
    OBVIOUS
  <2> HIDE DEF executed
  <2>4. [step |-> 0, executed |-> executed, queue |-> {}] \in Runtimes
    BY <2>1, <2>2, <2>3, RuntimeIntro
  <2> QED
    BY <2>4 DEF NewRuntime, executed
<1>2. \A id \in Ids : ~Predicted(NewRuntime, id)
  BY DEF NewRuntime, Predicted
<1>3. NewRuntime.step = 0
  BY DEF NewRuntime
<1> HIDE DEF NewRuntime
<1>4. /\ server = NewRuntime /\ client = NewRuntime /\ confirmed = NewRuntime
      /\ uplink = {} /\ snapshots = {} /\ issued = << >>
      /\ history = <<>> /\ pendingCommands = <<>>
      /\ localStep = None /\ lastConfirmedStep = None
  BY DEF PredictionInit
<1>5. DOMAIN issued = {} /\ None = -1
  BY <1>4 DEF None
<1>6. PredictionTypes
  BY <1>1, <1>4, <1>5 DEF PredictionTypes
<1>7. Reached
  BY <1>3, <1>4, <1>5 DEF Reached
<1>8. OnlyIssued
  BY <1>2, <1>4 DEF OnlyIssued
<1>9. HistoryTracks /\ HistoryIsOurs
  BY <1>4 DEF HistoryTracks, HistoryIsOurs
<1>10. AgreesWithConfirmed
  BY <1>4 DEF AgreesWithConfirmed
<1>11. NothingUntracked
  <2>1. IdsOf(pendingCommands) = {}
    BY <1>4 DEF IdsOf
  <2> QED
    BY <1>2, <1>4, <2>1 DEF NothingUntracked
<1> QED
  BY <1>6, <1>7, <1>8, <1>9, <1>10, <1>11 DEF PredictionInv

(* Received by the server, a command is still one that was issued.          *)
LEMMA ReceiveStep ==
    ASSUME PredictionInv, NEW id \in Ids, ServerReceive(id)
    PROVE  PredictionInv'
<1>1. /\ server' = Enqueued(server, {[id |-> id, step |-> server.step]})
      /\ uplink' \subseteq uplink /\ id \in uplink
      /\ UNCHANGED <<snapshots, client, issued, managerVars>>
  BY DEF ServerReceive
<1> DEFINE C == {[id |-> id, step |-> server.step]}
<1>2. /\ server' \in Runtimes
      /\ \A i \in Ids : Predicted(server', i) <=> Predicted(server, i) \/ \E c \in C : c.id = i
  <2>1. server \in Runtimes
    BY DEF PredictionInv, PredictionTypes
  <2>2. server.step \in Nat
    BY <2>1, RuntimeFields, Zenon
  <2>3. C \in SUBSET PendingEntries /\ IsFiniteSet(C)
    <3>1. \A x : IsFiniteSet({x})
      BY FS_Singleton
    <3>2. [id |-> id, step |-> server.step] \in PendingEntries
      BY <2>2 DEF PendingEntries
    <3> QED
      BY <3>1, <3>2
  <2> HIDE DEF C
  <2>4. server' = Enqueued(server, C)
    BY <1>1 DEF C
  <2> QED
    BY <2>1, <2>3, <2>4, EnqueuedFields
<1>3. /\ UNCHANGED <<history, pendingCommands, pendingOverflowed, localStep, client>>
      /\ UNCHANGED <<lastConfirmedStep, predictionDisabled, confirmed, issued, snapshots>>
  BY <1>1 DEF managerVars
<1>4. PredictionTypes'
  BY <1>1, <1>2, <1>3 DEF PredictionInv, PredictionTypes
<1>5. OnlyIssued'
  <2>1. \A i \in Ids : Predicted(server', i) => i \in DOMAIN issued
    <3>1. \A i \in Ids : Predicted(server', i) => Predicted(server, i) \/ i = id
      BY <1>2
    <3>2. id \in DOMAIN issued
      BY <1>1 DEF PredictionInv, OnlyIssued
    <3>3. \A i \in Ids : Predicted(server, i) => i \in DOMAIN issued
      BY DEF PredictionInv, OnlyIssued
    <3> QED
      BY <3>1, <3>2, <3>3
  <2> QED
    BY <1>1, <1>3, <2>1 DEF PredictionInv, OnlyIssued
<1>6. Reached' /\ HistoryTracks'
  BY <1>3 DEF PredictionInv, Reached, HistoryTracks, TrackedSince, IdsOf, Predicted
<1>7. AgreesWithConfirmed' /\ HistoryIsOurs'
  BY <1>3 DEF PredictionInv, AgreesWithConfirmed, HistoryIsOurs, ExecutedBefore
<1>8. NothingUntracked'
  BY <1>3 DEF PredictionInv, NothingUntracked, IdsOf, Predicted
<1> QED
  BY <1>4, <1>5, <1>6, <1>7, <1>8 DEF PredictionInv

LEMMA ServerSteps ==
    ASSUME PredictionInv, ServerTick \/ ServerSnapshot
    PROVE  PredictionInv'
<1>1. server' = server \/ server' = Ticked(server)
  BY DEF ServerTick, ServerSnapshot
<1>2. server \in Runtimes
  BY DEF PredictionInv, PredictionTypes
<1>3. server' \in Runtimes /\ \A i \in Ids : Predicted(server', i) <=> Predicted(server, i)
  BY <1>1, <1>2, TickedRuntime, TickedPredicted
<1>4. snapshots' \subseteq snapshots \cup {server}
  BY DEF ServerTick, ServerSnapshot
<1>5. /\ UNCHANGED <<history, pendingCommands, pendingOverflowed, localStep, client>>
      /\ UNCHANGED <<lastConfirmedStep, predictionDisabled, confirmed, issued, uplink>>
  BY DEF ServerTick, ServerSnapshot, managerVars
<1>6. PredictionTypes'
  BY <1>2, <1>3, <1>4, <1>5 DEF PredictionInv, PredictionTypes
<1>7. OnlyIssued'
  <2>1. \A r \in {server', client'} \cup snapshots', i \in Ids : Predicted(r, i) => i \in DOMAIN issued'
    <3> SUFFICES ASSUME NEW r \in {server', client'} \cup snapshots', NEW i \in Ids, Predicted(r, i)
                 PROVE  i \in DOMAIN issued
      BY <1>5
    <3>1. r = server' \/ r \in {server, client} \cup snapshots
      BY <1>4, <1>5
    <3>2. \A q \in {server, client} \cup snapshots : Predicted(q, i) => i \in DOMAIN issued
      BY DEF PredictionInv, OnlyIssued
    <3> QED
      BY <1>3, <3>1, <3>2
  <2> QED
    BY <1>5, <2>1 DEF PredictionInv, OnlyIssued
<1>8. Reached' /\ HistoryTracks'
  BY <1>5 DEF PredictionInv, Reached, HistoryTracks, TrackedSince, IdsOf, Predicted
<1>9. AgreesWithConfirmed' /\ HistoryIsOurs'
  BY <1>5 DEF PredictionInv, AgreesWithConfirmed, HistoryIsOurs, ExecutedBefore
<1>10. NothingUntracked'
  BY <1>5 DEF PredictionInv, NothingUntracked, IdsOf, Predicted
<1> QED
  BY <1>6, <1>7, <1>8, <1>9, <1>10 DEF PredictionInv

(* What a runtime has executed before a step it has reached stays the same  *)
(* while it runs on, so the agreement with the last snapshot does too.      *)
LEMMA AgreementKept ==
    ASSUME PredictionInv, NEW r, \A n \in Int : n <= client.step =>
                                    ExecutedBefore(r, n) = ExecutedBefore(client, n)
    PROVE  /\ ExecutedBefore(r, lastConfirmedStep) = ExecutedBefore(confirmed, lastConfirmedStep)
           /\ \A i \in 1..Len(history) :
                 history[i].checksum.executed = ExecutedBefore(r, history[i].step)
<1>1. confirmed \in Runtimes /\ history \in Seq(HistoryEntries)
      /\ (lastConfirmedStep = None \/ lastConfirmedStep = confirmed.step)
  BY DEF PredictionInv, PredictionTypes
<1>2. lastConfirmedStep \in Int
  <2>1. confirmed.step \in Nat
    BY <1>1, RuntimeFields, Zenon
  <2> QED
    BY <1>1, <2>1 DEF None
<1>3. \A i \in 1..Len(history) : history[i].step \in Int
  BY <1>1 DEF HistoryEntries
<1>4. /\ lastConfirmedStep <= client.step
      /\ \A i \in 1..Len(history) : history[i].step <= client.step
  BY DEF PredictionInv, Reached
<1>5. /\ ExecutedBefore(client, lastConfirmedStep) = ExecutedBefore(confirmed, lastConfirmedStep)
      /\ \A i \in 1..Len(history) :
            history[i].checksum.executed = ExecutedBefore(client, history[i].step)
  BY Zenon DEF PredictionInv, AgreesWithConfirmed, HistoryIsOurs
<1> QED
  BY <1>2, <1>3, <1>4, <1>5

(* An insertion adds the command and loses none.                            *)
LEMMA InsertedElements ==
    ASSUME NEW commands \in Seq(PendingEntries), NEW c \in PendingEntries
    PROVE  /\ Inserted(commands, c) \in Seq(PendingEntries)
           /\ IdsOf(Inserted(commands, c)) = IdsOf(commands) \cup {c.id}
           /\ \A i \in 1..Len(Inserted(commands, c)) :
                 \/ Inserted(commands, c)[i] = c
                 \/ \E j \in 1..Len(commands) : Inserted(commands, c)[i] = commands[j]
<1> DEFINE A == {d \in Range(commands) : d.step <= c.step}
           B == {d \in Range(commands) : d.step > c.step}
           a == Select(commands, A)
           b == Select(commands, B)
<1>1. \A i \in 1..Len(commands) : commands[i] \in A \/ commands[i] \in B
  <2> TAKE i \in 1..Len(commands)
  <2>1. commands[i] \in Range(commands)
    BY DEF Range
  <2>2. commands[i].step \in Nat /\ c.step \in Nat
    <3>1. commands[i] \in PendingEntries
      OBVIOUS
    <3> QED
      BY <3>1 DEF PendingEntries
  <2>3. commands[i].step <= c.step \/ commands[i].step > c.step
    BY <2>2
  <2> QED
    BY <2>1, <2>3
<1> HIDE DEF A, B
<1>2. /\ a \in Seq(PendingEntries) /\ b \in Seq(PendingEntries)
      /\ \A k \in 1..Len(a) : \E i \in 1..Len(commands) : a[k] = commands[i]
      /\ \A k \in 1..Len(b) : \E i \in 1..Len(commands) : b[k] = commands[i]
      /\ \A i \in 1..Len(commands) : commands[i] \in A => \E k \in 1..Len(a) : a[k] = commands[i]
      /\ \A i \in 1..Len(commands) : commands[i] \in B => \E k \in 1..Len(b) : b[k] = commands[i]
  BY SelectElements
<1>3. Inserted(commands, c) = a \o <<c>> \o b
  BY DEF Inserted, A, B
<1> HIDE DEF a, b
<1> DEFINE all == a \o <<c>> \o b
<1>4. /\ all \in Seq(PendingEntries) /\ Len(all) = Len(a) + 1 + Len(b)
      /\ Len(a) \in Nat /\ Len(b) \in Nat
      /\ \A i \in 1..Len(a) : all[i] = a[i]
      /\ all[Len(a) + 1] = c
      /\ \A i \in 1..Len(b) : all[Len(a) + 1 + i] = b[i]
  BY <1>2
<1> HIDE DEF all
<1>5. \A i \in 1..Len(all) : all[i] = c \/ \E j \in 1..Len(commands) : all[i] = commands[j]
  <2> TAKE i \in 1..Len(all)
  <2>1. i \in 1..Len(a) \/ i = Len(a) + 1 \/ i - (Len(a) + 1) \in 1..Len(b)
    BY <1>4
  <2>2. CASE i - (Len(a) + 1) \in 1..Len(b)
    <3>1. all[i] = b[i - (Len(a) + 1)]
      BY <1>4, <2>2
    <3>2. \E j \in 1..Len(commands) : b[i - (Len(a) + 1)] = commands[j]
      BY <1>2, <2>2, Zenon
    <3> QED
      BY <3>1, <3>2
  <2>3. CASE i \in 1..Len(a)
    <3>1. all[i] = a[i]
      BY <1>4, <2>3
    <3>2. \E j \in 1..Len(commands) : a[i] = commands[j]
      BY <1>2, <2>3, Zenon
    <3> QED
      BY <3>1, <3>2
  <2>4. CASE i = Len(a) + 1
    BY <1>4, <2>4, Zenon
  <2> QED
    BY <2>1, <2>2, <2>3, <2>4
<1>6. \A i \in 1..Len(commands) : \E k \in 1..Len(all) : all[k] = commands[i]
  <2> TAKE i \in 1..Len(commands)
  <2>1. CASE commands[i] \in A
    <3>1. PICK k \in 1..Len(a) : a[k] = commands[i]
      BY <1>2, <2>1
    <3>2. k \in 1..Len(all) /\ all[k] = a[k]
      BY <1>4
    <3> QED
      BY <3>1, <3>2
  <2>2. CASE commands[i] \in B
    <3>1. PICK k \in 1..Len(b) : b[k] = commands[i]
      BY <1>2, <2>2
    <3>2. Len(a) + 1 + k \in 1..Len(all) /\ all[Len(a) + 1 + k] = commands[i]
      BY <1>4, <3>1
    <3> QED
      BY <3>2
  <2> QED
    BY <1>1, <2>1, <2>2
<1>7. \E k \in 1..Len(all) : all[k] = c
  <2>1. Len(a) + 1 \in 1..Len(all)
    BY <1>4
  <2> QED
    BY <1>4, <2>1, Zenon
<1>8. IdsOf(all) = IdsOf(commands) \cup {c.id}
  <2>1. \A x \in IdsOf(all) : x \in IdsOf(commands) \cup {c.id}
    BY <1>5 DEF IdsOf
  <2>2. \A x \in IdsOf(commands) : x \in IdsOf(all)
    BY <1>6 DEF IdsOf
  <2>3. c.id \in IdsOf(all)
    BY <1>7 DEF IdsOf
  <2> QED
    BY <2>1, <2>2, <2>3
<1> QED
  BY <1>3, <1>4, <1>5, <1>8 DEF all

(* A command of the player is queued and pending, or the buffer overflows.  *)
LEMMA LocalCommandStep ==
    ASSUME PredictionInv, NEW id \in Ids, LocalCommand(id)
    PROVE  PredictionInv'
<1> DEFINE c == [id |-> id, step |-> client.step]
           grown == Inserted(pendingCommands, c)
<1>1. /\ id \notin DOMAIN issued
      /\ uplink' = uplink \cup {id}
      /\ issued' = [n \in DOMAIN issued \cup {id} |-> IF n = id THEN client.step ELSE issued[n]]
      /\ client' = Enqueued(client, {c})
      /\ \/ predictionDisabled /\ UNCHANGED <<pendingCommands, pendingOverflowed>>
         \/ pendingCommands' = <<>> /\ pendingOverflowed' = TRUE
         \/ pendingCommands' = grown /\ UNCHANGED pendingOverflowed
      /\ UNCHANGED <<server, snapshots, history, localStep>>
      /\ UNCHANGED <<lastConfirmedStep, predictionDisabled, confirmed>>
  BY DEF LocalCommand, Issues, OverflowNoted
<1>2. client \in Runtimes /\ client.step \in Nat /\ pendingCommands \in Seq(PendingEntries)
  <2>1. client \in Runtimes /\ pendingCommands \in Seq(PendingEntries)
    BY DEF PredictionInv, PredictionTypes
  <2> QED
    BY <2>1, RuntimeFields, Zenon
<1>3. c \in PendingEntries /\ c.id = id /\ c.step = client.step
  BY <1>2 DEF PendingEntries
<1> HIDE DEF c
<1>4. /\ client' \in Runtimes /\ client'.step = client.step /\ client'.executed = client.executed
      /\ \A i \in Ids : Predicted(client', i) <=> Predicted(client, i) \/ i = id
  <2>1. {c} \in SUBSET PendingEntries /\ IsFiniteSet({c})
    <3>1. \A x : IsFiniteSet({x})
      BY FS_Singleton
    <3> QED
      BY <1>3, <3>1
  <2>2. \A i : (\E d \in {c} : d.id = i) <=> i = id
    BY <1>3
  <2> QED
    BY <1>1, <1>2, <2>1, <2>2, EnqueuedFields
<1>5. /\ grown \in Seq(PendingEntries)
      /\ IdsOf(grown) = IdsOf(pendingCommands) \cup {id}
      /\ \A i \in 1..Len(grown) : grown[i] = c \/ \E j \in 1..Len(pendingCommands) : grown[i] = pendingCommands[j]
  BY <1>2, <1>3, InsertedElements
<1> HIDE DEF grown
<1>6. DOMAIN issued' = DOMAIN issued \cup {id} /\ issued'[id] = client.step
      /\ \A n \in DOMAIN issued : n # id /\ issued'[n] = issued[n]
  BY <1>1
<1>7. /\ pendingCommands' \in Seq(PendingEntries)
      /\ \A i \in 1..Len(pendingCommands') :
            \/ pendingCommands'[i] = c
            \/ \E j \in 1..Len(pendingCommands) : pendingCommands'[i] = pendingCommands[j]
  <2>1. CASE pendingCommands' = pendingCommands
    BY <1>2, <2>1
  <2>2. CASE pendingCommands' = <<>>
    BY <2>2
  <2>3. CASE pendingCommands' = grown
    BY <1>5, <2>3, Zenon
  <2> QED
    BY <1>1, <2>1, <2>2, <2>3, Zenon
<1>8. \/ predictionDisabled' \/ pendingOverflowed'
      \/ /\ IdsOf(pendingCommands') = IdsOf(pendingCommands) \cup {id}
         /\ UNCHANGED pendingOverflowed
  BY <1>1, <1>5, Zenon
<1>9. IdsOf(pendingCommands') \subseteq IdsOf(pendingCommands) \cup {id}
  <2>1. IdsOf(<<>>) = {}
    BY DEF IdsOf
  <2> QED
    BY <1>1, <1>5, <2>1
<1>10. PredictionTypes'
  <2>1. PredictionTypes
    BY DEF PredictionInv
  <2>2. {server', client', confirmed'} \cup snapshots' \subseteq Runtimes
    BY <1>1, <1>4, <2>1 DEF PredictionTypes
  <2>3. uplink' \subseteq Ids /\ DOMAIN issued' \subseteq Ids
    BY <1>1, <1>6, <2>1 DEF PredictionTypes
  <2>5. \A i \in DOMAIN issued' : issued'[i] \in Nat
    BY <1>2, <1>6, <2>1 DEF PredictionTypes
  <2>4. history' \in Seq(HistoryEntries) /\ localStep' \in Int
        /\ (lastConfirmedStep' = None \/ lastConfirmedStep' = confirmed'.step)
    BY <1>1, <2>1, Zenon DEF PredictionTypes
  <2> QED
    BY <1>7, <2>2, <2>3, <2>4, <2>5, Zenon DEF PredictionTypes
<1>11. Reached'
  BY <1>1, <1>4 DEF PredictionInv, Reached
<1>12. OnlyIssued'
  <2>1. uplink' \subseteq DOMAIN issued'
    BY <1>1, <1>6 DEF PredictionInv, OnlyIssued
  <2>2. \A r \in {server, client} \cup snapshots, i \in Ids : Predicted(r, i) => i \in DOMAIN issued
    BY DEF PredictionInv, OnlyIssued
  <2>3. \A r \in {server', client'} \cup snapshots', i \in Ids : Predicted(r, i) => i \in DOMAIN issued'
    BY <1>1, <1>4, <1>6, <2>2
  <2>4. \A i \in 1..Len(pendingCommands) :
           pendingCommands[i].id \in DOMAIN issued
           /\ issued[pendingCommands[i].id] = pendingCommands[i].step
    BY DEF PredictionInv, OnlyIssued
  <2>5. \A i \in 1..Len(pendingCommands') :
           pendingCommands'[i].id \in DOMAIN issued'
           /\ issued'[pendingCommands'[i].id] = pendingCommands'[i].step
    BY <1>3, <1>6, <1>7, <2>4
  <2> QED
    BY <2>1, <2>3, <2>5 DEF OnlyIssued
<1>13. ASSUME NEW r, NEW i \in Ids, Predicted(client', i),
              Predicted(client, i) => TrackedSince(r, i)
       PROVE  TrackedSince(r, i)'
  <2>1. Predicted(client, i) \/ i = id
    BY <1>4, <1>13
  <2>2. i # id => Predicted(client, i) /\ i \in DOMAIN issued /\ issued'[i] = issued[i]
    BY <1>6, <2>1 DEF PredictionInv, OnlyIssued
  <2>3. CASE predictionDisabled' \/ pendingOverflowed'
    BY <2>3 DEF TrackedSince
  <2>4. CASE IdsOf(pendingCommands') = IdsOf(pendingCommands) \cup {id} /\ UNCHANGED pendingOverflowed
    <3>1. CASE i = id
      BY <2>4, <3>1 DEF TrackedSince
    <3>2. CASE i # id
      BY <1>1, <1>13, <2>2, <2>4, <3>2 DEF TrackedSince
    <3> QED
      BY <3>1, <3>2
  <2> QED
    BY <1>8, <2>3, <2>4
<1>14. HistoryTracks'
  <2>1. ASSUME NEW k \in 1..Len(history), NEW i \in Ids, Predicted(client', i)
        PROVE  TrackedSince(history[k].checksum, i)'
    <3> DEFINE h == history[k].checksum
    <3>1. Predicted(client, i) => TrackedSince(h, i)
      BY DEF PredictionInv, HistoryTracks
    <3>2. h' = h
      BY <1>1
    <3> HIDE DEF h
    <3>3. TrackedSince(h, i)'
      BY <1>13, <2>1, <3>1, <3>2 DEF TrackedSince
    <3> QED
      BY <3>3 DEF h
  <2> QED
    BY <1>1, <2>1 DEF HistoryTracks
<1>15. AgreesWithConfirmed' /\ HistoryIsOurs'
  <2>1. \A n \in Int : n <= client.step => ExecutedBefore(client', n) = ExecutedBefore(client, n)
    BY <1>4, BeforeSame
  <2>2. /\ ExecutedBefore(client', lastConfirmedStep) = ExecutedBefore(confirmed, lastConfirmedStep)
        /\ \A i \in 1..Len(history) :
              history[i].checksum.executed = ExecutedBefore(client', history[i].step)
    BY <2>1, AgreementKept
  <2> QED
    BY <1>1, <2>2 DEF AgreesWithConfirmed, HistoryIsOurs
<1>16. NothingUntracked'
  <2>1. ASSUME NEW i \in Ids, i \in IdsOf(pendingCommands') PROVE Predicted(client', i)
    BY <1>4, <1>9, <2>1 DEF PredictionInv, NothingUntracked
  <2>2. ASSUME NEW i \in Ids, Predicted(client', i)
        PROVE  \/ pendingOverflowed' \/ predictionDisabled'
               \/ i \in IdsOf(pendingCommands') \/ Predicted(confirmed', i)
               \/ issued'[i] <= lastConfirmedStep'
    <3>1. Predicted(client, i) => TrackedSince(confirmed, i)
      BY DEF PredictionInv, NothingUntracked, TrackedSince
    <3>2. TrackedSince(confirmed, i)'
      BY <1>1, <1>13, <2>2, <3>1 DEF TrackedSince
    <3> QED
      BY <3>2 DEF TrackedSince
  <2> QED
    BY <2>1, <2>2 DEF NothingUntracked
<1> QED
  BY <1>10, <1>11, <1>12, <1>14, <1>15, <1>16 DEF PredictionInv

(* A predicted tick keeps what was executed before it, and the checksum it  *)
(* records is the one of the client's own runtime.                          *)
LEMMA PredictStepStep ==
    ASSUME PredictionInv, PredictStep
    PROVE  PredictionInv'
<1>1. /\ client' = Ticked(client)
      /\ UNCHANGED <<server, uplink, snapshots, issued, pendingCommands, pendingOverflowed>>
      /\ UNCHANGED <<lastConfirmedStep, predictionDisabled, confirmed>>
  BY DEF PredictStep
<1>2. client \in Runtimes /\ client.step \in Nat /\ history \in Seq(HistoryEntries)
      /\ lastConfirmedStep \in Int /\ localStep \in Int
  <2>1. client \in Runtimes /\ confirmed \in Runtimes /\ history \in Seq(HistoryEntries)
        /\ localStep \in Int
        /\ (lastConfirmedStep = None \/ lastConfirmedStep = confirmed.step)
    BY DEF PredictionInv, PredictionTypes
  <2>2. client.step \in Nat /\ confirmed.step \in Nat
    BY <2>1, RuntimeFields, Zenon
  <2> QED
    BY <2>1, <2>2 DEF None
<1>3. /\ client' \in Runtimes /\ client'.step = client.step + 1
      /\ \A i \in Ids : Predicted(client', i) <=> Predicted(client, i)
  BY <1>1, <1>2, TickedRuntime, TickedFields, TickedPredicted
<1> DEFINE entry == [step |-> client'.step, checksum |-> client']
<1>4. entry \in HistoryEntries /\ Ours(entry, client')
      /\ entry.step = client.step + 1 /\ entry.checksum = client'
  BY <1>3, OursNew
<1> HIDE DEF entry
<1>5. /\ history' \in Seq(HistoryEntries)
      /\ \A i \in 1..Len(history') :
            history'[i] = entry \/ \E j \in 1..Len(history) : history'[i] = history[j]
      /\ localStep' \in Int
  <2>1. CASE predictionDisabled
    <3>1. history' = history /\ localStep' = localStep
      BY <2>1 DEF PredictStep
    <3> QED
      BY <1>2, <3>1
  <2>2. CASE ~predictionDisabled
    <3> DEFINE old == [entries |-> history, last |-> lastRecordedStep]
               m == IF lastRecordedStep # None /\ client'.step <= lastRecordedStep
                    THEN Fresh ELSE old
    <3>1. history' = Recording(m, client').entries /\ localStep' = client'.step
      BY <2>2, Zenon DEF PredictStep
    <3>2. /\ m.entries \in Seq(HistoryEntries)
          /\ m.entries = history \/ m.entries = <<>>
      BY <1>2 DEF Fresh
    <3> HIDE DEF m
    <3>3. /\ history' \in Seq(HistoryEntries)
          /\ \A i \in 1..Len(history') :
                history'[i] = entry \/ \E j \in 1..Len(m.entries) : history'[i] = m.entries[j]
      BY <1>3, <3>1, <3>2, RecordingEntries DEF entry
    <3>4. \A i \in 1..Len(history') :
             history'[i] = entry \/ \E j \in 1..Len(history) : history'[i] = history[j]
      <4>1. CASE m.entries = history
        BY <3>3, <4>1, Zenon
      <4>2. CASE m.entries = <<>>
        <5>1. 1..Len(m.entries) = {}
          BY <4>2
        <5> QED
          BY <3>3, <5>1
      <4> QED
        BY <3>2, <4>1, <4>2
    <3>5. localStep' \in Int
      BY <1>2, <1>3, <3>1
    <3> QED
      BY <3>3, <3>4, <3>5
  <2> QED
    BY <2>1, <2>2
<1>6. PredictionTypes'
  <2>1. PredictionTypes
    BY DEF PredictionInv
  <2>2. {server', client', confirmed'} \cup snapshots' \subseteq Runtimes
    BY <1>1, <1>3, <2>1 DEF PredictionTypes
  <2> QED
    BY <1>1, <1>5, <2>1, <2>2, Zenon DEF PredictionTypes
<1>7. \A i \in 1..Len(history) : history[i].step \in Int /\ history[i].step <= client.step
  BY <1>2 DEF PredictionInv, Reached, HistoryEntries
<1>8. Reached'
  <2>1. lastConfirmedStep' <= client'.step
    BY <1>1, <1>2, <1>3 DEF PredictionInv, Reached
  <2>2. ASSUME NEW i \in 1..Len(history') PROVE history'[i].step <= client'.step
    <3>1. CASE history'[i] = entry
      BY <1>2, <1>3, <1>4, <3>1
    <3>2. ASSUME NEW j \in 1..Len(history), history'[i] = history[j]
          PROVE  history'[i].step <= client'.step
      BY <1>2, <1>3, <1>7, <3>2
    <3> QED
      BY <1>5, <3>1, <3>2
  <2> QED
    BY <2>1, <2>2 DEF Reached
<1>9. OnlyIssued'
  <2>1. \A r \in {server, client} \cup snapshots, i \in Ids : Predicted(r, i) => i \in DOMAIN issued
    BY DEF PredictionInv, OnlyIssued
  <2>2. \A r \in {server', client'} \cup snapshots', i \in Ids : Predicted(r, i) => i \in DOMAIN issued'
    BY <1>1, <1>3, <2>1
  <2> QED
    BY <1>1, <2>2 DEF PredictionInv, OnlyIssued
<1>10. HistoryTracks'
  <2>1. ASSUME NEW k \in 1..Len(history'), NEW i \in Ids, Predicted(client', i)
        PROVE  \/ pendingOverflowed \/ predictionDisabled
               \/ i \in IdsOf(pendingCommands)
               \/ Predicted(history'[k].checksum, i)
               \/ issued[i] <= lastConfirmedStep
    <3>1. CASE history'[k] = entry
      BY <1>4, <2>1, <3>1
    <3>2. ASSUME NEW j \in 1..Len(history), history'[k] = history[j]
          PROVE  TrackedSince(history'[k].checksum, i)
      <4>1. TrackedSince(history[j].checksum, i)
        BY <1>3, <2>1 DEF PredictionInv, HistoryTracks
      <4> QED
        BY <3>2, <4>1
    <3> QED
      BY <1>5, <3>1, <3>2 DEF TrackedSince
  <2>2. UNCHANGED <<pendingOverflowed, predictionDisabled, pendingCommands, issued, lastConfirmedStep>>
    BY <1>1
  <2> QED
    BY <2>1, <2>2, Zenon DEF HistoryTracks, TrackedSince, IdsOf
<1>11. /\ ExecutedBefore(client', lastConfirmedStep) = ExecutedBefore(confirmed, lastConfirmedStep)
       /\ \A i \in 1..Len(history) :
             history[i].checksum.executed = ExecutedBefore(client', history[i].step)
  <2>1. \A n \in Int : n <= client.step => ExecutedBefore(client', n) = ExecutedBefore(client, n)
    BY <1>1, <1>2, TickedBefore
  <2> QED
    BY <2>1, AgreementKept
<1>12. AgreesWithConfirmed'
  BY <1>1, <1>11 DEF AgreesWithConfirmed
<1>13. HistoryIsOurs'
  <2>1. ASSUME NEW i \in 1..Len(history')
        PROVE  history'[i].checksum.executed = ExecutedBefore(client', history'[i].step)
    <3>1. CASE history'[i] = entry
      BY <1>4, <3>1 DEF Ours
    <3> QED
      BY <1>5, <1>11, <3>1
  <2> QED
    BY <2>1 DEF HistoryIsOurs
<1>14. NothingUntracked'
  <2>1. ASSUME NEW i \in Ids
        PROVE  /\ i \in IdsOf(pendingCommands) => Predicted(client', i)
               /\ Predicted(client', i) =>
                     \/ pendingOverflowed \/ predictionDisabled
                     \/ i \in IdsOf(pendingCommands) \/ Predicted(confirmed, i)
                     \/ issued[i] <= lastConfirmedStep
    BY <1>3 DEF PredictionInv, NothingUntracked
  <2> QED
    BY <1>1, <2>1 DEF NothingUntracked
<1> QED
  BY <1>6, <1>8, <1>9, <1>10, <1>12, <1>13, <1>14 DEF PredictionInv

(* A runtime restored from a snapshot and replayed with commands that were  *)
(* pending.                                                                 *)
LEMMA ReconcileStep ==
    ASSUME PredictionInv, NEW s \in snapshots, NEW commands \in Seq(PendingEntries),
           NEW target \in Int,
           \A i \in 1..Len(commands) : \E j \in 1..Len(pendingCommands) : commands[i] = pendingCommands[j],
           Reconcile(s, commands, target), UNCHANGED <<server, uplink, snapshots, issued>>
    PROVE  PredictionInv'
<1>1. /\ pendingCommands' = commands /\ lastConfirmedStep' = s.step /\ confirmed' = s
      /\ UNCHANGED <<server, uplink, snapshots, issued>>
  BY DEF Reconcile
<1>2. s \in Runtimes
  BY DEF PredictionInv, PredictionTypes
<1>3. /\ client' \in Runtimes /\ history' \in Seq(HistoryEntries) /\ localStep' \in Int
      /\ client'.step >= s.step
      /\ ExecutedBefore(client', s.step) = s.executed
      /\ \A id \in Ids : Predicted(client', id) <=> Predicted(s, id) \/ id \in IdsOf(commands)
      /\ \A i \in 1..Len(history') :
            /\ Ours(history'[i], client')
            /\ \A id \in Ids : Predicted(client', id) =>
                  id \in IdsOf(commands) \/ Predicted(history'[i].checksum, id)
  BY <1>2, ReconcileResult
<1>4. client'.step \in Nat /\ s.step \in Nat /\ ExecutedBefore(s, s.step) = s.executed
  BY <1>2, <1>3, RuntimeFields, BeforeNow, Zenon
<1>5. PredictionTypes'
  <2>1. {server', client', confirmed'} \cup snapshots' \subseteq Runtimes
    BY <1>1, <1>2, <1>3 DEF PredictionInv, PredictionTypes
  <2>2. /\ uplink' \subseteq Ids /\ DOMAIN issued' \subseteq Ids
        /\ \A i \in DOMAIN issued' : issued'[i] \in Nat
    BY <1>1 DEF PredictionInv, PredictionTypes
  <2>3. pendingCommands' \in Seq(PendingEntries) /\ lastConfirmedStep' = confirmed'.step
    BY <1>1
  <2> QED
    BY <1>3, <2>1, <2>2, <2>3, Zenon DEF PredictionTypes
<1>6. Reached'
  BY <1>1, <1>3, <1>4, Zenon DEF Reached, Ours
<1>7. \A i \in 1..Len(commands) :
         commands[i].id \in DOMAIN issued /\ issued[commands[i].id] = commands[i].step
  BY DEF PredictionInv, OnlyIssued
<1>8. OnlyIssued'
  <2>1. \A r \in {server, client} \cup snapshots, i \in Ids : Predicted(r, i) => i \in DOMAIN issued
    BY DEF PredictionInv, OnlyIssued
  <2>2. \A i \in Ids : Predicted(client', i) => i \in DOMAIN issued
    <3>1. \A i \in IdsOf(commands) : i \in DOMAIN issued
      BY <1>7 DEF IdsOf
    <3> QED
      BY <1>3, <2>1, <3>1
  <2>3. \A r \in {server', client'} \cup snapshots', i \in Ids : Predicted(r, i) => i \in DOMAIN issued'
    BY <1>1, <2>1, <2>2
  <2>4. uplink' \subseteq DOMAIN issued'
    BY <1>1 DEF PredictionInv, OnlyIssued
  <2> QED
    BY <1>1, <1>7, <2>3, <2>4, Zenon DEF OnlyIssued
<1>9. HistoryTracks'
  <2>1. IdsOf(pendingCommands') = IdsOf(commands)
    BY <1>1
  <2> QED
    BY <1>3, <2>1, Zenon DEF HistoryTracks, TrackedSince
<1>10. AgreesWithConfirmed'
  BY <1>1, <1>3, <1>4 DEF AgreesWithConfirmed
<1>11. HistoryIsOurs'
  BY <1>3, Zenon DEF HistoryIsOurs, Ours
<1>12. NothingUntracked'
  <2>1. IdsOf(pendingCommands') = IdsOf(commands) /\ confirmed' = s
    BY <1>1
  <2> QED
    BY <1>3, <2>1, Zenon DEF NothingUntracked
<1> QED
  BY <1>5, <1>6, <1>8, <1>9, <1>10, <1>11, <1>12 DEF PredictionInv

(* A snapshot that is confirmed is the runtime recorded at its step, so the *)
(* client's agrees with it already.                                         *)
LEMMA ConfirmStep ==
    ASSUME PredictionInv, NEW s \in snapshots, Confirm(s)
    PROVE  PredictionInv'
<1>1. /\ pendingCommands' = Unconfirmed(pendingCommands, s.step)
      /\ lastConfirmedStep' = s.step /\ confirmed' = s
      /\ UNCHANGED <<server, uplink, snapshots, issued, client, history>>
      /\ UNCHANGED <<pendingOverflowed, localStep, predictionDisabled>>
      /\ HasChecksum(s.step) /\ LocalChecksum(s.step) = s /\ ~(s.step < lastConfirmedStep)
  BY DEF Confirm, Delivery, ChecksumMatch, StateChecksum, Stale
<1>2. s \in Runtimes /\ confirmed \in Runtimes /\ history \in Seq(HistoryEntries)
      /\ pendingCommands \in Seq(PendingEntries)
      /\ (lastConfirmedStep = None \/ lastConfirmedStep = confirmed.step)
  BY DEF PredictionInv, PredictionTypes
<1>3. s.step \in Nat /\ ExecutedBefore(s, s.step) = s.executed /\ lastConfirmedStep \in Int
  <2>1. s.step \in Nat /\ ExecutedBefore(s, s.step) = s.executed /\ confirmed.step \in Nat
    BY <1>2, RuntimeFields, BeforeNow, Zenon
  <2> QED
    BY <1>2, <2>1 DEF None
<1>4. PICK k \in 1..Len(history) : history[k].step = s.step /\ history[k].checksum = s
  <2> DEFINE First(i) == /\ history[i].step = s.step
                         /\ \A j \in 1..(i - 1) : history[j].step # s.step
             T == {i \in 1..Len(history) : history[i].step = s.step}
  <2>1. T \subseteq Nat /\ T # {}
    BY <1>1 DEF HasChecksum
  <2>2. PICK n \in T : \A i \in T : n <= i
    <3> HIDE DEF T
    <3> QED
      BY <2>1, LeastNatural
  <2>3. Len(history) \in Nat
    BY <1>2
  <2>4. n \in 1..Len(history) /\ First(n)
    <3>1. ASSUME NEW j \in 1..(n - 1) PROVE history[j].step # s.step
      <4>1. j \in 1..Len(history) /\ ~(n <= j)
        BY <2>3
      <4> QED
        BY <2>2, <4>1
    <3> QED
      BY <3>1
  <2> DEFINE k == CHOOSE i \in 1..Len(history) : First(i)
  <2>5. k \in 1..Len(history) /\ First(k)
    <3> HIDE DEF First
    <3> QED
      BY <2>4, Zenon
  <2>6. LocalChecksum(s.step) = history[k].checksum
    BY Zenon DEF LocalChecksum
  <2> HIDE DEF k
  <2> QED
    BY <1>1, <2>5, <2>6
<1>5. /\ pendingCommands' \in Seq(PendingEntries)
      /\ \A i \in 1..Len(pendingCommands') :
            \E j \in 1..Len(pendingCommands) : pendingCommands'[i] = pendingCommands[j]
      /\ \A j \in 1..Len(pendingCommands) :
            pendingCommands[j].step > s.step =>
               \E i \in 1..Len(pendingCommands') : pendingCommands'[i] = pendingCommands[j]
  <2> DEFINE S == {c \in Range(pendingCommands) : c.step > s.step}
  <2>1. pendingCommands' = Select(pendingCommands, S)
    BY <1>1 DEF Unconfirmed
  <2>2. \A j \in 1..Len(pendingCommands) : pendingCommands[j].step > s.step => pendingCommands[j] \in S
    BY <1>2 DEF Range
  <2> HIDE DEF S
  <2> DEFINE kept == Select(pendingCommands, S)
  <2>3. /\ kept \in Seq(PendingEntries)
        /\ \A i \in 1..Len(kept) : \E j \in 1..Len(pendingCommands) :
              kept[i] = pendingCommands[j] /\ pendingCommands[j] \in S
        /\ \A j \in 1..Len(pendingCommands) : pendingCommands[j] \in S =>
              \E i \in 1..Len(kept) : kept[i] = pendingCommands[j]
    <3>1. pendingCommands \in Seq(PendingEntries)
      BY <1>2
    <3> QED
      BY <3>1, SelectElements
  <2> HIDE DEF kept
  <2>4. pendingCommands' = kept
    BY <2>1 DEF kept
  <2> QED
    BY <2>2, <2>3, <2>4
<1>6. \A id \in Ids : id \in IdsOf(pendingCommands) =>
                         id \in IdsOf(pendingCommands') \/ issued[id] <= s.step
  <2> SUFFICES ASSUME NEW j \in 1..Len(pendingCommands)
               PROVE  \/ pendingCommands[j].id \in IdsOf(pendingCommands')
                      \/ issued[pendingCommands[j].id] <= s.step
    BY DEF IdsOf
  <2>1. issued[pendingCommands[j].id] = pendingCommands[j].step
    BY DEF PredictionInv, OnlyIssued
  <2>2. pendingCommands[j].step \in Nat
    <3>1. pendingCommands[j] \in PendingEntries
      BY <1>2
    <3> QED
      BY <3>1 DEF PendingEntries
  <2>3. pendingCommands[j].step > s.step \/ pendingCommands[j].step <= s.step
    BY <1>3, <2>2
  <2>4. pendingCommands[j].step > s.step => pendingCommands[j].id \in IdsOf(pendingCommands')
    BY <1>5 DEF IdsOf
  <2> QED
    BY <2>1, <2>3, <2>4
<1>7. \A id \in IdsOf(pendingCommands') : id \in IdsOf(pendingCommands)
  BY <1>5 DEF IdsOf
<1>8. \A r : \A id \in Ids : Predicted(client, id) /\ TrackedSince(r, id) => TrackedSince(r, id)'
  <2> SUFFICES ASSUME NEW id \in Ids, NEW r, Predicted(client, id), TrackedSince(r, id)
               PROVE  \/ pendingOverflowed \/ predictionDisabled
                      \/ id \in IdsOf(pendingCommands')
                      \/ Predicted(r, id)
                      \/ issued[id] <= s.step
    BY <1>1 DEF TrackedSince
  <2>1. issued[id] <= lastConfirmedStep => issued[id] <= s.step
    <3>1. issued[id] \in Nat
      BY DEF PredictionInv, PredictionTypes, OnlyIssued
    <3> QED
      BY <1>1, <1>3, <3>1
  <2> QED
    BY <1>6, <2>1 DEF TrackedSince
<1>9. PredictionTypes'
  <2>1. PredictionTypes
    BY DEF PredictionInv
  <2>2. {server', client', confirmed'} \cup snapshots' \subseteq Runtimes
    BY <1>1, <1>2, <2>1 DEF PredictionTypes
  <2> QED
    BY <1>1, <1>5, <2>1, <2>2, Zenon DEF PredictionTypes
<1>10. Reached'
  <2>1. s.step <= client.step
    BY <1>4 DEF PredictionInv, Reached
  <2> QED
    BY <1>1, <2>1 DEF PredictionInv, Reached
<1>11. OnlyIssued'
  <2>1. \A r \in {server', client'} \cup snapshots', i \in Ids : Predicted(r, i) => i \in DOMAIN issued'
    BY <1>1 DEF PredictionInv, OnlyIssued
  <2>2. \A j \in 1..Len(pendingCommands) :
           pendingCommands[j].id \in DOMAIN issued
           /\ issued[pendingCommands[j].id] = pendingCommands[j].step
    BY DEF PredictionInv, OnlyIssued
  <2>3. \A i \in 1..Len(pendingCommands') :
           pendingCommands'[i].id \in DOMAIN issued'
           /\ issued'[pendingCommands'[i].id] = pendingCommands'[i].step
    BY <1>1, <1>5, <2>2
  <2> QED
    BY <1>1, <2>1, <2>3 DEF PredictionInv, OnlyIssued
<1>12. HistoryTracks'
  <2>1. ASSUME NEW i \in 1..Len(history), NEW id \in Ids, Predicted(client, id)
        PROVE  TrackedSince(history[i].checksum, id)'
    <3> DEFINE h == history[i].checksum
    <3>1. TrackedSince(h, id)
      BY <2>1 DEF PredictionInv, HistoryTracks
    <3>2. h' = h
      BY <1>1
    <3> HIDE DEF h
    <3>3. TrackedSince(h, id)'
      BY <1>8, <2>1, <3>1, <3>2 DEF TrackedSince
    <3> QED
      BY <3>3 DEF h
  <2> QED
    BY <1>1, <2>1 DEF HistoryTracks
<1>13. AgreesWithConfirmed' /\ HistoryIsOurs'
  <2>1. s.executed = ExecutedBefore(client, s.step)
    BY <1>4 DEF PredictionInv, HistoryIsOurs
  <2>2. AgreesWithConfirmed'
    BY <1>1, <1>3, <2>1 DEF AgreesWithConfirmed
  <2>3. HistoryIsOurs'
    BY <1>1 DEF PredictionInv, HistoryIsOurs
  <2> QED
    BY <2>2, <2>3
<1>14. NothingUntracked'
  <2>1. ASSUME NEW id \in Ids, id \in IdsOf(pendingCommands') PROVE Predicted(client', id)
    <3>1. id \in IdsOf(pendingCommands)
      BY <1>7, <2>1
    <3> QED
      BY <1>1, <3>1 DEF PredictionInv, NothingUntracked
  <2>2. ASSUME NEW id \in Ids, Predicted(client, id) PROVE TrackedSince(s, id)'
    <3>1. TrackedSince(s, id)
      BY <1>4, <2>2 DEF PredictionInv, HistoryTracks
    <3> QED
      BY <1>8, <2>2, <3>1
  <2> QED
    BY <1>1, <2>1, <2>2 DEF NothingUntracked, TrackedSince
<1> QED
  BY <1>9, <1>10, <1>11, <1>12, <1>13, <1>14 DEF PredictionInv

LEMMA ApplyStep ==
    ASSUME PredictionInv, NEW s \in snapshots, ApplyServerState(s)
    PROVE  PredictionInv'
<1>1. s \in Runtimes /\ pendingCommands \in Seq(PendingEntries) /\ localStep \in Int
  BY DEF PredictionInv, PredictionTypes
<1>2. s.step \in Nat
  BY <1>1, RuntimeFields, Zenon
<1>3. CASE Reconcile(s, <<>>, s.step) /\ UNCHANGED <<server, uplink, snapshots, issued>>
  <2>1. <<>> \in Seq(PendingEntries) /\ 1..Len(<<>>) = {} /\ s.step \in Int
    BY <1>2
  <2>2. \A i \in 1..Len(<<>>) : \E j \in 1..Len(pendingCommands) : <<>>[i] = pendingCommands[j]
    BY <2>1
  <2> QED
    BY <1>3, <2>1, <2>2, ReconcileStep
<1>4. CASE /\ Reconcile(s, Unconfirmed(pendingCommands, s.step), ResolvedLocalStep(s))
           /\ UNCHANGED <<server, uplink, snapshots, issued>>
  <2> DEFINE S == {c \in Range(pendingCommands) : c.step > s.step}
             commands == Unconfirmed(pendingCommands, s.step)
             target == ResolvedLocalStep(s)
  <2>1. commands = Select(pendingCommands, S)
    BY DEF Unconfirmed
  <2>2. target \in Int
    BY <1>1, <1>2 DEF ResolvedLocalStep
  <2> HIDE DEF S, commands
  <2>3. /\ commands \in Seq(PendingEntries)
        /\ \A i \in 1..Len(commands) :
              \E j \in 1..Len(pendingCommands) : commands[i] = pendingCommands[j]
    BY <1>1, <2>1, SelectElements
  <2>4. Reconcile(s, commands, target)
    BY <1>4, Zenon DEF commands
  <2> HIDE DEF target
  <2> QED
    BY <1>4, <2>2, <2>3, <2>4, ReconcileStep
<1>5. CASE Confirm(s)
  BY <1>5, ConfirmStep
<1>6. CASE Ignore(s)
  BY <1>6 DEF Ignore, Delivery, managerVars, PredictionInv, PredictionTypes, Reached, OnlyIssued,
     HistoryTracks, TrackedSince, AgreesWithConfirmed, HistoryIsOurs, NothingUntracked, IdsOf,
     Predicted, ExecutedBefore
<1>7. CASE (\E compatible \in BOOLEAN : ResyncDisabled(s, compatible)) \/ ResyncOverflow(s)
  BY <1>3, <1>7, Zenon DEF ResyncDisabled, ResyncOverflow, Delivery
<1>8. CASE ResyncUnrecorded(s) \/ RollBack(s)
  BY <1>4, <1>8, Zenon DEF ResyncUnrecorded, RollBack, Delivery
<1> QED
  BY <1>5, <1>6, <1>7, <1>8, Zenon DEF ApplyServerState

LEMMA PredictionInvStep ==
    ASSUME PredictionInv, [PredictionNext]_predictionVars
    PROVE  PredictionInv'
<1>1. ASSUME NEW id \in Ids, ServerReceive(id) PROVE PredictionInv'
  BY <1>1, ReceiveStep
<1>2. ASSUME NEW id \in Ids, LocalCommand(id) PROVE PredictionInv'
  BY <1>2, LocalCommandStep
<1>3. CASE ServerTick \/ ServerSnapshot
  BY <1>3, ServerSteps
<1>4. CASE PredictStep
  BY <1>4, PredictStepStep
<1>5. ASSUME NEW s \in snapshots, ApplyServerState(s) PROVE PredictionInv'
  BY <1>5, ApplyStep
<1>6. CASE UNCHANGED predictionVars
  BY <1>6 DEF predictionVars, managerVars, PredictionInv, PredictionTypes, Reached, OnlyIssued,
     HistoryTracks, TrackedSince, AgreesWithConfirmed, HistoryIsOurs, NothingUntracked, IdsOf,
     Predicted, ExecutedBefore
<1> QED
  BY <1>1, <1>2, <1>3, <1>4, <1>5, <1>6, Zenon DEF PredictionNext

LEMMA PredictionInductive == PredictionSpec => []PredictionInv
<1>1. PredictionInv /\ [PredictionNext]_predictionVars => PredictionInv'
  BY PredictionInvStep
<1> QED
  BY PredictionInvInit, <1>1, PTL DEF PredictionSpec

(* The client's present never contradicts the snapshot it reconciled with   *)
(* last (applyServerState, prediction-manager.ts).                          *)
THEOREM AgreesCorrect == PredictionSpec => []AgreesWithConfirmed
<1>1. PredictionInv => AgreesWithConfirmed
  BY DEF PredictionInv
<1> QED
  BY PredictionInductive, <1>1, PTL

(* No checksum of a timeline that was rolled back stays in the history      *)
(* (clearHistory, recordReplayStep).                                        *)
THEOREM HistoryCorrect == PredictionSpec => []HistoryIsOurs
<1>1. PredictionInv => HistoryIsOurs
  BY DEF PredictionInv
<1> QED
  BY PredictionInductive, <1>1, PTL

(* The runtime and the manager's pending commands never part: what is       *)
(* pending is predicted, and what is predicted is accounted for.            *)
THEOREM TrackedCorrect == PredictionSpec => []NothingUntracked
<1>1. PredictionInv => NothingUntracked
  BY DEF PredictionInv
<1> QED
  BY PredictionInductive, <1>1, PTL

-----------------------------------------------------------------------------
(* Order in what Select and FlattenSeq return                               *)

(* Element k of what is selected stood at index at[k].                      *)
Picks(at, s, S, t) ==
    /\ at \in [1..Len(t) -> 1..Len(s)]
    /\ \A k \in 1..Len(t) : t[k] = s[at[k]] /\ t[k] \in S
    /\ \A k, l \in 1..Len(t) : k < l => at[k] < at[l]
    /\ \A i \in 1..Len(s) : s[i] \in S => \E k \in 1..Len(t) : at[k] = i

LEMMA SelectOrder ==
    ASSUME NEW T, NEW s \in Seq(T), NEW S
    PROVE  /\ Select(s, S) \in Seq(T)
           /\ \E at : Picks(at, s, S, Select(s, S))
<1> DEFINE Sound(at, t, n) == /\ at \in [1..Len(t) -> 1..n]
                              /\ \A k \in 1..Len(t) : t[k] = s[at[k]] /\ t[k] \in S
                              /\ \A k, l \in 1..Len(t) : k < l => at[k] < at[l]
                              /\ \A i \in 1..n : s[i] \in S => \E k \in 1..Len(t) : at[k] = i
<1>a. PICK f : Choosing(f, s, S, T) /\ Select(s, S) = f[Len(s)]
  BY SelectLoop
<1> DEFINE L == Len(s)
<1>1. /\ f \in [0..L -> Seq(T)] /\ f[0] = <<>> /\ Select(s, S) = f[L]
      /\ \A n \in 1..L : f[n] = IF s[n] \in S THEN Append(f[n - 1], s[n]) ELSE f[n - 1]
  BY <1>a DEF Choosing
<1>2. L \in Nat /\ \A n \in 1..L : s[n] \in T
  OBVIOUS
<1> DEFINE Somehow(n) == \E at : Sound(at, f[n], n)
           Right == {n \in Nat : n <= L => Somehow(n)}
<1> HIDE DEF L, Somehow
<1>3. 0 \in Right
  <2> DEFINE at == [k \in {} |-> 0]
  <2>0. 1..Len(<<>>) = {} /\ 1..0 = {}
    OBVIOUS
  <2>1. Sound(at, <<>>, 0)
    BY <2>0
  <2> HIDE DEF at, Sound
  <2> QED
    BY <1>1, <2>1 DEF Somehow
<1>4. ASSUME NEW n \in Nat, n \in Right PROVE n + 1 \in Right
  <2> SUFFICES ASSUME n + 1 <= L PROVE Somehow(n + 1)
    OBVIOUS
  <2>1. /\ n + 1 \in 1..L /\ n \in 0..L /\ s[n + 1] \in T /\ f[n] \in Seq(T)
        /\ f[n + 1] = IF s[n + 1] \in S THEN Append(f[n], s[n + 1]) ELSE f[n]
        /\ \A i \in 1..(n + 1) : i \in 1..n \/ i = n + 1
    <3>1. n + 1 \in 1..L /\ n \in 0..L /\ (n + 1) - 1 = n
      BY <1>2
    <3> QED
      BY <1>1, <1>2, <3>1
  <2>2. PICK at : Sound(at, f[n], n)
    <3> HIDE DEF Sound
    <3> QED
      BY <1>2, <1>4 DEF Somehow
  <2>3. CASE s[n + 1] \in S
    <3> DEFINE t == f[n]
               u == Append(t, s[n + 1])
               to == [k \in 1..Len(u) |-> IF k = Len(t) + 1 THEN n + 1 ELSE at[k]]
    <3>1. f[n + 1] = u /\ t \in Seq(T) /\ u \in Seq(T)
      BY <2>1, <2>3
    <3>2. /\ Len(u) = Len(t) + 1 /\ u[Len(t) + 1] = s[n + 1] /\ Len(t) \in Nat
          /\ \A k \in 1..Len(t) : u[k] = t[k]
      BY <2>1
    <3>3. Sound(at, t, n)
      BY <2>2
    <3> HIDE DEF t, u
    <3>4. to[Len(t) + 1] = n + 1 /\ \A k \in 1..Len(t) : to[k] = at[k] /\ to[k] \in 1..n
      BY <3>2, <3>3
    <3>5. \A k \in 1..Len(u) : k \in 1..Len(t) \/ k = Len(t) + 1
      BY <3>2
    <3>6. to \in [1..Len(u) -> 1..(n + 1)]
      <4>1. \A k \in 1..Len(u) : (IF k = Len(t) + 1 THEN n + 1 ELSE at[k]) \in 1..(n + 1)
        <5> TAKE k \in 1..Len(u)
        <5>1. CASE k = Len(t) + 1
          BY <5>1
        <5>2. CASE k # Len(t) + 1
          <6>1. k \in 1..Len(t)
            BY <3>5, <5>2
          <6>2. at[k] \in 1..n
            BY <3>3, <6>1
          <6> QED
            BY <5>2, <6>2
        <5> QED
          BY <5>1, <5>2
      <4> QED
        BY <4>1
    <3> HIDE DEF to
    <3>7. \A k \in 1..Len(u) : u[k] = s[to[k]] /\ u[k] \in S
      <4> TAKE k \in 1..Len(u)
      <4>1. CASE k = Len(t) + 1
        BY <2>3, <3>2, <3>4, <4>1
      <4>2. CASE k \in 1..Len(t)
        BY <3>2, <3>3, <3>4, <4>2
      <4> QED
        BY <3>5, <4>1, <4>2
    <3>8. \A k, l \in 1..Len(u) : k < l => to[k] < to[l]
      <4> SUFFICES ASSUME NEW k \in 1..Len(u), NEW l \in 1..Len(u), k < l PROVE to[k] < to[l]
        OBVIOUS
      <4>1. k \in 1..Len(t)
        BY <3>2
      <4>2. CASE l = Len(t) + 1
        BY <3>4, <4>1, <4>2
      <4>3. CASE l \in 1..Len(t)
        BY <3>3, <3>4, <4>1, <4>3
      <4> QED
        BY <3>5, <4>2, <4>3
    <3>9. \A i \in 1..(n + 1) : s[i] \in S => \E k \in 1..Len(u) : to[k] = i
      <4> SUFFICES ASSUME NEW i \in 1..(n + 1), s[i] \in S PROVE \E k \in 1..Len(u) : to[k] = i
        OBVIOUS
      <4>1. CASE i = n + 1
        <5>1. Len(t) + 1 \in 1..Len(u)
          BY <3>2
        <5> QED
          BY <3>4, <4>1, <5>1
      <4>2. CASE i \in 1..n
        <5>1. PICK k \in 1..Len(t) : at[k] = i
          BY <3>3, <4>2
        <5>2. k \in 1..Len(u)
          BY <3>2
        <5> QED
          BY <3>4, <5>1, <5>2
      <4> QED
        BY <2>1, <4>1, <4>2
    <3>10. Sound(to, u, n + 1)
      BY <3>6, <3>7, <3>8, <3>9
    <3> HIDE DEF Sound
    <3> QED
      BY <3>1, <3>10 DEF Somehow
  <2>4. CASE s[n + 1] \notin S
    <3>1. f[n + 1] = f[n]
      BY <2>1, <2>4
    <3>2. Sound(at, f[n], n + 1)
      <4>1. at \in [1..Len(f[n]) -> 1..(n + 1)]
        BY <2>2
      <4>2. \A i \in 1..(n + 1) : s[i] \in S => \E k \in 1..Len(f[n]) : at[k] = i
        BY <2>1, <2>2, <2>4
      <4> QED
        BY <2>2, <4>1, <4>2
    <3> HIDE DEF Sound
    <3> QED
      BY <3>1, <3>2 DEF Somehow
  <2> QED
    BY <2>3, <2>4
<1> HIDE DEF Right
<1>5. Nat \subseteq Right
  BY <1>3, <1>4, SetInduction
<1>6. \E at : Sound(at, Select(s, S), L)
  <2>1. L \in Right /\ L <= L
    BY <1>2, <1>5
  <2> HIDE DEF Sound
  <2> QED
    BY <1>1, <2>1 DEF Right, Somehow
<1>7. Select(s, S) \in Seq(T)
  <2>1. L \in 0..L
    BY <1>2
  <2> QED
    BY <1>1, <2>1, Zenon
<1>8. \A at : Sound(at, Select(s, S), L) => Picks(at, s, S, Select(s, S))
  BY Zenon DEF Picks, L
<1> HIDE DEF Sound
<1> QED
  BY <1>6, <1>7, <1>8

(* What the loop of FlattenSeq has joined when it has gone through n        *)
(* sequences.                                                               *)
Joining(f, seqs, T) ==
    /\ f \in [0..Len(seqs) -> Seq(T)]
    /\ f[0] = <<>>
    /\ \A n \in 1..Len(seqs) : f[n] = f[n - 1] \o seqs[n]

LEMMA FlattenLoop ==
    ASSUME NEW T, NEW seqs \in Seq(Seq(T))
    PROVE  \E f : Joining(f, seqs, T) /\ FlattenSeq(seqs) = f[Len(seqs)]
<1> DEFINE L == Len(seqs)
           X == Seq(T)
           Step(g, i) == IF i = 1 THEN seqs[i] ELSE g[i - 1] \o seqs[i]
           next == [p \in (1..L) \X X |-> p[2] \o seqs[p[1]]]
<1>1. L \in Nat /\ \A n \in 1..L : seqs[n] \in Seq(T)
  OBVIOUS
<1>2. <<>> \in X
  OBVIOUS
<1>3. next \in [(1..L) \X X -> X]
  <2>1. ASSUME NEW n \in 1..L, NEW v \in X PROVE v \o seqs[n] \in X
    <3>1. seqs[n] \in Seq(T)
      BY <1>1
    <3> QED
      BY <3>1
  <2> QED
    BY <2>1
<1>4. \A n \in 1..L, v \in X : next[<<n, v>>] = v \o seqs[n]
  OBVIOUS
<1> HIDE DEF next, L, X
<1>a. PICK f : Recursive(f, <<>>, next, L, X)
  BY <1>1, <1>2, <1>3, Recursion
<1>5. f \in [0..L -> X] /\ f[0] = <<>> /\ \A n \in 1..L : f[n] = next[<<n, f[n - 1]>>]
  BY <1>a DEF Recursive
<1>6. \A n \in 1..L : f[n] = f[n - 1] \o seqs[n] /\ f[n - 1] \in X
  <2> TAKE n \in 1..L
  <2>1. f[n - 1] \in X
    BY <1>1, <1>5
  <2> QED
    BY <1>4, <1>5, <2>1
<1>7. Joining(f, seqs, T)
  BY <1>5, <1>6 DEF Joining, L, X
<1>8. CASE L = 0
  <2>1. FlattenSeq(seqs) = seqs
    BY <1>8 DEF FlattenSeq, L
  <2>2. seqs = <<>>
    BY <1>8 DEF L
  <2> QED
    BY <1>5, <1>7, <1>8, <2>1, <2>2 DEF L
<1>9. CASE L # 0
  <2> DEFINE h == [n \in 1..L |-> f[n]]
             c == CHOOSE g : g = [i \in 1..L |-> Step(g, i)]
  <2>1. h = [n \in 1..L |-> Step(h, n)]
    <3>1. ASSUME NEW n \in 1..L PROVE f[n] = Step(h, n)
      <4>1. CASE n = 1
        <5>1. seqs[1] \in Seq(T) /\ f[1] = f[0] \o seqs[1]
          <6>1. 1 \in 1..L /\ 1 - 1 = 0
            BY <4>1
          <6> QED
            BY <1>1, <1>6, <6>1
        <5>2. <<>> \o seqs[1] = seqs[1]
          BY <5>1
        <5> QED
          BY <1>5, <4>1, <5>1, <5>2
      <4>2. CASE n # 1
        <5>1. n - 1 \in 1..L
          BY <1>1, <4>2
        <5>2. h[n - 1] = f[n - 1]
          BY <5>1
        <5> QED
          BY <1>6, <4>2, <5>2
      <4> QED
        BY <4>1, <4>2
    <3> QED
      BY <3>1
  <2>2. c = [n \in 1..L |-> Step(c, n)]
    BY <2>1, Zenon
  <2>3. FlattenSeq(seqs) = c[L]
    BY <1>9, Zenon DEF FlattenSeq, L
  <2> HIDE DEF c
  <2>4. \A n \in 1..L : c[n] = Step(c, n)
    BY <2>2, Zenon
  <2> DEFINE Same == {n \in Nat : n + 1 <= L => c[n + 1] = f[n + 1]}
  <2>5. 0 \in Same
    <3>1. 1 \in 1..L
      BY <1>1, <1>9
    <3>4. 1 - 1 = 0
      OBVIOUS
    <3>2. c[1] = seqs[1] /\ f[1] = f[0] \o seqs[1] /\ seqs[1] \in Seq(T)
      BY <1>1, <1>6, <2>4, <3>1, <3>4
    <3>3. <<>> \o seqs[1] = seqs[1]
      BY <3>2
    <3> QED
      BY <1>5, <3>2, <3>3
  <2>6. ASSUME NEW n \in Nat, n \in Same PROVE n + 1 \in Same
    <3> SUFFICES ASSUME (n + 1) + 1 <= L PROVE c[(n + 1) + 1] = f[(n + 1) + 1]
      OBVIOUS
    <3> DEFINE m == (n + 1) + 1
    <3>1. m \in 1..L /\ m # 1 /\ m - 1 = n + 1 /\ n + 1 <= L
      BY <1>1
    <3>2. c[m] = c[n + 1] \o seqs[m] /\ f[m] = f[n + 1] \o seqs[m]
      BY <1>6, <2>4, <3>1
    <3> QED
      BY <2>6, <3>1, <3>2
  <2> HIDE DEF Same
  <2>7. c[L] = f[L]
    <3>1. Nat \subseteq Same
      BY <2>5, <2>6, SetInduction
    <3>2. L - 1 \in Nat /\ (L - 1) + 1 = L
      BY <1>1, <1>9
    <3>3. L - 1 \in Same
      BY <3>1, <3>2
    <3> QED
      BY <3>2, <3>3 DEF Same
  <2> QED
    BY <1>7, <2>3, <2>7 DEF L
<1> QED
  BY <1>8, <1>9

(* Where the elements of a flattened sequence come from: element q is       *)
(* element o[q] of sequence b[q].                                           *)
Parts(b, o, seqs, t) ==
    /\ \A q \in 1..Len(t) :
          /\ b[q] \in 1..Len(seqs) /\ o[q] \in 1..Len(seqs[b[q]])
          /\ t[q] = seqs[b[q]][o[q]]
    /\ \A p, q \in 1..Len(t) : p < q => b[p] < b[q] \/ (b[p] = b[q] /\ o[p] < o[q])
    /\ \A i \in 1..Len(seqs) : \A j \in 1..Len(seqs[i]) :
          \E q \in 1..Len(t) : b[q] = i /\ o[q] = j

LEMMA FlattenParts ==
    ASSUME NEW T, NEW seqs \in Seq(Seq(T))
    PROVE  /\ FlattenSeq(seqs) \in Seq(T)
           /\ \E b, o : Parts(b, o, seqs, FlattenSeq(seqs))
<1> DEFINE L == Len(seqs)
           In(b, o, t, n) == \A q \in 1..Len(t) : /\ b[q] \in 1..n /\ o[q] \in 1..Len(seqs[b[q]])
                                                  /\ t[q] = seqs[b[q]][o[q]]
           Ordered(b, o, t) == \A p, q \in 1..Len(t) :
                                  p < q => b[p] < b[q] \/ (b[p] = b[q] /\ o[p] < o[q])
           Onto(b, o, t, n) == \A i \in 1..n : \A j \in 1..Len(seqs[i]) :
                                  \E q \in 1..Len(t) : b[q] = i /\ o[q] = j
           Sound(b, o, t, n) == In(b, o, t, n) /\ Ordered(b, o, t) /\ Onto(b, o, t, n)
<1>a. PICK f : Joining(f, seqs, T) /\ FlattenSeq(seqs) = f[Len(seqs)]
  BY FlattenLoop
<1>1. /\ f \in [0..L -> Seq(T)] /\ f[0] = <<>> /\ FlattenSeq(seqs) = f[L]
      /\ \A n \in 1..L : f[n] = f[n - 1] \o seqs[n]
  BY <1>a DEF Joining
<1>2. L \in Nat /\ \A n \in 1..L : seqs[n] \in Seq(T)
  OBVIOUS
<1> DEFINE Somehow(n) == \E b, o : Sound(b, o, f[n], n)
           Right == {n \in Nat : n <= L => Somehow(n)}
<1> HIDE DEF L, Somehow
<1>3. 0 \in Right
  <2>1. 1..Len(<<>>) = {} /\ 1..0 = {}
    OBVIOUS
  <2>2. Sound(<<>>, <<>>, <<>>, 0)
    BY <2>1
  <2> HIDE DEF Sound
  <2> QED
    BY <1>1, <2>2 DEF Somehow
<1>4. ASSUME NEW n \in Nat, n \in Right PROVE n + 1 \in Right
  <2> SUFFICES ASSUME n + 1 <= L PROVE Somehow(n + 1)
    OBVIOUS
  <2> DEFINE t == f[n]
             s == seqs[n + 1]
             u == t \o s
  <2>1. f[n + 1] = u /\ t \in Seq(T) /\ s \in Seq(T)
    <3>1. n + 1 \in 1..L /\ n \in 0..L /\ (n + 1) - 1 = n
      BY <1>2
    <3> QED
      BY <1>1, <1>2, <3>1
  <2>2. PICK b, o : Sound(b, o, t, n)
    <3> HIDE DEF Sound
    <3> QED
      BY <1>2, <1>4 DEF Somehow
  <2> HIDE DEF t
  <2>3. /\ Len(u) = Len(t) + Len(s) /\ Len(t) \in Nat /\ Len(s) \in Nat
        /\ \A q \in 1..Len(t) : u[q] = t[q]
        /\ \A j \in 1..Len(s) : u[Len(t) + j] = s[j]
    <3> HIDE DEF s
    <3> QED
      BY <2>1
  <2> HIDE DEF u
  <2> DEFINE c == [q \in 1..Len(u) |-> IF q \in 1..Len(t) THEN b[q] ELSE n + 1]
             e == [q \in 1..Len(u) |-> IF q \in 1..Len(t) THEN o[q] ELSE q - Len(t)]
  <2>4. \A q \in 1..Len(t) : q \in 1..Len(u) /\ c[q] = b[q] /\ e[q] = o[q]
    BY <2>3
  <2>5. \A q \in 1..Len(u) : q \notin 1..Len(t) =>
           c[q] = n + 1 /\ e[q] = q - Len(t) /\ q - Len(t) \in 1..Len(s)
    BY <2>3
  <2> HIDE DEF c, e
  <2>6. In(c, e, u, n + 1)
    <3> SUFFICES ASSUME NEW q \in 1..Len(u)
                 PROVE  /\ c[q] \in 1..(n + 1) /\ e[q] \in 1..Len(seqs[c[q]])
                        /\ u[q] = seqs[c[q]][e[q]]
      OBVIOUS
    <3>1. CASE q \in 1..Len(t)
      <4>1. b[q] \in 1..n /\ o[q] \in 1..Len(seqs[b[q]]) /\ t[q] = seqs[b[q]][o[q]]
        BY <2>2, <3>1
      <4>2. c[q] = b[q] /\ e[q] = o[q] /\ u[q] = t[q]
        BY <2>3, <2>4, <3>1
      <4>3. b[q] \in 1..(n + 1)
        BY <4>1
      <4> QED
        BY <4>1, <4>2, <4>3, Zenon
    <3>2. CASE q \notin 1..Len(t)
      <4>1. c[q] = n + 1 /\ e[q] = q - Len(t) /\ q - Len(t) \in 1..Len(s)
        BY <2>5, <3>2
      <4>2. Len(t) + (q - Len(t)) = q
        BY <2>3
      <4>3. u[q] = s[q - Len(t)]
        BY <2>3, <4>1, <4>2, Zenon
      <4>4. n + 1 \in 1..(n + 1)
        OBVIOUS
      <4> QED
        BY <4>1, <4>3, <4>4, Zenon
    <3> QED
      BY <3>1, <3>2
  <2>7. Ordered(c, e, u)
    <3> SUFFICES ASSUME NEW p \in 1..Len(u), NEW q \in 1..Len(u), p < q
                 PROVE  c[p] < c[q] \/ (c[p] = c[q] /\ e[p] < e[q])
      OBVIOUS
    <3>1. CASE q \in 1..Len(t)
      <4>1. p \in 1..Len(t)
        BY <2>3, <3>1
      <4>2. b[p] < b[q] \/ (b[p] = b[q] /\ o[p] < o[q])
        BY <2>2, <3>1, <4>1
      <4> QED
        BY <2>4, <3>1, <4>1, <4>2
    <3>2. CASE p \in 1..Len(t) /\ q \notin 1..Len(t)
      <4>1. b[p] \in 1..n
        BY <2>2, <3>2
      <4>2. c[p] = b[p] /\ c[q] = n + 1
        BY <2>4, <2>5, <3>2
      <4> QED
        BY <4>1, <4>2
    <3>3. CASE p \notin 1..Len(t) /\ q \notin 1..Len(t)
      <4>1. c[p] = n + 1 /\ c[q] = n + 1 /\ e[p] = p - Len(t) /\ e[q] = q - Len(t)
        BY <2>5, <3>3
      <4>2. p - Len(t) < q - Len(t)
        BY <2>3
      <4> QED
        BY <4>1, <4>2
    <3> QED
      BY <3>1, <3>2, <3>3
  <2>8. Onto(c, e, u, n + 1)
    <3> SUFFICES ASSUME NEW i \in 1..(n + 1), NEW j \in 1..Len(seqs[i])
                 PROVE  \E q \in 1..Len(u) : c[q] = i /\ e[q] = j
      OBVIOUS
    <3>1. CASE i = n + 1
      <4>1. j \in 1..Len(s)
        BY <3>1
      <4>2. /\ Len(t) + j \in 1..Len(u) /\ Len(t) + j \notin 1..Len(t)
            /\ (Len(t) + j) - Len(t) = j
        BY <2>3, <4>1
      <4> QED
        BY <2>5, <3>1, <4>2
    <3>2. CASE i # n + 1
      <4>1. i \in 1..n
        BY <3>2
      <4>2. PICK q \in 1..Len(t) : b[q] = i /\ o[q] = j
        BY <2>2, <4>1
      <4> QED
        BY <2>4, <4>2
    <3> QED
      BY <3>1, <3>2
  <2>9. Sound(c, e, u, n + 1)
    BY <2>6, <2>7, <2>8
  <2> HIDE DEF Sound
  <2> QED
    BY <2>1, <2>9 DEF Somehow
<1> HIDE DEF Right
<1>5. Nat \subseteq Right
  BY <1>3, <1>4, SetInduction
<1>6. \E b, o : Sound(b, o, FlattenSeq(seqs), L)
  <2>1. L \in Right /\ L <= L
    BY <1>2, <1>5
  <2> HIDE DEF Sound
  <2> QED
    BY <1>1, <2>1 DEF Right, Somehow
<1>7. FlattenSeq(seqs) \in Seq(T)
  <2>1. L \in 0..L
    BY <1>2
  <2> QED
    BY <1>1, <2>1, Zenon
<1>8. \A b, o : Sound(b, o, FlattenSeq(seqs), L) => Parts(b, o, seqs, FlattenSeq(seqs))
  BY Zenon DEF Parts, L
<1> HIDE DEF Sound
<1> QED
  BY <1>6, <1>7, <1>8

(* Joining the first sequences only gives a beginning of the whole, and the *)
(* next sequence goes on from there.                                        *)
LEMMA FlattenPrefix ==
    ASSUME NEW T, NEW seqs \in Seq(Seq(T)), NEW k \in 1..Len(seqs)
    PROVE  LET some == FlattenSeq(SubSeq(seqs, 1, k - 1))
               flat == FlattenSeq(seqs)
           IN  /\ some \in Seq(T) /\ flat \in Seq(T)
               /\ Len(some) + Len(seqs[k]) <= Len(flat)
               /\ \A q \in 1..Len(some) : some[q] = flat[q]
               /\ \A j \in 1..Len(seqs[k]) : seqs[k][j] = flat[Len(some) + j]
<1> DEFINE L == Len(seqs)
           front == SubSeq(seqs, 1, k - 1)
           some == FlattenSeq(front)
           flat == FlattenSeq(seqs)
<1>1. /\ L \in Nat /\ k \in 1..L /\ \A n \in 1..L : seqs[n] \in Seq(T)
      /\ front \in Seq(Seq(T)) /\ Len(front) = k - 1 /\ \A n \in 1..(k - 1) : front[n] = seqs[n]
  OBVIOUS
<1> HIDE DEF front
<1>2. PICK f : Joining(f, seqs, T) /\ flat = f[Len(seqs)]
  BY FlattenLoop
<1>3. PICK g : Joining(g, front, T) /\ some = g[Len(front)]
  BY <1>1, FlattenLoop
<1> HIDE DEF some, flat
<1>4. /\ f \in [0..L -> Seq(T)] /\ f[0] = <<>> /\ flat = f[L]
      /\ \A n \in 1..L : f[n] = f[n - 1] \o seqs[n]
  BY <1>2 DEF Joining
<1>5. /\ g \in [0..(k - 1) -> Seq(T)] /\ g[0] = <<>> /\ some = g[k - 1]
      /\ \A n \in 1..(k - 1) : g[n] = g[n - 1] \o seqs[n]
  BY <1>1, <1>3 DEF Joining
<1> HIDE DEF L
<1>6. some = f[k - 1]
  <2> DEFINE Same == {n \in Nat : n <= k - 1 => g[n] = f[n]}
  <2>1. 0 \in Same
    BY <1>4, <1>5
  <2>2. ASSUME NEW n \in Nat, n \in Same PROVE n + 1 \in Same
    <3> SUFFICES ASSUME n + 1 <= k - 1 PROVE g[n + 1] = f[n + 1]
      OBVIOUS
    <3>1. n + 1 \in 1..(k - 1) /\ n + 1 \in 1..L /\ (n + 1) - 1 = n /\ g[n] = f[n]
      BY <1>1, <2>2
    <3> QED
      BY <1>4, <1>5, <3>1
  <2> HIDE DEF Same
  <2>3. Nat \subseteq Same
    BY <2>1, <2>2, SetInduction
  <2>4. k - 1 \in Same /\ k - 1 <= k - 1
    BY <1>1, <2>3
  <2> QED
    BY <1>5, <2>4 DEF Same
<1>7. \A m \in 0..L : f[m] \in Seq(T) /\ Len(f[m]) \in Nat
  <2>1. \A m \in 0..L : f[m] \in Seq(T)
    BY <1>4
  <2>2. \A t \in Seq(T) : Len(t) \in Nat
    OBVIOUS
  <2> QED
    BY <2>1, <2>2, Zenon
<1> DEFINE Begins(s, t) == Len(s) <= Len(t) /\ \A q \in 1..Len(s) : t[q] = s[q]
           Longer == {d \in Nat : k + d <= L => Begins(f[k], f[k + d])}
<1>8. 0 \in Longer
  <2>1. k + 0 = k /\ k \in 0..L
    BY <1>1
  <2>2. Len(f[k]) <= Len(f[k])
    BY <1>7, <2>1
  <2> QED
    BY <2>1, <2>2
<1>9. ASSUME NEW d \in Nat, d \in Longer PROVE d + 1 \in Longer
  <2> SUFFICES ASSUME k + (d + 1) <= L PROVE Begins(f[k], f[k + (d + 1)])
    OBVIOUS
  <2> DEFINE m == k + d
             t == f[k]
             u == f[m]
             s == seqs[m + 1]
             v == f[m + 1]
  <2>1. m + 1 \in 1..L /\ k + (d + 1) = m + 1 /\ (m + 1) - 1 = m /\ m \in 0..L /\ k \in 0..L
    BY <1>1
  <2>2. u \in Seq(T) /\ s \in Seq(T) /\ t \in Seq(T) /\ v = u \o s
    BY <1>1, <1>4, <1>7, <2>1
  <2>3. Begins(t, u)
    <3>1. k + d <= L /\ k + d = m
      BY <1>1
    <3>2. Begins(f[k], f[k + d])
      BY <1>9, <3>1
    <3> QED
      BY <3>2
  <2> HIDE DEF t, u, s, v
  <2>4. /\ Len(v) = Len(u) + Len(s) /\ Len(u) \in Nat /\ Len(s) \in Nat /\ Len(t) \in Nat
        /\ \A q \in 1..Len(u) : v[q] = u[q]
    BY <2>2
  <2>5. Begins(t, v)
    <3>1. \A q \in 1..Len(t) : q \in 1..Len(u)
      BY <2>3, <2>4
    <3> QED
      BY <2>3, <2>4, <3>1
  <2> QED
    BY <2>1, <2>5 DEF t, v
<1> HIDE DEF Longer
<1>10. Begins(f[k], flat)
  <2>1. Nat \subseteq Longer
    BY <1>8, <1>9, SetInduction
  <2>2. L - k \in Longer /\ k + (L - k) <= L /\ k + (L - k) = L
    BY <1>1, <2>1
  <2> QED
    BY <1>4, <2>2 DEF Longer
<1> DEFINE s == seqs[k]
           t == f[k]
<1>11. some \in Seq(T) /\ flat \in Seq(T) /\ s \in Seq(T) /\ t = some \o s
  <2>1. k \in 1..L /\ k - 1 \in 0..L /\ L \in 0..L
    BY <1>1
  <2> QED
    BY <1>1, <1>4, <1>6, <1>7, <2>1
<1> HIDE DEF s, t
<1>12. /\ Len(t) = Len(some) + Len(s) /\ Len(some) \in Nat /\ Len(s) \in Nat
       /\ \A q \in 1..Len(some) : t[q] = some[q]
       /\ \A j \in 1..Len(s) : t[Len(some) + j] = s[j]
  BY <1>11
<1>13. Len(t) <= Len(flat) /\ \A q \in 1..Len(t) : flat[q] = t[q]
  BY <1>10 DEF t
<1>14. \A q \in 1..Len(some) : q \in 1..Len(t)
  BY <1>12
<1>15. \A j \in 1..Len(s) : Len(some) + j \in 1..Len(t)
  BY <1>12
<1>16. /\ Len(some) + Len(s) <= Len(flat)
       /\ \A q \in 1..Len(some) : some[q] = flat[q]
       /\ \A j \in 1..Len(s) : s[j] = flat[Len(some) + j]
  BY <1>12, <1>13, <1>14, <1>15
<1> QED
  BY <1>11, <1>16 DEF s, some, flat, front

-----------------------------------------------------------------------------
(* The invariant of the path from the server to the client                  *)

EventRecords == [step : Nat, run : Nat, order : 0..(MaxFrameEvents - 1), type : Types]

(* Events of the same dispatch order stand in the order of their channels.  *)
TypesInOrder(s) ==
    \A i, j \in 1..Len(s) : i < j /\ s[i].order = s[j].order => s[i].type <= s[j].type

(* A frame is in dispatch order.                                            *)
ByOrder(t) ==
    \A p, q \in 1..Len(t) : p < q =>
        t[p].order < t[q].order \/ (t[p].order = t[q].order /\ t[p].type <= t[q].type)

(* All events of a frame are of its step.                                   *)
Frames ==
    {f \in [serverStep : Nat, events : Seq(EventRecords), checksum : Seq(EventRecords), at : Nat] :
        ByOrder(f.events) /\ \A i \in 1..Len(f.events) : f.events[i].step = f.serverStep}

StepsIncrease(frames) ==
    \A f, g \in 1..Len(frames) : f < g => frames[f].serverStep < frames[g].serverStep

(* Frames are sent in the order of their steps, all before those that are   *)
(* pending, and those before step n.                                        *)
FramesInOrder(batches, pending, n) ==
    /\ \A b \in 1..Len(batches) : StepsIncrease(batches[b])
    /\ \A b, c \in 1..Len(batches) : b < c =>
          \A f \in 1..Len(batches[b]), g \in 1..Len(batches[c]) :
             batches[b][f].serverStep < batches[c][g].serverStep
    /\ \A b \in 1..Len(batches) : \A f \in 1..Len(batches[b]) :
          /\ batches[b][f].serverStep < n
          /\ \A g \in 1..Len(pending) : batches[b][f].serverStep < pending[g].serverStep
    /\ StepsIncrease(pending)
    /\ \A g \in 1..Len(pending) : pending[g].serverStep < n

(* Event d stands for event e: it has the same key, or coalescing prefers   *)
(* it to e.                                                                 *)
CoversIn(mode, d, e) ==
    \/ Key(d) = Key(e)
    \/ /\ d.type = e.type
       /\ \/ mode = "last" /\ SortedBefore(e, d)
          \/ mode = "first" /\ SortedBefore(d, e)

Covers(d, e) == CoversIn(config.coalesce, d, e)

CoveredIn(e, frames) ==
    \E f \in 1..Len(frames) : \E i \in 1..Len(frames[f].events) : Covers(frames[f].events[i], e)

AllCovered(batches, pending, events) ==
    \A i \in 1..Len(events) : events[i].type \in config.filter =>
        \/ \E b \in 1..Len(batches) : CoveredIn(events[i], batches[b])
        \/ CoveredIn(events[i], pending)

PendingNew ==
    pendingFrames # <<>> =>
        /\ pendingSince \in Nat /\ pendingSince <= now
        /\ \A f \in 1..Len(pendingFrames) : pendingSince <= pendingFrames[f].at /\ pendingFrames[f].at <= now

ServerInv ==
    /\ config \in Configs /\ serverStep \in Nat /\ now \in Nat
    /\ pendingFrames \in Seq(Frames) /\ sent \in Seq(Seq(Frames))
    /\ published \in Seq(EventRecords)
    /\ FramesInOrder(sent, pendingFrames, serverStep)
    /\ AllCovered(sent, pendingFrames, published)
    /\ PendingNew /\ DelayKept

(* What the client has heard, in a log of entries as `log` is.              *)
Entries == [event : EventRecords, handed : BOOLEAN, epoch : Nat]
Keys == {Key(e) : e \in EventRecords}

Heard(entries, e) == \E k \in 1..Len(entries) : entries[k].event = e
HeardKey(entries, e) == \E k \in 1..Len(entries) : Key(entries[k].event) = Key(e)

(* The first of the events of one key.                                      *)
Leads(events, p) == p = 1 \/ Key(events[p - 1]) # Key(events[p])

(* Only the first event of a key is ever heard, and only of a batch that    *)
(* was received or is the next one.                                         *)
HeardLeads(entries, batches, got) ==
    \A k \in 1..Len(entries) : \E b \in 1..Len(batches) :
        /\ b <= got + 1
        /\ \E p \in 1..Len(Events(batches[b])) :
              Leads(Events(batches[b]), p) /\ entries[k].event = Events(batches[b])[p]

(* Of no batch is a later event heard and an earlier one not.               *)
HeardFromStart(entries, batches) ==
    \A b \in 1..Len(batches) : \A p, q \in 1..Len(Events(batches[b])) :
        p < q /\ Heard(entries, Events(batches[b])[q]) =>
            HeardKey(entries, Events(batches[b])[p])

HeardBatches(entries, batches, got) ==
    \A b \in 1..got : \A p \in 1..Len(Events(batches[b])) :
        HeardKey(entries, Events(batches[b])[p])

(* The order of the sorted frames, which HeardInOrder follows from, and     *)
(* HeardOnce, of any such log.                                              *)
InOrder(entries) ==
    \A j, k \in 1..Len(entries) :
        j < k /\ SortedBefore(entries[k].event, entries[j].event) =>
            \E n \in 1..(k - 1) : entries[n].event = entries[k].event

Once(entries) ==
    \A j, k \in 1..Len(entries) :
        j < k /\ entries[j].event = entries[k].event /\ entries[j].epoch = entries[k].epoch =>
            k - j > DeduperCapacity

(* The ring holds the keys of the last entries, as many as it can and none  *)
(* from before the last reset.                                              *)
RingIsLast(entries, keys, resets) ==
    /\ Len(keys) <= DeduperCapacity /\ Len(keys) <= Len(entries)
    /\ \A i \in 1..Len(keys) : keys[i] = Key(entries[Len(entries) - Len(keys) + i].event)
    /\ Len(keys) < DeduperCapacity =>
          \A k \in 1..(Len(entries) - Len(keys)) : entries[k].epoch # resets
    /\ \A k \in 1..Len(entries) : entries[k].epoch <= resets

ClientInv(entries, keys, batches, got, resets) ==
    /\ entries \in Seq(Entries) /\ keys \in Seq(Keys)
    /\ HeardLeads(entries, batches, got) /\ HeardFromStart(entries, batches)
    /\ HeardBatches(entries, batches, got)
    /\ InOrder(entries) /\ Once(entries) /\ RingIsLast(entries, keys, resets)

BroadcastInv ==
    /\ ServerInv
    /\ received \in 0..Len(sent) /\ epoch \in Nat
    /\ ClientInv(log, ring, sent, received, epoch)

-----------------------------------------------------------------------------
(* Frames                                                                   *)

(* The same elements.                                                       *)
SameElements(t, s) ==
    /\ \A k \in 1..Len(t) : \E i \in 1..Len(s) : t[k] = s[i]
    /\ \A i \in 1..Len(s) : \E k \in 1..Len(t) : t[k] = s[i]

LEMMA RecordFields ==
    ASSUME NEW e \in EventRecords
    PROVE  /\ e.step \in Nat /\ e.order \in 0..(MaxFrameEvents - 1) /\ e.type \in Types
           /\ e.order \in Nat /\ e.type \in Nat
BY DEF EventRecords, Types

(* Array.prototype.sort by dispatchOrder, which is stable.                  *)
LEMMA DispatchOrder ==
    ASSUME NEW s \in Seq(EventRecords), TypesInOrder(s)
    PROVE  /\ ByDispatchOrder(s) \in Seq(EventRecords)
           /\ ByOrder(ByDispatchOrder(s)) /\ SameElements(ByDispatchOrder(s), s)
<1> DEFINE S(n) == {e \in Range(s) : e.order = n - 1}
           seqs == [n \in 1..MaxFrameEvents |-> Select(s, S(n))]
           t == ByDispatchOrder(s)
<1>1. MaxFrameEvents \in Nat
  BY BroadcastAssumption
<1>2. ASSUME NEW n \in 1..MaxFrameEvents
      PROVE  seqs[n] \in Seq(EventRecords) /\ \E at : Picks(at, s, S(n), seqs[n])
  <2>1. seqs[n] = Select(s, S(n))
    OBVIOUS
  <2> HIDE DEF S, seqs
  <2> QED
    BY <2>1, SelectOrder
<1>3. seqs \in Seq(Seq(EventRecords)) /\ Len(seqs) = MaxFrameEvents
  <2>1. seqs = [n \in 1..MaxFrameEvents |-> seqs[n]]
    OBVIOUS
  <2> HIDE DEF seqs
  <2> QED
    BY <1>1, <1>2, <2>1
<1>4. t = FlattenSeq(seqs)
  BY DEF ByDispatchOrder
<1>5. \A n, e : e \in S(n) => e.order = n - 1
  OBVIOUS
<1>6. \A i \in 1..Len(s) : s[i] \in EventRecords /\ s[i] \in S(s[i].order + 1)
  <2> TAKE i \in 1..Len(s)
  <2>1. s[i] \in EventRecords /\ s[i] \in Range(s)
    BY DEF Range
  <2>2. s[i].order = (s[i].order + 1) - 1
    BY <2>1, RecordFields
  <2> QED
    BY <2>1, <2>2
<1> HIDE DEF S, seqs, t
<1>7. t \in Seq(EventRecords)
  BY <1>3, <1>4, FlattenParts
<1>8. PICK b, o : Parts(b, o, seqs, t)
  BY <1>3, <1>4, FlattenParts
<1>9. \A k \in 1..Len(t) : /\ b[k] \in 1..MaxFrameEvents /\ o[k] \in 1..Len(seqs[b[k]])
                           /\ t[k] = seqs[b[k]][o[k]]
  BY <1>3, <1>8 DEF Parts
<1>10. \A k \in 1..Len(t) : t[k].order = b[k] - 1
  <2> TAKE k \in 1..Len(t)
  <2>1. PICK at : Picks(at, s, S(b[k]), seqs[b[k]])
    BY <1>2, <1>9
  <2>2. t[k] \in S(b[k])
    BY <1>9, <2>1 DEF Picks
  <2> QED
    BY <1>5, <2>2
<1>11. ByOrder(t)
  <2> SUFFICES ASSUME NEW p \in 1..Len(t), NEW q \in 1..Len(t), p < q
               PROVE  t[p].order < t[q].order \/ (t[p].order = t[q].order /\ t[p].type <= t[q].type)
    BY DEF ByOrder
  <2>1. b[p] < b[q] \/ (b[p] = b[q] /\ o[p] < o[q])
    BY <1>8 DEF Parts
  <2>2. CASE b[p] < b[q]
    BY <1>9, <1>10, <2>2
  <2>3. CASE b[p] = b[q] /\ o[p] < o[q]
    <3> DEFINE n == b[p]
    <3>1. PICK at : Picks(at, s, S(n), seqs[n])
      BY <1>2, <1>9
    <3>2. o[p] \in 1..Len(seqs[n]) /\ o[q] \in 1..Len(seqs[n])
          /\ t[p] = seqs[n][o[p]] /\ t[q] = seqs[n][o[q]]
      BY <1>9, <2>3
    <3>3. /\ at[o[p]] \in 1..Len(s) /\ at[o[q]] \in 1..Len(s) /\ at[o[p]] < at[o[q]]
          /\ t[p] = s[at[o[p]]] /\ t[q] = s[at[o[q]]]
      BY <2>3, <3>1, <3>2 DEF Picks
    <3>4. t[p].order = t[q].order
      BY <1>10, <2>3
    <3> QED
      BY <3>3, <3>4 DEF TypesInOrder
  <2> QED
    BY <2>1, <2>2, <2>3
<1>12. \A k \in 1..Len(t) : \E i \in 1..Len(s) : t[k] = s[i]
  <2> TAKE k \in 1..Len(t)
  <2>1. PICK at : Picks(at, s, S(b[k]), seqs[b[k]])
    BY <1>2, <1>9
  <2>2. at[o[k]] \in 1..Len(s) /\ t[k] = s[at[o[k]]]
    BY <1>9, <2>1 DEF Picks
  <2> QED
    BY <2>2
<1>13. \A i \in 1..Len(s) : \E k \in 1..Len(t) : t[k] = s[i]
  <2> TAKE i \in 1..Len(s)
  <2> DEFINE n == s[i].order + 1
  <2>1. n \in 1..MaxFrameEvents /\ s[i] \in S(n)
    BY <1>1, <1>6, RecordFields
  <2> HIDE DEF n
  <2>2. PICK at : Picks(at, s, S(n), seqs[n])
    BY <1>2, <2>1
  <2>3. PICK j \in 1..Len(seqs[n]) : at[j] = i
    BY <2>1, <2>2 DEF Picks
  <2>4. seqs[n][j] = s[i]
    BY <2>2, <2>3 DEF Picks
  <2>5. PICK k \in 1..Len(t) : b[k] = n /\ o[k] = j
    BY <1>3, <1>8, <2>1 DEF Parts
  <2> QED
    BY <1>9, <2>4, <2>5
<1> QED
  BY <1>7, <1>11, <1>12, <1>13 DEF SameElements, t

(* Channel after channel.                                                   *)
LEMMA RuntimeFrameOrder ==
    ASSUME NEW s \in Seq(EventRecords)
    PROVE  /\ RuntimeFrame(s) \in Seq(EventRecords)
           /\ TypesInOrder(RuntimeFrame(s)) /\ SameElements(RuntimeFrame(s), s)
<1> DEFINE S(n) == {e \in Range(s) : e.type = n}
           seqs == [n \in Types |-> Select(s, S(n))]
           t == RuntimeFrame(s)
<1>1. TypeCount \in Nat /\ Types = 1..TypeCount
  BY BroadcastAssumption DEF Types
<1>2. ASSUME NEW n \in Types
      PROVE  seqs[n] \in Seq(EventRecords) /\ \E at : Picks(at, s, S(n), seqs[n])
  <2>1. seqs[n] = Select(s, S(n))
    OBVIOUS
  <2> HIDE DEF S, seqs
  <2> QED
    BY <2>1, SelectOrder
<1>3. seqs \in Seq(Seq(EventRecords)) /\ Len(seqs) = TypeCount
  <2>1. seqs = [n \in 1..TypeCount |-> seqs[n]]
    BY <1>1
  <2> HIDE DEF seqs
  <2> QED
    BY <1>1, <1>2, <2>1
<1>4. t = FlattenSeq(seqs)
  BY DEF RuntimeFrame
<1>5. \A n, e : e \in S(n) => e.type = n
  OBVIOUS
<1>6. \A i \in 1..Len(s) : s[i] \in EventRecords /\ s[i].type \in Types /\ s[i] \in S(s[i].type)
  <2> TAKE i \in 1..Len(s)
  <2>1. s[i] \in EventRecords /\ s[i] \in Range(s)
    BY DEF Range
  <2> QED
    BY <2>1, RecordFields
<1> HIDE DEF S, seqs, t
<1>7. t \in Seq(EventRecords)
  BY <1>3, <1>4, FlattenParts
<1>8. PICK b, o : Parts(b, o, seqs, t)
  BY <1>3, <1>4, FlattenParts
<1>9. \A k \in 1..Len(t) : /\ b[k] \in Types /\ o[k] \in 1..Len(seqs[b[k]])
                           /\ t[k] = seqs[b[k]][o[k]]
  BY <1>1, <1>3, <1>8 DEF Parts
<1>10. \A k \in 1..Len(t) : t[k].type = b[k] /\ \E i \in 1..Len(s) : t[k] = s[i]
  <2> TAKE k \in 1..Len(t)
  <2>1. PICK at : Picks(at, s, S(b[k]), seqs[b[k]])
    BY <1>2, <1>9
  <2>2. at[o[k]] \in 1..Len(s) /\ t[k] = s[at[o[k]]] /\ t[k] \in S(b[k])
    BY <1>9, <2>1 DEF Picks
  <2> QED
    BY <1>5, <2>2
<1>11. TypesInOrder(t)
  <2> SUFFICES ASSUME NEW p \in 1..Len(t), NEW q \in 1..Len(t), p < q
               PROVE  t[p].type <= t[q].type
    BY DEF TypesInOrder
  <2>1. b[p] < b[q] \/ b[p] = b[q]
    BY <1>8 DEF Parts
  <2> QED
    BY <1>1, <1>9, <1>10, <2>1
<1>13. \A i \in 1..Len(s) : \E k \in 1..Len(t) : t[k] = s[i]
  <2> TAKE i \in 1..Len(s)
  <2> DEFINE n == s[i].type
  <2>1. n \in Types /\ s[i] \in S(n)
    BY <1>6
  <2> HIDE DEF n
  <2>2. PICK at : Picks(at, s, S(n), seqs[n])
    BY <1>2, <2>1
  <2>3. PICK j \in 1..Len(seqs[n]) : at[j] = i
    BY <2>1, <2>2 DEF Picks
  <2>4. seqs[n][j] = s[i]
    BY <2>2, <2>3 DEF Picks
  <2>5. PICK k \in 1..Len(t) : b[k] = n /\ o[k] = j
    BY <1>1, <1>3, <1>8, <2>1 DEF Parts
  <2> QED
    BY <1>9, <2>4, <2>5
<1> QED
  BY <1>7, <1>10, <1>11, <1>13 DEF SameElements, t

(* Frames that keep some of their events keep them in order.                *)
LEMMA SomeByOrder ==
    ASSUME NEW s \in Seq(EventRecords), ByOrder(s), NEW t, NEW at,
           \A k \in 1..Len(t) : at[k] \in 1..Len(s) /\ t[k] = s[at[k]],
           \A k, l \in 1..Len(t) : k < l => at[k] < at[l]
    PROVE  ByOrder(t)
<1> SUFFICES ASSUME NEW p \in 1..Len(t), NEW q \in 1..Len(t), p < q
             PROVE  t[p].order < t[q].order \/ (t[p].order = t[q].order /\ t[p].type <= t[q].type)
  BY DEF ByOrder
<1>1. t[p] = s[at[p]] /\ t[q] = s[at[q]] /\ at[p] \in 1..Len(s) /\ at[q] \in 1..Len(s)
  OBVIOUS
<1>2. at[p] < at[q]
  OBVIOUS
<1> DEFINE i == at[p]
           j == at[q]
<1> HIDE DEF i, j
<1>3. s[i].order < s[j].order \/ (s[i].order = s[j].order /\ s[i].type <= s[j].type)
  BY <1>1, <1>2 DEF ByOrder, i, j
<1> QED
  BY <1>1, <1>3 DEF i, j

LEMMA ByOrderTypes ==
    ASSUME NEW s \in Seq(EventRecords), ByOrder(s)
    PROVE  TypesInOrder(s)
<1> SUFFICES ASSUME NEW i \in 1..Len(s), NEW j \in 1..Len(s), i < j, s[i].order = s[j].order
             PROVE  s[i].type <= s[j].type
  BY DEF TypesInOrder
<1>1. s[i].order < s[j].order \/ s[i].type <= s[j].type
  BY DEF ByOrder
<1>2. s[i] \in EventRecords
  OBVIOUS
<1> QED
  BY <1>1, <1>2, RecordFields

(* Events in the order of their keys.                                       *)
KeyLeq(d, e) ==
    \/ d.step < e.step
    \/ d.step = e.step /\ (d.order < e.order \/ (d.order = e.order /\ d.type <= e.type))

KeysInOrder(s) == \A p, q \in 1..Len(s) : p < q => KeyLeq(s[p], s[q])

LEMMA FrameFields ==
    ASSUME NEW f \in Frames
    PROVE  /\ f.serverStep \in Nat /\ f.at \in Nat /\ f.events \in Seq(EventRecords)
           /\ ByOrder(f.events) /\ \A i \in 1..Len(f.events) : f.events[i].step = f.serverStep
BY DEF Frames

(* hydrateEvents: what a frame's events are put in order to is the same.    *)
LEMMA HydratedOrder ==
    ASSUME NEW f \in Frames
    PROVE  /\ Hydrated(f) \in Seq(EventRecords) /\ ByOrder(Hydrated(f))
           /\ SameElements(Hydrated(f), f.events)
           /\ \A i \in 1..Len(Hydrated(f)) : Hydrated(f)[i].step = f.serverStep
<1>1. f.events \in Seq(EventRecords) /\ TypesInOrder(f.events)
  BY FrameFields, ByOrderTypes
<1>2. /\ Hydrated(f) \in Seq(EventRecords) /\ ByOrder(Hydrated(f))
      /\ SameElements(Hydrated(f), f.events)
  BY <1>1, DispatchOrder DEF Hydrated
<1>3. \A i \in 1..Len(Hydrated(f)) : Hydrated(f)[i].step = f.serverStep
  <2> TAKE i \in 1..Len(Hydrated(f))
  <2>1. PICK j \in 1..Len(f.events) : Hydrated(f)[i] = f.events[j]
    BY <1>2 DEF SameElements
  <2>2. f.events[j].step = f.serverStep
    BY FrameFields
  <2> QED
    BY <2>1, <2>2
<1> QED
  BY <1>2, <1>3

(* A batch of frames is a batch of events in the order of their keys.       *)
LEMMA EventsOrder ==
    ASSUME NEW frames \in Seq(Frames), StepsIncrease(frames)
    PROVE  /\ Events(frames) \in Seq(EventRecords) /\ KeysInOrder(Events(frames))
           /\ \A p \in 1..Len(Events(frames)) : \E f \in 1..Len(frames) :
                 Events(frames)[p].step = frames[f].serverStep
           /\ \A f \in 1..Len(frames) : \A i \in 1..Len(frames[f].events) :
                 \E p \in 1..Len(Events(frames)) : Events(frames)[p] = frames[f].events[i]
<1> DEFINE seqs == [f \in 1..Len(frames) |-> Hydrated(frames[f])]
           t == Events(frames)
<1>1. \A f \in 1..Len(frames) : frames[f] \in Frames /\ seqs[f] = Hydrated(frames[f])
  OBVIOUS
<1>2. seqs \in Seq(Seq(EventRecords)) /\ Len(seqs) = Len(frames)
  <2>1. seqs = [f \in 1..Len(frames) |-> seqs[f]] /\ Len(frames) \in Nat
    OBVIOUS
  <2>2. \A f \in 1..Len(frames) : seqs[f] \in Seq(EventRecords)
    BY <1>1, HydratedOrder
  <2> HIDE DEF seqs
  <2> QED
    BY <2>1, <2>2
<1>3. t = FlattenSeq(seqs)
  BY DEF Events
<1> HIDE DEF seqs, t
<1>4. t \in Seq(EventRecords)
  BY <1>2, <1>3, FlattenParts
<1>5. PICK b, o : Parts(b, o, seqs, t)
  BY <1>2, <1>3, FlattenParts
<1>6. \A p \in 1..Len(t) : /\ b[p] \in 1..Len(frames) /\ o[p] \in 1..Len(seqs[b[p]])
                           /\ t[p] = seqs[b[p]][o[p]]
  BY <1>2, <1>5 DEF Parts
<1>7. \A p \in 1..Len(t) : t[p].step = frames[b[p]].serverStep
  <2> TAKE p \in 1..Len(t)
  <2>1. b[p] \in 1..Len(frames) /\ o[p] \in 1..Len(Hydrated(frames[b[p]]))
        /\ t[p] = Hydrated(frames[b[p]])[o[p]] /\ frames[b[p]] \in Frames
    BY <1>1, <1>6
  <2> QED
    BY <2>1, HydratedOrder
<1>8. KeysInOrder(t)
  <2> SUFFICES ASSUME NEW p \in 1..Len(t), NEW q \in 1..Len(t), p < q PROVE KeyLeq(t[p], t[q])
    BY DEF KeysInOrder
  <2>1. b[p] < b[q] \/ (b[p] = b[q] /\ o[p] < o[q])
    BY <1>5 DEF Parts
  <2>2. CASE b[p] < b[q]
    BY <1>6, <1>7, <2>2 DEF StepsIncrease, KeyLeq
  <2>3. CASE b[p] = b[q] /\ o[p] < o[q]
    <3> DEFINE h == Hydrated(frames[b[p]])
    <3>1. ByOrder(h)
      BY <1>1, <1>6, HydratedOrder
    <3>2. o[p] \in 1..Len(h) /\ o[q] \in 1..Len(h) /\ t[p] = h[o[p]] /\ t[q] = h[o[q]]
      BY <1>1, <1>6, <2>3
    <3> HIDE DEF h
    <3>3. t[p].step = t[q].step
      BY <1>7, <2>3
    <3> QED
      BY <2>3, <3>1, <3>2, <3>3 DEF ByOrder, KeyLeq
  <2> QED
    BY <2>1, <2>2, <2>3
<1>9. ASSUME NEW f \in 1..Len(frames), NEW i \in 1..Len(frames[f].events)
      PROVE  \E p \in 1..Len(t) : t[p] = frames[f].events[i]
  <2>1. PICK j \in 1..Len(Hydrated(frames[f])) : Hydrated(frames[f])[j] = frames[f].events[i]
    BY <1>1, HydratedOrder DEF SameElements
  <2>2. j \in 1..Len(seqs[f]) /\ seqs[f][j] = frames[f].events[i]
    BY <1>1, <2>1
  <2>3. PICK p \in 1..Len(t) : b[p] = f /\ o[p] = j
    BY <1>2, <1>5, <2>2 DEF Parts
  <2> QED
    BY <1>6, <2>2, <2>3
<1> QED
  BY <1>4, <1>6, <1>7, <1>8, <1>9 DEF t

(* The events of a batch's first frames are the first of its events, and    *)
(* those of the next frame go on from there.                                *)
LEMMA EventsPrefix ==
    ASSUME NEW frames \in Seq(Frames), NEW k \in 1..Len(frames)
    PROVE  LET some == Events(SubSeq(frames, 1, k - 1))
               next == Hydrated(frames[k])
           IN  /\ some \in Seq(EventRecords) /\ next \in Seq(EventRecords)
               /\ Len(some) + Len(next) <= Len(Events(frames))
               /\ \A q \in 1..Len(some) : some[q] = Events(frames)[q]
               /\ \A j \in 1..Len(next) : next[j] = Events(frames)[Len(some) + j]
<1> DEFINE seqs == [f \in 1..Len(frames) |-> Hydrated(frames[f])]
           front == SubSeq(frames, 1, k - 1)
           few == [f \in 1..Len(front) |-> Hydrated(front[f])]
<1>1. \A f \in 1..Len(frames) : frames[f] \in Frames /\ seqs[f] = Hydrated(frames[f])
  OBVIOUS
<1>2. seqs \in Seq(Seq(EventRecords)) /\ Len(seqs) = Len(frames)
  <2>1. seqs = [f \in 1..Len(frames) |-> seqs[f]] /\ Len(frames) \in Nat
    OBVIOUS
  <2>2. \A f \in 1..Len(frames) : seqs[f] \in Seq(EventRecords)
    BY <1>1, HydratedOrder
  <2> HIDE DEF seqs
  <2> QED
    BY <2>1, <2>2
<1>3. few = SubSeq(seqs, 1, k - 1)
  <2>1. Len(front) = k - 1 /\ \A f \in 1..(k - 1) : front[f] = frames[f] /\ f \in 1..Len(frames)
    OBVIOUS
  <2> HIDE DEF front
  <2>2. \A f \in 1..(k - 1) : few[f] = seqs[f]
    BY <1>1, <2>1
  <2>3. few \in Seq(Seq(EventRecords)) /\ Len(few) = k - 1
    <3>1. few = [f \in 1..(k - 1) |-> few[f]] /\ k - 1 \in Nat
      BY <2>1
    <3>2. \A f \in 1..(k - 1) : few[f] \in Seq(EventRecords)
      BY <1>2, <2>1, <2>2
    <3> HIDE DEF few
    <3> QED
      BY <3>1, <3>2
  <2> HIDE DEF few, seqs
  <2> DEFINE sub == SubSeq(seqs, 1, k - 1)
  <2>4. sub \in Seq(Seq(EventRecords)) /\ Len(sub) = k - 1 /\ \A f \in 1..(k - 1) : sub[f] = seqs[f]
    BY <1>2
  <2> HIDE DEF sub
  <2>5. sub = [f \in 1..(k - 1) |-> sub[f]]
    BY <2>4
  <2>6. few = [f \in 1..(k - 1) |-> few[f]]
    BY <2>3
  <2>7. \A f \in 1..(k - 1) : few[f] = sub[f]
    BY <2>2, <2>4
  <2>8. few = sub
    BY <2>5, <2>6, <2>7, Zenon
  <2> QED
    BY <2>8 DEF sub
<1>4. Events(front) = FlattenSeq(SubSeq(seqs, 1, k - 1)) /\ Events(frames) = FlattenSeq(seqs)
  BY <1>3 DEF Events
<1>5. seqs[k] = Hydrated(frames[k]) /\ k \in 1..Len(seqs) /\ seqs[k] \in Seq(EventRecords)
  BY <1>1, <1>2
<1> DEFINE some == Events(front)
           next == Hydrated(frames[k])
<1> HIDE DEF seqs
<1>6. /\ some \in Seq(EventRecords)
      /\ Len(some) + Len(seqs[k]) <= Len(Events(frames))
      /\ \A q \in 1..Len(some) : some[q] = Events(frames)[q]
      /\ \A j \in 1..Len(seqs[k]) : seqs[k][j] = Events(frames)[Len(some) + j]
  <2> DEFINE part == FlattenSeq(SubSeq(seqs, 1, k - 1))
             flat == FlattenSeq(seqs)
  <2>1. /\ part \in Seq(EventRecords) /\ Len(part) + Len(seqs[k]) <= Len(flat)
        /\ \A q \in 1..Len(part) : part[q] = flat[q]
        /\ \A j \in 1..Len(seqs[k]) : seqs[k][j] = flat[Len(part) + j]
    BY <1>2, <1>5, FlattenPrefix
  <2>2. part = some /\ flat = Events(frames)
    BY <1>4
  <2> HIDE DEF part, flat, some
  <2> QED
    BY <2>1, <2>2
<1> HIDE DEF some
<1> QED
  BY <1>5, <1>6 DEF some

-----------------------------------------------------------------------------
(* The batcher                                                              *)

LEMMA GreatestNatural ==
    ASSUME NEW N \in Nat, NEW S, S \subseteq 1..N, S # {}
    PROVE  \E n \in S : \A m \in S : m <= n
<1> DEFINE T == {N - m : m \in S}
<1>1. T \subseteq Nat /\ T # {}
  <2>1. \A m \in S : N - m \in Nat
    <3> TAKE m \in S
    <3>1. m \in 1..N
      OBVIOUS
    <3> QED
      BY <3>1
  <2> QED
    BY <2>1
<1> HIDE DEF T
<1>2. PICK d \in T : \A c \in T : d <= c
  BY <1>1, LeastNatural
<1> USE DEF T
<1>3. PICK n \in S : d = N - n
  OBVIOUS
<1>4. \A m \in S : m <= n
  <2> TAKE m \in S
  <2>1. N - m \in T /\ m \in 1..N /\ n \in 1..N
    OBVIOUS
  <2>2. d <= N - m
    BY <1>2, <2>1
  <2> QED
    BY <1>3, <2>1, <2>2
<1> QED
  BY <1>4

(* Joining no event for some indices of a frame and the event for the       *)
(* others leaves the events at those.                                       *)
Leaving(s, R) == [i \in 1..Len(s) |-> IF i \in R THEN <<>> ELSE <<s[i]>>]

Leaves(at, t, s, R) ==
    /\ \A q \in 1..Len(t) : at[q] \in 1..Len(s) /\ t[q] = s[at[q]]
    /\ \A p, q \in 1..Len(t) : p < q => at[p] < at[q]
    /\ \A i \in 1..Len(s) : i \notin R => \E q \in 1..Len(t) : at[q] = i

LEMMA JoinedKept ==
    ASSUME NEW s \in Seq(EventRecords), NEW R
    PROVE  /\ FlattenSeq(Leaving(s, R)) \in Seq(EventRecords)
           /\ \E at : Leaves(at, FlattenSeq(Leaving(s, R)), s, R)
<1> DEFINE kept == Leaving(s, R)
<1>0. /\ kept = [i \in 1..Len(s) |-> kept[i]]
      /\ \A i \in 1..Len(s) : kept[i] = IF i \in R THEN <<>> ELSE <<s[i]>>
  BY DEF Leaving
<1> HIDE DEF kept
<1> DEFINE t == FlattenSeq(kept)
<1>1. kept \in Seq(Seq(EventRecords)) /\ Len(kept) = Len(s)
  <2>1. \A i \in 1..Len(s) : kept[i] \in Seq(EventRecords)
    <3> TAKE i \in 1..Len(s)
    <3>1. s[i] \in EventRecords
      OBVIOUS
    <3>2. kept[i] = <<>> \/ kept[i] = <<s[i]>>
      BY <1>0
    <3>3. <<>> \in Seq(EventRecords) /\ <<s[i]>> \in Seq(EventRecords)
      BY <3>1
    <3> QED
      BY <3>2, <3>3
  <2>2. kept = [i \in 1..Len(s) |-> kept[i]] /\ Len(s) \in Nat
    BY <1>0
  <2> QED
    BY <2>1, <2>2
<1>2. \A i \in 1..Len(s) : IF i \in R THEN 1..Len(kept[i]) = {}
                           ELSE kept[i] = <<s[i]>> /\ Len(kept[i]) = 1 /\ kept[i][1] = s[i]
  <2> TAKE i \in 1..Len(s)
  <2>1. kept[i] = IF i \in R THEN <<>> ELSE <<s[i]>>
    BY <1>0
  <2>2. CASE i \in R
    BY <2>1, <2>2
  <2>3. CASE i \notin R
    BY <2>1, <2>3
  <2> QED
    BY <2>2, <2>3
<1>3. t \in Seq(EventRecords)
  BY <1>1, FlattenParts
<1>4. PICK b, o : Parts(b, o, kept, t)
  BY <1>1, FlattenParts
<1> HIDE DEF t
<1>5. \A q \in 1..Len(t) : b[q] \in 1..Len(s) /\ o[q] = 1 /\ t[q] = s[b[q]]
  <2> TAKE q \in 1..Len(t)
  <2>1. b[q] \in 1..Len(s) /\ o[q] \in 1..Len(kept[b[q]]) /\ t[q] = kept[b[q]][o[q]]
    BY <1>1, <1>4 DEF Parts
  <2>2. Len(kept[b[q]]) = 1 /\ kept[b[q]][1] = s[b[q]]
    BY <1>2, <2>1
  <2>3. o[q] = 1
    BY <2>1, <2>2
  <2> QED
    BY <2>1, <2>2, <2>3
<1>6. \A p, q \in 1..Len(t) : p < q => b[p] < b[q]
  <2> SUFFICES ASSUME NEW p \in 1..Len(t), NEW q \in 1..Len(t), p < q PROVE b[p] < b[q]
    OBVIOUS
  <2>1. b[p] < b[q] \/ (b[p] = b[q] /\ o[p] < o[q])
    BY <1>4 DEF Parts
  <2>2. ~(o[p] < o[q])
    BY <1>5
  <2> QED
    BY <2>1, <2>2
<1>7. \A i \in 1..Len(s) : i \notin R => \E q \in 1..Len(t) : b[q] = i
  <2> SUFFICES ASSUME NEW i \in 1..Len(s), i \notin R PROVE \E q \in 1..Len(t) : b[q] = i
    OBVIOUS
  <2>1. Len(kept[i]) = 1
    BY <1>2
  <2>2. i \in 1..Len(kept) /\ 1 \in 1..Len(kept[i])
    BY <1>1, <2>1
  <2> QED
    BY <1>4, <2>2 DEF Parts
<1>8. Leaves(b, t, s, R)
  BY <1>5, <1>6, <1>7 DEF Leaves
<1> QED
  BY <1>3, <1>8, Zenon DEF t, kept

LEMMA CoversItself == ASSUME NEW e PROVE Covers(e, e)
BY DEF Covers, CoversIn

LEMMA CoversOn ==
    ASSUME NEW c \in EventRecords, NEW d \in EventRecords, NEW e \in EventRecords,
           Covers(c, d), Covers(d, e)
    PROVE  Covers(c, e)
<1>1. /\ c.step \in Nat /\ c.order \in Nat /\ d.step \in Nat /\ d.order \in Nat
      /\ e.step \in Nat /\ e.order \in Nat
  BY RecordFields
<1>2. \A x, y : Key(x) = Key(y) <=> x.step = y.step /\ x.order = y.order /\ x.type = y.type
  BY DEF Key
<1>3. CASE Key(c) = Key(d)
  BY <1>2, <1>3 DEF Covers, CoversIn, SortedBefore
<1>4. CASE Key(d) = Key(e)
  BY <1>2, <1>4 DEF Covers, CoversIn, SortedBefore
<1>5. CASE c.type = d.type /\ d.type = e.type /\ config.coalesce = "last" /\ SortedBefore(d, c) /\ SortedBefore(e, d)
  BY <1>1, <1>5 DEF Covers, CoversIn, SortedBefore
<1>6. CASE c.type = d.type /\ d.type = e.type /\ config.coalesce = "first" /\ SortedBefore(c, d) /\ SortedBefore(d, e)
  BY <1>1, <1>6 DEF Covers, CoversIn, SortedBefore
<1> QED
  BY <1>3, <1>4, <1>5, <1>6 DEF Covers, CoversIn

(* An event after another in frames pending, and of its type, has the same  *)
(* key or is later.                                                         *)
LEMMA LaterFrame ==
    ASSUME NEW frames \in Seq(Frames), StepsIncrease(frames),
           NEW f \in 1..Len(frames), NEW i \in 1..Len(frames[f].events),
           NEW g \in 1..Len(frames), NEW j \in 1..Len(frames[g].events),
           f < g \/ (f = g /\ i <= j),
           frames[f].events[i].type = frames[g].events[j].type
    PROVE  \/ Key(frames[f].events[i]) = Key(frames[g].events[j])
           \/ SortedBefore(frames[f].events[i], frames[g].events[j])
<1> DEFINE d == frames[f].events[i]
           e == frames[g].events[j]
<1>1. frames[f] \in Frames /\ frames[g] \in Frames
  OBVIOUS
<1>2. /\ d.step = frames[f].serverStep /\ e.step = frames[g].serverStep
      /\ ByOrder(frames[f].events)
  BY <1>1, FrameFields
<1>3. CASE f < g
  BY <1>2, <1>3 DEF StepsIncrease, SortedBefore
<1>4. CASE f = g /\ i < j
  <2>1. d.order < e.order \/ d.order = e.order
    BY <1>2, <1>4 DEF ByOrder
  <2> QED
    BY <1>2, <1>4, <2>1 DEF SortedBefore, Key
<1>5. CASE f = g /\ i = j
  BY <1>5
<1> QED
  BY <1>3, <1>4, <1>5

(* Of the events of a type, coalescing leaves one that stands for all.      *)
LEMMA Survivor ==
    ASSUME NEW frames \in Seq(Frames), StepsIncrease(frames),
           NEW f \in 1..Len(frames), NEW i \in 1..Len(frames[f].events)
    PROVE  \E g \in 1..Len(frames) : \E j \in 1..Len(frames[g].events) :
              ~Replaced(frames, g, j) /\ Covers(frames[g].events[j], frames[f].events[i])
<1> DEFINE type == frames[f].events[i].type
           Js(g) == {j \in 1..Len(frames[g].events) : frames[g].events[j].type = type}
           Gs == {g \in 1..Len(frames) : Js(g) # {}}
<1>1. Len(frames) \in Nat /\ \A g \in 1..Len(frames) : Len(frames[g].events) \in Nat
  <2>1. \A g \in 1..Len(frames) : frames[g] \in Frames
    OBVIOUS
  <2>2. \A g \in 1..Len(frames) : frames[g].events \in Seq(EventRecords)
    BY <2>1, FrameFields
  <2>3. \A s \in Seq(EventRecords) : Len(s) \in Nat
    OBVIOUS
  <2> QED
    BY <2>2, <2>3
<1>2. i \in Js(f) /\ f \in Gs
  OBVIOUS
<1>3. \A g : Js(g) \subseteq 1..Len(frames[g].events) /\ Gs \subseteq 1..Len(frames)
  OBVIOUS
<1>4. \A g, j : g \in Gs /\ j \in Js(g) <=>
               /\ g \in 1..Len(frames) /\ j \in 1..Len(frames[g].events)
               /\ frames[g].events[j].type = type
  OBVIOUS
<1> HIDE DEF Js, Gs
<1>5. CASE ~Replaced(frames, f, i)
  BY <1>5, CoversItself
<1>6. CASE config.coalesce = "first"
  <2>1. PICK g \in Gs : \A h \in Gs : g <= h
    <3>1. Gs \subseteq Nat /\ Gs # {}
      BY <1>2, <1>3
    <3> QED
      BY <3>1, LeastNatural
  <2>2. PICK j \in Js(g) : \A k \in Js(g) : j <= k
    <3>1. Js(g) \subseteq Nat
      BY <1>3
    <3>2. Js(g) # {}
      BY <2>1 DEF Gs
    <3> QED
      BY <3>1, <3>2, LeastNatural
  <2>3. /\ g \in 1..Len(frames) /\ j \in 1..Len(frames[g].events)
        /\ frames[g].events[j].type = type
    BY <1>4
  <2>4. ~Replaced(frames, g, j)
    <3>1. ASSUME NEW h \in 1..Len(frames), NEW k \in 1..Len(frames[h].events),
                 frames[h].events[k].type = type, h < g \/ (h = g /\ k < j)
          PROVE  FALSE
      <4>1. h \in Gs /\ k \in Js(h)
        BY <1>4, <3>1
      <4>2. g <= h
        BY <2>1, <4>1
      <4>3. h = g => j <= k
        BY <2>2, <4>1
      <4> QED
        BY <2>3, <3>1, <4>2, <4>3
    <3> QED
      BY <1>6, <2>3, <3>1 DEF Replaced
  <2>5. g < f \/ (g = f /\ j <= i)
    <3>1. g <= f
      BY <1>2, <2>1
    <3>2. g = f => j <= i
      BY <1>2, <2>2
    <3> QED
      BY <2>3, <3>1, <3>2
  <2>6. \/ Key(frames[g].events[j]) = Key(frames[f].events[i])
        \/ SortedBefore(frames[g].events[j], frames[f].events[i])
    BY <2>3, <2>5, LaterFrame
  <2> QED
    BY <1>6, <2>3, <2>4, <2>6 DEF Covers, CoversIn
<1>7. CASE config.coalesce = "last"
  <2>1. PICK g \in Gs : \A h \in Gs : h <= g
    <3>1. Gs \subseteq 1..Len(frames) /\ Gs # {}
      BY <1>2, <1>3
    <3> QED
      BY <1>1, <3>1, GreatestNatural
  <2>0. g \in 1..Len(frames)
    BY <1>3, <2>1
  <2>2. PICK j \in Js(g) : \A k \in Js(g) : k <= j
    <3>1. Js(g) \subseteq 1..Len(frames[g].events)
      BY <1>3
    <3>2. Js(g) # {}
      BY <2>1 DEF Gs
    <3> QED
      BY <1>1, <2>0, <3>1, <3>2, GreatestNatural
  <2>3. /\ g \in 1..Len(frames) /\ j \in 1..Len(frames[g].events)
        /\ frames[g].events[j].type = type
    BY <1>4
  <2>4. ~Replaced(frames, g, j)
    <3>1. ASSUME NEW h \in 1..Len(frames), NEW k \in 1..Len(frames[h].events),
                 frames[h].events[k].type = type, h > g \/ (h = g /\ k > j)
          PROVE  FALSE
      <4>1. h \in Gs /\ k \in Js(h)
        BY <1>4, <3>1
      <4>2. h <= g
        BY <2>1, <4>1
      <4>3. h = g => k <= j
        BY <2>2, <4>1
      <4> QED
        BY <2>3, <3>1, <4>2, <4>3
    <3> QED
      BY <1>7, <2>3, <3>1 DEF Replaced
  <2>5. f < g \/ (f = g /\ i <= j)
    <3>1. f <= g
      BY <1>2, <2>1
    <3>2. g = f => i <= j
      BY <1>2, <2>2
    <3> QED
      BY <2>3, <3>1, <3>2
  <2>6. \/ Key(frames[f].events[i]) = Key(frames[g].events[j])
        \/ SortedBefore(frames[f].events[i], frames[g].events[j])
    BY <2>3, <2>5, LaterFrame
  <2> QED
    BY <1>7, <2>3, <2>4, <2>6 DEF Covers, CoversIn
<1> QED
  BY <1>5, <1>6, <1>7 DEF Replaced

LEMMA WithEventsFrame ==
    ASSUME NEW f \in Frames, NEW s \in Seq(EventRecords), ByOrder(s),
           \A i \in 1..Len(s) : s[i].step = f.serverStep
    PROVE  /\ WithEvents(f, s) \in Frames /\ WithEvents(f, s).events = s
           /\ WithEvents(f, s).serverStep = f.serverStep /\ WithEvents(f, s).at = f.at
<1> DEFINE g == WithEvents(f, s)
           Plain == [serverStep : Nat, events : Seq(EventRecords), checksum : Seq(EventRecords), at : Nat]
<1>1. f \in Plain
  BY DEF Frames
<1>2. g = [f EXCEPT !.events = s, !.checksum = s]
  BY DEF WithEvents, Checksum
<1>3. g \in Plain /\ g.events = s /\ g.serverStep = f.serverStep /\ g.at = f.at
  <2> HIDE DEF g
  <2> QED
    BY <1>1, <1>2
<1> HIDE DEF g
<1> QED
  BY <1>3 DEF Frames, g

(* Coalescing leaves frames of the same steps in the same order, and an     *)
(* event that stands for each.                                              *)
LEMMA CoalescedFrames ==
    ASSUME NEW frames \in Seq(Frames), StepsIncrease(frames)
    PROVE  /\ Coalesced(frames) \in Seq(Frames) /\ StepsIncrease(Coalesced(frames))
           /\ \A q \in 1..Len(Coalesced(frames)) : \E f \in 1..Len(frames) :
                 Coalesced(frames)[q].serverStep = frames[f].serverStep
           /\ \A f \in 1..Len(frames) : \A i \in 1..Len(frames[f].events) :
                 CoveredIn(frames[f].events[i], Coalesced(frames))
<1>1. CASE Len(frames) <= 1
  <2>1. Coalesced(frames) = frames
    BY <1>1 DEF Coalesced
  <2>2. \A f \in 1..Len(frames) : \A i \in 1..Len(frames[f].events) :
           CoveredIn(frames[f].events[i], frames)
    BY CoversItself DEF CoveredIn
  <2> QED
    BY <2>1, <2>2
<1>2. CASE ~(Len(frames) <= 1)
  <2> DEFINE R(f) == {i \in 1..Len(frames[f].events) : Replaced(frames, f, i)}
             Kept(f) == [i \in 1..Len(frames[f].events) |->
                            IF Replaced(frames, f, i) THEN <<>> ELSE <<frames[f].events[i]>>]
             s(f) == FlattenSeq(Kept(f))
             compacted == [f \in 1..Len(frames) |-> WithEvents(frames[f], s(f))]
             S == {frame \in Range(compacted) : frame.events # <<>>}
             c == Select(compacted, S)
  <2>1. Coalesced(frames) = c
    BY <1>2, Zenon DEF Coalesced
  <2>2. \A f \in 1..Len(frames) :
           frames[f] \in Frames /\ compacted[f] = WithEvents(frames[f], s(f))
    OBVIOUS
  <2>3. \A f \in 1..Len(frames) :
           Kept(f) = [i \in 1..Len(frames[f].events) |->
                         IF i \in R(f) THEN <<>> ELSE <<frames[f].events[i]>>]
    OBVIOUS
  <2>4. \A f, i : i \in R(f) <=> i \in 1..Len(frames[f].events) /\ Replaced(frames, f, i)
    OBVIOUS
  <2>5. compacted = [f \in 1..Len(frames) |-> compacted[f]] /\ Len(frames) \in Nat
    OBVIOUS
  <2>6. /\ \A frame : frame \in S => frame.events # <<>>
        /\ \A frame \in Range(compacted) : frame.events # <<>> => frame \in S
    OBVIOUS
  <2> HIDE DEF R, Kept, compacted, S
  <2>7. ASSUME NEW f \in 1..Len(frames)
        PROVE  /\ compacted[f] \in Frames /\ compacted[f].serverStep = frames[f].serverStep
               /\ \A i \in 1..Len(frames[f].events) : ~Replaced(frames, f, i) =>
                     \E q \in 1..Len(compacted[f].events) : compacted[f].events[q] = frames[f].events[i]
    <3> DEFINE e == frames[f].events
               u == s(f)
    <3>1. /\ frames[f] \in Frames /\ e \in Seq(EventRecords) /\ ByOrder(e)
          /\ \A i \in 1..Len(e) : e[i].step = frames[f].serverStep
      BY <2>2, FrameFields
    <3> DEFINE Gone == R(f)
    <3>2. u = FlattenSeq(Leaving(e, Gone))
      BY <2>3 DEF Leaving
    <3>3. \A i \in 1..Len(e) : i \in Gone <=> Replaced(frames, f, i)
      BY <2>4
    <3> HIDE DEF e, u, Gone
    <3>4. u \in Seq(EventRecords) /\ \E at : Leaves(at, u, e, Gone)
      BY <3>1, <3>2, JoinedKept
    <3>a. PICK at : Leaves(at, u, e, Gone)
      BY <3>4
    <3>5. /\ \A q \in 1..Len(u) : at[q] \in 1..Len(e) /\ u[q] = e[at[q]]
          /\ \A p, q \in 1..Len(u) : p < q => at[p] < at[q]
          /\ \A i \in 1..Len(e) : i \notin Gone => \E q \in 1..Len(u) : at[q] = i
      BY <3>a DEF Leaves
    <3>6. ByOrder(u)
      BY <3>1, <3>5, SomeByOrder
    <3>7. \A q \in 1..Len(u) : u[q].step = frames[f].serverStep
      BY <3>1, <3>5
    <3>8. compacted[f] = WithEvents(frames[f], u)
      BY <2>2 DEF u
    <3>9. /\ compacted[f] \in Frames /\ compacted[f].events = u
          /\ compacted[f].serverStep = frames[f].serverStep
      BY <3>1, <3>4, <3>6, <3>7, <3>8, WithEventsFrame
    <3>10. \A i \in 1..Len(e) : ~Replaced(frames, f, i) => \E q \in 1..Len(u) : u[q] = e[i]
      BY <3>3, <3>5
    <3> QED
      BY <3>9, <3>10 DEF e
  <2>8. compacted \in Seq(Frames) /\ Len(compacted) = Len(frames)
    <3>1. \A f \in 1..Len(frames) : compacted[f] \in Frames
      BY <2>7
    <3> DEFINE n == Len(frames)
    <3> HIDE DEF n
    <3>2. compacted = [f \in 1..n |-> compacted[f]] /\ n \in Nat
      BY <2>5 DEF n
    <3>3. \A f \in 1..n : compacted[f] \in Frames
      BY <3>1 DEF n
    <3>4. compacted \in Seq(Frames) /\ Len(compacted) = n
      BY <3>2, <3>3
    <3> QED
      BY <3>4 DEF n
  <2>9. c \in Seq(Frames) /\ \E at : Picks(at, compacted, S, c)
    BY <2>8, SelectOrder
  <2> HIDE DEF c
  <2>10. PICK at : Picks(at, compacted, S, c)
    BY <2>9
  <2>11. \A q \in 1..Len(c) : /\ at[q] \in 1..Len(frames) /\ c[q] = compacted[at[q]]
                              /\ c[q].serverStep = frames[at[q]].serverStep
    BY <2>7, <2>8, <2>10 DEF Picks
  <2>12. StepsIncrease(c)
    <3> SUFFICES ASSUME NEW p \in 1..Len(c), NEW q \in 1..Len(c), p < q
                 PROVE  c[p].serverStep < c[q].serverStep
      BY DEF StepsIncrease
    <3>1. at[p] < at[q]
      BY <2>10 DEF Picks
    <3> QED
      BY <2>11, <3>1 DEF StepsIncrease
  <2>13. ASSUME NEW f \in 1..Len(frames), NEW i \in 1..Len(frames[f].events)
         PROVE  CoveredIn(frames[f].events[i], c)
    <3>1. PICK g \in 1..Len(frames) : \E j \in 1..Len(frames[g].events) :
             ~Replaced(frames, g, j) /\ Covers(frames[g].events[j], frames[f].events[i])
      BY Survivor
    <3>2. PICK j \in 1..Len(frames[g].events) :
             ~Replaced(frames, g, j) /\ Covers(frames[g].events[j], frames[f].events[i])
      BY <3>1
    <3>3. PICK q \in 1..Len(compacted[g].events) :
             compacted[g].events[q] = frames[g].events[j]
      BY <2>7, <3>2
    <3>4. compacted[g].events # <<>>
      <4>1. 1..Len(<<>>) = {}
        OBVIOUS
      <4> QED
        BY <4>1, Zenon
    <3>5. compacted[g] \in S
      <4>1. compacted[g] \in Range(compacted)
        BY <2>8 DEF Range
      <4> QED
        BY <2>6, <3>4, <4>1
    <3>6. PICK k \in 1..Len(c) : at[k] = g
      BY <2>8, <2>10, <3>5 DEF Picks
    <3>7. c[k].events[q] = frames[g].events[j] /\ q \in 1..Len(c[k].events)
      BY <2>11, <3>3, <3>6
    <3>8. Covers(c[k].events[q], frames[f].events[i])
      BY <3>2, <3>7
    <3> QED
      BY <3>7, <3>8, Zenon DEF CoveredIn
  <2> QED
    BY <2>1, <2>9, <2>11, <2>12, <2>13
<1> QED
  BY <1>1, <1>2

(* The old batches remain as they are.                                      *)
Extends(after, batches) ==
    Len(batches) <= Len(after) /\ \A b \in 1..Len(batches) : after[b] = batches[b]

LEMMA CoveredOn ==
    ASSUME NEW e \in EventRecords, NEW pending \in Seq(Frames), NEW frames \in Seq(Frames),
           CoveredIn(e, pending),
           \A f \in 1..Len(pending) : \A i \in 1..Len(pending[f].events) :
              CoveredIn(pending[f].events[i], frames)
    PROVE  CoveredIn(e, frames)
<1>1. PICK f \in 1..Len(pending) : \E i \in 1..Len(pending[f].events) :
         Covers(pending[f].events[i], e)
  BY DEF CoveredIn
<1>2. PICK i \in 1..Len(pending[f].events) : Covers(pending[f].events[i], e)
  BY <1>1
<1> DEFINE d == pending[f].events[i]
<1>3. CoveredIn(d, frames)
  OBVIOUS
<1>4. PICK g \in 1..Len(frames) : \E j \in 1..Len(frames[g].events) :
         Covers(frames[g].events[j], d)
  BY <1>3 DEF CoveredIn
<1>5. PICK j \in 1..Len(frames[g].events) : Covers(frames[g].events[j], d)
  BY <1>4
<1> DEFINE c == frames[g].events[j]
<1>6. c \in EventRecords /\ d \in EventRecords
  <2>1. frames[g] \in Frames /\ pending[f] \in Frames
    OBVIOUS
  <2>2. frames[g].events \in Seq(EventRecords) /\ pending[f].events \in Seq(EventRecords)
    BY <2>1, FrameFields
  <2> QED
    BY <2>2
<1>7. Covers(c, d) /\ Covers(d, e)
  BY <1>2, <1>5
<1> HIDE DEF c, d
<1>8. Covers(c, e)
  BY <1>6, <1>7, CoversOn
<1> QED
  BY <1>8, Zenon DEF CoveredIn, c

LEMMA FlushKeeps ==
    ASSUME NEW batches \in Seq(Seq(Frames)), NEW pending \in Seq(Frames), NEW n \in Nat,
           NEW events \in Seq(EventRecords),
           FramesInOrder(batches, pending, n), AllCovered(batches, pending, events)
    PROVE  /\ batches \o Flushed(pending) \in Seq(Seq(Frames))
           /\ Extends(batches \o Flushed(pending), batches)
           /\ FramesInOrder(batches \o Flushed(pending), <<>>, n)
           /\ AllCovered(batches \o Flushed(pending), <<>>, events)
<1> DEFINE after == batches \o Flushed(pending)
<1>0. 1..Len(<<>>) = {} /\ Len(batches) \in Nat
  OBVIOUS
<1>1. CASE pending = <<>>
  <2>1. after = batches
    <3>1. Flushed(pending) = <<>>
      BY <1>1 DEF Flushed
    <3> QED
      BY <3>1
  <2>2. FramesInOrder(batches, <<>>, n) /\ AllCovered(batches, <<>>, events)
    BY <1>1
  <2>3. Extends(batches, batches)
    BY <1>0 DEF Extends
  <2> QED
    BY <2>1, <2>2, <2>3
<1>2. CASE pending # <<>>
  <2> DEFINE c == Coalesced(pending)
             N == Len(batches)
  <2>1. StepsIncrease(pending)
    BY DEF FramesInOrder
  <2>2. /\ c \in Seq(Frames) /\ StepsIncrease(c)
        /\ \A q \in 1..Len(c) : \E f \in 1..Len(pending) : c[q].serverStep = pending[f].serverStep
        /\ \A f \in 1..Len(pending) : \A i \in 1..Len(pending[f].events) :
              CoveredIn(pending[f].events[i], c)
    BY <2>1, CoalescedFrames
  <2>3. after = Append(batches, c)
    <3>1. Flushed(pending) = <<c>>
      BY <1>2 DEF Flushed
    <3> HIDE DEF c
    <3>2. batches \o <<c>> = Append(batches, c)
      BY <2>2
    <3> QED
      BY <3>1, <3>2
  <2> HIDE DEF c, after
  <2>4. /\ after \in Seq(Seq(Frames)) /\ Len(after) = N + 1 /\ after[N + 1] = c
        /\ \A b \in 1..N : after[b] = batches[b]
    BY <2>2, <2>3
  <2>5. Extends(after, batches)
    BY <1>0, <2>4 DEF Extends
  <2>6. \A b \in 1..Len(after) : b \in 1..N \/ b = N + 1
    BY <1>0, <2>4
  <2> HIDE DEF N
  <2>7. FramesInOrder(after, <<>>, n)
    <3>1. \A b \in 1..Len(after) : StepsIncrease(after[b])
      <4> TAKE b \in 1..Len(after)
      <4>1. CASE b \in 1..N
        BY <2>4, <4>1 DEF FramesInOrder, N
      <4>2. CASE b = N + 1
        BY <2>2, <2>4, <4>2
      <4> QED
        BY <2>6, <4>1, <4>2
    <3>2. ASSUME NEW b \in 1..Len(after), NEW d \in 1..Len(after), b < d,
                 NEW f \in 1..Len(after[b]), NEW g \in 1..Len(after[d])
          PROVE  after[b][f].serverStep < after[d][g].serverStep
      <4>1. b \in 1..N
        BY <1>0, <2>4, <3>2 DEF N
      <4>2. CASE d \in 1..N
        BY <2>4, <3>2, <4>1, <4>2 DEF FramesInOrder, N
      <4>3. CASE d = N + 1
        <5>1. g \in 1..Len(c) /\ after[d] = c
          BY <2>4, <4>3
        <5>2. PICK h \in 1..Len(pending) : c[g].serverStep = pending[h].serverStep
          BY <2>2, <5>1
        <5>3. f \in 1..Len(batches[b]) /\ after[b] = batches[b]
          BY <2>4, <4>1
        <5>4. batches[b][f].serverStep < pending[h].serverStep
          BY <4>1, <5>3 DEF FramesInOrder, N
        <5> QED
          BY <5>1, <5>2, <5>3, <5>4
      <4> QED
        BY <2>6, <4>2, <4>3
    <3>3. ASSUME NEW b \in 1..Len(after), NEW f \in 1..Len(after[b])
          PROVE  after[b][f].serverStep < n
      <4>1. CASE b \in 1..N
        BY <2>4, <4>1 DEF FramesInOrder, N
      <4>2. CASE b = N + 1
        <5>1. f \in 1..Len(c) /\ after[b] = c
          BY <2>4, <4>2
        <5>2. PICK h \in 1..Len(pending) : c[f].serverStep = pending[h].serverStep
          BY <2>2, <5>1
        <5>3. pending[h].serverStep < n
          BY DEF FramesInOrder
        <5> QED
          BY <5>1, <5>2, <5>3
      <4> QED
        BY <2>6, <4>1, <4>2
    <3>4. StepsIncrease(<<>>)
      BY <1>0 DEF StepsIncrease
    <3> QED
      BY <1>0, <3>1, <3>2, <3>3, <3>4 DEF FramesInOrder
  <2>8. AllCovered(after, <<>>, events)
    <3> SUFFICES ASSUME NEW i \in 1..Len(events), events[i].type \in config.filter
                 PROVE  \E b \in 1..Len(after) : CoveredIn(events[i], after[b])
      BY DEF AllCovered
    <3>1. CASE \E b \in 1..Len(batches) : CoveredIn(events[i], batches[b])
      <4>1. PICK b \in 1..N : CoveredIn(events[i], batches[b])
        BY <3>1 DEF N
      <4>2. b \in 1..Len(after) /\ after[b] = batches[b]
        BY <1>0, <2>4, <4>1 DEF N
      <4> QED
        BY <4>1, <4>2
    <3>2. CASE CoveredIn(events[i], pending)
      <4>1. events[i] \in EventRecords
        OBVIOUS
      <4>2. CoveredIn(events[i], c)
        BY <2>2, <3>2, <4>1, CoveredOn
      <4>3. N + 1 \in 1..Len(after) /\ after[N + 1] = c
        BY <1>0, <2>4 DEF N
      <4> QED
        BY <4>2, <4>3
    <3> QED
      BY <3>1, <3>2 DEF AllCovered
  <2> QED
    BY <2>4, <2>5, <2>7, <2>8 DEF after
<1> QED
  BY <1>1, <1>2

LEMMA AddKeeps ==
    ASSUME NEW batches \in Seq(Seq(Frames)), NEW pending \in Seq(Frames), NEW frame \in Frames,
           NEW events \in Seq(EventRecords), NEW more \in Seq(EventRecords),
           FramesInOrder(batches, pending, frame.serverStep), AllCovered(batches, pending, events),
           \A i \in 1..Len(more) : more[i].type \in config.filter =>
              \E j \in 1..Len(frame.events) : Covers(frame.events[j], more[i])
    PROVE  /\ Append(pending, frame) \in Seq(Frames)
           /\ FramesInOrder(batches, Append(pending, frame), frame.serverStep + 1)
           /\ AllCovered(batches, Append(pending, frame), events \o more)
<1> DEFINE longer == Append(pending, frame)
           P == Len(pending)
           all == events \o more
           n == frame.serverStep
<1>1. /\ longer \in Seq(Frames) /\ Len(longer) = P + 1 /\ longer[P + 1] = frame /\ P \in Nat
      /\ \A f \in 1..P : longer[f] = pending[f]
      /\ \A f \in 1..Len(longer) : f \in 1..P \/ f = P + 1
  OBVIOUS
<1>2. n \in Nat
  BY FrameFields
<1>3. ASSUME NEW b \in 1..Len(batches), NEW f \in 1..Len(batches[b])
      PROVE  batches[b][f].serverStep \in Nat /\ batches[b][f].serverStep < n
  <2>1. batches[b] \in Seq(Frames)
    OBVIOUS
  <2>2. batches[b][f] \in Frames
    BY <2>1
  <2> QED
    BY <2>2, FrameFields DEF FramesInOrder
<1>4. \A g \in 1..P : pending[g].serverStep \in Nat /\ pending[g].serverStep < n
  <2> TAKE g \in 1..P
  <2>1. pending[g] \in Frames
    OBVIOUS
  <2> QED
    BY <2>1, FrameFields DEF FramesInOrder
<1> HIDE DEF longer, P
<1>5. FramesInOrder(batches, longer, n + 1)
  <2>1. StepsIncrease(longer)
    <3> SUFFICES ASSUME NEW f \in 1..Len(longer), NEW g \in 1..Len(longer), f < g
                 PROVE  longer[f].serverStep < longer[g].serverStep
      BY DEF StepsIncrease
    <3>1. f \in 1..P
      BY <1>1
    <3>2. CASE g \in 1..P
      BY <1>1, <3>1, <3>2 DEF FramesInOrder, StepsIncrease, P
    <3>3. CASE g = P + 1
      BY <1>1, <1>4, <3>1, <3>3
    <3> QED
      BY <1>1, <3>2, <3>3
  <2>2. \A g \in 1..Len(longer) : longer[g].serverStep < n + 1
    <3> TAKE g \in 1..Len(longer)
    <3>1. CASE g \in 1..P
      BY <1>1, <1>2, <1>4, <3>1
    <3>2. CASE g = P + 1
      BY <1>1, <1>2, <3>2
    <3> QED
      BY <1>1, <3>1, <3>2
  <2>3. ASSUME NEW b \in 1..Len(batches), NEW f \in 1..Len(batches[b])
        PROVE  /\ batches[b][f].serverStep < n + 1
               /\ \A g \in 1..Len(longer) : batches[b][f].serverStep < longer[g].serverStep
    <3>1. batches[b][f].serverStep < n + 1
      <4>1. batches[b][f].serverStep \in Nat /\ batches[b][f].serverStep < n
        BY <1>3
      <4> HIDE DEF n
      <4> QED
        BY <1>2, <4>1
    <3>2. ASSUME NEW g \in 1..Len(longer) PROVE batches[b][f].serverStep < longer[g].serverStep
      <4>1. CASE g \in 1..P
        BY <1>1, <4>1 DEF FramesInOrder, P
      <4>2. CASE g = P + 1
        BY <1>1, <1>3, <4>2
      <4> QED
        BY <1>1, <4>1, <4>2
    <3> QED
      BY <3>1, <3>2
  <2> HIDE DEF n
  <2> QED
    BY <2>1, <2>2, <2>3 DEF FramesInOrder
<1>6. AllCovered(batches, longer, all)
  <2>1. /\ all \in Seq(EventRecords) /\ Len(all) = Len(events) + Len(more)
        /\ Len(events) \in Nat /\ Len(more) \in Nat
        /\ \A i \in 1..Len(events) : all[i] = events[i]
        /\ \A i \in 1..Len(more) : all[Len(events) + i] = more[i]
    OBVIOUS
  <2> HIDE DEF all
  <2> SUFFICES ASSUME NEW i \in 1..Len(all), all[i].type \in config.filter,
                      ~ \E b \in 1..Len(batches) : CoveredIn(all[i], batches[b])
               PROVE  CoveredIn(all[i], longer)
    BY DEF AllCovered
  <2>2. CASE i \in 1..Len(events)
    <3>1. CoveredIn(all[i], pending)
      BY <2>1, <2>2 DEF AllCovered
    <3>2. PICK f \in 1..P : \E j \in 1..Len(pending[f].events) : Covers(pending[f].events[j], all[i])
      BY <3>1 DEF CoveredIn, P
    <3>3. f \in 1..Len(longer) /\ longer[f] = pending[f]
      BY <1>1
    <3> QED
      BY <3>2, <3>3 DEF CoveredIn
  <2>3. CASE i \notin 1..Len(events)
    <3>1. i - Len(events) \in 1..Len(more) /\ all[i] = more[i - Len(events)]
      <4>1. i - Len(events) \in 1..Len(more) /\ Len(events) + (i - Len(events)) = i
        BY <2>1, <2>3
      <4> QED
        BY <2>1, <4>1
    <3>2. \E j \in 1..Len(frame.events) : Covers(frame.events[j], all[i])
      BY <3>1
    <3>3. P + 1 \in 1..Len(longer) /\ longer[P + 1] = frame
      BY <1>1
    <3> QED
      BY <3>2, <3>3 DEF CoveredIn
  <2> QED
    BY <2>2, <2>3
<1> QED
  BY <1>1, <1>5, <1>6 DEF longer

LEMMA SkipKeeps ==
    ASSUME NEW batches \in Seq(Seq(Frames)), NEW pending \in Seq(Frames), NEW n \in Nat,
           NEW events \in Seq(EventRecords), NEW more \in Seq(EventRecords),
           FramesInOrder(batches, pending, n), AllCovered(batches, pending, events),
           \A i \in 1..Len(more) : more[i].type \notin config.filter
    PROVE  FramesInOrder(batches, pending, n + 1) /\ AllCovered(batches, pending, events \o more)
<1>1. ASSUME NEW b \in 1..Len(batches), NEW f \in 1..Len(batches[b])
      PROVE  batches[b][f].serverStep < n + 1
  <2>1. batches[b] \in Seq(Frames)
    OBVIOUS
  <2>2. batches[b][f] \in Frames
    BY <2>1
  <2>3. batches[b][f].serverStep \in Nat /\ batches[b][f].serverStep < n
    BY <2>2, FrameFields DEF FramesInOrder
  <2> QED
    BY <2>3
<1>2. \A g \in 1..Len(pending) : pending[g].serverStep < n + 1
  <2> TAKE g \in 1..Len(pending)
  <2>1. pending[g] \in Frames
    OBVIOUS
  <2>2. pending[g].serverStep \in Nat /\ pending[g].serverStep < n
    BY <2>1, FrameFields DEF FramesInOrder
  <2> QED
    BY <2>2
<1>3. FramesInOrder(batches, pending, n + 1)
  BY <1>1, <1>2 DEF FramesInOrder
<1> DEFINE all == events \o more
<1>4. /\ all \in Seq(EventRecords) /\ Len(all) = Len(events) + Len(more)
      /\ Len(events) \in Nat /\ Len(more) \in Nat
      /\ \A i \in 1..Len(events) : all[i] = events[i]
      /\ \A i \in 1..Len(more) : all[Len(events) + i] = more[i]
  OBVIOUS
<1> HIDE DEF all
<1>5. AllCovered(batches, pending, all)
  <2> SUFFICES ASSUME NEW i \in 1..Len(all), all[i].type \in config.filter
               PROVE  \/ \E b \in 1..Len(batches) : CoveredIn(all[i], batches[b])
                      \/ CoveredIn(all[i], pending)
    BY DEF AllCovered
  <2>1. i \in 1..Len(events)
    <3> SUFFICES ASSUME i \notin 1..Len(events) PROVE FALSE
      OBVIOUS
    <3>1. i - Len(events) \in 1..Len(more) /\ Len(events) + (i - Len(events)) = i
      BY <1>4
    <3> QED
      BY <1>4, <3>1
  <2> QED
    BY <1>4, <2>1 DEF AllCovered
<1> QED
  BY <1>3, <1>5 DEF all

LEMMA ExtendsOn ==
    ASSUME NEW a \in Seq(Seq(Frames)), NEW b \in Seq(Seq(Frames)), NEW c \in Seq(Seq(Frames)),
           Extends(b, a), Extends(c, b)
    PROVE  Extends(c, a)
BY DEF Extends

-----------------------------------------------------------------------------
(* A frame of the server                                                    *)

PublishedBy(n, runs, contents) ==
    FlattenSeq([r \in 1..runs |-> Published(n, r, contents[r])])

LEMMA PublishedRecords ==
    ASSUME NEW n \in Nat, NEW runs \in Nat, NEW contents \in [1..runs -> Contents]
    PROVE  /\ PublishedBy(n, runs, contents) \in Seq(EventRecords)
           /\ \A i \in 1..Len(PublishedBy(n, runs, contents)) :
                 PublishedBy(n, runs, contents)[i].step = n
<1> DEFINE events == PublishedBy(n, runs, contents)
<1> DEFINE seqs == [r \in 1..runs |-> Published(n, r, contents[r])]
           Of == {e \in EventRecords : e.step = n}
<1>1. ASSUME NEW r \in 1..runs PROVE seqs[r] \in Seq(Of)
  <2>0. contents[r] \in Contents
    OBVIOUS
  <2>1. PICK m \in 1..MaxFrameEvents : contents[r] \in [1..m -> Types]
    <3> DEFINE types == contents[r]
    <3> HIDE DEF types
    <3>1. types \in Contents
      BY <2>0 DEF types
    <3>2. \E m \in 1..MaxFrameEvents : types \in [1..m -> Types]
      BY <3>1, Zenon DEF Contents
    <3> QED
      BY <3>2 DEF types
  <2> DEFINE types == contents[r]
  <2>2. types \in Seq(Types) /\ Len(types) = m
    BY <2>1
  <2> HIDE DEF types
  <2> DEFINE record(i) == [step |-> n, run |-> r, order |-> i - 1, type |-> types[i]]
  <2>3. seqs[r] = [i \in 1..m |-> record(i)]
    BY <2>2 DEF Published, types
  <2>4. MaxFrameEvents \in Nat
    BY BroadcastAssumption
  <2>5. \A i \in 1..m : record(i) \in Of
    <3> TAKE i \in 1..m
    <3>1. i - 1 \in 0..(MaxFrameEvents - 1) /\ types[i] \in Types
      BY <2>2, <2>4
    <3> QED
      BY <3>1 DEF EventRecords
  <2> HIDE DEF record, seqs, Of
  <2> QED
    BY <2>3, <2>5
<1>2. seqs \in Seq(Seq(Of))
  BY <1>1
<1>3. events \in Seq(Of)
  BY <1>2, FlattenParts DEF PublishedBy
<1> HIDE DEF events
<1>4. events \in Seq(EventRecords) /\ \A i \in 1..Len(events) : events[i].step = n
  BY <1>3
<1> QED
  BY <1>4 DEF events

(* BroadcastFrame has the events the server published, in dispatch order,   *)
(* and the filter keeps those it allows.                                    *)
LEMMA AdjustedFrame ==
    ASSUME NEW n \in Nat, now' \in Nat, NEW events \in Seq(EventRecords),
           \A i \in 1..Len(events) : events[i].step = n
    PROVE  LET frame == BroadcastFrame(n, events)
               kept == Select(frame.events, {e \in Range(frame.events) : e.type \in config.filter})
               adjusted == WithEvents(frame, kept)
           IN  /\ adjusted \in Frames /\ adjusted.serverStep = n /\ adjusted.at = now'
               /\ adjusted.events = kept
               /\ \A i \in 1..Len(events) : events[i].type \in config.filter =>
                     \E j \in 1..Len(kept) : kept[j] = events[i]
<1> DEFINE frame == BroadcastFrame(n, events)
           ordered == ByDispatchOrder(RuntimeFrame(events))
           S == {e \in Range(frame.events) : e.type \in config.filter}
           kept == Select(frame.events, S)
           adjusted == WithEvents(frame, kept)
<1>1. /\ ordered \in Seq(EventRecords) /\ ByOrder(ordered)
      /\ SameElements(RuntimeFrame(events), events) /\ SameElements(ordered, RuntimeFrame(events))
  BY RuntimeFrameOrder, DispatchOrder
<1>2. \A k \in 1..Len(ordered) : ordered[k].step = n
  <2> TAKE k \in 1..Len(ordered)
  <2>1. PICK j \in 1..Len(RuntimeFrame(events)) : ordered[k] = RuntimeFrame(events)[j]
    BY <1>1 DEF SameElements
  <2>2. PICK i \in 1..Len(events) : RuntimeFrame(events)[j] = events[i]
    BY <1>1 DEF SameElements
  <2> QED
    BY <2>1, <2>2
<1>3. \A i \in 1..Len(events) : \E k \in 1..Len(ordered) : ordered[k] = events[i]
  <2> TAKE i \in 1..Len(events)
  <2>1. PICK j \in 1..Len(RuntimeFrame(events)) : RuntimeFrame(events)[j] = events[i]
    BY <1>1 DEF SameElements
  <2>2. PICK k \in 1..Len(ordered) : ordered[k] = RuntimeFrame(events)[j]
    BY <1>1 DEF SameElements
  <2> QED
    BY <2>1, <2>2
<1>4. frame = [serverStep |-> n, events |-> ordered, checksum |-> ordered, at |-> now']
  BY DEF BroadcastFrame, Checksum
<1> HIDE DEF ordered
<1>5. /\ frame \in Frames /\ frame.events = ordered /\ frame.serverStep = n /\ frame.at = now'
  BY <1>1, <1>2, <1>4 DEF Frames
<1> HIDE DEF frame
<1>6. /\ \A e : e \in S <=> e \in Range(ordered) /\ e.type \in config.filter
      /\ kept = Select(ordered, S)
  BY <1>5
<1> HIDE DEF S, kept
<1>7. kept \in Seq(EventRecords) /\ \E at : Picks(at, ordered, S, kept)
  BY <1>1, <1>6, SelectOrder
<1>8. PICK at : Picks(at, ordered, S, kept)
  BY <1>7
<1>9. /\ \A k \in 1..Len(kept) : at[k] \in 1..Len(ordered) /\ kept[k] = ordered[at[k]]
      /\ \A k, l \in 1..Len(kept) : k < l => at[k] < at[l]
      /\ \A i \in 1..Len(ordered) : ordered[i] \in S => \E k \in 1..Len(kept) : at[k] = i
  BY <1>8 DEF Picks
<1>10. ByOrder(kept)
  BY <1>1, <1>9, SomeByOrder
<1>11. \A k \in 1..Len(kept) : kept[k].step = frame.serverStep
  BY <1>2, <1>5, <1>9
<1>12. /\ adjusted \in Frames /\ adjusted.serverStep = n /\ adjusted.at = now'
       /\ adjusted.events = kept
  BY <1>5, <1>7, <1>10, <1>11, WithEventsFrame
<1>13. ASSUME NEW i \in 1..Len(events), events[i].type \in config.filter
       PROVE  \E j \in 1..Len(kept) : kept[j] = events[i]
  <2>1. PICK k \in 1..Len(ordered) : ordered[k] = events[i]
    BY <1>3
  <2>2. ordered[k] \in S
    BY <1>6, <1>13, <2>1 DEF Range
  <2>3. PICK j \in 1..Len(kept) : at[j] = k
    BY <1>9, <2>2
  <2>4. kept[j] = ordered[at[j]]
    BY <1>9
  <2> QED
    BY <2>1, <2>3, <2>4
<1> HIDE DEF adjusted
<1> QED
  BY <1>12, <1>13 DEF adjusted, kept, S, frame

(* What ingestFrame does with a frame that is not empty is one of three     *)
(* things with the frames that are pending after an early flush.            *)
LEMMA IngestKeeps ==
    ASSUME NEW batches \in Seq(Seq(Frames)), NEW pending \in Seq(Frames), NEW frame \in Frames,
           NEW events \in Seq(EventRecords), NEW more \in Seq(EventRecords),
           FramesInOrder(batches, pending, frame.serverStep), AllCovered(batches, pending, events),
           \A i \in 1..Len(more) : more[i].type \in config.filter =>
              \E j \in 1..Len(frame.events) : Covers(frame.events[j], more[i]),
           NEW after, NEW rest,
           \/ after = batches /\ rest = Append(pending, frame)
           \/ after = batches \o Flushed(Append(pending, frame)) /\ rest = <<>>
           \/ after = batches \o PriorityBatches(pending, frame) /\ rest = <<>>
    PROVE  /\ after \in Seq(Seq(Frames)) /\ rest \in Seq(Frames) /\ Extends(after, batches)
           /\ FramesInOrder(after, rest, frame.serverStep + 1)
           /\ AllCovered(after, rest, events \o more)
<1> DEFINE longer == Append(pending, frame)
           all == events \o more
           n == frame.serverStep
<1>1. /\ longer \in Seq(Frames) /\ FramesInOrder(batches, longer, n + 1)
      /\ AllCovered(batches, longer, all)
  BY AddKeeps
<1>2. /\ n \in Nat /\ n + 1 \in Nat /\ all \in Seq(EventRecords) /\ <<>> \in Seq(Frames)
      /\ \A s \in Seq(Seq(Frames)) : Extends(s, s)
  <2>1. n \in Nat
    BY FrameFields
  <2>2. \A s \in Seq(Seq(Frames)) : Len(s) \in Nat
    OBVIOUS
  <2> QED
    BY <2>1, <2>2 DEF Extends
<1> HIDE DEF all, longer
<1>3. CASE after = batches /\ rest = longer
  BY <1>1, <1>2, <1>3 DEF longer, all
<1>4. CASE after = batches \o Flushed(longer) /\ rest = <<>>
  <2>1. /\ batches \o Flushed(longer) \in Seq(Seq(Frames))
        /\ Extends(batches \o Flushed(longer), batches)
        /\ FramesInOrder(batches \o Flushed(longer), <<>>, n + 1)
        /\ AllCovered(batches \o Flushed(longer), <<>>, all)
    BY <1>1, <1>2, FlushKeeps
  <2> QED
    BY <1>2, <1>4, <2>1 DEF all
<1>5. CASE after = batches \o PriorityBatches(pending, frame) /\ rest = <<>>
  <2> DEFINE first == batches \o Flushed(pending)
             last == Flushed(<<frame>>)
  <2>1. /\ first \in Seq(Seq(Frames)) /\ Extends(first, batches)
        /\ FramesInOrder(first, <<>>, n) /\ AllCovered(first, <<>>, events)
    BY <1>2, FlushKeeps
  <2>2. Flushed(pending) \in Seq(Seq(Frames))
    <3>1. StepsIncrease(pending)
      BY DEF FramesInOrder
    <3>2. Coalesced(pending) \in Seq(Frames)
      BY <3>1, CoalescedFrames
    <3> QED
      BY <3>2 DEF Flushed
  <2> HIDE DEF first
  <2>3. <<frame>> \in Seq(Frames) /\ Append(<<>>, frame) = <<frame>>
    OBVIOUS
  <2>4. FramesInOrder(first, <<frame>>, n + 1) /\ AllCovered(first, <<frame>>, all)
    <3>1. /\ FramesInOrder(first, Append(<<>>, frame), n + 1)
          /\ AllCovered(first, Append(<<>>, frame), all)
      BY <1>2, <2>1, AddKeeps DEF all
    <3> QED
      BY <2>3, <3>1, Zenon
  <2>5. /\ first \o last \in Seq(Seq(Frames)) /\ Extends(first \o last, first)
        /\ FramesInOrder(first \o last, <<>>, n + 1) /\ AllCovered(first \o last, <<>>, all)
    BY <1>2, <2>1, <2>3, <2>4, FlushKeeps
  <2>6. last = << <<frame>> >>
    <3>1. <<frame>> # <<>> /\ Len(<<frame>>) = 1
      OBVIOUS
    <3>2. Coalesced(<<frame>>) = <<frame>>
      BY <3>1 DEF Coalesced
    <3> QED
      BY <3>1, <3>2 DEF Flushed
  <2> HIDE DEF last
  <2>7. last \in Seq(Seq(Frames))
    BY <2>3, <2>6
  <2>8. after = first \o last
    <3>1. after = batches \o (Flushed(pending) \o last)
      BY <1>5, <2>6 DEF PriorityBatches
    <3>2. (batches \o Flushed(pending)) \o last = batches \o (Flushed(pending) \o last)
      <4> DEFINE mid == Flushed(pending)
      <4>1. mid \in Seq(Seq(Frames))
        BY <2>2
      <4> HIDE DEF mid
      <4>2. (batches \o mid) \o last = batches \o (mid \o last)
        <5> DEFINE X == Seq(Frames)
        <5>1. batches \in Seq(X) /\ mid \in Seq(X) /\ last \in Seq(X)
          BY <2>7, <4>1
        <5> HIDE DEF X
        <5> QED
          BY ONLY <5>1, ConcatAssociative
      <4> QED
        BY <4>2 DEF mid
    <3> QED
      BY <3>1, <3>2 DEF first
  <2>9. Extends(after, batches)
    BY <2>1, <2>5, <2>8, ExtendsOn
  <2> QED
    BY <1>2, <1>5, <2>5, <2>8, <2>9 DEF all
<1> QED
  BY <1>3, <1>4, <1>5 DEF longer

LEMMA CoveredStays ==
    ASSUME config' = config, AllCovered(sent', pendingFrames', published')
    PROVE  AllCovered(sent, pendingFrames, published)'
BY DEF AllCovered, CoveredIn, Covers

LEMMA ServerFrameKeeps ==
    ASSUME ServerInv, ServerFrame
    PROVE  ServerInv' /\ Extends(sent', sent)
<1>1. /\ config \in Configs /\ serverStep \in Nat /\ now \in Nat
      /\ pendingFrames \in Seq(Frames) /\ sent \in Seq(Seq(Frames))
      /\ published \in Seq(EventRecords)
      /\ FramesInOrder(sent, pendingFrames, serverStep)
      /\ AllCovered(sent, pendingFrames, published)
      /\ PendingNew
  BY DEF ServerInv
<1>2. PICK runs \in 0..RunsPerFrame : \E contents \in [1..runs -> Contents] :
         LET events == PublishedBy(serverStep, runs, contents)
         IN  /\ published' = published \o events
             /\ \E elapsed \in 0..1 : now' = now + elapsed
             /\ Ingest(BroadcastFrame(serverStep, events))
  BY Zenon DEF ServerFrame, PublishedBy
<1>3. PICK contents \in [1..runs -> Contents] :
         LET events == PublishedBy(serverStep, runs, contents)
         IN  /\ published' = published \o events
             /\ \E elapsed \in 0..1 : now' = now + elapsed
             /\ Ingest(BroadcastFrame(serverStep, events))
  BY <1>2, Zenon
<1> DEFINE events == PublishedBy(serverStep, runs, contents)
           frame == BroadcastFrame(serverStep, events)
           kept == Select(frame.events, {e \in Range(frame.events) : e.type \in config.filter})
           adjusted == WithEvents(frame, kept)
           early == IF DelayElapsed THEN Flushed(pendingFrames) ELSE <<>>
           pending == IF DelayElapsed THEN <<>> ELSE pendingFrames
           batches == sent \o early
<1>4. /\ events \in Seq(EventRecords) /\ \A i \in 1..Len(events) : events[i].step = serverStep
  <2>1. runs \in Nat
    OBVIOUS
  <2> QED
    BY <1>1, <2>1, PublishedRecords
<1>5. /\ published' = published \o events /\ Ingest(frame)
      /\ \E elapsed \in 0..1 : now' = now + elapsed
      /\ serverStep' = serverStep + 1 /\ config' = config
  <2>1. serverStep' = serverStep + 1 /\ config' = config
    BY DEF ServerFrame
  <2> QED
    BY <1>3, <2>1, Zenon
<1> HIDE DEF events
<1>6. now' \in Nat /\ (now' = now \/ now' = now + 1)
  BY <1>1, <1>5
<1>7. /\ adjusted \in Frames /\ adjusted.serverStep = serverStep /\ adjusted.at = now'
      /\ adjusted.events = kept
      /\ \A i \in 1..Len(events) : events[i].type \in config.filter =>
            \E j \in 1..Len(kept) : kept[j] = events[i]
  BY <1>1, <1>4, <1>6, AdjustedFrame
<1>8. \/ /\ kept = <<>> /\ sent' = batches /\ pendingFrames' = pending
         /\ pendingSince' = IF DelayElapsed THEN NotSet ELSE pendingSince
      \/ sent' = batches \o PriorityBatches(pending, adjusted) /\ pendingFrames' = <<>>
      \/ sent' = batches \o Flushed(Append(pending, adjusted)) /\ pendingFrames' = <<>>
      \/ /\ sent' = batches /\ pendingFrames' = Append(pending, adjusted)
         /\ pendingSince' = PendingSinceAfter(pending)
  <2> HIDE DEF frame
  <2> QED
    BY <1>5, Zenon DEF Ingest
<1> HIDE DEF adjusted, kept, frame
<1>9. /\ batches \in Seq(Seq(Frames)) /\ pending \in Seq(Frames) /\ Extends(batches, sent)
      /\ FramesInOrder(batches, pending, serverStep) /\ AllCovered(batches, pending, published)
  <2>1. CASE DelayElapsed
    <3>1. early = Flushed(pendingFrames) /\ pending = <<>> /\ <<>> \in Seq(Frames)
      BY <2>1
    <3> HIDE DEF early, pending
    <3> QED
      BY <1>1, <3>1, FlushKeeps
  <2>2. CASE ~DelayElapsed
    <3>1. early = <<>> /\ pending = pendingFrames
      BY <2>2
    <3> HIDE DEF early, pending
    <3>2. batches = sent /\ Len(sent) \in Nat
      BY <1>1, <3>1
    <3> HIDE DEF batches
    <3> QED
      BY <1>1, <3>1, <3>2 DEF Extends
  <2> QED
    BY <2>1, <2>2
<1> HIDE DEF batches
<1> DEFINE all == published \o events
<1>10. all \in Seq(EventRecords)
  BY <1>1, <1>4
<1>11. /\ sent' \in Seq(Seq(Frames)) /\ pendingFrames' \in Seq(Frames) /\ Extends(sent', sent)
       /\ FramesInOrder(sent', pendingFrames', serverStep + 1)
       /\ AllCovered(sent', pendingFrames', all)
  <2> HIDE DEF pending, early
  <2>1. CASE kept = <<>> /\ sent' = batches /\ pendingFrames' = pending
    <3>1. \A i \in 1..Len(events) : events[i].type \notin config.filter
      <4>1. 1..Len(kept) = {}
        BY <2>1
      <4> QED
        BY <1>7, <4>1
    <3>2. FramesInOrder(batches, pending, serverStep + 1) /\ AllCovered(batches, pending, all)
      BY <1>1, <1>4, <1>9, <3>1, SkipKeeps
    <3> HIDE DEF all
    <3> QED
      BY <1>9, <2>1, <3>2
  <2>2. CASE \/ sent' = batches /\ pendingFrames' = Append(pending, adjusted)
             \/ sent' = batches \o Flushed(Append(pending, adjusted)) /\ pendingFrames' = <<>>
             \/ sent' = batches \o PriorityBatches(pending, adjusted) /\ pendingFrames' = <<>>
    <3>1. \A i \in 1..Len(events) : events[i].type \in config.filter =>
             \E j \in 1..Len(adjusted.events) : Covers(adjusted.events[j], events[i])
      BY <1>7, CoversItself
    <3>2. FramesInOrder(batches, pending, adjusted.serverStep)
      BY <1>7, <1>9
    <3>3. /\ sent' \in Seq(Seq(Frames)) /\ pendingFrames' \in Seq(Frames) /\ Extends(sent', batches)
          /\ FramesInOrder(sent', pendingFrames', adjusted.serverStep + 1)
          /\ AllCovered(sent', pendingFrames', all)
      BY <1>1, <1>4, <1>7, <1>9, <2>2, <3>1, <3>2, IngestKeeps
    <3>4. Extends(sent', sent)
      BY <1>1, <1>9, <3>3, ExtendsOn
    <3> HIDE DEF all
    <3> QED
      BY <1>7, <3>3, <3>4
  <2> QED
    BY <1>8, <2>1, <2>2
<1>12. PendingNew' /\ DelayKept'
  <2>1. MaxDelay \in Nat
    BY BroadcastAssumption
  <2>2. ~DelayElapsed /\ pendingFrames # <<>> => now' - pendingSince < MaxDelay
    BY <1>1, <1>6, <2>1 DEF DelayElapsed, PendingNew, NotSet
  <2>3. pendingFrames # <<>> =>
           /\ pendingSince \in Nat /\ pendingSince <= now
           /\ \A f \in 1..Len(pendingFrames) : /\ pendingSince <= pendingFrames[f].at
                                               /\ pendingFrames[f].at <= now
    BY <1>1 DEF PendingNew
  <2>4. \A f \in 1..Len(pendingFrames) : pendingFrames[f].at \in Nat
    <3> TAKE f \in 1..Len(pendingFrames)
    <3>1. pendingFrames[f] \in Frames
      BY <1>1
    <3> QED
      BY <3>1, FrameFields
  <2>5. 1..Len(<<>>) = {}
    OBVIOUS
  <2>6. CASE pendingFrames' = <<>>
    BY <2>5, <2>6 DEF PendingNew, DelayKept
  <2>7. CASE /\ pendingFrames' # <<>> /\ pendingFrames' = pending
             /\ pendingSince' = IF DelayElapsed THEN NotSet ELSE pendingSince
    <3>1. ~DelayElapsed /\ pendingFrames' = pendingFrames /\ pendingSince' = pendingSince
      BY <2>7
    <3> QED
      BY <1>1, <1>6, <2>1, <2>2, <2>3, <2>4, <2>7, <3>1 DEF PendingNew, DelayKept
  <2>8. CASE /\ pendingFrames' = Append(pending, adjusted)
             /\ pendingSince' = PendingSinceAfter(pending)
    <3>1. /\ Len(pendingFrames') = Len(pending) + 1 /\ Len(pending) \in Nat
          /\ pendingFrames'[Len(pending) + 1] = adjusted
          /\ \A f \in 1..Len(pending) : pendingFrames'[f] = pending[f]
          /\ \A f \in 1..Len(pendingFrames') : f \in 1..Len(pending) \/ f = Len(pending) + 1
      <4> HIDE DEF pending
      <4> QED
        BY <1>7, <1>9, <2>8
    <3>2. CASE pending = <<>>
      <4>1. pendingSince' = now'
        BY <2>8, <3>2 DEF PendingSinceAfter
      <4>2. \A f \in 1..Len(pendingFrames') : pendingFrames'[f].at = now'
        BY <1>7, <2>5, <3>1, <3>2
      <4> QED
        BY <1>6, <4>1, <4>2 DEF PendingNew, DelayKept
    <3>3. CASE pending # <<>>
      <4>1. ~DelayElapsed /\ pending = pendingFrames /\ pendingSince' = pendingSince
        BY <2>8, <3>3 DEF PendingSinceAfter
      <4>2. ASSUME NEW f \in 1..Len(pendingFrames')
            PROVE  /\ pendingFrames'[f].at = now' \/ now' - pendingFrames'[f].at < MaxDelay
                   /\ pendingSince <= pendingFrames'[f].at /\ pendingFrames'[f].at <= now'
        <5>1. CASE f = Len(pending) + 1
          BY <1>1, <1>6, <1>7, <2>3, <3>1, <3>3, <4>1, <5>1
        <5>2. CASE f \in 1..Len(pending)
          <6>1. /\ pendingFrames'[f].at \in Nat /\ pendingSince <= pendingFrames'[f].at
                /\ pendingFrames'[f].at <= now /\ pendingSince \in Nat
                /\ now' - pendingSince < MaxDelay
            BY <2>2, <2>3, <2>4, <3>1, <3>3, <4>1, <5>2
          <6> DEFINE at == pendingFrames'[f].at
                     since == pendingSince
                     t == now'
          <6>2. /\ at \in Nat /\ since <= at /\ at <= now /\ since \in Nat
                /\ t - since < MaxDelay /\ t \in Nat /\ now \in Nat /\ (t = now \/ t = now + 1)
            BY <1>1, <1>6, <6>1
          <6> HIDE DEF at, since, t
          <6>3. t - at < MaxDelay /\ at <= t
            BY <2>1, <6>2
          <6> QED
            BY <6>2, <6>3 DEF at, since, t
        <5> QED
          BY <3>1, <5>1, <5>2
      <4>3. pendingSince' \in Nat /\ pendingSince' <= now'
        BY <1>1, <1>6, <2>3, <3>3, <4>1
      <4> QED
        BY <4>1, <4>2, <4>3 DEF PendingNew, DelayKept
    <3> QED
      BY <3>2, <3>3
  <2> QED
    BY <1>8, <2>6, <2>7, <2>8
<1>13. AllCovered(sent, pendingFrames, published)'
  <2>1. config' = config /\ published' = all
    BY <1>5
  <2> HIDE DEF all
  <2>2. AllCovered(sent', pendingFrames', published')
    BY <1>11, <2>1, Zenon
  <2> QED
    BY <2>1, <2>2, CoveredStays
<1>14. FramesInOrder(sent', pendingFrames', serverStep')
  BY <1>5, <1>11
<1> QED
  <2>1. /\ config' \in Configs /\ serverStep' \in Nat /\ published' \in Seq(EventRecords)
    BY <1>1, <1>5, <1>10
  <2> QED
    BY <1>6, <1>11, <1>12, <1>13, <1>14, <2>1 DEF ServerInv

LEMMA ServerFlushKeeps ==
    ASSUME ServerInv, ServerFlush
    PROVE  ServerInv' /\ Extends(sent', sent)
<1>1. /\ config \in Configs /\ serverStep \in Nat /\ now \in Nat
      /\ pendingFrames \in Seq(Frames) /\ sent \in Seq(Seq(Frames))
      /\ published \in Seq(EventRecords)
      /\ FramesInOrder(sent, pendingFrames, serverStep)
      /\ AllCovered(sent, pendingFrames, published)
  BY DEF ServerInv
<1>2. /\ sent' = sent \o Flushed(pendingFrames) /\ pendingFrames' = <<>>
      /\ config' = config /\ serverStep' = serverStep /\ now' = now /\ published' = published
  BY DEF ServerFlush
<1>3. /\ sent' \in Seq(Seq(Frames)) /\ Extends(sent', sent)
      /\ FramesInOrder(sent', <<>>, serverStep) /\ AllCovered(sent', <<>>, published)
  BY <1>1, <1>2, FlushKeeps
<1>4. AllCovered(sent, pendingFrames, published)'
  <2>1. AllCovered(sent', pendingFrames', published')
    BY <1>2, <1>3, Zenon
  <2> QED
    BY <1>2, <2>1, CoveredStays
<1>5. FramesInOrder(sent', pendingFrames', serverStep')
  BY <1>2, <1>3, Zenon
<1>6. PendingNew' /\ DelayKept'
  <2>1. 1..Len(<<>>) = {}
    OBVIOUS
  <2> QED
    BY <1>2, <2>1 DEF PendingNew, DelayKept
<1>7. <<>> \in Seq(Frames)
  OBVIOUS
<1> QED
  BY <1>1, <1>2, <1>3, <1>4, <1>5, <1>6, <1>7 DEF ServerInv

-----------------------------------------------------------------------------
(* What the client hears                                                    *)

(* Batches as the client goes through them: each in the order of its keys,  *)
(* and each of later steps than those before it.                            *)
BatchesInOrder(batches) ==
    /\ \A b \in 1..Len(batches) :
          Events(batches[b]) \in Seq(EventRecords) /\ KeysInOrder(Events(batches[b]))
    /\ \A b, c \in 1..Len(batches) : b < c =>
          \A p \in 1..Len(Events(batches[b])), q \in 1..Len(Events(batches[c])) :
             Events(batches[b])[p].step < Events(batches[c])[q].step

LEMMA OrderedBatches ==
    ASSUME NEW batches \in Seq(Seq(Frames)), NEW pending, NEW n,
           FramesInOrder(batches, pending, n)
    PROVE  BatchesInOrder(batches)
<1>1. ASSUME NEW b \in 1..Len(batches)
      PROVE  /\ Events(batches[b]) \in Seq(EventRecords) /\ KeysInOrder(Events(batches[b]))
             /\ \A p \in 1..Len(Events(batches[b])) : \E f \in 1..Len(batches[b]) :
                   Events(batches[b])[p].step = batches[b][f].serverStep
  <2>1. batches[b] \in Seq(Frames) /\ StepsIncrease(batches[b])
    BY DEF FramesInOrder
  <2> QED
    BY <2>1, EventsOrder
<1>2. ASSUME NEW b \in 1..Len(batches), NEW c \in 1..Len(batches), b < c,
             NEW p \in 1..Len(Events(batches[b])), NEW q \in 1..Len(Events(batches[c]))
      PROVE  Events(batches[b])[p].step < Events(batches[c])[q].step
  <2>1. PICK f \in 1..Len(batches[b]) : Events(batches[b])[p].step = batches[b][f].serverStep
    BY <1>1
  <2>2. PICK g \in 1..Len(batches[c]) : Events(batches[c])[q].step = batches[c][g].serverStep
    BY <1>1
  <2>3. batches[b][f].serverStep < batches[c][g].serverStep
    BY <1>2 DEF FramesInOrder
  <2> QED
    BY <2>1, <2>2, <2>3
<1> QED
  BY <1>1, <1>2 DEF BatchesInOrder

LEMMA KeysBetween ==
    ASSUME NEW c \in EventRecords, NEW d \in EventRecords, NEW e \in EventRecords,
           KeyLeq(c, d), KeyLeq(d, e), Key(c) = Key(e)
    PROVE  Key(c) = Key(d)
<1>1. /\ c.step \in Nat /\ c.order \in Nat /\ c.type \in Nat
      /\ d.step \in Nat /\ d.order \in Nat /\ d.type \in Nat
  BY RecordFields
<1>2. c.step = e.step /\ c.order = e.order /\ c.type = e.type
  BY DEF Key
<1>3. c.step = d.step /\ c.order = d.order /\ c.type = d.type
  BY <1>1, <1>2 DEF KeyLeq
<1> QED
  BY <1>3 DEF Key

(* Each key of a batch is led by one event.                                 *)
LEMMA OneLead ==
    ASSUME NEW s \in Seq(EventRecords), KeysInOrder(s),
           NEW p \in 1..Len(s), NEW q \in 1..Len(s), p < q, Key(s[p]) = Key(s[q])
    PROVE  ~Leads(s, q)
<1>1. q # 1 /\ q - 1 \in 1..Len(s) /\ q - 1 < q /\ (p = q - 1 \/ p < q - 1)
  OBVIOUS
<1>2. s[p] \in EventRecords /\ s[q] \in EventRecords /\ s[q - 1] \in EventRecords
  BY <1>1
<1>3. Key(s[q - 1]) = Key(s[q])
  <2>1. CASE p = q - 1
    BY <2>1
  <2>2. CASE p < q - 1
    <3>1. KeyLeq(s[p], s[q - 1]) /\ KeyLeq(s[q - 1], s[q])
      BY <1>1, <2>2 DEF KeysInOrder
    <3>2. Key(s[p]) = Key(s[q - 1])
      BY <1>2, <3>1, KeysBetween
    <3> QED
      BY <3>2
  <2> QED
    BY <1>1, <2>1, <2>2
<1> QED
  BY <1>1, <1>3 DEF Leads

LEMMA SameLead ==
    ASSUME NEW batches, BatchesInOrder(batches), Len(batches) \in Nat,
           NEW b \in 1..Len(batches), NEW p \in 1..Len(Events(batches[b])),
           NEW c \in 1..Len(batches), NEW q \in 1..Len(Events(batches[c])),
           Key(Events(batches[b])[p]) = Key(Events(batches[c])[q])
    PROVE  b = c /\ (Leads(Events(batches[b]), p) /\ Leads(Events(batches[c]), q) => p = q)
<1>1. Events(batches[b])[p].step = Events(batches[c])[q].step
  BY DEF Key
<1>2. /\ Events(batches[b]) \in Seq(EventRecords) /\ KeysInOrder(Events(batches[b]))
      /\ Events(batches[c]) \in Seq(EventRecords)
  BY DEF BatchesInOrder
<1>3. Events(batches[b])[p].step \in Nat /\ Events(batches[c])[q].step \in Nat
  <2>1. Events(batches[b])[p] \in EventRecords /\ Events(batches[c])[q] \in EventRecords
    BY <1>2
  <2> QED
    BY <2>1, RecordFields
<1>4. b = c
  <2>1. ~(b < c)
    BY <1>1, <1>3 DEF BatchesInOrder
  <2>2. ~(c < b)
    BY <1>1, <1>3 DEF BatchesInOrder
  <2> QED
    BY <2>1, <2>2
<1>5. ASSUME Leads(Events(batches[b]), p), Leads(Events(batches[c]), q) PROVE p = q
  <2> DEFINE s == Events(batches[b])
  <2>1. /\ s \in Seq(EventRecords) /\ KeysInOrder(s) /\ Leads(s, p) /\ Leads(s, q)
        /\ p \in 1..Len(s) /\ q \in 1..Len(s) /\ Key(s[p]) = Key(s[q])
    BY <1>2, <1>4, <1>5
  <2> HIDE DEF s
  <2>2. ~(p < q) /\ ~(q < p)
    BY <2>1, OneLead
  <2>3. p \in Int /\ q \in Int
    BY <2>1
  <2> QED
    BY <2>2, <2>3
<1> QED
  BY <1>4, <1>5

LEMMA NotSortedBefore ==
    ASSUME NEW d \in EventRecords, NEW e \in EventRecords, KeyLeq(d, e)
    PROVE  ~SortedBefore(e, d)
<1>1. e.step \in Nat /\ e.order \in Nat /\ d.step \in Nat /\ d.order \in Nat
  BY RecordFields
<1>2. d.step < e.step \/ (d.step = e.step /\ (d.order < e.order \/ d.order = e.order))
  BY DEF KeyLeq
<1> QED
  BY <1>1, <1>2 DEF SortedBefore

(* Hearing the next event of a batch, when its key is not in the ring,      *)
(* keeps what is known of the client.                                       *)
LEMMA EventHeard ==
    ASSUME NEW batches, BatchesInOrder(batches), Len(batches) \in Nat,
           NEW got \in Nat, NEW resets \in Nat, NEW entries, NEW keys,
           ClientInv(entries, keys, batches, got, resets),
           NEW b \in 1..Len(batches), b <= got + 1,
           NEW p \in 1..Len(Events(batches[b])), Leads(Events(batches[b]), p),
           \A q \in 1..(p - 1) : HeardKey(entries, Events(batches[b])[q]),
           NEW entry \in Entries, entry.event = Events(batches[b])[p], entry.epoch = resets,
           \A i \in 1..Len(keys) : keys[i] # Key(entry.event)
    PROVE  ClientInv(Append(entries, entry), Recorded(keys, Key(entry.event)), batches, got, resets)
<1> DEFINE E(c) == Events(batches[c])
           N == Len(entries)
           e == entry.event
           more == Append(entries, entry)
           ring2 == Recorded(keys, Key(e))
<1>1. /\ entries \in Seq(Entries) /\ keys \in Seq(Keys)
      /\ HeardLeads(entries, batches, got) /\ HeardFromStart(entries, batches)
      /\ HeardBatches(entries, batches, got)
      /\ InOrder(entries) /\ Once(entries) /\ RingIsLast(entries, keys, resets)
  BY DEF ClientInv
<1>2. /\ more \in Seq(Entries) /\ Len(more) = N + 1 /\ more[N + 1] = entry /\ N \in Nat
      /\ \A k \in 1..N : more[k] = entries[k] /\ k \in 1..Len(more)
      /\ N + 1 \in 1..Len(more)
      /\ \A k \in 1..Len(more) : k \in 1..N \/ k = N + 1
  BY <1>1
<1>3. DeduperCapacity \in Nat /\ DeduperCapacity # 0
  BY BroadcastAssumption
<1>4. /\ E(b) \in Seq(EventRecords) /\ KeysInOrder(E(b)) /\ e = E(b)[p] /\ e \in EventRecords
  <2>1. E(b) \in Seq(EventRecords) /\ KeysInOrder(E(b))
    BY DEF BatchesInOrder
  <2> QED
    BY <2>1
<1>5. \A k \in 1..N : entries[k] \in Entries /\ entries[k].event \in EventRecords /\ entries[k].epoch \in Nat
  <2>1. \A k \in 1..N : entries[k] \in Entries
    BY <1>1
  <2> QED
    BY <2>1 DEF Entries
<1> HIDE DEF more, N, e
<1>6. /\ \A d : Heard(more, d) <=> Heard(entries, d) \/ d = e
      /\ \A d : HeardKey(more, d) <=> HeardKey(entries, d) \/ Key(d) = Key(e)
  BY <1>2 DEF Heard, HeardKey, N, e
<1>7. HeardLeads(more, batches, got)
  <2> SUFFICES ASSUME NEW k \in 1..Len(more)
               PROVE  \E c \in 1..Len(batches) :
                         /\ c <= got + 1
                         /\ \E q \in 1..Len(E(c)) : Leads(E(c), q) /\ more[k].event = E(c)[q]
    BY DEF HeardLeads
  <2>1. CASE k \in 1..N
    BY <1>1, <1>2, <2>1 DEF HeardLeads, N
  <2>2. CASE k = N + 1
    <3>1. more[k].event = E(b)[p]
      BY <1>2, <1>4, <2>2 DEF e
    <3> QED
      BY <3>1
  <2> QED
    BY <1>2, <2>1, <2>2
<1>8. HeardFromStart(more, batches)
  <2> SUFFICES ASSUME NEW c \in 1..Len(batches), NEW r \in 1..Len(E(c)), NEW q \in 1..Len(E(c)),
                      r < q, Heard(more, E(c)[q])
               PROVE  HeardKey(more, E(c)[r])
    BY DEF HeardFromStart
  <2>1. CASE Heard(entries, E(c)[q])
    BY <1>1, <1>6, <2>1 DEF HeardFromStart
  <2>2. CASE E(c)[q] = e
    <3>1. c = b
      <4>1. Key(E(c)[q]) = Key(E(b)[p])
        BY <1>4, <2>2
      <4> QED
        BY <4>1, SameLead
    <3> DEFINE s == E(b)
    <3>2. /\ s \in Seq(EventRecords) /\ KeysInOrder(s) /\ p \in 1..Len(s) /\ q \in 1..Len(s)
          /\ r \in 1..Len(s) /\ s[q] = e /\ s[p] = e
      BY <1>4, <2>2, <3>1
    <3>3. CASE r < p
      <4>1. r \in 1..(p - 1)
        BY <3>3
      <4> QED
        BY <1>6, <3>1, <4>1
    <3>4. CASE ~(r < p)
      <4> HIDE DEF s
      <4>1. s[p] \in EventRecords /\ s[r] \in EventRecords /\ s[q] \in EventRecords
        BY <3>2
      <4>2. Key(s[r]) = Key(e)
        <5>1. CASE r = p
          BY <3>2, <5>1
        <5>2. CASE r # p
          <6>1. p < r
            BY <3>2, <3>4, <5>2
          <6>2. KeyLeq(s[p], s[r]) /\ KeyLeq(s[r], s[q])
            BY <3>2, <6>1 DEF KeysInOrder
          <6>3. Key(s[p]) = Key(s[r])
            BY <3>2, <4>1, <6>2, KeysBetween
          <6> QED
            BY <3>2, <6>3
        <5> QED
          BY <5>1, <5>2
      <4> QED
        BY <1>6, <3>1, <4>2 DEF s
    <3> QED
      BY <3>3, <3>4
  <2> QED
    BY <1>6, <2>1, <2>2
<1>9. HeardBatches(more, batches, got)
  BY <1>1, <1>6 DEF HeardBatches
<1>10. InOrder(more)
  <2> SUFFICES ASSUME NEW j \in 1..Len(more), NEW k \in 1..Len(more), j < k,
                      SortedBefore(more[k].event, more[j].event)
               PROVE  \E n \in 1..(k - 1) : more[n].event = more[k].event
    BY DEF InOrder
  <2>0. j \in 1..N
    BY <1>2
  <2>1. CASE k \in 1..N
    <3>1. \E n \in 1..(k - 1) : entries[n].event = entries[k].event
      BY <1>1, <1>2, <2>0, <2>1 DEF InOrder, N
    <3>2. \A n \in 1..(k - 1) : n \in 1..N
      BY <1>2, <2>1
    <3> QED
      BY <1>2, <2>1, <3>1, <3>2
  <2>2. CASE k = N + 1
    <3> DEFINE d == entries[j].event
    <3>1. more[k].event = e /\ more[j].event = d /\ d \in EventRecords
      BY <1>2, <1>5, <2>0, <2>2 DEF e
    <3>2. PICK c \in 1..Len(batches) :
             /\ c <= got + 1
             /\ \E q \in 1..Len(E(c)) : Leads(E(c), q) /\ d = E(c)[q]
      BY <1>1, <2>0 DEF HeardLeads, N
    <3>3. PICK q \in 1..Len(E(c)) : Leads(E(c), q) /\ d = E(c)[q]
      BY <3>2
    <3>4. SortedBefore(e, d)
      BY <3>1
    <3> HIDE DEF d
    <3>5. /\ e.step \in Nat /\ e.order \in Nat /\ d.step \in Nat /\ d.order \in Nat
          /\ e.type \in Nat /\ d.type \in Nat
      BY <1>4, <3>1, RecordFields
    <3>6. HeardKey(entries, e)
      <4>1. CASE b < c
        <5>1. b \in 1..got
          BY <3>2, <4>1
        <5> QED
          BY <1>1, <1>4, <5>1 DEF HeardBatches
      <4>2. CASE b = c
        <5>1. p < q
          <6> SUFFICES ASSUME ~(p < q) PROVE FALSE
            OBVIOUS
          <6>1. p = q \/ q < p
            BY <1>4, <4>2
          <6>2. CASE p = q
            <7>1. d = e
              BY <1>4, <3>3, <4>2, <6>2
            <7> QED
              BY <3>4, <3>5, <7>1 DEF SortedBefore
          <6>3. CASE q < p
            <7>1. KeyLeq(d, e)
              BY <1>4, <3>3, <4>2, <6>3 DEF KeysInOrder
            <7> QED
              BY <1>4, <3>1, <3>4, <7>1, NotSortedBefore
          <6> QED
            BY <6>1, <6>2, <6>3
        <5>2. q \in 1..Len(E(b)) /\ E(b)[q] = d
          BY <3>3, <4>2
        <5>3. Heard(entries, d)
          BY <2>0 DEF Heard, N, d
        <5>4. HeardKey(entries, E(b)[p])
          BY <1>1, <5>1, <5>2, <5>3 DEF HeardFromStart
        <5> QED
          BY <1>4, <5>4
      <4>3. CASE c < b
        <5>1. d.step < e.step
          BY <1>4, <3>3, <4>3 DEF BatchesInOrder
        <5>2. KeyLeq(d, e)
          BY <5>1 DEF KeyLeq
        <5> QED
          BY <1>4, <3>1, <3>4, <5>2, NotSortedBefore
      <4>4. b < c \/ b = c \/ c < b
        OBVIOUS
      <4> QED
        BY <4>1, <4>2, <4>3, <4>4
    <3>7. PICK n \in 1..N : Key(entries[n].event) = Key(e)
      BY <3>6 DEF HeardKey, N
    <3>8. entries[n].event = e
      <4>1. PICK a \in 1..Len(batches) :
               \E r \in 1..Len(E(a)) : Leads(E(a), r) /\ entries[n].event = E(a)[r]
        BY <1>1 DEF HeardLeads, N
      <4>2. PICK r \in 1..Len(E(a)) : Leads(E(a), r) /\ entries[n].event = E(a)[r]
        BY <4>1
      <4>3. Key(E(a)[r]) = Key(E(b)[p])
        BY <1>4, <3>7, <4>2
      <4>4. a = b /\ r = p
        <5>1. a \in 1..Len(batches) /\ r \in 1..Len(E(a)) /\ b \in 1..Len(batches) /\ p \in 1..Len(E(b))
          BY <1>4
        <5>2. a = b /\ (Leads(E(a), r) /\ Leads(E(b), p) => r = p)
          BY <4>3, <5>1, SameLead, Zenon
        <5>3. Leads(E(a), r) /\ Leads(E(b), p)
          BY <1>4, <4>2, Zenon
        <5> QED
          BY <5>2, <5>3, Zenon
      <4> QED
        BY <1>4, <4>2, <4>4
    <3>9. n \in 1..(k - 1) /\ more[n].event = more[k].event
      BY <1>2, <2>2, <3>1, <3>7, <3>8
    <3> QED
      BY <3>9
  <2> QED
    BY <1>2, <2>1, <2>2
<1>11. Once(more)
  <2> SUFFICES ASSUME NEW j \in 1..Len(more), NEW k \in 1..Len(more), j < k,
                      more[j].event = more[k].event, more[j].epoch = more[k].epoch
               PROVE  k - j > DeduperCapacity
    BY DEF Once
  <2>0. j \in 1..N
    BY <1>2
  <2>1. CASE k \in 1..N
    BY <1>1, <1>2, <2>0, <2>1 DEF Once, N
  <2>2. CASE k = N + 1
    <3> DEFINE R == Len(keys)
    <3>1. entries[j].event = e /\ entries[j].epoch = resets
      BY <1>2, <2>0, <2>2 DEF e
    <3>2. /\ R <= DeduperCapacity /\ R <= N /\ R \in Nat
          /\ \A i \in 1..R : keys[i] = Key(entries[N - R + i].event)
          /\ R < DeduperCapacity => \A n \in 1..(N - R) : entries[n].epoch # resets
      <4>1. R \in Nat
        BY <1>1
      <4> QED
        BY <1>1, <4>1 DEF RingIsLast, N
    <3> HIDE DEF R
    <3>3. j <= N - R
      <4> SUFFICES ASSUME ~(j <= N - R) PROVE FALSE
        OBVIOUS
      <4> DEFINE i == j - (N - R)
      <4>1. i \in 1..R /\ N - R + i = j
        BY <1>2, <2>0, <3>2
      <4>2. keys[i] = Key(e)
        BY <3>1, <3>2, <4>1
      <4> QED
        BY <4>1, <4>2 DEF R, e
    <3>4. R = DeduperCapacity
      <4>1. j \in 1..(N - R)
        BY <1>2, <2>0, <3>2, <3>3
      <4>2. ~(R < DeduperCapacity)
        BY <3>1, <3>2, <4>1
      <4> QED
        BY <1>3, <3>2, <4>2
    <3> QED
      BY <1>2, <1>3, <2>0, <2>2, <3>3, <3>4
  <2> QED
    BY <1>2, <2>1, <2>2
<1>12. ring2 \in Seq(Keys) /\ RingIsLast(more, ring2, resets)
  <2> DEFINE R == Len(keys)
             key == Key(e)
  <2>1. /\ R <= DeduperCapacity /\ R <= N /\ R \in Nat
        /\ \A i \in 1..R : keys[i] = Key(entries[N - R + i].event)
        /\ R < DeduperCapacity => \A n \in 1..(N - R) : entries[n].epoch # resets
        /\ \A k \in 1..N : entries[k].epoch <= resets
    <3>1. R \in Nat
      BY <1>1
    <3> QED
      BY <1>1, <3>1 DEF RingIsLast, N
  <2>2. \A k \in 1..Len(more) : more[k].epoch <= resets
    <3> TAKE k \in 1..Len(more)
    <3>1. CASE k \in 1..N
      BY <1>2, <2>1, <3>1
    <3>2. CASE k = N + 1
      BY <1>2, <3>2
    <3> QED
      BY <1>2, <3>1, <3>2
  <2>3. key \in Keys /\ key = Key(more[N + 1].event) /\ keys \in Seq(Keys)
    <3>1. key \in Keys
      BY <1>4 DEF Keys
    <3>2. key = Key(more[N + 1].event)
      BY <1>2 DEF e
    <3> QED
      BY <1>1, <3>1, <3>2
  <2>4. ring2 = IF R < DeduperCapacity THEN Append(keys, key) ELSE Append(Tail(keys), key)
    BY DEF Recorded
  <2> HIDE DEF ring2, key
  <2> DEFINE LastKeys(r) == \A i \in 1..Len(r) : r[i] = Key(more[Len(more) - Len(r) + i].event)
  <2>5. CASE R < DeduperCapacity
    <3>1. /\ ring2 \in Seq(Keys) /\ Len(ring2) = R + 1 /\ ring2[R + 1] = key
          /\ \A i \in 1..R : ring2[i] = keys[i]
          /\ \A i \in 1..Len(ring2) : i \in 1..R \/ i = R + 1
      BY <2>3, <2>4, <2>5
    <3> HIDE DEF R
    <3>2. Len(ring2) <= DeduperCapacity /\ Len(ring2) <= Len(more)
      BY <1>2, <1>3, <2>1, <2>5, <3>1
    <3>3. LastKeys(ring2)
      <4> SUFFICES ASSUME NEW i \in 1..Len(ring2)
                   PROVE  ring2[i] = Key(more[Len(more) - Len(ring2) + i].event)
        OBVIOUS
      <4>1. CASE i = R + 1
        <5>1. Len(more) - Len(ring2) + i = N + 1
          BY <1>2, <2>1, <3>1, <4>1
        <5> QED
          BY <2>3, <3>1, <4>1, <5>1
      <4>2. CASE i \in 1..R
        <5>1. Len(more) - Len(ring2) + i = N - R + i /\ N - R + i \in 1..N
          BY <1>2, <2>1, <3>1, <4>2
        <5>2. more[N - R + i] = entries[N - R + i]
          BY <1>2, <5>1
        <5> QED
          BY <2>1, <3>1, <4>2, <5>1, <5>2
      <4> QED
        BY <3>1, <4>1, <4>2
    <3>4. \A k \in 1..(Len(more) - Len(ring2)) : more[k].epoch # resets
      <4> TAKE k \in 1..(Len(more) - Len(ring2))
      <4>1. k \in 1..(N - R) /\ k \in 1..N
        BY <1>2, <2>1, <3>1
      <4> QED
        BY <1>2, <2>1, <2>5, <4>1
    <3> HIDE DEF LastKeys
    <3>5. RingIsLast(more, ring2, resets)
      BY <2>2, <3>2, <3>3, <3>4 DEF RingIsLast, LastKeys
    <3> QED
      BY <3>1, <3>5
  <2>6. CASE ~(R < DeduperCapacity)
    <3> DEFINE tail == Tail(keys)
    <3>1. /\ R = DeduperCapacity /\ R - 1 \in Nat
      BY <1>3, <2>1, <2>6
    <3>2. /\ tail \in Seq(Keys) /\ Len(tail) = R - 1
          /\ \A i \in 1..(R - 1) : tail[i] = keys[i + 1]
      <4>1. keys # <<>>
        BY <3>1
      <4> QED
        BY <2>3, <4>1, HeadTailProperties
    <3> HIDE DEF tail
    <3>3. ring2 = Append(tail, key)
      BY <2>4, <2>6 DEF tail
    <3> HIDE DEF R
    <3>4. /\ ring2 \in Seq(Keys) /\ Len(ring2) = R /\ ring2[R] = key
          /\ \A i \in 1..(R - 1) : ring2[i] = keys[i + 1]
          /\ \A i \in 1..Len(ring2) : i \in 1..(R - 1) \/ i = R
      <4>1. /\ ring2 \in Seq(Keys) /\ Len(ring2) = (R - 1) + 1 /\ ring2[(R - 1) + 1] = key
            /\ \A i \in 1..(R - 1) : ring2[i] = tail[i]
        BY <2>3, <3>1, <3>2, <3>3
      <4>2. (R - 1) + 1 = R
        BY <2>1
      <4> QED
        BY <2>1, <3>2, <4>1, <4>2
    <3>5. Len(ring2) <= DeduperCapacity /\ Len(ring2) <= Len(more)
      BY <1>2, <1>3, <2>1, <3>1, <3>4
    <3>6. LastKeys(ring2)
      <4> SUFFICES ASSUME NEW i \in 1..Len(ring2)
                   PROVE  ring2[i] = Key(more[Len(more) - Len(ring2) + i].event)
        OBVIOUS
      <4>1. CASE i = R
        <5>1. Len(more) - Len(ring2) + i = N + 1
          BY <1>2, <2>1, <3>4, <4>1
        <5> QED
          BY <2>3, <3>4, <4>1, <5>1
      <4>2. CASE i \in 1..(R - 1)
        <5>1. /\ Len(more) - Len(ring2) + i = N - R + (i + 1) /\ N - R + (i + 1) \in 1..N
              /\ i + 1 \in 1..R
          BY <1>2, <2>1, <3>4, <4>2
        <5>2. more[N - R + (i + 1)] = entries[N - R + (i + 1)]
          BY <1>2, <5>1
        <5>3. keys[i + 1] = Key(entries[N - R + (i + 1)].event)
          BY <2>1, <5>1
        <5> QED
          BY <3>4, <4>2, <5>1, <5>2, <5>3
      <4> QED
        BY <3>4, <4>1, <4>2
    <3> HIDE DEF LastKeys
    <3>7. RingIsLast(more, ring2, resets)
      <4>1. ~(Len(ring2) < DeduperCapacity)
        BY <1>3, <3>1, <3>4
      <4> QED
        BY <2>2, <3>5, <3>6, <4>1 DEF RingIsLast, LastKeys
    <3> QED
      BY <3>4, <3>7
  <2> QED
    BY <2>5, <2>6
<1>13. ClientInv(more, ring2, batches, got, resets)
  <2> HIDE DEF ring2
  <2> QED
    BY <1>2, <1>7, <1>8, <1>9, <1>10, <1>11, <1>12 DEF ClientInv
<1> QED
  BY <1>13 DEF more, e

(* The client while it goes through events.                                 *)
Clients == [ring : Seq(Keys), fresh : Seq(EventRecords), skipped : Seq(EventRecords)]

InRing(keys, e) == \E i \in 1..Len(keys) : keys[i] = Key(e)

LEMMA RecordedKeys ==
    ASSUME NEW keys \in Seq(Keys), NEW key \in Keys
    PROVE  /\ Recorded(keys, key) \in Seq(Keys)
           /\ \E i \in 1..Len(Recorded(keys, key)) : Recorded(keys, key)[i] = key
<1> DEFINE tail == Tail(keys)
           s == IF Len(keys) < DeduperCapacity THEN keys ELSE tail
<1>1. DeduperCapacity \in Nat /\ DeduperCapacity # 0 /\ Len(keys) \in Nat
  BY BroadcastAssumption
<1>2. s \in Seq(Keys)
  <2>1. ASSUME ~(Len(keys) < DeduperCapacity) PROVE tail \in Seq(Keys)
    <3>1. keys # <<>>
      BY <1>1, <2>1
    <3> QED
      BY <3>1, HeadTailProperties
  <2> HIDE DEF tail
  <2> QED
    BY <2>1
<1>3. Recorded(keys, key) = Append(s, key)
  BY DEF Recorded
<1> HIDE DEF s
<1>4. Append(s, key) \in Seq(Keys) /\ Append(s, key)[Len(s) + 1] = key
      /\ Len(s) + 1 \in 1..Len(Append(s, key))
  BY <1>2
<1> QED
  BY <1>3, <1>4

LEMMA OfferFields ==
    ASSUME NEW acc \in Clients, NEW e \in EventRecords
    PROVE  /\ Offer(acc, e) \in Clients
           /\ InRing(acc.ring, e) =>
                 Offer(acc, e).ring = acc.ring /\ Offer(acc, e).fresh = acc.fresh
           /\ ~InRing(acc.ring, e) =>
                 /\ Offer(acc, e).ring = Recorded(acc.ring, Key(e))
                 /\ Offer(acc, e).fresh = Append(acc.fresh, e)
           /\ InRing(Offer(acc, e).ring, e)
<1> DEFINE r == Recorded(acc.ring, Key(e))
           f == Append(acc.fresh, e)
           s == Append(acc.skipped, e)
<1>1. acc.ring \in Seq(Keys) /\ acc.fresh \in Seq(EventRecords) /\ acc.skipped \in Seq(EventRecords)
  BY DEF Clients
<1>2. r \in Seq(Keys) /\ \E i \in 1..Len(r) : r[i] = Key(e)
  <2>1. Key(e) \in Keys
    BY DEF Keys
  <2> QED
    BY <1>1, <2>1, RecordedKeys
<1>3. f \in Seq(EventRecords) /\ s \in Seq(EventRecords)
  BY <1>1
<1>4. InRing(acc.ring, e) => Offer(acc, e) = [acc EXCEPT !.skipped = s]
  BY Zenon DEF Offer, InRing
<1>5. ~InRing(acc.ring, e) => Offer(acc, e) = [acc EXCEPT !.ring = r, !.fresh = f]
  BY Zenon DEF Offer, InRing
<1> HIDE DEF r, f, s
<1>6. CASE InRing(acc.ring, e)
  <2>1. /\ [acc EXCEPT !.skipped = s] \in Clients /\ [acc EXCEPT !.skipped = s].ring = acc.ring
        /\ [acc EXCEPT !.skipped = s].fresh = acc.fresh
    BY <1>3 DEF Clients
  <2>2. Offer(acc, e).ring = acc.ring
    BY <1>4, <1>6, <2>1
  <2> QED
    BY <1>4, <1>6, <2>1, <2>2
<1>7. CASE ~InRing(acc.ring, e)
  <2> DEFINE b == [acc EXCEPT !.ring = r, !.fresh = f]
  <2>1. b \in Clients /\ b.ring = r /\ b.fresh = f
    BY <1>2, <1>3 DEF Clients
  <2>2. InRing(r, e)
    BY <1>2 DEF InRing
  <2>3. Offer(acc, e) = b
    BY <1>5, <1>7
  <2> HIDE DEF b
  <2> QED
    BY <1>7, <2>1, <2>2, <2>3 DEF r, f
<1> QED
  BY <1>6, <1>7

(* The log with the events published to the bus since.                      *)
Hearing(entries, fresh, handed, resets) ==
    entries \o [n \in 1..Len(fresh) |->
                   [event |-> fresh[n], handed |-> n <= handed, epoch |-> resets]]

LEMMA HearingMore ==
    ASSUME NEW entries \in Seq(Entries), NEW fresh \in Seq(EventRecords), NEW e \in EventRecords,
           NEW handed \in Nat, NEW resets \in Nat,
           NEW entry, entry = [event |-> e, handed |-> Len(fresh) + 1 <= handed, epoch |-> resets]
    PROVE  /\ entry \in Entries
           /\ Hearing(entries, Append(fresh, e), handed, resets)
                 = Append(Hearing(entries, fresh, handed, resets), entry)
<1> DEFINE N == Len(fresh)
           more == Append(fresh, e)
           of(s, n) == [event |-> s[n], handed |-> n <= handed, epoch |-> resets]
           old == [n \in 1..N |-> of(fresh, n)]
           new == [n \in 1..Len(more) |-> of(more, n)]
<1>1. /\ N \in Nat /\ Len(more) = N + 1 /\ more[N + 1] = e
      /\ \A n \in 1..N : more[n] = fresh[n] /\ fresh[n] \in EventRecords
      /\ \A n \in 1..(N + 1) : n \in 1..N \/ n = N + 1
  OBVIOUS
<1>2. entry \in Entries
  <2>1. (N + 1 <= handed) \in BOOLEAN
    OBVIOUS
  <2> QED
    BY <2>1 DEF Entries
<1>3. \A n \in 1..N : of(fresh, n) \in Entries
  <2> TAKE n \in 1..N
  <2>1. (n <= handed) \in BOOLEAN /\ fresh[n] \in EventRecords
    BY <1>1
  <2> QED
    BY <2>1 DEF Entries
<1>4. entry = of(more, N + 1) /\ \A n \in 1..N : of(more, n) = of(fresh, n)
  BY <1>1
<1>5. Hearing(entries, more, handed, resets) = entries \o new
      /\ Hearing(entries, fresh, handed, resets) = entries \o old
  BY DEF Hearing
<1> HIDE DEF N, more, of
<1>6. old \in Seq(Entries) /\ Len(old) = N /\ \A n \in 1..N : old[n] = of(fresh, n)
  BY <1>1, <1>3
<1>7. Len(new) = N + 1 /\ new = [n \in 1..(N + 1) |-> new[n]]
      /\ \A n \in 1..(N + 1) : new[n] = of(more, n)
  BY <1>1
<1> HIDE DEF old, new
<1>8. new = Append(old, entry)
  <2> DEFINE app == Append(old, entry)
  <2>1. /\ app \in Seq(Entries) /\ Len(app) = N + 1 /\ app[N + 1] = entry
        /\ \A n \in 1..N : app[n] = old[n]
    BY <1>1, <1>2, <1>6
  <2> HIDE DEF app
  <2>2. app = [n \in 1..(N + 1) |-> app[n]]
    BY <2>1
  <2>3. \A n \in 1..(N + 1) : app[n] = new[n]
    <3> TAKE n \in 1..(N + 1)
    <3>1. CASE n = N + 1
      BY <1>1, <1>4, <1>7, <2>1, <3>1
    <3>2. CASE n \in 1..N
      <4>1. app[n] = of(fresh, n) /\ new[n] = of(more, n)
        BY <1>6, <1>7, <2>1, <3>2
      <4> QED
        BY <1>4, <3>2, <4>1
    <3> QED
      BY <1>1, <3>1, <3>2
  <2>4. app = new
    BY <1>7, <2>2, <2>3, Zenon
  <2> QED
    BY <2>4 DEF app
<1>9. entries \o Append(old, entry) = Append(entries \o old, entry)
  BY <1>2, <1>6
<1>10. Hearing(entries, more, handed, resets) = Append(Hearing(entries, fresh, handed, resets), entry)
  BY <1>5, <1>8, <1>9, Zenon
<1> QED
  BY <1>2, <1>10 DEF more

(* The batches and what the client has of them are in order.                *)
Ready ==
    /\ BatchesInOrder(sent) /\ Len(sent) \in Nat /\ received \in Nat /\ epoch \in Nat
    /\ log \in Seq(Entries)

(* The client has gone through the first m events of batch b.               *)
Offers(acc, b, m, handed) ==
    /\ acc \in Clients
    /\ ClientInv(Hearing(log, acc.fresh, handed, epoch), acc.ring, sent, received, epoch)
    /\ \A q \in 1..m : HeardKey(Hearing(log, acc.fresh, handed, epoch), Events(sent[b])[q])
    /\ m # 0 => InRing(acc.ring, Events(sent[b])[m])

LEMMA OfferStep ==
    ASSUME Ready, NEW b \in 1..Len(sent), b <= received + 1,
           NEW m \in Nat, m + 1 <= Len(Events(sent[b])), NEW handed \in Nat,
           NEW acc, Offers(acc, b, m, handed)
    PROVE  Offers(Offer(acc, Events(sent[b])[m + 1]), b, m + 1, handed)
<1> DEFINE E == Events(sent[b])
           e == E[m + 1]
           entries == Hearing(log, acc.fresh, handed, epoch)
           after == Offer(acc, e)
<1>1. /\ acc \in Clients /\ ClientInv(entries, acc.ring, sent, received, epoch)
      /\ \A q \in 1..m : HeardKey(entries, E[q])
      /\ m # 0 => InRing(acc.ring, E[m])
  BY DEF Offers
<1>2. E \in Seq(EventRecords) /\ m + 1 \in 1..Len(E) /\ e \in EventRecords
  <2>1. E \in Seq(EventRecords)
    BY DEF Ready, BatchesInOrder
  <2>2. m + 1 \in 1..Len(E)
    BY <2>1
  <2> QED
    BY <2>1, <2>2
<1>3. /\ entries \in Seq(Entries) /\ acc.ring \in Seq(Keys)
      /\ RingIsLast(entries, acc.ring, epoch)
  BY <1>1 DEF ClientInv
<1>4. \A q \in 1..(m + 1) : q \in 1..m \/ q = m + 1
  OBVIOUS
<1>5. CASE InRing(acc.ring, e)
  <2>1. after \in Clients /\ after.ring = acc.ring /\ after.fresh = acc.fresh
    BY <1>1, <1>2, <1>5, OfferFields
  <2>2. HeardKey(entries, e)
    <3>1. PICK i \in 1..Len(acc.ring) : acc.ring[i] = Key(e)
      BY <1>5 DEF InRing
    <3> DEFINE k == Len(entries) - Len(acc.ring) + i
    <3>2. k \in 1..Len(entries)
      <4>1. Len(entries) \in Nat /\ Len(acc.ring) \in Nat /\ Len(acc.ring) <= Len(entries)
        BY <1>3 DEF RingIsLast
      <4> QED
        BY <4>1
    <3>3. acc.ring[i] = Key(entries[k].event)
      BY <1>3 DEF RingIsLast
    <3> HIDE DEF k, entries
    <3> QED
      BY <3>1, <3>2, <3>3 DEF HeardKey
  <2> HIDE DEF after, E
  <2>3. \A q \in 1..(m + 1) : HeardKey(entries, E[q])
    <3> HIDE DEF entries
    <3> QED
      BY <1>1, <1>4, <2>2
  <2>4. Offers(after, b, m + 1, handed)
    <3>1. Hearing(log, after.fresh, handed, epoch) = entries
      BY <2>1
    <3>2. m + 1 # 0 => InRing(after.ring, E[m + 1])
      BY <1>5, <2>1
    <3> HIDE DEF entries
    <3> QED
      BY <1>1, <2>1, <2>3, <3>1, <3>2 DEF Offers, E
  <2> QED
    BY <2>4 DEF after, E
<1>6. CASE ~InRing(acc.ring, e)
  <2> DEFINE entry == [event |-> e, handed |-> Len(acc.fresh) + 1 <= handed, epoch |-> epoch]
             more == Append(entries, entry)
  <2>1. /\ after \in Clients /\ after.ring = Recorded(acc.ring, Key(e))
        /\ after.fresh = Append(acc.fresh, e) /\ InRing(after.ring, e)
    BY <1>1, <1>2, <1>6, OfferFields
  <2>2. entry \in Entries /\ Hearing(log, after.fresh, handed, epoch) = more
    <3>1. acc.fresh \in Seq(EventRecords) /\ log \in Seq(Entries) /\ epoch \in Nat
      BY <1>1 DEF Ready, Clients
    <3> DEFINE fresh == acc.fresh
    <3> HIDE DEF after, e
    <3> HIDE DEF entry, entries, fresh
    <3>2. /\ entry \in Entries
          /\ Hearing(log, Append(fresh, e), handed, epoch)
                = Append(Hearing(log, fresh, handed, epoch), entry)
      <4>1. entry = [event |-> e, handed |-> Len(fresh) + 1 <= handed, epoch |-> epoch]
        BY DEF entry, fresh
      <4>2. fresh \in Seq(EventRecords)
        BY <3>1 DEF fresh
      <4> QED
        BY <1>2, <3>1, <4>1, <4>2, HearingMore
    <3> QED
      BY <2>1, <3>2 DEF fresh, entries
  <2>3. Leads(E, m + 1)
    <3>1. CASE m = 0
      BY <3>1 DEF Leads
    <3>2. CASE m # 0
      <4>1. InRing(acc.ring, E[m]) /\ (m + 1) - 1 = m
        BY <1>1, <3>2
      <4>2. Key(E[m]) # Key(e)
        BY <1>6, <4>1 DEF InRing
      <4> QED
        BY <4>1, <4>2 DEF Leads
    <3> QED
      BY <3>1, <3>2
  <2>4. entry.event = e /\ entry.epoch = epoch
    OBVIOUS
  <2>5. \A i \in 1..Len(acc.ring) : acc.ring[i] # Key(entry.event)
    BY <1>6, <2>4 DEF InRing
  <2>6. \A q \in 1..((m + 1) - 1) : HeardKey(entries, E[q])
    <3>1. (m + 1) - 1 = m
      OBVIOUS
    <3> QED
      BY <1>1, <3>1
  <2> HIDE DEF entry, entries, after
  <2>7. ClientInv(more, Recorded(acc.ring, Key(entry.event)), sent, received, epoch)
    BY <1>1, <1>2, <2>2, <2>3, <2>4, <2>5, <2>6, EventHeard DEF Ready
  <2>8. \A q \in 1..(m + 1) : HeardKey(more, E[q])
    <3>1. /\ \A k \in 1..Len(entries) : k \in 1..Len(more) /\ more[k] = entries[k]
          /\ Len(entries) + 1 \in 1..Len(more) /\ more[Len(entries) + 1] = entry
      BY <1>3, <2>2
    <3> HIDE DEF more, E
    <3> TAKE q \in 1..(m + 1)
    <3>2. CASE q \in 1..m
      BY <1>1, <3>1, <3>2 DEF HeardKey
    <3>3. CASE q = m + 1
      BY <2>4, <3>1, <3>3 DEF HeardKey
    <3> QED
      BY <1>4, <3>2, <3>3
  <2>9. Offers(after, b, m + 1, handed)
    <3>1. ClientInv(Hearing(log, after.fresh, handed, epoch), after.ring, sent, received, epoch)
      BY <2>1, <2>2, <2>4, <2>7
    <3>2. \A q \in 1..(m + 1) : HeardKey(Hearing(log, after.fresh, handed, epoch), E[q])
      BY <2>2, <2>8
    <3>3. m + 1 # 0 => InRing(after.ring, E[m + 1])
      BY <2>1
    <3> HIDE DEF more, E
    <3> QED
      BY <2>1, <3>1, <3>2, <3>3 DEF Offers, E
  <2> QED
    BY <2>9 DEF after
<1> QED
  BY <1>5, <1>6

(* The client when it has gone through n of some events.                    *)
Offering(f, acc, events) ==
    /\ f \in [0..Len(events) -> Clients]
    /\ f[0] = acc
    /\ \A n \in 1..Len(events) : f[n] = Offer(f[n - 1], events[n])

LEMMA OfferLoop ==
    ASSUME NEW acc \in Clients, NEW events \in Seq(EventRecords)
    PROVE  \E f : Offering(f, acc, events) /\ OfferAll(acc, events) = f[Len(events)]
<1> DEFINE L == Len(events)
           Step(f, n) == IF n = 0 THEN acc ELSE Offer(f[n - 1], events[n])
           X == Clients
           next == [p \in (1..L) \X X |-> Offer(p[2], events[p[1]])]
<1>1. L \in Nat /\ \A n \in 1..L : events[n] \in EventRecords
  OBVIOUS
<1>2. acc \in X
  OBVIOUS
<1>3. next \in [(1..L) \X X -> X]
  <2>1. ASSUME NEW n \in 1..L, NEW v \in X PROVE Offer(v, events[n]) \in X
    <3>1. events[n] \in EventRecords
      BY <1>1
    <3> QED
      BY <3>1, OfferFields
  <2> HIDE DEF X
  <2> QED
    BY <2>1
<1> HIDE DEF X
<1>4. \A n \in 1..L, v \in X : next[<<n, v>>] = Offer(v, events[n])
  OBVIOUS
<1> HIDE DEF next, L
<1>a. PICK f : Recursive(f, acc, next, L, X)
  BY <1>1, <1>2, <1>3, Recursion
<1>5. f \in [0..L -> X] /\ f[0] = acc /\ \A n \in 1..L : f[n] = next[<<n, f[n - 1]>>]
  BY <1>a DEF Recursive
<1>6. \A n \in 1..L : f[n] = Offer(f[n - 1], events[n])
  <2> TAKE n \in 1..L
  <2>1. f[n - 1] \in X
    BY <1>1, <1>5
  <2> QED
    BY <1>4, <1>5, <2>1
<1>7. f = [n \in 0..L |-> Step(f, n)]
  <2>1. \A n \in 0..L : f[n] = Step(f, n)
    <3> TAKE n \in 0..L
    <3>1. n = 0 \/ n \in 1..L
      BY <1>1
    <3> QED
      BY <1>5, <1>6, <3>1
  <2>2. f = [n \in 0..L |-> f[n]]
    BY <1>5
  <2> QED
    BY <2>1, <2>2
<1> DEFINE c == CHOOSE g : g = [n \in 0..L |-> Step(g, n)]
<1>8. c = [n \in 0..L |-> Step(c, n)]
  BY <1>7, Zenon
<1>9. OfferAll(acc, events) = IF events = <<>> THEN acc ELSE c[L]
  BY Zenon DEF OfferAll, L
<1> HIDE DEF c
<1>10. \A n \in 0..L : c[n] = Step(c, n)
  BY <1>8, Zenon
<1> DEFINE Same == {n \in Nat : n <= L => c[n] = f[n]}
<1>11. 0 \in Same
  <2>1. c[0] = acc
    BY <1>1, <1>10
  <2> QED
    BY <1>5, <2>1
<1>12. ASSUME NEW n \in Nat, n \in Same PROVE n + 1 \in Same
  <2> SUFFICES ASSUME n + 1 <= L PROVE c[n + 1] = f[n + 1]
    OBVIOUS
  <2>1. n + 1 \in 1..L /\ n + 1 \in 0..L /\ n + 1 # 0 /\ (n + 1) - 1 = n /\ c[n] = f[n]
    BY <1>1, <1>12
  <2>2. c[n + 1] = Offer(c[n], events[n + 1])
    BY <1>10, <2>1
  <2>3. f[n + 1] = Offer(f[n], events[n + 1])
    BY <1>6, <2>1
  <2> QED
    BY <2>1, <2>2, <2>3
<1> HIDE DEF Same
<1>13. c[L] = f[L]
  <2>1. Nat \subseteq Same
    BY <1>11, <1>12, SetInduction
  <2> QED
    BY <1>1, <2>1 DEF Same
<1>14. Offering(f, acc, events)
  BY <1>5, <1>6 DEF Offering, L, X
<1>15. events = <<>> => f[L] = acc
  BY <1>5 DEF L
<1>16. OfferAll(acc, events) = f[L]
  BY <1>9, <1>13, <1>15, Zenon
<1> QED
  BY <1>14, <1>16 DEF L

LEMMA OfferAllKeeps ==
    ASSUME Ready, NEW b \in 1..Len(sent), b <= received + 1,
           NEW m \in Nat, NEW events \in Seq(EventRecords),
           m + Len(events) <= Len(Events(sent[b])),
           \A j \in 1..Len(events) : events[j] = Events(sent[b])[m + j],
           NEW handed \in Nat, NEW acc, Offers(acc, b, m, handed)
    PROVE  Offers(OfferAll(acc, events), b, m + Len(events), handed)
<1> DEFINE L == Len(events)
           Right == {n \in Nat : n <= L => \A f : Offering(f, acc, events) => Offers(f[n], b, m + n, handed)}
<1>0. L \in Nat /\ acc \in Clients /\ Len(Events(sent[b])) \in Nat
  <2>1. Events(sent[b]) \in Seq(EventRecords)
    BY DEF Ready, BatchesInOrder
  <2> QED
    BY <2>1 DEF Offers
<1>1. 0 \in Right
  <2>1. m + 0 = m
    OBVIOUS
  <2> QED
    BY <2>1 DEF Offering
<1>2. ASSUME NEW n \in Nat, n \in Right PROVE n + 1 \in Right
  <2> SUFFICES ASSUME n + 1 <= L, NEW f, Offering(f, acc, events)
               PROVE  Offers(f[n + 1], b, m + (n + 1), handed)
    OBVIOUS
  <2>1. Offers(f[n], b, m + n, handed)
    BY <1>0, <1>2
  <2>2. n + 1 \in 1..L /\ (n + 1) - 1 = n /\ m + (n + 1) = (m + n) + 1 /\ m + n \in Nat
        /\ (m + n) + 1 <= Len(Events(sent[b]))
    BY <1>0
  <2>3. f[n + 1] = Offer(f[n], events[n + 1])
    BY <2>2 DEF Offering
  <2>4. events[n + 1] = Events(sent[b])[(m + n) + 1]
    BY <2>2
  <2>5. Offers(Offer(f[n], Events(sent[b])[(m + n) + 1]), b, (m + n) + 1, handed)
    BY <2>1, <2>2, OfferStep
  <2> QED
    BY <2>2, <2>3, <2>4, <2>5
<1> HIDE DEF Right, L
<1>3. L \in Right /\ L <= L
  <2>1. Nat \subseteq Right
    BY <1>1, <1>2, SetInduction
  <2> QED
    BY <1>0, <2>1
<1>4. PICK f : Offering(f, acc, events) /\ OfferAll(acc, events) = f[Len(events)]
  BY <1>0, OfferLoop
<1>5. Offers(f[L], b, m + L, handed)
  BY <1>3, <1>4 DEF Right
<1> QED
  BY <1>4, <1>5 DEF L

-----------------------------------------------------------------------------
(* The steps of the client                                                  *)

LEMMA ServerSame ==
    ASSUME ServerInv, UNCHANGED <<config, serverVars>>
    PROVE  ServerInv'
<1>1. /\ config' = config /\ serverStep' = serverStep /\ now' = now
      /\ pendingFrames' = pendingFrames /\ pendingSince' = pendingSince /\ sent' = sent
      /\ published' = published
  BY DEF serverVars
<1>2. AllCovered(sent, pendingFrames, published)'
  <2>1. AllCovered(sent', pendingFrames', published')
    BY <1>1 DEF ServerInv
  <2> QED
    BY <1>1, <2>1, CoveredStays
<1>3. PendingNew' /\ DelayKept'
  BY <1>1 DEF ServerInv, PendingNew, DelayKept
<1>4. /\ config' \in Configs /\ serverStep' \in Nat /\ now' \in Nat
      /\ pendingFrames' \in Seq(Frames) /\ sent' \in Seq(Seq(Frames))
      /\ published' \in Seq(EventRecords)
      /\ FramesInOrder(sent', pendingFrames', serverStep')
  BY <1>1 DEF ServerInv
<1> QED
  BY <1>2, <1>3, <1>4 DEF ServerInv

LEMMA ReadyNow ==
    ASSUME BroadcastInv
    PROVE  /\ Ready
           /\ \A b \in 1..Len(sent), handed \in Nat : Offers(Client, b, 0, handed)
<1>1. /\ sent \in Seq(Seq(Frames)) /\ FramesInOrder(sent, pendingFrames, serverStep)
      /\ received \in 0..Len(sent) /\ epoch \in Nat /\ ClientInv(log, ring, sent, received, epoch)
  BY DEF BroadcastInv, ServerInv
<1>2. Ready
  <2>1. BatchesInOrder(sent)
    BY <1>1, OrderedBatches
  <2>2. log \in Seq(Entries)
    BY <1>1 DEF ClientInv
  <2> QED
    BY <1>1, <2>1, <2>2 DEF Ready
<1>3. ASSUME NEW b \in 1..Len(sent), NEW handed \in Nat PROVE Offers(Client, b, 0, handed)
  <2>1. Client \in Clients /\ Client.ring = ring /\ Client.fresh = <<>>
    <3>1. ring \in Seq(Keys)
      BY <1>1 DEF ClientInv
    <3>2. <<>> \in Seq(EventRecords)
      OBVIOUS
    <3> QED
      BY <3>1, <3>2 DEF Client, Clients
  <2>2. Hearing(log, <<>>, handed, epoch) = log
    <3> DEFINE none == [n \in 1..Len(<<>>) |-> [event |-> <<>>[n], handed |-> n <= handed, epoch |-> epoch]]
    <3>1. none = <<>>
      <4>1. 1..Len(<<>>) = {}
        OBVIOUS
      <4> QED
        BY <4>1
    <3>2. log \o <<>> = log
      BY <1>2 DEF Ready
    <3> HIDE DEF none
    <3>3. Hearing(log, <<>>, handed, epoch) = log \o none
      BY Zenon DEF Hearing, none
    <3> QED
      BY <3>1, <3>2, <3>3
  <2>3. 1..0 = {}
    OBVIOUS
  <2> QED
    BY <1>1, <2>1, <2>2, <2>3 DEF Offers
<1> QED
  BY <1>2, <1>3

(* Receiving a batch all of whose events are heard.                         *)
LEMMA GotMore ==
    ASSUME NEW entries, NEW keys, NEW batches, NEW got \in Nat, NEW resets,
           ClientInv(entries, keys, batches, got, resets),
           \A q \in 1..Len(Events(batches[got + 1])) :
              HeardKey(entries, Events(batches[got + 1])[q])
    PROVE  ClientInv(entries, keys, batches, got + 1, resets)
<1>1. HeardBatches(entries, batches, got + 1)
  <2>1. \A b \in 1..(got + 1) : b \in 1..got \/ b = got + 1
    OBVIOUS
  <2> QED
    BY <2>1 DEF ClientInv, HeardBatches
<1>2. HeardLeads(entries, batches, got + 1)
  <2>1. \A b \in 1..Len(batches) : b <= got + 1 => b <= (got + 1) + 1
    OBVIOUS
  <2> QED
    BY <2>1 DEF ClientInv, HeardLeads
<1> QED
  BY <1>1, <1>2 DEF ClientInv

(* More batches are sent.                                                   *)
LEMMA MoreBatches ==
    ASSUME NEW entries, NEW keys, NEW batches \in Seq(Seq(Frames)), NEW after \in Seq(Seq(Frames)),
           NEW got \in 0..Len(batches), NEW resets,
           ClientInv(entries, keys, batches, got, resets),
           Extends(after, batches), BatchesInOrder(after)
    PROVE  ClientInv(entries, keys, after, got, resets)
<1>1. /\ Len(batches) \in Nat /\ Len(after) \in Nat
      /\ \A b \in 1..Len(batches) : b \in 1..Len(after) /\ after[b] = batches[b]
  BY DEF Extends
<1>2. HeardLeads(entries, after, got)
  <2> SUFFICES ASSUME NEW k \in 1..Len(entries)
               PROVE  \E b \in 1..Len(after) :
                         /\ b <= got + 1
                         /\ \E p \in 1..Len(Events(after[b])) :
                               Leads(Events(after[b]), p) /\ entries[k].event = Events(after[b])[p]
    BY DEF HeardLeads
  <2>1. PICK b \in 1..Len(batches) :
           /\ b <= got + 1
           /\ \E p \in 1..Len(Events(batches[b])) :
                 Leads(Events(batches[b]), p) /\ entries[k].event = Events(batches[b])[p]
    BY DEF ClientInv, HeardLeads
  <2> QED
    BY <1>1, <2>1
<1>3. HeardFromStart(entries, after)
  <2> SUFFICES ASSUME NEW b \in 1..Len(after), NEW p \in 1..Len(Events(after[b])),
                      NEW q \in 1..Len(Events(after[b])), p < q,
                      Heard(entries, Events(after[b])[q])
               PROVE  HeardKey(entries, Events(after[b])[p])
    BY DEF HeardFromStart
  <2>1. CASE b \in 1..Len(batches)
    BY <1>1, <2>1 DEF ClientInv, HeardFromStart
  <2>2. CASE b \notin 1..Len(batches)
    <3>1. PICK k \in 1..Len(entries) : entries[k].event = Events(after[b])[q]
      BY DEF Heard
    <3>2. PICK c \in 1..Len(batches) : \E r \in 1..Len(Events(batches[c])) :
             entries[k].event = Events(batches[c])[r]
      BY DEF ClientInv, HeardLeads
    <3>3. PICK r \in 1..Len(Events(after[c])) : entries[k].event = Events(after[c])[r]
      BY <1>1, <3>2
    <3>4. c \in 1..Len(after) /\ c < b
      BY <1>1, <2>2
    <3>5. Events(after[c])[r].step < Events(after[b])[q].step
      BY <3>4, Zenon DEF BatchesInOrder
    <3>6. Events(after[b])[q].step \in Nat
      <4>1. Events(after[b]) \in Seq(EventRecords)
        BY Zenon DEF BatchesInOrder
      <4>2. Events(after[b])[q] \in EventRecords
        BY <4>1
      <4> QED
        BY <4>2, RecordFields
    <3>7. Events(after[c])[r].step = Events(after[b])[q].step
      BY <3>1, <3>3
    <3>8. Events(after[b])[q].step < Events(after[b])[q].step
      BY <3>5, <3>7, Zenon
    <3>9. \A v \in Nat : ~(v < v)
      BY ONLY TRUE
    <3> QED
      BY <3>6, <3>8, <3>9, Zenon
  <2> QED
    BY <2>1, <2>2
<1>4. HeardBatches(entries, after, got)
  <2>1. \A b \in 1..got : b \in 1..Len(batches)
    BY <1>1
  <2> QED
    BY <1>1, <2>1 DEF ClientInv, HeardBatches
<1> QED
  BY <1>2, <1>3, <1>4 DEF ClientInv

(* The client records what it has gone through.                             *)
LEMMA ApplyKeeps ==
    ASSUME BroadcastInv, NEW b, NEW m, NEW handed, NEW acc, Offers(acc, b, m, handed),
           Apply(acc, handed)
    PROVE  /\ ServerInv' /\ sent' = sent /\ epoch' = epoch
           /\ ClientInv(log', ring', sent', received, epoch')
           /\ \A q \in 1..m : HeardKey(log', Events(sent[b])[q])
<1>1. /\ ring' = acc.ring /\ log' = Hearing(log, acc.fresh, handed, epoch)
      /\ UNCHANGED <<config, serverVars>> /\ sent' = sent /\ epoch' = epoch
  BY DEF Apply, Hearing, serverVars
<1>2. ServerInv'
  BY <1>1, ServerSame DEF BroadcastInv
<1>3. ClientInv(log', ring', sent', received, epoch')
  BY <1>1 DEF Offers
<1>4. \A q \in 1..m : HeardKey(log', Events(sent[b])[q])
  BY <1>1 DEF Offers
<1> QED
  BY <1>1, <1>2, <1>3, <1>4

(* The client goes through the first frames of a batch, and through some    *)
(* events of the next one.                                                  *)
LEMMA PartOfBatch ==
    ASSUME BroadcastInv, NEW b \in 1..Len(sent), b <= received + 1,
           NEW f \in 1..Len(sent[b]), NEW p \in 0..Len(Hydrated(sent[b][f])), NEW handed \in Nat
    PROVE  LET first == Events(SubSeq(sent[b], 1, f - 1))
               before == OfferAll(Client, first)
           IN  /\ Offers(before, b, Len(first), handed)
               /\ Offers(OfferAll(before, SubSeq(Hydrated(sent[b][f]), 1, p)), b, Len(first) + p, handed)
<1> DEFINE E == Events(sent[b])
           first == Events(SubSeq(sent[b], 1, f - 1))
           rest == Hydrated(sent[b][f])
           some == SubSeq(rest, 1, p)
           before == OfferAll(Client, first)
           after == OfferAll(before, some)
<1>1. Ready /\ Offers(Client, b, 0, handed)
  BY ReadyNow
<1>2. /\ first \in Seq(EventRecords) /\ rest \in Seq(EventRecords)
      /\ Len(first) + Len(rest) <= Len(E)
      /\ \A q \in 1..Len(first) : first[q] = E[q]
      /\ \A j \in 1..Len(rest) : rest[j] = E[Len(first) + j]
  <2>1. sent[b] \in Seq(Frames)
    BY DEF BroadcastInv, ServerInv
  <2> QED
    BY <2>1, EventsPrefix
<1>3. E \in Seq(EventRecords)
  BY <1>1 DEF Ready, BatchesInOrder
<1>4. p \in 0..Len(rest)
  OBVIOUS
<1> HIDE DEF first, rest
<1>5. /\ Len(first) \in Nat /\ Len(rest) \in Nat /\ Len(E) \in Nat
  BY <1>2, <1>3
<1>6. some \in Seq(EventRecords) /\ Len(some) = p /\ \A j \in 1..p : some[j] = rest[j] /\ j \in 1..Len(rest)
  BY <1>2, <1>4, <1>5
<1> HIDE DEF some
<1>7. Offers(before, b, Len(first), handed)
  <2>1. /\ 0 + Len(first) <= Len(E) /\ 0 + Len(first) = Len(first)
        /\ \A j \in 1..Len(first) : first[j] = E[0 + j]
    <3>1. \A j \in 1..Len(first) : 0 + j = j
      OBVIOUS
    <3> HIDE DEF E
    <3> QED
      BY <1>2, <1>5, <3>1
  <2>2. Offers(before, b, 0 + Len(first), handed)
    BY <1>1, <1>2, <2>1, OfferAllKeeps
  <2> HIDE DEF before
  <2> QED
    BY <2>1, <2>2
<1> HIDE DEF before
<1>8. Offers(after, b, Len(first) + p, handed)
  <2>1. /\ Len(first) + Len(some) <= Len(E)
        /\ \A j \in 1..Len(some) : some[j] = E[Len(first) + j]
    <3> HIDE DEF E
    <3>1. Len(first) + Len(some) <= Len(E)
      BY <1>2, <1>4, <1>5, <1>6
    <3>2. \A j \in 1..p : some[j] = E[Len(first) + j]
      BY <1>2, <1>6
    <3> QED
      BY <1>6, <3>1, <3>2
  <2>2. Offers(after, b, Len(first) + Len(some), handed)
    BY <1>1, <1>5, <1>6, <1>7, <2>1, OfferAllKeeps
  <2> HIDE DEF after
  <2> QED
    BY <1>6, <2>2
<1> QED
  BY <1>7, <1>8 DEF before, some, first, rest

LEMMA FreshCount ==
    ASSUME NEW acc \in Clients
    PROVE  Len(acc.fresh) \in Nat
<1>1. acc.fresh \in Seq(EventRecords)
  BY DEF Clients
<1> QED
  BY <1>1

(* A batch that arrives is gone through to its end.                         *)
LEMMA DeliverOffers ==
    ASSUME BroadcastInv, NEW i \in 1..Len(sent), i <= received + 1, NEW handed \in Nat
    PROVE  Offers(OfferAll(Client, Events(sent[i])), i, Len(Events(sent[i])), handed)
<1> DEFINE E == Events(sent[i])
           acc == OfferAll(Client, E)
<1>1. Ready
  BY ReadyNow
<1>2. E \in Seq(EventRecords)
  BY <1>1 DEF Ready, BatchesInOrder
<1>3. /\ 0 + Len(E) <= Len(E) /\ 0 + Len(E) = Len(E)
      /\ \A j \in 1..Len(E) : E[j] = E[0 + j]
  <2> HIDE DEF E
  <2>1. \A j \in 1..Len(E) : 0 + j = j
    OBVIOUS
  <2> QED
    BY <1>2, <2>1
<1>4. Offers(Client, i, 0, handed)
  BY ReadyNow
<1>5. Offers(acc, i, 0 + Len(E), handed)
  BY <1>1, <1>2, <1>3, <1>4, OfferAllKeeps
<1>6. Offers(acc, i, Len(E), handed)
  <2> HIDE DEF acc, E
  <2> QED
    BY <1>3, <1>5
<1> QED
  BY <1>6

LEMMA DeliverStep ==
    ASSUME BroadcastInv, NEW i \in 1..Len(sent), Deliver(i)
    PROVE  BroadcastInv'
<1> DEFINE E == Events(sent[i])
           acc == OfferAll(Client, E)
<1>1. /\ i <= received + 1 /\ Apply(acc, Len(acc.fresh))
      /\ received' = IF i > received THEN i ELSE received
  BY DEF Deliver, Arrives
<1>2. Ready /\ received \in 0..Len(sent) /\ epoch \in Nat /\ Len(sent) \in Nat
  BY ReadyNow DEF BroadcastInv, Ready
<1>3. ASSUME NEW handed \in Nat PROVE Offers(acc, i, Len(E), handed)
  BY <1>1, DeliverOffers
<1>4. Len(acc.fresh) \in Nat
  <2>1. acc \in Clients
    BY <1>3 DEF Offers
  <2> QED
    BY <2>1, FreshCount
<1>5. /\ ServerInv' /\ sent' = sent /\ epoch' = epoch
      /\ ClientInv(log', ring', sent', received, epoch')
      /\ \A q \in 1..Len(E) : HeardKey(log', E[q])
  BY <1>1, <1>3, <1>4, ApplyKeeps
<1> HIDE DEF acc
<1>6. CASE i > received
  <2>1. received' = i /\ i = received + 1 /\ received \in Nat
    BY <1>1, <1>2, <1>6
  <2>2. ClientInv(log', ring', sent', received + 1, epoch')
    BY <1>5, <2>1, GotMore
  <2>3. received' \in 0..Len(sent') /\ epoch' \in Nat
    BY <1>2, <1>5, <2>1
  <2>4. ClientInv(log', ring', sent', received', epoch')
    BY <2>1, <2>2
  <2> QED
    BY <1>5, <2>3, <2>4 DEF BroadcastInv
<1>7. CASE ~(i > received)
  <2>1. received' = received
    BY <1>1, <1>7
  <2>2. received' \in 0..Len(sent') /\ epoch' \in Nat
    BY <1>2, <1>5, <2>1
  <2>3. ClientInv(log', ring', sent', received', epoch')
    BY <1>5, <2>1
  <2> QED
    BY <1>5, <2>2, <2>3 DEF BroadcastInv
<1> QED
  BY <1>6, <1>7

LEMMA AppliedInv ==
    ASSUME BroadcastInv, NEW b, NEW m, NEW handed, NEW acc, Offers(acc, b, m, handed),
           Apply(acc, handed), received' = received
    PROVE  BroadcastInv'
<1>1. /\ ServerInv' /\ sent' = sent /\ epoch' = epoch
      /\ ClientInv(log', ring', sent', received, epoch')
  BY ApplyKeeps
<1>2. received' \in 0..Len(sent') /\ epoch' \in Nat
  BY <1>1 DEF BroadcastInv
<1>3. ClientInv(log', ring', sent', received', epoch')
  BY <1>1
<1> QED
  BY <1>1, <1>2, <1>3 DEF BroadcastInv

LEMMA DeliverThrowsStep ==
    ASSUME BroadcastInv, NEW i \in 1..Len(sent), DeliverThrows(i)
    PROVE  BroadcastInv'
<1>1. i <= received + 1 /\ received' = received
  BY DEF DeliverThrows, Arrives
<1>2. PICK f \in 1..Len(sent[i]) :
         LET events == Hydrated(sent[i][f])
             before == OfferAll(Client, Events(SubSeq(sent[i], 1, f - 1)))
             after(p) == OfferAll(before, SubSeq(events, 1, p))
             whole == Len(before.fresh)
         IN  \/ \E p \in 1..Len(events) : Apply(after(p), whole)
             \/ \E h \in (whole + 1)..Len(after(Len(events)).fresh) :
                   Apply(after(Len(events)), h)
  BY Zenon DEF DeliverThrows
<1> DEFINE events == Hydrated(sent[i][f])
           first == Events(SubSeq(sent[i], 1, f - 1))
           before == OfferAll(Client, first)
           after(p) == OfferAll(before, SubSeq(events, 1, p))
           whole == Len(before.fresh)
<1>3. \/ \E p \in 1..Len(events) : Apply(after(p), whole)
      \/ \E h \in (whole + 1)..Len(after(Len(events)).fresh) : Apply(after(Len(events)), h)
  BY <1>2, Zenon
<1>4. Len(events) \in Nat
  <2>1. sent[i] \in Seq(Frames)
    BY DEF BroadcastInv, ServerInv
  <2>2. sent[i][f] \in Frames
    BY <2>1
  <2>3. events \in Seq(EventRecords)
    BY <2>2, HydratedOrder
  <2> QED
    BY <2>3
<1>5. ASSUME NEW p \in 0..Len(events), NEW handed \in Nat
      PROVE  Offers(before, i, Len(first), handed) /\ Offers(after(p), i, Len(first) + p, handed)
  BY <1>1, PartOfBatch
<1>6. whole \in Nat
  <2>1. 0 \in 0..Len(events)
    BY <1>4
  <2>2. before \in Clients
    BY <1>5, <2>1 DEF Offers
  <2> QED
    BY <2>2, FreshCount
<1> HIDE DEF first, before, events, after, whole
<1>7. CASE \E p \in 1..Len(events) : Apply(after(p), whole)
  <2>1. PICK p \in 1..Len(events) : Apply(after(p), whole)
    BY <1>7
  <2>2. p \in 0..Len(events)
    OBVIOUS
  <2>3. Offers(after(p), i, Len(first) + p, whole)
    BY <1>5, <1>6, <2>2
  <2> QED
    BY <1>1, <2>1, <2>3, AppliedInv
<1>8. CASE \E h \in (whole + 1)..Len(after(Len(events)).fresh) : Apply(after(Len(events)), h)
  <2> DEFINE n == Len(events)
  <2>1. PICK h \in (whole + 1)..Len(after(n).fresh) : Apply(after(n), h)
    BY <1>8
  <2>2. n \in 0..n /\ h \in Nat
    BY <1>4, <1>6
  <2>3. Offers(after(n), i, Len(first) + n, h)
    BY <1>5, <2>2
  <2> QED
    BY <1>1, <2>1, <2>3, AppliedInv
<1> QED
  BY <1>3, <1>7, <1>8

LEMMA DeliverDamagedStep ==
    ASSUME BroadcastInv, NEW i \in 1..Len(sent), DeliverDamaged(i)
    PROVE  BroadcastInv'
<1>1. i <= received + 1 /\ received' = received
  BY DEF DeliverDamaged, Arrives
<1>2. PICK f \in 1..Len(sent[i]) :
         LET before == OfferAll(Client, Events(SubSeq(sent[i], 1, f - 1)))
         IN  Apply(before, Len(before.fresh))
  BY Zenon DEF DeliverDamaged
<1> DEFINE first == Events(SubSeq(sent[i], 1, f - 1))
           before == OfferAll(Client, first)
<1>3. Apply(before, Len(before.fresh))
  BY <1>2, Zenon
<1>4. ASSUME NEW handed \in Nat PROVE Offers(before, i, Len(first), handed)
  <2>1. 0 \in 0..Len(Hydrated(sent[i][f]))
    <3>1. sent[i] \in Seq(Frames)
      BY DEF BroadcastInv, ServerInv
    <3>2. sent[i][f] \in Frames
      BY <3>1
    <3>3. Hydrated(sent[i][f]) \in Seq(EventRecords)
      BY <3>2, HydratedOrder
    <3> QED
      BY <3>3
  <2> QED
    BY <1>1, <2>1, PartOfBatch
<1>5. Len(before.fresh) \in Nat
  <2>1. before \in Clients
    BY <1>4 DEF Offers
  <2> QED
    BY <2>1, FreshCount
<1> HIDE DEF first, before
<1>6. Offers(before, i, Len(first), Len(before.fresh))
  BY <1>4, <1>5
<1> QED
  BY <1>1, <1>3, <1>6, AppliedInv

LEMMA ResetDeduperStep ==
    ASSUME BroadcastInv, ResetDeduper
    PROVE  BroadcastInv'
<1>1. /\ ring' = <<>> /\ epoch' = epoch + 1 /\ log' = log /\ received' = received
      /\ UNCHANGED <<config, serverVars>> /\ sent' = sent
  BY DEF ResetDeduper, serverVars
<1>2. ServerInv' /\ received' \in 0..Len(sent') /\ epoch' \in Nat /\ epoch \in Nat
  BY <1>1, ServerSame DEF BroadcastInv
<1>3. ClientInv(log, ring, sent, received, epoch)
  BY DEF BroadcastInv
<1>4. RingIsLast(log, <<>>, epoch + 1)
  <2>1. Len(<<>>) = 0 /\ 1..Len(<<>>) = {} /\ DeduperCapacity \in Nat /\ Len(log) \in Nat
    BY <1>3, BroadcastAssumption DEF ClientInv
  <2>2. \A k \in 1..Len(log) : log[k].epoch \in Nat /\ log[k].epoch <= epoch
    <3> TAKE k \in 1..Len(log)
    <3>1. log[k] \in Entries
      BY <1>3 DEF ClientInv
    <3> QED
      BY <1>3, <3>1 DEF ClientInv, RingIsLast, Entries
  <2>3. \A k \in 1..Len(log) : log[k].epoch # epoch + 1 /\ log[k].epoch <= epoch + 1
    BY <1>2, <2>2
  <2>4. Len(log) - Len(<<>>) = Len(log)
    BY <2>1
  <2> QED
    BY <2>1, <2>3, <2>4 DEF RingIsLast
<1>5. <<>> \in Seq(Keys)
  OBVIOUS
<1>6. ClientInv(log, <<>>, sent, received, epoch + 1)
  BY <1>3, <1>4, <1>5 DEF ClientInv
<1>7. ClientInv(log', ring', sent', received', epoch')
  BY <1>1, <1>6, Zenon
<1> QED
  BY <1>2, <1>7 DEF BroadcastInv

LEMMA BatcherStep ==
    ASSUME BroadcastInv, ServerFrame \/ ServerFlush
    PROVE  BroadcastInv'
<1>1. ServerInv
  BY DEF BroadcastInv
<1>2. ServerInv' /\ Extends(sent', sent)
  BY <1>1, ServerFrameKeeps, ServerFlushKeeps
<1>3. /\ received' = received /\ ring' = ring /\ log' = log /\ epoch' = epoch
  BY DEF ServerFrame, ServerFlush, clientVars
<1>4. /\ sent \in Seq(Seq(Frames)) /\ sent' \in Seq(Seq(Frames)) /\ BatchesInOrder(sent')
  <2>1. sent' \in Seq(Seq(Frames)) /\ FramesInOrder(sent', pendingFrames', serverStep')
    BY <1>2 DEF ServerInv
  <2>2. BatchesInOrder(sent')
    BY <2>1, OrderedBatches
  <2> QED
    BY <1>1, <2>1, <2>2 DEF ServerInv
<1>5. /\ received \in 0..Len(sent) /\ epoch \in Nat
      /\ ClientInv(log, ring, sent, received, epoch)
  BY DEF BroadcastInv
<1>6. ClientInv(log, ring, sent', received, epoch)
  BY <1>2, <1>4, <1>5, MoreBatches
<1>7. received' \in 0..Len(sent') /\ epoch' \in Nat
  BY <1>2, <1>3, <1>4, <1>5 DEF Extends
<1>8. ClientInv(log', ring', sent', received', epoch')
  BY <1>3, <1>6, Zenon
<1> QED
  BY <1>2, <1>7, <1>8 DEF BroadcastInv

LEMMA BroadcastInvInit == BroadcastInit => BroadcastInv
<1> SUFFICES ASSUME BroadcastInit PROVE BroadcastInv
  OBVIOUS
<1>1. /\ config \in Configs /\ serverStep = 0 /\ now = 0 /\ pendingFrames = <<>> /\ sent = <<>>
      /\ published = <<>> /\ received = 0 /\ ring = <<>> /\ log = <<>> /\ epoch = 0
  BY DEF BroadcastInit
<1>2. /\ Len(<<>>) = 0 /\ 1..0 = {} /\ \A T : <<>> \in Seq(T)
  OBVIOUS
<1>3. FramesInOrder(<<>>, <<>>, 0) /\ AllCovered(<<>>, <<>>, <<>>)
  BY <1>2 DEF FramesInOrder, AllCovered, StepsIncrease
<1>4. PendingNew /\ DelayKept
  BY <1>1, <1>2 DEF PendingNew, DelayKept
<1>5. ServerInv
  <2>1. FramesInOrder(sent, pendingFrames, serverStep) /\ AllCovered(sent, pendingFrames, published)
    BY <1>1, <1>3
  <2>2. serverStep \in Nat /\ now \in Nat
    BY <1>1
  <2>3. pendingFrames \in Seq(Frames) /\ sent \in Seq(Seq(Frames)) /\ published \in Seq(EventRecords)
    BY <1>1, <1>2, Zenon
  <2> QED
    BY <1>1, <1>4, <2>1, <2>2, <2>3 DEF ServerInv
<1>6. ClientInv(<<>>, <<>>, <<>>, 0, 0)
  <2>1. DeduperCapacity \in Nat
    BY BroadcastAssumption
  <2>2. RingIsLast(<<>>, <<>>, 0)
    <3>1. 0 - 0 = 0
      OBVIOUS
    <3> QED
      BY <1>2, <2>1, <3>1 DEF RingIsLast
  <2>3. /\ HeardLeads(<<>>, <<>>, 0) /\ HeardFromStart(<<>>, <<>>) /\ HeardBatches(<<>>, <<>>, 0)
        /\ InOrder(<<>>) /\ Once(<<>>)
    BY <1>2 DEF HeardLeads, HeardFromStart, HeardBatches, InOrder, Once
  <2> QED
    BY <1>2, <2>2, <2>3, Zenon DEF ClientInv
<1>7. ClientInv(log, ring, sent, received, epoch)
  BY <1>1, <1>6, Zenon
<1>8. received \in 0..Len(sent) /\ epoch \in Nat
  BY <1>1, <1>2
<1> QED
  BY <1>5, <1>7, <1>8 DEF BroadcastInv

LEMMA BroadcastInvStep == BroadcastInv /\ [BroadcastNext]_broadcastVars => BroadcastInv'
<1> SUFFICES ASSUME BroadcastInv, [BroadcastNext]_broadcastVars PROVE BroadcastInv'
  OBVIOUS
<1>1. CASE ServerFrame \/ ServerFlush
  BY <1>1, BatcherStep
<1>2. CASE \E i \in 1..Len(sent) : Deliver(i) \/ DeliverThrows(i) \/ DeliverDamaged(i)
  BY <1>2, DeliverStep, DeliverThrowsStep, DeliverDamagedStep
<1>3. CASE ResetDeduper
  BY <1>3, ResetDeduperStep
<1>4. CASE UNCHANGED broadcastVars
  <2>1. /\ UNCHANGED <<config, serverVars>> /\ sent' = sent /\ received' = received
        /\ ring' = ring /\ log' = log /\ epoch' = epoch
    BY <1>4 DEF broadcastVars, serverVars, clientVars
  <2>2. ServerInv'
    BY <2>1, ServerSame DEF BroadcastInv
  <2>3. /\ received \in 0..Len(sent) /\ epoch \in Nat
        /\ ClientInv(log, ring, sent, received, epoch)
    BY DEF BroadcastInv
  <2>4. received' \in 0..Len(sent') /\ epoch' \in Nat
    BY <2>1, <2>3
  <2>5. ClientInv(log', ring', sent', received', epoch')
    BY <2>1, <2>3, Zenon
  <2> QED
    BY <2>2, <2>4, <2>5 DEF BroadcastInv
<1> QED
  BY <1>1, <1>2, <1>3, <1>4 DEF BroadcastNext

LEMMA BroadcastInductive == BroadcastSpec => []BroadcastInv
BY BroadcastInvInit, BroadcastInvStep, PTL DEF BroadcastSpec

(* A handler is given an event again only after the deduper has recorded as *)
(* many others as it holds, or has been reset (shouldSkip, record).         *)
THEOREM HeardOnceCorrect == BroadcastSpec => []HeardOnce
<1>1. BroadcastInv => HeardOnce
  <2> SUFFICES ASSUME BroadcastInv PROVE HeardOnce
    OBVIOUS
  <2>1. Once(log)
    BY DEF BroadcastInv, ClientInv
  <2> QED
    BY <2>1, Zenon DEF Once, HeardOnce
<1> QED
  BY <1>1, BroadcastInductive, PTL

(* The events of one step, and those of different frames, reach the client  *)
(* for the first time in the order in which they were published             *)
(* (ingestFrame's priority flush, the sort of applyEventBroadcastFrame),    *)
(* however batches are replayed or cut short. Nothing is claimed of two     *)
(* steps of one batch: their events are sorted by dispatchOrder alone.      *)
THEOREM HeardInOrderCorrect == BroadcastSpec => []HeardInOrder
<1>1. BroadcastInv => HeardInOrder
  <2> SUFFICES ASSUME BroadcastInv, NEW j \in 1..Len(log), NEW k \in 1..Len(log), j < k,
                      PublishedBefore(log[k].event, log[j].event),
                      ~OneBatch(log[k].event, log[j].event)
               PROVE  HeardBefore(k, log[k].event)
    BY Zenon DEF HeardInOrder
  <2>1. InOrder(log)
    BY DEF BroadcastInv, ClientInv
  <2>2. log[j].event \in EventRecords /\ log[k].event \in EventRecords
    <3>1. log[j] \in Entries /\ log[k] \in Entries
      BY DEF BroadcastInv, ClientInv
    <3> QED
      BY <3>1 DEF Entries
  <2>3. SortedBefore(log[k].event, log[j].event)
    BY <2>2 DEF EventRecords, PublishedBefore, OneBatch, SortedBefore
  <2> QED
    BY <2>1, <2>3, Zenon DEF InOrder, HeardBefore
<1> QED
  BY <1>1, BroadcastInductive, PTL

(* No frame is left in the batcher for maxDelayMs when the server has come  *)
(* back to it (ingestFrame, shouldFlushByTime).                             *)
THEOREM DelayCorrect == BroadcastSpec => []DelayKept
<1>1. BroadcastInv => DelayKept
  BY DEF BroadcastInv, ServerInv
<1> QED
  BY <1>1, BroadcastInductive, PTL

(* Without a fault, what is recorded has been handed to the handlers.       *)
HandedInv ==
    /\ faults \in Nat
    /\ faults = 0 => \A k \in 1..Len(log) : log[k].handed

LEMMA HandedStep ==
    ASSUME BroadcastInv, HandedInv, [BroadcastNext]_broadcastVars
    PROVE  HandedInv'
<1>1. CASE ServerFrame \/ ServerFlush \/ UNCHANGED broadcastVars
  <2>1. UNCHANGED <<log, faults>>
    BY <1>1 DEF ServerFrame, ServerFlush, broadcastVars, clientVars
  <2> QED
    BY <2>1 DEF HandedInv
<1>2. CASE ResetDeduper \/ \E i \in 1..Len(sent) : DeliverThrows(i) \/ DeliverDamaged(i)
  <2>1. faults' = faults + 1
    BY <1>2 DEF ResetDeduper, DeliverThrows, DeliverDamaged
  <2> QED
    BY <2>1 DEF HandedInv
<1>3. ASSUME NEW i \in 1..Len(sent), Deliver(i) PROVE HandedInv'
  <2> DEFINE acc == OfferAll(Client, Events(sent[i]))
  <2>1. /\ i <= received + 1 /\ Apply(acc, Len(acc.fresh)) /\ faults' = faults
    BY <1>3 DEF Deliver, Arrives
  <2>2. acc \in Clients
    BY <2>1, DeliverOffers DEF Offers
  <2> HIDE DEF acc
  <2>3. acc.fresh \in Seq(EventRecords) /\ Len(acc.fresh) \in Nat
    BY <2>2, FreshCount DEF Clients
  <2> DEFINE N == Len(acc.fresh)
             new == [n \in 1..N |-> [event |-> acc.fresh[n], handed |-> n <= N, epoch |-> epoch]]
  <2>4. log' = log \o new
    BY <2>1 DEF Apply
  <2>5. log \in Seq(Entries)
    BY DEF BroadcastInv, ClientInv
  <2>6. \A n \in 1..N : new[n].handed
    <3> TAKE n \in 1..N
    <3>1. N \in Nat
      BY <2>3
    <3> HIDE DEF N
    <3>2. n <= N
      BY <3>1
    <3>3. (n <= N) = TRUE
      BY <3>2, Zenon
    <3>4. new[n].handed = (n <= N)
      BY Zenon
    <3> QED
      BY <3>3, <3>4, Zenon
  <2>7. new \in Seq(Entries) /\ Len(new) = N
    <3>1. ASSUME NEW n \in 1..N PROVE new[n] \in Entries
      <4>1. (n <= N) \in BOOLEAN /\ acc.fresh[n] \in EventRecords /\ epoch \in Nat
        BY <2>3 DEF BroadcastInv
      <4> QED
        BY <4>1 DEF Entries
    <3>2. new \in [1..N -> Entries]
      BY <3>1
    <3>3. N \in Nat
      BY <2>3
    <3> HIDE DEF N, new
    <3> QED
      BY <3>2, <3>3
  <2> HIDE DEF N, new
  <2>8. /\ Len(log') = Len(log) + N /\ Len(log) \in Nat /\ N \in Nat
        /\ \A k \in 1..(Len(log) + N) : log'[k] =
              IF k <= Len(log) THEN log[k] ELSE new[k - Len(log)]
    BY <2>4, <2>5, <2>7, ConcatProperties, LenProperties
  <2>9. ASSUME faults = 0, NEW k \in 1..Len(log') PROVE log'[k].handed
    <3>1. CASE k <= Len(log)
      <4>1. k \in 1..Len(log) /\ log'[k] = log[k]
        BY <2>8, <3>1
      <4> QED
        BY <2>9, <4>1 DEF HandedInv
    <3>2. CASE k > Len(log)
      <4>1. k - Len(log) \in 1..N /\ log'[k] = new[k - Len(log)]
        BY <2>8, <3>2
      <4> QED
        BY <2>6, <4>1
    <3> QED
      BY <2>8, <3>1, <3>2
  <2> QED
    BY <2>1, <2>9 DEF HandedInv
<1> QED
  BY <1>1, <1>2, <1>3 DEF BroadcastNext

LEMMA HandedInductive == BroadcastSpec => []HandedInv
<1>1. BroadcastInit => HandedInv
  <2> SUFFICES ASSUME BroadcastInit PROVE HandedInv
    OBVIOUS
  <2>1. faults = 0 /\ Len(log) = 0
    BY DEF BroadcastInit
  <2> QED
    BY <2>1 DEF HandedInv
<1> QED
  BY <1>1, HandedStep, BroadcastInductive, PTL DEF BroadcastSpec

(* Once the batcher is empty and every batch applied, the client has        *)
(* recorded each event the filter allows, or one that stands for it         *)
(* (coalesceBatchFrames, applyEventBroadcastBatch), and without a fault has *)
(* handed it on.                                                            *)
THEOREM NothingLostCorrect == BroadcastSpec => []NothingLost
<1>1. BroadcastInv /\ HandedInv => NothingLost
  <2> SUFFICES ASSUME BroadcastInv, HandedInv, pendingFrames = <<>>, received = Len(sent),
                      NEW i \in 1..Len(published), published[i].type \in config.filter
               PROVE  \E j \in 1..Len(log) :
                          Covers(log[j].event, published[i]) /\ (faults = 0 => log[j].handed)
    BY Zenon DEF NothingLost, Covers, CoversIn
  <2>1. /\ sent \in Seq(Seq(Frames)) /\ published \in Seq(EventRecords)
        /\ FramesInOrder(sent, pendingFrames, serverStep)
        /\ AllCovered(sent, pendingFrames, published)
    BY DEF BroadcastInv, ServerInv
  <2>2. log \in Seq(Entries) /\ HeardBatches(log, sent, received)
    BY DEF BroadcastInv, ClientInv
  <2>3. PICK b \in 1..Len(sent) : CoveredIn(published[i], sent[b])
    <3>1. ~CoveredIn(published[i], pendingFrames)
      <4>1. 1..Len(<<>>) = {}
        OBVIOUS
      <4> QED
        BY <4>1 DEF CoveredIn
    <3> QED
      BY <2>1, <3>1 DEF AllCovered
  <2>4. PICK f \in 1..Len(sent[b]) : \E j \in 1..Len(sent[b][f].events) :
           Covers(sent[b][f].events[j], published[i])
    BY <2>3 DEF CoveredIn
  <2>5. PICK j \in 1..Len(sent[b][f].events) : Covers(sent[b][f].events[j], published[i])
    BY <2>4
  <2> DEFINE d == sent[b][f].events[j]
  <2>6. sent[b] \in Seq(Frames) /\ StepsIncrease(sent[b]) /\ sent[b][f] \in Frames
    BY <2>1 DEF FramesInOrder
  <2>7. d \in EventRecords
    <3>1. sent[b][f].events \in Seq(EventRecords)
      BY <2>6, FrameFields
    <3> QED
      BY <3>1
  <2>8. PICK p \in 1..Len(Events(sent[b])) : Events(sent[b])[p] = d
    BY <2>6, EventsOrder
  <2>9. HeardKey(log, d)
    <3>1. b \in 1..received
      BY <2>1
    <3>2. HeardKey(log, Events(sent[b])[p])
      BY <2>2, <3>1 DEF HeardBatches
    <3> QED
      BY <2>8, <3>2
  <2>10. Covers(d, published[i]) /\ published[i] \in EventRecords
    BY <2>1, <2>5
  <2> HIDE DEF d
  <2>11. PICK k \in 1..Len(log) : Key(log[k].event) = Key(d)
    BY <2>9 DEF HeardKey
  <2>12. Covers(log[k].event, d)
    BY <2>11 DEF Covers, CoversIn
  <2>13. log[k].event \in EventRecords
    <3>1. log[k] \in Entries
      BY <2>2
    <3> QED
      BY <3>1 DEF Entries
  <2>14. Covers(log[k].event, published[i])
    BY <2>7, <2>10, <2>12, <2>13, CoversOn
  <2>15. faults = 0 => log[k].handed
    BY DEF HandedInv
  <2> QED
    BY <2>14, <2>15
<1> QED
  BY <1>1, BroadcastInductive, HandedInductive, PTL

-----------------------------------------------------------------------------
(* The event bus                                                            *)

Subscriptions == [id : Nat, active : BOOLEAN, late : BOOLEAN]
OutboundRecords == [tick : Nat, order : Nat]

BusTypes ==
    /\ step \in Nat /\ currentTick \in Nat /\ nextId \in Nat /\ dispatchCounter \in Nat
    /\ pc \in {"between", "running", "dispatching", "subscriber", "completed"}
    /\ internal \in [Channels -> Seq(Nat)]
    /\ outbound \in [Channels -> Seq(OutboundRecords)]
    /\ subscribers \in [Channels -> Seq(Subscriptions)]
    /\ cursors \in [Channels -> Nat]
    /\ serving \in Channels \cup {0} /\ position \in Nat
    /\ delivered \subseteq Nat \X Nat
    /\ lastServed \in Nat \cup {-1}

(* Where the cursors may stand, and what is being handed out.               *)
CursorsFit ==
    /\ \A c \in Channels : cursors[c] <= Len(internal[c])
    /\ serving # 0 =>
          /\ pc \in {"dispatching", "subscriber"}
          /\ cursors[serving] < Len(internal[serving])
          /\ lastServed = EventAt(serving)
    /\ pc = "subscriber" => serving # 0
    /\ pc \in {"running", "completed"} => cursors = Zero
    /\ pc = "completed" => internal = NoEvents

(* A buffer has the events of its channel as they were numbered; no two     *)
(* channels share one; what was handed out last is before all that waits.   *)
BuffersInOrder ==
    /\ lastServed < dispatchCounter
    /\ \A c \in Channels : \A i \in 1..Len(internal[c]) :
          /\ internal[c][i] < dispatchCounter
          /\ \A j \in 1..Len(internal[c]) : i < j => internal[c][i] < internal[c][j]
          /\ \A d \in Channels : \A j \in 1..Len(internal[d]) :
                internal[c][i] = internal[d][j] => c = d
    /\ \A c \in Channels : \A i \in 1..Len(internal[c]) :
          i > cursors[c] /\ ~(serving = c /\ i = cursors[c] + 1) => lastServed < internal[c][i]

SubscriptionsNamed ==
    \A c \in Channels : \A i \in 1..Len(subscribers[c]) :
        /\ subscribers[c][i].id < nextId
        /\ \A j \in 1..Len(subscribers[c]) :
              i < j => subscribers[c][i].id < subscribers[c][j].id

(* Outbound events of earlier steps of the batch do not bear its tick.      *)
TicksRight ==
    /\ \A c \in Channels : \A i \in 1..Len(outbound[c]) : outbound[c][i].tick <= currentTick
    /\ pc \in {"running", "dispatching", "subscriber"} => step = currentTick
    /\ pc = "completed" => step = currentTick + 1

(* Who has heard the event being handed out stands before the position.     *)
DeliveredOnce ==
    \A p \in delivered :
        /\ p[1] <= lastServed
        /\ serving # 0 /\ p[1] = lastServed =>
              \E j \in 1..Len(subscribers[serving]) :
                  j <= position /\ p[2] = subscribers[serving][j].id

(* The first n subscribers of channel c that were there when the tick began *)
(* and still are have heard the event.                                      *)
HeardUpTo(c, order, n) ==
    \A j \in 1..Len(subscribers[c]) :
        j <= n /\ subscribers[c][j].active /\ ~subscribers[c][j].late =>
            <<order, subscribers[c][j].id>> \in delivered

Waits(c, order) ==
    \E k \in 1..Len(internal[c]) : k > cursors[c] /\ internal[c][k] = order

(* An event of this tick waits in its buffer or has been heard by all; the  *)
(* one being handed out, by those before the position.                      *)
HeardSoFar ==
    /\ pc # "between" =>
          \A c \in Channels : \A i \in 1..Len(outbound[c]) :
              outbound[c][i].tick = currentTick =>
                  \/ Waits(c, outbound[c][i].order)
                  \/ HeardUpTo(c, outbound[c][i].order, Len(subscribers[c]))
    /\ serving # 0 =>
          /\ position <= Len(subscribers[serving])
          /\ HeardUpTo(serving, lastServed, position)

BusInv ==
    /\ BusTypes /\ CursorsFit /\ BuffersInOrder /\ SubscriptionsNamed /\ TicksRight
    /\ DeliveredOnce /\ HeardSoFar

LEMMA BusInvInit == BusInit => BusInv
<1> SUFFICES ASSUME BusInit PROVE BusInv
  OBVIOUS
<1>0. Len(<<>>) = 0 /\ 1..0 = {} /\ \A X : <<>> \in Seq(X)
  OBVIOUS
<1>1. \A c \in Channels : internal[c] = <<>> /\ outbound[c] = <<>> /\ subscribers[c] = <<>> /\ cursors[c] = 0
  BY Zenon DEF BusInit, NoEvents, Zero
<1>2. BusTypes
  <2>1. internal \in [Channels -> Seq(Nat)] /\ outbound \in [Channels -> Seq(OutboundRecords)]
        /\ subscribers \in [Channels -> Seq(Subscriptions)] /\ cursors \in [Channels -> Nat]
    BY <1>0 DEF BusInit, NoEvents, Zero
  <2> QED
    BY <2>1 DEF BusInit, BusTypes
<1>3. CursorsFit
  BY <1>0, <1>1 DEF BusInit, CursorsFit
<1>4. BuffersInOrder
  BY <1>0, <1>1 DEF BusInit, BuffersInOrder
<1>5. SubscriptionsNamed /\ TicksRight /\ DeliveredOnce /\ HeardSoFar
  BY <1>0, <1>1 DEF BusInit, SubscriptionsNamed, TicksRight, DeliveredOnce, HeardSoFar
<1> QED
  BY <1>2, <1>3, <1>4, <1>5 DEF BusInv

(* What beginTick leaves of a list of subscribers.                          *)
Named(list, n) ==
    \A i \in 1..Len(list) :
        /\ list[i].id < n
        /\ \A j \in 1..Len(list) : i < j => list[i].id < list[j].id

LEMMA CompactedNamed ==
    ASSUME NEW list \in Seq(Subscriptions), NEW n \in Nat, Named(list, n)
    PROVE  Compacted(list) \in Seq(Subscriptions) /\ Named(Compacted(list), n)
<1> DEFINE S == {s \in Range(list) : s.active}
           kept == Select(list, S)
           to == Compacted(list)
<1>1. kept \in Seq(Subscriptions) /\ \E at : Picks(at, list, S, kept)
  BY SelectOrder
<1>2. PICK at : Picks(at, list, S, kept)
  BY <1>1
<1>3. to = [i \in 1..Len(kept) |-> [kept[i] EXCEPT !.late = FALSE]]
  BY DEF Compacted, Active
<1> HIDE DEF S, kept, to
<1>4. Len(kept) \in Nat /\ \A i \in 1..Len(kept) : kept[i] \in Subscriptions
  BY <1>1
<1>5. \A i \in 1..Len(kept) : [kept[i] EXCEPT !.late = FALSE] \in Subscriptions
                              /\ [kept[i] EXCEPT !.late = FALSE].id = kept[i].id
  <2> TAKE i \in 1..Len(kept)
  <2> DEFINE s == kept[i]
  <2>1. s \in Subscriptions
    BY <1>4
  <2> HIDE DEF s
  <2>2. [s EXCEPT !.late = FALSE] \in Subscriptions /\ [s EXCEPT !.late = FALSE].id = s.id
    BY <2>1 DEF Subscriptions
  <2> QED
    BY <2>2 DEF s
<1>6. to \in Seq(Subscriptions) /\ Len(to) = Len(kept) /\ \A i \in 1..Len(kept) : to[i].id = kept[i].id
  <2> DEFINE F(i) == [kept[i] EXCEPT !.late = FALSE]
  <2>1. to = [i \in 1..Len(kept) |-> F(i)] /\ \A i \in 1..Len(kept) : F(i) \in Subscriptions /\ F(i).id = kept[i].id
    BY <1>3, <1>5
  <2> HIDE DEF F
  <2>2. to \in [1..Len(kept) -> Subscriptions] /\ \A i \in 1..Len(kept) : to[i] = F(i)
    BY <2>1, Zenon
  <2> QED
    BY <1>4, <2>1, <2>2
<1>7. \A i \in 1..Len(kept) : at[i] \in 1..Len(list) /\ to[i].id = list[at[i]].id
  BY <1>2, <1>6 DEF Picks
<1>8. Named(to, n)
  <2> SUFFICES ASSUME NEW i \in 1..Len(to)
               PROVE  /\ to[i].id < n
                      /\ \A j \in 1..Len(to) : i < j => to[i].id < to[j].id
    BY DEF Named
  <2>1. to[i].id < n
    BY <1>6, <1>7 DEF Named
  <2>2. ASSUME NEW j \in 1..Len(to), i < j PROVE to[i].id < to[j].id
    <3>1. at[i] < at[j]
      BY <1>2, <1>6, <2>2 DEF Picks
    <3> QED
      BY <1>6, <1>7, <2>2, <3>1 DEF Named
  <2> QED
    BY <2>1, <2>2
<1> QED
  BY <1>6, <1>8 DEF to

(* beginTick.                                                               *)
LEMMA BeginTickKeeps ==
    ASSUME BusInv, NEW reset, BeginTick(reset), reset \/ pc = "completed"
    PROVE  BusInv'
<1>0. Len(<<>>) = 0 /\ 1..0 = {} /\ \A X : <<>> \in Seq(X)
  OBVIOUS
<1>1. BusTypes /\ CursorsFit /\ BuffersInOrder /\ SubscriptionsNamed /\ TicksRight
  BY DEF BusInv
<1>2. /\ \A c \in Channels : internal'[c] = <<>> /\ cursors'[c] = 0
      /\ currentTick' = step /\ dispatchCounter' = 0 /\ serving' = 0 /\ position' = 0
      /\ delivered' = {} /\ lastServed' = -1 /\ pc' = "running" /\ step' = step /\ nextId' = nextId
  BY Zenon DEF BeginTick, NoEvents, Zero
<1>3. \A c \in Channels : subscribers'[c] \in Seq(Subscriptions) /\ Named(subscribers'[c], nextId)
  <2> TAKE c \in Channels
  <2>1. subscribers[c] \in Seq(Subscriptions) /\ nextId \in Nat
    BY <1>1 DEF BusTypes
  <2>2. Named(subscribers[c], nextId)
    BY <1>1, Zenon DEF SubscriptionsNamed, Named
  <2>3. subscribers'[c] = Compacted(subscribers[c])
    BY Zenon DEF BeginTick
  <2> QED
    BY <2>1, <2>2, <2>3, CompactedNamed
<1>4. \A c \in Channels : outbound'[c] \in Seq(OutboundRecords)
                          /\ \A i \in 1..Len(outbound'[c]) : outbound'[c][i].tick < step
  <2> TAKE c \in Channels
  <2>1. CASE reset
    <3>1. outbound'[c] = <<>>
      BY <2>1, Zenon DEF BeginTick, NoEvents
    <3> QED
      BY <1>0, <3>1
  <2>2. CASE ~reset
    <3>1. outbound' = outbound /\ pc = "completed"
      BY <2>2 DEF BeginTick
    <3>2. step = currentTick + 1 /\ currentTick \in Nat /\ outbound[c] \in Seq(OutboundRecords)
      BY <1>1, <3>1 DEF TicksRight, BusTypes
    <3>3. \A i \in 1..Len(outbound[c]) : outbound[c][i].tick <= currentTick /\ outbound[c][i].tick \in Nat
      <4> TAKE i \in 1..Len(outbound[c])
      <4>1. outbound[c][i] \in OutboundRecords
        BY <3>2
      <4>2. outbound[c][i].tick \in Nat
        BY <4>1 DEF OutboundRecords
      <4> QED
        BY <1>1, <4>2, Zenon DEF TicksRight
    <3> QED
      BY <3>1, <3>2, <3>3
  <2> QED
    BY <2>1, <2>2
<1>5. BusTypes'
  <2>1. /\ internal' = NoEvents /\ cursors' = Zero
        /\ subscribers' = [c \in Channels |-> Compacted(subscribers[c])]
        /\ outbound' = IF reset THEN NoEvents ELSE outbound
    BY DEF BeginTick
  <2>2. internal' \in [Channels -> Seq(Nat)] /\ cursors' \in [Channels -> Nat]
    BY <1>0, <2>1 DEF NoEvents, Zero
  <2>3. subscribers' \in [Channels -> Seq(Subscriptions)]
    BY <1>3, <2>1
  <2>4. outbound' \in [Channels -> Seq(OutboundRecords)]
    <3>1. outbound' = [c \in Channels |-> outbound'[c]]
      BY <1>1, <2>1 DEF BusTypes, NoEvents
    <3> QED
      BY <1>4, <3>1
  <2> QED
    BY <1>1, <1>2, <2>2, <2>3, <2>4 DEF BusTypes
<1>6. CursorsFit'
  <2>1. cursors' = Zero
    BY DEF BeginTick
  <2>2. \A c \in Channels : cursors'[c] <= Len(internal'[c])
    BY <1>0, <1>2
  <2> QED
    BY <1>2, <2>1, <2>2 DEF CursorsFit, Zero
<1>7. BuffersInOrder'
  BY <1>0, <1>2 DEF BuffersInOrder
<1>8. SubscriptionsNamed'
  BY <1>2, <1>3, Zenon DEF SubscriptionsNamed, Named
<1>9. TicksRight'
  <2>1. \A c \in Channels : \A i \in 1..Len(outbound'[c]) : outbound'[c][i].tick <= currentTick'
    <3> TAKE c \in Channels
    <3> TAKE i \in 1..Len(outbound'[c])
    <3>1. outbound'[c][i] \in OutboundRecords /\ outbound'[c][i].tick < step
      BY <1>4
    <3>2. outbound'[c][i].tick \in Nat /\ step \in Nat
      BY <1>1, <3>1 DEF OutboundRecords, BusTypes
    <3> QED
      BY <1>2, <3>1, <3>2
  <2> QED
    BY <1>2, <2>1 DEF TicksRight
<1>10. DeliveredOnce'
  BY <1>2 DEF DeliveredOnce
<1>11. HeardSoFar'
  <2>1. \A c \in Channels : \A i \in 1..Len(outbound'[c]) : outbound'[c][i].tick # currentTick'
    <3> TAKE c \in Channels
    <3> TAKE i \in 1..Len(outbound'[c])
    <3>1. outbound'[c][i].tick < step /\ step \in Nat
      BY <1>1, <1>4 DEF BusTypes
    <3> QED
      BY <1>2, <3>1
  <2> QED
    BY <1>2, <2>1 DEF HeardSoFar
<1> QED
  BY <1>5, <1>6, <1>7, <1>8, <1>9, <1>10, <1>11 DEF BusInv

(* A batch ends, a dispatch starts, a subscriber returns.                   *)
LEMMA PhaseKeeps ==
    ASSUME BusInv, EndBatch \/ StartDispatch \/ SubscriberReturns
    PROVE  BusInv'
<1>1. /\ \/ pc = "completed" /\ pc' = "between"
         \/ pc = "running" /\ pc' = "dispatching"
         \/ pc = "subscriber" /\ pc' = "dispatching"
      /\ UNCHANGED <<bufferVars, dispatchVars, subscriberVars, tickVars>>
  BY DEF EndBatch, StartDispatch, SubscriberReturns
<1>2. UNCHANGED <<internal, outbound, dispatchCounter, cursors, serving, position, delivered,
                  lastServed, subscribers, nextId, step, currentTick>>
  BY <1>1 DEF bufferVars, dispatchVars, subscriberVars, tickVars
<1> USE DEF BusInv
<1>3. BusTypes' /\ SubscriptionsNamed' /\ TicksRight' /\ DeliveredOnce'
  BY <1>1, <1>2 DEF BusTypes, SubscriptionsNamed, TicksRight, DeliveredOnce
<1>4. CursorsFit'
  BY <1>1, <1>2 DEF CursorsFit, EventAt
<1>5. BuffersInOrder'
  BY <1>1, <1>2 DEF BuffersInOrder
<1>6. HeardSoFar'
  <2>1. /\ \A c, order, n : HeardUpTo(c, order, n)' <=> HeardUpTo(c, order, n)
        /\ \A c, order : Waits(c, order)' <=> Waits(c, order)
    BY <1>2 DEF HeardUpTo, Waits
  <2> QED
    BY <1>1, <1>2, <2>1 DEF HeardSoFar
<1> QED
  BY <1>3, <1>4, <1>5, <1>6

(* publish.                                                                 *)
LEMMA PublishKeeps ==
    ASSUME BusInv, NEW c \in Channels, Publish(c)
    PROVE  BusInv'
<1>1. BusTypes /\ CursorsFit /\ BuffersInOrder /\ SubscriptionsNamed /\ TicksRight
      /\ DeliveredOnce /\ HeardSoFar
  BY DEF BusInv
<1> DEFINE n == dispatchCounter
           out == [tick |-> currentTick, order |-> n]
<1>2. /\ internal' = [internal EXCEPT ![c] = Append(@, n)]
      /\ outbound' = [outbound EXCEPT ![c] = Append(@, out)]
      /\ dispatchCounter' = n + 1 /\ pc \in {"between", "running", "subscriber"} /\ pc' = pc
      /\ UNCHANGED <<cursors, serving, position, delivered, lastServed, subscribers, nextId,
                     step, currentTick>>
  BY DEF Publish, MayCall, dispatchVars, subscriberVars, tickVars
<1>3. /\ internal \in [Channels -> Seq(Nat)] /\ outbound \in [Channels -> Seq(OutboundRecords)]
      /\ n \in Nat /\ currentTick \in Nat /\ cursors \in [Channels -> Nat]
      /\ out \in OutboundRecords /\ out.tick = currentTick /\ out.order = n
  BY <1>1 DEF BusTypes, OutboundRecords
<1> HIDE DEF n, out
<1>4. /\ internal'[c] = Append(internal[c], n) /\ internal[c] \in Seq(Nat)
      /\ outbound'[c] = Append(outbound[c], out) /\ outbound[c] \in Seq(OutboundRecords)
      /\ \A d \in Channels : d # c => internal'[d] = internal[d] /\ outbound'[d] = outbound[d]
  BY <1>2, <1>3
<1> DEFINE L == Len(internal[c])
           M == Len(outbound[c])
<1>5. /\ L \in Nat /\ Len(internal'[c]) = L + 1 /\ internal'[c][L + 1] = n
      /\ \A i \in 1..L : internal'[c][i] = internal[c][i]
      /\ \A i \in 1..(L + 1) : i \in 1..L \/ i = L + 1
  BY <1>4
<1>6. /\ M \in Nat /\ Len(outbound'[c]) = M + 1 /\ outbound'[c][M + 1] = out
      /\ \A i \in 1..M : outbound'[c][i] = outbound[c][i]
      /\ \A i \in 1..(M + 1) : i \in 1..M \/ i = M + 1
  BY <1>4
<1>7. \A d \in Channels : /\ Len(internal[d]) \in Nat /\ Len(internal'[d]) \in Nat
                          /\ Len(internal[d]) <= Len(internal'[d])
                          /\ \A i \in 1..Len(internal[d]) : /\ i \in 1..Len(internal'[d])
                                                            /\ internal'[d][i] = internal[d][i]
                          /\ \A i \in 1..Len(internal'[d]) :
                                i \in 1..Len(internal[d]) \/ (d = c /\ i = L + 1 /\ internal'[d][i] = n)
  <2> TAKE d \in Channels
  <2>1. CASE d = c
    BY <1>5, <2>1
  <2>2. CASE d # c
    BY <1>3, <1>4, <2>2
  <2> QED
    BY <2>1, <2>2
<1>8. \A d \in Channels : \A i \in 1..Len(internal[d]) : internal[d][i] \in Nat /\ internal[d][i] < n
  <2> TAKE d \in Channels
  <2> TAKE i \in 1..Len(internal[d])
  <2>1. internal[d] \in Seq(Nat)
    BY <1>3
  <2> QED
    BY <1>1, <2>1 DEF BuffersInOrder, n
<1>9. serving # 0 => serving \in Channels /\ EventAt(serving)' = EventAt(serving)
                     /\ cursors[serving] + 1 \in 1..Len(internal[serving])
  <2> SUFFICES ASSUME serving # 0
               PROVE  serving \in Channels /\ EventAt(serving)' = EventAt(serving)
                      /\ cursors[serving] + 1 \in 1..Len(internal[serving])
    OBVIOUS
  <2>1. serving \in Channels
    BY <1>1 DEF BusTypes
  <2>2. cursors[serving] < Len(internal[serving]) /\ cursors[serving] \in Nat /\ Len(internal[serving]) \in Nat
    BY <1>1, <1>3, <1>7, <2>1 DEF CursorsFit
  <2>3. cursors[serving] + 1 \in 1..Len(internal[serving])
    BY <2>2
  <2> QED
    BY <1>2, <1>7, <2>1, <2>3 DEF EventAt
<1> HIDE DEF L, M
<1>10. BusTypes'
  <2>1. internal' \in [Channels -> Seq(Nat)] /\ outbound' \in [Channels -> Seq(OutboundRecords)]
    BY <1>2, <1>3
  <2>2. dispatchCounter' \in Nat
    BY <1>2, <1>3
  <2> QED
    BY <1>1, <1>2, <2>1, <2>2 DEF BusTypes
<1>11. CursorsFit'
  <2>1. \A d \in Channels : cursors'[d] <= Len(internal'[d])
    BY <1>1, <1>2, <1>3, <1>7 DEF CursorsFit
  <2>2. serving # 0 => cursors[serving] < Len(internal'[serving]) /\ lastServed = EventAt(serving)'
    BY <1>1, <1>3, <1>7, <1>9 DEF CursorsFit
  <2>3. pc # "completed"
    BY <1>2
  <2> QED
    BY <1>1, <1>2, <2>1, <2>2, <2>3 DEF CursorsFit
<1>12. BuffersInOrder'
  <2>1. lastServed' < dispatchCounter'
    BY <1>1, <1>2, <1>3 DEF BuffersInOrder, BusTypes, n
  <2>2. ASSUME NEW d \in Channels, NEW i \in 1..Len(internal'[d])
        PROVE  /\ internal'[d][i] < dispatchCounter'
               /\ \A j \in 1..Len(internal'[d]) : i < j => internal'[d][i] < internal'[d][j]
    <3>1. CASE i \in 1..Len(internal[d])
      <4>1. internal'[d][i] = internal[d][i] /\ internal[d][i] < n /\ internal[d][i] \in Nat
        BY <1>7, <1>8, <3>1
      <4>2. ASSUME NEW j \in 1..Len(internal'[d]), i < j PROVE internal'[d][i] < internal'[d][j]
        <5>1. CASE j \in 1..Len(internal[d])
          BY <1>1, <1>7, <3>1, <4>1, <4>2, <5>1 DEF BuffersInOrder
        <5>2. CASE j \notin 1..Len(internal[d])
          BY <1>7, <4>1, <5>2
        <5> QED
          BY <5>1, <5>2
      <4>3. internal'[d][i] < dispatchCounter'
        BY <1>2, <1>3, <4>1
      <4> QED
        BY <4>2, <4>3
    <3>2. CASE i \notin 1..Len(internal[d])
      <4>1. d = c /\ i = L + 1 /\ internal'[d][i] = n
        BY <1>7, <3>2
      <4>2. Len(internal'[d]) = L + 1 /\ L \in Nat
        BY <1>5, <4>1 DEF L
      <4> QED
        BY <1>2, <1>3, <4>1, <4>2
    <3> QED
      BY <3>1, <3>2
  <2>3. ASSUME NEW d \in Channels, NEW i \in 1..Len(internal'[d]),
               NEW e \in Channels, NEW j \in 1..Len(internal'[e]),
               internal'[d][i] = internal'[e][j]
        PROVE  d = e
    <3>1. CASE i \in 1..Len(internal[d]) /\ j \in 1..Len(internal[e])
      BY <1>1, <1>7, <2>3, <3>1 DEF BuffersInOrder
    <3>2. CASE i \in 1..Len(internal[d]) /\ j \notin 1..Len(internal[e])
      <4>1. internal'[d][i] < n /\ internal'[d][i] \in Nat
        BY <1>7, <1>8, <3>2
      <4>2. internal'[e][j] = n
        BY <1>7, <3>2
      <4> QED
        BY <1>3, <2>3, <4>1, <4>2
    <3>3. CASE i \notin 1..Len(internal[d]) /\ j \in 1..Len(internal[e])
      <4>1. internal'[e][j] < n /\ internal'[e][j] \in Nat
        BY <1>7, <1>8, <3>3
      <4>2. internal'[d][i] = n
        BY <1>7, <3>3
      <4> QED
        BY <1>3, <2>3, <4>1, <4>2
    <3>4. CASE i \notin 1..Len(internal[d]) /\ j \notin 1..Len(internal[e])
      BY <1>7, <3>4
    <3> QED
      BY <3>1, <3>2, <3>3, <3>4
  <2>4. ASSUME NEW d \in Channels, NEW i \in 1..Len(internal'[d]), i > cursors[d],
               ~(serving = d /\ i = cursors[d] + 1)
        PROVE  lastServed < internal'[d][i]
    <3>1. CASE i \in 1..Len(internal[d])
      BY <1>1, <1>7, <2>4, <3>1 DEF BuffersInOrder
    <3>2. CASE i \notin 1..Len(internal[d])
      <4>1. internal'[d][i] = n
        BY <1>7, <3>2
      <4> QED
        BY <1>1, <4>1 DEF BuffersInOrder, n
    <3> QED
      BY <3>1, <3>2
  <2> QED
    BY <1>2, <2>1, <2>2, <2>3, <2>4, Zenon DEF BuffersInOrder
<1>13. SubscriptionsNamed' /\ DeliveredOnce'
  BY <1>1, <1>2 DEF SubscriptionsNamed, DeliveredOnce
<1>14. \A d \in Channels : \A i \in 1..Len(outbound'[d]) :
          \/ i \in 1..Len(outbound[d]) /\ outbound'[d][i] = outbound[d][i]
          \/ d = c /\ outbound'[d][i] = out
  <2> TAKE d \in Channels
  <2>1. CASE d = c
    BY <1>6, <2>1 DEF M
  <2>2. CASE d # c
    BY <1>4, <2>2
  <2> QED
    BY <2>1, <2>2
<1>15. TicksRight'
  <2>1. \A d \in Channels : \A i \in 1..Len(outbound'[d]) : outbound'[d][i].tick <= currentTick
    <3> TAKE d \in Channels
    <3> TAKE i \in 1..Len(outbound'[d])
    <3>1. CASE i \in 1..Len(outbound[d]) /\ outbound'[d][i] = outbound[d][i]
      BY <1>1, <3>1 DEF TicksRight
    <3>2. CASE outbound'[d][i] = out
      BY <1>3, <3>2
    <3> QED
      BY <1>14, <3>1, <3>2
  <2> QED
    BY <1>1, <1>2, <2>1 DEF TicksRight
<1>16. HeardSoFar'
  <2>1. \A d, order, m : HeardUpTo(d, order, m)' <=> HeardUpTo(d, order, m)
    BY <1>2 DEF HeardUpTo
  <2>2. \A d \in Channels : \A order : Waits(d, order) => Waits(d, order)'
    BY <1>2, <1>7 DEF Waits
  <2>3. ASSUME NEW o, o = n PROVE Waits(c, o)'
    <3>1. L + 1 \in 1..Len(internal'[c]) /\ L + 1 > cursors[c]
      BY <1>1, <1>3, <1>5 DEF CursorsFit, L
    <3> QED
      BY <1>2, <1>5, <2>3, <3>1 DEF Waits, L
  <2>4. ASSUME pc # "between", NEW d \in Channels, NEW i \in 1..Len(outbound'[d]),
               outbound'[d][i].tick = currentTick, NEW o, o = outbound'[d][i].order
        PROVE  Waits(d, o)' \/ HeardUpTo(d, o, Len(subscribers[d]))
    <3>1. CASE i \in 1..Len(outbound[d]) /\ outbound'[d][i] = outbound[d][i]
      <4>1. o = outbound[d][i].order /\ outbound[d][i].tick = currentTick
        BY <2>4, <3>1
      <4>2. Waits(d, o) \/ HeardUpTo(d, o, Len(subscribers[d]))
        BY <1>1, <2>4, <3>1, <4>1 DEF HeardSoFar
      <4> QED
        BY <2>2, <4>2
    <3>2. CASE d = c /\ outbound'[d][i] = out
      BY <1>3, <2>3, <2>4, <3>2
    <3> QED
      BY <1>14, <3>1, <3>2
  <2>5. serving # 0 => position <= Len(subscribers[serving]) /\ HeardUpTo(serving, lastServed, position)
    BY <1>1 DEF HeardSoFar
  <2> QED
    BY <1>2, <2>1, <2>4, <2>5 DEF HeardSoFar
<1> QED
  BY <1>10, <1>11, <1>12, <1>13, <1>15, <1>16 DEF BusInv

(* A publish that throws: a number is taken, or publishing is blocked.      *)
LEMMA RefusalKeeps ==
    ASSUME BusInv, NEW c \in Channels, PublishInvalid(c) \/ PublishOverflows(c)
    PROVE  BusInv'
<1>1. BusTypes /\ CursorsFit /\ BuffersInOrder /\ SubscriptionsNamed /\ TicksRight
      /\ DeliveredOnce /\ HeardSoFar
  BY DEF BusInv
<1>2. /\ dispatchCounter' \in {dispatchCounter, dispatchCounter + 1}
      /\ UNCHANGED <<pc, internal, outbound, cursors, serving, position, delivered, lastServed,
                     subscribers, nextId, step, currentTick>>
  BY DEF PublishInvalid, PublishOverflows, dispatchVars, subscriberVars, tickVars
<1>3. dispatchCounter \in Nat /\ dispatchCounter' \in Nat /\ dispatchCounter <= dispatchCounter'
  BY <1>1, <1>2 DEF BusTypes
<1>4. BusTypes' /\ SubscriptionsNamed' /\ TicksRight' /\ DeliveredOnce'
  BY <1>1, <1>2, <1>3 DEF BusTypes, SubscriptionsNamed, TicksRight, DeliveredOnce
<1>5. CursorsFit'
  BY <1>1, <1>2 DEF CursorsFit, EventAt
<1>6. BuffersInOrder'
  <2>1. lastServed < dispatchCounter'
    BY <1>1, <1>3 DEF BuffersInOrder, BusTypes
  <2>2. \A d \in Channels : \A i \in 1..Len(internal[d]) : internal[d][i] < dispatchCounter'
    <3> TAKE d \in Channels
    <3> TAKE i \in 1..Len(internal[d])
    <3>1. internal[d] \in Seq(Nat)
      BY <1>1 DEF BusTypes
    <3>2. internal[d][i] < dispatchCounter /\ internal[d][i] \in Nat
      BY <1>1, <3>1 DEF BuffersInOrder
    <3> QED
      BY <1>3, <3>2
  <2> QED
    BY <1>1, <1>2, <2>1, <2>2 DEF BuffersInOrder
<1>7. HeardSoFar'
  <2>1. /\ \A d, order, n : HeardUpTo(d, order, n)' <=> HeardUpTo(d, order, n)
        /\ \A d, order : Waits(d, order)' <=> Waits(d, order)
    BY <1>2 DEF HeardUpTo, Waits
  <2> QED
    BY <1>1, <1>2, <2>1 DEF HeardSoFar
<1> QED
  BY <1>4, <1>5, <1>6, <1>7 DEF BusInv

(* Of whoever has heard an event and of who is there, a list of subscribers *)
(* that only loses members or gets late ones keeps what the invariant says. *)
LEMMA SubscribersKeep ==
    ASSUME BusInv, nextId' \in Nat, nextId <= nextId',
           subscribers' \in [Channels -> Seq(Subscriptions)], SubscriptionsNamed',
           \A d \in Channels :
              /\ Len(subscribers[d]) <= Len(subscribers'[d])
              /\ \A j \in 1..Len(subscribers[d]) : subscribers'[d][j].id = subscribers[d][j].id
              /\ \A j \in 1..Len(subscribers'[d]) :
                    subscribers'[d][j].active /\ ~subscribers'[d][j].late =>
                        /\ j \in 1..Len(subscribers[d])
                        /\ subscribers[d][j].active /\ ~subscribers[d][j].late,
           UNCHANGED <<pc, internal, outbound, dispatchCounter, cursors, serving, position,
                       delivered, lastServed, step, currentTick>>
    PROVE  BusInv'
<1>1. BusTypes /\ CursorsFit /\ BuffersInOrder /\ SubscriptionsNamed /\ TicksRight
      /\ DeliveredOnce /\ HeardSoFar
  BY DEF BusInv
<1>2. BusTypes'
  BY <1>1 DEF BusTypes
<1>3. CursorsFit'
  BY <1>1 DEF CursorsFit, EventAt
<1>4. BuffersInOrder'
  <2>1. UNCHANGED <<internal, dispatchCounter, cursors, serving, lastServed>> /\ BuffersInOrder
    BY <1>1
  <2> QED
    BY ONLY <2>1 DEF BuffersInOrder
<1>5. TicksRight'
  BY <1>1 DEF TicksRight
<1>6. serving # 0 => serving \in Channels
  BY <1>1 DEF BusTypes
<1>7. \A d \in Channels : Len(subscribers[d]) \in Nat /\ Len(subscribers'[d]) \in Nat
  <2> TAKE d \in Channels
  <2>1. subscribers[d] \in Seq(Subscriptions) /\ subscribers'[d] \in Seq(Subscriptions)
    BY <1>1 DEF BusTypes
  <2> QED
    BY <2>1
<1>8. \A d \in Channels : \A j \in 1..Len(subscribers[d]) : j \in 1..Len(subscribers'[d])
  BY <1>7
<1>9. DeliveredOnce'
  <2> SUFFICES ASSUME NEW p \in delivered
               PROVE  /\ p[1] <= lastServed
                      /\ serving # 0 /\ p[1] = lastServed =>
                            \E j \in 1..Len(subscribers'[serving]) :
                                j <= position /\ p[2] = subscribers'[serving][j].id
    BY Zenon DEF DeliveredOnce
  <2>1. p[1] <= lastServed
    BY <1>1 DEF DeliveredOnce
  <2>2. ASSUME serving # 0, p[1] = lastServed
        PROVE  \E j \in 1..Len(subscribers'[serving]) :
                   j <= position /\ p[2] = subscribers'[serving][j].id
    <3>1. PICK j \in 1..Len(subscribers[serving]) : j <= position /\ p[2] = subscribers[serving][j].id
      BY <1>1, <2>2 DEF DeliveredOnce
    <3>2. j \in 1..Len(subscribers'[serving]) /\ subscribers'[serving][j].id = subscribers[serving][j].id
      BY <1>6, <1>8, <2>2
    <3> QED
      BY <3>1, <3>2
  <2> QED
    BY <2>1, <2>2
<1>10. HeardSoFar'
  <2>1. ASSUME NEW d \in Channels, NEW o, NEW n, NEW m, HeardUpTo(d, o, n),
               \A j \in 1..Len(subscribers[d]) : j <= m => j <= n
        PROVE  HeardUpTo(d, o, m)'
    <3> SUFFICES ASSUME NEW j \in 1..Len(subscribers'[d]), j <= m,
                        subscribers'[d][j].active, ~subscribers'[d][j].late
                 PROVE  <<o, subscribers'[d][j].id>> \in delivered
      BY Zenon DEF HeardUpTo
    <3>1. /\ j \in 1..Len(subscribers[d]) /\ subscribers[d][j].active /\ ~subscribers[d][j].late
          /\ subscribers'[d][j].id = subscribers[d][j].id
      BY Zenon
    <3>2. j <= n
      BY <2>1, <3>1
    <3> QED
      BY <2>1, <3>1, <3>2, Zenon DEF HeardUpTo
  <2>2. \A d, o : Waits(d, o)' <=> Waits(d, o)
    BY DEF Waits
  <2>3. ASSUME pc # "between", NEW d \in Channels, NEW i \in 1..Len(outbound[d]),
               outbound[d][i].tick = currentTick, NEW o, o = outbound[d][i].order,
               NEW m, m = Len(subscribers'[d])
        PROVE  Waits(d, o)' \/ HeardUpTo(d, o, m)'
    <3>1. Waits(d, o) \/ HeardUpTo(d, o, Len(subscribers[d]))
      BY <1>1, <2>3 DEF HeardSoFar
    <3>2. \A j \in 1..Len(subscribers[d]) : j <= m => j <= Len(subscribers[d])
      BY <1>7
    <3> QED
      BY <2>1, <2>2, <3>1, <3>2
  <2>4. ASSUME serving # 0
        PROVE  /\ position <= Len(subscribers'[serving])
               /\ HeardUpTo(serving, lastServed, position)'
    <3>1. serving \in Channels /\ position \in Nat
      BY <1>1, <1>6, <2>4 DEF BusTypes
    <3>2. position <= Len(subscribers[serving]) /\ HeardUpTo(serving, lastServed, position)
      BY <1>1, <2>4 DEF HeardSoFar
    <3>3. position <= Len(subscribers'[serving])
      BY <1>7, <3>1, <3>2
    <3>4. ASSUME NEW d, d = serving, NEW o, o = lastServed, NEW n, n = position
          PROVE  HeardUpTo(d, o, n)'
      BY <2>1, <3>1, <3>2, <3>4
    <3> QED
      BY <3>3, <3>4 DEF HeardUpTo
  <2> QED
    BY <2>2, <2>3, <2>4, Zenon DEF HeardSoFar
<1> QED
  BY <1>2, <1>3, <1>4, <1>5, <1>9, <1>10 DEF BusInv

LEMMA SubscribeKeeps ==
    ASSUME BusInv, NEW c \in Channels, Subscribe(c)
    PROVE  BusInv'
<1>1. BusTypes /\ SubscriptionsNamed
  BY DEF BusInv
<1> DEFINE s == [id |-> nextId, active |-> TRUE, late |-> TRUE]
           list == subscribers[c]
<1>2. /\ subscribers' = [subscribers EXCEPT ![c] = Append(@, s)] /\ nextId' = nextId + 1
      /\ UNCHANGED <<pc, internal, outbound, dispatchCounter, cursors, serving, position,
                     delivered, lastServed, step, currentTick>>
  BY DEF Subscribe, bufferVars, dispatchVars, tickVars
<1>3. /\ nextId \in Nat /\ subscribers \in [Channels -> Seq(Subscriptions)]
      /\ s \in Subscriptions /\ s.id = nextId /\ s.late
  BY <1>1 DEF BusTypes, Subscriptions
<1> HIDE DEF s
<1>4. /\ subscribers'[c] = Append(list, s) /\ list \in Seq(Subscriptions)
      /\ \A d \in Channels : d # c => subscribers'[d] = subscribers[d]
      /\ subscribers' \in [Channels -> Seq(Subscriptions)]
  BY <1>2, <1>3
<1> DEFINE L == Len(list)
<1>5. /\ L \in Nat /\ Len(subscribers'[c]) = L + 1 /\ subscribers'[c][L + 1] = s
      /\ \A j \in 1..L : subscribers'[c][j] = list[j]
      /\ \A j \in 1..(L + 1) : j \in 1..L \/ j = L + 1
  BY <1>4
<1>6. \A d \in Channels : /\ Len(subscribers[d]) \in Nat /\ Len(subscribers'[d]) \in Nat
                          /\ Len(subscribers[d]) <= Len(subscribers'[d])
                          /\ \A j \in 1..Len(subscribers[d]) : subscribers'[d][j] = subscribers[d][j]
                          /\ \A j \in 1..Len(subscribers'[d]) :
                                \/ j \in 1..Len(subscribers[d])
                                \/ d = c /\ j = L + 1 /\ subscribers'[d][j] = s
  <2> TAKE d \in Channels
  <2>1. CASE d = c
    BY <1>5, <2>1
  <2>2. CASE d # c
    <3>1. subscribers[d] \in Seq(Subscriptions)
      BY <1>3
    <3> QED
      BY <1>4, <2>2, <3>1
  <2> QED
    BY <2>1, <2>2
<1>7. \A d \in Channels : \A j \in 1..Len(subscribers[d]) :
         subscribers[d][j].id \in Nat /\ subscribers[d][j].id < nextId
  <2> TAKE d \in Channels
  <2> TAKE j \in 1..Len(subscribers[d])
  <2>1. subscribers[d] \in Seq(Subscriptions)
    BY <1>3
  <2>2. subscribers[d][j] \in Subscriptions
    BY <2>1
  <2> QED
    BY <1>1, <2>2 DEF SubscriptionsNamed, Subscriptions
<1>8. SubscriptionsNamed'
  <2> SUFFICES ASSUME NEW d \in Channels, NEW i \in 1..Len(subscribers'[d])
               PROVE  /\ subscribers'[d][i].id < nextId'
                      /\ \A j \in 1..Len(subscribers'[d]) :
                            i < j => subscribers'[d][i].id < subscribers'[d][j].id
    BY Zenon DEF SubscriptionsNamed
  <2>1. CASE i \in 1..Len(subscribers[d])
    <3>1. subscribers'[d][i] = subscribers[d][i] /\ subscribers[d][i].id < nextId /\ subscribers[d][i].id \in Nat
      BY <1>6, <1>7, <2>1
    <3>2. ASSUME NEW j \in 1..Len(subscribers'[d]), i < j
          PROVE  subscribers'[d][i].id < subscribers'[d][j].id
      <4>1. CASE j \in 1..Len(subscribers[d])
        BY <1>1, <1>6, <2>1, <3>2, <4>1 DEF SubscriptionsNamed
      <4>2. CASE subscribers'[d][j] = s
        BY <1>3, <3>1, <4>2
      <4> QED
        BY <1>6, <4>1, <4>2
    <3>3. subscribers'[d][i].id < nextId'
      BY <1>2, <1>3, <3>1
    <3> QED
      BY <3>2, <3>3
  <2>2. CASE i \notin 1..Len(subscribers[d])
    <3>1. d = c /\ i = L + 1 /\ subscribers'[d][i] = s
      BY <1>6, <2>2
    <3>2. subscribers'[d][i].id < nextId'
      BY <1>2, <1>3, <3>1
    <3>3. \A j \in 1..Len(subscribers'[d]) : ~(i < j)
      BY <1>5, <3>1
    <3> QED
      BY <3>2, <3>3
  <2> QED
    BY <2>1, <2>2
<1>9. \A d \in Channels : \A j \in 1..Len(subscribers'[d]) :
         subscribers'[d][j].active /\ ~subscribers'[d][j].late =>
             /\ j \in 1..Len(subscribers[d])
             /\ subscribers[d][j].active /\ ~subscribers[d][j].late
  <2> TAKE d \in Channels
  <2> TAKE j \in 1..Len(subscribers'[d])
  <2>1. CASE j \in 1..Len(subscribers[d])
    BY <1>6, <2>1, Zenon
  <2>2. CASE subscribers'[d][j] = s
    BY <1>3, <2>2, Zenon
  <2> QED
    BY <1>6, <2>1, <2>2
<1>10. nextId' \in Nat /\ nextId <= nextId'
  BY <1>2, <1>3
<1>11. \A d \in Channels :
          /\ Len(subscribers[d]) <= Len(subscribers'[d])
          /\ \A j \in 1..Len(subscribers[d]) : subscribers'[d][j].id = subscribers[d][j].id
  BY <1>6
<1> QED
  BY <1>2, <1>4, <1>8, <1>9, <1>10, <1>11, SubscribersKeep

LEMMA UnsubscribeKeeps ==
    ASSUME BusInv, NEW c \in Channels, Unsubscribe(c)
    PROVE  BusInv'
<1>1. BusTypes /\ SubscriptionsNamed
  BY DEF BusInv
<1>2. PICK i \in 1..Len(subscribers[c]) :
         subscribers' = [subscribers EXCEPT ![c] = Deactivated(@, i)]
  BY DEF Unsubscribe
<1>3. UNCHANGED <<pc, internal, outbound, dispatchCounter, cursors, serving, position,
                  delivered, lastServed, step, currentTick, nextId>>
  BY DEF Unsubscribe, bufferVars, dispatchVars, tickVars
<1> DEFINE list == subscribers[c]
           to == Deactivated(list, i)
<1>4. /\ nextId \in Nat /\ subscribers \in [Channels -> Seq(Subscriptions)]
      /\ list \in Seq(Subscriptions) /\ Len(list) \in Nat
  BY <1>1 DEF BusTypes
<1>5. \A j \in 1..Len(list) : list[j] \in Subscriptions
  BY <1>4
<1>6. [list[i] EXCEPT !.active = FALSE] \in Subscriptions /\ [list[i] EXCEPT !.active = FALSE].id = list[i].id
      /\ ~[list[i] EXCEPT !.active = FALSE].active
  <2> DEFINE s == list[i]
  <2>1. s \in Subscriptions
    BY <1>5
  <2> HIDE DEF s
  <2>2. [s EXCEPT !.active = FALSE] \in Subscriptions /\ [s EXCEPT !.active = FALSE].id = s.id
        /\ ~[s EXCEPT !.active = FALSE].active
    BY <2>1 DEF Subscriptions
  <2> QED
    BY <2>2 DEF s
<1>7. /\ to \in Seq(Subscriptions) /\ Len(to) = Len(list)
      /\ \A j \in 1..Len(list) : j # i => to[j] = list[j]
      /\ to[i] = [list[i] EXCEPT !.active = FALSE]
  <2>1. to = [list EXCEPT ![i] = [list[i] EXCEPT !.active = FALSE]]
    BY DEF Deactivated
  <2> HIDE DEF to
  <2> DEFINE z == [list[i] EXCEPT !.active = FALSE]
  <2>2. to = [list EXCEPT ![i] = z] /\ z \in Subscriptions
    BY <1>6, <2>1
  <2> HIDE DEF z
  <2>3. to \in Seq(Subscriptions) /\ Len(to) = Len(list) /\ to[i] = z
        /\ \A j \in 1..Len(list) : j # i => to[j] = list[j]
    BY <1>4, <2>2
  <2> QED
    BY <2>3 DEF z
<1>8. /\ \A j \in 1..Len(list) : to[j].id = list[j].id
      /\ \A j \in 1..Len(list) : to[j].active /\ ~to[j].late => list[j].active /\ ~list[j].late
  <2>1. ~to[i].active /\ to[i].id = list[i].id
    BY <1>6, <1>7
  <2> QED
    BY <1>7, <2>1, Zenon
<1>9. /\ subscribers'[c] = to /\ \A d \in Channels : d # c => subscribers'[d] = subscribers[d]
      /\ subscribers' \in [Channels -> Seq(Subscriptions)]
  BY <1>2, <1>4, <1>7
<1> HIDE DEF to
<1>10. \A d \in Channels :
          /\ Len(subscribers[d]) = Len(subscribers'[d])
          /\ \A j \in 1..Len(subscribers[d]) : subscribers'[d][j].id = subscribers[d][j].id
          /\ \A j \in 1..Len(subscribers'[d]) :
                subscribers'[d][j].active /\ ~subscribers'[d][j].late =>
                    /\ j \in 1..Len(subscribers[d])
                    /\ subscribers[d][j].active /\ ~subscribers[d][j].late
  <2> TAKE d \in Channels
  <2>1. CASE d = c
    BY <1>7, <1>8, <1>9, <2>1
  <2>2. CASE d # c
    BY <1>9, <2>2, Zenon
  <2> QED
    BY <2>1, <2>2
<1>11. SubscriptionsNamed'
  BY <1>1, <1>3, <1>10 DEF SubscriptionsNamed
<1>12. \A d \in Channels : Len(subscribers[d]) <= Len(subscribers'[d])
  <2> TAKE d \in Channels
  <2>1. Len(subscribers[d]) \in Nat
    BY <1>4
  <2> QED
    BY <1>10, <2>1
<1>13. nextId' \in Nat /\ nextId <= nextId'
  BY <1>3, <1>4
<1> QED
  BY <1>3, <1>9, <1>10, <1>11, <1>12, <1>13, SubscribersKeep

(* dispatch takes the earliest event that waits.                            *)
LEMMA TakeKeeps ==
    ASSUME BusInv, TakeEvent
    PROVE  BusInv'
<1>1. BusTypes /\ CursorsFit /\ BuffersInOrder /\ SubscriptionsNamed /\ TicksRight
      /\ DeliveredOnce /\ HeardSoFar
  BY DEF BusInv
<1>2. PICK c \in Channels : IsNext(c) /\ serving' = c /\ lastServed' = EventAt(c)
  BY DEF TakeEvent
<1>3. /\ pc = "dispatching" /\ serving = 0 /\ position' = 0
      /\ UNCHANGED <<pc, internal, outbound, dispatchCounter, cursors, delivered, subscribers,
                     nextId, step, currentTick>>
  BY DEF TakeEvent, bufferVars, subscriberVars, tickVars
<1> DEFINE n == EventAt(c)
           i0 == cursors[c] + 1
<1>4. \A d \in Channels : /\ internal[d] \in Seq(Nat) /\ Len(internal[d]) \in Nat /\ cursors[d] \in Nat
                          /\ \A i \in 1..Len(internal[d]) : internal[d][i] \in Nat
  <2> TAKE d \in Channels
  <2>1. internal[d] \in Seq(Nat) /\ cursors[d] \in Nat
    BY <1>1 DEF BusTypes
  <2> QED
    BY <2>1
<1>5. cursors[c] < Len(internal[c]) /\ \A d \in Candidates : n <= EventAt(d)
  BY <1>2 DEF IsNext, Candidates
<1>6. i0 \in 1..Len(internal[c]) /\ n = internal[c][i0] /\ i0 > cursors[c] /\ n \in Nat
  BY <1>4, <1>5 DEF EventAt
<1>7. lastServed < n /\ n < dispatchCounter
  <2>1. c # 0
    BY DEF Channels
  <2>2. ~(serving = c /\ i0 = cursors[c] + 1)
    BY <1>3, <2>1
  <2>3. lastServed < internal[c][i0] /\ internal[c][i0] < dispatchCounter
    BY <1>1, <1>6, <2>2, Zenon DEF BuffersInOrder
  <2> QED
    BY <1>6, <2>3
<1>8. EventAt(c)' = n
  BY <1>3 DEF EventAt
<1> HIDE DEF n
<1>9. c # 0
  BY DEF Channels
<1>10. BusTypes'
  BY <1>1, <1>2, <1>3, <1>6 DEF BusTypes, n
<1>11. CursorsFit'
  <2>1. lastServed' = EventAt(serving)'
    BY <1>2, <1>3 DEF EventAt
  <2> QED
    BY <1>1, <1>2, <1>3, <1>5, <2>1 DEF CursorsFit
<1>12. BuffersInOrder'
  <2>1. ASSUME NEW d \in Channels, NEW i \in 1..Len(internal[d]), i > cursors[d],
               ~(c = d /\ i = cursors[d] + 1)
        PROVE  n < internal[d][i]
    <3>1. CASE d = c
      <4>1. i0 < i
        BY <1>4, <2>1, <3>1
      <4> QED
        BY <1>1, <1>6, <3>1, <4>1 DEF BuffersInOrder
    <3>2. CASE d # c
      <4> DEFINE k == cursors[d] + 1
      <4>1. d \in Candidates /\ k \in 1..Len(internal[d]) /\ k <= i /\ EventAt(d) = internal[d][k]
        BY <1>4, <2>1 DEF Candidates, EventAt
      <4>2. n <= internal[d][k]
        BY <1>5, <4>1
      <4>3. k < i \/ k = i
        BY <1>4, <4>1
      <4>4. internal[d][k] <= internal[d][i]
        <5>1. CASE k < i
          <6>1. internal[d][k] < internal[d][i]
            BY <1>1, <4>1, <5>1 DEF BuffersInOrder
          <6>2. internal[d][k] \in Nat /\ internal[d][i] \in Nat
            BY <1>4, <4>1
          <6> QED
            BY <6>1, <6>2
        <5>2. CASE k = i
          BY <1>4, <5>2
        <5> QED
          BY <4>3, <5>1, <5>2
      <4>5. n # internal[d][i]
        BY <1>1, <1>6, <3>2 DEF BuffersInOrder
      <4>6. internal[d][k] \in Nat /\ internal[d][i] \in Nat
        BY <1>4, <4>1
      <4> QED
        BY <1>6, <4>2, <4>4, <4>5, <4>6
    <3> QED
      BY <3>1, <3>2
  <2>2. lastServed' = n
    BY <1>2 DEF n
  <2> QED
    BY <1>1, <1>2, <1>3, <1>7, <2>1, <2>2 DEF BuffersInOrder
<1>13. SubscriptionsNamed' /\ TicksRight'
  BY <1>1, <1>2, <1>3 DEF SubscriptionsNamed, TicksRight
<1>14. DeliveredOnce'
  <2>1. \A p \in delivered : p[1] <= n /\ p[1] # n
    <3> TAKE p \in delivered
    <3>1. p[1] \in Nat
      BY <1>1 DEF BusTypes
    <3>2. p[1] <= lastServed /\ lastServed \in Int
      BY <1>1 DEF DeliveredOnce, BusTypes
    <3> QED
      BY <1>6, <1>7, <3>1, <3>2
  <2> QED
    BY <1>2, <1>3, <2>1 DEF DeliveredOnce, n
<1>15. HeardSoFar'
  <2>1. /\ \A d, o, m : HeardUpTo(d, o, m)' <=> HeardUpTo(d, o, m)
        /\ \A d, o : Waits(d, o)' <=> Waits(d, o)
    BY <1>3 DEF HeardUpTo, Waits
  <2>2. 0 <= Len(subscribers[c])
    <3>1. subscribers[c] \in Seq(Subscriptions)
      BY <1>1 DEF BusTypes
    <3> QED
      BY <3>1
  <2>3. HeardUpTo(c, n, 0)
    <3>1. \A j \in 1..Len(subscribers[c]) : ~(j <= 0)
      OBVIOUS
    <3> QED
      BY <3>1 DEF HeardUpTo
  <2> QED
    BY <1>1, <1>2, <1>3, <2>1, <2>2, <2>3 DEF HeardSoFar, n
<1> QED
  BY <1>10, <1>11, <1>12, <1>13, <1>14, <1>15 DEF BusInv

(* dispatchSlot goes on to the next subscriber, whom it tells or skips.     *)
LEMMA PassKeeps ==
    ASSUME BusInv, InvokeSubscriber \/ SkipSubscriber
    PROVE  BusInv'
<1>1. BusTypes /\ CursorsFit /\ BuffersInOrder /\ SubscriptionsNamed /\ TicksRight
      /\ DeliveredOnce /\ HeardSoFar
  BY DEF BusInv
<1> DEFINE n == position + 1
           s == subscribers[serving][n]
           told == <<lastServed, s.id>>
<1>2. /\ pc = "dispatching" /\ serving # 0 /\ position < Len(subscribers[serving])
      /\ position' = position + 1 /\ pc' \in {"dispatching", "subscriber"}
      /\ UNCHANGED <<internal, outbound, dispatchCounter, cursors, serving, lastServed,
                     subscribers, nextId, step, currentTick>>
  BY DEF InvokeSubscriber, SkipSubscriber, Handing, bufferVars, subscriberVars, tickVars
<1>3. lastServed = EventAt(serving) /\ serving \in Channels
  BY <1>1, <1>2 DEF CursorsFit, BusTypes
<1>4. \/ s.active /\ delivered' = delivered \cup {told}
      \/ ~s.active /\ delivered' = delivered
  BY <1>3 DEF InvokeSubscriber, SkipSubscriber, NextSubscriber
<1>5. position \in Nat /\ n \in 1..Len(subscribers[serving]) /\ s \in Subscriptions
  <2>1. position \in Nat /\ subscribers[serving] \in Seq(Subscriptions)
    BY <1>1, <1>3 DEF BusTypes
  <2>2. n \in 1..Len(subscribers[serving])
    BY <1>2, <2>1
  <2> QED
    BY <2>1, <2>2
<1>6. told \in Nat \X Nat /\ told[1] = lastServed /\ told[2] = s.id
  <2>1. s.id \in Nat
    BY <1>5 DEF Subscriptions
  <2>2. lastServed \in Nat
    <3>1. cursors[serving] < Len(internal[serving]) /\ cursors[serving] \in Nat /\ internal[serving] \in Seq(Nat)
      BY <1>1, <1>2, <1>3 DEF CursorsFit, BusTypes
    <3>2. cursors[serving] + 1 \in 1..Len(internal[serving])
      BY <3>1
    <3> QED
      BY <1>3, <3>1, <3>2 DEF EventAt
  <2> QED
    BY <2>1, <2>2
<1> HIDE DEF told, s
<1>7. BusTypes'
  <2>1. position' \in Nat /\ delivered' \subseteq Nat \X Nat
    BY <1>1, <1>2, <1>4, <1>5, <1>6 DEF BusTypes
  <2> QED
    BY <1>1, <1>2, <2>1 DEF BusTypes
<1>8. CursorsFit'
  BY <1>1, <1>2 DEF CursorsFit, EventAt
<1>9. BuffersInOrder'
  BY <1>1, <1>2 DEF BuffersInOrder
<1>10. SubscriptionsNamed' /\ TicksRight'
  BY <1>1, <1>2 DEF SubscriptionsNamed, TicksRight
<1>11. DeliveredOnce'
  <2>1. ASSUME NEW p \in delivered'
        PROVE  /\ p[1] <= lastServed
               /\ p[1] = lastServed =>
                     \E j \in 1..Len(subscribers[serving]) : j <= n /\ p[2] = subscribers[serving][j].id
    <3>1. CASE p \in delivered
      <4>1. p[1] <= lastServed
        BY <1>1, <3>1 DEF DeliveredOnce
      <4>2. ASSUME p[1] = lastServed
            PROVE  \E j \in 1..Len(subscribers[serving]) : j <= n /\ p[2] = subscribers[serving][j].id
        <5>1. PICK j \in 1..Len(subscribers[serving]) :
                 j <= position /\ p[2] = subscribers[serving][j].id
          BY <1>1, <1>2, <3>1, <4>2 DEF DeliveredOnce
        <5>2. j <= n
          BY <1>5, <5>1
        <5> QED
          BY <5>1, <5>2
      <4> QED
        BY <4>1, <4>2
    <3>2. CASE p = told
      <4>1. p[1] = lastServed /\ p[2] = subscribers[serving][n].id
        BY <1>6, <3>2 DEF s
      <4>2. lastServed <= lastServed /\ n <= n
        BY <1>1, <1>5 DEF BusTypes
      <4> QED
        BY <1>5, <4>1, <4>2
    <3> QED
      BY <1>4, <2>1, <3>1, <3>2
  <2> QED
    BY <1>2, <2>1 DEF DeliveredOnce
<1>12. HeardSoFar'
  <2>1. \A d, o, m : HeardUpTo(d, o, m) => HeardUpTo(d, o, m)'
    BY <1>2, <1>4 DEF HeardUpTo
  <2>2. \A d, o : Waits(d, o)' <=> Waits(d, o)
    BY <1>2 DEF Waits
  <2>3. ASSUME NEW m, m = n PROVE HeardUpTo(serving, lastServed, m)'
    <3> SUFFICES ASSUME NEW j \in 1..Len(subscribers[serving]), j <= m,
                        subscribers[serving][j].active, ~subscribers[serving][j].late
                 PROVE  <<lastServed, subscribers[serving][j].id>> \in delivered'
      BY <1>2 DEF HeardUpTo
    <3>1. CASE j <= position
      BY <1>1, <1>2, <1>4, <3>1 DEF HeardSoFar, HeardUpTo
    <3>2. CASE ~(j <= position)
      <4>1. j = n
        BY <1>5, <2>3, <3>2
      <4> QED
        BY <1>4, <4>1 DEF s, told
    <3> QED
      BY <3>1, <3>2
  <2>4. n <= Len(subscribers[serving])
    BY <1>5
  <2>5. ASSUME NEW d \in Channels, NEW i \in 1..Len(outbound[d]), outbound[d][i].tick = currentTick
        PROVE  \/ Waits(d, outbound[d][i].order)
               \/ HeardUpTo(d, outbound[d][i].order, Len(subscribers[d]))
    BY <1>1, <1>2, <2>5 DEF HeardSoFar
  <2>6. ASSUME NEW d \in Channels, NEW i \in 1..Len(outbound[d]), outbound[d][i].tick = currentTick,
               NEW o, o = outbound[d][i].order, NEW m, m = Len(subscribers[d])
        PROVE  Waits(d, o)' \/ HeardUpTo(d, o, m)'
    BY <2>1, <2>2, <2>5, <2>6
  <2>7. HeardUpTo(serving, lastServed, position)'
    BY <1>2, <2>3 DEF HeardUpTo
  <2> QED
    BY <1>2, <2>4, <2>6, <2>7 DEF HeardSoFar
<1> QED
  BY <1>7, <1>8, <1>9, <1>10, <1>11, <1>12 DEF BusInv

(* An event has been handed to all, or a subscriber has thrown.             *)
LEMMA DoneKeeps ==
    ASSUME BusInv, EventDone \/ SubscriberThrows
    PROVE  BusInv'
<1>1. BusTypes /\ CursorsFit /\ BuffersInOrder /\ SubscriptionsNamed /\ TicksRight
      /\ DeliveredOnce /\ HeardSoFar
  BY DEF BusInv
<1>2. /\ cursors' = [cursors EXCEPT ![serving] = @ + 1] /\ serving' = 0
      /\ UNCHANGED <<internal, outbound, dispatchCounter, position, delivered, lastServed,
                     subscribers, nextId, step, currentTick>>
  BY DEF EventDone, SubscriberThrows, bufferVars, subscriberVars, tickVars
<1>3. \/ /\ pc = "dispatching" /\ pc' = "dispatching" /\ serving # 0
         /\ position >= Len(subscribers[serving])
      \/ pc = "subscriber" /\ pc' = "between"
  BY DEF EventDone, SubscriberThrows, Handing
<1>4. serving \in Channels /\ serving # 0 /\ lastServed = EventAt(serving)
      /\ cursors[serving] < Len(internal[serving])
  BY <1>1, <1>3 DEF CursorsFit, BusTypes
<1>5. \A d \in Channels : Len(internal[d]) \in Nat /\ cursors[d] \in Nat /\ Len(subscribers[d]) \in Nat
  <2> TAKE d \in Channels
  <2>1. internal[d] \in Seq(Nat) /\ cursors[d] \in Nat /\ subscribers[d] \in Seq(Subscriptions)
    BY <1>1 DEF BusTypes
  <2> QED
    BY <2>1
<1>6. /\ cursors \in [Channels -> Nat] /\ cursors' \in [Channels -> Nat]
      /\ cursors'[serving] = cursors[serving] + 1
      /\ \A d \in Channels : d # serving => cursors'[d] = cursors[d]
  BY <1>1, <1>2, <1>4 DEF BusTypes
<1>7. BusTypes'
  BY <1>1, <1>2, <1>3, <1>6 DEF BusTypes
<1>8. CursorsFit'
  <2>1. \A d \in Channels : cursors'[d] <= Len(internal[d])
    <3> TAKE d \in Channels
    <3>1. CASE d = serving
      BY <1>4, <1>5, <1>6, <3>1
    <3>2. CASE d # serving
      BY <1>1, <1>6, <3>2 DEF CursorsFit
    <3> QED
      BY <3>1, <3>2
  <2> QED
    BY <1>2, <1>3, <2>1 DEF CursorsFit
<1>9. BuffersInOrder'
  <2>1. ASSUME NEW d \in Channels, NEW i \in 1..Len(internal[d]), i > cursors'[d]
        PROVE  lastServed < internal[d][i]
    <3>1. i > cursors[d] /\ ~(serving = d /\ i = cursors[d] + 1)
      <4>1. CASE d = serving
        BY <1>5, <1>6, <2>1, <4>1
      <4>2. CASE d # serving
        BY <1>6, <2>1, <4>2
      <4> QED
        BY <4>1, <4>2
    <3> QED
      BY <1>1, <3>1, Zenon DEF BuffersInOrder
  <2>2. \A d \in Channels : \A i \in 1..Len(internal[d]) : i > cursors'[d] => lastServed < internal[d][i]
    BY <2>1
  <2> QED
    BY <1>1, <1>2, <2>2 DEF BuffersInOrder
<1>10. SubscriptionsNamed' /\ TicksRight' /\ DeliveredOnce'
  BY <1>1, <1>2, <1>3 DEF SubscriptionsNamed, TicksRight, DeliveredOnce
<1>11. HeardSoFar'
  <2>1. CASE pc' = "between"
    BY <1>2, <2>1 DEF HeardSoFar
  <2>2. CASE pc' # "between"
    <3>1. pc # "between" /\ position >= Len(subscribers[serving])
      BY <1>3, <2>2
    <3>2. \A d, o, m : HeardUpTo(d, o, m)' <=> HeardUpTo(d, o, m)
      BY <1>2 DEF HeardUpTo
    <3>3. HeardUpTo(serving, lastServed, Len(subscribers[serving]))
      <4>1. HeardUpTo(serving, lastServed, position) /\ position \in Nat
        BY <1>1, <1>4 DEF HeardSoFar, BusTypes
      <4>2. \A j \in 1..Len(subscribers[serving]) : j <= position
        BY <1>4, <1>5, <3>1, <4>1
      <4> QED
        BY <4>1, <4>2, Zenon DEF HeardUpTo
    <3>4. ASSUME NEW d \in Channels, NEW o, Waits(d, o)
          PROVE  Waits(d, o)' \/ HeardUpTo(d, o, Len(subscribers[d]))
      <4>1. PICK k \in 1..Len(internal[d]) : k > cursors[d] /\ internal[d][k] = o
        BY <3>4 DEF Waits
      <4>2. CASE k > cursors'[d]
        BY <1>2, <4>1, <4>2 DEF Waits
      <4>3. CASE ~(k > cursors'[d])
        <5>1. d = serving
          BY <1>6, <4>1, <4>3
        <5>2. k = cursors[d] + 1
          BY <1>5, <1>6, <4>1, <4>3, <5>1
        <5>3. o = lastServed
          BY <1>4, <4>1, <5>1, <5>2 DEF EventAt
        <5> QED
          BY <3>3, <5>1, <5>3
      <4> QED
        BY <4>2, <4>3
    <3>5. ASSUME NEW d \in Channels, NEW i \in 1..Len(outbound[d]), outbound[d][i].tick = currentTick,
                 NEW o, o = outbound[d][i].order, NEW m, m = Len(subscribers[d])
          PROVE  Waits(d, o)' \/ HeardUpTo(d, o, m)
      <4>1. Waits(d, o) \/ HeardUpTo(d, o, m)
        BY <1>1, <3>1, <3>5 DEF HeardSoFar
      <4> QED
        BY <3>4, <3>5, <4>1
    <3> QED
      BY <1>2, <3>2, <3>5 DEF HeardSoFar
  <2> QED
    BY <2>1, <2>2
<1> QED
  BY <1>7, <1>8, <1>9, <1>10, <1>11 DEF BusInv

(* A dispatch ends: nothing waits any more.                                 *)
LEMMA EndKeeps ==
    ASSUME BusInv, EndDispatch
    PROVE  BusInv'
<1>1. BusTypes /\ CursorsFit /\ BuffersInOrder /\ SubscriptionsNamed /\ TicksRight
      /\ DeliveredOnce /\ HeardSoFar
  BY DEF BusInv
<1>2. /\ pc = "dispatching" /\ pc' = "running" /\ serving = 0 /\ Candidates = {}
      /\ internal' = NoEvents /\ cursors' = Zero
      /\ UNCHANGED <<outbound, dispatchCounter, serving, position, delivered, lastServed,
                     subscribers, nextId, step, currentTick>>
  BY DEF EndDispatch, ClearedInternal, subscriberVars, tickVars
<1>3. Len(<<>>) = 0 /\ 1..0 = {} /\ \A X : <<>> \in Seq(X)
  OBVIOUS
<1>4. \A c \in Channels : internal'[c] = <<>> /\ cursors'[c] = 0
  BY <1>2 DEF NoEvents, Zero
<1>5. \A o : \A c \in Channels : ~Waits(c, o)
  <2> SUFFICES ASSUME NEW c \in Channels, NEW k \in 1..Len(internal[c]), k > cursors[c] PROVE FALSE
    BY DEF Waits
  <2>1. cursors[c] \in Nat /\ internal[c] \in Seq(Nat)
    BY <1>1 DEF BusTypes
  <2>2. cursors[c] < Len(internal[c])
    BY <2>1
  <2> QED
    BY <1>2, <2>2 DEF Candidates
<1>6. BusTypes'
  <2>1. internal' \in [Channels -> Seq(Nat)] /\ cursors' \in [Channels -> Nat]
    BY <1>2, <1>3 DEF NoEvents, Zero
  <2> QED
    BY <1>1, <1>2, <2>1 DEF BusTypes
<1>7. CursorsFit'
  <2>1. \A c \in Channels : cursors'[c] <= Len(internal'[c])
    BY <1>3, <1>4
  <2> QED
    BY <1>2, <2>1 DEF CursorsFit, Zero
<1>8. BuffersInOrder'
  BY <1>1, <1>2, <1>3, <1>4 DEF BuffersInOrder
<1>9. SubscriptionsNamed' /\ TicksRight' /\ DeliveredOnce'
  BY <1>1, <1>2 DEF SubscriptionsNamed, TicksRight, DeliveredOnce
<1>10. HeardSoFar'
  <2>1. \A d, o, m : HeardUpTo(d, o, m)' <=> HeardUpTo(d, o, m)
    BY <1>2 DEF HeardUpTo
  <2> QED
    BY <1>1, <1>2, <1>5, <2>1 DEF HeardSoFar
<1> QED
  BY <1>6, <1>7, <1>8, <1>9, <1>10 DEF BusInv

LEMMA CompleteKeeps ==
    ASSUME BusInv, CompleteStep
    PROVE  BusInv'
<1>1. BusTypes /\ CursorsFit /\ BuffersInOrder /\ SubscriptionsNamed /\ TicksRight
      /\ DeliveredOnce /\ HeardSoFar
  BY DEF BusInv
<1>2. /\ pc = "running" /\ pc' = "completed" /\ internal = NoEvents /\ step' = step + 1
      /\ UNCHANGED <<internal, outbound, dispatchCounter, cursors, serving, position, delivered,
                     lastServed, subscribers, nextId, currentTick>>
  BY DEF CompleteStep, bufferVars, dispatchVars, subscriberVars
<1>3. BusTypes' /\ SubscriptionsNamed' /\ TicksRight' /\ DeliveredOnce'
  <2>1. BusTypes'
    BY <1>1, <1>2 DEF BusTypes
  <2>2. SubscriptionsNamed' /\ DeliveredOnce'
    BY <1>1, <1>2 DEF SubscriptionsNamed, DeliveredOnce
  <2>3. TicksRight'
    BY <1>1, <1>2 DEF TicksRight
  <2> QED
    BY <2>1, <2>2, <2>3
<1>4. CursorsFit'
  BY <1>1, <1>2 DEF CursorsFit, EventAt
<1>5. BuffersInOrder'
  BY <1>1, <1>2 DEF BuffersInOrder
<1>6. HeardSoFar'
  <2>1. /\ \A d, o, m : HeardUpTo(d, o, m)' <=> HeardUpTo(d, o, m)
        /\ \A d, o : Waits(d, o)' <=> Waits(d, o)
    BY <1>2 DEF HeardUpTo, Waits
  <2> QED
    BY <1>1, <1>2, <2>1 DEF HeardSoFar
<1> QED
  BY <1>3, <1>4, <1>5, <1>6 DEF BusInv

LEMMA BusInvStep == BusInv /\ [BusNext]_busVars => BusInv'
<1> SUFFICES ASSUME BusInv, [BusNext]_busVars PROVE BusInv'
  OBVIOUS
<1>1. CASE BeginBatch \/ ContinueBatch
  BY <1>1, BeginTickKeeps DEF BeginBatch, ContinueBatch
<1>2. CASE EndBatch \/ StartDispatch \/ SubscriberReturns
  BY <1>2, PhaseKeeps
<1>3. ASSUME NEW c \in Channels, Publish(c) PROVE BusInv'
  BY <1>3, PublishKeeps
<1>4. ASSUME NEW c \in Channels, PublishInvalid(c) \/ PublishOverflows(c) PROVE BusInv'
  BY <1>4, RefusalKeeps
<1>5. ASSUME NEW c \in Channels, Subscribe(c) PROVE BusInv'
  BY <1>5, SubscribeKeeps
<1>6. ASSUME NEW c \in Channels, Unsubscribe(c) PROVE BusInv'
  BY <1>6, UnsubscribeKeeps
<1>7. CASE TakeEvent
  BY <1>7, TakeKeeps
<1>8. CASE InvokeSubscriber \/ SkipSubscriber
  BY <1>8, PassKeeps
<1>9. CASE EventDone \/ SubscriberThrows
  BY <1>9, DoneKeeps
<1>10. CASE EndDispatch
  BY <1>10, EndKeeps
<1>11. CASE CompleteStep
  BY <1>11, CompleteKeeps
<1>12. CASE UNCHANGED busVars
  <2>1. UNCHANGED <<pc, internal, outbound, dispatchCounter, cursors, serving, position, delivered,
                    lastServed, subscribers, nextId, step, currentTick>>
    BY <1>12 DEF busVars, bufferVars, dispatchVars, subscriberVars, tickVars
  <2>2. /\ \A d, o, m : HeardUpTo(d, o, m)' <=> HeardUpTo(d, o, m)
        /\ \A d, o : Waits(d, o)' <=> Waits(d, o)
    BY <2>1 DEF HeardUpTo, Waits
  <2>3. BusTypes' /\ SubscriptionsNamed' /\ TicksRight' /\ DeliveredOnce'
    BY <2>1 DEF BusInv, BusTypes, SubscriptionsNamed, TicksRight, DeliveredOnce
  <2>4. CursorsFit' /\ BuffersInOrder'
    BY <2>1 DEF BusInv, CursorsFit, EventAt, BuffersInOrder
  <2>5. HeardSoFar'
    BY <2>1, <2>2 DEF BusInv, HeardSoFar
  <2> QED
    BY <2>3, <2>4, <2>5 DEF BusInv
<1> QED
  BY <1>1, <1>2, <1>3, <1>4, <1>5, <1>6, <1>7, <1>8, <1>9, <1>10, <1>11, <1>12 DEF BusNext

LEMMA BusInductive == BusSpec => []BusInv
  BY BusInvInit, BusInvStep, PTL DEF BusSpec

(* A subscriber who is being told has not been told the event before.       *)
LEMMA NotToldBefore ==
    ASSUME BusInv, InvokeSubscriber
    PROVE  <<EventAt(serving), NextSubscriber.id>> \notin delivered
<1>1. BusTypes /\ CursorsFit /\ SubscriptionsNamed /\ DeliveredOnce
  BY DEF BusInv
<1> DEFINE n == position + 1
           list == subscribers[serving]
           told == <<EventAt(serving), list[n].id>>
<1>2. serving # 0 /\ position < Len(list)
  BY DEF InvokeSubscriber, Handing
<1>3. lastServed = EventAt(serving) /\ serving \in Channels
  BY <1>1, <1>2 DEF CursorsFit, BusTypes
<1>4. position \in Nat /\ list \in Seq(Subscriptions)
  BY <1>1, <1>3 DEF BusTypes
<1>5. n \in 1..Len(list) /\ \A j \in 1..Len(list) : j <= position => j < n
  BY <1>2, <1>4
<1>6. \A j \in 1..Len(list) : j < n => list[j].id < list[n].id /\ list[j].id \in Nat /\ list[n].id \in Nat
  <2> TAKE j \in 1..Len(list)
  <2>1. list[j] \in Subscriptions /\ list[n] \in Subscriptions
    BY <1>4, <1>5
  <2> QED
    BY <1>1, <1>3, <1>5, <2>1 DEF SubscriptionsNamed, Subscriptions
<1> SUFFICES ASSUME told \in delivered PROVE FALSE
  BY DEF NextSubscriber
<1>7. told[1] = lastServed /\ told[2] = list[n].id
  BY <1>3
<1>8. PICK j \in 1..Len(list) : j <= position /\ told[2] = list[j].id
  BY <1>1, <1>2, <1>7, Zenon DEF DeliveredOnce
<1> QED
  BY <1>5, <1>6, <1>7, <1>8

(* Every event reaches, once, every subscriber that was there when the tick *)
(* began and stays, whatever subscribers publish, join, leave or throw      *)
(* (dispatch, dispatchSlot, on, compactSubscribers).                        *)
THEOREM HeardExactlyOnceCorrect == BusSpec => HeardExactlyOnce
<1>1. BusInv => HeardByAll
  <2> SUFFICES ASSUME BusInv, pc = "completed", NEW c \in Channels,
                      NEW i \in 1..Len(outbound[c]), NEW j \in 1..Len(subscribers[c]),
                      outbound[c][i].tick = currentTick, subscribers[c][j].active,
                      ~subscribers[c][j].late
               PROVE  <<outbound[c][i].order, subscribers[c][j].id>> \in delivered
    BY Zenon DEF HeardByAll
  <2>1. internal = NoEvents /\ HeardSoFar /\ BusTypes
    BY DEF BusInv, CursorsFit
  <2>2. ~Waits(c, outbound[c][i].order)
    <3>1. internal[c] = <<>> /\ 1..Len(<<>>) = {}
      BY <2>1 DEF NoEvents
    <3> QED
      BY <3>1 DEF Waits
  <2>3. HeardUpTo(c, outbound[c][i].order, Len(subscribers[c]))
    BY <2>1, <2>2 DEF HeardSoFar
  <2>4. j <= Len(subscribers[c])
    <3>1. subscribers[c] \in Seq(Subscriptions)
      BY <2>1 DEF BusTypes
    <3> QED
      BY <3>1
  <2> QED
    BY <2>3, <2>4 DEF HeardUpTo
<1>2. BusInv => (InvokeSubscriber => <<EventAt(serving), NextSubscriber.id>> \notin delivered)
  BY NotToldBefore
<1> QED
  BY <1>1, <1>2, BusInductive, PTL DEF HeardExactlyOnce, BusSpec

-----------------------------------------------------------------------------
(* The buffers as one queue                                                 *)

(* A sequence of naturals that lists a set in order.                        *)
Lists(s, S) ==
    /\ s \in Seq(S)
    /\ \A i, j \in 1..Len(s) : i < j => s[i] < s[j]
    /\ \A x \in S : \E i \in 1..Len(s) : s[i] = x

LEMMA ListsOne ==
    ASSUME NEW S, S \subseteq Nat, NEW s, NEW t, Lists(s, S), Lists(t, S)
    PROVE  s = t
<1>1. \A u : Lists(u, S) => /\ u \in Seq(S) /\ Len(u) \in Nat
                            /\ \A i \in 1..Len(u) : u[i] \in Nat /\ u[i] \in S
                            /\ \A i, j \in 1..Len(u) : i < j => u[i] < u[j]
                            /\ \A x \in S : \E i \in 1..Len(u) : u[i] = x
  <2> SUFFICES ASSUME NEW u, Lists(u, S)
               PROVE  /\ u \in Seq(S) /\ Len(u) \in Nat
                      /\ \A i \in 1..Len(u) : u[i] \in Nat /\ u[i] \in S
                      /\ \A i, j \in 1..Len(u) : i < j => u[i] < u[j]
                      /\ \A x \in S : \E i \in 1..Len(u) : u[i] = x
    OBVIOUS
  <2>1. u \in Seq(S) /\ Len(u) \in Nat /\ \A i \in 1..Len(u) : u[i] \in S
    BY DEF Lists
  <2> QED
    BY <2>1 DEF Lists
(* What comes next in either is no later than in the other.                 *)
<1>2. ASSUME NEW u, NEW v, Lists(u, S), Lists(v, S), NEW k \in Nat, k + 1 \in 1..Len(u),
             \A i \in 1..k : i \in 1..Len(v) /\ u[i] = v[i]
      PROVE  k + 1 \in 1..Len(v) /\ v[k + 1] <= u[k + 1]
  <2>1. PICK j \in 1..Len(v) : v[j] = u[k + 1]
    BY <1>1, <1>2
  <2>2. ~(j <= k)
    <3> SUFFICES ASSUME j <= k PROVE FALSE
      OBVIOUS
    <3>1. j \in 1..k /\ j \in 1..Len(u) /\ j < k + 1
      <4>1. Len(u) \in Nat /\ Len(v) \in Nat
        BY <1>1, <1>2
      <4> QED
        BY <1>2, <4>1
    <3>2. u[j] = u[k + 1] /\ u[j] < u[k + 1] /\ u[j] \in Nat /\ u[k + 1] \in Nat
      <4>1. u[j] = u[k + 1]
        BY <1>2, <2>1, <3>1
      <4>2. u[j] < u[k + 1]
        BY <1>1, <1>2, <3>1
      <4>3. u[j] \in Nat /\ u[k + 1] \in Nat
        BY <1>1, <1>2, <3>1
      <4> QED
        BY <4>1, <4>2, <4>3
    <3> QED
      BY <3>2
  <2>3. k + 1 \in 1..Len(v) /\ (k + 1 = j \/ k + 1 < j)
    <3>1. Len(v) \in Nat
      BY <1>1, <1>2
    <3> QED
      BY <2>2, <3>1
  <2>4. v[k + 1] = v[j] \/ v[k + 1] < v[j]
    <3>1. CASE k + 1 = j
      BY <3>1
    <3>2. CASE k + 1 < j
      BY <1>1, <1>2, <2>3, <3>2
    <3> QED
      BY <2>3, <3>1, <3>2
  <2>5. v[k + 1] \in Nat /\ v[j] \in Nat
    BY <1>1, <1>2, <2>3
  <2> QED
    BY <2>1, <2>3, <2>4, <2>5
<1> DEFINE Right == {k \in Nat : k <= Len(s) => \A i \in 1..k : i \in 1..Len(t) /\ s[i] = t[i]}
<1>3. Len(s) \in Nat /\ Len(t) \in Nat
  BY <1>1
<1>4. 0 \in Right
  <2>1. 1..0 = {}
    OBVIOUS
  <2> QED
    BY <2>1
<1>5. ASSUME NEW k \in Nat, k \in Right PROVE k + 1 \in Right
  <2> SUFFICES ASSUME k + 1 <= Len(s)
               PROVE  \A i \in 1..(k + 1) : i \in 1..Len(t) /\ s[i] = t[i]
    OBVIOUS
  <2>1. k + 1 \in 1..Len(s) /\ \A i \in 1..k : i \in 1..Len(t) /\ s[i] = t[i]
    BY <1>3, <1>5
  <2>2. k + 1 \in 1..Len(t) /\ t[k + 1] <= s[k + 1]
    BY <1>2, <2>1
  <2>3. \A i \in 1..k : i \in 1..Len(s) /\ t[i] = s[i]
    <3>1. \A i \in 1..k : i \in 1..Len(s)
      BY <1>3, <2>1
    <3> QED
      BY <2>1, <3>1
  <2>4. s[k + 1] <= t[k + 1]
    BY <1>2, <2>2, <2>3
  <2>5. s[k + 1] \in Nat /\ t[k + 1] \in Nat
    BY <1>1, <2>1, <2>2
  <2>6. s[k + 1] = t[k + 1]
    BY <2>2, <2>4, <2>5
  <2>7. \A i \in 1..(k + 1) : i \in 1..k \/ i = k + 1
    OBVIOUS
  <2> QED
    BY <2>1, <2>2, <2>6, <2>7
<1> HIDE DEF Right
<1>6. Nat \subseteq Right
  BY <1>4, <1>5, SetInduction
<1>7. \A i \in 1..Len(s) : i \in 1..Len(t) /\ s[i] = t[i]
  <2>1. Len(s) \in Right /\ Len(s) <= Len(s)
    BY <1>3, <1>6
  <2> QED
    BY <2>1 DEF Right
<1>8. Len(s) = Len(t)
  <2>1. ~(Len(t) < Len(s))
    <3> SUFFICES ASSUME Len(t) < Len(s) PROVE FALSE
      OBVIOUS
    <3>1. Len(s) \in 1..Len(s)
      BY <1>3
    <3>2. Len(s) \in 1..Len(t)
      BY <1>7, <3>1
    <3> QED
      BY <1>3, <3>2
  <2>2. ~(Len(s) < Len(t))
    <3> SUFFICES ASSUME Len(s) < Len(t) PROVE FALSE
      OBVIOUS
    <3> DEFINE k == Len(s)
    <3>1. k + 1 \in 1..Len(t)
      BY <1>3
    <3>2. \A i \in 1..k : i \in 1..Len(s) /\ t[i] = s[i]
      BY <1>7
    <3>3. k + 1 \in 1..Len(s)
      BY <1>2, <1>3, <3>1, <3>2
    <3> QED
      BY <1>3, <3>3
  <2> QED
    BY <1>3, <2>1, <2>2
<1>9. s \in Seq(S) /\ t \in Seq(S)
  BY <1>1
<1> QED
  BY <1>7, <1>8, <1>9

(* Every set of naturals below a bound has one, as long as it is large.     *)
Listed(S) == IsFiniteSet(S) /\ \E s : Lists(s, S) /\ Len(s) = Cardinality(S)

LEMMA ListsAppend ==
    ASSUME NEW S, S \subseteq Nat, NEW s, Lists(s, S), NEW n \in Nat, \A x \in S : x < n
    PROVE  Lists(Append(s, n), S \cup {n}) /\ Len(Append(s, n)) = Len(s) + 1
<1> DEFINE t == Append(s, n)
           L == Len(s)
<1>1. s \in Seq(S) /\ L \in Nat /\ \A i \in 1..L : s[i] \in S
  BY DEF Lists
<1>2. t \in Seq(S \cup {n}) /\ Len(t) = L + 1 /\ t[L + 1] = n /\ \A i \in 1..L : t[i] = s[i]
  <2>1. s \in Seq(S \cup {n}) /\ n \in S \cup {n}
    BY <1>1
  <2> QED
    BY <2>1
<1>3. \A i \in 1..(L + 1) : i \in 1..L \/ i = L + 1
  BY <1>1
<1> HIDE DEF t
<1>4. \A i, j \in 1..Len(t) : i < j => t[i] < t[j]
  <2> SUFFICES ASSUME NEW i \in 1..(L + 1), NEW j \in 1..(L + 1), i < j PROVE t[i] < t[j]
    BY <1>2
  <2>1. i \in 1..L
    BY <1>1
  <2>2. CASE j \in 1..L
    BY <1>2, <2>1, <2>2 DEF Lists
  <2>3. CASE j = L + 1
    BY <1>1, <1>2, <2>1, <2>3
  <2> QED
    BY <1>3, <2>2, <2>3
<1>5. \A x \in S \cup {n} : \E i \in 1..Len(t) : t[i] = x
  <2> SUFFICES ASSUME NEW x \in S \cup {n} PROVE \E i \in 1..(L + 1) : t[i] = x
    BY <1>2
  <2>1. CASE x \in S
    <3>1. PICK i \in 1..L : s[i] = x
      BY <2>1 DEF Lists
    <3>2. i \in 1..(L + 1)
      BY <1>1
    <3> QED
      BY <1>2, <3>1, <3>2
  <2>2. CASE x = n
    <3>1. L + 1 \in 1..(L + 1)
      BY <1>1
    <3> QED
      BY <1>2, <2>2, <3>1
  <2> QED
    BY <2>1, <2>2
<1> QED
  BY <1>2, <1>4, <1>5 DEF Lists, t

LEMMA ListsEmpty == Lists(<<>>, {}) /\ Len(<<>>) = 0
<1>1. <<>> \in Seq({}) /\ Len(<<>>) = 0 /\ 1..0 = {}
  OBVIOUS
<1> QED
  BY <1>1 DEF Lists

LEMMA ListExists ==
    ASSUME NEW n \in Nat, NEW S \in SUBSET (0..(n - 1))
    PROVE  Listed(S)
<1> DEFINE Right == {m \in Nat : \A T \in SUBSET (0..(m - 1)) : Listed(T)}
<1>1. 0 \in Right
  <2>1. Listed({})
    BY ListsEmpty, FS_EmptySet DEF Listed
  <2>2. 0..(0 - 1) = {}
    OBVIOUS
  <2> QED
    BY <2>1, <2>2
<1>2. ASSUME NEW m \in Nat, m \in Right PROVE m + 1 \in Right
  <2>0. (m + 1) - 1 = m /\ 0..m = (0..(m - 1)) \cup {m} /\ \A x \in 0..(m - 1) : x < m /\ x \in Nat
    OBVIOUS
  <2> SUFFICES ASSUME NEW T \in SUBSET (0..m) PROVE Listed(T)
    BY <2>0
  <2>1. CASE m \notin T
    <3>1. T \in SUBSET (0..(m - 1))
      BY <2>0, <2>1
    <3> QED
      BY <1>2, <3>1
  <2>2. CASE m \in T
    <3> DEFINE U == T \ {m}
    <3>1. U \in SUBSET (0..(m - 1)) /\ m \notin U /\ U \cup {m} = T
      BY <2>0, <2>2
    <3>2. U \subseteq Nat /\ \A x \in U : x < m
      BY <2>0, <3>1
    <3>3. Listed(U)
      BY <1>2, <3>1
    <3> HIDE DEF U
    <3>4. PICK s : Lists(s, U) /\ Len(s) = Cardinality(U)
      BY <3>3 DEF Listed
    <3>5. Lists(Append(s, m), T) /\ Len(Append(s, m)) = Len(s) + 1
      BY <3>1, <3>2, <3>4, ListsAppend
    <3>6. IsFiniteSet(T) /\ Cardinality(T) = Cardinality(U) + 1
      BY <3>1, <3>3, FS_AddElement DEF Listed
    <3> QED
      BY <3>4, <3>5, <3>6 DEF Listed
  <2> QED
    BY <2>1, <2>2
<1> HIDE DEF Right
<1>3. n \in Right
  BY <1>1, <1>2, SetInduction
<1> QED
  BY <1>3 DEF Right

(* Merged lists the set, whichever order it chooses.                        *)
LEMMA MergedLists ==
    ASSUME NEW n \in Nat, NEW S \in SUBSET (0..(n - 1))
    PROVE  Lists(Merged(S), S)
<1> DEFINE N == Cardinality(S)
           Rising(f) == \A i, j \in 1..N : i < j => f[i] < f[j]
<1>1. IsFiniteSet(S) /\ \E s : Lists(s, S) /\ Len(s) = N
  BY ListExists DEF Listed
<1>2. PICK s : Lists(s, S) /\ Len(s) = N
  BY <1>1
<1>3. N \in Nat
  BY <1>1, FS_CardinalityType
<1>4. Merged(S) = CHOOSE f \in [1..N -> S] : Rising(f)
  BY DEF Merged
<1>5. s \in [1..N -> S] /\ Rising(s)
  <2>1. s \in Seq(S)
    BY <1>2 DEF Lists
  <2> QED
    BY <1>2, <2>1 DEF Lists
<1> DEFINE f == Merged(S)
<1>6. f \in [1..N -> S] /\ Rising(f)
  <2> HIDE DEF Rising
  <2>1. \E g : g \in [1..N -> S] /\ Rising(g)
    BY <1>5
  <2> QED
    BY <1>4, <2>1
<1> HIDE DEF f, N
<1>7. \A x \in S : \E i \in 1..N : f[i] = x
  <2> SUFFICES ASSUME NEW x \in S, \A i \in 1..N : f[i] # x PROVE FALSE
    OBVIOUS
  <2> DEFINE T == S \ {x}
             D == 1..N
  <2>1. f \in [D -> T]
    BY <1>6
  <2>2. IsFiniteSet(T) /\ Cardinality(T) = N - 1
    BY <1>1, FS_RemoveElement DEF N
  <2>3. IsFiniteSet(D) /\ Cardinality(D) = N
    BY <1>3, FS_Interval
  <2>4. Cardinality(T) < Cardinality(D)
    BY <1>3, <2>2, <2>3
  <2>5. D = 1..N
    OBVIOUS
  <2> HIDE DEF T, D
  <2>6. PICK a \in D, b \in D : a # b /\ f[a] = f[b]
    BY <2>1, <2>2, <2>3, <2>4, FS_PigeonHole
  <2>7. a \in 1..N /\ b \in 1..N /\ f[a] \in Nat /\ f[b] \in Nat
    <3>1. a \in 1..N /\ b \in 1..N
      BY <2>5
    <3>2. f[a] \in S /\ f[b] \in S
      BY <1>6, <3>1
    <3>3. S \subseteq Nat
      OBVIOUS
    <3> QED
      BY <3>1, <3>2, <3>3
  <2>8. a < b \/ b < a
    BY <1>3, <2>6, <2>7
  <2> QED
    BY <1>6, <2>6, <2>7, <2>8
<1>8. f \in Seq(S) /\ Len(f) = N
  BY <1>3, <1>6
<1> QED
  BY <1>6, <1>7, <1>8 DEF Lists, f

LEMMA MergedEmpty == Merged({}) = <<>>
<1>1. {} \in SUBSET (0..(0 - 1)) /\ {} \subseteq Nat
  OBVIOUS
<1>2. Lists(Merged({}), {})
  BY <1>1, MergedLists
<1> QED
  BY <1>1, <1>2, ListsEmpty, ListsOne

LEMMA MergedAppend ==
    ASSUME NEW n \in Nat, NEW S \in SUBSET (0..(n - 1))
    PROVE  /\ Merged(S \cup {n}) = Append(Merged(S), n)
           /\ \A i \in 1..Len(Merged(S)) : Merged(S)[i] < n
<1> DEFINE T == S \cup {n}
           s == Merged(S)
<1>1. S \subseteq Nat /\ (\A x \in S : x < n) /\ T \subseteq Nat /\ T \in SUBSET (0..((n + 1) - 1))
  OBVIOUS
<1>2. n + 1 \in Nat
  OBVIOUS
<1>3. Lists(s, S)
  BY MergedLists
<1> HIDE DEF T
<1>4. Lists(Merged(T), T)
  BY <1>1, <1>2, MergedLists
<1>5. Lists(Append(s, n), T)
  BY <1>1, <1>3, ListsAppend DEF T
<1>6. Merged(T) = Append(s, n)
  BY <1>1, <1>4, <1>5, ListsOne
<1>7. \A i \in 1..Len(s) : s[i] \in S
  BY <1>3 DEF Lists
<1> QED
  BY <1>1, <1>6, <1>7 DEF T

LEMMA MergedHead ==
    ASSUME NEW n \in Nat, NEW S \in SUBSET (0..(n - 1)), NEW m \in S, \A x \in S : m <= x
    PROVE  /\ Merged(S) # <<>>
           /\ Head(Merged(S)) = m
           /\ Tail(Merged(S)) = Merged(S \ {m})
<1> DEFINE T == S \ {m}
           s == Merged(S)
           t == Tail(s)
           L == Len(s)
<1>1. S \subseteq Nat /\ T \subseteq Nat /\ T \in SUBSET (0..(n - 1))
  OBVIOUS
<1>2. Lists(s, S)
  BY MergedLists
<1> HIDE DEF s, T
<1>3. /\ s \in Seq(S) /\ L \in Nat /\ \A i \in 1..L : s[i] \in S /\ s[i] \in Nat
      /\ \A i, j \in 1..L : i < j => s[i] < s[j]
  <2>1. s \in Seq(S) /\ L \in Nat /\ \A i \in 1..L : s[i] \in S
    BY <1>2 DEF Lists
  <2> QED
    BY <1>1, <1>2, <2>1 DEF Lists
<1>4. PICK k \in 1..L : s[k] = m
  BY <1>2 DEF Lists
<1>5. 1 \in 1..L /\ s # <<>>
  BY <1>3, <1>4
<1>6. k = 1
  <2> SUFFICES ASSUME k # 1 PROVE FALSE
    OBVIOUS
  <2>1. 1 < k
    BY <1>3
  <2>2. s[1] < s[k] /\ s[1] \in Nat /\ s[1] \in S /\ m \in Nat
    BY <1>1, <1>3, <1>5, <2>1
  <2>3. m <= s[1]
    BY <2>2
  <2> QED
    BY <1>4, <2>2, <2>3
<1>7. s[1] = m
  BY <1>4, <1>6
<1>8. /\ t \in Seq(S) /\ Len(t) = L - 1 /\ L - 1 \in Nat
      /\ \A i \in 1..(L - 1) : t[i] = s[i + 1] /\ i + 1 \in 1..L
  BY <1>3, <1>5
<1>9. \A i \in 1..L : s[i] = m => i = 1
  <2> SUFFICES ASSUME NEW i \in 1..L, s[i] = m, i # 1 PROVE FALSE
    OBVIOUS
  <2>1. 1 < i
    BY <1>3
  <2>2. s[1] < s[i] /\ s[1] \in Nat
    BY <1>3, <1>5, <2>1
  <2> QED
    BY <1>7, <2>2
<1> HIDE DEF t
<1>10. Lists(t, T)
  <2>1. \A i \in 1..Len(t) : t[i] \in T
    <3> SUFFICES ASSUME NEW i \in 1..(L - 1) PROVE t[i] \in T
      BY <1>8
    <3>1. t[i] = s[i + 1] /\ i + 1 \in 1..L /\ i + 1 # 1
      BY <1>8
    <3>2. t[i] \in S /\ t[i] # m
      BY <1>3, <1>9, <3>1
    <3> QED
      BY <3>2 DEF T
  <2>2. t \in Seq(T)
    BY <1>8, <2>1
  <2>3. \A i, j \in 1..Len(t) : i < j => t[i] < t[j]
    <3> SUFFICES ASSUME NEW i \in 1..(L - 1), NEW j \in 1..(L - 1), i < j PROVE t[i] < t[j]
      BY <1>8
    <3>1. i + 1 < j + 1 /\ i + 1 \in 1..L /\ j + 1 \in 1..L /\ t[i] = s[i + 1] /\ t[j] = s[j + 1]
      BY <1>8
    <3> QED
      BY <1>3, <3>1
  <2>4. \A x \in T : \E i \in 1..Len(t) : t[i] = x
    <3> SUFFICES ASSUME NEW x \in T PROVE \E i \in 1..(L - 1) : t[i] = x
      BY <1>8
    <3>1. x \in S /\ x # m
      BY DEF T
    <3>2. PICK j \in 1..L : s[j] = x
      BY <1>2, <3>1 DEF Lists
    <3>3. j # 1
      BY <1>7, <3>1, <3>2
    <3>4. j - 1 \in 1..(L - 1) /\ (j - 1) + 1 = j
      BY <1>3, <3>3
    <3> QED
      BY <1>8, <3>2, <3>4
  <2> QED
    BY <2>2, <2>3, <2>4 DEF Lists
<1>11. Lists(Merged(T), T)
  BY <1>1, MergedLists
<1>12. t = Merged(T)
  BY <1>1, <1>10, <1>11, ListsOne
<1>13. Head(s) = m
  BY <1>3, <1>5, <1>7
<1>14. Merged(S) # <<>> /\ Head(Merged(S)) = m
  BY <1>5, <1>13 DEF s
<1>15. Tail(Merged(S)) = Merged(S \ {m})
  BY <1>12, Zenon DEF s, t, T
<1> QED
  BY <1>14, <1>15

(* What is left of the buffers behind the cursors and the event being       *)
(* handed out.                                                              *)
Ahead(cur, sv, c, i) == i > cur[c] /\ ~(sv = c /\ i = cur[c] + 1)

Left(x, box, cur, sv) ==
    \E c \in Channels : \E i \in 1..Len(box[c]) : Ahead(cur, sv, c, i) /\ x = box[c][i]

LEMMA LeftIs ==
    ASSUME NEW box \in [Channels -> Seq(Nat)], NEW cur \in [Channels -> Nat], NEW sv,
           NEW S, S = UNION {{box[c][i] : i \in (cur[c] + (IF sv = c THEN 2 ELSE 1))..Len(box[c])}
                                 : c \in Channels}
    PROVE  \A x : x \in S <=> Left(x, box, cur, sv)
<1>1. ASSUME NEW c \in Channels, NEW i
      PROVE  i \in (cur[c] + (IF sv = c THEN 2 ELSE 1))..Len(box[c])
             <=> i \in 1..Len(box[c]) /\ Ahead(cur, sv, c, i)
  <2>1. cur[c] \in Nat /\ Len(box[c]) \in Nat
    OBVIOUS
  <2>2. CASE sv = c
    BY <2>1, <2>2 DEF Ahead
  <2>3. CASE sv # c
    BY <2>1, <2>3 DEF Ahead
  <2> QED
    BY <2>2, <2>3
<1> TAKE x
<1>2. ASSUME x \in S PROVE Left(x, box, cur, sv)
  <2>1. PICK c \in Channels :
            x \in {box[c][i] : i \in (cur[c] + (IF sv = c THEN 2 ELSE 1))..Len(box[c])}
    BY <1>2
  <2>2. PICK i \in (cur[c] + (IF sv = c THEN 2 ELSE 1))..Len(box[c]) : x = box[c][i]
    BY <2>1
  <2>3. i \in 1..Len(box[c]) /\ Ahead(cur, sv, c, i)
    BY <1>1
  <2> QED
    BY <2>2, <2>3 DEF Left
<1>3. ASSUME Left(x, box, cur, sv) PROVE x \in S
  <2>1. PICK c \in Channels : \E i \in 1..Len(box[c]) : Ahead(cur, sv, c, i) /\ x = box[c][i]
    BY <1>3 DEF Left
  <2>2. PICK i \in 1..Len(box[c]) : Ahead(cur, sv, c, i) /\ x = box[c][i]
    BY <2>1
  <2>3. i \in (cur[c] + (IF sv = c THEN 2 ELSE 1))..Len(box[c])
    BY <1>1, <2>2
  <2>4. x \in {box[c][j] : j \in (cur[c] + (IF sv = c THEN 2 ELSE 1))..Len(box[c])}
    BY <2>2, <2>3
  <2> QED
    BY <2>4
<1> QED
  BY <1>2, <1>3

LEMMA UndeliveredIs == BusTypes => \A x : x \in Undelivered <=> Left(x, internal, cursors, serving)
BY LeftIs DEF BusTypes, Undelivered

LEMMA UndeliveredNext ==
    BusTypes' => \A x : x \in Undelivered' <=> Left(x, internal', cursors', serving')
<1> SUFFICES ASSUME BusTypes' PROVE \A x : x \in Undelivered' <=> Left(x, internal', cursors', serving')
  OBVIOUS
<1>1. internal' \in [Channels -> Seq(Nat)] /\ cursors' \in [Channels -> Nat]
  BY DEF BusTypes
<1>2. Undelivered' = UNION {{internal'[c][i] :
          i \in (cursors'[c] + (IF serving' = c THEN 2 ELSE 1))..Len(internal'[c])} : c \in Channels}
  BY DEF Undelivered
<1> QED
  BY <1>1, <1>2, LeftIs

(* What waits was numbered in this tick, after what was handed out last.    *)
LEMMA UndeliveredNumbered ==
    ASSUME BusInv
    PROVE  /\ Undelivered \in SUBSET (0..(dispatchCounter - 1))
           /\ \A x \in Undelivered : lastServed < x
<1>1. BusTypes /\ BuffersInOrder
  BY DEF BusInv
<1> SUFFICES ASSUME NEW x \in Undelivered
             PROVE  x \in 0..(dispatchCounter - 1) /\ lastServed < x
  OBVIOUS
<1>2. PICK c \in Channels : \E i \in 1..Len(internal[c]) :
          Ahead(cursors, serving, c, i) /\ x = internal[c][i]
  BY <1>1, UndeliveredIs DEF Left
<1>3. PICK i \in 1..Len(internal[c]) : Ahead(cursors, serving, c, i) /\ x = internal[c][i]
  BY <1>2
<1>4. internal[c][i] \in Nat /\ dispatchCounter \in Nat
  BY <1>1 DEF BusTypes
<1>5. internal[c][i] < dispatchCounter /\ lastServed < internal[c][i]
  BY <1>1, <1>3 DEF BuffersInOrder, Ahead
<1> QED
  BY <1>3, <1>4, <1>5

LEMMA UndeliveredEmptied ==
    ASSUME BusTypes', internal' = NoEvents
    PROVE  Undelivered' = {}
<1>1. \A c \in Channels : internal'[c] = <<>> /\ 1..Len(internal'[c]) = {}
  BY DEF NoEvents
<1>2. \A x : ~Left(x, internal', cursors', serving')
  BY <1>1 DEF Left
<1>3. \A x : x \in Undelivered' <=> Left(x, internal', cursors', serving')
  BY UndeliveredNext
<1> QED
  BY <1>2, <1>3

LEMMA UndeliveredAtEnd ==
    ASSUME BusTypes, Candidates = {}
    PROVE  Undelivered = {}
<1>1. ASSUME NEW c \in Channels, NEW i \in 1..Len(internal[c]) PROVE ~(i > cursors[c])
  <2>1. cursors[c] \in Nat /\ Len(internal[c]) \in Nat /\ ~(cursors[c] < Len(internal[c]))
    BY DEF BusTypes, Candidates
  <2> QED
    BY <2>1
<1>2. \A x : ~Left(x, internal, cursors, serving)
  BY <1>1 DEF Left, Ahead
<1> QED
  BY <1>2, UndeliveredIs

LEMMA UndeliveredGrows ==
    ASSUME BusTypes, BusTypes', CursorsFit, NEW c \in Channels, Publish(c)
    PROVE  Undelivered' = Undelivered \cup {dispatchCounter}
<1>1. /\ internal' = [internal EXCEPT ![c] = Append(@, dispatchCounter)]
      /\ cursors' = cursors /\ serving' = serving
  BY DEF Publish, dispatchVars
<1>2. /\ internal \in [Channels -> Seq(Nat)] /\ cursors \in [Channels -> Nat]
      /\ dispatchCounter \in Nat /\ cursors[c] \in Nat
      /\ internal[c] \in Seq(Nat) /\ Len(internal[c]) \in Nat
      /\ cursors[c] <= Len(internal[c])
      /\ serving = c => cursors[c] < Len(internal[c])
  <2>1. c # 0
    BY BusAssumption DEF Channels
  <2>2. /\ internal \in [Channels -> Seq(Nat)] /\ cursors \in [Channels -> Nat]
        /\ dispatchCounter \in Nat /\ cursors[c] \in Nat
        /\ internal[c] \in Seq(Nat) /\ Len(internal[c]) \in Nat
    <3>1. /\ internal \in [Channels -> Seq(Nat)] /\ cursors \in [Channels -> Nat]
          /\ dispatchCounter \in Nat
      BY DEF BusTypes
    <3>2. internal[c] \in Seq(Nat) /\ cursors[c] \in Nat
      BY <3>1
    <3>3. Len(internal[c]) \in Nat
      BY <3>2
    <3> QED
      BY <3>1, <3>2, <3>3
  <2> QED
    BY <2>1, <2>2 DEF CursorsFit
<1> DEFINE n == Len(internal[c])
<1>3. internal'[c] = Append(internal[c], dispatchCounter)
      /\ \A d \in Channels : d # c => internal'[d] = internal[d]
  BY <1>1, <1>2
<1>4. Len(internal'[c]) = n + 1 /\ internal'[c][n + 1] = dispatchCounter
      /\ \A i \in 1..n : internal'[c][i] = internal[c][i]
  BY <1>2, <1>3
<1>5. Ahead(cursors, serving, c, n + 1)
  BY <1>2 DEF Ahead
<1>6. \A i \in 1..(n + 1) : i \in 1..n \/ i = n + 1
  BY <1>2
<1>7. 1..n \subseteq 1..(n + 1) /\ n + 1 \in 1..(n + 1)
  BY <1>2
<1> HIDE DEF n
<1>8. ASSUME NEW x, Left(x, internal', cursors', serving')
      PROVE  Left(x, internal, cursors, serving) \/ x = dispatchCounter
  <2>1. PICK d \in Channels : \E i \in 1..Len(internal'[d]) :
            Ahead(cursors', serving', d, i) /\ x = internal'[d][i]
    BY <1>8 DEF Left
  <2>2. PICK i \in 1..Len(internal'[d]) : Ahead(cursors', serving', d, i) /\ x = internal'[d][i]
    BY <2>1
  <2>3. Ahead(cursors, serving, d, i)
    BY <1>1, <2>2, Zenon
  <2>4. CASE d # c
    <3>1. internal'[d] = internal[d]
      BY <1>3, <2>4
    <3>2. i \in 1..Len(internal[d]) /\ x = internal[d][i]
      BY <2>2, <3>1
    <3> QED
      BY <2>3, <3>2 DEF Left
  <2>5. CASE d = c
    <3>1. i \in 1..(n + 1) /\ x = internal'[c][i]
      BY <1>4, <2>2, <2>5
    <3>2. CASE i = n + 1
      BY <1>4, <3>1, <3>2
    <3>3. CASE i \in 1..n
      <4>1. x = internal[c][i] /\ i \in 1..Len(internal[c])
        BY <1>4, <3>1, <3>3 DEF n
      <4> QED
        BY <2>3, <2>5, <4>1 DEF Left
    <3> QED
      BY <1>6, <3>1, <3>2, <3>3
  <2> QED
    BY <2>4, <2>5
<1>9. Left(dispatchCounter, internal', cursors', serving')
  <2>1. n + 1 \in 1..Len(internal'[c])
    BY <1>4, <1>7
  <2>2. Ahead(cursors', serving', c, n + 1)
    BY <1>1, <1>5, Zenon
  <2> QED
    BY <1>4, <2>1, <2>2 DEF Left
<1>10. ASSUME NEW x, Left(x, internal, cursors, serving)
       PROVE  Left(x, internal', cursors', serving')
  <2>1. PICK d \in Channels : \E i \in 1..Len(internal[d]) :
            Ahead(cursors, serving, d, i) /\ x = internal[d][i]
    BY <1>10 DEF Left
  <2>2. PICK i \in 1..Len(internal[d]) : Ahead(cursors, serving, d, i) /\ x = internal[d][i]
    BY <2>1
  <2>3. Ahead(cursors', serving', d, i)
    BY <1>1, <2>2, Zenon
  <2>4. i \in 1..Len(internal'[d]) /\ x = internal'[d][i]
    <3>1. CASE d # c
      BY <1>3, <2>2, <3>1
    <3>2. CASE d = c
      BY <1>4, <1>7, <2>2, <3>2 DEF n
    <3> QED
      BY <3>1, <3>2
  <2> QED
    BY <2>3, <2>4 DEF Left
<1>11. \A x : x \in Undelivered <=> Left(x, internal, cursors, serving)
  BY UndeliveredIs
<1>12. \A x : x \in Undelivered' <=> Left(x, internal', cursors', serving')
  BY UndeliveredNext
<1>13. \A x : x \in Undelivered' <=> x \in Undelivered \/ x = dispatchCounter
  BY <1>8, <1>9, <1>10, <1>11, <1>12
<1> QED
  BY <1>13

(* The event taken is the oldest that waits, over all channels.             *)
LEMMA UndeliveredTaken ==
    ASSUME BusInv, BusTypes', serving = 0, NEW c \in Channels, IsNext(c),
           serving' = c, internal' = internal, cursors' = cursors
    PROVE  /\ EventAt(c) \in Undelivered
           /\ \A x \in Undelivered : EventAt(c) <= x
           /\ Undelivered' = Undelivered \ {EventAt(c)}
<1> DEFINE m == EventAt(c)
           at == cursors[c] + 1
<1>1. BusTypes /\ CursorsFit /\ BuffersInOrder
  BY DEF BusInv
<1>2. \A d \in Channels : d # 0
  BY BusAssumption DEF Channels
<1>3. /\ internal \in [Channels -> Seq(Nat)] /\ cursors \in [Channels -> Nat]
      /\ \A d \in Channels : cursors[d] \in Nat /\ internal[d] \in Seq(Nat) /\ Len(internal[d]) \in Nat
      /\ \A d \in Channels : \A i \in 1..Len(internal[d]) : internal[d][i] \in Nat
  <2>1. internal \in [Channels -> Seq(Nat)] /\ cursors \in [Channels -> Nat]
    BY <1>1 DEF BusTypes
  <2>2. \A d \in Channels : cursors[d] \in Nat /\ internal[d] \in Seq(Nat)
    BY <2>1
  <2>3. \A d \in Channels : Len(internal[d]) \in Nat /\ \A i \in 1..Len(internal[d]) : internal[d][i] \in Nat
    BY <2>2
  <2> QED
    BY <2>1, <2>2, <2>3
<1>4. cursors[c] < Len(internal[c]) /\ \A d \in Channels :
          cursors[d] < Len(internal[d]) => EventAt(c) <= EventAt(d)
  BY DEF IsNext, Candidates
<1>5. at \in 1..Len(internal[c]) /\ m = internal[c][at] /\ at > cursors[c] /\ m \in Nat
  BY <1>3, <1>4 DEF EventAt
<1>6. \A x : x \in Undelivered <=> Left(x, internal, cursors, serving)
  BY <1>1, UndeliveredIs
<1>7. \A x : x \in Undelivered' <=> Left(x, internal, cursors, c)
  BY UndeliveredNext
<1>8. \A d \in Channels : \A i : Ahead(cursors, serving, d, i) <=> i > cursors[d]
  BY <1>2 DEF Ahead
<1> HIDE DEF m, at
<1>9. m \in Undelivered
  BY <1>5, <1>6, <1>8 DEF Left
<1>10. \A x \in Undelivered : m <= x
  <2> TAKE x \in Undelivered
  <2>1. PICK d \in Channels : \E i \in 1..Len(internal[d]) :
            Ahead(cursors, serving, d, i) /\ x = internal[d][i]
    BY <1>6 DEF Left
  <2>2. PICK i \in 1..Len(internal[d]) : Ahead(cursors, serving, d, i) /\ x = internal[d][i]
    BY <2>1
  <2> DEFINE a == cursors[d] + 1
  <2>3. i > cursors[d] /\ a \in 1..Len(internal[d]) /\ cursors[d] < Len(internal[d])
    BY <1>3, <1>8, <2>2
  <2>4. EventAt(d) = internal[d][a]
    BY DEF EventAt
  <2>5. m <= internal[d][a]
    BY <1>4, <2>3, <2>4 DEF m
  <2>6. a = i \/ a < i
    BY <1>3, <2>3
  <2> HIDE DEF a
  <2>7. internal[d][a] = x \/ internal[d][a] < x
    BY <1>1, <2>2, <2>3, <2>6 DEF BuffersInOrder
  <2>8. internal[d][a] \in Nat /\ x \in Nat
    BY <1>3, <2>2, <2>3
  <2> QED
    BY <1>5, <2>5, <2>7, <2>8
<1>11. ASSUME NEW d \in Channels, NEW i \in 1..Len(internal[d]), internal[d][i] = m
       PROVE  d = c /\ i = at
  <2>1. d = c
    BY <1>1, <1>5, <1>11 DEF BuffersInOrder
  <2>2. ~(i < at) /\ ~(at < i)
    <3>1. i < at => internal[c][i] < internal[c][at]
      BY <1>1, <1>5, <2>1 DEF BuffersInOrder
    <3>2. at < i => internal[c][at] < internal[c][i]
      BY <1>1, <1>5, <2>1 DEF BuffersInOrder
    <3> QED
      BY <1>5, <1>11, <2>1, <3>1, <3>2
  <2>3. at \in Int
    BY <1>5
  <2> QED
    BY <2>1, <2>2, <2>3
<1>12. ASSUME NEW x PROVE Left(x, internal, cursors, c) <=> Left(x, internal, cursors, serving) /\ x # m
  <2>1. ASSUME Left(x, internal, cursors, c) PROVE Left(x, internal, cursors, serving) /\ x # m
    <3>1. PICK d \in Channels : \E i \in 1..Len(internal[d]) :
              Ahead(cursors, c, d, i) /\ x = internal[d][i]
      BY <2>1 DEF Left
    <3>2. PICK i \in 1..Len(internal[d]) : Ahead(cursors, c, d, i) /\ x = internal[d][i]
      BY <3>1
    <3>3. i > cursors[d] /\ ~(c = d /\ i = cursors[d] + 1)
      BY <3>2 DEF Ahead
    <3>4. ~(d = c /\ i = at)
      BY <3>3 DEF at
    <3>5. x # m
      BY <1>11, <3>2, <3>4
    <3> QED
      BY <1>8, <3>2, <3>3, <3>5 DEF Left
  <2>2. ASSUME Left(x, internal, cursors, serving), x # m PROVE Left(x, internal, cursors, c)
    <3>1. PICK d \in Channels : \E i \in 1..Len(internal[d]) :
              Ahead(cursors, serving, d, i) /\ x = internal[d][i]
      BY <2>2 DEF Left
    <3>2. PICK i \in 1..Len(internal[d]) : Ahead(cursors, serving, d, i) /\ x = internal[d][i]
      BY <3>1
    <3>3. ~(d = c /\ i = at)
      BY <1>5, <2>2, <3>2
    <3>4. Ahead(cursors, c, d, i)
      BY <1>8, <3>2, <3>3 DEF Ahead, at
    <3> QED
      BY <3>2, <3>4 DEF Left
  <2> QED
    BY <2>1, <2>2
<1>13. Undelivered' = Undelivered \ {m}
  BY <1>6, <1>7, <1>12
<1> QED
  BY <1>9, <1>10, <1>13 DEF m

(* Leaving the event being handed out behind changes nothing that waits.    *)
LEMMA UndeliveredPassed ==
    ASSUME BusTypes, BusTypes', serving # 0, serving' = 0, internal' = internal,
           cursors' = [cursors EXCEPT ![serving] = @ + 1]
    PROVE  Undelivered' = Undelivered
<1>1. \A d \in Channels : d # 0
  BY BusAssumption DEF Channels
<1>2. serving \in Channels /\ cursors \in [Channels -> Nat] /\ internal \in [Channels -> Seq(Nat)]
  BY DEF BusTypes
<1>3. cursors'[serving] = cursors[serving] + 1
      /\ \A d \in Channels : d # serving => cursors'[d] = cursors[d]
  BY <1>2
<1>4. ASSUME NEW d \in Channels, NEW i \in 1..Len(internal[d])
      PROVE  Ahead(cursors', 0, d, i) <=> Ahead(cursors, serving, d, i)
  <2>1. cursors[d] \in Nat /\ i \in Nat
    BY <1>2
  <2>2. CASE d = serving
    BY <1>1, <1>3, <2>1, <2>2 DEF Ahead
  <2>3. CASE d # serving
    BY <1>1, <1>3, <2>1, <2>3 DEF Ahead
  <2> QED
    BY <2>2, <2>3
<1>5. \A x : Left(x, internal, cursors', 0) <=> Left(x, internal, cursors, serving)
  BY <1>4 DEF Left
<1>6. \A x : x \in Undelivered <=> Left(x, internal, cursors, serving)
  BY UndeliveredIs
<1>7. \A x : x \in Undelivered' <=> Left(x, internal, cursors', 0)
  BY UndeliveredNext
<1> QED
  BY <1>5, <1>6, <1>7

(* The buffers as one queue: they start as it starts, and each step is one  *)
(* of its steps or leaves it alone.                                         *)
LEMMA QueueInit == BusInv /\ BusInit => Queue!Init
<1> SUFFICES ASSUME BusInv, BusInit PROVE Queue!Init
  OBVIOUS
<1>1. Candidates = {}
  <2>1. \A c \in Channels : internal[c] = <<>> /\ cursors[c] = 0
    BY Zenon DEF BusInit, NoEvents, Zero
  <2>2. Len(<<>>) = 0
    OBVIOUS
  <2> QED
    BY <2>1, <2>2 DEF Candidates
<1>2. Undelivered = {}
  BY <1>1, UndeliveredAtEnd DEF BusInv
<1>3. Merged(Undelivered) = <<>>
  BY <1>2, MergedEmpty
<1> QED
  BY <1>3 DEF BusInit, Queue!Init

(* What leaves buffers, cursors and the event being handed out alone.       *)
Still == UNCHANGED <<internal, cursors, serving, lastServed>>

LEMMA StillStays == Still => Merged(Undelivered)' = Merged(Undelivered) /\ lastServed' = lastServed
BY DEF Still, Undelivered

LEMMA QueueBegins ==
    ASSUME BusInv', BeginBatch \/ ContinueBatch
    PROVE  Queue!Reset
<1>1. /\ internal' = NoEvents /\ lastServed' = -1 /\ pc' = "running"
      /\ pc \in {"between", "completed"}
  BY DEF BeginBatch, ContinueBatch, BeginTick
<1>2. Undelivered' = {}
  BY <1>1, UndeliveredEmptied DEF BusInv
<1>3. Merged(Undelivered)' = <<>>
  BY <1>2, MergedEmpty
<1> QED
  BY <1>1, <1>3 DEF Queue!Reset

LEMMA QueuePublishes ==
    ASSUME BusInv, BusInv', NEW c \in Channels, Publish(c)
    PROVE  Queue!Publish
<1> DEFINE n == dispatchCounter
           q == Merged(Undelivered)
<1>1. n \in Nat /\ lastServed < n /\ n < MaxOrder /\ MaxOrder \in Nat
  BY BusAssumption DEF BusInv, BusTypes, BuffersInOrder, Publish
<1>2. Undelivered' = Undelivered \cup {n}
  BY UndeliveredGrows DEF BusInv
<1>3. Undelivered \in SUBSET (0..(n - 1))
  BY UndeliveredNumbered
<1>4. Merged(Undelivered \cup {n}) = Append(q, n) /\ \A i \in 1..Len(q) : q[i] < n
  BY <1>1, <1>3, MergedAppend
<1>5. \A i \in 1..Len(q) : q[i] \in Nat
  <2>1. Lists(q, Undelivered)
    BY <1>1, <1>3, MergedLists
  <2>2. \A x \in Undelivered : x \in Nat
    BY <1>3
  <2>3. \A i \in 1..Len(q) : q[i] \in Undelivered
    BY <2>1 DEF Lists
  <2> QED
    BY <2>2, <2>3
<1>6. Merged(Undelivered)' = Append(q, n)
  BY <1>2, <1>4
<1>7. UNCHANGED <<lastServed, pc \in {"dispatching", "subscriber"}>>
  BY DEF Publish, dispatchVars
<1>8. n \in 0..(MaxOrder - 1) /\ n > lastServed /\ \A i \in 1..Len(q) : n > q[i]
  <2>1. lastServed \in Int
    BY DEF BusInv, BusTypes
  <2> QED
    BY <1>1, <1>4, <1>5, <2>1
<1> QED
  BY <1>6, <1>7, <1>8 DEF Queue!Publish

LEMMA QueueDelivers ==
    ASSUME BusInv, BusInv', TakeEvent
    PROVE  Queue!Deliver
<1>1. PICK c \in Channels : IsNext(c) /\ serving' = c /\ lastServed' = EventAt(c)
  BY DEF TakeEvent
<1>2. serving = 0 /\ pc = "dispatching" /\ pc' = pc /\ internal' = internal /\ cursors' = cursors
  BY DEF TakeEvent, bufferVars
<1> DEFINE m == EventAt(c)
           q == Merged(Undelivered)
<1>3. m \in Undelivered /\ (\A x \in Undelivered : m <= x) /\ Undelivered' = Undelivered \ {m}
  BY <1>1, <1>2, UndeliveredTaken DEF BusInv
<1>4. Undelivered \in SUBSET (0..(dispatchCounter - 1)) /\ dispatchCounter \in Nat
  BY UndeliveredNumbered DEF BusInv, BusTypes
<1> HIDE DEF m
<1>5. q # <<>> /\ Head(q) = m /\ Tail(q) = Merged(Undelivered \ {m})
  BY <1>3, <1>4, MergedHead
<1>6. Merged(Undelivered)' = Tail(q)
  BY <1>3, <1>5
<1>7. lastServed' = Head(q)
  BY <1>1, <1>5 DEF m
<1> QED
  BY <1>2, <1>5, <1>6, <1>7 DEF Queue!Deliver

LEMMA QueueEnds ==
    ASSUME BusInv, BusInv', EndDispatch
    PROVE  Queue!End
<1>1. Candidates = {} /\ internal' = NoEvents /\ pc = "dispatching" /\ pc' = "running"
      /\ lastServed' = lastServed
  BY DEF EndDispatch, ClearedInternal
<1>2. Undelivered = {} /\ Undelivered' = {}
  BY <1>1, UndeliveredAtEnd, UndeliveredEmptied DEF BusInv
<1>3. Merged(Undelivered) = <<>> /\ Merged(Undelivered)' = <<>>
  BY <1>2, MergedEmpty
<1> QED
  BY <1>1, <1>3 DEF Queue!End

LEMMA QueuePasses ==
    ASSUME BusInv, BusInv', EventDone \/ SubscriberThrows
    PROVE  Merged(Undelivered)' = Merged(Undelivered) /\ lastServed' = lastServed
<1>1. serving # 0 /\ serving' = 0 /\ internal' = internal /\ lastServed' = lastServed
      /\ cursors' = [cursors EXCEPT ![serving] = @ + 1]
  BY DEF EventDone, SubscriberThrows, Handing, bufferVars, BusInv, CursorsFit
<1>2. Undelivered' = Undelivered
  BY <1>1, UndeliveredPassed DEF BusInv
<1> QED
  BY <1>1, <1>2

LEMMA QueueStep == BusInv /\ BusInv' /\ [BusNext]_busVars => [Queue!Next]_Queue!vars
<1> DEFINE At(p) == p \in {"dispatching", "subscriber"}
<1> SUFFICES ASSUME BusInv, BusInv', [BusNext]_busVars PROVE [Queue!Next]_Queue!vars
  OBVIOUS
<1>1. ASSUME Still, At(pc)' = At(pc) PROVE [Queue!Next]_Queue!vars
  BY <1>1, StillStays DEF Queue!vars
<1>2. CASE BeginBatch \/ ContinueBatch
  BY <1>2, QueueBegins DEF Queue!Next
<1>3. ASSUME NEW c \in Channels, Publish(c) PROVE [Queue!Next]_Queue!vars
  BY <1>3, QueuePublishes DEF Queue!Next
<1>4. ASSUME NEW c \in Channels,
             PublishInvalid(c) \/ PublishOverflows(c) \/ Subscribe(c) \/ Unsubscribe(c)
      PROVE  [Queue!Next]_Queue!vars
  <2>1. Still /\ pc' = pc
    BY <1>4 DEF PublishInvalid, PublishOverflows, Subscribe, Unsubscribe, Still, bufferVars, dispatchVars
  <2> QED
    BY <1>1, <2>1
<1>5. CASE StartDispatch
  <2>1. Still /\ pc = "running" /\ pc' = "dispatching"
    BY <1>5 DEF StartDispatch, Still, bufferVars, dispatchVars
  <2>2. Queue!Begin
    BY <2>1, StillStays DEF Queue!Begin
  <2> QED
    BY <2>2 DEF Queue!Next
<1>6. CASE TakeEvent
  BY <1>6, QueueDelivers DEF Queue!Next
<1>7. CASE InvokeSubscriber \/ SkipSubscriber \/ SubscriberReturns
  <2>1. Still /\ At(pc) /\ At(pc')
    BY <1>7 DEF InvokeSubscriber, SkipSubscriber, SubscriberReturns, Handing, Still, bufferVars,
                dispatchVars
  <2> QED
    BY <1>1, <2>1
<1>8. CASE SubscriberThrows
  <2>1. pc = "subscriber" /\ pc' = "between"
    BY <1>8 DEF SubscriberThrows
  <2>2. Queue!Abandon
    BY <1>8, <2>1, QueuePasses DEF Queue!Abandon
  <2> QED
    BY <2>2 DEF Queue!Next
<1>9. CASE EventDone
  <2>1. pc' = pc
    BY <1>9 DEF EventDone
  <2> QED
    BY <1>9, <2>1, QueuePasses DEF Queue!vars
<1>10. CASE EndDispatch
  BY <1>10, QueueEnds DEF Queue!Next
<1>11. CASE CompleteStep \/ EndBatch
  <2>1. Still /\ ~At(pc) /\ ~At(pc')
    BY <1>11 DEF CompleteStep, EndBatch, Still, bufferVars, dispatchVars
  <2> QED
    BY <1>1, <2>1
<1>12. CASE UNCHANGED busVars
  <2>1. Still /\ pc' = pc
    BY <1>12 DEF busVars, Still, bufferVars, dispatchVars
  <2> QED
    BY <1>1, <2>1
<1> QED
  BY <1>2, <1>3, <1>4, <1>5, <1>6, <1>7, <1>8, <1>9, <1>10, <1>11, <1>12 DEF BusNext

(* One buffer per channel, merged by dispatchOrder at every turn, is a      *)
(* single first-in-first-out queue: events are handed out in the order they *)
(* were published, those subscribers publish included, and a dispatch       *)
(* leaves none behind (event-bus.ts, dispatch and beginTick).               *)
THEOREM EventQueueCorrect == BusSpec => ImplementsEventQueue
<1>1. BusInv /\ BusInv' /\ [BusNext]_busVars => [Queue!Next]_Queue!vars
  BY QueueStep
<1>2. BusInit => BusInv
  BY BusInvInit
<1> QED
  BY <1>1, <1>2, QueueInit, BusInductive, PTL DEF BusSpec, ImplementsEventQueue, Queue!Spec
=============================================================================
