-------------------------- MODULE GameSystems_proofs --------------------------
(***************************************************************************)
(* For every set of automations, transforms, stages and instances, every   *)
(* capacity and every limit: automations fire no more often than they earn *)
(* it, no batch is late, a mission is settled once, an instance away is    *)
(* held by one batch, and a pending decision can be made by its batch id   *)
(* while the game has not been loaded from a save.                         *)
(***************************************************************************)
EXTENDS GameSystems, FiniteSetTheorems, SequenceTheorems, WellFoundedInduction,
        TLAPS

Phases == {"idle", "commands", "automation", "deliver", "trigger", "deliver again"}

\* The automations of this step have had their turn, batches may be delivered.
Late == phase \in {"deliver", "trigger", "deliver again"}

Entries ==
    [completeAtStep : 0..MAX_SAFE_INTEGER, sequence : Nat, batchId : Nat,
     crew : SUBSET Instances, stage : Stages \cup {NoStage}, pendingDecision : BOOLEAN,
     checkpointRewardsGranted : SUBSET Stages, mission : 0..MaxStarted]

InstanceState(state) ==
    \/ state \in {Unused, Destroyed, Home}
    \/ /\ state = Assignment(state.mission, state.batch, state.returnStep)
       /\ state.returnStep \in Nat

GameTypes ==
    /\ step \in 0..Horizon /\ phase \in Phases
    /\ phase # "idle" => step < Horizon
    /\ turn \in (IF phase = "automation" THEN DOMAIN Automations ELSE DOMAIN Transforms)
    /\ DOMAIN instances = Instances /\ \A i \in Instances : InstanceState(instances[i])
    /\ batches \in [DOMAIN Transforms -> Seq(Entries)]
    /\ batchSequences \in [DOMAIN Transforms -> Nat]
    /\ started \in 0..MaxStarted
    /\ settled \in [1..MaxStarted -> Nat]
    /\ reloaded \in BOOLEAN

-----------------------------------------------------------------------------
(* Automations                                                              *)

HadItsTurn(n) == Late \/ (phase = "automation" /\ n < turn)

(* The clocks of an automation agree, and it has not fired in this step     *)
(* unless it has had its turn; its memory of the threshold is right.        *)
ClockedAt(n) ==
    LET a == automations[n]
    IN  /\ a = [enabled |-> a.enabled, lastFiredStep |-> a.lastFiredStep,
                cooldownExpiresStep |-> a.cooldownExpiresStep,
                lastThresholdSatisfied |-> a.lastThresholdSatisfied]
        /\ a.lastFiredStep \in Int /\ a.cooldownExpiresStep \in Int
        /\ a.lastFiredStep # NEVER_FIRED =>
              /\ a.lastFiredStep \in (-Horizon)..step
              /\ a.lastFiredStep = step => HadItsTurn(n)
              /\ Automations[n].cooldown # 0 =>
                    a.cooldownExpiresStep = a.lastFiredStep + Automations[n].cooldown + 1
              /\ Automations[n].trigger = "resourceThreshold" /\ n \notin dipped =>
                    a.lastThresholdSatisfied

Clocked ==
    /\ DOMAIN automations = DOMAIN Automations
    /\ \A n \in DOMAIN Automations : ClockedAt(n)

-----------------------------------------------------------------------------
(* Batches                                                                  *)

\* What insertBatch keeps: no entry comes before an earlier one.
Sorted(q) == \A m, n \in DOMAIN q : m < n => ~ComesBefore(q[n], q[m])

\* An entry of transform t.
Proper(t, e) ==
    /\ e.mission = NoMission => e.crew = {} /\ e.stage = NoStage
    /\ e.pendingDecision => e.stage # NoStage
    /\ ~reloaded => e.batchId < batchSequences[t]

BatchesKept ==
    \A t \in DOMAIN Transforms :
        /\ Sorted(batches[t]) /\ Len(batches[t]) <= MaxOutstandingBatches
        /\ \A n \in DOMAIN batches[t] : Proper(t, batches[t][n])

\* Two entries that may not both be outstanding.
Clash(t, d, u, e) ==
    \/ d.mission # NoMission /\ d.mission = e.mission
    \/ (d.crew \cap e.crew) \ byHand # {}
    \/ ~reloaded /\ t = u /\ d.batchId = e.batchId

NoClash ==
    \A t, u \in DOMAIN Transforms :
        \A m \in DOMAIN batches[t], n \in DOMAIN batches[u] :
            Clash(t, batches[t][m], u, batches[u][n]) => t = u /\ m = n

OnItsWay(m) ==
    \E t \in DOMAIN Transforms : \E n \in DOMAIN batches[t] : batches[t][n].mission = m

(* What became of each mission.                                             *)
Accounted ==
    \A m \in 1..MaxStarted :
        /\ OnItsWay(m) => m <= started
        /\ settled[m] = IF m <= started /\ ~OnItsWay(m) THEN 1 ELSE 0

-----------------------------------------------------------------------------
(* Instances                                                                *)

\* Instance i is out with entry e of transform t.
OutWith(i, t, e) ==
    /\ instances[i].at = "away"
    /\ instances[i].mission = Transforms[t].id
    /\ instances[i].batch = e.batchId
    /\ instances[i].returnStep =
          IF e.stage = NoStage THEN e.completeAtStep ELSE MAX_SAFE_INTEGER

Held(i) == \E t \in DOMAIN Transforms : \E n \in DOMAIN batches[t] : i \in batches[t][n].crew

(* A crew is out with its batch; who is out without one comes home at the   *)
(* end of this step.                                                        *)
CrewsOut ==
    /\ \A t \in DOMAIN Transforms : \A n \in DOMAIN batches[t] :
          \A i \in batches[t][n].crew \ byHand : OutWith(i, t, batches[t][n])
    /\ \A i \in Away \ byHand : Held(i) \/ (Late /\ instances[i].returnStep <= step)

Counted == availableCount = Cardinality(AvailableInstances)

NothingLate ==
    BetweenTicks =>
        \A t \in DOMAIN Transforms : \A n \in DOMAIN batches[t] :
            batches[t][n].completeAtStep >= step

GameInv ==
    /\ GameTypes
    /\ Clocked
    /\ BatchesKept
    /\ NoClash
    /\ Accounted
    /\ CrewsOut
    /\ Counted
    /\ NothingLate

-----------------------------------------------------------------------------
(* Numbers and sets                                                         *)

(* A set of natural numbers has a least one.                                *)
LEMMA LeastNat ==
    ASSUME NEW S \in SUBSET Nat, S # {}
    PROVE  \E i \in S : \A j \in S : i <= j
<1>1. PICK i \in S : \A j \in S : ~(<<j, i>> \in OpToRel(<, Nat))
  BY WFMin, NatLessThanWellFounded
<1>2. \A j \in S : <<j, i>> \in OpToRel(<, Nat) <=> j < i
  BY DEF OpToRel
<1>3. \A j \in S : ~(j < i)
  BY <1>1, <1>2, Zenon
<1>4. \A j \in S : i <= j
  BY <1>3
<1> QED
  BY <1>4

(* Min finds it: the first batch due, the first option available and the    *)
(* first batch with an id are there (DeliverDueBatch, DecidesByTimeout and  *)
(* Addressed).                                                              *)
LEMMA MinNat ==
    ASSUME NEW S \in SUBSET Nat, S # {}
    PROVE  Min(S) \in S /\ \A j \in S : Min(S) <= j
<1>1. \E i \in S : \A j \in S : i <= j
  BY LeastNat
<1> QED
  BY <1>1 DEF Min

LEMMA MaxZero ==
    ASSUME NEW x \in Int
    PROVE  Max({0, x}) = IF x > 0 THEN x ELSE 0
<1> DEFINE S == {0, x}
           best == IF x > 0 THEN x ELSE 0
<1>1. best \in S /\ \A y \in S : best >= y
  OBVIOUS
<1>2. \A z \in S : (\A y \in S : z >= y) => z = best
  OBVIOUS
<1> QED
  BY <1>1, <1>2 DEF Max

(* The numbers below which every number has a property are 1 to their       *)
(* count.                                                                   *)
LEMMA PrefixCount ==
    ASSUME NEW N \in Nat, NEW S \in SUBSET (1..N), \A m, n \in 1..N : m < n /\ n \in S => m \in S
    PROVE  Cardinality(S) \in 0..N /\ S = 1..Cardinality(S)
<1> DEFINE T == {n \in Nat : n + 1 \notin S}
<1>1. N \in T
  OBVIOUS
<1>2. PICK k \in T : \A j \in T : k <= j
  BY <1>1, LeastNat
<1>3. k \in 0..N
  BY <1>1, <1>2
<1>4. S = 1..k
  <2>1. ASSUME NEW n \in S PROVE n \in 1..k
    BY <1>2
  <2>2. ASSUME NEW n \in 1..k PROVE n \in S
    <3>1. n - 1 \in Nat /\ n - 1 \notin T
      BY <1>2, <1>3
    <3> QED
      BY <3>1
  <2> QED
    BY <2>1, <2>2
<1>5. Cardinality(1..k) = k
  BY <1>3, FS_Interval
<1> QED
  BY <1>3, <1>4, <1>5

-----------------------------------------------------------------------------
(* The queue of a transform: one entry taken out, one put in                *)

Removal(r, q, k) ==
    /\ r \in Seq(Entries) /\ Len(r) = Len(q) - 1
    /\ \A n \in 1..Len(r) : r[n] = IF n < k THEN q[n] ELSE q[n + 1]

Insertion(r, q, p, e) ==
    /\ r \in Seq(Entries) /\ Len(r) = Len(q) + 1 /\ p \in 1..Len(r)
    /\ \A n \in 1..Len(r) :
          r[n] = IF n < p THEN q[n] ELSE IF n = p THEN e ELSE q[n - 1]

LEMMA SliceFacts ==
    ASSUME NEW q \in Seq(Entries), NEW m \in Nat \ {0}, NEW n \in Nat, m <= n + 1, n <= Len(q)
    PROVE  /\ SubSeq(q, m, n) \in Seq(Entries)
           /\ Len(SubSeq(q, m, n)) = n - m + 1
           /\ \A i \in 1..(n - m + 1) : SubSeq(q, m, n)[i] = q[m + i - 1]
<1>1. Len(q) \in Nat /\ q \in [1..Len(q) -> Entries]
  BY LenProperties
<1>2. \A i \in m..n : q[i] \in Entries
  BY <1>1
<1>3. /\ SubSeq(q, m, n) \in Seq(Entries)
      /\ Len(SubSeq(q, m, n)) = IF m <= n THEN n - m + 1 ELSE 0
      /\ \A i \in 1..(n - m + 1) : SubSeq(q, m, n)[i] = q[m + i - 1]
  BY <1>2, SubSeqProperties
<1> QED
  BY <1>3

LEMMA SuffixFacts ==
    ASSUME NEW q \in Seq(Entries), NEW m \in 1..(Len(q) + 1)
    PROVE  /\ SubSeq(q, m, Len(q)) \in Seq(Entries)
           /\ Len(SubSeq(q, m, Len(q))) = Len(q) - m + 1
           /\ \A i \in 1..(Len(q) - m + 1) : SubSeq(q, m, Len(q))[i] = q[m + i - 1]
<1>1. Len(q) \in Nat
  BY LenProperties
<1> QED
  BY <1>1, SliceFacts

LEMMA RemoveAtFacts ==
    ASSUME NEW q \in Seq(Entries), NEW k \in 1..Len(q)
    PROVE  Removal(RemoveAt(q, k), q, k)
<1> DEFINE front == SubSeq(q, 1, k - 1)
           back == SubSeq(q, k + 1, Len(q))
<1>1. Len(q) \in Nat /\ q \in [1..Len(q) -> Entries]
  BY LenProperties
<1>2. /\ front \in Seq(Entries) /\ Len(front) = k - 1
      /\ \A n \in 1..(k - 1) : front[n] = q[n]
  BY <1>1, SliceFacts
<1>3. /\ back \in Seq(Entries) /\ Len(back) = Len(q) - k
      /\ \A n \in 1..(Len(q) - k) : back[n] = q[k + n]
  <2>1. PICK m \in 1..(Len(q) + 1) : m = k + 1
    BY <1>1
  <2>2. /\ SubSeq(q, m, Len(q)) \in Seq(Entries)
        /\ Len(SubSeq(q, m, Len(q))) = Len(q) - m + 1
        /\ \A n \in 1..(Len(q) - m + 1) : SubSeq(q, m, Len(q))[n] = q[m + n - 1]
    BY SuffixFacts
  <2>3. /\ back \in Seq(Entries) /\ Len(back) = Len(q) - m + 1
        /\ \A n \in 1..(Len(q) - m + 1) : back[n] = q[m + n - 1]
    BY <2>1, <2>2
  <2> HIDE DEF back
  <2>4. Len(back) = Len(q) - k
    BY <1>1, <2>1, <2>3
  <2>5. ASSUME NEW n \in 1..(Len(q) - k) PROVE back[n] = q[k + n]
    <3>1. n \in 1..(Len(q) - m + 1) /\ m + n - 1 = k + n
      BY <1>1, <2>1
    <3> QED
      BY <2>3, <3>1
  <2> QED
    BY <2>3, <2>4, <2>5
<1> HIDE DEF front, back
<1>4. /\ front \o back \in Seq(Entries) /\ Len(front \o back) = Len(front) + Len(back)
      /\ \A n \in 1..Len(front) + Len(back) : (front \o back)[n] =
            IF n <= Len(front) THEN front[n] ELSE back[n - Len(front)]
  BY <1>2, <1>3, ConcatProperties
<1>5. RemoveAt(q, k) = front \o back
  BY DEF RemoveAt, front, back
<1>6. ASSUME NEW n \in 1..(Len(q) - 1)
      PROVE  (front \o back)[n] = IF n < k THEN q[n] ELSE q[n + 1]
  <2>1. CASE n < k
    BY <1>1, <1>2, <1>3, <1>4, <2>1
  <2>2. CASE ~(n < k)
    <3>1. (front \o back)[n] = back[n - (k - 1)] /\ n - (k - 1) \in 1..(Len(q) - k)
      BY <1>1, <1>2, <1>3, <1>4, <2>2
    <3>2. k + (n - (k - 1)) = n + 1
      OBVIOUS
    <3> QED
      BY <1>3, <2>2, <3>1, <3>2
  <2> QED
    BY <2>1, <2>2
<1>7. Len(front \o back) = Len(q) - 1
  BY <1>1, <1>2, <1>3, <1>4
<1> QED
  BY <1>4, <1>5, <1>6, <1>7 DEF Removal

LEMMA TailFacts ==
    ASSUME NEW q \in Seq(Entries), q # <<>>
    PROVE  Removal(Tail(q), q, 1)
<1>1. Len(q) \in Nat /\ q \in [1..Len(q) -> Entries] /\ Len(q) # 0
  BY LenProperties, EmptySeq
<1>2. Tail(q) \in Seq(Entries) /\ Len(Tail(q)) = Len(q) - 1
      /\ \A n \in 1..(Len(q) - 1) : Tail(q)[n] = q[n + 1]
  BY <1>1, HeadTailProperties
<1> QED
  BY <1>1, <1>2 DEF Removal

LEMMA InsertAtFacts ==
    ASSUME NEW q \in Seq(Entries), NEW p \in 1..(Len(q) + 1), NEW e \in Entries
    PROVE  Insertion(InsertAt(q, p, e), q, p, e)
<1> DEFINE front == SubSeq(q, 1, p - 1)
           back == SubSeq(q, p, Len(q))
<1>1. Len(q) \in Nat /\ q \in [1..Len(q) -> Entries]
  BY LenProperties
<1>2. /\ front \in Seq(Entries) /\ Len(front) = p - 1
      /\ \A n \in 1..(p - 1) : front[n] = q[n]
  BY <1>1, SliceFacts
<1>3. /\ back \in Seq(Entries) /\ Len(back) = Len(q) - p + 1
      /\ \A n \in 1..(Len(q) - p + 1) : back[n] = q[p + n - 1]
  BY SuffixFacts
<1> HIDE DEF front, back
<1>4. /\ <<e>> \in Seq(Entries) /\ Len(<<e>>) = 1 /\ <<e>>[1] = e
  OBVIOUS
<1> DEFINE one == <<e>>
<1> HIDE DEF one
<1>5. /\ front \o one \in Seq(Entries) /\ Len(front \o one) = p
      /\ \A n \in 1..p : (front \o one)[n] = IF n < p THEN q[n] ELSE e
  <2>1. one \in Seq(Entries) /\ Len(one) = 1 /\ one[1] = e
    BY <1>4 DEF one
  <2>2. /\ front \o one \in Seq(Entries) /\ Len(front \o one) = Len(front) + Len(one)
        /\ \A n \in 1..Len(front) + Len(one) : (front \o one)[n] =
              IF n <= Len(front) THEN front[n] ELSE one[n - Len(front)]
    BY <1>2, <2>1, ConcatProperties
  <2> QED
    BY <1>1, <1>2, <2>1, <2>2
<1> DEFINE start == front \o one
<1>6. start \in Seq(Entries) /\ Len(start) = p
      /\ \A n \in 1..p : start[n] = IF n < p THEN q[n] ELSE e
  BY <1>5
<1>7. InsertAt(q, p, e) = start \o back
  BY DEF InsertAt, front, back, one
<1> HIDE DEF start
<1>8. /\ start \o back \in Seq(Entries) /\ Len(start \o back) = Len(start) + Len(back)
      /\ \A n \in 1..Len(start) + Len(back) : (start \o back)[n] =
            IF n <= Len(start) THEN start[n] ELSE back[n - Len(start)]
  BY <1>3, <1>6, ConcatProperties
<1>9. ASSUME NEW n \in 1..(Len(q) + 1)
      PROVE  (start \o back)[n] = IF n < p THEN q[n] ELSE IF n = p THEN e ELSE q[n - 1]
  <2>1. CASE n <= p
    BY <1>1, <1>3, <1>6, <1>8, <2>1
  <2>2. CASE ~(n <= p)
    <3>1. (start \o back)[n] = back[n - p] /\ n - p \in 1..(Len(q) - p + 1)
      BY <1>1, <1>3, <1>6, <1>8, <2>2
    <3>2. p + (n - p) - 1 = n - 1
      OBVIOUS
    <3> QED
      BY <1>3, <2>2, <3>1, <3>2
  <2> QED
    BY <2>1, <2>2
<1> QED
  BY <1>1, <1>3, <1>6, <1>7, <1>8, <1>9 DEF Insertion

LEMMA BeforeFacts ==
    ASSUME NEW d \in Entries, NEW e \in Entries, NEW f \in Entries
    PROVE  /\ ~ComesBefore(d, e) /\ ComesBefore(d, f) => ComesBefore(e, f)
           /\ ComesBefore(d, e) => ~ComesBefore(e, d)
<1>1. /\ d.completeAtStep \in Int /\ e.completeAtStep \in Int /\ f.completeAtStep \in Int
      /\ d.sequence \in Int /\ e.sequence \in Int /\ f.sequence \in Int
  BY DEF Entries
<1> QED
  BY <1>1 DEF ComesBefore

LEMMA RemovalSorted ==
    ASSUME NEW q \in Seq(Entries), Sorted(q), NEW k \in 1..Len(q), NEW r, Removal(r, q, k)
    PROVE  Sorted(r)
<1>1. Len(q) \in Nat /\ DOMAIN q = 1..Len(q) /\ DOMAIN r = 1..Len(r) /\ Len(r) = Len(q) - 1
  BY LenProperties DEF Removal
<1> DEFINE from(n) == IF n < k THEN n ELSE n + 1
<1>2. \A n \in 1..Len(r) : r[n] = q[from(n)] /\ from(n) \in 1..Len(q)
  BY <1>1 DEF Removal
<1>3. \A m, n \in 1..Len(r) : m < n => from(m) < from(n)
  BY <1>1
<1> HIDE DEF from
<1> QED
  BY <1>1, <1>2, <1>3 DEF Sorted

\* insertBatch puts the entry at a place that leaves the queue in order.
LEMMA InsertBatchFacts ==
    ASSUME NEW q \in Seq(Entries), Sorted(q), NEW e \in Entries
    PROVE  /\ \E p \in 1..(Len(q) + 1) : Insertion(insertBatch(q, e), q, p, e)
           /\ Sorted(insertBatch(q, e))
<1> DEFINE earlier == {n \in DOMAIN q : ComesBefore(q[n], e)}
           p == Cardinality(earlier) + 1
           r == insertBatch(q, e)
<1>1. Len(q) \in Nat /\ DOMAIN q = 1..Len(q) /\ \A n \in 1..Len(q) : q[n] \in Entries
  BY LenProperties
<1>2. earlier \in SUBSET (1..Len(q))
  BY <1>1
<1>3. ASSUME NEW m \in 1..Len(q), NEW n \in 1..Len(q), m < n, n \in earlier
      PROVE  m \in earlier
  <2>1. ~ComesBefore(q[n], q[m]) /\ ComesBefore(q[n], e)
    BY <1>1, <1>3 DEF Sorted
  <2> QED
    BY <1>1, <2>1, BeforeFacts
<1>4. \A n \in 1..Len(q) : ComesBefore(q[n], e) <=> n \in earlier
  BY <1>1
<1> HIDE DEF earlier
<1>5. Cardinality(earlier) \in 0..Len(q) /\ earlier = 1..Cardinality(earlier)
  BY <1>1, <1>2, <1>3, PrefixCount
<1>6. p \in 1..(Len(q) + 1) /\ \A n \in 1..Len(q) : ComesBefore(q[n], e) <=> n < p
  BY <1>1, <1>4, <1>5
<1>7. r = InsertAt(q, p, e)
  BY DEF insertBatch, earlier
<1> HIDE DEF p, r
<1>8. Insertion(r, q, p, e)
  BY <1>6, <1>7, InsertAtFacts
<1>9. Sorted(r)
  <2>1. DOMAIN r = 1..Len(r) /\ Len(r) = Len(q) + 1
    BY <1>8, LenProperties DEF Insertion
  <2>2. ASSUME NEW m \in 1..Len(r), NEW n \in 1..Len(r), m < n
        PROVE  ~ComesBefore(r[n], r[m])
    <3>1. CASE n < p
      <4>1. r[n] = q[n] /\ r[m] = q[m] /\ m \in 1..Len(q) /\ n \in 1..Len(q)
        BY <1>1, <1>6, <1>8, <2>1, <2>2, <3>1 DEF Insertion
      <4> QED
        BY <1>1, <2>2, <4>1 DEF Sorted
    <3>2. CASE n = p
      <4>1. r[n] = e /\ r[m] = q[m] /\ m \in 1..Len(q) /\ m < p
        BY <1>1, <1>6, <1>8, <2>1, <2>2, <3>2 DEF Insertion
      <4>2. ComesBefore(q[m], e)
        BY <1>6, <4>1
      <4> QED
        BY <1>1, <4>1, <4>2, BeforeFacts
    <3>3. CASE p < n
      <4> DEFINE k == n - 1
      <4>1. r[n] = q[k] /\ k \in 1..Len(q) /\ ~(k < p)
        BY <1>1, <1>6, <1>8, <2>1, <3>3 DEF Insertion
      <4>2. CASE m < p
        <5>1. r[m] = q[m] /\ m \in 1..Len(q) /\ m < k
          BY <1>1, <1>6, <1>8, <2>1, <3>3, <4>2 DEF Insertion
        <5> QED
          BY <1>1, <4>1, <5>1 DEF Sorted
      <4>3. CASE m = p
        <5>1. r[m] = e
          BY <1>1, <1>6, <1>8, <2>1, <4>3 DEF Insertion
        <5> QED
          BY <1>6, <4>1, <5>1
      <4>4. CASE p < m
        <5>1. r[m] = q[m - 1] /\ m - 1 \in 1..Len(q) /\ m - 1 < k
          BY <1>1, <1>6, <1>8, <2>1, <2>2, <4>4 DEF Insertion
        <5> QED
          BY <1>1, <4>1, <5>1 DEF Sorted
      <4> QED
        BY <1>6, <4>2, <4>3, <4>4
    <3> QED
      BY <1>6, <2>1, <3>1, <3>2, <3>3
  <2> QED
    BY <2>1, <2>2 DEF Sorted
<1> QED
  BY <1>6, <1>8, <1>9 DEF r

-----------------------------------------------------------------------------
(* Where the entries of the next state come from: from[n] is the place of   *)
(* entry n before, 0 for one that is new.                                   *)

Rearranged(r, q, from, gone, new, e) ==
    /\ from \in [1..Len(r) -> ((1..Len(q)) \ gone) \cup new]
    /\ \A m, n \in 1..Len(r) : from[m] = from[n] => m = n
    /\ \A k \in ((1..Len(q)) \ gone) \cup new : \E n \in 1..Len(r) : from[n] = k
    /\ \A n \in 1..Len(r) : r[n] = IF from[n] = 0 THEN e ELSE q[from[n]]

LEMMA InsertionRearranges ==
    ASSUME NEW q \in Seq(Entries), NEW e, NEW r, NEW p, Insertion(r, q, p, e)
    PROVE  \E from : Rearranged(r, q, from, {}, {0}, e)
<1>1. Len(q) \in Nat /\ Len(r) = Len(q) + 1 /\ p \in 1..Len(r)
  BY LenProperties DEF Insertion
<1> DEFINE from == [n \in 1..Len(r) |-> IF n < p THEN n ELSE IF n = p THEN 0 ELSE n - 1]
<1>2. from \in [1..Len(r) -> ((1..Len(q)) \ {}) \cup {0}]
  BY <1>1
<1>3. \A m, n \in 1..Len(r) : from[m] = from[n] => m = n
  BY <1>1
<1>4. ASSUME NEW k \in ((1..Len(q)) \ {}) \cup {0} PROVE \E n \in 1..Len(r) : from[n] = k
  <2>1. CASE k = 0
    BY <1>1, <2>1
  <2>2. CASE k \in 1..(p - 1)
    BY <1>1, <2>2
  <2>3. CASE k \in p..Len(q)
    <3>1. k + 1 \in 1..Len(r) /\ from[k + 1] = k
      BY <1>1, <2>3
    <3> QED
      BY <3>1
  <2> QED
    BY <1>1, <2>1, <2>2, <2>3
<1>5. \A n \in 1..Len(r) : r[n] = IF from[n] = 0 THEN e ELSE q[from[n]]
  BY <1>1 DEF Insertion
<1> QED
  BY <1>2, <1>3, <1>4, <1>5 DEF Rearranged

LEMMA RemovalRearranges ==
    ASSUME NEW q \in Seq(Entries), NEW k \in 1..Len(q), NEW r, Removal(r, q, k), NEW e
    PROVE  \E from : Rearranged(r, q, from, {k}, {}, e)
<1>1. Len(q) \in Nat /\ Len(r) = Len(q) - 1
  BY LenProperties DEF Removal
<1> DEFINE from == [n \in 1..Len(r) |-> IF n < k THEN n ELSE n + 1]
<1>2. from \in [1..Len(r) -> ((1..Len(q)) \ {k}) \cup {}]
  BY <1>1
<1>3. \A m, n \in 1..Len(r) : from[m] = from[n] => m = n
  BY <1>1
<1>4. ASSUME NEW j \in ((1..Len(q)) \ {k}) \cup {} PROVE \E n \in 1..Len(r) : from[n] = j
  <2>1. CASE j < k
    BY <1>1, <2>1
  <2>2. CASE j > k
    <3>1. j - 1 \in 1..Len(r) /\ from[j - 1] = j
      BY <1>1, <2>2
    <3> QED
      BY <3>1
  <2> QED
    BY <1>1, <2>1, <2>2
<1>5. \A n \in 1..Len(r) : r[n] = IF from[n] = 0 THEN e ELSE q[from[n]]
  BY <1>1 DEF Removal
<1> QED
  BY <1>2, <1>3, <1>4, <1>5 DEF Rearranged

\* Taken out at k and put in again.
LEMMA MoveRearranges ==
    ASSUME NEW q \in Seq(Entries), NEW k \in 1..Len(q), NEW s, Removal(s, q, k),
           NEW e, NEW r, NEW p, Insertion(r, s, p, e)
    PROVE  \E from : Rearranged(r, q, from, {k}, {0}, e)
<1>1. PICK out : Rearranged(s, q, out, {k}, {}, e)
  BY RemovalRearranges
<1>2. s \in Seq(Entries) /\ Len(s) \in Nat
  BY LenProperties DEF Removal
<1>3. PICK in : Rearranged(r, s, in, {}, {0}, e)
  BY <1>2, InsertionRearranges
<1> DEFINE from == [n \in 1..Len(r) |-> IF in[n] = 0 THEN 0 ELSE out[in[n]]]
<1>4. /\ \A n \in 1..Len(r) : in[n] = 0 \/ in[n] \in 1..Len(s)
      /\ \A n \in 1..Len(s) : out[n] \in (1..Len(q)) \ {k} /\ out[n] # 0
  <2>1. in \in [1..Len(r) -> ((1..Len(s)) \ {}) \cup {0}]
    BY <1>3 DEF Rearranged
  <2>2. out \in [1..Len(s) -> ((1..Len(q)) \ {k}) \cup {}]
    BY <1>1 DEF Rearranged
  <2>3. Len(q) \in Nat
    BY LenProperties
  <2> QED
    BY <2>1, <2>2, <2>3
<1>5. from \in [1..Len(r) -> ((1..Len(q)) \ {k}) \cup {0}]
  BY <1>4
<1>6. \A m, n \in 1..Len(r) : from[m] = from[n] => m = n
  BY <1>1, <1>3, <1>4 DEF Rearranged
<1>7. ASSUME NEW j \in ((1..Len(q)) \ {k}) \cup {0} PROVE \E n \in 1..Len(r) : from[n] = j
  <2>1. CASE j = 0
    BY <1>3, <2>1 DEF Rearranged
  <2>2. CASE j # 0
    <3>1. PICK l \in 1..Len(s) : out[l] = j
      BY <1>1, <2>2 DEF Rearranged
    <3>2. PICK n \in 1..Len(r) : in[n] = l
      BY <1>3 DEF Rearranged
    <3> QED
      BY <1>2, <3>1, <3>2
  <2> QED
    BY <2>1, <2>2
<1>8. \A n \in 1..Len(r) : r[n] = IF from[n] = 0 THEN e ELSE q[from[n]]
  BY <1>1, <1>3, <1>4 DEF Rearranged
<1> QED
  BY <1>5, <1>6, <1>7, <1>8 DEF Rearranged

(* The batches change only by what is gone from transform t and by e.       *)
Carried(F, t, gone, new, e) ==
    /\ batches' \in [DOMAIN Transforms -> Seq(Entries)]
    /\ \A u \in DOMAIN Transforms :
          /\ Sorted(batches'[u]) /\ Len(batches'[u]) <= MaxOutstandingBatches
          /\ \A n \in DOMAIN batches'[u] :
                \/ /\ F[u][n] \in DOMAIN batches[u] /\ ~(u = t /\ F[u][n] \in gone)
                   /\ batches'[u][n] = batches[u][F[u][n]]
                \/ u = t /\ F[u][n] = 0 /\ 0 \in new /\ batches'[u][n] = e
          /\ \A m, n \in DOMAIN batches'[u] : F[u][m] = F[u][n] => m = n
          /\ \A k \in DOMAIN batches[u] : ~(u = t /\ k \in gone) =>
                \E n \in DOMAIN batches'[u] : F[u][n] = k /\ batches'[u][n] = batches[u][k]
    /\ 0 \in new => \E n \in DOMAIN batches'[t] : F[t][n] = 0 /\ batches'[t][n] = e

LEMMA QueueTyped ==
    ASSUME GameTypes, NEW u \in DOMAIN Transforms
    PROVE  /\ batches[u] \in Seq(Entries) /\ Len(batches[u]) \in Nat
           /\ DOMAIN batches[u] = 1..Len(batches[u])
           /\ \A n \in DOMAIN batches[u] : batches[u][n] \in Entries
<1>1. batches[u] \in Seq(Entries)
  BY DEF GameTypes
<1> QED
  BY <1>1, LenProperties

LEMMA CarriedOver ==
    ASSUME GameTypes, BatchesKept, NEW t \in DOMAIN Transforms,
           NEW r \in Seq(Entries), Sorted(r), Len(r) <= MaxOutstandingBatches,
           batches' = [batches EXCEPT ![t] = r],
           NEW from, NEW gone, NEW new \in SUBSET {0}, NEW e,
           Rearranged(r, batches[t], from, gone, new, e)
    PROVE  \E F : Carried(F, t, gone, new, e)
<1> DEFINE F == [u \in DOMAIN Transforms |->
                    IF u = t THEN from ELSE [n \in 1..Len(batches[u]) |-> n]]
<1>1. batches' \in [DOMAIN Transforms -> Seq(Entries)] /\ batches'[t] = r
      /\ \A u \in DOMAIN Transforms : u # t => batches'[u] = batches[u]
  BY DEF GameTypes
<1>2. DOMAIN r = 1..Len(r) /\ DOMAIN batches[t] = 1..Len(batches[t]) /\ Len(batches[t]) \in Nat
  BY LenProperties, QueueTyped
<1>3. /\ \A n \in 1..Len(r) : from[n] \in ((1..Len(batches[t])) \ gone) \cup new
      /\ \A m, n \in 1..Len(r) : from[m] = from[n] => m = n
      /\ \A k \in ((1..Len(batches[t])) \ gone) \cup new : \E n \in 1..Len(r) : from[n] = k
      /\ \A n \in 1..Len(r) : r[n] = IF from[n] = 0 THEN e ELSE batches[t][from[n]]
  BY DEF Rearranged
<1>4. ASSUME NEW u \in DOMAIN Transforms
      PROVE  /\ Sorted(batches'[u]) /\ Len(batches'[u]) <= MaxOutstandingBatches
             /\ \A n \in DOMAIN batches'[u] :
                   \/ /\ F[u][n] \in DOMAIN batches[u] /\ ~(u = t /\ F[u][n] \in gone)
                      /\ batches'[u][n] = batches[u][F[u][n]]
                   \/ u = t /\ F[u][n] = 0 /\ 0 \in new /\ batches'[u][n] = e
             /\ \A m, n \in DOMAIN batches'[u] : F[u][m] = F[u][n] => m = n
             /\ \A k \in DOMAIN batches[u] : ~(u = t /\ k \in gone) =>
                   \E n \in DOMAIN batches'[u] : F[u][n] = k /\ batches'[u][n] = batches[u][k]
  <2>1. CASE u = t
    <3>1. F[u] = from /\ batches'[u] = r
      BY <1>1, <2>1
    <3> HIDE DEF F
    <3>2. ASSUME NEW n \in DOMAIN batches'[u]
          PROVE  \/ /\ F[u][n] \in DOMAIN batches[u] /\ ~(u = t /\ F[u][n] \in gone)
                    /\ batches'[u][n] = batches[u][F[u][n]]
                 \/ u = t /\ F[u][n] = 0 /\ 0 \in new /\ batches'[u][n] = e
      <4>1. n \in 1..Len(r) /\ from[n] \in ((1..Len(batches[t])) \ gone) \cup new
        BY <1>2, <1>3, <3>1
      <4>2. CASE from[n] \in (1..Len(batches[t])) \ gone
        <5>1. from[n] # 0 /\ r[n] = batches[t][from[n]]
          BY <1>3, <4>1, <4>2
        <5> QED
          BY <1>2, <2>1, <3>1, <4>2, <5>1
      <4>3. CASE from[n] \in new
        <5>1. from[n] = 0 /\ r[n] = e
          BY <1>3, <4>1, <4>3
        <5> QED
          BY <2>1, <3>1, <4>3, <5>1
      <4> QED
        BY <4>1, <4>2, <4>3
    <3>3. ASSUME NEW k \in DOMAIN batches[u], ~(u = t /\ k \in gone)
          PROVE  \E n \in DOMAIN batches'[u] : F[u][n] = k /\ batches'[u][n] = batches[u][k]
      <4>1. PICK n \in 1..Len(r) : from[n] = k
        BY <1>2, <1>3, <2>1, <3>3
      <4>2. k # 0
        BY <1>2, <2>1
      <4>3. r[n] = batches[t][k]
        BY <1>3, <4>1, <4>2
      <4> QED
        BY <1>2, <2>1, <3>1, <4>1, <4>3
    <3> QED
      BY <1>2, <1>3, <2>1, <3>1, <3>2, <3>3
  <2>2. CASE u # t
    <3>1. F[u] = [n \in 1..Len(batches[u]) |-> n] /\ batches'[u] = batches[u]
      BY <1>1, <2>2
    <3>2. DOMAIN batches[u] = 1..Len(batches[u])
      BY QueueTyped
    <3> HIDE DEF F
    <3> QED
      BY <2>2, <3>1, <3>2 DEF BatchesKept
  <2> QED
    BY <2>1, <2>2
<1>5. 0 \in new => \E n \in DOMAIN batches'[t] : F[t][n] = 0 /\ batches'[t][n] = e
  BY <1>1, <1>2, <1>3
<1> HIDE DEF F
<1>6. Carried(F, t, gone, new, e)
  BY <1>1, <1>4, <1>5 DEF Carried
<1> QED
  BY <1>6

\* A run adds an entry.
LEMMA AddCarried ==
    ASSUME GameTypes, BatchesKept, NEW t \in DOMAIN Transforms, NEW e \in Entries,
           Len(batches[t]) < MaxOutstandingBatches,
           batches' = [batches EXCEPT ![t] = insertBatch(@, e)]
    PROVE  \E F : Carried(F, t, {}, {0}, e)
<1> DEFINE r == insertBatch(batches[t], e)
<1>1. batches[t] \in Seq(Entries) /\ Len(batches[t]) \in Nat /\ Sorted(batches[t])
  BY QueueTyped DEF BatchesKept
<1>2. PICK p \in 1..(Len(batches[t]) + 1) : Insertion(r, batches[t], p, e)
  BY <1>1, InsertBatchFacts
<1>3. Sorted(r)
  BY <1>1, InsertBatchFacts
<1>4. batches' = [batches EXCEPT ![t] = r]
  OBVIOUS
<1> HIDE DEF r
<1>5. r \in Seq(Entries) /\ Len(r) <= MaxOutstandingBatches
  BY <1>1, <1>2, TransformsAssumption DEF Insertion
<1>6. PICK from : Rearranged(r, batches[t], from, {}, {0}, e)
  BY <1>1, <1>2, InsertionRearranges
<1> QED
  BY <1>3, <1>4, <1>5, <1>6, CarriedOver

\* An entry is taken off the queue.
LEMMA DropCarried ==
    ASSUME GameTypes, BatchesKept, NEW t \in DOMAIN Transforms, NEW k \in DOMAIN batches[t],
           NEW s, Removal(s, batches[t], k), batches' = [batches EXCEPT ![t] = s]
    PROVE  \E F : Carried(F, t, {k}, {}, batches[t][k])
<1>1. /\ batches[t] \in Seq(Entries) /\ Len(batches[t]) \in Nat /\ Sorted(batches[t])
      /\ k \in 1..Len(batches[t]) /\ Len(batches[t]) <= MaxOutstandingBatches
  BY QueueTyped DEF BatchesKept
<1>2. s \in Seq(Entries) /\ Sorted(s) /\ Len(s) = Len(batches[t]) - 1
  BY <1>1, RemovalSorted DEF Removal
<1>3. Len(s) <= MaxOutstandingBatches
  BY <1>1, <1>2, TransformsAssumption
<1>4. PICK from : Rearranged(s, batches[t], from, {k}, {}, batches[t][k])
  BY <1>1, RemovalRearranges
<1> QED
  BY <1>2, <1>3, <1>4, CarriedOver

\* It is taken off the queue and comes back as e.
LEMMA MoveCarried ==
    ASSUME GameTypes, BatchesKept, NEW t \in DOMAIN Transforms, NEW k \in DOMAIN batches[t],
           NEW s, Removal(s, batches[t], k), NEW e \in Entries,
           batches' = [batches EXCEPT ![t] = insertBatch(s, e)]
    PROVE  \E F : Carried(F, t, {k}, {0}, e)
<1> DEFINE r == insertBatch(s, e)
<1>1. /\ batches[t] \in Seq(Entries) /\ Len(batches[t]) \in Nat /\ Sorted(batches[t])
      /\ k \in 1..Len(batches[t]) /\ Len(batches[t]) <= MaxOutstandingBatches
  BY QueueTyped DEF BatchesKept
<1>2. s \in Seq(Entries) /\ Sorted(s) /\ Len(s) = Len(batches[t]) - 1
  BY <1>1, RemovalSorted DEF Removal
<1>3. PICK p \in 1..(Len(s) + 1) : Insertion(r, s, p, e)
  BY <1>2, InsertBatchFacts
<1>4. Sorted(r) /\ batches' = [batches EXCEPT ![t] = r]
  BY <1>2, InsertBatchFacts
<1> HIDE DEF r
<1>5. r \in Seq(Entries) /\ Len(r) <= MaxOutstandingBatches
  BY <1>1, <1>2, <1>3, TransformsAssumption DEF Insertion
<1>6. PICK from : Rearranged(r, batches[t], from, {k}, {0}, e)
  BY <1>1, <1>3, MoveRearranges
<1> QED
  BY <1>4, <1>5, <1>6, CarriedOver

LEMMA ProperCarried ==
    ASSUME BatchesKept, NEW F, NEW t \in DOMAIN Transforms, NEW gone, NEW new, NEW e,
           Carried(F, t, gone, new, e), reloaded' = reloaded,
           \A u \in DOMAIN Transforms :
               /\ batchSequences[u] \in Nat /\ batchSequences'[u] \in Nat
               /\ batchSequences[u] <= batchSequences'[u]
               /\ \A n \in DOMAIN batches[u] : batches[u][n].batchId \in Nat,
           0 \in new => Proper(t, e)'
    PROVE  BatchesKept'
<1> SUFFICES ASSUME NEW u \in DOMAIN Transforms, NEW n \in DOMAIN batches'[u]
             PROVE  Proper(u, batches[u][n])'
  BY DEF BatchesKept, Carried
<1>1. CASE u = t /\ F[u][n] = 0 /\ 0 \in new /\ batches'[u][n] = e
  BY <1>1 DEF Proper
<1>2. CASE F[u][n] \in DOMAIN batches[u] /\ batches'[u][n] = batches[u][F[u][n]]
  <2>1. Proper(u, batches[u][F[u][n]])
    BY <1>2 DEF BatchesKept
  <2>2. batches[u][F[u][n]].batchId \in Nat
    BY <1>2
  <2> QED
    BY <1>2, <2>1, <2>2 DEF Proper
<1> QED
  BY <1>1, <1>2 DEF Carried

LEMMA NoClashCarried ==
    ASSUME NoClash, NEW F, NEW t \in DOMAIN Transforms, NEW gone, NEW new, NEW e,
           Carried(F, t, gone, new, e), reloaded' = reloaded, byHand \subseteq byHand',
           0 \in new => \A v \in DOMAIN Transforms : \A k \in DOMAIN batches[v] :
                            Clash(t, e, v, batches[v][k]) => v = t /\ k \in gone
    PROVE  NoClash'
<1> SUFFICES ASSUME NEW u \in DOMAIN Transforms, NEW v \in DOMAIN Transforms,
                    NEW m \in DOMAIN batches'[u], NEW n \in DOMAIN batches'[v],
                    Clash(u, batches[u][m], v, batches[v][n])'
             PROVE  u = v /\ m = n
  BY DEF NoClash
<1> DEFINE Old(w, k) == /\ F[w][k] \in DOMAIN batches[w] /\ ~(w = t /\ F[w][k] \in gone)
                        /\ batches'[w][k] = batches[w][F[w][k]]
           New(w, k) == w = t /\ F[w][k] = 0 /\ 0 \in new /\ batches'[w][k] = e
<1>1. (Old(u, m) \/ New(u, m)) /\ (Old(v, n) \/ New(v, n))
  BY DEF Carried
<1>2. \A x, y \in DOMAIN batches'[u] : F[u][x] = F[u][y] => x = y
  BY DEF Carried
<1>3. CASE Old(u, m) /\ Old(v, n)
  <2>1. Clash(u, batches[u][F[u][m]], v, batches[v][F[v][n]])
    BY <1>3 DEF Clash
  <2>2. u = v /\ F[u][m] = F[v][n]
    BY <1>3, <2>1 DEF NoClash
  <2> QED
    BY <1>2, <2>2
<1>4. CASE New(u, m) /\ Old(v, n)
  <2>1. Clash(t, e, v, batches[v][F[v][n]])
    BY <1>4 DEF Clash
  <2> QED
    BY <1>4, <2>1
<1>5. CASE Old(u, m) /\ New(v, n)
  <2>1. Clash(t, e, u, batches[u][F[u][m]])
    BY <1>5 DEF Clash
  <2> QED
    BY <1>5, <2>1
<1>6. CASE New(u, m) /\ New(v, n)
  BY <1>2, <1>6
<1> QED
  BY <1>1, <1>3, <1>4, <1>5, <1>6

\* On its way, or held, by an entry that is not gone.
StillOnItsWay(m, t, gone) ==
    \E u \in DOMAIN Transforms : \E k \in DOMAIN batches[u] :
        ~(u = t /\ k \in gone) /\ batches[u][k].mission = m

StillHeld(i, t, gone) ==
    \E u \in DOMAIN Transforms : \E k \in DOMAIN batches[u] :
        ~(u = t /\ k \in gone) /\ i \in batches[u][k].crew

LEMMA OnItsWayCarried ==
    ASSUME NEW F, NEW t \in DOMAIN Transforms, NEW gone, NEW new, NEW e,
           Carried(F, t, gone, new, e), NEW m
    PROVE  OnItsWay(m)' <=> (0 \in new /\ e.mission = m) \/ StillOnItsWay(m, t, gone)
<1> USE DEF StillOnItsWay
<1>1. ASSUME OnItsWay(m)'
      PROVE  \/ 0 \in new /\ e.mission = m
             \/ \E u \in DOMAIN Transforms : \E k \in DOMAIN batches[u] :
                    ~(u = t /\ k \in gone) /\ batches[u][k].mission = m
  <2>1. PICK u \in DOMAIN Transforms :
            \E n \in DOMAIN batches'[u] : batches'[u][n].mission = m
    BY <1>1 DEF OnItsWay
  <2>2. PICK n \in DOMAIN batches'[u] : batches'[u][n].mission = m
    BY <2>1
  <2> QED
    BY <2>2 DEF Carried
<1>2. ASSUME 0 \in new, e.mission = m PROVE OnItsWay(m)'
  BY <1>2 DEF OnItsWay, Carried
<1>3. ASSUME NEW u \in DOMAIN Transforms, NEW k \in DOMAIN batches[u],
             ~(u = t /\ k \in gone), batches[u][k].mission = m
      PROVE  OnItsWay(m)'
  <2>1. PICK n \in DOMAIN batches'[u] : batches'[u][n] = batches[u][k]
    BY <1>3 DEF Carried
  <2> QED
    BY <1>3, <2>1 DEF OnItsWay
<1> QED
  BY <1>1, <1>2, <1>3

LEMMA HeldCarried ==
    ASSUME NEW F, NEW t \in DOMAIN Transforms, NEW gone, NEW new, NEW e,
           Carried(F, t, gone, new, e), NEW i
    PROVE  Held(i)' <=> (0 \in new /\ i \in e.crew) \/ StillHeld(i, t, gone)
<1> USE DEF StillHeld
<1>1. ASSUME Held(i)'
      PROVE  \/ 0 \in new /\ i \in e.crew
             \/ \E u \in DOMAIN Transforms : \E k \in DOMAIN batches[u] :
                    ~(u = t /\ k \in gone) /\ i \in batches[u][k].crew
  <2>1. PICK u \in DOMAIN Transforms :
            \E n \in DOMAIN batches'[u] : i \in batches'[u][n].crew
    BY <1>1 DEF Held
  <2>2. PICK n \in DOMAIN batches'[u] : i \in batches'[u][n].crew
    BY <2>1
  <2> QED
    BY <2>2 DEF Carried
<1>2. ASSUME 0 \in new, i \in e.crew PROVE Held(i)'
  BY <1>2 DEF Held, Carried
<1>3. ASSUME NEW u \in DOMAIN Transforms, NEW k \in DOMAIN batches[u],
             ~(u = t /\ k \in gone), i \in batches[u][k].crew
      PROVE  Held(i)'
  <2>1. PICK n \in DOMAIN batches'[u] : batches'[u][n] = batches[u][k]
    BY <1>3 DEF Carried
  <2> QED
    BY <1>3, <2>1 DEF Held
<1> QED
  BY <1>1, <1>2, <1>3

-----------------------------------------------------------------------------
(* The batches and their crews, from step to step                           *)

SameMoment ==
    /\ step' = step /\ reloaded' = reloaded
    /\ Late => Late'
    /\ BetweenTicks' => BetweenTicks

\* The conjuncts of the invariant that are about the batches.
BatchInv == BatchesKept /\ NoClash /\ Accounted /\ CrewsOut /\ NothingLate

LEMMA NothingLateCarried ==
    ASSUME NothingLate, SameMoment, NEW F, NEW t \in DOMAIN Transforms, NEW gone, NEW new, NEW e,
           Carried(F, t, gone, new, e), 0 \in new => e.completeAtStep >= step
    PROVE  NothingLate'
<1> SUFFICES ASSUME BetweenTicks', NEW u \in DOMAIN Transforms, NEW n \in DOMAIN batches'[u]
             PROVE  batches'[u][n].completeAtStep >= step'
  BY DEF NothingLate
<1>1. BetweenTicks /\ step' = step
  BY DEF SameMoment
<1>2. CASE u = t /\ F[u][n] = 0 /\ 0 \in new /\ batches'[u][n] = e
  BY <1>1, <1>2
<1>3. CASE F[u][n] \in DOMAIN batches[u] /\ batches'[u][n] = batches[u][F[u][n]]
  BY <1>1, <1>3 DEF NothingLate
<1> QED
  BY <1>2, <1>3 DEF Carried

\* A run adds entry e, with an instance in its crew if it is a mission.
Sends(t, e) ==
    \/ e.mission = NoMission /\ e.crew = {} /\ UNCHANGED <<started, instances>>
    \/ /\ e.mission = started + 1 /\ started' = started + 1
       /\ \E i \in AvailableInstances :
             /\ e.crew = {i}
             /\ instances' = [instances EXCEPT ![i] =
                   Assignment(Transforms[t].id, e.batchId,
                              IF e.stage = NoStage THEN e.completeAtStep
                                                   ELSE MAX_SAFE_INTEGER)]

LEMMA AddStep ==
    ASSUME GameTypes, BatchInv, SameMoment, UNCHANGED <<byHand, settled>>,
           NEW t \in DOMAIN Transforms, NEW e \in Entries, NEW F, Carried(F, t, {}, {0}, e),
           Proper(t, e)', e.completeAtStep >= step,
           e.batchId = batchSequences[t],
           batchSequences' = [batchSequences EXCEPT ![t] = @ + 1],
           Sends(t, e)
    PROVE  BatchInv'
<1> USE DEF BatchInv
<1>1. \A u \in DOMAIN Transforms :
          /\ batchSequences[u] \in Nat /\ batchSequences'[u] \in Nat
          /\ batchSequences[u] <= batchSequences'[u]
          /\ \A n \in DOMAIN batches[u] : batches[u][n] \in Entries
  BY QueueTyped DEF GameTypes
<1>2. BatchesKept'
  <2>1. \A u \in DOMAIN Transforms : \A n \in DOMAIN batches[u] : batches[u][n].batchId \in Nat
    BY <1>1 DEF Entries
  <2> QED
    BY <1>1, <2>1, ProperCarried DEF SameMoment
<1>3. started \in Nat /\ started' \in Nat /\ started <= started'
  BY DEF GameTypes, Sends
<1>4. \A u \in DOMAIN Transforms : \A n \in DOMAIN batches[u] :
          /\ batches[u][n].mission \in Nat
          /\ batches[u][n].mission # NoMission => batches[u][n].mission <= started
  <2> SUFFICES ASSUME NEW u \in DOMAIN Transforms, NEW n \in DOMAIN batches[u]
               PROVE  /\ batches[u][n].mission \in 0..MaxStarted
                      /\ batches[u][n].mission # NoMission => batches[u][n].mission <= started
    OBVIOUS
  <2>1. batches[u][n].mission \in 0..MaxStarted
    BY <1>1 DEF Entries
  <2> QED
    BY <2>1 DEF Accounted, OnItsWay, NoMission
<1>5. \A i \in e.crew \ byHand : /\ instances[i].at = "home"
                                 /\ \A u \in DOMAIN Transforms : \A n \in DOMAIN batches[u] :
                                        i \notin batches[u][n].crew
  BY DEF Sends, AvailableInstances, At, CrewsOut, OutWith
<1>6. NoClash'
  <2>1. ASSUME NEW v \in DOMAIN Transforms, NEW k \in DOMAIN batches[v],
               Clash(t, e, v, batches[v][k])
        PROVE  v = t /\ k \in {}
    <3>1. CASE e.mission # NoMission /\ e.mission = batches[v][k].mission
      <4>1. e.mission = started + 1 /\ batches[v][k].mission <= started
        BY <1>4, <3>1 DEF Sends
      <4> QED
        BY <1>3, <3>1, <4>1
    <3>2. CASE (e.crew \cap batches[v][k].crew) \ byHand # {}
      BY <1>5, <3>2
    <3>3. CASE ~reloaded /\ t = v /\ e.batchId = batches[v][k].batchId
      <4>1. batches[v][k].batchId < batchSequences[v]
        BY <3>3 DEF BatchesKept, Proper
      <4> QED
        BY <1>1, <3>3, <4>1
    <3> QED
      BY <2>1, <3>1, <3>2, <3>3 DEF Clash
  <2> QED
    BY <2>1, NoClashCarried DEF SameMoment
<1>7. Accounted'
  <2> SUFFICES ASSUME NEW m \in 1..MaxStarted
               PROVE  /\ OnItsWay(m)' => m <= started'
                      /\ settled'[m] = IF m <= started' /\ ~OnItsWay(m)' THEN 1 ELSE 0
    BY DEF Accounted
  <2>1. OnItsWay(m)' <=> e.mission = m \/ OnItsWay(m)
    <3>1. OnItsWay(m)' <=> (0 \in {0} /\ e.mission = m) \/ StillOnItsWay(m, t, {})
      BY OnItsWayCarried
    <3>2. StillOnItsWay(m, t, {}) <=> OnItsWay(m)
      BY DEF OnItsWay, StillOnItsWay
    <3> QED
      BY <3>1, <3>2
  <2>2. /\ OnItsWay(m) => m <= started
        /\ settled'[m] = IF m <= started /\ ~OnItsWay(m) THEN 1 ELSE 0
    BY DEF Accounted
  <2>3. CASE e.mission = NoMission /\ started' = started
    BY <2>1, <2>2, <2>3 DEF NoMission
  <2>4. CASE e.mission = started + 1 /\ started' = started + 1
    BY <1>3, <2>1, <2>2, <2>4
  <2> QED
    BY <2>3, <2>4 DEF Sends
<1>8. \A j \in Instances : j \notin e.crew => instances'[j] = instances[j]
  BY DEF Sends, GameTypes
<1>9. CrewsOut'
  <2>1. ASSUME NEW u \in DOMAIN Transforms, NEW n \in DOMAIN batches'[u],
               NEW i \in batches'[u][n].crew \ byHand'
        PROVE  OutWith(i, u, batches[u][n])'
    <3>1. CASE u = t /\ batches'[u][n] = e
      <4>1. i \in e.crew /\ i \in Instances /\ DOMAIN instances = Instances
        BY <2>1, <3>1 DEF Entries, GameTypes
      <4>2. instances'[i] = Assignment(Transforms[t].id, e.batchId,
                IF e.stage = NoStage THEN e.completeAtStep ELSE MAX_SAFE_INTEGER)
        BY <4>1 DEF Sends
      <4> QED
        BY <3>1, <4>2 DEF OutWith, Assignment
    <3>2. CASE F[u][n] \in DOMAIN batches[u] /\ batches'[u][n] = batches[u][F[u][n]]
      <4>1. OutWith(i, u, batches[u][F[u][n]]) /\ i \in Instances
        BY <1>1, <2>1, <3>2 DEF CrewsOut, Entries
      <4>2. i \notin e.crew
        BY <1>5, <2>1, <3>2
      <4>3. instances'[i] = instances[i]
        BY <1>8, <4>1, <4>2
      <4> QED
        BY <3>2, <4>1, <4>3 DEF OutWith
    <3> QED
      BY <3>1, <3>2 DEF Carried
  <2>2. ASSUME NEW i \in Away' \ byHand'
        PROVE  Held(i)' \/ (Late' /\ instances'[i].returnStep <= step')
    <3>1. CASE i \in e.crew
      BY <3>1, HeldCarried
    <3>2. CASE i \notin e.crew
      <4>1. i \in Away \ byHand /\ instances'[i] = instances[i]
        BY <1>8, <2>2, <3>2 DEF Away, At
      <4>2. Held(i) => Held(i)'
        <5>1. Held(i)' <=> (0 \in {0} /\ i \in e.crew) \/ StillHeld(i, t, {})
          BY HeldCarried
        <5>2. StillHeld(i, t, {}) <=> Held(i)
          BY DEF Held, StillHeld
        <5> QED
          BY <5>1, <5>2
      <4> QED
        BY <4>1, <4>2 DEF CrewsOut, SameMoment
    <3> QED
      BY <3>1, <3>2
  <2> QED
    BY <2>1, <2>2 DEF CrewsOut
<1>10. NothingLate'
  BY NothingLateCarried
<1> QED
  BY <1>2, <1>6, <1>7, <1>9, <1>10

\* An entry comes back for another stage, or to wait for a decision.
LEMMA MoveStep ==
    ASSUME GameTypes, BatchInv, SameMoment,
           UNCHANGED <<byHand, settled, started, instances, batchSequences>>,
           NEW t \in DOMAIN Transforms, NEW k \in DOMAIN batches[t],
           NEW e \in Entries, NEW F, Carried(F, t, {k}, {0}, e),
           e.mission = batches[t][k].mission, e.crew = batches[t][k].crew,
           e.batchId = batches[t][k].batchId,
           e.mission # NoMission, e.stage # NoStage, batches[t][k].stage # NoStage,
           e.completeAtStep >= step
    PROVE  BatchInv'
<1> USE DEF BatchInv
<1>1. BatchesKept'
  <2>1. \A u \in DOMAIN Transforms :
            /\ batchSequences[u] \in Nat /\ batchSequences'[u] \in Nat
            /\ batchSequences[u] <= batchSequences'[u]
    BY DEF GameTypes
  <2>2. \A u \in DOMAIN Transforms : \A n \in DOMAIN batches[u] : batches[u][n].batchId \in Nat
    BY QueueTyped DEF Entries
  <2>3. Proper(t, e)'
    BY DEF BatchesKept, Proper, SameMoment
  <2> QED
    BY <2>1, <2>2, <2>3, ProperCarried DEF SameMoment
<1>2. NoClash'
  <2>1. ASSUME NEW v \in DOMAIN Transforms, NEW j \in DOMAIN batches[v],
               Clash(t, e, v, batches[v][j])
        PROVE  v = t /\ j \in {k}
    <3>1. Clash(t, batches[t][k], v, batches[v][j])
      BY <2>1 DEF Clash
    <3> QED
      BY <3>1 DEF NoClash
  <2> QED
    BY <2>1, NoClashCarried DEF SameMoment
<1>3. Accounted'
  <2> SUFFICES ASSUME NEW m \in 1..MaxStarted PROVE OnItsWay(m)' <=> OnItsWay(m)
    BY DEF Accounted
  <2>1. OnItsWay(m)' <=> (0 \in {0} /\ e.mission = m) \/ StillOnItsWay(m, t, {k})
    BY OnItsWayCarried
  <2>2. OnItsWay(m) <=> e.mission = m \/ StillOnItsWay(m, t, {k})
    BY DEF OnItsWay, StillOnItsWay
  <2> QED
    BY <2>1, <2>2
<1>4. ASSUME NEW i PROVE Held(i)' <=> Held(i)
  <2>1. Held(i)' <=> (0 \in {0} /\ i \in e.crew) \/ StillHeld(i, t, {k})
    BY HeldCarried
  <2>2. Held(i) <=> i \in e.crew \/ StillHeld(i, t, {k})
    BY DEF Held, StillHeld
  <2> QED
    BY <2>1, <2>2
<1>5. CrewsOut'
  <2>1. ASSUME NEW u \in DOMAIN Transforms, NEW n \in DOMAIN batches'[u],
               NEW i \in batches'[u][n].crew \ byHand'
        PROVE  OutWith(i, u, batches[u][n])'
    <3>1. CASE u = t /\ batches'[u][n] = e
      <4>1. OutWith(i, t, batches[t][k])
        BY <2>1, <3>1 DEF CrewsOut
      <4> QED
        BY <3>1, <4>1 DEF OutWith
    <3>2. CASE F[u][n] \in DOMAIN batches[u] /\ batches'[u][n] = batches[u][F[u][n]]
      <4>1. OutWith(i, u, batches[u][F[u][n]])
        BY <2>1, <3>2 DEF CrewsOut
      <4> QED
        BY <3>2, <4>1 DEF OutWith
    <3> QED
      BY <3>1, <3>2 DEF Carried
  <2>2. ASSUME NEW i \in Away' \ byHand'
        PROVE  Held(i)' \/ (Late' /\ instances'[i].returnStep <= step')
    BY <1>4, <2>2 DEF Away, At, CrewsOut, SameMoment
  <2> QED
    BY <2>1, <2>2 DEF CrewsOut
<1>6. NothingLate'
  BY NothingLateCarried
<1> QED
  BY <1>1, <1>2, <1>3, <1>5, <1>6

\* The crew of an entry that is gone comes home, or is home, or will be with this step.
Returns(entry) ==
    \/ instances' = [i \in Instances |->
                        IF i \in entry.crew \cap Away THEN Home ELSE instances[i]]
    \/ /\ UNCHANGED instances
       /\ \/ entry.crew = {}
          \/ Late' /\ entry.stage = NoStage /\ entry.completeAtStep <= step

\* A batch has been delivered, or a mission completed.
LEMMA DropStep ==
    ASSUME GameTypes, BatchInv, SameMoment, UNCHANGED <<byHand, started, batchSequences>>,
           NEW t \in DOMAIN Transforms, NEW k \in DOMAIN batches[t],
           NEW F, Carried(F, t, {k}, {}, batches[t][k]),
           \/ batches[t][k].mission = NoMission /\ UNCHANGED settled
           \/ batches[t][k].mission # NoMission /\ Settles(batches[t][k]),
           Returns(batches[t][k])
    PROVE  BatchInv'
<1> USE DEF BatchInv
<1> PICK entry : entry = batches[t][k]
  OBVIOUS
<1>1. BatchesKept'
  <2>1. \A u \in DOMAIN Transforms :
            /\ batchSequences[u] \in Nat /\ batchSequences'[u] \in Nat
            /\ batchSequences[u] <= batchSequences'[u]
    BY DEF GameTypes
  <2>2. \A u \in DOMAIN Transforms : \A n \in DOMAIN batches[u] : batches[u][n].batchId \in Nat
    BY QueueTyped DEF Entries
  <2> QED
    BY <2>1, <2>2, ProperCarried DEF SameMoment
<1>2. NoClash'
  BY NoClashCarried DEF SameMoment
<1>3. ASSUME NEW m PROVE OnItsWay(m)' <=> StillOnItsWay(m, t, {k})
  BY OnItsWayCarried
<1>4. Accounted'
  <2> SUFFICES ASSUME NEW m \in 1..MaxStarted
               PROVE  /\ OnItsWay(m)' => m <= started
                      /\ settled'[m] = IF m <= started /\ ~OnItsWay(m)' THEN 1 ELSE 0
    BY DEF Accounted
  <2>1. /\ OnItsWay(m) => m <= started
        /\ settled[m] = IF m <= started /\ ~OnItsWay(m) THEN 1 ELSE 0
    BY DEF Accounted
  <2>2. CASE entry.mission = m
    <3>1. OnItsWay(m)
      BY <2>2 DEF OnItsWay
    <3>2. ~StillOnItsWay(m, t, {k})
      BY <2>2 DEF NoClash, Clash, StillOnItsWay, NoMission
    <3>3. settled'[m] = settled[m] + 1
      <4>1. batches[t][k].mission = m /\ m # NoMission /\ settled \in [1..MaxStarted -> Nat]
        BY <2>2 DEF NoMission, GameTypes
      <4>2. settled' = [settled EXCEPT ![m] = @ + 1]
        BY <4>1 DEF Settles
      <4> QED
        BY <4>1, <4>2
    <3> QED
      BY <1>3, <2>1, <3>1, <3>2, <3>3
  <2>3. CASE entry.mission # m
    <3>1. OnItsWay(m) <=> StillOnItsWay(m, t, {k})
      BY <2>3 DEF OnItsWay, StillOnItsWay
    <3>2. settled'[m] = settled[m]
      BY <2>3 DEF Settles, GameTypes
    <3> QED
      BY <1>3, <2>1, <3>1, <3>2
  <2> QED
    BY <2>2, <2>3
<1>5. /\ \A i \in entry.crew \ byHand : i \in Instances /\ ~StillHeld(i, t, {k})
                                        /\ OutWith(i, t, entry)
      /\ \A i : Held(i) => StillHeld(i, t, {k}) \/ i \in entry.crew
  <2>1. \A i \in entry.crew : i \in Instances
    BY QueueTyped DEF Entries
  <2> QED
    BY <2>1 DEF NoClash, Clash, StillHeld, CrewsOut, Held
<1>6. ASSUME NEW i PROVE Held(i)' <=> StillHeld(i, t, {k})
  BY HeldCarried
<1>7. \A i \in Instances : i \notin entry.crew => instances'[i] = instances[i]
  BY DEF Returns
<1>8. CrewsOut'
  <2>1. ASSUME NEW u \in DOMAIN Transforms, NEW n \in DOMAIN batches'[u],
               NEW i \in batches'[u][n].crew \ byHand'
        PROVE  OutWith(i, u, batches[u][n])'
    <3>1. /\ F[u][n] \in DOMAIN batches[u] /\ ~(u = t /\ F[u][n] \in {k})
          /\ batches'[u][n] = batches[u][F[u][n]]
      BY DEF Carried
    <3>2. OutWith(i, u, batches[u][F[u][n]]) /\ i \in Instances
      BY <2>1, <3>1, QueueTyped DEF CrewsOut, Entries
    <3>3. i \notin entry.crew
      BY <1>5, <2>1, <3>1 DEF StillHeld
    <3>4. instances'[i] = instances[i]
      BY <1>7, <3>2, <3>3
    <3> QED
      BY <3>1, <3>2, <3>4 DEF OutWith
  <2>2. ASSUME NEW i \in Away' \ byHand'
        PROVE  Held(i)' \/ (Late' /\ instances'[i].returnStep <= step')
    <3>1. CASE i \notin entry.crew
      <4>1. i \in Away \ byHand /\ instances'[i] = instances[i]
        BY <1>7, <2>2, <3>1 DEF Away, At
      <4> QED
        BY <1>5, <1>6, <3>1, <4>1 DEF CrewsOut, SameMoment
    <3>2. CASE i \in entry.crew
      <4>1. OutWith(i, t, entry) /\ i \in Away /\ i \in Instances
        BY <1>5, <2>2, <3>2 DEF OutWith, Away, At
      <4>2. instances'[i] # Home
        BY <2>2 DEF Away, At, Home
      <4>3. UNCHANGED instances /\ Late' /\ entry.stage = NoStage /\ entry.completeAtStep <= step
        BY <3>2, <4>1, <4>2 DEF Returns
      <4> QED
        BY <4>1, <4>3 DEF OutWith, SameMoment
    <3> QED
      BY <3>1, <3>2
  <2> QED
    BY <2>1, <2>2 DEF CrewsOut
<1>9. NothingLate'
  BY NothingLateCarried
<1> QED
  BY <1>1, <1>2, <1>4, <1>8, <1>9

-----------------------------------------------------------------------------
(* Instances                                                                *)

InstancesTyped == DOMAIN instances = Instances /\ \A i \in Instances : InstanceState(instances[i])

LEMMA Whereabouts ==
    ASSUME GameTypes
    PROVE  /\ IsFiniteSet(AvailableInstances) /\ IsFiniteSet(Away) /\ IsFiniteSet(Instances)
           /\ AvailableInstances \subseteq Instances /\ Away \subseteq Instances
           /\ AvailableInstances \cap Away = {}
           /\ Cardinality(AvailableInstances) \in Nat /\ Cardinality(Away) \in Nat
<1>1. /\ AvailableInstances \in SUBSET Instances /\ Away \in SUBSET Instances
      /\ AvailableInstances \cap Away = {}
  BY DEF AvailableInstances, Away, At
<1>2. IsFiniteSet(AvailableInstances) /\ IsFiniteSet(Away) /\ IsFiniteSet(Instances)
  BY <1>1, StartAssumption, FS_Subset
<1> QED
  BY <1>1, <1>2, FS_CardinalityType

LEMMA AssignmentTyped ==
    ASSUME NEW m, NEW b, NEW r \in Nat
    PROVE  InstanceState(Assignment(m, b, r)) /\ Assignment(m, b, r).at = "away"
BY DEF InstanceState, Assignment

LEMMA AssignFacts ==
    ASSUME GameTypes, Counted, NEW i \in AvailableInstances, NEW a, InstanceState(a), a.at = "away",
           assignToMission({i}, a)
    PROVE  /\ instances' = [instances EXCEPT ![i] = a]
           /\ InstancesTyped' /\ Counted'
<1>1. i \in Instances /\ DOMAIN instances = Instances
  BY DEF AvailableInstances, At, GameTypes
<1>2. instances' = [instances EXCEPT ![i] = a]
  BY <1>1 DEF assignToMission
<1>3. InstancesTyped'
  BY <1>1, <1>2 DEF InstancesTyped, GameTypes
<1>4. AvailableInstances' = AvailableInstances \ {i}
  BY <1>1, <1>2 DEF AvailableInstances, At
<1>5. Cardinality(AvailableInstances \ {i}) = Cardinality(AvailableInstances) - 1
  BY Whereabouts, FS_RemoveElement
<1>6. Cardinality(AvailableInstances \ {i}) \in Nat
  BY Whereabouts, FS_RemoveElement, FS_CardinalityType
<1>7. availableCount' = Max({0, availableCount - 1})
  BY FS_Singleton DEF assignToMission
<1>8. Counted'
  <2>1. availableCount - 1 \in Int /\ availableCount - 1 >= 0
    BY <1>5, <1>6, Whereabouts DEF Counted
  <2>2. availableCount' = availableCount - 1
    BY <1>7, <2>1, MaxZero
  <2> QED
    BY <1>4, <1>5, <2>2 DEF Counted
<1> QED
  BY <1>2, <1>3, <1>8

LEMMA ReturnFacts ==
    ASSUME GameTypes, Counted, NEW crew, returnFromMission(crew)
    PROVE  InstancesTyped' /\ Counted'
<1>1. /\ instances' = [i \in Instances |-> IF i \in crew \cap Away THEN Home ELSE instances[i]]
      /\ availableCount' = availableCount + Cardinality(crew \cap Away)
  BY DEF returnFromMission
<1>2. InstancesTyped'
  BY <1>1 DEF InstancesTyped, GameTypes, InstanceState
<1>3. AvailableInstances' = AvailableInstances \cup (crew \cap Away)
  BY <1>1, Whereabouts DEF AvailableInstances, At, Home
<1>4. IsFiniteSet(crew \cap Away) /\ AvailableInstances \cap (crew \cap Away) = {}
  BY Whereabouts, FS_Subset
<1>5. Cardinality(AvailableInstances \cup (crew \cap Away))
          = Cardinality(AvailableInstances) + Cardinality(crew \cap Away)
  <2>1. Cardinality(AvailableInstances \cup (crew \cap Away))
            = Cardinality(AvailableInstances) + Cardinality(crew \cap Away)
                - Cardinality(AvailableInstances \cap (crew \cap Away))
    BY <1>4, Whereabouts, FS_Union
  <2>2. Cardinality(AvailableInstances \cap (crew \cap Away)) = 0
    BY <1>4, FS_EmptySet
  <2>3. Cardinality(crew \cap Away) \in Nat
    BY <1>4, FS_CardinalityType
  <2> QED
    BY <2>1, <2>2, <2>3, Whereabouts
<1> QED
  BY <1>1, <1>2, <1>3, <1>5 DEF Counted

\* An entity command takes an instance out of the missions' hands, or makes a new one.
LEMMA EntityCommandFacts ==
    ASSUME GameTypes, Counted, EntityCommand
    PROVE  /\ InstancesTyped' /\ Counted' /\ byHand \subseteq byHand'
           /\ \A i \in Instances \ byHand' :
                 \/ instances'[i] = instances[i]
                 \/ instances[i].at = "unused" /\ instances'[i] = Home
<1>1. DOMAIN instances = Instances /\ \A i \in Instances : InstanceState(instances[i])
  BY DEF GameTypes
<1>2. CASE CreateInstance
  <2>1. PICK i \in At(instances, "unused") : instances' = [instances EXCEPT ![i] = Home]
    BY <1>2 DEF CreateInstance
  <2>2. /\ i \in Instances /\ instances[i].at = "unused" /\ i \notin AvailableInstances
        /\ byHand' = byHand /\ availableCount' = availableCount + 1
    BY <1>2, <2>1 DEF CreateInstance, At, AvailableInstances
  <2>3. AvailableInstances' = AvailableInstances \cup {i}
    BY <1>1, <2>1, <2>2 DEF AvailableInstances, At, Home
  <2>4. Cardinality(AvailableInstances \cup {i}) = Cardinality(AvailableInstances) + 1
    BY <2>2, Whereabouts, FS_AddElement
  <2>5. InstancesTyped'
    BY <1>1, <2>1 DEF InstancesTyped, InstanceState
  <2> QED
    BY <1>1, <2>1, <2>2, <2>3, <2>4, <2>5 DEF Counted
<1>3. CASE DestroyInstance
  <2>1. PICK i \in Alive :
            /\ instances' = [instances EXCEPT ![i] = Destroyed]
            /\ availableCount' =
                  IF i \in Away THEN availableCount ELSE Max({0, availableCount - 1})
            /\ byHand' = byHand \cup {i}
    BY <1>3 DEF DestroyInstance, ByHand
  <2>2. i \in Instances /\ (i \in Away \/ i \in AvailableInstances)
    BY Whereabouts DEF Alive
  <2>3. InstancesTyped'
    BY <1>1, <2>1 DEF InstancesTyped, InstanceState
  <2>4. AvailableInstances' = AvailableInstances \ {i}
    BY <1>1, <2>1, <2>2 DEF AvailableInstances, At, Destroyed
  <2>5. Cardinality(AvailableInstances \ {i}) =
            IF i \in AvailableInstances THEN Cardinality(AvailableInstances) - 1
                                        ELSE Cardinality(AvailableInstances)
    BY Whereabouts, FS_RemoveElement
  <2>6. Cardinality(AvailableInstances \ {i}) \in Nat
    BY Whereabouts, FS_RemoveElement, FS_CardinalityType
  <2>7. Counted'
    <3>1. CASE i \in Away
      <4>1. i \notin AvailableInstances
        BY <3>1, Whereabouts
      <4> QED
        BY <2>1, <2>4, <2>5, <3>1, <4>1 DEF Counted
    <3>2. CASE i \notin Away
      <4>1. availableCount - 1 \in Int /\ availableCount - 1 >= 0
        BY <2>2, <2>5, <2>6, <3>2, Whereabouts DEF Counted
      <4>2. availableCount' = availableCount - 1
        BY <2>1, <3>2, <4>1, MaxZero
      <4> QED
        BY <2>2, <2>4, <2>5, <3>2, <4>2 DEF Counted
    <3> QED
      BY <3>1, <3>2
  <2> QED
    BY <1>1, <2>1, <2>3, <2>7
<1>4. CASE AssignByCommand
  <2>1. PICK i \in AvailableInstances :
            /\ assignToMission({i}, Assignment("by command", "none", step + 1))
            /\ byHand' = byHand \cup {i}
    BY <1>4 DEF AssignByCommand, ByHand
  <2>2. PICK a : a = Assignment("by command", "none", step + 1)
    OBVIOUS
  <2>3. InstanceState(a) /\ a.at = "away"
    <3>1. step + 1 \in Nat
      BY DEF GameTypes
    <3> QED
      BY <2>2, <3>1, AssignmentTyped
  <2>4. assignToMission({i}, a)
    BY <2>1, <2>2
  <2>5. instances' = [instances EXCEPT ![i] = a] /\ InstancesTyped' /\ Counted'
    BY <2>3, <2>4, AssignFacts
  <2> QED
    BY <1>1, <2>1, <2>5
<1>5. CASE ReturnByCommand
  <2>1. PICK i \in Away : returnFromMission({i}) /\ byHand' = byHand \cup {i}
    BY <1>5 DEF ReturnByCommand, ByHand
  <2>2. InstancesTyped' /\ Counted'
    BY <2>1, ReturnFacts
  <2> QED
    BY <2>1, <2>2 DEF returnFromMission
<1> QED
  BY <1>2, <1>3, <1>4, <1>5 DEF EntityCommand

-----------------------------------------------------------------------------
(* One step after the other                                                 *)

BatchTypes ==
    /\ batches \in [DOMAIN Transforms -> Seq(Entries)]
    /\ batchSequences \in [DOMAIN Transforms -> Nat]
    /\ started \in 0..MaxStarted
    /\ settled \in [1..MaxStarted -> Nat]

\* What the rest of a step needs of the batches and the instances.
Resources == BatchTypes /\ InstancesTyped /\ Counted /\ BatchInv

LEMMA ResourcesOfGame ==
    ASSUME GameInv
    PROVE  Resources
BY DEF GameInv, GameTypes, Resources, BatchTypes, InstancesTyped, BatchInv

\* No batch is touched, and no instance that is still in the missions' hands.
LEMMA StillStep ==
    ASSUME GameTypes, BatchInv, SameMoment, UNCHANGED <<batches, batchSequences, started, settled>>,
           byHand \subseteq byHand',
           \A i \in Instances \ byHand' :
               \/ instances'[i] = instances[i]
               \/ instances[i].at = "unused" /\ instances'[i] = Home
    PROVE  BatchInv' /\ BatchTypes'
<1> USE DEF BatchInv
<1>1. BatchesKept'
  BY DEF BatchesKept, Proper, SameMoment
<1>2. NoClash'
  BY DEF NoClash, Clash, SameMoment
<1>3. Accounted'
  BY DEF Accounted, OnItsWay
<1>4. \A i : Held(i)' <=> Held(i)
  BY DEF Held
<1>5. \A t \in DOMAIN Transforms : \A n \in DOMAIN batches[t] :
          \A i \in batches[t][n].crew : i \in Instances
  BY QueueTyped DEF Entries
<1>6. CrewsOut'
  <2>1. ASSUME NEW t \in DOMAIN Transforms, NEW n \in DOMAIN batches[t],
               NEW i \in batches[t][n].crew \ byHand'
        PROVE  OutWith(i, t, batches[t][n])'
    <3>1. OutWith(i, t, batches[t][n]) /\ i \in Instances \ byHand'
      BY <1>5, <2>1 DEF CrewsOut
    <3>2. instances'[i] = instances[i]
      BY <3>1 DEF OutWith
    <3> QED
      BY <3>1, <3>2 DEF OutWith
  <2>2. ASSUME NEW i \in Away' \ byHand'
        PROVE  Held(i)' \/ (Late' /\ instances'[i].returnStep <= step')
    <3>1. i \in Instances \ byHand' /\ instances'[i].at = "away"
      BY <2>2 DEF Away, At
    <3>2. instances'[i] = instances[i]
      BY <3>1 DEF Home
    <3>3. i \in Away \ byHand
      BY <3>1, <3>2 DEF Away, At
    <3> QED
      BY <1>4, <3>2, <3>3 DEF CrewsOut, SameMoment
  <2> QED
    BY <2>1, <2>2 DEF CrewsOut
<1>7. NothingLate'
  BY DEF NothingLate, SameMoment
<1>8. BatchTypes'
  BY DEF GameTypes, BatchTypes
<1> QED
  BY <1>1, <1>2, <1>3, <1>6, <1>7, <1>8

LEMMA NewEntryFacts ==
    ASSUME GameTypes, NEW t \in DOMAIN Transforms, NEW crew \in SUBSET Instances, NEW e,
           e = NewEntry(t, crew), IsMission(t) => started # MaxStarted
    PROVE  /\ e \in Entries /\ e.completeAtStep >= step /\ e.batchId = batchSequences[t]
           /\ e.crew = crew /\ ~e.pendingDecision
           /\ e.mission = IF IsMission(t) THEN started + 1 ELSE NoMission
           /\ e.stage = NoStage <=> ~HasStages(t)
           /\ e.stage = NoStage => e.completeAtStep = step + Transforms[t].duration
<1>1. /\ Transforms[t].initialStage \in Stages \cup {NoStage} /\ Transforms[t].duration \in Nat
      /\ Horizon + Transforms[t].duration <= MAX_SAFE_INTEGER
      /\ \A s \in Stages : /\ StageDefinitions[s].duration \in Nat
                            /\ Horizon + StageDefinitions[s].duration <= MAX_SAFE_INTEGER
  BY TransformsAssumption, HorizonAssumption
<1>2. FirstDuration(t) \in Nat /\ Horizon + FirstDuration(t) <= MAX_SAFE_INTEGER
  BY <1>1 DEF FirstDuration, HasStages
<1>3. step \in 0..Horizon /\ Horizon \in Nat /\ MAX_SAFE_INTEGER \in Nat
  BY HorizonAssumption DEF GameTypes, MAX_SAFE_INTEGER
<1>4. step + FirstDuration(t) \in 0..MAX_SAFE_INTEGER /\ step + FirstDuration(t) >= step
  BY <1>2, <1>3
<1>5. batchSequences[t] \in Nat /\ started \in 0..MaxStarted /\ MaxStarted \in Nat
  BY TransformsAssumption DEF GameTypes
<1>6. (IF IsMission(t) THEN started + 1 ELSE NoMission) \in 0..MaxStarted
  BY <1>5 DEF NoMission
<1>7. (IF HasStages(t) THEN Transforms[t].initialStage ELSE NoStage) \in Stages \cup {NoStage}
  BY <1>1
<1>8. e \in Entries
  BY <1>4, <1>5, <1>6, <1>7 DEF NewEntry, Entries
<1>9. e.stage = IF HasStages(t) THEN Transforms[t].initialStage ELSE NoStage
  BY DEF NewEntry
<1>10. e.stage = NoStage <=> ~HasStages(t)
  BY <1>9 DEF HasStages
<1>11. e.stage = NoStage => e.completeAtStep = step + Transforms[t].duration
  BY <1>10 DEF NewEntry, FirstDuration
<1> QED
  BY <1>4, <1>8, <1>10, <1>11 DEF NewEntry

LEMMA BatchTypesCarried ==
    ASSUME BatchTypes, NEW F, NEW t, NEW gone, NEW new, NEW e, Carried(F, t, gone, new, e),
           \/ UNCHANGED batchSequences
           \/ batchSequences' = [batchSequences EXCEPT ![t] = @ + 1],
           started' \in 0..MaxStarted, settled' \in [1..MaxStarted -> Nat]
    PROVE  BatchTypes'
BY DEF BatchTypes, Carried

\* A transform that runs, in the middle of a step.
LEMMA RunStep ==
    ASSUME GameTypes, Resources, SameMoment, NEW t \in DOMAIN Transforms,
           Starts(t) \/ FailsToStart(t) \/ Converts(t)
    PROVE  Resources'
<1> USE DEF Resources
<1>1. CASE Starts(t)
  <2>1. PICK i \in AvailableInstances :
            /\ assignToMission({i}, Assignment(Transforms[t].id, batchSequences[t],
                   IF HasStages(t) THEN MAX_SAFE_INTEGER ELSE step + Transforms[t].duration))
            /\ batches' = [batches EXCEPT ![t] = insertBatch(@, NewEntry(t, {i}))]
    BY <1>1 DEF Starts
  <2>2. /\ IsMission(t) /\ Len(batches[t]) < MaxOutstandingBatches /\ started # MaxStarted
        /\ batchSequences' = [batchSequences EXCEPT ![t] = @ + 1]
        /\ started' = started + 1 /\ UNCHANGED <<settled, byHand>>
    BY <1>1 DEF Starts, CanStart, IsMission, Exhausted, NextSequence
  <2>3. i \in Instances
    BY Whereabouts
  <2>4. PICK e : e = NewEntry(t, {i})
    OBVIOUS
  <2>5. /\ e \in Entries /\ e.completeAtStep >= step /\ e.batchId = batchSequences[t]
        /\ e.crew = {i} /\ ~e.pendingDecision /\ e.mission = started + 1
        /\ e.stage = NoStage <=> ~HasStages(t)
        /\ e.stage = NoStage => e.completeAtStep = step + Transforms[t].duration
    <3>1. {i} \in SUBSET Instances
      BY <2>3
    <3> QED
      BY <2>2, <2>4, <3>1, NewEntryFacts
  <2>6. PICK a : a = Assignment(Transforms[t].id, batchSequences[t],
                         IF HasStages(t) THEN MAX_SAFE_INTEGER ELSE step + Transforms[t].duration)
    OBVIOUS
  <2>7. InstanceState(a) /\ a.at = "away"
    <3>1. MAX_SAFE_INTEGER \in Nat /\ step + Transforms[t].duration \in Nat
      BY TransformsAssumption, HorizonAssumption DEF GameTypes, MAX_SAFE_INTEGER
    <3> QED
      BY <2>6, <3>1, AssignmentTyped
  <2>8. instances' = [instances EXCEPT ![i] = a] /\ InstancesTyped' /\ Counted'
    BY <2>1, <2>6, <2>7, AssignFacts
  <2>9. PICK F : Carried(F, t, {}, {0}, e)
    BY <2>1, <2>2, <2>4, <2>5, AddCarried DEF BatchInv
  <2>10. Proper(t, e)'
    <3>1. started + 1 # NoMission /\ batchSequences[t] \in Nat
      BY DEF GameTypes, NoMission
    <3>2. e.batchId < batchSequences'[t]
      BY <2>2, <2>5, <3>1 DEF GameTypes
    <3> QED
      BY <2>5, <3>1, <3>2 DEF Proper
  <2>11. Sends(t, e)
    <3>1. a = Assignment(Transforms[t].id, e.batchId,
                         IF e.stage = NoStage THEN e.completeAtStep ELSE MAX_SAFE_INTEGER)
      BY <2>5, <2>6
    <3> QED
      BY <2>2, <2>5, <2>8, <3>1 DEF Sends
  <2>12. BatchInv'
    BY <2>2, <2>5, <2>9, <2>10, <2>11, AddStep
  <2>13. BatchTypes'
    <3>1. started' \in 0..MaxStarted /\ settled' \in [1..MaxStarted -> Nat]
      BY <2>2, TransformsAssumption DEF BatchTypes
    <3> QED
      BY <2>2, <2>9, <3>1, BatchTypesCarried
  <2> QED
    BY <2>8, <2>12, <2>13
<1>2. CASE FailsToStart(t)
  <2>1. /\ batchSequences' = [batchSequences EXCEPT ![t] = @ + 1]
        /\ UNCHANGED <<batches, started, settled, instances, availableCount, byHand>>
    BY <1>2 DEF FailsToStart, NextSequence, missionGhosts, entityVars
  <2>2. InstancesTyped' /\ Counted'
    BY <2>1 DEF InstancesTyped, Counted, AvailableInstances, At
  <2>3. BatchTypes'
    BY <2>1 DEF BatchTypes
  <2>4. BatchesKept'
    <3> SUFFICES ASSUME NEW u \in DOMAIN Transforms
                 PROVE  /\ Sorted(batches[u]) /\ Len(batches[u]) <= MaxOutstandingBatches
                        /\ \A n \in DOMAIN batches[u] : Proper(u, batches[u][n])'
      BY <2>1 DEF BatchesKept
    <3>1. batchSequences[u] \in Nat /\ batchSequences[u] <= batchSequences'[u]
          /\ batchSequences'[u] \in Nat
      BY <2>1 DEF GameTypes
    <3>2. ASSUME NEW n \in DOMAIN batches[u] PROVE Proper(u, batches[u][n])'
      <4>1. batches[u][n].batchId \in Nat
        BY QueueTyped DEF Entries
      <4>2. Proper(u, batches[u][n])
        BY DEF BatchInv, BatchesKept
      <4> QED
        BY <2>1, <3>1, <4>1, <4>2 DEF Proper, SameMoment
    <3> QED
      BY <3>2 DEF BatchInv, BatchesKept
  <2>5. NoClash'
    BY <2>1 DEF BatchInv, NoClash, Clash, SameMoment
  <2>6. Accounted'
    BY <2>1 DEF BatchInv, Accounted, OnItsWay
  <2>7. CrewsOut'
    <3>1. \A i : Held(i)' <=> Held(i)
      BY <2>1 DEF Held
    <3>2. Away' = Away
      BY <2>1 DEF Away, At
    <3> QED
      BY <2>1, <3>1, <3>2 DEF BatchInv, CrewsOut, OutWith, SameMoment
  <2>8. NothingLate'
    BY <2>1 DEF BatchInv, NothingLate, SameMoment
  <2> QED
    BY <2>2, <2>3, <2>4, <2>5, <2>6, <2>7, <2>8 DEF BatchInv
<1>3. CASE Converts(t)
  <2>1. UNCHANGED <<started, settled, instances, availableCount, byHand>> /\ ~IsMission(t)
    BY <1>3 DEF Converts, missionGhosts, entityVars
  <2>2. InstancesTyped' /\ Counted'
    BY <2>1 DEF InstancesTyped, Counted, AvailableInstances, At
  <2>3. CASE UNCHANGED <<batches, batchSequences>>
    BY <2>1, <2>2, <2>3, StillStep
  <2>4. CASE /\ Transforms[t].mode = "batch"
             /\ NextSequence(t)
             /\ batches' = [batches EXCEPT ![t] = insertBatch(@, NewEntry(t, {}))]
    <3>1. Len(batches[t]) < MaxOutstandingBatches
      BY <1>3, <2>4 DEF Converts, CanStart
    <3>2. PICK e : e = NewEntry(t, {})
      OBVIOUS
    <3>3. /\ e \in Entries /\ e.completeAtStep >= step /\ e.batchId = batchSequences[t]
          /\ e.crew = {} /\ ~e.pendingDecision /\ e.mission = NoMission
          /\ e.stage = NoStage
      <4>1. {} \in SUBSET Instances /\ ~HasStages(t)
        BY <2>1 DEF HasStages
      <4> QED
        BY <2>1, <3>2, <4>1, NewEntryFacts
    <3>4. PICK F : Carried(F, t, {}, {0}, e)
      BY <2>4, <3>1, <3>2, <3>3, AddCarried DEF BatchInv
    <3>5. batchSequences' = [batchSequences EXCEPT ![t] = @ + 1]
      BY <2>4 DEF NextSequence
    <3>6. Proper(t, e)'
      <4>1. e.batchId < batchSequences'[t]
        BY <3>3, <3>5 DEF GameTypes
      <4> QED
        BY <3>3, <4>1 DEF Proper
    <3>7. Sends(t, e)
      BY <2>1, <3>3 DEF Sends
    <3>8. BatchInv'
      BY <2>1, <3>3, <3>4, <3>5, <3>6, <3>7, AddStep
    <3>9. BatchTypes'
      BY <2>1, <3>4, <3>5, BatchTypesCarried DEF BatchTypes
    <3> QED
      BY <2>2, <3>8, <3>9
  <2> QED
    BY <1>3, <2>3, <2>4 DEF Converts
<1> QED
  BY <1>1, <1>2, <1>3

-----------------------------------------------------------------------------
(* Resolving: entry k of transform t, without which its queue is s          *)

Resolving(t, k, s) ==
    /\ GameTypes /\ Resources /\ SameMoment
    /\ UNCHANGED <<byHand, started, batchSequences>>
    /\ t \in DOMAIN Transforms /\ k \in DOMAIN batches[t] /\ Removal(s, batches[t], k)

\* entry is entry k, with what the step has changed in it so far.
Alike(entry, t, k) ==
    /\ entry \in Entries
    /\ entry.mission = batches[t][k].mission /\ entry.crew = batches[t][k].crew
    /\ entry.batchId = batches[t][k].batchId /\ entry.stage = batches[t][k].stage
    /\ entry.stage # NoStage /\ entry.mission # NoMission

LEMMA SettleStep ==
    ASSUME NEW t, NEW k, NEW s, Resolving(t, k, s), NEW entry, Alike(entry, t, k),
           NEW success, NEW earned, completeMultiStageMission(t, entry, s, success, earned)
    PROVE  Resources'
<1> USE DEF Resolving, Resources
<1>1. /\ returnFromMission(entry.crew) /\ batches' = [batches EXCEPT ![t] = s]
      /\ settled' = [settled EXCEPT ![entry.mission] = @ + 1]
  BY DEF completeMultiStageMission, Settles
<1>2. PICK F : Carried(F, t, {k}, {}, batches[t][k])
  BY <1>1, DropCarried DEF BatchInv
<1>3. PICK crew : crew = entry.crew
  OBVIOUS
<1>4. InstancesTyped' /\ Counted'
  BY <1>1, <1>3, ReturnFacts
<1>5. Returns(batches[t][k])
  BY <1>1 DEF Returns, returnFromMission, Alike
<1>6. batches[t][k].mission # NoMission /\ Settles(batches[t][k])
  BY <1>1 DEF Alike, Settles
<1>7. BatchInv'
  BY <1>2, <1>5, <1>6, DropStep
<1>8. settled' \in [1..MaxStarted -> Nat]
  <2>1. settled \in [1..MaxStarted -> Nat]
    BY DEF BatchTypes
  <2>2. DOMAIN settled' = 1..MaxStarted /\ settled' = [m \in 1..MaxStarted |-> settled'[m]]
    BY <1>1, <2>1
  <2>3. ASSUME NEW m \in 1..MaxStarted PROVE settled'[m] \in Nat
    BY <1>1, <2>1
  <2> QED
    BY <2>2, <2>3
<1>9. BatchTypes'
  BY <1>2, <1>8, BatchTypesCarried DEF BatchTypes
<1> QED
  BY <1>4, <1>7, <1>9

\* The entry is put back.
LEMMA BackStep ==
    ASSUME NEW t, NEW k, NEW s, Resolving(t, k, s), NEW e, e \in Entries,
           e.mission = batches[t][k].mission, e.crew = batches[t][k].crew,
           e.batchId = batches[t][k].batchId, batches[t][k].stage # NoStage,
           e.mission # NoMission, e.stage # NoStage, e.completeAtStep >= step,
           batches' = [batches EXCEPT ![t] = insertBatch(s, e)],
           UNCHANGED <<settled, instances, availableCount>>
    PROVE  Resources'
<1> USE DEF Resolving, Resources
<1>1. PICK F : Carried(F, t, {k}, {0}, e)
  BY MoveCarried DEF BatchInv
<1>2. BatchInv'
  BY <1>1, MoveStep
<1>3. InstancesTyped' /\ Counted'
  BY DEF InstancesTyped, Counted, AvailableInstances, At
<1>4. BatchTypes'
  BY <1>1, BatchTypesCarried DEF BatchTypes
<1> QED
  BY <1>2, <1>3, <1>4

\* A stage that begins now ends at a step there is.
LEMMA StageTimes ==
    ASSUME GameTypes, NEW stage \in Stages
    PROVE  LET timeout == StageDefinitions[stage].timeout
               over == step + StageDefinitions[stage].duration
               decided == IF timeout = MAX_SAFE_INTEGER THEN timeout ELSE step + timeout
           IN  /\ over \in 0..MAX_SAFE_INTEGER /\ over >= step
               /\ decided \in 0..MAX_SAFE_INTEGER /\ decided >= step
<1> DEFINE timeout == StageDefinitions[stage].timeout
           duration == StageDefinitions[stage].duration
<1>1. step \in 0..Horizon /\ Horizon \in 0..(MAX_SAFE_INTEGER - 1) /\ MAX_SAFE_INTEGER \in Nat
  BY HorizonAssumption DEF GameTypes, MAX_SAFE_INTEGER
<1>2. duration \in Nat /\ timeout \in Nat
  BY TransformsAssumption
<1>3. /\ Horizon + duration <= MAX_SAFE_INTEGER
      /\ timeout = MAX_SAFE_INTEGER \/ Horizon + timeout <= MAX_SAFE_INTEGER
  BY HorizonAssumption
<1> HIDE DEF timeout, duration
<1>4. step + duration \in 0..MAX_SAFE_INTEGER /\ step + duration >= step
  BY <1>1, <1>2, <1>3
<1>5. /\ (IF timeout = MAX_SAFE_INTEGER THEN timeout ELSE step + timeout) \in 0..MAX_SAFE_INTEGER
      /\ (IF timeout = MAX_SAFE_INTEGER THEN timeout ELSE step + timeout) >= step
  BY <1>1, <1>2, <1>3
<1> QED
  BY <1>4, <1>5 DEF timeout, duration

LEMMA RescheduleStep ==
    ASSUME NEW t, NEW k, NEW s, Resolving(t, k, s), NEW entry, Alike(entry, t, k),
           NEW stage \in Stages, NEW earned, Reschedules(t, entry, s, stage, earned)
    PROVE  Resources'
<1>1. PICK e : e = [entry EXCEPT !.completeAtStep = step + StageDefinitions[stage].duration,
                                 !.stage = stage, !.pendingDecision = FALSE]
  OBVIOUS
<1>2. /\ step + StageDefinitions[stage].duration \in 0..MAX_SAFE_INTEGER
      /\ step + StageDefinitions[stage].duration >= step
  BY StageTimes DEF Resolving
<1>3. /\ e \in Entries /\ e.completeAtStep = step + StageDefinitions[stage].duration
      /\ e.stage = stage /\ e.mission = entry.mission /\ e.crew = entry.crew
      /\ e.batchId = entry.batchId
  BY <1>1, <1>2 DEF Alike, Entries
<1>4. stage # NoStage
  BY TransformsAssumption
<1>5. /\ batches' = [batches EXCEPT ![t] = insertBatch(s, e)]
      /\ UNCHANGED <<settled, instances, availableCount>>
  BY <1>1 DEF Reschedules
<1>6. /\ e.mission = batches[t][k].mission /\ e.crew = batches[t][k].crew
      /\ e.batchId = batches[t][k].batchId /\ batches[t][k].stage # NoStage
      /\ e.mission # NoMission /\ e.stage # NoStage /\ e.completeAtStep >= step
  BY <1>2, <1>3, <1>4 DEF Alike
<1> QED
  BY <1>3, <1>5, <1>6, BackStep

LEMMA AskStep ==
    ASSUME NEW t, NEW k, NEW s, Resolving(t, k, s), NEW entry, Alike(entry, t, k),
           NEW earned, AsksForDecision(t, entry, s, earned)
    PROVE  Resources'
<1> DEFINE timeout == StageDefinitions[entry.stage].timeout
           at == IF timeout = MAX_SAFE_INTEGER THEN timeout ELSE step + timeout
<1>1. PICK e : e = [entry EXCEPT !.completeAtStep = at, !.pendingDecision = TRUE]
  OBVIOUS
<1>2. entry.stage \in Stages
  BY DEF Alike, Entries
<1>3. at \in 0..MAX_SAFE_INTEGER /\ at >= step
  BY <1>2, StageTimes DEF Resolving
<1>4. /\ batches' = [batches EXCEPT ![t] = insertBatch(s, e)]
      /\ UNCHANGED <<settled, instances, availableCount>>
  BY <1>1 DEF AsksForDecision
<1> HIDE DEF at
<1>5. /\ e \in Entries /\ e.completeAtStep = at /\ e.stage = entry.stage
      /\ e.mission = entry.mission /\ e.crew = entry.crew /\ e.batchId = entry.batchId
  BY <1>1, <1>3 DEF Alike, Entries
<1>6. /\ e.mission = batches[t][k].mission /\ e.crew = batches[t][k].crew
      /\ e.batchId = batches[t][k].batchId /\ batches[t][k].stage # NoStage
      /\ e.mission # NoMission /\ e.stage # NoStage /\ e.completeAtStep >= step
  BY <1>3, <1>5 DEF Alike
<1> QED
  BY <1>4, <1>5, <1>6, BackStep

LEMMA GoesOnStep ==
    ASSUME NEW t, NEW k, NEW s, Resolving(t, k, s), NEW entry, Alike(entry, t, k),
           NEW stage \in Stages \cup {NoStage}, NEW earned, GoesOn(t, entry, s, stage, earned)
    PROVE  Resources'
<1>1. CASE stage # NoStage /\ Reschedules(t, entry, s, stage, earned)
  BY <1>1, RescheduleStep
<1>2. CASE completeMultiStageMission(t, entry, s, TRUE, earned)
  BY <1>2, SettleStep
<1>3. CASE completeMultiStageMission(t, entry, s, FALSE, earned)
  BY <1>3, SettleStep
<1> QED
  BY <1>1, <1>2, <1>3 DEF GoesOn

\* The stages a decision may lead to are stages.
LEMMA OptionFacts ==
    ASSUME NEW stage \in Stages
    PROVE  /\ StageDefinitions[stage].nextStage \in Stages \cup {NoStage}
           /\ DOMAIN StageDefinitions[stage].options \subseteq Nat
           /\ \A n \in DOMAIN StageDefinitions[stage].options :
                 StageDefinitions[stage].options[n].nextStage \in Stages \cup {NoStage}
BY TransformsAssumption DEF Successors, ToSet

LEMMA DeliverStep ==
    ASSUME GameTypes, Resources, SameMoment, Late', DeliverDueBatch
    PROVE  Resources'
<1>1. DueTransforms \in SUBSET Nat /\ DueTransforms # {}
  BY TransformsAssumption DEF DueTransforms, DeliverDueBatch
<1>2. PICK t : t = Min(DueTransforms)
  OBVIOUS
<1>3. t \in DOMAIN Transforms /\ Due(t)
  BY <1>1, <1>2, MinNat DEF DueTransforms
<1>4. PICK s : s = Tail(batches[t])
  OBVIOUS
<1>5. PICK entry : entry = Head(batches[t])
  OBVIOUS
<1>6. /\ batches[t] # <<>> /\ 1 \in DOMAIN batches[t] /\ entry = batches[t][1]
      /\ entry \in Entries /\ entry.completeAtStep <= step
  <2>1. batches[t] # <<>> /\ entry.completeAtStep <= step
    BY <1>3, <1>5 DEF Due
  <2>2. 1 \in DOMAIN batches[t]
    BY <1>3, <2>1, QueueTyped, EmptySeq
  <2> QED
    BY <1>3, <1>5, <2>1, <2>2, QueueTyped, HeadTailProperties
<1>7. Removal(s, batches[t], 1)
  BY <1>3, <1>4, <1>6, QueueTyped, TailFacts
<1>8. Resolving(t, 1, s)
  BY <1>3, <1>6, <1>7 DEF Resolving, DeliverDueBatch
<1>9. Proper(t, entry)
  BY <1>3, <1>6 DEF Resources, BatchInv, BatchesKept
<1>10. entry.stage # NoStage => Alike(entry, t, 1) /\ entry.stage \in Stages
  BY <1>6, <1>9 DEF Alike, Proper, Entries
<1>11. \/ entry.mission = NoMission /\ completeStandardBatch(t, s)
       \/ /\ entry.mission # NoMission /\ entry.stage = NoStage
          /\ completeMissionBatch(t, entry, s)
       \/ entry.stage # NoStage /\ DecidesByTimeout(t, entry, s)
       \/ entry.stage # NoStage /\ CompletesStage(t, entry, s)
       \/ entry.stage # NoStage /\ FailsStage(t, entry, s)
  BY <1>2, <1>4, <1>5 DEF DeliverDueBatch
<1>12. ASSUME batches' = [batches EXCEPT ![t] = s], UNCHANGED <<instances, availableCount>>,
              Returns(entry),
              \/ entry.mission = NoMission /\ UNCHANGED settled
              \/ entry.mission # NoMission /\ Settles(entry)
       PROVE  Resources'
  <2> USE DEF Resolving, Resources
  <2>1. PICK F : Carried(F, t, {1}, {}, batches[t][1])
    BY <1>8, <1>12, DropCarried DEF BatchInv
  <2>2. BatchInv'
    BY <1>6, <1>8, <1>12, <2>1, DropStep
  <2>3. settled' \in [1..MaxStarted -> Nat]
    BY <1>12 DEF BatchTypes, Settles
  <2>4. BatchTypes'
    BY <1>8, <2>1, <2>3, BatchTypesCarried DEF BatchTypes
  <2>5. InstancesTyped' /\ Counted'
    BY <1>12 DEF InstancesTyped, Counted, AvailableInstances, At
  <2> QED
    BY <2>2, <2>4, <2>5
<1>13. CASE entry.mission = NoMission /\ completeStandardBatch(t, s)
  BY <1>9, <1>12, <1>13 DEF completeStandardBatch, Returns, Proper
<1>14. CASE /\ entry.mission # NoMission /\ entry.stage = NoStage
            /\ completeMissionBatch(t, entry, s)
  BY <1>6, <1>12, <1>14 DEF completeMissionBatch, Returns
<1>15. CASE entry.stage # NoStage /\ DecidesByTimeout(t, entry, s)
  <2> DEFINE options == StageDefinitions[entry.stage].options
             available == {n \in DOMAIN options : Available(options[n])}
  <2>1. CASE available = {}
    BY <1>8, <1>10, <1>15, <2>1, SettleStep DEF DecidesByTimeout
  <2>2. CASE available # {}
    <3>1. PICK n : n = Min(available)
      OBVIOUS
    <3>2. available \in SUBSET Nat
      BY <1>10, <1>15, OptionFacts
    <3>3. n \in DOMAIN options
      BY <2>2, <3>1, <3>2, MinNat
    <3>4. PICK stage \in Stages \cup {NoStage} : stage = options[n].nextStage
      BY <1>10, <1>15, <3>3, OptionFacts
    <3>5. GoesOn(t, entry, s, stage, 0)
      BY <1>15, <2>2, <3>1, <3>4 DEF DecidesByTimeout
    <3> QED
      BY <1>8, <1>10, <1>15, <3>5, GoesOnStep
  <2> QED
    BY <2>1, <2>2
<1>16. CASE entry.stage # NoStage /\ CompletesStage(t, entry, s)
  <2>1. PICK paid : paid = Checkpoint(entry)
    OBVIOUS
  <2>2. PICK earned : earned = Cardinality(paid)
    OBVIOUS
  <2>3. PICK onward : onward = [entry EXCEPT !.checkpointRewardsGranted = @ \cup paid]
    OBVIOUS
  <2>4. paid \subseteq Stages
    BY <1>10, <1>16, <2>1 DEF Checkpoint
  <2>5. Alike(onward, t, 1) /\ onward.stage = entry.stage
    <3>1. /\ onward.mission = entry.mission /\ onward.crew = entry.crew
          /\ onward.batchId = entry.batchId /\ onward.stage = entry.stage
      BY <1>6, <2>3 DEF Entries
    <3>2. onward \in Entries
      BY <1>6, <2>3, <2>4 DEF Entries
    <3> QED
      BY <1>6, <1>10, <1>16, <3>1, <3>2 DEF Alike
  <2>6. PICK stage \in Stages \cup {NoStage} : stage = StageDefinitions[entry.stage].nextStage
    BY <1>10, <1>16, OptionFacts
  <2>7. AsksForDecision(t, onward, s, earned) \/ GoesOn(t, onward, s, stage, earned)
    BY <1>16, <2>1, <2>2, <2>3, <2>6 DEF CompletesStage
  <2> QED
    BY <1>8, <2>5, <2>7, AskStep, GoesOnStep
<1>17. CASE entry.stage # NoStage /\ FailsStage(t, entry, s)
  BY <1>8, <1>10, <1>17, SettleStep DEF FailsStage
<1> QED
  BY <1>11, <1>13, <1>14, <1>15, <1>16, <1>17

LEMMA AddressedFacts ==
    ASSUME GameTypes, NEW t \in DOMAIN Transforms, NEW k \in DOMAIN batches[t]
    PROVE  /\ Addressed(t, batches[t][k].batchId) \in DOMAIN batches[t]
           /\ batches[t][Addressed(t, batches[t][k].batchId)].batchId = batches[t][k].batchId
<1> DEFINE found == {n \in DOMAIN batches[t] : batches[t][n].batchId = batches[t][k].batchId}
<1>1. found \in SUBSET Nat /\ k \in found
  BY QueueTyped
<1>2. Min(found) \in found
  BY <1>1, MinNat
<1> QED
  BY <1>2 DEF Addressed

LEMMA DecisionStep ==
    ASSUME GameTypes, Resources, SameMoment, makeMissionDecision
    PROVE  Resources'
<1>1. PICK t \in DOMAIN Transforms : \E e \in ToSet(batches[t]) :
          LET n == Addressed(t, e.batchId)
              entry == batches[t][n]
              options == StageDefinitions[entry.stage].options
          IN  /\ entry.pendingDecision
              /\ \E option \in ToSet(options) :
                    /\ Available(option)
                    /\ \/ /\ option.nextStage # NoStage
                          /\ Reschedules(t, entry, RemoveAt(batches[t], n), option.nextStage, 0)
                       \/ /\ option.nextStage = NoStage
                          /\ completeMultiStageMission(t, entry, RemoveAt(batches[t], n), TRUE, 0)
  BY DEF makeMissionDecision
<1>2. PICK k \in DOMAIN batches[t] :
          LET n == Addressed(t, batches[t][k].batchId)
              entry == batches[t][n]
              options == StageDefinitions[entry.stage].options
          IN  /\ entry.pendingDecision
              /\ \E option \in ToSet(options) :
                    /\ Available(option)
                    /\ \/ /\ option.nextStage # NoStage
                          /\ Reschedules(t, entry, RemoveAt(batches[t], n), option.nextStage, 0)
                       \/ /\ option.nextStage = NoStage
                          /\ completeMultiStageMission(t, entry, RemoveAt(batches[t], n), TRUE, 0)
  BY <1>1 DEF ToSet
<1>3. PICK n : n = Addressed(t, batches[t][k].batchId)
  OBVIOUS
<1>4. PICK entry : entry = batches[t][n]
  OBVIOUS
<1>5. PICK s : s = RemoveAt(batches[t], n)
  OBVIOUS
<1>6. /\ entry.pendingDecision
      /\ \E option \in ToSet(StageDefinitions[entry.stage].options) :
            \/ /\ option.nextStage # NoStage
               /\ Reschedules(t, entry, s, option.nextStage, 0)
            \/ /\ option.nextStage = NoStage
               /\ completeMultiStageMission(t, entry, s, TRUE, 0)
  BY <1>2, <1>3, <1>4, <1>5
<1>7. n \in DOMAIN batches[t]
  BY <1>3, AddressedFacts
<1>8. Removal(s, batches[t], n)
  BY <1>5, <1>7, QueueTyped, RemoveAtFacts
<1>9. Resolving(t, n, s)
  BY <1>7, <1>8 DEF Resolving, makeMissionDecision
<1>10. Alike(entry, t, n) /\ entry.stage \in Stages
  BY <1>4, <1>6, <1>7, QueueTyped DEF Alike, Proper, Entries, Resources, BatchInv, BatchesKept
<1>11. PICK j \in DOMAIN StageDefinitions[entry.stage].options :
            LET option == StageDefinitions[entry.stage].options[j]
            IN  \/ /\ option.nextStage # NoStage
                   /\ Reschedules(t, entry, s, option.nextStage, 0)
                \/ /\ option.nextStage = NoStage
                   /\ completeMultiStageMission(t, entry, s, TRUE, 0)
  BY <1>6 DEF ToSet
<1>12. PICK stage \in Stages \cup {NoStage} :
            stage = StageDefinitions[entry.stage].options[j].nextStage
  BY <1>10, OptionFacts
<1>13. CASE stage # NoStage /\ Reschedules(t, entry, s, stage, 0)
  BY <1>9, <1>10, <1>13, RescheduleStep
<1>14. CASE completeMultiStageMission(t, entry, s, TRUE, 0)
  BY <1>9, <1>10, <1>14, SettleStep
<1> QED
  BY <1>11, <1>12, <1>13, <1>14

-----------------------------------------------------------------------------
(* The actions                                                              *)

\* Where the step is.
PlaceTypes ==
    /\ step \in 0..Horizon /\ phase \in Phases
    /\ phase # "idle" => step < Horizon
    /\ turn \in (IF phase = "automation" THEN DOMAIN Automations ELSE DOMAIN Transforms)
    /\ reloaded \in BOOLEAN

LEMMA ClockedStays ==
    ASSUME Clocked, UNCHANGED <<automations, dipped, step>>,
           \A n \in DOMAIN Automations : HadItsTurn(n) => HadItsTurn(n)'
    PROVE  Clocked'
BY DEF Clocked, ClockedAt

LEMMA Together ==
    ASSUME PlaceTypes', Clocked', Resources'
    PROVE  GameInv'
BY DEF PlaceTypes, Resources, BatchTypes, InstancesTyped, BatchInv, GameInv, GameTypes

\* Nothing becomes of the batches and the instances.
LEMMA ResourcesStay ==
    ASSUME GameTypes, Resources, SameMoment,
           UNCHANGED <<batches, batchSequences, started, settled>>, UNCHANGED entityVars
    PROVE  Resources'
<1>1. BatchInv' /\ BatchTypes'
  BY StillStep DEF Resources, entityVars
<1>2. InstancesTyped' /\ Counted'
  BY DEF Resources, InstancesTyped, Counted, AvailableInstances, At, entityVars
<1> QED
  BY <1>1, <1>2 DEF Resources

LEMMA CommandStep ==
    ASSUME GameInv, Commands
    PROVE  GameInv'
<1>1. GameTypes /\ Clocked /\ Resources
  BY ResourcesOfGame DEF GameInv
<1>2. InCommands
  BY DEF Commands, CollectResource, RunTransform, MakeMissionDecision, Toggle, CommandEntities
<1>3. SameMoment /\ PlaceTypes'
  BY <1>1, <1>2 DEF InCommands, SameMoment, Late, BetweenTicks, GameTypes, PlaceTypes, Phases
<1>4. step' = step /\ \A n \in DOMAIN Automations : ~HadItsTurn(n)
  BY <1>2 DEF InCommands, HadItsTurn, Late
<1>5. ASSUME UNCHANGED <<batches, batchSequences, started, settled>>, UNCHANGED entityVars
      PROVE  Resources'
  BY <1>1, <1>3, <1>5, ResourcesStay
<1>6. CASE CollectResource
  <2>1. Resources'
    BY <1>5, <1>6 DEF CollectResource, transformVars, missionGhosts
  <2>2. Clocked'
    BY <1>1, <1>4, <1>6, ClockedStays DEF CollectResource, automationVars
  <2> QED
    BY <1>3, <2>1, <2>2, Together
<1>7. CASE RunTransform
  <2>1. PICK t \in DOMAIN Transforms : Starts(t) \/ FailsToStart(t) \/ Converts(t)
    BY <1>7 DEF RunTransform, executeTransform
  <2>2. Resources'
    BY <1>1, <1>3, <2>1, RunStep
  <2>3. Clocked'
    BY <1>1, <1>4, <1>7, ClockedStays DEF RunTransform, automationVars
  <2> QED
    BY <1>3, <2>2, <2>3, Together
<1>8. CASE MakeMissionDecision
  <2>1. Resources'
    BY <1>1, <1>3, <1>8, DecisionStep DEF MakeMissionDecision
  <2>2. Clocked'
    BY <1>1, <1>4, <1>8, ClockedStays DEF MakeMissionDecision
  <2> QED
    BY <1>3, <2>1, <2>2, Together
<1>9. CASE Toggle
  <2>1. Resources'
    BY <1>5, <1>9 DEF Toggle, transformVars, missionGhosts
  <2>2. PICK n \in Toggled, enabled \in BOOLEAN :
            automations' = [automations EXCEPT ![n].enabled = enabled]
    BY <1>9 DEF Toggle, ToggleAutomation
  <2>3. dipped' = dipped
    BY <1>9 DEF Toggle, ToggleAutomation
  <2>4. Clocked'
    <3>1. DOMAIN automations' = DOMAIN automations
      BY <2>2
    <3>2. ASSUME NEW m \in DOMAIN Automations PROVE ClockedAt(m)'
      <4>1. PICK a : a = automations[m]
        OBVIOUS
      <4>2. PICK b : b = automations'[m]
        OBVIOUS
      <4>3. b = [a EXCEPT !.enabled = enabled] \/ b = a
        BY <1>1, <2>2, <4>1, <4>2 DEF Clocked
      <4>4. a = [enabled |-> a.enabled, lastFiredStep |-> a.lastFiredStep,
                 cooldownExpiresStep |-> a.cooldownExpiresStep,
                 lastThresholdSatisfied |-> a.lastThresholdSatisfied]
        BY <1>1, <4>1 DEF Clocked, ClockedAt
      <4>5. /\ b = [enabled |-> b.enabled, lastFiredStep |-> b.lastFiredStep,
                    cooldownExpiresStep |-> b.cooldownExpiresStep,
                    lastThresholdSatisfied |-> b.lastThresholdSatisfied]
            /\ b.lastFiredStep = a.lastFiredStep
            /\ b.cooldownExpiresStep = a.cooldownExpiresStep
            /\ b.lastThresholdSatisfied = a.lastThresholdSatisfied
        BY <4>3, <4>4
      <4>6. ClockedAt(m) /\ ~HadItsTurn(m)
        BY <1>1, <1>4 DEF Clocked
      <4> QED
        BY <1>4, <2>3, <4>1, <4>2, <4>5, <4>6 DEF ClockedAt
    <3> QED
      BY <1>1, <3>1, <3>2 DEF Clocked
  <2> QED
    BY <1>3, <2>1, <2>4, Together
<1>10. CASE CommandEntities
  <2>1. EntityCommand /\ UNCHANGED <<batches, batchSequences, started, settled>>
    BY <1>10 DEF CommandEntities, transformVars, missionGhosts
  <2>2. /\ InstancesTyped' /\ Counted' /\ byHand \subseteq byHand'
        /\ \A i \in Instances \ byHand' :
              \/ instances'[i] = instances[i]
              \/ instances[i].at = "unused" /\ instances'[i] = Home
    BY <1>1, <2>1, EntityCommandFacts DEF Resources
  <2>3. BatchInv' /\ BatchTypes'
    BY <1>1, <1>3, <2>1, <2>2, StillStep DEF Resources
  <2>4. Clocked'
    BY <1>1, <1>4, <1>10, ClockedStays DEF CommandEntities, automationVars
  <2> QED
    BY <1>3, <2>2, <2>3, <2>4, Together DEF Resources
<1> QED
  BY <1>6, <1>7, <1>8, <1>9, <1>10 DEF Commands

\* A record of an automation as the code has it.
Shaped(a) ==
    /\ a = [enabled |-> a.enabled, lastFiredStep |-> a.lastFiredStep,
            cooldownExpiresStep |-> a.cooldownExpiresStep,
            lastThresholdSatisfied |-> a.lastThresholdSatisfied]
    /\ a.lastFiredStep \in Int /\ a.cooldownExpiresStep \in Int

\* The automations r are those there were, n with what is remembered of its threshold.
Remembering(r, n, satisfied) ==
    /\ DOMAIN r = DOMAIN Automations
    /\ \A m \in DOMAIN Automations \ {n} : r[m] = automations[m]
    /\ Shaped(r[n])
    /\ r[n].lastFiredStep = automations[n].lastFiredStep
    /\ r[n].cooldownExpiresStep = automations[n].cooldownExpiresStep
    /\ Automations[n].trigger = "resourceThreshold" => r[n].lastThresholdSatisfied = satisfied

LEMMA RememberedFacts ==
    ASSUME Clocked, NEW n \in DOMAIN Automations, NEW satisfied
    PROVE  Remembering(Remembered(n, satisfied), n, satisfied)
<1>1. DOMAIN automations = DOMAIN Automations /\ Shaped(automations[n])
  BY DEF Clocked, ClockedAt, Shaped
<1>2. CASE Automations[n].trigger # "resourceThreshold"
  <2>1. Remembered(n, satisfied) = automations
    BY <1>2 DEF Remembered
  <2> QED
    BY <1>1, <1>2, <2>1 DEF Remembering
<1>3. CASE Automations[n].trigger = "resourceThreshold"
  <2>1. Remembered(n, satisfied) = [automations EXCEPT ![n].lastThresholdSatisfied = satisfied]
    BY <1>3 DEF Remembered
  <2>2. PICK a : a = automations[n]
    OBVIOUS
  <2>3. PICK b : b = Remembered(n, satisfied)[n]
    OBVIOUS
  <2>4. b = [a EXCEPT !.lastThresholdSatisfied = satisfied]
    BY <1>1, <2>1, <2>2, <2>3
  <2>5. /\ Shaped(b) /\ b.lastFiredStep = a.lastFiredStep
        /\ b.cooldownExpiresStep = a.cooldownExpiresStep
        /\ b.lastThresholdSatisfied = satisfied
    BY <1>1, <2>2, <2>4 DEF Shaped
  <2> QED
    BY <1>1, <2>1, <2>2, <2>3, <2>5 DEF Remembering
<1> QED
  BY <1>2, <1>3

LEMMA TurnClocked ==
    ASSUME GameTypes, Clocked, AutomationTurn
    PROVE  Clocked'
<1>1. phase = "automation" /\ turn \in DOMAIN Automations /\ step' = step
  BY DEF AutomationTurn, GameTypes
<1>2. PICK n \in DOMAIN Automations : n = turn
  BY <1>1
<1>3. HadItsTurn(n)' /\ \A m \in DOMAIN Automations : HadItsTurn(m) => HadItsTurn(m)'
  <2>1. /\ n \in Nat /\ n \in DOMAIN Automations /\ Len(Automations) \in Nat
        /\ DOMAIN Automations = 1..Len(Automations)
    BY AutomationsAssumption
  <2>2. \/ turn' = n + 1 /\ phase' = "automation"
        \/ phase' = "deliver"
    BY <1>2 DEF AutomationTurn, NextTurn
  <2>3. ASSUME NEW m \in DOMAIN Automations, m < n \/ m = n PROVE HadItsTurn(m)'
    <3>1. m \in Nat
      BY <2>1
    <3>2. CASE turn' = n + 1 /\ phase' = "automation"
      BY <2>1, <2>3, <3>1, <3>2 DEF HadItsTurn
    <3>3. CASE phase' = "deliver"
      BY <3>3 DEF HadItsTurn, Late
    <3> QED
      BY <2>2, <3>2, <3>3
  <2>4. \A m \in DOMAIN Automations : HadItsTurn(m) => m < n
    BY <1>1, <1>2 DEF HadItsTurn, Late
  <2> QED
    BY <2>3, <2>4
<1>4. Disabled(n) \/ CoolsDown(n) \/ Waits(n) \/ CannotPay(n) \/ Fires(n)
  BY <1>2 DEF AutomationTurn
<1>5. /\ DOMAIN automations = DOMAIN Automations /\ Shaped(automations[n])
      /\ \A m \in DOMAIN Automations : ClockedAt(m)
  BY DEF Clocked, ClockedAt, Shaped
<1>6. ASSUME DOMAIN automations' = DOMAIN Automations,
             \A m \in DOMAIN Automations \ {n} :
                 automations'[m] = automations[m] /\ (m \in dipped => m \in dipped'),
             ClockedAt(n)'
      PROVE  Clocked'
  <2>1. ASSUME NEW m \in DOMAIN Automations, m # n PROVE ClockedAt(m)'
    <3>1. automations'[m] = automations[m] /\ (m \in dipped => m \in dipped')
      BY <1>6, <2>1
    <3> QED
      BY <1>1, <1>3, <1>5, <3>1 DEF ClockedAt
  <2> QED
    BY <1>6, <2>1 DEF Clocked
<1>7. ASSUME HoldsFire(n), DOMAIN automations' = DOMAIN Automations,
             \A m \in DOMAIN Automations \ {n} : automations'[m] = automations[m],
             Shaped(automations'[n]),
             automations'[n].lastFiredStep = automations[n].lastFiredStep,
             automations'[n].cooldownExpiresStep = automations[n].cooldownExpiresStep,
             automations[n].lastFiredStep # NEVER_FIRED
                 /\ Automations[n].trigger = "resourceThreshold" /\ n \notin dipped' =>
                 automations'[n].lastThresholdSatisfied
      PROVE  Clocked'
  <2>1. \A m \in dipped : m \in dipped'
    BY <1>7 DEF HoldsFire, Dips
  <2>2. ClockedAt(n)'
    BY <1>1, <1>3, <1>5, <1>7 DEF ClockedAt, Shaped
  <2> QED
    BY <1>6, <1>7, <2>1, <2>2
<1>8. Automations[n].trigger = "resourceThreshold" /\ HoldsFire(n) /\ n \notin dipped' =>
          ThresholdSatisfied(n) /\ n \notin dipped
  BY DEF HoldsFire, Dips
<1>9. automations[n].lastFiredStep # NEVER_FIRED
          /\ Automations[n].trigger = "resourceThreshold" /\ n \notin dipped =>
          automations[n].lastThresholdSatisfied
  BY <1>5 DEF ClockedAt
<1>10. ASSUME HoldsFire(n), automations' = automations PROVE Clocked'
  BY <1>5, <1>7, <1>8, <1>9, <1>10
<1>11. ASSUME HoldsFire(n), NEW satisfied, automations' = Remembered(n, satisfied),
              automations[n].lastFiredStep # NEVER_FIRED
                  /\ Automations[n].trigger = "resourceThreshold" /\ n \notin dipped' => satisfied
       PROVE  Clocked'
  <2>1. Remembering(automations', n, satisfied)
    BY <1>11, RememberedFacts
  <2> QED
    BY <1>7, <1>11, <2>1 DEF Remembering
<1>12. CASE Disabled(n)
  BY <1>10, <1>12 DEF Disabled
<1>13. CASE CoolsDown(n)
  <2>1. CASE ThresholdSatisfied(n)
    BY <1>10, <1>13, <2>1 DEF CoolsDown
  <2>2. CASE ~ThresholdSatisfied(n)
    <3>1. HoldsFire(n) /\ automations' = Remembered(n, FALSE)
      BY <1>13, <2>2 DEF CoolsDown
    <3> QED
      BY <1>8, <1>11, <2>2, <3>1
  <2> QED
    BY <2>1, <2>2
<1>14. CASE Waits(n)
  <2>1. HoldsFire(n) /\ automations' = Remembered(n, ThresholdSatisfied(n))
    BY <1>14 DEF Waits
  <2>2. PICK satisfied : satisfied = ThresholdSatisfied(n)
    OBVIOUS
  <2>3. automations' = Remembered(n, satisfied)
    BY <2>1, <2>2
  <2>4. Automations[n].trigger = "resourceThreshold" /\ n \notin dipped' => satisfied
    BY <1>8, <2>1, <2>2
  <2> QED
    BY <1>11, <2>1, <2>3, <2>4
<1>15. CASE CannotPay(n)
  <2>1. HoldsFire(n) /\ automations' = Remembered(n, FALSE) /\ Triggered(n)
    BY <1>15 DEF CannotPay
  <2>2. Automations[n].trigger = "resourceThreshold" => ~automations[n].lastThresholdSatisfied
    BY <2>1 DEF Triggered, ThresholdCrossing
  <2>3. ~(automations[n].lastFiredStep # NEVER_FIRED
              /\ Automations[n].trigger = "resourceThreshold" /\ n \notin dipped')
    BY <1>8, <1>9, <2>1, <2>2
  <2> QED
    BY <1>11, <2>1, <2>3
<1>16. CASE Fires(n)
  <2>1. /\ automations' = [Remembered(n, TRUE) EXCEPT
               ![n].lastFiredStep = step,
               ![n].cooldownExpiresStep =
                   IF Automations[n].cooldown = 0 THEN 0 ELSE step + Automations[n].cooldown + 1]
        /\ dipped' = dipped \ {n}
    BY <1>16 DEF Fires, Fire
  <2>2. /\ DOMAIN automations' = DOMAIN Automations
        /\ \A m \in DOMAIN Automations \ {n} : automations'[m] = automations[m]
    <3>1. PICK r : r = Remembered(n, TRUE)
      OBVIOUS
    <3>2. Remembering(r, n, TRUE)
      BY <3>1, RememberedFacts
    <3>3. /\ DOMAIN r = DOMAIN Automations
          /\ \A m \in DOMAIN Automations \ {n} : r[m] = automations[m]
      BY <3>2 DEF Remembering
    <3>4. /\ DOMAIN automations' = DOMAIN r
          /\ \A m \in DOMAIN r \ {n} : automations'[m] = r[m]
      BY <2>1, <3>1
    <3> QED
      BY <3>3, <3>4
  <2>3. ClockedAt(n)'
    <3>1. PICK a : a = Remembered(n, TRUE)[n]
      OBVIOUS
    <3>2. PICK b : b = automations'[n]
      OBVIOUS
    <3>3. PICK expires : expires =
              IF Automations[n].cooldown = 0 THEN 0 ELSE step + Automations[n].cooldown + 1
      OBVIOUS
    <3>4. Remembering(Remembered(n, TRUE), n, TRUE)
      BY RememberedFacts
    <3>5. b = [a EXCEPT !.lastFiredStep = step, !.cooldownExpiresStep = expires]
      BY <2>1, <3>1, <3>2, <3>3, <3>4 DEF Remembering
    <3>6. Shaped(a) /\ (Automations[n].trigger = "resourceThreshold" => a.lastThresholdSatisfied)
      BY <3>1, <3>4 DEF Remembering
    <3>7. step \in 0..Horizon /\ Horizon \in Nat /\ expires \in Int
      <4>1. step \in 0..Horizon
        BY DEF GameTypes
      <4>2. Horizon \in Nat
        BY HorizonAssumption DEF MAX_SAFE_INTEGER
      <4>3. Automations[n].cooldown \in Nat
        BY AutomationsAssumption
      <4> QED
        BY <3>3, <4>1, <4>2, <4>3
    <3>8. /\ Shaped(b) /\ b.lastFiredStep = step /\ b.cooldownExpiresStep = expires
          /\ b.lastThresholdSatisfied = a.lastThresholdSatisfied
      <4>1. a = [enabled |-> a.enabled, lastFiredStep |-> a.lastFiredStep,
                 cooldownExpiresStep |-> a.cooldownExpiresStep,
                 lastThresholdSatisfied |-> a.lastThresholdSatisfied]
        BY <3>6 DEF Shaped
      <4>2. b = [enabled |-> a.enabled, lastFiredStep |-> step,
                 cooldownExpiresStep |-> expires,
                 lastThresholdSatisfied |-> a.lastThresholdSatisfied]
        BY <3>5, <4>1
      <4>3. step \in Int /\ expires \in Int
        BY <3>7
      <4> QED
        BY <4>2, <4>3 DEF Shaped
    <3> QED
      BY <1>1, <1>3, <3>2, <3>3, <3>6, <3>7, <3>8 DEF ClockedAt, Shaped
  <2> QED
    BY <1>6, <2>1, <2>2, <2>3
<1> QED
  BY <1>4, <1>12, <1>13, <1>14, <1>15, <1>16

\* The next turn is one there is.
LEMMA TurnFacts ==
    ASSUME GameTypes, NEW last \in Nat, NEW here, NEW next, NextTurn(last, here, next)
    PROVE  \/ phase' = next /\ turn' = 1
           \/ phase' = here /\ (turn \in 1..last => turn' \in 1..last)
BY DEF NextTurn

LEMMA SystemStep ==
    ASSUME GameInv, RunQueued \/ AutomationTurn \/ Deliver \/ TransformTurn
    PROVE  GameInv'
<1>1. GameTypes /\ Clocked /\ Resources
  BY ResourcesOfGame DEF GameInv
<1>2. /\ step \in 0..Horizon /\ reloaded \in BOOLEAN
      /\ 1 \in DOMAIN Automations /\ 1 \in DOMAIN Transforms
      /\ Len(Automations) \in Nat /\ DOMAIN Automations = 1..Len(Automations)
      /\ Len(Transforms) \in Nat /\ DOMAIN Transforms = 1..Len(Transforms)
  BY <1>1, AutomationsAssumption, TransformsAssumption DEF GameTypes
<1>3. CASE RunQueued
  <2>1. SameMoment /\ PlaceTypes'
    BY <1>2, <1>3 DEF RunQueued, SameMoment, Late, BetweenTicks, PlaceTypes, Phases
  <2>2. Resources'
    BY <1>1, <1>3, <2>1, ResourcesStay DEF RunQueued, transformVars, missionGhosts
  <2>3. Clocked'
    BY <1>1, <1>3, ClockedStays DEF RunQueued, HadItsTurn, Late
  <2> QED
    BY <2>1, <2>2, <2>3, Together
<1>4. CASE AutomationTurn
  <2>1. /\ phase = "automation" /\ step' = step /\ reloaded' = reloaded
        /\ UNCHANGED entityVars /\ UNCHANGED <<batches, batchSequences, started, settled>>
        /\ NextTurn(Len(Automations), "automation", "deliver")
    BY <1>4 DEF AutomationTurn, missionGhosts
  <2>2. \/ phase' = "deliver" /\ turn' = 1
        \/ phase' = "automation" /\ turn' \in DOMAIN Automations
    BY <1>1, <1>2, <2>1, TurnFacts DEF GameTypes
  <2>3. SameMoment /\ PlaceTypes'
    BY <1>1, <1>2, <2>1, <2>2 DEF SameMoment, Late, BetweenTicks, PlaceTypes, Phases, GameTypes
  <2>4. Resources'
    BY <1>1, <2>1, <2>3, ResourcesStay
  <2> QED
    BY <1>1, <1>4, <2>3, <2>4, Together, TurnClocked
<1>5. CASE Deliver
  <2>1. SameMoment /\ PlaceTypes' /\ Late'
    BY <1>1, <1>5 DEF Deliver, SameMoment, Late, BetweenTicks, PlaceTypes, GameTypes, stepVars
  <2>2. Resources'
    BY <1>1, <1>5, <2>1, DeliverStep DEF Deliver
  <2>3. Clocked'
    BY <1>1, <1>5, ClockedStays DEF Deliver, HadItsTurn, Late, stepVars
  <2> QED
    BY <2>1, <2>2, <2>3, Together
<1>6. CASE TransformTurn
  <2>1. /\ phase \in {"trigger", "deliver"} /\ step' = step /\ reloaded' = reloaded
        /\ NextTurn(Len(Transforms), "trigger", "deliver again")
        /\ turn \in DOMAIN Transforms
    BY <1>1, <1>6 DEF TransformTurn, GameTypes
  <2>2. \/ phase' = "deliver again" /\ turn' = 1
        \/ phase' = "trigger" /\ turn' \in DOMAIN Transforms
    BY <1>1, <1>2, <2>1, TurnFacts
  <2>3. SameMoment /\ PlaceTypes'
    BY <1>1, <1>2, <2>1, <2>2 DEF SameMoment, Late, BetweenTicks, PlaceTypes, Phases, GameTypes
  <2>4. PICK t \in DOMAIN Transforms : t = turn
    BY <2>1
  <2>5. \/ Starts(t) \/ FailsToStart(t) \/ Converts(t)
        \/ UNCHANGED <<amount, transformVars, entityVars>>
    BY <1>6, <2>4 DEF TransformTurn, Triggers
  <2>6. Resources'
    BY <1>1, <2>3, <2>5, RunStep, ResourcesStay DEF transformVars, missionGhosts
  <2>7. Clocked'
    BY <1>1, <1>6, <2>1, <2>2, ClockedStays DEF TransformTurn, HadItsTurn, Late, automationVars
  <2> QED
    BY <2>3, <2>6, <2>7, Together
<1> QED
  BY <1>3, <1>4, <1>5, <1>6

LEMMA TickStep ==
    ASSUME GameInv, EntityTick
    PROVE  GameInv'
<1>1. GameTypes /\ Clocked /\ Resources /\ Counted
  BY ResourcesOfGame DEF GameInv
<1>2. /\ phase = "deliver again" /\ DueTransforms = {} /\ step' = step + 1 /\ phase' = "idle"
      /\ UNCHANGED <<turn, reloaded, automations, dipped, batches, batchSequences, started,
                     settled, byHand>>
  BY DEF EntityTick, ReturnDueMissions, automationVars, missionGhosts
<1>3. PICK crew : crew = {i \in Away : instances[i].returnStep <= step}
  OBVIOUS
<1>4. /\ returnFromMission(crew)
      /\ instances' = [i \in Instances |-> IF i \in crew \cap Away THEN Home ELSE instances[i]]
  BY <1>3 DEF EntityTick, ReturnDueMissions, returnFromMission
<1>5. /\ step \in Nat /\ Horizon \in Nat /\ MAX_SAFE_INTEGER \in Nat
      /\ step < Horizon /\ Horizon < MAX_SAFE_INTEGER
  <2>1. /\ Horizon \in Nat /\ Horizon < MAX_SAFE_INTEGER /\ MAX_SAFE_INTEGER \in Nat
    BY HorizonAssumption DEF MAX_SAFE_INTEGER
  <2>2. step \in 0..Horizon /\ step < Horizon
    BY <1>1, <1>2 DEF GameTypes
  <2> QED
    BY <2>1, <2>2
<1>6. PlaceTypes'
  <2>1. turn \in DOMAIN Transforms /\ reloaded \in BOOLEAN
    BY <1>1, <1>2 DEF GameTypes
  <2>2. step + 1 \in 0..Horizon
    BY <1>5
  <2> QED
    BY <1>2, <2>1, <2>2 DEF PlaceTypes, Phases
<1>7. Clocked'
  <2>1. ASSUME NEW n \in DOMAIN Automations PROVE ClockedAt(n)'
    <3>1. ClockedAt(n)
      BY <1>1 DEF Clocked
    <3>2. PICK last \in Int : last = automations[n].lastFiredStep
      BY <3>1 DEF ClockedAt
    <3>3. last \in (-Horizon)..step => last \in (-Horizon)..(step + 1) /\ last # step + 1
      BY <1>5
    <3> QED
      BY <1>2, <3>1, <3>2, <3>3 DEF ClockedAt
  <2> QED
    BY <1>1, <1>2, <2>1 DEF Clocked
<1>8. ASSUME NEW t \in DOMAIN Transforms, NEW n \in DOMAIN batches[t]
      PROVE  /\ batches[t][n] \in Entries /\ batches[t][n].completeAtStep \in Nat
             /\ batches[t][n].completeAtStep > step
  <2>1. /\ batches[t] # <<>> /\ 1 \in DOMAIN batches[t] /\ Head(batches[t]) = batches[t][1]
        /\ n \in 1..Len(batches[t])
    BY <1>1, <1>8, QueueTyped, EmptySeq, HeadTailProperties
  <2>2. batches[t][1] \in Entries /\ batches[t][n] \in Entries
    BY <1>1, <2>1, QueueTyped
  <2>3. batches[t][1].completeAtStep \in Nat /\ batches[t][n].completeAtStep \in Nat
    BY <2>2 DEF Entries
  <2>4. batches[t][1].completeAtStep > step
    <3>1. ~(Head(batches[t]).completeAtStep <= step)
      BY <1>2, <2>1 DEF DueTransforms, Due
    <3> QED
      BY <1>5, <2>1, <2>3, <3>1
  <2>5. n = 1 \/ ~ComesBefore(batches[t][n], batches[t][1])
    BY <1>1, <2>1 DEF Resources, BatchInv, BatchesKept, Sorted
  <2>6. batches[t][n].completeAtStep >= batches[t][1].completeAtStep
    BY <2>3, <2>5 DEF ComesBefore
  <2> QED
    BY <1>5, <2>2, <2>3, <2>4, <2>6
<1>9. BatchesKept' /\ NoClash' /\ Accounted'
  <2>1. BatchesKept'
    BY <1>1, <1>2 DEF Resources, BatchInv, BatchesKept, Proper
  <2>2. NoClash'
    <3>1. NoClash
      BY <1>1 DEF Resources, BatchInv
    <3>2. batches' = batches /\ reloaded' = reloaded /\ byHand' = byHand
      BY <1>2
    <3>3. ASSUME NEW t \in DOMAIN Transforms, NEW u \in DOMAIN Transforms,
                 NEW m \in DOMAIN batches'[t], NEW n \in DOMAIN batches'[u],
                 Clash(t, batches[t][m], u, batches[u][n])'
          PROVE  t = u /\ m = n
      <4>1. Clash(t, batches[t][m], u, batches[u][n])
        BY <3>2, <3>3 DEF Clash
      <4> QED
        BY <3>1, <3>2, <4>1 DEF NoClash
    <3> QED
      BY <3>3 DEF NoClash
  <2>3. Accounted'
    BY <1>1, <1>2 DEF Resources, BatchInv, Accounted, OnItsWay
  <2> QED
    BY <2>1, <2>2, <2>3
<1>10. CrewsOut'
  <2>1. ASSUME NEW t \in DOMAIN Transforms, NEW n \in DOMAIN batches[t],
               NEW i \in batches[t][n].crew \ byHand
        PROVE  OutWith(i, t, batches[t][n])'
    <3>1. OutWith(i, t, batches[t][n]) /\ i \in Instances
      BY <1>1, <1>8 DEF Resources, BatchInv, CrewsOut, Entries
    <3>2. ~(instances[i].returnStep <= step)
      <4>1. PICK at \in Nat : at = batches[t][n].completeAtStep /\ at > step
        BY <1>8
      <4>2. PICK return : return = instances[i].returnStep
        OBVIOUS
      <4>3. return = at \/ return = MAX_SAFE_INTEGER
        BY <3>1, <4>1, <4>2 DEF OutWith
      <4>4. ~(return <= step)
        BY <1>5, <4>1, <4>3
      <4> QED
        BY <4>2, <4>4
    <3>3. instances'[i] = instances[i]
      BY <1>3, <1>4, <3>1, <3>2
    <3> QED
      BY <1>2, <3>1, <3>3 DEF OutWith
  <2>2. ASSUME NEW i \in Away' \ byHand' PROVE Held(i)'
    <3>1. i \in Instances /\ instances'[i].at = "away"
      BY <2>2 DEF Away, At
    <3>2. i \notin crew \cap Away /\ instances'[i] = instances[i]
      BY <1>4, <3>1 DEF Home
    <3>3. i \in Away \ byHand /\ ~(instances[i].returnStep <= step)
      BY <1>2, <1>3, <2>2, <3>1, <3>2 DEF Away, At
    <3>4. Held(i)
      BY <1>1, <3>3 DEF Resources, BatchInv, CrewsOut
    <3> QED
      BY <1>2, <3>4 DEF Held
  <2> QED
    BY <1>2, <2>1, <2>2 DEF CrewsOut
<1>11. NothingLate'
  <2>1. ASSUME NEW t \in DOMAIN Transforms, NEW n \in DOMAIN batches[t]
        PROVE  batches[t][n].completeAtStep >= step + 1
    BY <1>5, <1>8
  <2> QED
    BY <1>2, <2>1 DEF NothingLate
<1>12. InstancesTyped' /\ Counted'
  BY <1>1, <1>4, ReturnFacts
<1>13. BatchTypes'
  BY <1>1, <1>2 DEF Resources, BatchTypes
<1> QED
  BY <1>6, <1>7, <1>9, <1>10, <1>11, <1>12, <1>13, Together DEF Resources, BatchInv

-----------------------------------------------------------------------------
(* A loaded save                                                            *)

\* Moved back by a restore, a step stays a step, and the steps keep their order.
LEMMA RebasedFacts ==
    ASSUME NEW delta \in Int, delta <= 0, NEW saved \in Nat
    PROVE  /\ RebasedStep(saved, delta) \in Nat
           /\ saved <= MAX_SAFE_INTEGER => RebasedStep(saved, delta) \in 0..MAX_SAFE_INTEGER
           /\ RebasedStep(MAX_SAFE_INTEGER, delta) = MAX_SAFE_INTEGER
           /\ \A later \in 0..MAX_SAFE_INTEGER :
                 saved <= later => RebasedStep(saved, delta) <= RebasedStep(later, delta)
           /\ \A s \in 0..MAX_SAFE_INTEGER : saved >= s => RebasedStep(saved, delta) >= s + delta
<1> USE DEF MAX_SAFE_INTEGER
<1>1. ASSUME NEW n \in Nat
      PROVE  RebasedStep(n, delta) = IF n = MAX_SAFE_INTEGER THEN n
                                     ELSE IF n + delta > 0 THEN n + delta ELSE 0
  <2>1. n + delta \in Int
    OBVIOUS
  <2>2. Max({0, n + delta}) = IF n + delta > 0 THEN n + delta ELSE 0
    BY <2>1, MaxZero
  <2> QED
    BY <2>2 DEF RebasedStep
<1>2. ASSUME NEW later \in 0..MAX_SAFE_INTEGER, saved <= later
      PROVE  RebasedStep(saved, delta) <= RebasedStep(later, delta)
  <2>1. later \in Nat /\ later <= MAX_SAFE_INTEGER
    OBVIOUS
  <2> QED
    BY <1>1, <1>2, <2>1
<1>3. PICK rebased : rebased = RebasedStep(saved, delta)
  OBVIOUS
<1>4. rebased = IF saved = MAX_SAFE_INTEGER THEN saved
                ELSE IF saved + delta > 0 THEN saved + delta ELSE 0
  BY <1>1, <1>3
<1>5. rebased \in Nat /\ (saved <= MAX_SAFE_INTEGER => rebased \in 0..MAX_SAFE_INTEGER)
  BY <1>4
<1>6. RebasedStep(MAX_SAFE_INTEGER, delta) = MAX_SAFE_INTEGER
  BY DEF RebasedStep
<1>7. ASSUME NEW s \in 0..MAX_SAFE_INTEGER, saved >= s
      PROVE  RebasedStep(saved, delta) >= s + delta
  BY <1>3, <1>4, <1>7
<1> QED
  BY <1>2, <1>3, <1>6, <1>7, <1>5

\* Entry d as entry e is restored, at place n.
Restored(e, d, n, delta) ==
    e = [d EXCEPT !.completeAtStep = RebasedStep(@, delta), !.sequence = n - 1]

LEMMA RestoredFacts ==
    ASSUME NEW delta \in Int, delta <= 0, NEW d \in Entries, NEW n \in Nat \ {0}, NEW e,
           Restored(e, d, n, delta)
    PROVE  /\ e \in Entries /\ e.sequence = n - 1
           /\ e.completeAtStep = RebasedStep(d.completeAtStep, delta)
           /\ e.mission = d.mission /\ e.crew = d.crew /\ e.batchId = d.batchId
           /\ e.stage = d.stage /\ e.pendingDecision = d.pendingDecision
<1>1. d.completeAtStep \in Nat /\ d.completeAtStep <= MAX_SAFE_INTEGER
  BY DEF Entries, MAX_SAFE_INTEGER
<1>2. PICK at \in 0..MAX_SAFE_INTEGER : at = RebasedStep(d.completeAtStep, delta)
  BY <1>1, RebasedFacts
<1>3. e = [d EXCEPT !.completeAtStep = at, !.sequence = n - 1]
  BY <1>2 DEF Restored
<1>4. n - 1 \in Nat
  OBVIOUS
<1> QED
  BY <1>2, <1>3, <1>4 DEF Entries

LEMMA ReloadStep ==
    ASSUME GameInv, Reload
    PROVE  GameInv'
<1>1. GameTypes /\ Clocked /\ Resources /\ Counted
  BY ResourcesOfGame DEF GameInv
<1>2. PICK target \in {0, step} :
          LET delta == target - step
          IN  /\ \A n \in DOMAIN automations :
                    /\ automations[n].cooldownExpiresStep + delta >= -Horizon
                    /\ automations[n].lastFiredStep \notin (-Horizon)..(-Horizon - delta - 1)
              /\ step' = target
              /\ RestoreAutomations(delta)
              /\ RestoreTransforms(delta)
              /\ RestoreEntities(delta)
  BY DEF Reload
<1>3. PICK delta : delta = target - step
  OBVIOUS
<1>4. /\ step \in 0..Horizon /\ Horizon \in Nat /\ MAX_SAFE_INTEGER \in Nat
      /\ Horizon < MAX_SAFE_INTEGER /\ turn \in DOMAIN Transforms
      /\ phase = "idle" /\ phase' = phase /\ turn' = turn /\ reloaded' = TRUE
  BY <1>1, HorizonAssumption DEF GameTypes, MAX_SAFE_INTEGER, Reload
<1>5. /\ delta \in Int /\ delta <= 0 /\ step' = step + delta /\ step' \in 0..Horizon
      /\ step \in 0..MAX_SAFE_INTEGER
  BY <1>2, <1>3, <1>4
<1>6. /\ \A n \in DOMAIN automations :
            automations[n].lastFiredStep \notin (-Horizon)..(-Horizon - delta - 1)
      /\ RestoreAutomations(delta) /\ RestoreTransforms(delta) /\ RestoreEntities(delta)
  BY <1>2, <1>3
<1>7. PlaceTypes'
  BY <1>4, <1>5 DEF PlaceTypes, Phases
<1>8. Clocked'
  <2>1. /\ automations' = [n \in DOMAIN Automations |->
               [automations[n] EXCEPT
                   !.lastFiredStep = IF @ = NEVER_FIRED THEN @ ELSE @ + delta,
                   !.cooldownExpiresStep = @ + delta]]
        /\ dipped' = dipped
    BY <1>6 DEF RestoreAutomations
  <2>2. ASSUME NEW n \in DOMAIN Automations PROVE ClockedAt(n)'
    <3>1. ClockedAt(n) /\ ~HadItsTurn(n) /\ DOMAIN automations = DOMAIN Automations
      BY <1>1, <1>4 DEF Clocked, HadItsTurn, Late
    <3>2. PICK a : a = automations[n]
      OBVIOUS
    <3>3. PICK b : b = automations'[n]
      OBVIOUS
    <3>4. PICK fired : fired = IF a.lastFiredStep = NEVER_FIRED THEN a.lastFiredStep
                                                              ELSE a.lastFiredStep + delta
      OBVIOUS
    <3>5. b = [a EXCEPT !.lastFiredStep = fired, !.cooldownExpiresStep = a.cooldownExpiresStep + delta]
      BY <2>1, <3>2, <3>3, <3>4
    <3>6. Shaped(a)
      BY <3>1, <3>2 DEF ClockedAt, Shaped
    <3>7. /\ a.lastFiredStep \in Int /\ fired \in Int /\ a.cooldownExpiresStep \in Int
          /\ a.cooldownExpiresStep + delta \in Int
      BY <1>5, <3>4, <3>6 DEF Shaped
    <3>8. /\ Shaped(b) /\ b.lastFiredStep = fired
          /\ b.cooldownExpiresStep = a.cooldownExpiresStep + delta
          /\ b.lastThresholdSatisfied = a.lastThresholdSatisfied
      BY <3>5, <3>6, <3>7 DEF Shaped
    <3>9. CASE a.lastFiredStep = NEVER_FIRED
      BY <3>3, <3>4, <3>8, <3>9 DEF ClockedAt, Shaped
    <3>10. CASE a.lastFiredStep # NEVER_FIRED
      <4>1. fired = a.lastFiredStep + delta /\ a.lastFiredStep \in (-Horizon)..step
            /\ a.lastFiredStep # step
        BY <3>1, <3>2, <3>4, <3>10 DEF ClockedAt
      <4>2. a.lastFiredStep \notin (-Horizon)..(-Horizon - delta - 1)
        BY <1>6, <3>1, <3>2
      <4>3. fired \in (-Horizon)..(step + delta) /\ fired # step + delta
        BY <1>4, <1>5, <3>7, <4>1, <4>2
      <4>4. /\ Automations[n].cooldown # 0 =>
                  b.cooldownExpiresStep = fired + Automations[n].cooldown + 1
            /\ Automations[n].trigger = "resourceThreshold" /\ n \notin dipped =>
                  b.lastThresholdSatisfied
        <5>1. Automations[n].cooldown \in Nat
          BY AutomationsAssumption
        <5>2. Automations[n].cooldown # 0 =>
                  a.cooldownExpiresStep = a.lastFiredStep + Automations[n].cooldown + 1
          BY <3>1, <3>2, <3>10 DEF ClockedAt
        <5>3. Automations[n].cooldown # 0 =>
                  b.cooldownExpiresStep = fired + Automations[n].cooldown + 1
          BY <1>5, <3>7, <3>8, <4>1, <5>1, <5>2
        <5> QED
          BY <3>1, <3>2, <3>8, <3>10, <5>3 DEF ClockedAt
      <4> QED
        BY <1>5, <2>1, <3>3, <3>8, <4>3, <4>4 DEF ClockedAt, Shaped
    <3> QED
      BY <3>9, <3>10
  <2> QED
    BY <2>1, <2>2 DEF Clocked
<1>9. /\ batches' \in [DOMAIN Transforms -> Seq(Entries)]
      /\ \A t \in DOMAIN Transforms :
            /\ DOMAIN batches'[t] = DOMAIN batches[t] /\ Len(batches'[t]) = Len(batches[t])
            /\ \A n \in DOMAIN batches[t] : Restored(batches'[t][n], batches[t][n], n, delta)
  <2>1. batches' = [t \in DOMAIN Transforms |->
            [n \in DOMAIN batches[t] |->
                [batches[t][n] EXCEPT !.completeAtStep = RebasedStep(@, delta),
                                      !.sequence = n - 1]]]
    BY <1>6 DEF RestoreTransforms
  <2>2. ASSUME NEW t \in DOMAIN Transforms
        PROVE  /\ batches'[t] \in Seq(Entries)
               /\ DOMAIN batches'[t] = DOMAIN batches[t] /\ Len(batches'[t]) = Len(batches[t])
               /\ \A n \in DOMAIN batches[t] : Restored(batches'[t][n], batches[t][n], n, delta)
    <3>1. /\ batches[t] \in Seq(Entries) /\ Len(batches[t]) \in Nat
          /\ DOMAIN batches[t] = 1..Len(batches[t])
          /\ \A n \in DOMAIN batches[t] : batches[t][n] \in Entries
      BY <1>1, QueueTyped
    <3>2. PICK q : q = batches'[t]
      OBVIOUS
    <3>3. q = [n \in 1..Len(batches[t]) |->
                  [batches[t][n] EXCEPT !.completeAtStep = RebasedStep(@, delta),
                                        !.sequence = n - 1]]
      BY <2>1, <3>1, <3>2
    <3>4. ASSUME NEW n \in 1..Len(batches[t])
          PROVE  Restored(q[n], batches[t][n], n, delta) /\ q[n] \in Entries
      <4>1. Restored(q[n], batches[t][n], n, delta)
        BY <3>3 DEF Restored
      <4>2. n \in Nat \ {0} /\ batches[t][n] \in Entries
        BY <3>1
      <4> QED
        BY <1>5, <4>1, <4>2, RestoredFacts
    <3>5. q \in [1..Len(batches[t]) -> Entries]
      BY <3>3, <3>4
    <3>6. q \in Seq(Entries) /\ Len(q) = Len(batches[t])
      BY <3>1, <3>5, LenProperties, SeqDef
    <3> QED
      BY <3>1, <3>2, <3>4, <3>5, <3>6
  <2> QED
    BY <2>1, <2>2
<1>10. ASSUME NEW t \in DOMAIN Transforms, NEW n \in DOMAIN batches[t]
       PROVE  LET d == batches[t][n]
                  e == batches'[t][n]
              IN  /\ d \in Entries /\ n \in Nat \ {0}
                  /\ e.sequence = n - 1 /\ e.completeAtStep = RebasedStep(d.completeAtStep, delta)
                  /\ e.mission = d.mission /\ e.crew = d.crew /\ e.batchId = d.batchId
                  /\ e.stage = d.stage /\ e.pendingDecision = d.pendingDecision
  <2>1. batches[t][n] \in Entries /\ n \in Nat \ {0}
    BY <1>1, QueueTyped
  <2>2. PICK e : e = batches'[t][n]
    OBVIOUS
  <2>3. Restored(e, batches[t][n], n, delta)
    BY <1>9, <2>2
  <2> QED
    BY <1>5, <2>1, <2>2, <2>3, RestoredFacts
<1>11. BatchTypes'
  <2>1. batchSequences' = [t \in DOMAIN Transforms |-> Len(batches[t])]
        /\ started' = started /\ settled' = settled
    BY <1>6 DEF RestoreTransforms, missionGhosts
  <2>2. \A t \in DOMAIN Transforms : Len(batches[t]) \in Nat
    BY <1>1, QueueTyped
  <2>3. batchSequences' \in [DOMAIN Transforms -> Nat]
    BY <2>1, <2>2
  <2> QED
    BY <1>1, <1>9, <2>1, <2>3 DEF Resources, BatchTypes
<1>12. BatchesKept'
  <2>1. ASSUME NEW t \in DOMAIN Transforms PROVE Sorted(batches[t])'
    <3>1. ASSUME NEW m \in DOMAIN batches[t], NEW n \in DOMAIN batches[t], m < n
          PROVE  ~ComesBefore(batches'[t][n], batches'[t][m])
      <4>1. PICK c \in 0..MAX_SAFE_INTEGER : c = batches[t][m].completeAtStep
        BY <1>10 DEF Entries
      <4>2. PICK d \in 0..MAX_SAFE_INTEGER : d = batches[t][n].completeAtStep
        BY <1>10 DEF Entries
      <4>3. c \in Nat /\ d \in Nat
        BY <1>4
      <4>4. ~ComesBefore(batches[t][n], batches[t][m])
        BY <1>1, <3>1 DEF Resources, BatchInv, BatchesKept, Sorted
      <4>5. c <= d
        BY <4>1, <4>2, <4>3, <4>4 DEF ComesBefore
      <4>6. RebasedStep(c, delta) <= RebasedStep(d, delta)
        BY <1>5, <4>3, <4>5, RebasedFacts
      <4>7. RebasedStep(c, delta) \in Nat /\ RebasedStep(d, delta) \in Nat
        BY <1>5, <4>3, RebasedFacts
      <4>8. /\ batches'[t][m].completeAtStep = RebasedStep(c, delta)
            /\ batches'[t][n].completeAtStep = RebasedStep(d, delta)
            /\ batches'[t][m].sequence = m - 1 /\ batches'[t][n].sequence = n - 1
            /\ m \in Nat /\ n \in Nat
        BY <1>10, <4>1, <4>2
      <4> QED
        BY <3>1, <4>6, <4>7, <4>8 DEF ComesBefore
    <3> QED
      BY <1>9, <3>1 DEF Sorted
  <2>2. ASSUME NEW t \in DOMAIN Transforms, NEW n \in DOMAIN batches[t]
        PROVE  Proper(t, batches[t][n])'
    <3>1. Proper(t, batches[t][n])
      BY <1>1 DEF Resources, BatchInv, BatchesKept
    <3>2. /\ batches'[t][n].mission = batches[t][n].mission
          /\ batches'[t][n].crew = batches[t][n].crew
          /\ batches'[t][n].stage = batches[t][n].stage
          /\ batches'[t][n].pendingDecision = batches[t][n].pendingDecision
      BY <1>10
    <3> QED
      BY <1>4, <3>1, <3>2 DEF Proper
  <2>3. \A t \in DOMAIN Transforms : Len(batches'[t]) <= MaxOutstandingBatches
    BY <1>1, <1>9 DEF Resources, BatchInv, BatchesKept
  <2> QED
    BY <1>9, <2>1, <2>2, <2>3 DEF BatchesKept
<1>13. UNCHANGED <<byHand, started, settled>>
  BY <1>6 DEF RestoreEntities, RestoreTransforms, missionGhosts
<1>14. NoClash'
  <2>1. ASSUME NEW t \in DOMAIN Transforms, NEW u \in DOMAIN Transforms,
               NEW m \in DOMAIN batches'[t], NEW n \in DOMAIN batches'[u],
               Clash(t, batches[t][m], u, batches[u][n])'
        PROVE  t = u /\ m = n
    <3>1. m \in DOMAIN batches[t] /\ n \in DOMAIN batches[u]
      BY <1>9
    <3>2. /\ batches'[t][m].mission = batches[t][m].mission
          /\ batches'[t][m].crew = batches[t][m].crew
          /\ batches'[u][n].mission = batches[u][n].mission
          /\ batches'[u][n].crew = batches[u][n].crew
      BY <1>10, <3>1
    <3>3. Clash(t, batches[t][m], u, batches[u][n])
      BY <1>4, <1>13, <2>1, <3>2 DEF Clash
    <3> QED
      BY <1>1, <3>1, <3>3 DEF Resources, BatchInv, NoClash
  <2> QED
    BY <2>1 DEF NoClash
<1>15. Accounted'
  <2>1. \A t \in DOMAIN Transforms : DOMAIN batches'[t] = DOMAIN batches[t]
    BY <1>9
  <2>2. \A t \in DOMAIN Transforms : \A n \in DOMAIN batches[t] :
            batches'[t][n].mission = batches[t][n].mission
    BY <1>10
  <2>3. ASSUME NEW m PROVE OnItsWay(m)' <=> OnItsWay(m)
    BY <2>1, <2>2 DEF OnItsWay
  <2> QED
    BY <1>1, <1>13, <2>3 DEF Resources, BatchInv, Accounted
<1>16. /\ instances' = [i \in Instances |->
              IF i \in Away
              THEN [instances[i] EXCEPT !.returnStep = RebasedStep(@, delta)]
              ELSE instances[i]]
       /\ availableCount' = Cardinality(Alive) - Cardinality(Away)
  BY <1>6 DEF RestoreEntities
<1>17. ASSUME NEW i \in Instances
       PROVE  IF i \in Away
              THEN /\ instances[i].returnStep \in Nat
                   /\ instances'[i].at = "away"
                   /\ instances'[i].mission = instances[i].mission
                   /\ instances'[i].batch = instances[i].batch
                   /\ instances'[i].returnStep = RebasedStep(instances[i].returnStep, delta)
                   /\ InstanceState(instances'[i])
              ELSE instances'[i] = instances[i]
  <2>1. CASE i \in Away
    <3>1. PICK a : a = instances[i]
      OBVIOUS
    <3>2. InstanceState(a) /\ a.at = "away"
      BY <1>1, <2>1, <3>1 DEF GameTypes, Away, At
    <3>3. a = Assignment(a.mission, a.batch, a.returnStep) /\ a.returnStep \in Nat
      BY <3>2 DEF InstanceState, Unused, Destroyed, Home
    <3>4. PICK r \in Nat : r = RebasedStep(a.returnStep, delta)
      BY <1>5, <3>3, RebasedFacts
    <3>5. instances'[i] = [a EXCEPT !.returnStep = r]
      BY <1>16, <2>1, <3>1, <3>4
    <3>6. instances'[i] = Assignment(a.mission, a.batch, r)
      BY <3>3, <3>5 DEF Assignment
    <3>7. InstanceState(Assignment(a.mission, a.batch, r))
      BY AssignmentTyped
    <3>8. /\ instances'[i].at = "away" /\ instances'[i].mission = a.mission
          /\ instances'[i].batch = a.batch /\ instances'[i].returnStep = r
      BY <3>6 DEF Assignment
    <3> QED
      BY <2>1, <3>1, <3>3, <3>4, <3>6, <3>7, <3>8
  <2>2. CASE i \notin Away
    BY <1>16, <2>2
  <2> QED
    BY <2>1, <2>2
<1>18. \A i \in Instances : instances'[i].at = instances[i].at
  <2>1. ASSUME NEW i \in Instances, i \in Away PROVE instances'[i].at = instances[i].at
    BY <1>17, <2>1 DEF Away, At
  <2> QED
    BY <1>17, <2>1
<1>19. Away' = Away /\ AvailableInstances' = AvailableInstances
  BY <1>18 DEF Away, AvailableInstances, At
<1>20. InstancesTyped'
  <2>1. \A i \in Instances : InstanceState(instances[i])
    BY <1>1 DEF GameTypes
  <2>2. ASSUME NEW i \in Instances PROVE InstanceState(instances'[i])
    BY <1>17, <2>1
  <2> QED
    BY <1>16, <2>2 DEF InstancesTyped
<1>21. Counted'
  <2>1. Cardinality(Away \cup AvailableInstances)
            = Cardinality(Away) + Cardinality(AvailableInstances)
                - Cardinality(Away \cap AvailableInstances)
    BY <1>1, Whereabouts, FS_Union
  <2>2. Cardinality(Away \cap AvailableInstances) = 0
    <3>1. Away \cap AvailableInstances = {}
      BY <1>1, Whereabouts
    <3> QED
      BY <3>1, FS_EmptySet
  <2>3. Cardinality(Away) \in Nat /\ Cardinality(AvailableInstances) \in Nat
    BY <1>1, Whereabouts
  <2>4. availableCount' = Cardinality(AvailableInstances)
    BY <1>16, <2>1, <2>2, <2>3 DEF Alive
  <2> QED
    BY <1>19, <2>4 DEF Counted
<1>22. CrewsOut'
  <2>1. ASSUME NEW t \in DOMAIN Transforms, NEW n \in DOMAIN batches[t],
               NEW i \in batches[t][n].crew \ byHand
        PROVE  OutWith(i, t, batches[t][n])'
    <3>1. OutWith(i, t, batches[t][n]) /\ i \in Instances
      BY <1>1, <1>10 DEF Resources, BatchInv, CrewsOut, Entries
    <3>2. i \in Away
      BY <3>1 DEF OutWith, Away, At
    <3>3. /\ instances'[i].at = "away" /\ instances'[i].mission = instances[i].mission
          /\ instances'[i].batch = instances[i].batch
          /\ instances'[i].returnStep = RebasedStep(instances[i].returnStep, delta)
      BY <1>17, <3>1, <3>2
    <3>4. RebasedStep(MAX_SAFE_INTEGER, delta) = MAX_SAFE_INTEGER
      BY <1>4, <1>5, RebasedFacts
    <3>5. /\ batches'[t][n].completeAtStep = RebasedStep(batches[t][n].completeAtStep, delta)
          /\ batches'[t][n].batchId = batches[t][n].batchId
          /\ batches'[t][n].stage = batches[t][n].stage
      BY <1>10
    <3> QED
      BY <3>1, <3>3, <3>4, <3>5 DEF OutWith
  <2>2. ASSUME NEW i \in Away \ byHand PROVE Held(i)'
    <3>1. Held(i)
      BY <1>1, <1>4 DEF Resources, BatchInv, CrewsOut, Late
    <3> QED
      <4>1. \A t \in DOMAIN Transforms : DOMAIN batches'[t] = DOMAIN batches[t]
        BY <1>9
      <4>2. \A t \in DOMAIN Transforms : \A n \in DOMAIN batches[t] :
                batches'[t][n].crew = batches[t][n].crew
        BY <1>10
      <4> QED
        BY <3>1, <4>1, <4>2 DEF Held
  <2>3. ASSUME NEW t \in DOMAIN Transforms, NEW n \in DOMAIN batches'[t],
               NEW i \in batches'[t][n].crew \ byHand'
        PROVE  OutWith(i, t, batches[t][n])'
    <3>1. n \in DOMAIN batches[t]
      BY <1>9
    <3>2. i \in batches[t][n].crew \ byHand
      BY <1>10, <1>13, <2>3, <3>1
    <3> QED
      BY <2>1, <3>1, <3>2
  <2> QED
    BY <1>13, <1>19, <2>2, <2>3 DEF CrewsOut
<1>23. NothingLate'
  <2>1. ASSUME NEW t \in DOMAIN Transforms, NEW n \in DOMAIN batches'[t]
        PROVE  batches'[t][n].completeAtStep >= step'
    <3>1. n \in DOMAIN batches[t]
      BY <1>9
    <3>2. PICK c \in Nat : c = batches[t][n].completeAtStep
      <4>1. batches[t][n] \in Entries
        BY <1>10, <3>1
      <4> QED
        BY <4>1 DEF Entries
    <3>3. c >= step
      BY <1>1, <1>4, <3>1, <3>2 DEF Resources, BatchInv, NothingLate, BetweenTicks
    <3>4. RebasedStep(c, delta) >= step + delta
      BY <1>5, <3>3, RebasedFacts
    <3>5. batches'[t][n].completeAtStep = RebasedStep(c, delta)
      BY <1>10, <3>1, <3>2
    <3> QED
      BY <1>5, <3>4, <3>5
  <2> QED
    BY <2>1 DEF NothingLate
<1> QED
  BY <1>7, <1>8, <1>11, <1>12, <1>14, <1>15, <1>20, <1>21, <1>22, <1>23, Together
     DEF Resources, BatchInv

-----------------------------------------------------------------------------
(* The invariant                                                            *)

LEMMA Start ==
    ASSUME Init
    PROVE  GameInv
<1>1. /\ step = 0 /\ phase = "idle" /\ turn = 1 /\ reloaded = FALSE
      /\ instances = [i \in Instances |-> IF i \in StartInstances THEN Home ELSE Unused]
      /\ availableCount = Cardinality(StartInstances)
      /\ automations = [n \in DOMAIN Automations |->
             [enabled |-> TRUE, lastFiredStep |-> NEVER_FIRED,
              cooldownExpiresStep |-> 0, lastThresholdSatisfied |-> FALSE]]
      /\ batches = [t \in DOMAIN Transforms |-> <<>>]
      /\ batchSequences = [t \in DOMAIN Transforms |-> 0]
      /\ started = 0 /\ settled = [m \in 1..MaxStarted |-> 0]
  BY DEF Init, EntityInit, AutomationInit, TransformInit
<1>2. GameTypes
  <2>1. 0 \in 0..Horizon /\ 0 \in 0..MaxStarted /\ 1 \in DOMAIN Transforms
    BY HorizonAssumption, TransformsAssumption DEF MAX_SAFE_INTEGER
  <2>2. batches \in [DOMAIN Transforms -> Seq(Entries)]
    BY <1>1
  <2>3. DOMAIN instances = Instances /\ \A i \in Instances : InstanceState(instances[i])
    BY <1>1 DEF InstanceState
  <2>4. batchSequences \in [DOMAIN Transforms -> Nat] /\ settled \in [1..MaxStarted -> Nat]
    BY <1>1
  <2> QED
    BY <1>1, <2>1, <2>2, <2>3, <2>4 DEF GameTypes, Phases
<1>3. Clocked
  <2>1. NEVER_FIRED \in Int
    BY DEF NEVER_FIRED, MAX_SAFE_INTEGER
  <2>2. ASSUME NEW n \in DOMAIN Automations PROVE ClockedAt(n)
    <3>1. automations[n] = [enabled |-> TRUE, lastFiredStep |-> NEVER_FIRED,
                            cooldownExpiresStep |-> 0, lastThresholdSatisfied |-> FALSE]
      BY <1>1
    <3> QED
      BY <2>1, <3>1 DEF ClockedAt
  <2> QED
    BY <1>1, <2>2 DEF Clocked
<1>4. \A t \in DOMAIN Transforms : DOMAIN batches[t] = {} /\ Len(batches[t]) = 0
  BY <1>1
<1>5. BatchesKept /\ NoClash
  <2>1. \A t \in DOMAIN Transforms : Sorted(batches[t]) /\ Len(batches[t]) <= MaxOutstandingBatches
    BY <1>4, TransformsAssumption DEF Sorted
  <2> QED
    BY <1>4, <2>1 DEF BatchesKept, NoClash
<1>6. Accounted /\ NothingLate
  BY <1>1, <1>4 DEF Accounted, NothingLate, OnItsWay
<1>7. Away = {} /\ AvailableInstances = StartInstances
  BY <1>1, StartAssumption DEF Away, AvailableInstances, At, Home, Unused
<1>8. CrewsOut /\ Counted
  BY <1>1, <1>4, <1>7 DEF CrewsOut, Counted
<1> QED
  BY <1>2, <1>3, <1>5, <1>6, <1>8 DEF GameInv

(* GameInv holds of every step of every game, loaded ones included: types,  *)
(* the clocks of the automations, the order and identity of the batches,    *)
(* what became of the missions, and where their crews are.                  *)
THEOREM GameInductive == Spec => []GameInv
<1>1. Init => GameInv
  BY Start
<1>2. GameInv /\ [Next]_vars => GameInv'
  <2> SUFFICES ASSUME GameInv, [Next]_vars PROVE GameInv'
    OBVIOUS
  <2>1. CASE Commands
    BY <2>1, CommandStep
  <2>2. CASE EntityTick
    BY <2>2, TickStep
  <2>3. CASE Systems /\ ~EntityTick
    BY <2>3, SystemStep DEF Systems
  <2>4. CASE Reload
    BY <2>4, ReloadStep
  <2>5. CASE UNCHANGED vars
    <3>1. GameTypes /\ Clocked /\ Resources
      BY ResourcesOfGame DEF GameInv
    <3>2. /\ UNCHANGED <<step, phase, turn, reloaded, automations, dipped>> /\ UNCHANGED entityVars
          /\ UNCHANGED <<batches, batchSequences, started, settled>>
      BY <2>5 DEF vars, stepVars, automationVars, transformVars, missionGhosts
    <3>3. SameMoment /\ PlaceTypes'
      BY <3>1, <3>2 DEF SameMoment, Late, BetweenTicks, PlaceTypes, GameTypes
    <3>4. Clocked'
      BY <3>1, <3>2, ClockedStays DEF HadItsTurn, Late
    <3> QED
      BY <3>1, <3>2, <3>3, <3>4, ResourcesStay, Together
  <2> QED
    BY <2>1, <2>2, <2>3, <2>4, <2>5 DEF Next
<1> QED
  BY <1>1, <1>2, PTL DEF Spec

-----------------------------------------------------------------------------
(* What follows                                                             *)

LEMMA EarnedStep ==
    ASSUME GameInv, NEW n \in DOMAIN automations, AutomationTurn, Fires(n), turn = n
    PROVE  \/ automations[n].lastFiredStep = NEVER_FIRED
           \/ /\ step - automations[n].lastFiredStep > Automations[n].cooldown
              /\ Automations[n].trigger = "resourceThreshold" => n \in dipped
<1> SUFFICES ASSUME automations[n].lastFiredStep # NEVER_FIRED
             PROVE  /\ step - automations[n].lastFiredStep > Automations[n].cooldown
                    /\ Automations[n].trigger = "resourceThreshold" => n \in dipped
  OBVIOUS
<1>1. n \in DOMAIN Automations /\ ClockedAt(n) /\ step \in 0..Horizon /\ Horizon \in Nat
  BY HorizonAssumption DEF GameInv, Clocked, GameTypes, MAX_SAFE_INTEGER
<1>2. Automations[n].cooldown \in Nat
  BY <1>1, AutomationsAssumption
<1>3. n \in Nat
  BY <1>1, AutomationsAssumption
<1>4. ~HadItsTurn(n)
  BY <1>3 DEF AutomationTurn, HadItsTurn, Late
<1>5. ~isCooldownActive(n) /\ Triggered(n)
  BY DEF Fires
<1>6. PICK last : last = automations[n].lastFiredStep
  OBVIOUS
<1>7. last \in (-Horizon)..step /\ last # step
  BY <1>1, <1>4, <1>6 DEF ClockedAt
<1>8. step - last > Automations[n].cooldown
  <2>1. CASE Automations[n].cooldown = 0
    BY <1>1, <1>7, <2>1
  <2>2. CASE Automations[n].cooldown # 0
    <3>1. PICK expires \in Int : expires = automations[n].cooldownExpiresStep
      BY <1>1 DEF ClockedAt
    <3>2. expires = last + Automations[n].cooldown + 1
      BY <1>1, <1>6, <2>2, <3>1 DEF ClockedAt
    <3>3. ~(step < expires)
      BY <1>5, <3>1 DEF isCooldownActive
    <3> QED
      BY <1>1, <1>2, <1>7, <3>2, <3>3
  <2> QED
    BY <2>1, <2>2
<1>9. Automations[n].trigger = "resourceThreshold" => n \in dipped
  <2>1. Automations[n].trigger = "resourceThreshold" => ~automations[n].lastThresholdSatisfied
    BY <1>5 DEF Triggered, ThresholdCrossing
  <2> QED
    BY <1>1, <2>1 DEF ClockedAt
<1> QED
  BY <1>6, <1>8, <1>9

(* An automation fires at most once per cooldown, and one with a threshold  *)
(* only if it was seen unsatisfied since it last fired (automation-system.ts, *)
(* its tick, restoreState and the toggle in between).                       *)
THEOREM EarnedCorrect == Spec => FiresAreEarned
<1>1. GameInv /\ [Next]_vars =>
          [\A n \in DOMAIN automations :
              AutomationTurn /\ Fires(n) /\ turn = n =>
                 \/ automations[n].lastFiredStep = NEVER_FIRED
                 \/ /\ step - automations[n].lastFiredStep > Automations[n].cooldown
                    /\ Automations[n].trigger = "resourceThreshold" => n \in dipped]_vars
  BY EarnedStep
<1> QED
  BY <1>1, GameInductive, PTL DEF Spec, FiresAreEarned

(* After a tick no batch that was due is outstanding, whatever the tick     *)
(* made due, and a loaded save makes none overdue (transform-system.ts,     *)
(* deliverDueBatches and restoreState).                                     *)
THEOREM DueCorrect == Spec => []DueIsDelivered
<1>1. GameInv => DueIsDelivered
  BY DEF GameInv, NothingLate, DueIsDelivered, Outstanding, ToSet
<1> QED
  BY <1>1, GameInductive, PTL

(* A mission is outstanding in one batch or has been completed once,        *)
(* whichever of the decision, the timeout, a failed stage and a loaded save *)
(* came first (completeMultiStageMission, rescheduleMissionEntry).          *)
THEOREM SettledCorrect == Spec => []SettledOnce
<1>1. GameInv => SettledOnce
  <2> SUFFICES ASSUME GameInv, NEW m \in 1..MaxStarted
               PROVE  settled[m] + Cardinality({e \in Outstanding : e.mission = m})
                          = IF m <= started THEN 1 ELSE 0
    BY DEF SettledOnce
  <2> DEFINE found == {e \in Outstanding : e.mission = m}
  <2>1. /\ OnItsWay(m) => m <= started
        /\ settled[m] = IF m <= started /\ ~OnItsWay(m) THEN 1 ELSE 0
    BY DEF GameInv, Accounted
  <2>2. CASE OnItsWay(m)
    <3>1. PICK t \in DOMAIN Transforms : \E n \in DOMAIN batches[t] : batches[t][n].mission = m
      BY <2>2 DEF OnItsWay
    <3>2. PICK n \in DOMAIN batches[t] : batches[t][n].mission = m
      BY <3>1
    <3>3. ASSUME NEW u \in DOMAIN Transforms, NEW k \in DOMAIN batches[u],
                 batches[u][k].mission = m
          PROVE  batches[u][k] = batches[t][n]
      <4>1. Clash(t, batches[t][n], u, batches[u][k])
        BY <3>2, <3>3 DEF Clash, NoMission
      <4> QED
        BY <4>1 DEF GameInv, NoClash
    <3>4. \A e : e \in Outstanding <=>
              \E u \in DOMAIN Transforms : \E k \in DOMAIN batches[u] : e = batches[u][k]
      BY DEF Outstanding, ToSet
    <3>5. found = {batches[t][n]}
      BY <3>2, <3>3, <3>4
    <3>6. Cardinality(found) = 1
      BY <3>5, FS_Singleton
    <3> QED
      BY <2>1, <2>2, <3>6
  <2>3. CASE ~OnItsWay(m)
    <3>1. found = {}
      BY <2>3 DEF OnItsWay, Outstanding, ToSet
    <3>2. Cardinality(found) = 0
      BY <3>1, FS_EmptySet
    <3> QED
      BY <2>1, <2>3, <3>2
  <2> QED
    BY <2>2, <2>3
<1> QED
  BY <1>1, GameInductive, PTL

(* "deployed instances are unavailable until they return": between ticks an *)
(* instance is away exactly while one outstanding batch has it in its crew, *)
(* the one its assignment names (entity-system.ts, assignToMission,         *)
(* returnFromMission and the tick; transform-system.ts, every completion).  *)
THEOREM CrewsCorrect == Spec => []CrewsHeld
<1>1. GameInv => CrewsHeld
  <2> SUFFICES ASSUME GameInv, BetweenTicks, NEW i \in Instances \ byHand
               PROVE  IF i \in Away
                      THEN \E t \in DOMAIN Transforms : \E n \in DOMAIN batches[t] :
                              /\ Holders(i) = {<<t, n>>}
                              /\ instances[i].mission = Transforms[t].id
                              /\ instances[i].batch = batches[t][n].batchId
                      ELSE Holders(i) = {}
    BY DEF CrewsHeld, GameInv, Counted
  <2>1. ASSUME NEW place \in Holders(i)
        PROVE  /\ place = <<place[1], place[2]>> /\ place[1] \in DOMAIN Transforms
               /\ place[2] \in DOMAIN batches[place[1]]
               /\ i \in batches[place[1]][place[2]].crew
    BY DEF Holders
  <2>2. CASE i \in Away
    <3>1. Held(i)
      BY <2>2 DEF GameInv, CrewsOut, BetweenTicks, Late
    <3>2. PICK t \in DOMAIN Transforms : \E n \in DOMAIN batches[t] : i \in batches[t][n].crew
      BY <3>1 DEF Held
    <3>3. PICK n \in DOMAIN batches[t] : i \in batches[t][n].crew
      BY <3>2
    <3>4. OutWith(i, t, batches[t][n])
      BY <3>3 DEF GameInv, CrewsOut
    <3>5. n \in 1..MaxOutstandingBatches
      <4>1. n \in 1..Len(batches[t]) /\ Len(batches[t]) \in Nat
        BY QueueTyped DEF GameInv
      <4>2. Len(batches[t]) <= MaxOutstandingBatches
        BY DEF GameInv, BatchesKept
      <4> QED
        BY <4>1, <4>2, TransformsAssumption
    <3>6. <<t, n>> \in Holders(i)
      BY <3>3, <3>5 DEF Holders
    <3>7. ASSUME NEW place \in Holders(i) PROVE place = <<t, n>>
      <4>1. PICK u \in DOMAIN Transforms : u = place[1]
        BY <2>1
      <4>2. PICK k \in DOMAIN batches[u] : k = place[2] /\ i \in batches[u][k].crew
        BY <2>1, <4>1
      <4>3. Clash(t, batches[t][n], u, batches[u][k])
        BY <3>3, <4>2 DEF Clash
      <4>4. t = u /\ n = k
        BY <4>3 DEF GameInv, NoClash
      <4> QED
        BY <2>1, <4>1, <4>2, <4>4
    <3>8. Holders(i) = {<<t, n>>}
      BY <3>6, <3>7
    <3> QED
      BY <2>2, <3>4, <3>8 DEF OutWith
  <2>3. CASE i \notin Away
    <3>1. ASSUME NEW place \in Holders(i) PROVE FALSE
      <4>1. OutWith(i, place[1], batches[place[1]][place[2]])
        BY <2>1 DEF GameInv, CrewsOut
      <4> QED
        BY <2>3, <4>1 DEF OutWith, Away, At
    <3> QED
      BY <2>3, <3>1
  <2> QED
    BY <2>2, <2>3
<1> QED
  BY <1>1, GameInductive, PTL

(* A mission paused "until a MAKE_MISSION_DECISION command is received" is  *)
(* the batch its id finds, in a game that was never loaded from a save      *)
(* (transform-system.ts, makeMissionDecision and its findIndex).            *)
THEOREM AnsweredCorrect == Spec => []PausedAnsweredUnlessReloaded
<1>1. GameInv => PausedAnsweredUnlessReloaded
  <2> SUFFICES ASSUME GameInv, ~reloaded, NEW t \in DOMAIN Transforms, NEW n \in DOMAIN batches[t]
               PROVE  Addressed(t, batches[t][n].batchId) = n
    BY DEF PausedAnsweredUnlessReloaded, PausedCanBeAnswered
  <2>1. PICK k : k = Addressed(t, batches[t][n].batchId)
    OBVIOUS
  <2>2. k \in DOMAIN batches[t] /\ batches[t][k].batchId = batches[t][n].batchId
    BY <2>1, AddressedFacts DEF GameInv
  <2>3. Clash(t, batches[t][k], t, batches[t][n])
    BY <2>2 DEF Clash
  <2>4. k = n
    BY <2>2, <2>3 DEF GameInv, NoClash
  <2> QED
    BY <2>1, <2>4
<1> QED
  BY <1>1, GameInductive, PTL

=============================================================================
