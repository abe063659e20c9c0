------------------------ MODULE QueueOperations_proofs ------------------------
(***************************************************************************)
(* What the operations of the command queue preserve, for every size of    *)
(* queue, every authorization table and every set of commands; the lemmas  *)
(* the theorems about CommandQueue and IdleRuntime rest on.                *)
(***************************************************************************)
EXTENDS QueueOperations, FiniteSetTheorems, TLAPS

(* A priority is a number, which the comparisons of the lane scan need.     *)
LEMMA PriorityIsNat == Priority \subseteq Nat
BY DEF Priority, SYSTEM, PLAYER, AUTOMATION

(* What enqueue stores for a command is an entry of the queue.              *)
LEMMA StampedType ==
    ASSUME NEW c \in Command, NEW n \in Nat
    PROVE  /\ Stamped(c, n) \in Entry
           /\ Stamped(c, n).sequence = n
           /\ Stamped(c, n).priority = c.priority
BY DEF Stamped, Command, Entry

(* Every way enqueue can end keeps the queue well-formed.                   *)
LEMMA EnqueuePreserves ==
    ASSUME QueueAssumption, WellFormed, NEW c \in Command, Enqueue(c)
    PROVE  WellFormed'
<1> USE DEF WellFormed, QueueTypes
<1> DEFINE new == Stamped(c, nextSequence)
<1>1. /\ new \in Entry
      /\ new.sequence = nextSequence
  BY StampedType
<1>2. new \notin entries
  BY <1>1 DEF SequencesBelow, Entry
<1> HIDE DEF new
<1>3. CASE EnqueueRefused(c)
  BY <1>3 DEF EnqueueRefused, queueVars, SizeInv, SequencesBelow
<1>4. CASE EnqueueWithRoom(c)
  <2>1. /\ entries' = entries \cup {new}
        /\ nextSequence' = nextSequence + 1
        /\ totalSize' = totalSize + 1
        /\ totalSize < MaxSize
    BY <1>4 DEF EnqueueWithRoom, Insert, new
  <2>2. /\ IsFiniteSet(entries')
        /\ Cardinality(entries') = Cardinality(entries) + 1
    BY <1>2, <2>1, FS_AddElement DEF SizeInv
  <2>3. SizeInv'
    BY <2>1, <2>2, QueueAssumption DEF SizeInv, QueueAssumption
  <2>4. SequencesBelow'
    BY <1>1, <2>1 DEF SequencesBelow, Entry
  <2> QED
    BY <1>1, <2>1, <2>3, <2>4
<1>5. CASE EnqueueFull(c)
  <2>1. PICK v \in entries : IsVictim(v, c.priority) /\ InsertEvicting(c, v)
    BY <1>5 DEF EnqueueFull
  <2>2. /\ entries' = (entries \ {v}) \cup {new}
        /\ nextSequence' = nextSequence + 1
        /\ totalSize' = totalSize
    BY <2>1 DEF InsertEvicting, new
  <2>3. /\ IsFiniteSet(entries \ {v})
        /\ Cardinality(entries \ {v}) = Cardinality(entries) - 1
    BY FS_RemoveElement DEF SizeInv
  <2>4. /\ IsFiniteSet(entries')
        /\ Cardinality(entries') = (Cardinality(entries) - 1) + 1
    BY <1>2, <2>2, <2>3, FS_AddElement
  <2>5. SizeInv'
    BY <2>2, <2>4 DEF SizeInv
  <2>6. SequencesBelow'
    BY <1>1, <2>2 DEF SequencesBelow, Entry
  <2> QED
    BY <1>1, <2>2, <2>5, <2>6
<1> QED
  BY <1>3, <1>4, <1>5 DEF Enqueue

(* Removing what a drain returns lowers the counter by exactly that much.   *)
LEMMA DequeuePreserves ==
    ASSUME QueueAssumption, WellFormed, NEW s, DequeueUpToStep(s)
    PROVE  WellFormed'
<1> USE DEF WellFormed, QueueTypes
<1>0. MaxSize \in Nat
  BY DEF QueueAssumption
<1>1. Drained(s) \in SUBSET entries
  BY DEF Drained, Due
<1>2. /\ IsFiniteSet(Drained(s))
      /\ Cardinality(Drained(s)) \in Nat
      /\ Cardinality(Drained(s)) <= Cardinality(entries)
  BY <1>1, FS_Subset, FS_CardinalityType DEF SizeInv
<1>3. /\ entries' = entries \ Drained(s)
      /\ totalSize' = totalSize - Cardinality(Drained(s))
      /\ nextSequence' = nextSequence
  BY DEF DequeueUpToStep
<1>4. /\ IsFiniteSet(entries')
      /\ Cardinality(entries') = Cardinality(entries) - Cardinality(entries \cap Drained(s))
  BY <1>3, FS_Difference DEF SizeInv
<1>5. entries \cap Drained(s) = Drained(s)
  BY <1>1
<1>6. SizeInv'
  <2>1. Cardinality(entries) \in Nat /\ totalSize = Cardinality(entries) /\ totalSize <= MaxSize
    BY DEF SizeInv
  <2>2. totalSize' = Cardinality(entries') /\ totalSize' <= MaxSize
    BY <1>0, <1>2, <1>3, <1>4, <1>5, <2>1
  <2> QED
    BY <1>4, <2>2 DEF SizeInv
<1> QED
  BY <1>2, <1>3, <1>6 DEF SequencesBelow, SizeInv

(* Emptying the lanes resets the counter, and its early return is harmless. *)
LEMMA ClearPreserves ==
    ASSUME QueueAssumption, WellFormed, Clear
    PROVE  WellFormed' /\ entries' = {}
<1> USE DEF WellFormed, QueueTypes
<1>0. MaxSize \in Nat
  BY DEF QueueAssumption
<1>1. totalSize = 0 => entries = {}
  BY FS_EmptySet DEF SizeInv
<1>2. entries' = {} /\ totalSize' = 0 /\ nextSequence' = nextSequence
  BY <1>1 DEF Clear
<1> QED
  BY <1>0, <1>2, FS_EmptySet DEF SizeInv, SequencesBelow

(* A new queue is well-formed.                                              *)
LEMMA QueueInitWellFormed == QueueAssumption /\ QueueInit => WellFormed
<1> SUFFICES ASSUME QueueAssumption, QueueInit PROVE WellFormed
  OBVIOUS
<1>1. entries = {} /\ nextSequence = 0 /\ totalSize = 0 /\ 0 <= MaxSize
  BY DEF QueueInit, QueueAssumption
<1>2. SizeInv
  BY <1>1, FS_EmptySet DEF SizeInv
<1> QED
  BY <1>1, <1>2 DEF WellFormed, QueueTypes, SequencesBelow

(* A drop on overflow takes the head of the least important lane that is   *)
(* no more important than the newcomer.                                     *)
LEMMA EnqueueEvicts ==
    ASSUME WellFormed, NEW c \in Command, Enqueue(c)
    PROVE  DropsLeastImportant
<1> SUFFICES ASSUME NEW v \in entries \ entries', NEW n \in entries' \ entries
             PROVE  /\ n.priority <= v.priority
                    /\ \A e \in entries \cap entries' :
                          /\ e.priority <= v.priority
                          /\ e.priority = v.priority => Before(v, e)
  BY DEF DropsLeastImportant
<1>1. PICK w \in entries : IsVictim(w, c.priority) /\ InsertEvicting(c, w)
  BY DEF Enqueue, EnqueueRefused, EnqueueWithRoom, EnqueueFull, Insert, queueVars
<1>2. v = w /\ n = Stamped(c, nextSequence)
  BY <1>1 DEF InsertEvicting
<1>3. n.priority = c.priority
  BY <1>2, StampedType DEF WellFormed, QueueTypes
<1>4. v.priority >= c.priority
  BY <1>1, <1>2 DEF IsVictim, Evictable
<1>5. /\ v.priority \in Nat /\ c.priority \in Nat
      /\ \A e \in entries : e.priority \in Nat
  BY PriorityIsNat DEF WellFormed, QueueTypes, Entry, Command
<1>6. ASSUME NEW e \in entries \cap entries'
      PROVE  e.priority <= v.priority /\ (e.priority = v.priority => Before(v, e))
  <2>1. e # v
    OBVIOUS
  <2>2. CASE e \in Evictable(c.priority)
    BY <1>1, <1>2, <2>1, <2>2 DEF IsVictim
  <2>3. CASE e \notin Evictable(c.priority)
    BY <1>4, <1>5, <2>3 DEF Evictable
  <2> QED
    BY <2>2, <2>3
<1> QED
  BY <1>3, <1>4, <1>5, <1>6

-----------------------------------------------------------------------------
(* Entries whose numbers differ are in one order, which lists all of them.  *)

UniqueSequences(S) == \A e, f \in S : e.sequence = f.sequence => e = f

LEMMA PrecedesOrders ==
    ASSUME NEW S \in SUBSET Entry, UniqueSequences(S)
    PROVE  /\ \A e \in S : ~Precedes(e, e)
           /\ \A e, f \in S : e # f => Precedes(e, f) \/ Precedes(f, e)
           /\ \A e, f, g \in S : Precedes(e, f) /\ Precedes(f, g) => Precedes(e, g)
<1>1. \A e \in S : e.priority \in Nat /\ e.timestamp \in Nat /\ e.sequence \in Nat
  BY PriorityIsNat DEF Entry
<1>2. \A e \in S : ~Precedes(e, e)
  BY <1>1 DEF Precedes, Before
<1>3. \A e, f \in S : e # f => Precedes(e, f) \/ Precedes(f, e)
  BY <1>1 DEF Precedes, Before, UniqueSequences
<1>4. \A e, f, g \in S : Precedes(e, f) /\ Precedes(f, g) => Precedes(e, g)
  BY <1>1 DEF Precedes, Before
<1> QED
  BY <1>2, <1>3, <1>4

(* How many entries of S run before e.                                      *)
Rank(e, S) == Cardinality({f \in S : Precedes(f, e)})

LEMMA RankFacts ==
    ASSUME NEW S \in SUBSET Entry, IsFiniteSet(S), UniqueSequences(S)
    PROVE  /\ Cardinality(S) \in Nat
           /\ \A e \in S : Rank(e, S) \in Nat /\ Rank(e, S) < Cardinality(S)
           /\ \A e, f \in S : Precedes(e, f) => Rank(e, S) < Rank(f, S)
<1> DEFINE Below(e) == {f \in S : Precedes(f, e)}
<1>1. /\ Cardinality(S) \in Nat
      /\ \A e \in S : IsFiniteSet(Below(e)) /\ Cardinality(Below(e)) \in Nat
  <2>1. \A e \in S : Below(e) \in SUBSET S
    OBVIOUS
  <2> HIDE DEF Below
  <2>2. \A e \in S : IsFiniteSet(Below(e))
    BY <2>1, FS_Subset
  <2> QED
    BY <2>2, FS_CardinalityType
<1>2. ASSUME NEW e \in S PROVE Cardinality(Below(e)) < Cardinality(S)
  <2>1. Below(e) \in SUBSET S /\ e \notin Below(e)
    BY PrecedesOrders
  <2> HIDE DEF Below
  <2>2. Cardinality(Below(e)) <= Cardinality(S) /\ Cardinality(Below(e)) # Cardinality(S)
    BY <2>1, FS_Subset
  <2> QED
    BY <1>1, <2>2
<1>3. ASSUME NEW e \in S, NEW f \in S, Precedes(e, f)
      PROVE  Cardinality(Below(e)) < Cardinality(Below(f))
  <2>1. Below(e) \in SUBSET Below(f) /\ e \in Below(f) /\ e \notin Below(e)
    BY <1>3, PrecedesOrders
  <2> HIDE DEF Below
  <2>2. /\ Cardinality(Below(e)) <= Cardinality(Below(f))
        /\ Cardinality(Below(e)) # Cardinality(Below(f))
    BY <1>1, <2>1, FS_Subset
  <2> QED
    BY <1>1, <2>2
<1> QED
  BY <1>1, <1>2, <1>3 DEF Rank

Ordered(order, S) ==
    /\ order \in [1..Cardinality(S) -> S]
    /\ \A i, j \in 1..Cardinality(S) : i < j => Precedes(order[i], order[j])

LEMMA OrderExists ==
    ASSUME NEW S \in SUBSET Entry, IsFiniteSet(S), UniqueSequences(S)
    PROVE  \E order : Ordered(order, S)
<1> DEFINE n == Cardinality(S)
           place == [e \in S |-> Rank(e, S) + 1]
<1>1. n \in Nat /\ \A e \in S : Rank(e, S) \in Nat /\ Rank(e, S) < n
  BY RankFacts
<1>2. \A e, f \in S : Precedes(e, f) => Rank(e, S) < Rank(f, S)
  BY RankFacts
<1>3. \A e, f \in S : e # f => Precedes(e, f) \/ Precedes(f, e)
  BY PrecedesOrders
<1>4. place \in [S -> 1..n] /\ \A e \in S : place[e] = Rank(e, S) + 1
  BY <1>1
<1> HIDE DEF n, place
<1>5. \A e, f \in S : place[e] = place[f] => e = f
  BY <1>1, <1>2, <1>3, <1>4
<1>6. place \in Injection(S, 1..n)
  BY <1>4, <1>5 DEF Injection, IsInjective
<1>7. IsFiniteSet(1..n) /\ Cardinality(1..n) = n
  BY <1>1, FS_Interval
<1>8. place \in Surjection(S, 1..n)
  BY <1>6, <1>7, FS_Injection DEF n
<1>9. \A i \in 1..n : \E e \in S : place[e] = i
  BY <1>8 DEF Surjection
<1> DEFINE order == [i \in 1..n |-> CHOOSE e \in S : place[e] = i]
<1>10. order \in [1..n -> S] /\ \A i \in 1..n : order[i] \in S /\ place[order[i]] = i
  BY <1>9
<1> HIDE DEF order
<1>11. ASSUME NEW i \in 1..n, NEW j \in 1..n, i < j
       PROVE  Precedes(order[i], order[j])
  <2>1. order[i] # order[j] /\ order[i] \in S /\ order[j] \in S
    BY <1>1, <1>10, <1>11
  <2>2. Rank(order[i], S) < Rank(order[j], S)
    BY <1>1, <1>4, <1>10, <1>11
  <2>3. ~Precedes(order[j], order[i])
    BY <1>1, <1>2, <2>1, <2>2
  <2> QED
    BY <1>3, <2>1, <2>3
<1> QED
  BY <1>10, <1>11 DEF Ordered, n

LEMMA OrderIsOnto ==
    ASSUME NEW S \in SUBSET Entry, IsFiniteSet(S), UniqueSequences(S), NEW order, Ordered(order, S)
    PROVE  \A e \in S : \E i \in 1..Cardinality(S) : order[i] = e
<1> DEFINE n == Cardinality(S)
<1>1. n \in Nat
  BY FS_CardinalityType
<1>2. order \in [1..n -> S] /\ \A i, j \in 1..n : i < j => Precedes(order[i], order[j])
  BY DEF Ordered
<1> HIDE DEF n
<1>3. \A i, j \in 1..n : order[i] = order[j] => i = j
  <2> SUFFICES ASSUME NEW i \in 1..n, NEW j \in 1..n, i < j PROVE order[i] # order[j]
    BY <1>1
  <2>1. Precedes(order[i], order[j]) /\ order[i] \in S
    BY <1>2
  <2> QED
    BY <2>1, PrecedesOrders
<1>4. order \in Injection(1..n, S)
  BY <1>2, <1>3 DEF Injection, IsInjective
<1>5. Cardinality(1..n) = n
  BY <1>1, FS_Interval
<1>6. order \in Surjection(1..n, S)
  BY <1>4, <1>5, FS_Injection DEF n
<1> QED
  BY <1>6 DEF Surjection, n
=============================================================================
