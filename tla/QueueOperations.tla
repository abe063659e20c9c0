--------------------------- MODULE QueueOperations ---------------------------
(***************************************************************************)
(* The lanes of the runtime's command queue and the operations on them     *)
(* (packages/core/src/command-queue.ts): enqueue with its overflow policy, *)
(* dequeueUpToStep and clear. CommandQueue makes a system of them;         *)
(* IdleRuntime runs its commands out of one.                               *)
(*                                                                         *)
(* A lane is represented by the SET of its entries: a lane is always in   *)
(* (timestamp, sequence) order, so its positions follow from the fields.  *)
(* CommandLanes models the arrays, the binary search and the in-place     *)
(* compaction, and is checked to implement this representation.            *)
(***************************************************************************)
EXTENDS Integers, FiniteSets

CONSTANTS
    Types,              \* command types, as the authorization table tells them apart
    AllowedPriorities,  \* type |-> the priorities COMMAND_AUTHORIZATIONS permits
    Payloads,           \* payloads: the identity of a command
    Timestamps,         \* timestamps the callers stamp
    MaxSize,            \* maxSize of the queue
    MaxSequence         \* bound: sequence numbers handed out in a behaviour

SYSTEM == 0
PLAYER == 1
AUTOMATION == 2
Priority == {SYSTEM, PLAYER, AUTOMATION}

ASSUME QueueAssumption ==
    /\ MaxSize \in Nat \ {0}
    /\ AllowedPriorities \in [Types -> SUBSET Priority]
    /\ Timestamps \subseteq Nat
    /\ MaxSequence \in Nat

Command == [type: Types, payload: Payloads, priority: Priority,
            timestamp: Nat, step: Nat]
Entry == [type: Types, payload: Payloads, priority: Priority,
          timestamp: Nat, step: Nat, sequence: Nat]

VARIABLES
    entries,        \* the queued entries of all lanes
    nextSequence,   \* the sequence number of the next entry
    totalSize       \* the counter `size` reports, kept beside the lanes

queueVars == <<entries, nextSequence, totalSize>>

-----------------------------------------------------------------------------
(* The order of a lane, and the order in which lanes are scanned.          *)

\* Wrong on purpose (mutant): equal timestamps run last in, first out.
BeforeLifo(a, b) ==
    \/ a.timestamp < b.timestamp
    \/ a.timestamp = b.timestamp /\ a.sequence > b.sequence

Before(a, b) ==
    \/ a.timestamp < b.timestamp
    \/ a.timestamp = b.timestamp /\ a.sequence < b.sequence

Precedes(a, b) ==
    \/ a.priority < b.priority
    \/ a.priority = b.priority /\ Before(a, b)

Authorized(c) == c.priority \in AllowedPriorities[c.type]

Stamped(c, n) ==
    [type |-> c.type, payload |-> c.payload, priority |-> c.priority,
     timestamp |-> c.timestamp, step |-> c.step, sequence |-> n]

-----------------------------------------------------------------------------
(* enqueue                                                                  *)

Insert(c) ==
    /\ entries' = entries \cup {Stamped(c, nextSequence)}
    /\ nextSequence' = nextSequence + 1
    /\ totalSize' = totalSize + 1

\* Wrong on purpose (mutant): the scan does not stop at the newcomer's lane.
EvictableAnyLane(p) == entries

\* The lanes dropLowestPriorityUpTo may take from: no more important than p.
Evictable(p) == {e \in entries : e.priority >= p}

\* The head of the least important of those lanes.
IsVictim(v, p) ==
    /\ v \in Evictable(p)
    /\ \A e \in Evictable(p) :
          /\ e.priority <= v.priority
          /\ e.priority = v.priority => (e = v \/ Before(v, e))

\* Wrong on purpose (mutant): the drop does not lower the counter.
InsertEvictingUncounted(c, v) ==
    /\ entries' = (entries \ {v}) \cup {Stamped(c, nextSequence)}
    /\ nextSequence' = nextSequence + 1
    /\ totalSize' = totalSize + 1

InsertEvicting(c, v) ==
    /\ entries' = (entries \ {v}) \cup {Stamped(c, nextSequence)}
    /\ nextSequence' = nextSequence + 1
    /\ totalSize' = (totalSize - 1) + 1

EnqueueRefused(c) ==
    /\ \/ ~Authorized(c)
       \/ totalSize >= MaxSize /\ Evictable(c.priority) = {}
    /\ UNCHANGED queueVars

EnqueueWithRoom(c) ==
    /\ Authorized(c)
    /\ totalSize < MaxSize
    /\ Insert(c)

EnqueueFull(c) ==
    /\ Authorized(c)
    /\ totalSize >= MaxSize
    /\ \E v \in entries : IsVictim(v, c.priority) /\ InsertEvicting(c, v)

Enqueue(c) == EnqueueRefused(c) \/ EnqueueWithRoom(c) \/ EnqueueFull(c)

-----------------------------------------------------------------------------
(* dequeueUpToStep and clear                                                *)

Due(s) == {e \in entries : e.step <= s}

\* What dequeueUpToStep returns; an empty counter is taken at its word.
Drained(s) == IF totalSize = 0 THEN {} ELSE Due(s)

DequeueUpToStep(s) ==
    /\ entries' = entries \ Drained(s)
    /\ totalSize' = totalSize - Cardinality(Drained(s))
    /\ UNCHANGED nextSequence

Clear ==
    /\ entries' = IF totalSize = 0 THEN entries ELSE {}
    /\ totalSize' = 0
    /\ UNCHANGED nextSequence

QueueInit ==
    /\ entries = {}
    /\ nextSequence = 0
    /\ totalSize = 0

(* The lanes, the sequence counter and the size counter have their types.   *)
QueueTypes ==
    /\ entries \in SUBSET Entry
    /\ nextSequence \in Nat
    /\ totalSize \in Nat

(* The size counter, which enqueue, eviction, dequeueUpToStep, clear and    *)
(* restoreFromSave each adjust on their own, is the number of entries in    *)
(* the lanes, and never exceeds maxSize.                                    *)
SizeInv ==
    /\ IsFiniteSet(entries)
    /\ totalSize = Cardinality(entries)
    /\ totalSize <= MaxSize

(* Sequence numbers already handed out lie below the counter, so a new      *)
(* entry is never mistaken for a queued one.                                *)
SequencesBelow == \A e \in entries : e.sequence < nextSequence

(* What every operation preserves.                                          *)
WellFormed == QueueTypes /\ SizeInv /\ SequencesBelow

(* What a step that both drops and adds an entry may drop.                  *)
DropsLeastImportant ==
    \A v \in entries \ entries' : \A n \in entries' \ entries :
        /\ n.priority <= v.priority
        /\ \A e \in entries \cap entries' :
              /\ e.priority <= v.priority
              /\ e.priority = v.priority => Before(v, e)
=============================================================================
