---------------------------- MODULE CommandLanes ----------------------------
(***************************************************************************)
(* The command queue as the code stores it: one array per priority, an     *)
(* insertion point found by binary search, the victim of an overflow       *)
(* shifted off a lane, and dequeueUpToStep compacting each array in place  *)
(* behind a write index. CommandQueue, with the contents of the lanes as   *)
(* its entries, is the specification these arrays implement.               *)
(***************************************************************************)
EXTENDS Integers, Sequences, FiniteSets

CONSTANTS Types, AllowedPriorities, Serializable, Payloads, Timestamps,
          Steps, MaxSize, MaxSequence

ASSUME LanesAssumption ==
    /\ MaxSize \in Nat \ {0} /\ MaxSequence \in Nat
    /\ AllowedPriorities \in [Types -> SUBSET {0, 1, 2}]
    /\ Serializable \subseteq Types
    /\ Timestamps \subseteq Nat /\ Steps \subseteq Nat

VARIABLES
    lanes,          \* priority |-> array of entries
    nextSequence, totalSize,
    drained,        \* the array the call just made returned, if it drains
    save,           \* the entries of the last exported save, in its order
    unread,         \* the part of that array the restore loop has not reached
    rebase, inRestore

Contents(array) == {array[i] : i \in DOMAIN array}
Queued == UNION {Contents(lanes[p]) : p \in DOMAIN lanes}

Lane == INSTANCE CommandQueue WITH
    entries <- Queued, saved <- Contents(save), restoring <- Contents(unread)

ReversedPriorityOrder == <<Lane!AUTOMATION, Lane!PLAYER, Lane!SYSTEM>>
PriorityOrder == <<Lane!SYSTEM, Lane!PLAYER, Lane!AUTOMATION>>
InPriorityOrder(perLane) ==
    perLane[PriorityOrder[1]] \o perLane[PriorityOrder[2]] \o perLane[PriorityOrder[3]]

vars == <<lanes, nextSequence, totalSize, drained, save, unread, rebase, inRestore>>
saveVars == <<save, unread, rebase, inRestore>>

-----------------------------------------------------------------------------
\* Wrong on purpose (mutant): equal timestamps are not broken by sequence.
TimestampOnlyIndex(lane, e) ==
    Cardinality({i \in DOMAIN lane : lane[i].timestamp < e.timestamp})

\* The loop `while (low < high)`: the range after each turn (it is empty after
\* as many turns as the array has elements), and the index, from 0, for e.
InsertionIndex(lane, e) ==
    LET range[turn \in 0..Len(lane)] ==
          IF turn = 0 THEN [low |-> 0, high |-> Len(lane)]
          ELSE LET r == range[turn - 1]
                   mid == (r.low + r.high) \div 2
               IN  IF r.low >= r.high THEN r
                   ELSE IF Lane!Before(lane[mid + 1], e) THEN [r EXCEPT !.low = mid + 1]
                   ELSE [r EXCEPT !.high = mid]
    IN  range[Len(lane)].low

SpliceIn(lane, e) ==
    LET at == InsertionIndex(lane, e)
    IN  SubSeq(lane, 1, at) \o <<e>> \o SubSeq(lane, at + 1, Len(lane))

\* Wrong on purpose (mutant): the array keeps its length after compaction.
CompactedUntruncated(lane, step) ==
    LET kept == SelectSeq(lane, LAMBDA e : e.step > step)
    IN  kept \o SubSeq(lane, Len(kept) + 1, Len(lane))

\* The compaction loop over readIndex: the array after it, and writeIndex.
Compacted(lane, step) ==
    LET scan[read \in 0..Len(lane)] ==
          IF read = 0 THEN [array |-> lane, write |-> 0]
          ELSE LET before == scan[read - 1]
                   e == before.array[read]
               IN  IF e.step <= step THEN before
                   ELSE [array |-> [before.array EXCEPT ![before.write + 1] = e],
                         write |-> before.write + 1]
        last == scan[Len(lane)]
    IN  SubSeq(last.array, 1, last.write)

\* The loops that push to an array what they meet of S.
Selected(array, S) ==
    LET selected[n \in 0..Len(array)] ==
          IF n = 0 THEN <<>>
          ELSE IF array[n] \in S THEN Append(selected[n - 1], array[n])
               ELSE selected[n - 1]
    IN  selected[Len(array)]

DueOf(lane, step) == Selected(lane, {e \in Contents(lane) : e.step <= step})

\* The least important lane an overflow for priority p may shift from.
VictimLanes(p) == {q \in Lane!Priority : q >= p /\ lanes[q] # <<>>}
VictimLane(p) == CHOOSE q \in VictimLanes(p) : \A r \in VictimLanes(p) : r <= q

-----------------------------------------------------------------------------
Admit(c, room) ==
    LET e == Lane!Stamped(c, nextSequence)
    IN  /\ lanes' = [room EXCEPT ![c.priority] = SpliceIn(@, e)]
        /\ nextSequence' = nextSequence + 1

EnqueueRefused(c) ==
    /\ ~Lane!Authorized(c) \/ (totalSize >= MaxSize /\ VictimLanes(c.priority) = {})
    /\ UNCHANGED <<lanes, nextSequence, totalSize>>

EnqueueWithRoom(c) ==
    /\ Lane!Authorized(c)
    /\ totalSize < MaxSize
    /\ Admit(c, lanes)
    /\ totalSize' = totalSize + 1

EnqueueFull(c) ==
    /\ Lane!Authorized(c)
    /\ totalSize >= MaxSize
    /\ VictimLanes(c.priority) # {}
    /\ Admit(c, [lanes EXCEPT ![VictimLane(c.priority)] = Tail(@)])
    /\ totalSize' = (totalSize - 1) + 1

Enqueue(c) == EnqueueRefused(c) \/ EnqueueWithRoom(c) \/ EnqueueFull(c)

DequeueUpToStep(step) ==
    /\ totalSize # 0
    /\ lanes' = [p \in Lane!Priority |-> Compacted(lanes[p], step)]
    /\ drained' = InPriorityOrder([p \in Lane!Priority |-> DueOf(lanes[p], step)])
    /\ totalSize' = totalSize - Len(drained')
    /\ UNCHANGED nextSequence

DequeueNothing ==
    /\ totalSize = 0
    /\ drained' = <<>>
    /\ UNCHANGED <<lanes, nextSequence, totalSize>>

Clear ==
    /\ lanes' = IF totalSize = 0 THEN lanes ELSE [p \in Lane!Priority |-> <<>>]
    /\ totalSize' = 0
    /\ UNCHANGED nextSequence

ExportForSave ==
    /\ save' = IF totalSize = 0 THEN <<>>
               ELSE Selected(InPriorityOrder(lanes),
                             {e \in Queued : e.type \in Serializable})
    /\ UNCHANGED <<unread, rebase, inRestore>>

RestoreBegin(delta) ==
    /\ Clear
    /\ unread' = save
    /\ rebase' = delta
    /\ inRestore' = TRUE
    /\ UNCHANGED save

RestoreNext ==
    /\ unread # <<>>
    /\ Enqueue(Lane!Restored(Head(unread)))
    /\ unread' = Tail(unread)
    /\ UNCHANGED <<save, rebase, inRestore>>

RestoreEnd ==
    /\ inRestore
    /\ unread = <<>>
    /\ inRestore' = FALSE
    /\ UNCHANGED <<lanes, nextSequence, totalSize, save, unread, rebase>>

-----------------------------------------------------------------------------
Init ==
    /\ lanes = [p \in Lane!Priority |-> <<>>]
    /\ nextSequence = 0
    /\ totalSize = 0
    /\ drained = <<>>
    /\ save = <<>>
    /\ unread = <<>>
    /\ rebase = 0
    /\ inRestore = FALSE

CallerEnqueues ==
    /\ ~inRestore
    /\ nextSequence < MaxSequence
    /\ \E t \in Types, x \in Payloads, p \in Lane!Priority,
          ts \in Timestamps, s \in Steps :
          /\ \A e \in Queued \cup Contents(save) : e.payload # x
          /\ Enqueue([type |-> t, payload |-> x, priority |-> p,
                      timestamp |-> ts, step |-> s])
    /\ UNCHANGED saveVars

CallerDequeues ==
    /\ ~inRestore
    /\ DequeueNothing \/ \E s \in Steps : DequeueUpToStep(s)
    /\ UNCHANGED saveVars

CallerClears == ~inRestore /\ Clear /\ UNCHANGED saveVars

CallerSaves ==
    ~inRestore /\ ExportForSave /\ UNCHANGED <<lanes, nextSequence, totalSize>>

CallerRestores ==
    /\ ~inRestore
    /\ nextSequence + Len(save) <= MaxSequence
    /\ \E savedStep, currentStep \in Steps : RestoreBegin(currentStep - savedStep)

Next ==
    \/ CallerDequeues
    \/ /\ \/ CallerEnqueues
          \/ CallerClears
          \/ CallerSaves
          \/ CallerRestores
          \/ RestoreNext
          \/ RestoreEnd
       /\ drained' = <<>>

Spec == Init /\ [][Next]_vars

-----------------------------------------------------------------------------
(* The arrays keep the promise of CommandQueue: every call does to the      *)
(* contents of the lanes what the specification allows, the counter it      *)
(* keeps included.                                                          *)
ImplementsCommandQueue == Lane!Spec

SortedBy(before(_, _), s) ==
    \A i, j \in DOMAIN s : i < j => before(s[i], s[j])

(* The order every binary search relies on survives splices, shifts, in-    *)
(* place compactions and restores: each lane is strictly in (timestamp,     *)
(* sequence) order and holds its own priority only. And what                *)
(* dequeueUpToStep returns is in execution order, SYSTEM before PLAYER      *)
(* before AUTOMATION and timestamp order inside a lane, and a save holds    *)
(* the queue in that same order.                                            *)
LanesInOrder ==
    /\ \A p \in Lane!Priority :
          /\ SortedBy(Lane!Before, lanes[p])
          /\ \A i \in DOMAIN lanes[p] : lanes[p][i].priority = p
    /\ SortedBy(Lane!Precedes, drained) /\ SortedBy(Lane!Precedes, save)
=============================================================================
