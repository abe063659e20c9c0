---------------------------- MODULE ResourceState ----------------------------
(***************************************************************************)
(* Resource amounts with their rates, flags and tolerances, the list of    *)
(* indices changed since the last publish, and the two publish buffers     *)
(* that take turns (resource-state.ts). Numbers are integers in a unit     *)
(* coarser than the default tolerance, so two of them are equal or         *)
(* different; a definition's own tolerance is a number of units.           *)
(***************************************************************************)
EXTENDS Integers, Sequences, FiniteSets, SequencesExt

CONSTANTS
    Definitions,        \* the resources, by index: [amount, capacity, tolerance]
    Flags,              \* FLAG_VISIBLE, FLAG_UNLOCKED, or one standing for both
    Capacities,         \* capacities a resource may be given
    Amounts,            \* amounts and rates of one call
    Tolerances,         \* clamped dirty tolerances; 0 is the default
    MaxOps              \* bound: calls that change a resource

ASSUME ResourceAssumption ==
    /\ Capacities \subseteq Nat /\ Tolerances \subseteq Nat /\ MaxOps \in Nat
    /\ Amounts \subseteq Nat \ {0}
    /\ Definitions \in Seq([amount : Nat, capacity : Capacities, tolerance : Tolerances])
    /\ \A i \in DOMAIN Definitions : Definitions[i].amount <= Definitions[i].capacity

Indices == DOMAIN Definitions
FloatFields == {"amount", "capacity", "income", "expense", "net", "tickDelta"}

SCRATCH_UNSET == 0

VARIABLES
    live,           \* [Indices -> record of all fields]
    scratch,        \* the prefix of dirtyIndexScratch in use
    positions,      \* dirtyIndexPositions, from 1
    dirtyFlags,     \* the indices that carry FLAG_DIRTY_THIS_TICK
    publish,        \* the two buffers, each [at |-> records, dirty |-> indices]
    activePublishIndex,
    publishGuardState,
    ops             \* calls so far

liveVars == <<live, scratch, positions, dirtyFlags>>
resourceVars == <<liveVars, publish, activePublishIndex, publishGuardState, ops>>

source == publish[activePublishIndex]

-----------------------------------------------------------------------------
(* Dirty tracking. The operators take and return the state they change,     *)
(* since one call writes several fields, each of them reconciled.           *)

Tracked == [live |-> live, scratch |-> scratch, positions |-> positions,
            dirtyFlags |-> dirtyFlags]

Near(a, b, tolerance) == a - b <= tolerance /\ b - a <= tolerance

epsilonEquals(a, b, l) == Near(a, b, l.tolerance)

\* isIndexDirtyAgainstPublish, and not isIndexClean.
Dirty(l, p) ==
    \/ \E f \in FloatFields : ~epsilonEquals(l[f], p[f], l)
    \/ l.tolerance # p.tolerance
    \/ l.flags # p.flags

markDirty(s, i) ==
    IF s.positions[i] > 0 THEN [s EXCEPT !.dirtyFlags = @ \cup {i}]
    ELSE [s EXCEPT !.dirtyFlags = @ \cup {i},
                   !.scratch = Append(@, i),
                   !.positions[i] = Len(s.scratch) + 1]

\* The last index takes the place of the one removed.
Removed(s, i) ==
    [s EXCEPT !.scratch = SubSeq([@ EXCEPT ![s.positions[i]] = Last(s.scratch)],
                                 1, Len(s.scratch) - 1),
              !.positions = [@ EXCEPT ![Last(s.scratch)] = s.positions[i],
                                      ![i] = SCRATCH_UNSET]]

\* Wrong on purpose (mutant): the caller's field is clean, so the index is.
UnmarkAtOnce(s, i) ==
    [(IF s.positions[i] > 0 THEN Removed(s, i) ELSE s) EXCEPT !.dirtyFlags = @ \ {i}]

unmarkIfClean(s, i) ==
    IF Dirty(s.live[i], source.at[i]) THEN s
    ELSE [(IF s.positions[i] > 0 THEN Removed(s, i) ELSE s) EXCEPT !.dirtyFlags = @ \ {i}]

\* writeFloatField, and the write of accumulateTickDelta.
Write(s, i, field, value) ==
    IF s.live[i][field] = value THEN s
    ELSE LET w == [s EXCEPT !.live[i][field] = value]
         IN  IF epsilonEquals(value, source.at[i][field], w.live[i])
             THEN unmarkIfClean(w, i)
             ELSE markDirty(w, i)

accumulateTickDelta(s, i, delta) == Write(s, i, "tickDelta", s.live[i].tickDelta + delta)

\* An amount written together with what it adds to the tick's delta.
Moved(s, i, amount) ==
    accumulateTickDelta(Write(s, i, "amount", amount), i, amount - s.live[i].amount)

Apply(s) ==
    /\ live' = s.live /\ scratch' = s.scratch
    /\ positions' = s.positions /\ dirtyFlags' = s.dirtyFlags

\* A call of a system or a handler.
Call(s) ==
    /\ ops < MaxOps /\ ops' = ops + 1
    /\ Apply(s)
    /\ UNCHANGED <<publish, activePublishIndex, publishGuardState>>

-----------------------------------------------------------------------------
(* Calls                                                                    *)

setCapacity(i, capacity) ==
    LET s == Write(Tracked, i, "capacity", capacity)
    IN  Call(IF live[i].amount > capacity THEN Moved(s, i, capacity) ELSE s)

setDirtyTolerance(i, tolerance) ==
    /\ live[i].tolerance # tolerance
    /\ Call(markDirty([Tracked EXCEPT !.live[i].tolerance = tolerance], i))

addAmount(i, amount) ==
    LET clamped == IF live[i].amount + amount < live[i].capacity
                   THEN live[i].amount + amount ELSE live[i].capacity
    IN  Call(Moved(Tracked, i, clamped))

\* Refused, without effect, when there is too little.
spendAmount(i, amount) ==
    /\ live[i].amount >= amount
    /\ Call(Moved(Tracked, i, live[i].amount - amount))

\* writeAmountDirect leaves tickDelta alone; its callers stay within capacity.
writeAmountDirect(i, amount) ==
    /\ amount <= live[i].capacity
    /\ Call(Write(Tracked, i, "amount", amount))

\* applyIncome and applyExpense
applyRate(i, field, amountPerSecond) ==
    LET s == Write(Tracked, i, field, live[i][field] + amountPerSecond)
    IN  Call(Write(s, i, "net", s.live[i].income - s.live[i].expense))

setFlagField(i, mask, shouldSet) ==
    LET flags == IF shouldSet THEN live[i].flags \cup {mask} ELSE live[i].flags \ {mask}
        s == [Tracked EXCEPT !.live[i].flags = flags]
    IN  /\ flags # live[i].flags
        /\ Call(IF flags = source.at[i].flags THEN unmarkIfClean(s, i) ELSE markDirty(s, i))

-----------------------------------------------------------------------------
(* The tick                                                                 *)

clampAmount(amount, capacity) ==
    IF amount < 0 THEN 0 ELSE IF amount > capacity THEN capacity ELSE amount

\* One index of finalizeTick, over a second.
Finalized(s, i) ==
    LET l == s.live[i]
        moved == Moved(s, i, clampAmount(l.amount + l.income - l.expense, l.capacity))
        t == Write(moved, i, "net", l.income - l.expense)
    IN  IF \A f \in {"income", "expense", "net"} :
              epsilonEquals(t.live[i][f], source.at[i][f], t.live[i])
        THEN t ELSE markDirty(t, i)

\* The loop over the indices, up to one of them.
FinalizedUpTo[i \in 0..Len(Definitions)] ==
    IF i = 0 THEN Tracked ELSE Finalized(FinalizedUpTo[i - 1], i)

finalizeTick ==
    /\ Apply(FinalizedUpTo[Len(Definitions)])
    /\ publishGuardState' = "Finalized"
    /\ UNCHANGED <<publish, activePublishIndex, ops>>

\* Throws before a publish.
resetPerTickAccumulators ==
    /\ publishGuardState = "Published"
    /\ live' = [i \in Indices |-> [live[i] EXCEPT !.income = 0, !.expense = 0,
                                                  !.net = 0, !.tickDelta = 0]]
    /\ publishGuardState' = "Idle"
    /\ UNCHANGED <<scratch, positions, dirtyFlags, publish, activePublishIndex, ops>>

\* processCurrentDirtyIndices: what the publish will carry.
Published ==
    LET kept[n \in 0..Len(scratch)] ==
          IF n = 0 THEN <<>>
          ELSE IF Dirty(live[scratch[n]], source.at[scratch[n]])
               THEN Append(kept[n - 1], scratch[n])
               ELSE kept[n - 1]
    IN  kept[Len(scratch)]

\* The standby buffer catches up with what the last publish changed, then
\* takes the live values of the indices still dirty. tickDelta is zeroed only
\* where either list has the index.
PublishedBuffer ==
    LET standby == publish[1 - activePublishIndex]
        CaughtUp(i) ==
            IF i \in ToSet(source.dirty) THEN [source.at[i] EXCEPT !.tickDelta = 0]
            ELSE IF i \in ToSet(scratch) THEN [standby.at[i] EXCEPT !.tickDelta = 0]
            ELSE standby.at[i]
    IN  [dirty |-> Published,
         at |-> [i \in Indices |-> IF i \in ToSet(Published) THEN live[i] ELSE CaughtUp(i)]]

\* snapshot({ mode: 'publish' })
createPublishSnapshot ==
    /\ publish' = [publish EXCEPT ![1 - activePublishIndex] = PublishedBuffer]
    /\ activePublishIndex' = 1 - activePublishIndex
    /\ scratch' = <<>>
    /\ positions' = [i \in Indices |->
                        IF i \in ToSet(source.dirty) \cup ToSet(scratch)
                        THEN SCRATCH_UNSET ELSE positions[i]]
    /\ dirtyFlags' = dirtyFlags \ (ToSet(source.dirty) \cup ToSet(scratch))
    /\ publishGuardState' = "Published"
    /\ UNCHANGED <<live, ops>>

-----------------------------------------------------------------------------
ResourceInit ==
    /\ live = [i \in Indices |->
                 [amount |-> Definitions[i].amount, capacity |-> Definitions[i].capacity,
                  tolerance |-> Definitions[i].tolerance, flags |-> Flags,
                  income |-> 0, expense |-> 0, net |-> 0, tickDelta |-> 0]]
    /\ scratch = <<>>
    /\ positions = [i \in Indices |-> SCRATCH_UNSET]
    /\ dirtyFlags = {}
    /\ publish = [b \in {0, 1} |-> [dirty |-> <<>>, at |-> live]]
    /\ activePublishIndex = 0
    /\ publishGuardState = "Idle"
    /\ ops = 0

Calls ==
    \E i \in Indices :
        \/ \E capacity \in Capacities : setCapacity(i, capacity)
        \/ \E tolerance \in Tolerances : setDirtyTolerance(i, tolerance)
        \/ \E amount \in Amounts : \/ addAmount(i, amount)
                                   \/ spendAmount(i, amount)
                                   \/ writeAmountDirect(i, amount)
                                   \/ applyRate(i, "income", amount)
                                   \/ applyRate(i, "expense", amount)
        \/ \E mask \in Flags, shouldSet \in BOOLEAN : setFlagField(i, mask, shouldSet)

-----------------------------------------------------------------------------
\* No index twice, none lost by a swap, the flag set exactly for those listed.
ScratchExact ==
    /\ dirtyFlags = ToSet(scratch)
    /\ \A i \in Indices : positions[i] # SCRATCH_UNSET <=> i \in ToSet(scratch)
    /\ \A n \in 1..Len(scratch) : positions[scratch[n]] = n

\* The readers' buffer has what is not listed, within the tolerance.
CleanIsPublished ==
    \A i \in Indices \ ToSet(scratch) :
        LET l == live[i] p == source.at[i]
        IN  /\ Near(l.amount, p.amount, l.tolerance)
            /\ Near(l.capacity, p.capacity, l.tolerance)
            /\ l.flags = p.flags /\ l.tolerance = p.tolerance

(* The dirty list misses nothing: it agrees with the map of places into it, *)
(* and an index that is not on it differs from what readers last saw by no  *)
(* more than its tolerance, so drift never adds up over ticks, though       *)
(* calls, finalizeTick and publishes put indices on the list and take them  *)
(* off against a buffer that changes under them.                            *)
DirtyListMissesNothing == ScratchExact /\ CleanIsPublished

(* "a resource that resolves to clean state never exposes a stale delta":   *)
(* the tick delta of an index the publish does not list is zero.            *)
NoStaleDelta ==
    \A i \in Indices \ ToSet(source.dirty) : source.at[i].tickDelta = 0
=============================================================================
