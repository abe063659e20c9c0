---------------------------- MODULE CommandQueue ----------------------------
(***************************************************************************)
(* The command queue (packages/core/src/command-queue.ts) under every      *)
(* sequence of calls: enqueues, overflows, drains and clears, and saves    *)
(* that are exported (exportForSave) and restored (restoreFromSave).       *)
(***************************************************************************)
EXTENDS QueueOperations

CONSTANTS
    Serializable,       \* types whose payload cloneJsonValue accepts
    Steps               \* steps the callers stamp

ASSUME SaveAssumption == Serializable \subseteq Types /\ Steps \subseteq Nat

VARIABLES
    saved,          \* the entries of the last exported save
    restoring,      \* what restoreFromSave has still to re-enqueue
    rebase,         \* currentStep - savedStep of the restore under way
    inRestore       \* restoreFromSave is running

saveVars == <<saved, restoring, rebase, inRestore>>
vars == <<entries, nextSequence, totalSize, saved, restoring, rebase, inRestore>>

-----------------------------------------------------------------------------
(* exportForSave and restoreFromSave. A save is an array in drain order;    *)
(* it does not store sequence numbers, so the `sequence` a saved entry      *)
(* keeps here only stands for its place in that array.                      *)

ExportForSave ==
    /\ saved' = {e \in entries : totalSize # 0 /\ e.type \in Serializable}
    /\ UNCHANGED <<restoring, rebase, inRestore>>

RestoreBegin(delta) ==
    /\ Clear
    /\ restoring' = saved
    /\ rebase' = delta
    /\ inRestore' = TRUE
    /\ UNCHANGED saved

\* Wrong on purpose (mutant): a step before the target's origin goes negative.
RebasedStepUnclamped(step) == step + rebase

RebasedStep(step) == IF step + rebase > 0 THEN step + rebase ELSE 0

Restored(e) ==
    [type |-> e.type, payload |-> e.payload, priority |-> e.priority,
     timestamp |-> e.timestamp, step |-> RebasedStep(e.step)]

\* One turn of the restore loop: the next entry of the array is enqueued.
RestoreNext ==
    \E e \in restoring :
        /\ \A f \in restoring \ {e} : Precedes(e, f)
        /\ Enqueue(Restored(e))
        /\ restoring' = restoring \ {e}
        /\ UNCHANGED <<saved, rebase, inRestore>>

RestoreEnd ==
    /\ inRestore
    /\ restoring = {}
    /\ inRestore' = FALSE
    /\ UNCHANGED <<queueVars, saved, restoring, rebase>>

-----------------------------------------------------------------------------
Init ==
    /\ QueueInit
    /\ saved = {}
    /\ restoring = {}
    /\ rebase = 0
    /\ inRestore = FALSE

Idle == ~inRestore

\* A caller's command; it carries a payload no queued or saved command has.
CallerEnqueues ==
    /\ Idle
    /\ nextSequence < MaxSequence
    /\ \E t \in Types, x \in Payloads, p \in Priority,
          ts \in Timestamps, s \in Steps :
          /\ \A e \in entries \cup saved : e.payload # x
          /\ Enqueue([type |-> t, payload |-> x, priority |-> p,
                      timestamp |-> ts, step |-> s])
    /\ UNCHANGED saveVars

CallerDequeues ==
    /\ Idle
    /\ \E s \in Steps : DequeueUpToStep(s)
    /\ UNCHANGED saveVars

CallerClears == Idle /\ Clear /\ UNCHANGED saveVars

CallerSaves == Idle /\ ExportForSave /\ UNCHANGED queueVars

CallerRestores ==
    /\ Idle
    /\ nextSequence + Cardinality(saved) <= MaxSequence
    /\ \E savedStep, currentStep \in Steps : RestoreBegin(currentStep - savedStep)

Next ==
    \/ CallerEnqueues
    \/ CallerDequeues
    \/ CallerClears
    \/ CallerSaves
    \/ CallerRestores
    \/ RestoreNext
    \/ RestoreEnd

Spec == Init /\ [][Next]_vars

-----------------------------------------------------------------------------
(* Every variable has its type: CommandQueue's fields.                      *)
TypeInv ==
    /\ QueueTypes
    /\ saved \in SUBSET Entry
    /\ restoring \in SUBSET saved
    /\ rebase \in Int
    /\ inRestore \in BOOLEAN

(* Whatever sequence of calls and overflows: an enqueue that drops an entry *)
(* (dropLowestPriorityUpTo) never drops one more important than the         *)
(* newcomer, nor one more important than an entry it leaves queued, nor one *)
(* that would run after another of the same lane.                           *)
EvictionRespectsPriority == [][DropsLeastImportant]_vars

SameCommand(a, b) == a.payload = b.payload

(* A restore under way (restoreFromSave): everything of the save is either  *)
(* queued again or still to come, with its step rebased, and the re-queued  *)
(* entries, which get new sequence numbers, run in the order they had when  *)
(* they were saved, before everything still to come.                        *)
RestoreKeepsOrder ==
    inRestore =>
        /\ \A e \in saved \ restoring : Authorized(e) =>
              \E q \in entries : SameCommand(q, e) /\ q.step = RebasedStep(e.step)
        /\ \A q \in entries : \E e \in saved \ restoring :
              /\ SameCommand(q, e)
              /\ \A f \in restoring : Precedes(e, f)
              /\ \A r \in entries, f \in saved \ restoring :
                    SameCommand(r, f) /\ Precedes(e, f) => Precedes(q, r)
=============================================================================
