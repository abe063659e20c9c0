--------------------------- MODULE TransformSystem ---------------------------
(***************************************************************************)
(* Transforms (packages/core/src/transform-system.ts) take their inputs    *)
(* and give their outputs at once, as a batch that is delivered later, or  *)
(* as a mission that needs an instance too and is resolved at its step, at *)
(* once or stage by stage, with checkpoints and decisions on the way. A    *)
(* tick delivers the batches that are due, evaluates the triggers, and     *)
(* delivers again. Chance and formulas that turn out not finite are        *)
(* choices; outputs and rewards are one unit.                              *)
(***************************************************************************)
EXTENDS EntitySystem, SequencesExt

CONSTANTS
    Transforms,         \* definitions in order: [id, mode, trigger, bound, cost, cooldown,
                        \* duration, initialStage]
    Stages,             \* ids of stages
    StageDefinitions,   \* [Stages -> [duration, checkpoint, options, timeout, nextStage]]
    MaxRunsPerTick,
    MaxOutstandingBatches,
    MaxStarted          \* bound: missions in a game, and batch numbers of a transform

VARIABLES
    batches,            \* [index -> sequence of entries, by step and sequence number]
    batchSequences,
    cooldownExpiresStep,
    runsThisTick,
    pendingTransforms,  \* pendingEventTriggers
    started,            \* ghost: missions started
    settled             \* ghost: [mission -> times it was completed]

missionGhosts == <<started, settled>>
transformVars == <<batches, batchSequences, cooldownExpiresStep, runsThisTick,
                   pendingTransforms, missionGhosts>>

MANUAL == "manual"
CONDITION == "condition"
NoStage == "no stage"

\* Where a stage may lead: its next stage or those of its options.
Successors(s) ==
    {StageDefinitions[s].nextStage}
        \cup {option.nextStage : option \in ToSet(StageDefinitions[s].options)}

\* "Multi-stage missions may not contain circular stage references."
StagesAcyclic ==
    \A S \in (SUBSET Stages) \ {{}} : \E s \in S : Successors(s) \cap S = {}

ASSUME TransformsAssumption ==
    /\ StagesAcyclic
    /\ NoStage \notin Stages
    /\ \A s \in Stages :
          /\ {StageDefinitions[s].duration, StageDefinitions[s].timeout} \subseteq Nat
          /\ DOMAIN StageDefinitions[s].options \subseteq Nat
          /\ Successors(s) \subseteq Stages \cup {NoStage}
    /\ Len(Transforms) \in Nat \ {0} /\ DOMAIN Transforms = 1..Len(Transforms)
    /\ \A t \in DOMAIN Transforms :
          /\ Transforms[t].mode \in {"instant", "batch", "mission"}
          /\ Transforms[t].initialStage \in Stages \cup {NoStage}
          /\ Transforms[t].duration \in Nat
    /\ {MaxOutstandingBatches, MaxStarted} \subseteq Nat

Due(t) == batches[t] # <<>> /\ Head(batches[t]).completeAtStep <= step
DueTransforms == {t \in DOMAIN Transforms : Due(t)}

-----------------------------------------------------------------------------
(* The queue of batches                                                     *)

ComesBefore(e, f) ==
    \/ e.completeAtStep < f.completeAtStep
    \/ e.completeAtStep = f.completeAtStep /\ e.sequence < f.sequence

\* Wrong on purpose (mutant): the new entry goes to the end.
insertBatchLast(queue, entry) == Append(queue, entry)

insertBatch(queue, entry) ==
    LET earlier == {n \in DOMAIN queue : ComesBefore(queue[n], entry)}
    IN  InsertAt(queue, Cardinality(earlier) + 1, entry)

-----------------------------------------------------------------------------
(* Runs                                                                     *)

IsMission(t) == Transforms[t].mode = "mission"
HasStages(t) == IsMission(t) /\ Transforms[t].initialStage # NoStage

\* Wrong on purpose (mutant): the number is not used up.
NextSequenceKept(t) == batchSequences' = [batchSequences EXCEPT ![t] = @]

NextSequence(t) == batchSequences' = [batchSequences EXCEPT ![t] = @ + 1]

CanStart(t) ==
    /\ step >= cooldownExpiresStep[t]
    /\ runsThisTick[t] < MaxRunsPerTick
    /\ amount >= Transforms[t].cost
    /\ IsMission(t) => AvailableInstances # {}
    /\ Transforms[t].mode # "instant" => Len(batches[t]) < MaxOutstandingBatches

\* No more of them under the bound.
Exhausted(t) == batchSequences[t] = MaxStarted \/ (IsMission(t) /\ started = MaxStarted)

FirstDuration(t) ==
    IF HasStages(t) THEN StageDefinitions[Transforms[t].initialStage].duration
                    ELSE Transforms[t].duration

NoMission == 0

NewEntry(t, crew) ==
    [completeAtStep |-> step + FirstDuration(t), sequence |-> batchSequences[t],
     batchId |-> batchSequences[t], crew |-> crew,
     stage |-> IF HasStages(t) THEN Transforms[t].initialStage ELSE NoStage,
     pendingDecision |-> FALSE, checkpointRewardsGranted |-> {},
     mission |-> IF IsMission(t) THEN started + 1 ELSE NoMission]

UsesUpRun(t) ==
    /\ cooldownExpiresStep' = [cooldownExpiresStep EXCEPT ![t] =
           IF Transforms[t].cooldown = 0 THEN 0 ELSE step + Transforms[t].cooldown + 1]
    /\ runsThisTick' = [runsThisTick EXCEPT ![t] = @ + 1]

\* executeNonMissionTransformRun
Converts(t) ==
    /\ CanStart(t) /\ ~IsMission(t) /\ ~Exhausted(t)
    /\ \/ /\ Transforms[t].mode = "instant"
          /\ amount' = Earned(amount - Transforms[t].cost, 1)
          /\ UNCHANGED <<batches, batchSequences>>
       \/ /\ Transforms[t].mode = "batch"
          /\ amount' = amount - Transforms[t].cost
          /\ NextSequence(t)
          /\ batches' = [batches EXCEPT ![t] = insertBatch(@, NewEntry(t, {}))]
    /\ UsesUpRun(t)
    /\ UNCHANGED <<missionGhosts, entityVars>>

\* executeMissionTransformRun. The crew of a mission with stages stays until it is
\* sent home.
Starts(t) ==
    /\ CanStart(t) /\ IsMission(t) /\ ~Exhausted(t)
    /\ amount' = amount - Transforms[t].cost
    /\ NextSequence(t)
    /\ \E i \in AvailableInstances :
          /\ assignToMission({i}, Assignment(Transforms[t].id, batchSequences[t],
                 IF HasStages(t) THEN MAX_SAFE_INTEGER ELSE step + Transforms[t].duration))
          /\ batches' = [batches EXCEPT ![t] = insertBatch(@, NewEntry(t, {i}))]
    /\ UsesUpRun(t)
    /\ started' = started + 1
    /\ UNCHANGED <<settled, byHand>>

\* The plan of the first stage is made after the inputs are spent: when it fails they
\* are gone, and a batch number with them.
FailsToStart(t) ==
    /\ CanStart(t) /\ HasStages(t) /\ ~Exhausted(t)
    /\ amount' = amount - Transforms[t].cost
    /\ NextSequence(t)
    /\ UNCHANGED <<batches, cooldownExpiresStep, runsThisTick, missionGhosts, entityVars>>

\* executeTransform of a manual transform, one run.
executeTransform ==
    /\ \E t \in DOMAIN Transforms :
          /\ Transforms[t].trigger = MANUAL
          /\ Starts(t) \/ FailsToStart(t) \/ Converts(t)
    /\ UNCHANGED pendingTransforms

evaluateTrigger(t) ==
    \/ Transforms[t].trigger = CONDITION /\ amount >= Transforms[t].bound
    \/ t \in pendingTransforms

\* processTransformTick, at its turn. What blocks it leaves an event pending.
Triggers(t) ==
    \/ /\ evaluateTrigger(t)
       /\ Starts(t) \/ Converts(t)
       /\ pendingTransforms' = pendingTransforms \ {t}
    \/ /\ evaluateTrigger(t)
       /\ FailsToStart(t)
       /\ UNCHANGED pendingTransforms
    \/ /\ ~evaluateTrigger(t) \/ ~CanStart(t) \/ Exhausted(t)
       /\ UNCHANGED <<amount, transformVars, entityVars>>

-----------------------------------------------------------------------------
(* Resolving: the entry has been taken off the queue, which is now rest.     *)

Settles(entry) == settled' = [settled EXCEPT ![entry.mission] = @ + 1]

\* Wrong on purpose (mutant): the crew of a failed mission is not sent home.
completeMultiStageMissionLosing(t, entry, rest, success, earned) ==
    /\ amount' = Earned(amount, earned + (IF success THEN 1 ELSE 0))
    /\ returnFromMission(IF success THEN entry.crew ELSE {})
    /\ batches' = [batches EXCEPT ![t] = rest]
    /\ Settles(entry)

completeMultiStageMission(t, entry, rest, success, earned) ==
    /\ amount' = Earned(amount, earned + (IF success THEN 1 ELSE 0))
    /\ returnFromMission(entry.crew)
    /\ batches' = [batches EXCEPT ![t] = rest]
    /\ Settles(entry)

completeStandardBatch(t, rest) ==
    /\ amount' = Earned(amount, 1)
    /\ batches' = [batches EXCEPT ![t] = rest]
    /\ UNCHANGED <<settled, instances, availableCount>>

\* A mission without stages leaves its crew to the entity system's tick.
completeMissionBatch(t, entry, rest) ==
    /\ \E success \in BOOLEAN : amount' = Earned(amount, IF success THEN 1 ELSE 0)
    /\ batches' = [batches EXCEPT ![t] = rest]
    /\ Settles(entry)
    /\ UNCHANGED <<instances, availableCount>>

\* Wrong on purpose (mutant): the entry is not taken off the queue first.
ReschedulesTwice(t, entry, rest, stage, earned) ==
    /\ amount' = Earned(amount, earned)
    /\ batches' = [batches EXCEPT ![t] = insertBatch(@, [entry EXCEPT
           !.completeAtStep = step + StageDefinitions[stage].duration,
           !.stage = stage, !.pendingDecision = FALSE])]
    /\ UNCHANGED <<settled, instances, availableCount>>

\* rescheduleMissionEntry
Reschedules(t, entry, rest, stage, earned) ==
    /\ amount' = Earned(amount, earned)
    /\ batches' = [batches EXCEPT ![t] = insertBatch(rest, [entry EXCEPT
           !.completeAtStep = step + StageDefinitions[stage].duration,
           !.stage = stage, !.pendingDecision = FALSE])]
    /\ UNCHANGED <<settled, instances, availableCount>>

\* To the next stage, or home when there is none; home failed when the stage or an
\* outcome cannot be worked out.
GoesOn(t, entry, rest, stage, earned) ==
    \/ /\ stage # NoStage
       /\ Reschedules(t, entry, rest, stage, earned)
    \/ /\ stage = NoStage
       /\ completeMultiStageMission(t, entry, rest, TRUE, earned)
    \/ completeMultiStageMission(t, entry, rest, FALSE, earned)

Available(option) == amount >= option.needs

\* handlePendingDecisionBatch: the default option, the first of them, if it is
\* available, else the first available one.
DecidesByTimeout(t, entry, rest) ==
    LET options == StageDefinitions[entry.stage].options
        available == {n \in DOMAIN options : Available(options[n])}
    IN  IF available = {}
        THEN completeMultiStageMission(t, entry, rest, FALSE, 0)
        ELSE GoesOn(t, entry, rest, options[Min(available)].nextStage, 0)

\* applyStageCheckpointRewards: the stages whose checkpoint pays now.
Checkpoint(entry) ==
    IF StageDefinitions[entry.stage].checkpoint
    THEN {entry.stage} \ entry.checkpointRewardsGranted ELSE {}

\* scheduleMissionDecision; without a timeout there is only the player's decision.
AsksForDecision(t, entry, rest, earned) ==
    LET timeout == StageDefinitions[entry.stage].timeout
    IN  /\ amount' = Earned(amount, earned)
        /\ batches' = [batches EXCEPT ![t] = insertBatch(rest, [entry EXCEPT
               !.completeAtStep =
                   IF timeout = MAX_SAFE_INTEGER THEN timeout ELSE step + timeout,
               !.pendingDecision = TRUE])]
        /\ UNCHANGED <<settled, instances, availableCount>>

\* handleStageCompletionBatch, the stage a success.
CompletesStage(t, entry, rest) ==
    LET paid == Checkpoint(entry)
        onward == [entry EXCEPT !.checkpointRewardsGranted = @ \cup paid]
        definition == StageDefinitions[entry.stage]
    IN  IF definition.options # <<>>
        THEN AsksForDecision(t, onward, rest, Cardinality(paid))
        ELSE GoesOn(t, onward, rest, definition.nextStage, Cardinality(paid))

FailsStage(t, entry, rest) ==
    completeMultiStageMission(t, entry, rest, FALSE, 0)

\* deliverDueBatchEntry, of the first transform with an entry that is due.
DeliverDueBatch ==
    /\ DueTransforms # {}
    /\ LET t == Min(DueTransforms)
           entry == Head(batches[t])
           rest == Tail(batches[t])
       IN  \/ entry.mission = NoMission /\ completeStandardBatch(t, rest)
           \/ /\ entry.mission # NoMission /\ entry.stage = NoStage
              /\ completeMissionBatch(t, entry, rest)
           \/ /\ entry.stage # NoStage /\ entry.pendingDecision
              /\ DecidesByTimeout(t, entry, rest)
           \/ /\ entry.stage # NoStage /\ ~entry.pendingDecision
              /\ CompletesStage(t, entry, rest) \/ FailsStage(t, entry, rest)
    /\ UNCHANGED <<batchSequences, cooldownExpiresStep, runsThisTick, pendingTransforms,
                   started, byHand>>

-----------------------------------------------------------------------------
(* MAKE_MISSION_DECISION: the first batch with that id must be waiting for a *)
(* decision of that stage.                                                  *)

Addressed(t, batchId) ==
    Min({n \in DOMAIN batches[t] : batches[t][n].batchId = batchId})

makeMissionDecision ==
    /\ \E t \in DOMAIN Transforms : \E e \in ToSet(batches[t]) :
          LET n == Addressed(t, e.batchId)
              entry == batches[t][n]
              options == StageDefinitions[entry.stage].options
          IN  /\ entry.pendingDecision
              /\ \E option \in ToSet(options) :
                    /\ Available(option)
                    /\ \/ /\ option.nextStage # NoStage
                          /\ Reschedules(t, entry, RemoveAt(batches[t], n), option.nextStage, 0)
                       \/ /\ option.nextStage = NoStage
                          /\ completeMultiStageMission(t, entry, RemoveAt(batches[t], n), TRUE, 0)
    /\ UNCHANGED <<batchSequences, cooldownExpiresStep, runsThisTick, pendingTransforms,
                   started, byHand>>

-----------------------------------------------------------------------------
(* Save and restore: the entries are numbered anew, their ids are kept; the *)
(* pending events are not saved.                                            *)

RestoreTransforms(delta) ==
    /\ batches' = [t \in DOMAIN Transforms |->
           [n \in DOMAIN batches[t] |->
               [batches[t][n] EXCEPT !.completeAtStep = RebasedStep(@, delta),
                                     !.sequence = n - 1]]]
    /\ batchSequences' = [t \in DOMAIN Transforms |-> Len(batches[t])]
    /\ cooldownExpiresStep' = [t \in DOMAIN Transforms |->
           RebasedStep(cooldownExpiresStep[t], delta)]
    /\ runsThisTick' = [t \in DOMAIN Transforms |-> 0]
    /\ pendingTransforms' = {}
    /\ UNCHANGED missionGhosts

TransformInit ==
    /\ batches = [t \in DOMAIN Transforms |-> <<>>]
    /\ batchSequences = [t \in DOMAIN Transforms |-> 0]
    /\ cooldownExpiresStep = [t \in DOMAIN Transforms |-> 0]
    /\ runsThisTick = [t \in DOMAIN Transforms |-> 0]
    /\ pendingTransforms = {}
    /\ started = 0
    /\ settled = [m \in 1..MaxStarted |-> 0]
=============================================================================
