------------------------------- MODULE GameSave -------------------------------
(***************************************************************************)
(* The game facade (packages/core/src/game.ts) around one runtime:         *)
(* player commands, the interval scheduler, serialize and hydrate, and new *)
(* instances that load the save of an older one. What a save carries of    *)
(* the runtime is its step, its two time banks and its command queue.      *)
(***************************************************************************)
EXTENDS IdleRuntime

CONSTANT MaxStep    \* bound: the step a hydrate may land on

VARIABLES
    running,    \* intervalHandle # null
    slot,       \* the host's save slot: a save, or NoSave
    overshot    \* ghost: a hydrate of this game's history went past its saved
                \* step, or jumped over queued commands and then failed

NoSave == [empty |-> TRUE]
gameVars == <<vars, running, slot, overshot>>
facadeVars == <<running, slot, overshot>>

-----------------------------------------------------------------------------
(* enqueuePlayerCommand, start, stop and the scheduler's tick.              *)

EnqueuePlayerCommand ==
    /\ Idle
    /\ nextSequence < MaxSequence
    /\ \E t \in Types, x \in Payloads :
          /\ \A e \in entries \cup batch : e.payload # x
          /\ Enqueue([type |-> t, payload |-> x, priority |-> PLAYER,
                      timestamp |-> currentStep * StepMs,
                      step |-> nextExecutableStep])
    /\ UNCHANGED <<bankVars, stepVars, loopVars, resultVars, facadeVars>>

Start ==
    /\ Idle /\ ~running
    /\ running' = TRUE
    /\ UNCHANGED <<vars, slot, overshot>>

Stop ==
    /\ Idle /\ running
    /\ running' = FALSE
    /\ UNCHANGED <<vars, slot, overshot>>

\* tick, from the interval or called by the host.
GameTick == Tick /\ UNCHANGED facadeVars

-----------------------------------------------------------------------------
(* serialize and hydrate                                                    *)

\* The last three fields are ghosts: the history of the saved game.
Save == [step |-> currentStep, hostMs |-> hostMs, creditedMs |-> creditedMs,
         entries |-> entries, supplied |-> supplied, lostSteps |-> lostSteps,
         overshot |-> overshot]

Serialize ==
    /\ Idle
    /\ slot' = Save
    /\ UNCHANGED <<vars, running, overshot>>

Renumbered(e, saved) ==
    Stamped(e, nextSequence + Cardinality({f \in saved : Precedes(f, e)}))

\* Wrong on purpose (mutant): rebased to the step the runtime was at before the jump.
RestoredEntriesRebased(saved) ==
    {[Renumbered(e, saved) EXCEPT !.step = @ - (slot.step - currentStep)] : e \in saved}

\* restoreFromSave, nothing to rebase: savedStep and currentStep are both targetStep.
RestoredEntries(saved) == {Renumbered(e, saved) : e \in saved}

Loadable == slot # NoSave /\ slot.step >= currentStep

\* Wrong on purpose (mutant): the banks keep what the jump left in them.
RestoredBanksKept == UNCHANGED <<hostMs, creditedMs>>

RestoredBanks == hostMs' = slot.hostMs /\ creditedMs' = slot.creditedMs

\* The steps fastForward adds for the way to the saved step.
StepsToJump ==
    IF slot.step > currentStep THEN JumpSteps((slot.step - currentStep) * StepMs) ELSE 0

\* Wrong on purpose (mutant): jumping to the saved step forgets the other counter.
JumpToStepAlone ==
    /\ currentStep' = currentStep + StepsToJump
    /\ UNCHANGED nextExecutableStep

JumpToStep ==
    /\ currentStep' = currentStep + StepsToJump
    /\ nextExecutableStep' = IF StepsToJump > 0 THEN currentStep' ELSE nextExecutableStep

Hydrate ==
    /\ Idle
    /\ Loadable
    /\ nextSequence + Cardinality(slot.entries) <= MaxSequence
    /\ currentStep + StepsToJump <= MaxStep
    /\ JumpToStep
    /\ entries' = RestoredEntries(slot.entries)
    /\ nextSequence' = nextSequence + Cardinality(slot.entries)
    /\ totalSize' = Cardinality(slot.entries)
    /\ RestoredBanks
    /\ supplied' = slot.supplied
    /\ lostSteps' = slot.lostSteps
    /\ jumpSequence' = nextSequence
    /\ overshot' = (slot.overshot \/ (slot.step > currentStep /\ currentStep' > slot.step))
    /\ UNCHANGED <<loopVars, resultVars, running, slot>>

\* The save does not fit the content: wiring.hydrate throws before it comes to
\* the queue and the banks, but fastForward has jumped.
HydrateThrows ==
    /\ Idle
    /\ Loadable /\ slot.step > currentStep
    /\ currentStep + StepsToJump <= MaxStep
    /\ JumpBy((slot.step - currentStep) * StepMs)
    /\ overshot' = (overshot \/ \E e \in entries : e.step < currentStep')
    /\ UNCHANGED <<queueVars, lostSteps, loopVars, resultVars, running, slot>>

\* createGame: a new instance in place of the old one; the slot survives.
CreateGame ==
    /\ Idle
    /\ entries' = {} /\ nextSequence' = 0 /\ totalSize' = 0
    /\ hostMs' = 0 /\ creditedMs' = 0 /\ supplied' = 0
    /\ currentStep' = InitialStep /\ nextExecutableStep' = InitialStep
    /\ jumpSequence' = 0 /\ lostSteps' = 0
    /\ pending' = {} /\ outcomes' = {} /\ failures' = {} /\ answered' = {}
    /\ running' = FALSE /\ overshot' = FALSE
    /\ UNCHANGED <<loopVars, slot>>

-----------------------------------------------------------------------------
GameInit ==
    /\ Init
    /\ running = FALSE
    /\ slot = NoSave
    /\ overshot = FALSE

RuntimeRuns ==
    /\ \/ Run
       \/ DrainCreditedBacklog
       \/ CreditFromOutside
       \/ HandlerCreditsTime
       \/ PromiseSettles
       \/ DrainOutcomes
       \/ DrainFailures
    /\ UNCHANGED facadeVars

GameNext ==
    \/ EnqueuePlayerCommand
    \/ Start
    \/ Stop
    \/ GameTick
    \/ Serialize
    \/ Hydrate
    \/ HydrateThrows
    \/ CreateGame
    \/ RuntimeRuns

GameSpec == GameInit /\ [][GameNext]_gameVars

-----------------------------------------------------------------------------
(* A command a player was told is accepted (enqueuePlayerCommand) will find *)
(* its step still to come, in this instance or in one that loads the save   *)
(* it was queued in: hydrate loses it only when its jump went past the      *)
(* saved step, or over the queue of a game it then failed to replace.       *)
SavedCommandsStillRun ==
    overshot \/ \A e \in entries : e.step >= currentStep

(* Serialize, then hydrate into any instance the code accepts: the time the *)
(* saved game had been handed is all there, in the two banks or as steps,   *)
(* unless the jump went past the saved step.                                *)
SavedTimeSurvives == overshot \/ TimeConserved

(* Between calls the step the facade stamps on player commands is never     *)
(* behind the step the runtime is at, and ahead of it only after a throw.   *)
StampNeverBehind ==
    Idle => nextExecutableStep \in {currentStep, currentStep + 1}
=============================================================================
