------------------------------ MODULE GameSystems ------------------------------
(***************************************************************************)
(* One step of a game (internals.browser.ts, game-runtime-wiring.ts): the  *)
(* commands of the step, then the automations, the transforms and the      *)
(* entities, each with the events of those before it, and in between steps *)
(* a save that a new instance loads, at its first step or at the saved one. *)
(* A system is one action per automation, transform or batch it works      *)
(* through; nothing else moves before it is done. The phases:              *)
(*   idle --a command--> commands;  idle, commands --RunQueued-->          *)
(*   automation --the last one--> deliver --none is due any more-->        *)
(*   trigger --the last one--> deliver again --EntityTick--> idle          *)
(***************************************************************************)
EXTENDS AutomationSystem, TransformSystem

CONSTANT Horizon    \* bound: steps of a game, and how far back its clocks may lie

\* What is to come in a game comes before the step that does not.
ASSUME HorizonAssumption ==
    /\ Horizon \in 0..(MAX_SAFE_INTEGER - 1)
    /\ \A t \in DOMAIN Transforms : Horizon + Transforms[t].duration <= MAX_SAFE_INTEGER
    /\ \A s \in Stages :
          /\ Horizon + StageDefinitions[s].duration <= MAX_SAFE_INTEGER
          /\ \/ StageDefinitions[s].timeout = MAX_SAFE_INTEGER
             \/ Horizon + StageDefinitions[s].timeout <= MAX_SAFE_INTEGER

VARIABLE reloaded   \* ghost: the game has been loaded from a save

vars == <<stepVars, amount, entityVars, automationVars, transformVars, reloaded>>

\* The transforms that an automation:fired event of n triggers.
Listeners(n) == {t \in DOMAIN Transforms : Transforms[t].trigger = Automations[n].id}

\* mission:completed, for each mission a step settles.
PublishesCompleted ==
    pendingAutomations' = IF settled' # settled
                          THEN pendingAutomations \cup EventAutomations
                          ELSE pendingAutomations

-----------------------------------------------------------------------------
(* The commands of the step                                                 *)

InCommands ==
    /\ phase \in {"idle", "commands"} /\ step < Horizon
    /\ phase' = "commands"
    /\ UNCHANGED <<step, turn, reloaded>>

CollectResource ==
    /\ InCommands
    /\ amount' = Earned(amount, 1)
    /\ UNCHANGED <<entityVars, automationVars, transformVars>>

RunTransform ==
    /\ InCommands
    /\ executeTransform
    /\ UNCHANGED automationVars

MakeMissionDecision ==
    /\ InCommands
    /\ makeMissionDecision
    /\ PublishesCompleted
    /\ UNCHANGED <<automations, queued, dipped>>

Toggle ==
    /\ InCommands
    /\ ToggleAutomation
    /\ UNCHANGED <<amount, entityVars, transformVars>>

CommandEntities ==
    /\ InCommands
    /\ EntityCommand
    /\ UNCHANGED <<amount, automationVars, transformVars>>

\* The commands the automations queued in the step before come after the player's.
RunQueued ==
    /\ phase \in {"idle", "commands"} /\ step < Horizon
    /\ amount' = Earned(amount, queued)
    /\ queued' = 0
    /\ phase' = "automation" /\ turn' = 1
    /\ UNCHANGED <<step, reloaded, entityVars, automations, pendingAutomations, dipped,
                   transformVars>>

-----------------------------------------------------------------------------
(* The systems                                                              *)

\* On to the next of them, or to the next phase.
NextTurn(last, phaseHere, next) ==
    IF turn < last THEN turn' = turn + 1 /\ phase' = phaseHere
                   ELSE turn' = 1 /\ phase' = next

AutomationTurn ==
    /\ phase = "automation"
    /\ NextTurn(Len(Automations), "automation", "deliver")
    /\ \/ /\ Disabled(turn) \/ CoolsDown(turn) \/ Waits(turn)
          /\ pendingAutomations' = pendingAutomations \ {turn}
          /\ UNCHANGED pendingTransforms
       \/ CannotPay(turn) /\ UNCHANGED <<pendingAutomations, pendingTransforms>>
       \/ /\ Fires(turn)
          /\ pendingAutomations' = pendingAutomations \ {turn}
          /\ pendingTransforms' = pendingTransforms \cup Listeners(turn)
    /\ UNCHANGED <<step, reloaded, entityVars, batches, batchSequences,
                   cooldownExpiresStep, runsThisTick, missionGhosts>>

Deliver ==
    /\ phase \in {"deliver", "deliver again"}
    /\ DeliverDueBatch
    /\ PublishesCompleted
    /\ UNCHANGED <<stepVars, reloaded, automations, queued, dipped>>

TransformTurn ==
    /\ phase = "trigger" \/ (phase = "deliver" /\ DueTransforms = {})
    /\ NextTurn(Len(Transforms), "trigger", "deliver again")
    /\ Triggers(turn)
    /\ UNCHANGED <<step, reloaded, automationVars>>

\* The counters of the step are reset when the next one first asks for them.
EntityTick ==
    /\ phase = "deliver again" /\ DueTransforms = {}
    /\ ReturnDueMissions
    /\ runsThisTick' = [t \in DOMAIN Transforms |-> 0]
    /\ step' = step + 1 /\ phase' = "idle"
    /\ UNCHANGED <<turn, reloaded, amount, automationVars, batches, batchSequences,
                   cooldownExpiresStep, pendingTransforms, missionGhosts>>

-----------------------------------------------------------------------------
\* Saved, and loaded by a new instance, fast-forwarded to the saved step or not. (Clocks
\* further back than the horizon are not carried along.)
Reload ==
    /\ phase = "idle"
    /\ \E target \in {0, step} :
          LET delta == target - step
          IN  /\ \A n \in DOMAIN automations :
                    /\ automations[n].cooldownExpiresStep + delta >= -Horizon
                    /\ automations[n].lastFiredStep \notin (-Horizon)..(-Horizon - delta - 1)
              /\ step' = target
              /\ RestoreAutomations(delta)
              /\ RestoreTransforms(delta)
              /\ RestoreEntities(delta)
    /\ reloaded' = TRUE
    /\ UNCHANGED <<phase, turn, amount>>

Init ==
    /\ step = 0 /\ phase = "idle" /\ turn = 1 /\ amount = 0 /\ reloaded = FALSE
    /\ EntityInit /\ AutomationInit /\ TransformInit

Commands ==
    \/ CollectResource
    \/ RunTransform
    \/ MakeMissionDecision
    \/ Toggle
    \/ CommandEntities

Systems ==
    \/ RunQueued
    \/ AutomationTurn
    \/ Deliver
    \/ TransformTurn
    \/ EntityTick

Next == Commands \/ Systems \/ Reload

Spec == Init /\ [][Next]_vars

-----------------------------------------------------------------------------
BetweenTicks == phase \in {"idle", "commands"}

Outstanding == UNION {ToSet(batches[t]) : t \in DOMAIN Transforms}

Holders(i) ==
    {place \in (DOMAIN Transforms) \X (1..MaxOutstandingBatches) :
        /\ place[2] \in DOMAIN batches[place[1]]
        /\ i \in batches[place[1]][place[2]].crew}

(* "deployed instances are unavailable until they return": between ticks an *)
(* instance is away exactly while one outstanding batch has it in its crew, *)
(* and it is that batch its assignment names, through starts, stages,       *)
(* decisions, failures and loaded saves, unless an entity command took it   *)
(* out of that order; and the count of the available ones is theirs.        *)
CrewsHeld ==
    /\ availableCount = Cardinality(AvailableInstances)
    /\ BetweenTicks => \A i \in Instances \ byHand :
          IF i \in Away
          THEN \E t \in DOMAIN Transforms : \E n \in DOMAIN batches[t] :
                  /\ Holders(i) = {<<t, n>>}
                  /\ instances[i].mission = Transforms[t].id
                  /\ instances[i].batch = batches[t][n].batchId
          ELSE Holders(i) = {}

(* A mission that has taken its inputs is outstanding in one batch or has   *)
(* been completed, once, whichever of the player's decision, its timeout,   *)
(* a failed stage and a loaded save came first, and however often it was    *)
(* rescheduled while the queue was being delivered.                         *)
SettledOnce ==
    \A m \in 1..MaxStarted :
        settled[m] + Cardinality({e \in Outstanding : e.mission = m})
            = IF m <= started THEN 1 ELSE 0

(* Nothing is late: after a tick every batch that was due has been          *)
(* delivered, those the tick itself or a command of its step made due       *)
(* included, and a loaded save makes none overdue.                          *)
DueIsDelivered ==
    BetweenTicks => \A e \in Outstanding : e.completeAtStep >= step

(* An automation fires at most once per cooldown, and one with a threshold  *)
(* only if the threshold was seen unsatisfied since it last fired, whatever *)
(* was toggled, unaffordable or loaded from a save in between.              *)
FiresAreEarned ==
    [][\A n \in DOMAIN automations :
          AutomationTurn /\ Fires(n) /\ turn = n =>
             \/ automations[n].lastFiredStep = NEVER_FIRED
             \/ /\ step - automations[n].lastFiredStep > Automations[n].cooldown
                /\ Automations[n].trigger = "resourceThreshold" => n \in dipped]_vars

(* A mission paused "until a MAKE_MISSION_DECISION command is received" can *)
(* be given one: its batch id finds it, not another batch.                  *)
PausedCanBeAnswered ==
    \A t \in DOMAIN Transforms : \A n \in DOMAIN batches[t] :
        batches[t][n].pendingDecision => Addressed(t, batches[t][n].batchId) = n

(* The same in a game that was never loaded from a save.                    *)
PausedAnsweredUnlessReloaded == reloaded \/ PausedCanBeAnswered
=============================================================================
