----------------------------- MODULE EntitySystem -----------------------------
(***************************************************************************)
(* Tracked entities (packages/core/src/entity-system.ts): instances that   *)
(* are created, sent on missions, called back, and destroyed. The state    *)
(* every system of a step shares is declared here too: the step, where     *)
(* the step has got to, and the amount of the one resource they spend.     *)
(***************************************************************************)
EXTENDS Integers, FiniteSets, FiniteSetsExt

CONSTANTS
    Instances,      \* ids: each names one instance, once
    StartInstances, \* those an entity's startCount creates
    MaxCount,       \* maxCount of the entity
    Capacity,       \* capacity of the resource
    MaxByHand       \* bound: instances that commands take out of the missions' hands

VARIABLES
    step,           \* currentStep
    phase,          \* where the step is: see GameSystems
    turn,           \* index of the automation or transform to be processed
    amount,         \* amount of the resource
    instances,      \* instanceStates, with the ids unused so far and those destroyed
    availableCount,
    byHand          \* ghost: instances an entity command sent out, recalled or destroyed

stepVars == <<step, phase, turn>>
entityVars == <<instances, availableCount, byHand>>

ASSUME StartAssumption == IsFiniteSet(Instances) /\ StartInstances \subseteq Instances

Unused == [at |-> "unused"]
Destroyed == [at |-> "destroyed"]
Home == [at |-> "home"]
Assignment(mission, batch, returnStep) ==
    [at |-> "away", mission |-> mission, batch |-> batch, returnStep |-> returnStep]

\* A step that does not come; moved by a restore it still does not.
MAX_SAFE_INTEGER == 1000

At(state, where) == {i \in Instances : state[i].at = where}
Away == At(instances, "away")
AvailableInstances == At(instances, "home")
Alive == Away \cup AvailableInstances

\* addAmount keeps to the capacity.
Earned(held, reward) == Min({held + reward, Capacity})

-----------------------------------------------------------------------------
(* The operations                                                           *)

CreateInstance ==
    /\ Cardinality(Alive) < MaxCount
    /\ \E i \in At(instances, "unused") : instances' = [instances EXCEPT ![i] = Home]
    /\ availableCount' = availableCount + 1
    /\ UNCHANGED byHand

ByHand(i) == Cardinality(byHand \cup {i}) <= MaxByHand /\ byHand' = byHand \cup {i}

\* removeEntity destroys one at home, destroyInstance one anywhere.
DestroyInstance ==
    \E i \in Alive :
        /\ instances' = [instances EXCEPT ![i] = Destroyed]
        /\ availableCount' =
             IF i \in Away THEN availableCount ELSE Max({0, availableCount - 1})
        /\ ByHand(i)

assignToMission(crew, assignment) ==
    /\ crew \subseteq AvailableInstances
    /\ instances' = [i \in Instances |-> IF i \in crew THEN assignment ELSE instances[i]]
    /\ availableCount' = Max({0, availableCount - Cardinality(crew)})

\* A crew member destroyed meanwhile is a warning, one at home already is left alone.
returnFromMission(crew) ==
    /\ instances' = [i \in Instances |-> IF i \in crew \cap Away THEN Home ELSE instances[i]]
    /\ availableCount' = availableCount + Cardinality(crew \cap Away)

\* ASSIGN_ENTITY_TO_MISSION and RETURN_ENTITY_FROM_MISSION.
AssignByCommand ==
    \E i \in AvailableInstances :
        /\ assignToMission({i}, Assignment("by command", "none", step + 1))
        /\ ByHand(i)

ReturnByCommand ==
    \E i \in Away : returnFromMission({i}) /\ ByHand(i)

EntityCommand ==
    CreateInstance \/ DestroyInstance \/ AssignByCommand \/ ReturnByCommand

\* processReturningMissions
ReturnDueMissions ==
    /\ returnFromMission({i \in Away : instances[i].returnStep <= step})
    /\ UNCHANGED byHand

-----------------------------------------------------------------------------
(* Save and restore: the return step moves with the step it is loaded at.   *)

RebasedStep(saved, delta) ==
    IF saved = MAX_SAFE_INTEGER THEN saved ELSE Max({0, saved + delta})

RestoreEntities(delta) ==
    /\ instances' = [i \in Instances |->
           IF i \in Away
           THEN [instances[i] EXCEPT !.returnStep = RebasedStep(@, delta)]
           ELSE instances[i]]
    /\ availableCount' = Cardinality(Alive) - Cardinality(Away)
    /\ UNCHANGED byHand

EntityInit ==
    /\ instances = [i \in Instances |-> IF i \in StartInstances THEN Home ELSE Unused]
    /\ availableCount = Cardinality(StartInstances)
    /\ byHand = {}
=============================================================================
