--------------------------- MODULE AutomationSystem ---------------------------
(***************************************************************************)
(* Automations (packages/core/src/automation-system.ts): each is evaluated *)
(* once a step, in authored order; one whose trigger holds pays its cost,  *)
(* publishes automation:fired, queues a command for the next step and      *)
(* starts its cooldown. Steps, not milliseconds; one resource; all of them *)
(* are unlocked.                                                           *)
(***************************************************************************)
EXTENDS EntitySystem, Sequences

CONSTANTS
    Automations,    \* definitions in order: [id, trigger, comparator (for
                    \* thresholds), bound, cost, cooldown]
    QueueCapacity,  \* commands the queue takes for the next step
    Toggled         \* bound: those the player turns on and off

VARIABLES
    automations,            \* automationStates, [index -> record]
    pendingAutomations,     \* pendingEventTriggers
    queued,                 \* commands in the queue for the next step
    dipped                  \* ghost: thresholds seen unsatisfied since they last fired

automationVars == <<automations, pendingAutomations, queued, dipped>>

\* (A game without automations leaves their turn out.)
ASSUME AutomationsAssumption ==
    /\ Len(Automations) \in Nat \ {0} /\ DOMAIN Automations = 1..Len(Automations)
    /\ \A n \in DOMAIN Automations :
          /\ Automations[n].trigger \in
               {"interval", "resourceThreshold", "commandQueueEmpty", "event"}
          /\ Automations[n].trigger = "resourceThreshold" =>
               Automations[n].comparator \in {"gte", "gt", "lte", "lt"}
          /\ Automations[n].cooldown \in Nat

\* -Infinity: any interval has gone by since.
NEVER_FIRED == -MAX_SAFE_INTEGER

EventAutomations ==
    {n \in DOMAIN Automations : Automations[n].trigger = "event"}

isCooldownActive(n) == step < automations[n].cooldownExpiresStep

-----------------------------------------------------------------------------
(* Triggers                                                                 *)

ThresholdSatisfied(n) ==
    CASE Automations[n].comparator = "gte" -> amount >= Automations[n].bound
      [] Automations[n].comparator = "gt"  -> amount > Automations[n].bound
      [] Automations[n].comparator = "lte" -> amount <= Automations[n].bound
      [] Automations[n].comparator = "lt"  -> amount < Automations[n].bound

ThresholdCrossing(n) ==
    ThresholdSatisfied(n) /\ ~automations[n].lastThresholdSatisfied

IntervalElapsed(n) == step - automations[n].lastFiredStep >= Automations[n].bound

Triggered(n) ==
    CASE Automations[n].trigger = "interval" -> IntervalElapsed(n)
      [] Automations[n].trigger = "resourceThreshold" -> ThresholdCrossing(n)
      [] Automations[n].trigger = "commandQueueEmpty" -> queued = 0
      [] Automations[n].trigger = "event" -> n \in pendingAutomations

\* What the state remembers of a threshold that did not fire.
Remembered(n, satisfied) ==
    IF Automations[n].trigger = "resourceThreshold"
    THEN [automations EXCEPT ![n].lastThresholdSatisfied = satisfied]
    ELSE automations

-----------------------------------------------------------------------------
(* processAutomationTick, one automation at its turn                        *)

\* Wrong on purpose (mutant): firing forgets that the threshold is satisfied.
FireForgetting(n) ==
    /\ amount >= Automations[n].cost
    /\ amount' = amount - Automations[n].cost
    /\ queued' = Min({queued + 1, QueueCapacity})
    /\ automations' = [automations EXCEPT
           ![n].lastFiredStep = step,
           ![n].cooldownExpiresStep =
               IF Automations[n].cooldown = 0 THEN 0 ELSE step + Automations[n].cooldown + 1,
           ![n].lastThresholdSatisfied = FALSE]
    /\ dipped' = dipped \ {n}

\* The queue may refuse the command; the automation has paid all the same.
Fire(n) ==
    /\ amount >= Automations[n].cost
    /\ amount' = amount - Automations[n].cost
    /\ queued' = Min({queued + 1, QueueCapacity})
    /\ automations' = [Remembered(n, TRUE) EXCEPT
           ![n].lastFiredStep = step,
           ![n].cooldownExpiresStep =
               IF Automations[n].cooldown = 0 THEN 0 ELSE step + Automations[n].cooldown + 1]
    /\ dipped' = dipped \ {n}

Dips(n) ==
    IF Automations[n].trigger = "resourceThreshold" /\ ~ThresholdSatisfied(n)
    THEN dipped \cup {n} ELSE dipped

HoldsFire(n) ==
    /\ dipped' = Dips(n)
    /\ UNCHANGED <<amount, queued>>

\* Locked or disabled: not looked at.
Disabled(n) == ~automations[n].enabled /\ HoldsFire(n) /\ UNCHANGED automations

\* During a cooldown the threshold can only be seen to fall.
CoolsDown(n) ==
    /\ automations[n].enabled /\ isCooldownActive(n)
    /\ HoldsFire(n)
    /\ automations' = IF ThresholdSatisfied(n) THEN automations ELSE Remembered(n, FALSE)

Waits(n) ==
    /\ automations[n].enabled /\ ~isCooldownActive(n) /\ ~Triggered(n)
    /\ HoldsFire(n)
    /\ automations' = Remembered(n, ThresholdSatisfied(n))

CannotPay(n) ==
    /\ automations[n].enabled /\ ~isCooldownActive(n) /\ Triggered(n)
    /\ amount < Automations[n].cost
    /\ HoldsFire(n)
    /\ automations' = Remembered(n, FALSE)

Fires(n) ==
    automations[n].enabled /\ ~isCooldownActive(n) /\ Triggered(n) /\ Fire(n)

-----------------------------------------------------------------------------
\* TOGGLE_AUTOMATION, with the automation:toggled event it publishes.
ToggleAutomation ==
    /\ \E n \in Toggled, enabled \in BOOLEAN :
          automations' = [automations EXCEPT ![n].enabled = enabled]
    /\ UNCHANGED <<pendingAutomations, queued, dipped>>

(* Save and restore: the pending events are not saved.                      *)

RestoreAutomations(delta) ==
    /\ automations' = [n \in DOMAIN Automations |->
           [automations[n] EXCEPT
               !.lastFiredStep = IF @ = NEVER_FIRED THEN @ ELSE @ + delta,
               !.cooldownExpiresStep = @ + delta]]
    /\ pendingAutomations' = {}
    /\ UNCHANGED <<queued, dipped>>

AutomationInit ==
    /\ automations = [n \in DOMAIN Automations |->
           [enabled |-> TRUE, lastFiredStep |-> NEVER_FIRED,
            cooldownExpiresStep |-> 0, lastThresholdSatisfied |-> FALSE]]
    /\ pendingAutomations = {}
    /\ queued = 0
    /\ dipped = {}
=============================================================================
