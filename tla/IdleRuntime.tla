----------------------------- MODULE IdleRuntime -----------------------------
(***************************************************************************)
(* IdleEngineRuntime (packages/core/src/internals.browser.ts): the fixed   *)
(* step loop. Host frame time and credited time are banked, whole steps    *)
(* are taken out of the bank in batches under a step budget, and each step *)
(* captures the due commands, executes them, dispatches events and ticks   *)
(* the systems. The code is one JavaScript call; it is broken here where   *)
(* code of the game (handlers, subscribers, systems) runs and may call     *)
(* back into the runtime or throw. Its command queue is QueueOperations'.  *)
(***************************************************************************)
EXTENDS QueueOperations

CONSTANTS
    StepMs,                 \* stepSizeMs
    MaxStepsPerFrame,       \* maxStepsPerFrame
    NSystems,               \* how many systems are registered
    Ahead,                  \* how far past the next executable step callers stamp
    InitialStep,            \* options.initialStep
    Deltas,                 \* milliseconds handed to tick, creditTime, fastForward
    MaxSupplied             \* bound: milliseconds handed over in a behaviour

ASSUME RuntimeAssumption ==
    /\ StepMs \in Nat \ {0}
    /\ MaxStepsPerFrame \in Nat
    /\ NSystems \in Nat
    /\ Ahead \subseteq Nat
    /\ InitialStep \in Nat
    /\ Deltas \subseteq Nat \ {0}

VARIABLES
    hostMs,             \* hostFrameAccumulator
    creditedMs,         \* creditedAccumulator
    currentStep,
    nextExecutableStep,
    pc,                 \* where the call under way is, "idle" between calls
    source,             \* which bank the call under way drains
    budget,             \* remainingStepBudget after the batch under way
    stepsLeft,          \* steps of the batch under way: paid for, not completed
    batch,              \* captured commands not yet executed
    system,             \* how many systems have ticked in this step
    pending,            \* executed commands whose handler returned a promise
    outcomes,           \* commandOutcomes
    failures,           \* commandFailures
    answered,           \* ghost: sequence numbers that ever got an outcome
    supplied,           \* ghost: milliseconds ever handed over
    stepLimit,          \* ghost: the step the call under way may not go past
    lostSteps,          \* ghost: steps paid for and given up by a throwing tick
    jumpSequence        \* ghost: nextSequence at the last fastForward

bankVars == <<hostMs, creditedMs, supplied>>
stepVars == <<currentStep, nextExecutableStep, jumpSequence, lostSteps>>
loopVars == <<pc, source, budget, stepsLeft, batch, system, stepLimit>>
resultVars == <<pending, outcomes, failures, answered>>
vars == <<queueVars, bankVars, stepVars, loopVars, resultVars>>

-----------------------------------------------------------------------------
(* The bank.                                                               *)

Least(a, b) == IF a < b THEN a ELSE b

Available(src) == IF src = "credited" THEN creditedMs ELSE hostMs + creditedMs

\* Wrong on purpose (mutant): the amount is taken from both banks.
ConsumeTwice(src, amount) ==
    /\ hostMs' = IF src = "credited" THEN hostMs ELSE hostMs - Least(hostMs, amount)
    /\ creditedMs' = creditedMs - Least(creditedMs, amount)

\* Wrong on purpose (mutant): host time pays for everything.
ConsumeHostOnly(src, amount) ==
    /\ hostMs' = hostMs - amount
    /\ UNCHANGED creditedMs

\* Host time goes first; a credited drain leaves host time alone.
Consume(src, amount) ==
    LET fromHost == IF src = "credited" THEN 0 ELSE Least(hostMs, amount)
    IN  /\ hostMs' = hostMs - fromHost
        /\ creditedMs' = creditedMs - (amount - fromHost)

\* creditTime, from outside or from a handler (offline catch-up).
CreditTime(ms) ==
    /\ supplied + ms <= MaxSupplied
    /\ supplied' = supplied + ms
    /\ creditedMs' = creditedMs + ms
    /\ UNCHANGED hostMs

-----------------------------------------------------------------------------
(* Entry points, between ticks.                                            *)

Idle == pc = "idle"

Call(src, steps) ==
    /\ pc' = "drain"
    /\ source' = src
    /\ budget' = steps
    /\ stepLimit' = currentStep + steps
    /\ UNCHANGED <<stepsLeft, batch, system>>

Tick ==
    /\ Idle
    /\ \E ms \in Deltas :
          /\ supplied + ms <= MaxSupplied
          /\ supplied' = supplied + ms
          /\ hostMs' = hostMs + ms
    /\ Call("any", MaxStepsPerFrame)
    /\ UNCHANGED <<queueVars, creditedMs, stepVars, resultVars>>

DrainCreditedBacklog ==
    /\ Idle
    /\ \E maxSteps \in 1..MaxStepsPerFrame : Call("credited", maxSteps)
    /\ UNCHANGED <<queueVars, bankVars, stepVars, resultVars>>

CreditFromOutside ==
    /\ Idle
    /\ \E ms \in Deltas : CreditTime(ms)
    /\ UNCHANGED <<queueVars, stepVars, loopVars, resultVars>>

\* fastForward(ms) jumps every whole step of the banks, not only of the added time.
JumpSteps(ms) == (hostMs + ms + creditedMs) \div StepMs

JumpBy(ms) ==
    LET steps == JumpSteps(ms)
        fromHost == Least(hostMs + ms, steps * StepMs)
    IN  /\ supplied + ms <= MaxSupplied
        /\ supplied' = supplied + ms
        /\ hostMs' = hostMs + ms - fromHost
        /\ creditedMs' = creditedMs - (steps * StepMs - fromHost)
        /\ currentStep' = currentStep + steps
        /\ nextExecutableStep' =
              IF steps > 0 THEN currentStep + steps ELSE nextExecutableStep
        /\ jumpSequence' = IF steps > 0 THEN nextSequence ELSE jumpSequence

FastForward ==
    /\ Idle
    /\ \E ms \in Deltas : JumpBy(ms)
    /\ UNCHANGED <<queueVars, lostSteps, loopVars, resultVars>>

-----------------------------------------------------------------------------
(* Commands stamped by code that asks the runtime for the step: the game    *)
(* facade, the command transport, handlers and systems.                     *)

EnqueueAt(step) ==
    /\ nextSequence < MaxSequence
    /\ \E t \in Types, x \in Payloads, p \in Priority, ts \in Timestamps :
          /\ \A e \in entries \cup batch : e.payload # x
          /\ Enqueue([type |-> t, payload |-> x, priority |-> p,
                        timestamp |-> ts, step |-> step])

\* Between ticks and, called from handlers, subscribers or systems, inside one.
EnqueueStamped ==
    /\ pc \in {"idle", "commands", "systems"}
    /\ \E ahead \in Ahead : EnqueueAt(nextExecutableStep + ahead)
    /\ UNCHANGED <<bankVars, stepVars, loopVars, resultVars>>

\* A handler credits time while its step runs: the call goes on to drain it.
HandlerCreditsTime ==
    /\ pc = "commands"
    /\ \E ms \in Deltas : CreditTime(ms)
    /\ UNCHANGED <<queueVars, stepVars, loopVars, resultVars>>

-----------------------------------------------------------------------------
(* drainAccumulator and runTickBatch                                        *)

AffordableSteps == Least(Available(source) \div StepMs, budget)

\* Wrong on purpose (mutant): the steps of a batch are not charged.
UnchargedBudget == budget

ChargedBudget == budget - AffordableSteps

BeginBatch ==
    /\ pc = "drain"
    /\ AffordableSteps > 0
    /\ Consume(source, AffordableSteps * StepMs)
    /\ budget' = ChargedBudget
    /\ stepsLeft' = AffordableSteps
    /\ pc' = "capture"
    /\ UNCHANGED <<queueVars, supplied, stepVars, source, batch, system, stepLimit,
                   resultVars>>

\* Wrong on purpose (mutant): the loop only breaks on a negative count.
NothingAffordableStrict == AffordableSteps < 0

NothingAffordable == AffordableSteps <= 0

Return ==
    /\ pc = "drain"
    /\ NothingAffordable
    /\ pc' = "idle"
    /\ UNCHANGED <<queueVars, bankVars, stepVars, source, budget, stepsLeft,
                   batch, system, stepLimit, resultVars>>

-----------------------------------------------------------------------------
(* runTickStep                                                              *)

\* Wrong on purpose (mutant): commands run in a step are stamped for that step.
NextStepWhileRunningStale == currentStep

NextStepWhileRunning == currentStep + 1

\* Wrong on purpose (mutant): the due commands are read but stay queued.
TakeDueByReading == UNCHANGED queueVars

TakeDue == DequeueUpToStep(currentStep)

CaptureCommands ==
    /\ pc = "capture"
    /\ batch' = Drained(currentStep)
    /\ TakeDue
    /\ nextExecutableStep' = NextStepWhileRunning
    /\ system' = 0
    /\ pc' = "commands"
    /\ UNCHANGED <<bankVars, currentStep, jumpSequence, lostSteps, source,
                   budget, stepsLeft, stepLimit, resultVars>>

Record(e, success) ==
    /\ outcomes' = outcomes \cup {[sequence |-> e.sequence, step |-> e.step,
                                   success |-> success]}
    /\ failures' = IF success THEN failures ELSE failures \cup {e.sequence}
    /\ answered' = answered \cup {e.sequence}

IsNext(e) == e \in batch /\ \A f \in batch \ {e} : Precedes(e, f)

\* A captured command of an earlier step (CommandStepMismatch) is dropped.
SkipCommand ==
    /\ pc = "commands"
    /\ \E e \in batch :
          /\ IsNext(e)
          /\ e.step # currentStep
          /\ batch' = batch \ {e}
    /\ UNCHANGED <<queueVars, bankVars, stepVars, pc, source, budget, stepsLeft,
                   system, stepLimit, resultVars>>

\* A handler returns, throws or fails: every way but a promise is recorded.
ExecuteCommand ==
    /\ pc = "commands"
    /\ \E e \in batch, success \in BOOLEAN :
          /\ IsNext(e)
          /\ e.step = currentStep
          /\ batch' = batch \ {e}
          /\ Record(e, success)
    /\ UNCHANGED <<queueVars, bankVars, stepVars, pc, source, budget, stepsLeft,
                   system, stepLimit, pending>>

ExecuteAsyncCommand ==
    /\ pc = "commands"
    /\ \E e \in batch :
          /\ IsNext(e)
          /\ e.step = currentStep
          /\ batch' = batch \ {e}
          /\ pending' = pending \cup {e}
    /\ UNCHANGED <<queueVars, bankVars, stepVars, pc, source, budget, stepsLeft,
                   system, stepLimit, outcomes, failures, answered>>

DispatchAfterCommands ==
    /\ pc = "commands"
    /\ batch = {}
    /\ pc' = "systems"
    /\ UNCHANGED <<queueVars, bankVars, stepVars, source, budget, stepsLeft,
                   batch, system, stepLimit, resultVars>>

\* A system ticks (what it throws is caught) and its events are dispatched.
TickSystem ==
    /\ pc = "systems"
    /\ system < NSystems
    /\ system' = system + 1
    /\ UNCHANGED <<queueVars, bankVars, stepVars, pc, source, budget, stepsLeft,
                   batch, stepLimit, resultVars>>

\* An event subscriber throws: the step is given up with the rest of the call,
\* and neither the step counter nor the time already taken is put back.
DispatchThrows ==
    /\ \/ pc = "commands" /\ batch = {}
       \/ pc = "systems" /\ system > 0
    /\ pc' = "idle"
    /\ lostSteps' = lostSteps + stepsLeft
    /\ stepsLeft' = 0
    /\ UNCHANGED <<queueVars, bankVars, currentStep, nextExecutableStep,
                   jumpSequence, source, budget, batch, system, stepLimit,
                   resultVars>>

CompleteStep ==
    /\ pc = "systems"
    /\ system = NSystems
    /\ currentStep' = currentStep + 1
    /\ nextExecutableStep' = currentStep + 1
    /\ stepsLeft' = stepsLeft - 1
    /\ pc' = IF stepsLeft > 1 THEN "capture" ELSE "drain"
    /\ UNCHANGED <<queueVars, bankVars, jumpSequence, lostSteps, source, budget,
                   batch, system, stepLimit, resultVars>>

-----------------------------------------------------------------------------
(* Results: promises settle between calls, callers drain the two lists.     *)

PromiseSettles ==
    /\ Idle
    /\ \E e \in pending, success \in BOOLEAN :
          /\ Record(e, success)
          /\ pending' = pending \ {e}
    /\ UNCHANGED <<queueVars, bankVars, stepVars, loopVars>>

DrainOutcomes ==
    /\ Idle
    /\ outcomes' = {}
    /\ UNCHANGED <<queueVars, bankVars, stepVars, loopVars, pending, failures, answered>>

DrainFailures ==
    /\ Idle
    /\ failures' = {}
    /\ UNCHANGED <<queueVars, bankVars, stepVars, loopVars, pending, outcomes, answered>>

-----------------------------------------------------------------------------
Init ==
    /\ QueueInit
    /\ hostMs = 0 /\ creditedMs = 0 /\ supplied = 0
    /\ currentStep = InitialStep /\ nextExecutableStep = InitialStep
    /\ jumpSequence = 0 /\ lostSteps = 0
    /\ pc = "idle" /\ source = "any"
    /\ stepLimit = InitialStep /\ budget = 0 /\ stepsLeft = 0 /\ batch = {} /\ system = 0
    /\ pending = {} /\ outcomes = {} /\ failures = {} /\ answered = {}

\* What the call under way does by itself.
Run ==
    \/ BeginBatch
    \/ Return
    \/ CaptureCommands
    \/ SkipCommand
    \/ ExecuteCommand
    \/ ExecuteAsyncCommand
    \/ DispatchAfterCommands
    \/ TickSystem
    \/ DispatchThrows
    \/ CompleteStep

Next ==
    \/ Run
    \/ Tick
    \/ DrainCreditedBacklog
    \/ CreditFromOutside
    \/ FastForward
    \/ EnqueueStamped
    \/ HandlerCreditsTime
    \/ PromiseSettles
    \/ DrainOutcomes
    \/ DrainFailures

\* A JavaScript call runs to its end, provided handlers and systems return.
Spec == Init /\ [][Next]_vars /\ WF_vars(Run)

-----------------------------------------------------------------------------
(* Every variable has its type: IdleEngineRuntime's fields.                 *)
TypeInv ==
    /\ QueueTypes
    /\ hostMs \in Nat /\ creditedMs \in Nat /\ supplied \in Nat
    /\ currentStep \in Nat /\ nextExecutableStep \in Nat
    /\ stepLimit \in Nat /\ jumpSequence \in Nat /\ lostSteps \in Nat
    /\ pc \in {"idle", "drain", "capture", "commands", "systems"}
    /\ source \in {"any", "credited"}
    /\ budget \in Nat /\ stepsLeft \in Nat /\ system \in 0..NSystems
    /\ batch \in SUBSET Entry /\ pending \in SUBSET Entry
    /\ outcomes \in SUBSET [sequence: Nat, step: Nat, success: BOOLEAN]
    /\ failures \in SUBSET Nat /\ answered \in SUBSET Nat

\* The steps time was taken out of the banks for.
StepsPaidFor == (currentStep - InitialStep) + stepsLeft + lostSteps

(* Every millisecond handed to tick, creditTime and fastForward is in one   *)
(* of the two banks, was turned into a step (run or jumped over), is paid   *)
(* for a step of the batch under way, or went into the steps a throwing     *)
(* subscriber made the runtime give up: drainAccumulator,                   *)
(* consumeAccumulatorBacklog and fastForward neither create nor lose time.  *)
TimeConserved == supplied = hostMs + creditedMs + StepMs * StepsPaidFor

(* A queued command is never left behind by the step counter: unless a      *)
(* fastForward jumped over it, its step is still to run, whether it was     *)
(* stamped between ticks, inside one, or after a tick threw, so the step    *)
(* its sender was told (getNextExecutableStep) is the step it runs in.      *)
NoStaleCommand ==
    \A e \in entries : e.sequence >= jumpSequence => e.step >= currentStep

(* A command is in one place: queued, captured, awaiting its promise or     *)
(* answered. In particular a step that is run again after a tick threw      *)
(* (executeCommandsForCurrentStep, recordResolvedCommandResult) never       *)
(* executes or answers a command a second time.                             *)
InOnePlace ==
    LET queued == {e.sequence : e \in entries}
        captured == {e.sequence : e \in batch}
        awaited == {e.sequence : e \in pending}
    IN  /\ queued \cap captured = {}
        /\ (queued \cup captured) \cap awaited = {}
        /\ (queued \cup captured \cup awaited) \cap answered = {}
        /\ {o.sequence : o \in outcomes} \subseteq answered

(* A call never runs more steps than its budget, although handlers may      *)
(* credit time while it runs and batches are taken again and again; and if  *)
(* it returns without a throw, it has run that many or has left less than a *)
(* whole step in the bank it drains (drainAccumulator's loop).              *)
CallRunsItsBudget ==
    [][(pc # "idle" /\ pc' = "idle") =>
          /\ currentStep' <= stepLimit
          /\ pc = "drain" => currentStep = stepLimit \/ Available(source) < StepMs]_vars

(* A call into the runtime comes to its end (tick, drainCreditedBacklog),   *)
(* whatever its handlers credit or enqueue meanwhile.                       *)
CallsReturn == pc # "idle" ~> pc = "idle"
=============================================================================
