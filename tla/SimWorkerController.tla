------------------------- MODULE SimWorkerController -------------------------
(***************************************************************************)
(* The desktop shell's two processes: the controller in the main process   *)
(* (createSimWorkerController, packages/shell-desktop/src/main.ts) and the *)
(* worker that owns the simulation (sim-worker.ts, sim/sim-runtime.ts),    *)
(* with a first-in-first-out channel each way. Tools step, pause, save and *)
(* load while a timer ticks; the worker may fail at any moment. An action  *)
(* is one task of an event loop with the microtasks it leads to.           *)
(***************************************************************************)
EXTENDS Integers, Sequences, FiniteSets, SequencesExt

CONSTANTS
    StepMs,             \* stepSizeMs
    MaxStepsPerFrame,   \* of the worker's runtime and of a step batch
    Deltas,             \* clamped milliseconds between two timer ticks
    StepCounts,         \* how many steps tools ask for
    Extra,              \* whole steps a tick adds for credited offline time
    Ahead,              \* by how many steps callers of enqueueCommands look ahead
    MaxInFlight,        \* bound: messages under way
    MaxStep             \* bound: worker steps at which ticks are still posted

ASSUME ControllerAssumption ==
    /\ StepMs \in Nat \ {0}
    /\ MaxStepsPerFrame \in Nat \ {0}
    /\ Deltas \subseteq Nat
    /\ \A d \in Deltas : d < MaxStepsPerFrame * StepMs
    /\ StepCounts \subseteq Nat \ {0}
    /\ Extra \subseteq Nat /\ 0 \in Extra
    /\ Ahead \subseteq Nat
    /\ MaxInFlight \in Nat /\ MaxStep \in Nat

VARIABLES
    isReady, isPaused, hasFailed, isDisposing,
    nextStep,               \* the main process's idea of the worker's step
    tickTimer,              \* whether the tick timer runs
    waiters,                \* targetStep of every stepCompletionWaiter
    pendingRequests,        \* kinds of the requests the worker has not answered
    freezes,                \* wasPaused of every runWhileCommandIngressFrozen
                            \* under way; its length is commandIngressFreezeDepth
    tool,                   \* what the save or load under way is waiting for
    writing,                \* the state a save is writing
    file,                   \* the save file
    inbox, outbox,          \* messages to the worker and from it
    alive,                  \* the worker runs and what it does is still observed
    step, bankMs,           \* its runtime's next step and banked host time
    asked                   \* ghost: the last tool to say so wanted it paused

statusVars == <<isReady, isPaused, hasFailed, isDisposing, nextStep, tickTimer>>
toolVars == <<freezes, tool, writing, file, asked>>
mainVars == <<statusVars, waiters, pendingRequests, toolVars>>
workerVars == <<alive, step, bankMs>>
vars == <<mainVars, workerVars, inbox, outbox>>

NoSave == [empty |-> TRUE]

Running == ~hasFailed /\ ~isDisposing
IsFrozen == freezes # <<>>
InFlight == Len(inbox) + Len(outbox)

-----------------------------------------------------------------------------
(* Pieces of the controller.                                                *)

Post(messages) == inbox' = inbox \o messages

StopTickLoop == tickTimer' = FALSE

\* startTickLoop, called when neither paused nor frozen.
StartTickLoop == tickTimer' = (Running /\ isReady')

RejectWaiters == waiters' = <<>>

\* The loop of resolvePendingStepCompletions: the targets among pending that
\* the worker has not reached.
Unresolved(pending, reached) ==
    LET kept[i \in 0..Len(pending)] ==
          IF i = 0 THEN <<>>
          ELSE IF pending[i] <= reached THEN kept[i - 1]
               ELSE Append(kept[i - 1], pending[i])
    IN  kept[Len(pending)]

\* It returns early when nobody waits.
ResolveWaiters ==
    IF waiters = <<>> THEN UNCHANGED waiters ELSE waiters' = Unresolved(waiters, nextStep')

\* Wrong on purpose (mutant): what is remembered is what the freeze has set.
RememberFrozen == freezes' = Append(freezes, TRUE)

Remember == freezes' = Append(freezes, isPaused)

\* runWhileCommandIngressFrozen up to its operation.
Freeze ==
    /\ Remember
    /\ isPaused' = TRUE
    /\ StopTickLoop

\* The finally of every freeze under way, the innermost first.
Thaw ==
    /\ freezes' = <<>>
    /\ isPaused' = Head(freezes)
    /\ IF Head(freezes) THEN UNCHANGED tickTimer ELSE StartTickLoop

\* A failure or a disposal rejects the request, and with it ends the freeze.
EndRequest ==
    IF pendingRequests = {}
    THEN UNCHANGED <<freezes, tool>>
    ELSE freezes' = <<>> /\ tool' = "none"

WaitersOnFailure == RejectWaiters

\* handleWorkerFailure. What a terminated worker still does nobody observes.
Fail ==
    /\ hasFailed' = TRUE
    /\ StopTickLoop
    /\ WaitersOnFailure
    /\ EndRequest
    /\ pendingRequests' = {}
    /\ isPaused' = IF pendingRequests = {} THEN isPaused ELSE Head(freezes)
    /\ alive' = FALSE
    /\ UNCHANGED <<isReady, isDisposing, nextStep, writing, file, asked, step, bankMs>>

-----------------------------------------------------------------------------
(* Calls into the controller.                                               *)

\* The tick timer.
TimerFires ==
    /\ tickTimer
    /\ InFlight < MaxInFlight /\ step < MaxStep
    /\ \E d \in Deltas : Post(<<[kind |-> "tick", ms |-> d]>>)
    /\ UNCHANGED <<mainVars, workerVars, outbox>>

\* A command for `ahead` steps (ghost) after the step main takes for the next.
Command(ahead) ==
    [kind |-> "enqueueCommands", step |-> nextStep + ahead, ahead |-> ahead]

\* sendControlEvent and sendInputEvent stamp nextStep.
SendEvent ==
    /\ Running /\ isReady /\ ~IsFrozen
    /\ InFlight < MaxInFlight
    /\ Post(<<Command(0)>>)
    /\ UNCHANGED <<mainVars, workerVars, outbox>>

\* enqueueCommands posts its caller's steps: nextStep for the offline catch-up,
\* any step from nextStep on for the sim.enqueue tool.
EnqueueCommands ==
    /\ Running /\ ~IsFrozen
    /\ InFlight < MaxInFlight
    /\ \E ahead \in Ahead : Post(<<Command(ahead)>>)
    /\ UNCHANGED <<mainVars, workerVars, outbox>>

\* A control event that does not map, a message that cannot be cloned.
BridgeFails ==
    /\ Running /\ isReady /\ ~IsFrozen
    /\ Fail
    /\ UNCHANGED <<inbox, outbox>>

Pause ==
    /\ Running /\ ~IsFrozen
    /\ isPaused' = TRUE
    /\ StopTickLoop
    /\ asked' = TRUE
    /\ UNCHANGED <<isReady, hasFailed, isDisposing, nextStep, waiters, pendingRequests,
                   freezes, tool, writing, file, workerVars, inbox, outbox>>

Resume ==
    /\ Running /\ ~IsFrozen
    /\ isPaused' = FALSE
    /\ isReady' = isReady
    /\ StartTickLoop
    /\ asked' = FALSE
    /\ UNCHANGED <<hasFailed, isDisposing, nextStep, waiters, pendingRequests,
                   freezes, tool, writing, file, workerVars, inbox, outbox>>

BatchCount(n) == (n + MaxStepsPerFrame - 1) \div MaxStepsPerFrame

\* Wrong on purpose (mutant): the last batch is dropped when it is not full.
FullBatches(n) ==
    [i \in 1..(n \div MaxStepsPerFrame) |->
        [kind |-> "tick", ms |-> MaxStepsPerFrame * StepMs]]

\* The while loop over remainingSteps.
Batches(n) ==
    [i \in 1..BatchCount(n) |->
        [kind |-> "tick",
         ms |-> StepMs * (IF i * MaxStepsPerFrame <= n THEN MaxStepsPerFrame
                          ELSE n % MaxStepsPerFrame)]]

TargetStep(n) == n + IF waiters = <<>> THEN nextStep ELSE Last(waiters)

StepSimulation ==
    /\ Running /\ isReady /\ ~IsFrozen
    /\ step < MaxStep
    /\ \E n \in StepCounts :
          /\ InFlight + BatchCount(n) <= MaxInFlight
          /\ waiters' = Unresolved(Append(waiters, TargetStep(n)), nextStep)
          /\ Post(Batches(n))
    /\ isPaused' = TRUE
    /\ StopTickLoop
    /\ asked' = TRUE
    /\ UNCHANGED <<isReady, hasFailed, isDisposing, nextStep, pendingRequests,
                   freezes, tool, writing, file, workerVars, outbox>>

Dispose ==
    /\ ~isDisposing
    /\ isDisposing' = TRUE
    /\ StopTickLoop
    /\ RejectWaiters
    /\ EndRequest
    /\ pendingRequests' = {}
    /\ isPaused' = IF pendingRequests = {} THEN TRUE ELSE Head(freezes)
    /\ alive' = FALSE
    /\ UNCHANGED <<isReady, hasFailed, nextStep, writing, file, asked, step, bankMs,
                   inbox, outbox>>

-----------------------------------------------------------------------------
(* Save and load; runSimToolingAction lets one of them run at a time.       *)

Save ==
    /\ tool = "none" /\ Running /\ isReady
    /\ InFlight < MaxInFlight
    /\ Freeze
    /\ pendingRequests' = {"serialize"}
    /\ Post(<<[kind |-> "serialize"]>>)
    /\ tool' = "serializing"
    /\ UNCHANGED <<isReady, hasFailed, isDisposing, nextStep, waiters, writing, file,
                   asked, workerVars, outbox>>

\* writeFileAtomic, after which the tools are free again.
SaveWritten ==
    /\ tool = "writing"
    /\ file' \in {writing, file}
    /\ writing' = NoSave
    /\ tool' = "none"
    /\ UNCHANGED <<statusVars, waiters, pendingRequests, freezes, asked, workerVars,
                   inbox, outbox>>

\* Wrong on purpose (mutant): a load leaves the steps under way waiting.
KeepWaiters == UNCHANGED waiters

InterruptSteps == RejectWaiters

Load ==
    /\ tool = "none" /\ Running /\ isReady
    /\ Freeze
    /\ InterruptSteps
    /\ tool' = "reading"
    /\ UNCHANGED <<isReady, hasFailed, isDisposing, nextStep, pendingRequests, writing,
                   file, asked, workerVars, inbox, outbox>>

\* The file is read; hydrateState freezes once more.
SaveRead ==
    /\ tool = "reading" /\ Running
    /\ file # NoSave
    /\ Freeze
    /\ pendingRequests' = {"hydrate"}
    /\ Post(<<[kind |-> "hydrate", save |-> file]>>)
    /\ tool' = "hydrating"
    /\ UNCHANGED <<isReady, hasFailed, isDisposing, nextStep, waiters, writing, file,
                   asked, workerVars, outbox>>

\* No file, an unreadable one, or a simulation that has ended meanwhile.
ReadFails ==
    /\ tool = "reading"
    /\ isReady' = isReady
    /\ Thaw
    /\ tool' = "none"
    /\ UNCHANGED <<hasFailed, isDisposing, nextStep, waiters, pendingRequests, writing,
                   file, asked, workerVars, inbox, outbox>>

-----------------------------------------------------------------------------
(* The worker; every message is handled to its end.                         *)

Emit(message) == outbox' = Append(outbox, message)

\* The next message to the worker is of this kind, and it takes it.
Takes(kind) ==
    /\ alive
    /\ inbox # <<>> /\ Head(inbox).kind = kind
    /\ inbox' = Tail(inbox)

HandleInit ==
    /\ Takes("init")
    /\ Emit([kind |-> "ready", nextStep |-> step])
    /\ UNCHANGED <<mainVars, workerVars>>

HandleTick ==
    /\ Takes("tick")
    /\ \E extra \in Extra :
          LET budget == bankMs + Head(inbox).ms
              next == step + budget \div StepMs + extra
          IN  /\ step' = next
              /\ bankMs' = budget % StepMs
              /\ Emit([kind |-> "frame", nextStep |-> next])
    /\ UNCHANGED <<mainVars, alive>>

\* An input event whose handler throws; main terminates the worker, and no
\* later message of it is heard.
HandleTickThrows ==
    /\ Takes("tick")
    /\ Emit([kind |-> "error"])
    /\ alive' = FALSE
    /\ UNCHANGED <<mainVars, step, bankMs>>

\* The runtime's queue of the commands it has taken is not modelled here.
HandleCommands ==
    /\ Takes("enqueueCommands")
    /\ UNCHANGED <<mainVars, workerVars, outbox>>

HandleSerialize ==
    /\ Takes("serialize")
    /\ Emit([kind |-> "serialized", state |-> [step |-> step, bankMs |-> bankMs]])
    /\ UNCHANGED <<mainVars, workerVars>>

\* A new runtime takes the place of the old one.
HandleHydrate ==
    /\ Takes("hydrate")
    /\ step' = Head(inbox).save.step
    /\ bankMs' = Head(inbox).save.bankMs
    /\ Emit([kind |-> "hydrated", nextStep |-> step'])
    /\ UNCHANGED <<mainVars, alive>>

\* Serializing or hydrating throws; the runtime stays.
RefuseRequest ==
    /\ Takes("serialize") \/ Takes("hydrate")
    /\ Emit([kind |-> "requestError"])
    /\ UNCHANGED <<mainVars, workerVars>>

WorkerDies ==
    /\ alive
    /\ alive' = FALSE
    /\ Emit([kind |-> "exit"])
    /\ UNCHANGED <<mainVars, step, bankMs, inbox>>

Work ==
    \/ HandleInit \/ HandleTick \/ HandleTickThrows \/ HandleCommands
    \/ HandleSerialize \/ HandleHydrate \/ RefuseRequest

-----------------------------------------------------------------------------
(* The main process hears the worker.                                       *)

Hears(kind) ==
    /\ Running
    /\ outbox # <<>> /\ Head(outbox).kind = kind
    /\ outbox' = Tail(outbox)
    /\ UNCHANGED <<workerVars, inbox>>

OnReady ==
    /\ Hears("ready")
    /\ nextStep' = Head(outbox).nextStep
    /\ isReady' = TRUE
    /\ ResolveWaiters
    /\ IF isPaused THEN UNCHANGED tickTimer ELSE StartTickLoop
    /\ UNCHANGED <<isPaused, hasFailed, isDisposing, pendingRequests, toolVars>>

OnFrame ==
    /\ Hears("frame")
    /\ nextStep' = Head(outbox).nextStep
    /\ ResolveWaiters
    /\ UNCHANGED <<isReady, isPaused, hasFailed, isDisposing, tickTimer,
                   pendingRequests, toolVars>>

\* The answer to a request ends its freeze and the ones around it.
Answered ==
    /\ pendingRequests' = {}
    /\ isReady' = isReady
    /\ Thaw
    /\ UNCHANGED <<hasFailed, isDisposing, asked>>

OnSerialized ==
    /\ Hears("serialized")
    /\ Answered
    /\ writing' = Head(outbox).state
    /\ tool' = "writing"
    /\ UNCHANGED <<nextStep, waiters, file>>

\* Wrong on purpose (mutant): the main process keeps counting from its own step.
AdoptNothing == UNCHANGED nextStep

AdoptStep == nextStep' = Head(outbox).nextStep

OnHydrated ==
    /\ Hears("hydrated")
    /\ RejectWaiters
    /\ AdoptStep
    /\ Answered
    /\ tool' = "none"
    /\ UNCHANGED <<writing, file>>

\* Wrong on purpose (mutant): a refusal of the worker is not handled.
OnRequestErrorDropped ==
    /\ Hears("requestError")
    /\ UNCHANGED mainVars

OnRequestError ==
    /\ Hears("requestError")
    /\ Answered
    /\ tool' = "none"
    /\ UNCHANGED <<nextStep, waiters, writing, file>>

OnFailure ==
    /\ Running
    /\ outbox # <<>> /\ Head(outbox).kind \in {"error", "exit"}
    /\ outbox' = Tail(outbox)
    /\ Fail
    /\ UNCHANGED inbox

Hear == OnReady \/ OnFrame \/ OnSerialized \/ OnHydrated \/ OnRequestError \/ OnFailure

-----------------------------------------------------------------------------
(* The controller posts init as soon as it is built.                        *)
Init ==
    /\ isReady = FALSE /\ isPaused = FALSE /\ hasFailed = FALSE /\ isDisposing = FALSE
    /\ nextStep = 0 /\ tickTimer = FALSE
    /\ waiters = <<>> /\ pendingRequests = {} /\ freezes = <<>>
    /\ tool = "none" /\ writing = NoSave /\ file = NoSave /\ asked = FALSE
    /\ inbox = <<[kind |-> "init"]>> /\ outbox = <<>>
    /\ alive = TRUE /\ step = 0 /\ bankMs = 0

Call ==
    \/ TimerFires \/ SendEvent \/ EnqueueCommands \/ BridgeFails
    \/ Pause \/ Resume \/ StepSimulation \/ Dispose \/ Save \/ Load

Next == Call \/ SaveWritten \/ SaveRead \/ ReadFails \/ Work \/ WorkerDies \/ Hear

\* Both event loops go on, and reads and writes of files end; nobody has to
\* call, and the worker need not die.
Fairness ==
    /\ WF_vars(Work)
    /\ WF_vars(Hear)
    /\ WF_vars(SaveWritten)
    /\ WF_vars(SaveRead \/ ReadFails)

Spec == Init /\ [][Next]_vars /\ Fairness

-----------------------------------------------------------------------------
(* Properties.                                                              *)

\* The milliseconds of the ticks among messages.
TickMs(messages) ==
    LET sum[i \in 0..Len(messages)] ==
          IF i = 0 THEN 0
          ELSE sum[i - 1] + IF messages[i].kind = "tick" THEN messages[i].ms ELSE 0
    IN  sum[Len(messages)]

\* The worker's runtime will be replaced by one of the messages under way.
Replacing ==
    \/ \E i \in DOMAIN inbox : inbox[i].kind = "hydrate"
    \/ \E i \in DOMAIN outbox : outbox[i].kind = "hydrated"

\* However saves, loads, steps, pauses and answers interleave, a simulation
\* whose freezes have ended is paused exactly if the last tool that said
\* anything about it wanted it paused: the nested freezes restore the flag
\* they found, across the asynchronous file read and request between. And its
\* timer runs exactly while it is ready, not paused and not frozen: no freeze
\* leaves it stopped for good, and no tick is posted behind a serialize or
\* hydrate request.
PauseAsAsked ==
    /\ Running /\ ~IsFrozen => isPaused = asked
    /\ tickTimer <=> Running /\ isReady /\ ~isPaused /\ ~IsFrozen

\* From the moment a load begins to read its file until the worker has
\* answered, no step call waits for steps of the runtime it throws away.
NoStepDuringLoad == tool \in {"reading", "hydrating"} => waiters = <<>>

\* Whatever a step call waits for has been sent: the steps the worker has run,
\* its banked time and the ticks under way reach every target, so that a step
\* call completes while the simulation stays paused.
TargetsPaidFor ==
    Running /\ alive /\ ~Replacing =>
        \A i \in DOMAIN waiters :
            waiters[i] <= step + (bankMs + TickMs(inbox)) \div StepMs

\* The worker holds a command stamped ahead of its own step back until then.
\* It holds none back longer than its sender asked for: main stamps from a step
\* the worker has reached by the time it takes the command, also after a load
\* that moves the worker back, with answers and frames of the old runtime on
\* their way. A command that looks no step ahead is thus stamped anew for the
\* worker's next step.
HeldAsAsked ==
    alive => \A i \in DOMAIN inbox :
                inbox[i].kind = "enqueueCommands" => inbox[i].step <= step + inbox[i].ahead

\* The largest step a step call can wait for under the bounds.
MaxTarget == MaxStep + (MaxInFlight + 1) * (MaxStepsPerFrame + 1)

\* Every call settles. A step call: its steps run, or a load, a failure of the
\* worker or a disposal rejects it. A save or load: it ends, whatever becomes
\* of the worker; until then the tools are busy and command ingress may be
\* frozen.
CallsSettle ==
    /\ \A t \in 1..MaxTarget : (t \in Range(waiters)) ~> (t \notin Range(waiters))
    /\ tool # "none" ~> tool = "none"
=============================================================================
