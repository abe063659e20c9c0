---------------------- MODULE SimWorkerController_proofs ----------------------
(***************************************************************************)
(* For every step size, batch size and number of messages under way: the   *)
(* controller's pause flag and tick timer survive every interleaving of    *)
(* saves, loads, tools, answers and failures; no step call waits for a     *)
(* runtime that a load throws away; and no command is held back longer     *)
(* than its sender asked for.                                              *)
(***************************************************************************)
EXTENDS SimWorkerController, SequenceTheorems, WellFoundedInduction, TLAPS

SaveState == [step: Nat, bankMs: Nat]

ToWorker ==
    [kind: {"init", "serialize"}] \cup [kind: {"tick"}, ms: Nat]
    \cup [kind: {"enqueueCommands"}, step: Nat, ahead: Nat] \cup [kind: {"hydrate"}, save: SaveState]

FromWorker ==
    [kind: {"error", "exit", "requestError"}]
    \cup [kind: {"ready", "frame", "hydrated"}, nextStep: Nat]
    \cup [kind: {"serialized"}, state: SaveState]

Tools == {"none", "serializing", "writing", "reading", "hydrating"}

Types ==
    /\ isReady \in BOOLEAN /\ isPaused \in BOOLEAN
    /\ hasFailed \in BOOLEAN /\ isDisposing \in BOOLEAN
    /\ tickTimer \in BOOLEAN /\ asked \in BOOLEAN /\ alive \in BOOLEAN
    /\ nextStep \in Nat /\ step \in Nat /\ bankMs \in Nat
    /\ freezes \in Seq(BOOLEAN) /\ tool \in Tools
    /\ writing = NoSave \/ writing \in SaveState
    /\ file = NoSave \/ file \in SaveState
    /\ inbox \in Seq(ToWorker) /\ outbox \in Seq(FromWorker)

(* What the tool under way has frozen and asked for.                        *)
RequestOf(t) ==
    IF t = "serializing" THEN {"serialize"} ELSE IF t = "hydrating" THEN {"hydrate"} ELSE {}

Shape ==
    /\ freezes = <<>> <=> tool \in {"none", "writing"}
    /\ pendingRequests = RequestOf(tool)
    /\ tool \in {"reading", "hydrating"} => waiters = <<>>
    /\ alive => Running

(* The outermost freeze remembers what the tools asked for.                 *)
Flags ==
    /\ Running => isPaused = IF IsFrozen THEN TRUE ELSE asked
    /\ Running /\ IsFrozen => Head(freezes) = asked
    /\ tickTimer <=> Running /\ isReady /\ ~isPaused /\ ~IsFrozen

IsRequest(m) == m.kind \in {"serialize", "hydrate"}
IsAnswer(m) == m.kind \in {"serialized", "hydrated", "requestError"}

(* A request or its answer is under way only for the tool that waits for it,*)
(* and there is at most one of them.                                        *)
Requests ==
    Running =>
        /\ \A i \in DOMAIN inbox : IsRequest(inbox[i]) => RequestOf(tool) = {inbox[i].kind}
        /\ \A i \in DOMAIN outbox : IsAnswer(outbox[i]) =>
              /\ tool \in {"serializing", "hydrating"}
              /\ outbox[i].kind = "serialized" => tool = "serializing"
              /\ outbox[i].kind = "hydrated" => tool = "hydrating"
        /\ \A i, j \in DOMAIN inbox : IsRequest(inbox[i]) /\ IsRequest(inbox[j]) => i = j
        /\ \A i, j \in DOMAIN outbox : IsAnswer(outbox[i]) /\ IsAnswer(outbox[j]) => i = j
        /\ \A i \in DOMAIN inbox, j \in DOMAIN outbox :
              ~(IsRequest(inbox[i]) /\ IsAnswer(outbox[j]))

(* A load under way will give the main process the worker's new step.       *)
HydratedAfter(n) == \E k \in DOMAIN outbox : k > n /\ outbox[k].kind = "hydrated"

Stamps ==
    alive =>
        /\ \A i \in DOMAIN inbox :
              inbox[i].kind = "enqueueCommands" => inbox[i].step <= step + inbox[i].ahead
        /\ \A i, j \in DOMAIN inbox :
              inbox[i].kind = "hydrate" /\ inbox[j].kind = "enqueueCommands" => j < i
        /\ \A j \in DOMAIN outbox :
              outbox[j].kind \in {"ready", "frame", "hydrated"} =>
                  outbox[j].nextStep <= step \/ HydratedAfter(j)
        /\ nextStep <= step \/ HydratedAfter(0)

IInv == Types /\ Shape /\ Flags /\ Requests /\ Stamps

-----------------------------------------------------------------------------
(* Messages and channels.                                                   *)

LEMMA ToWorkerFacts ==
    ASSUME NEW m \in ToWorker
    PROVE  /\ m.kind = "tick" => m.ms \in Nat
           /\ m.kind = "enqueueCommands" => m.step \in Nat /\ m.ahead \in Nat
           /\ m.kind = "hydrate" => m.save.step \in Nat /\ m.save.bankMs \in Nat
BY DEF ToWorker, SaveState

LEMMA FromWorkerFacts ==
    ASSUME NEW m \in FromWorker
    PROVE  /\ m.kind \in {"ready", "frame", "hydrated"} => m.nextStep \in Nat
           /\ m.kind = "serialized" => m.state \in SaveState
BY DEF FromWorker

(* A message put at the end of the inbox.                                   *)
LEMMA PostOne ==
    ASSUME inbox \in Seq(ToWorker), NEW m \in ToWorker, Post(<<m>>)
    PROVE  /\ inbox' \in Seq(ToWorker)
           /\ Len(inbox') = Len(inbox) + 1
           /\ \A i \in 1..Len(inbox) : inbox'[i] = inbox[i]
           /\ inbox'[Len(inbox) + 1] = m
<1>1. <<m>> \in Seq(ToWorker) /\ Len(<<m>>) = 1 /\ <<m>>[1] = m
  OBVIOUS
<1>2. /\ inbox \o <<m>> \in Seq(ToWorker)
      /\ Len(inbox \o <<m>>) = Len(inbox) + 1
      /\ \A i \in 1..(Len(inbox) + 1) : (inbox \o <<m>>)[i] =
            IF i <= Len(inbox) THEN inbox[i] ELSE <<m>>[i - Len(inbox)]
  BY <1>1, ConcatProperties
<1> QED
  BY <1>1, <1>2 DEF Post

(* The worker takes the first message of the inbox.                         *)
LEMMA TakeOne ==
    ASSUME inbox \in Seq(ToWorker), inbox # <<>>, inbox' = Tail(inbox)
    PROVE  /\ Len(inbox) >= 1 /\ inbox[1] \in ToWorker /\ Head(inbox) = inbox[1]
           /\ inbox' \in Seq(ToWorker)
           /\ Len(inbox') = Len(inbox) - 1
           /\ \A i \in 1..Len(inbox') : inbox'[i] = inbox[i + 1]
BY HeadTailProperties

(* A command, of whatever caller, names a step and how far it looks ahead.  *)
LEMMA CommandFacts ==
    ASSUME nextStep \in Nat, NEW ahead \in Nat
    PROVE  /\ Command(ahead) \in ToWorker
           /\ Command(ahead).kind = "enqueueCommands"
           /\ Command(ahead).step = nextStep + ahead /\ Command(ahead).ahead = ahead
BY DEF Command, ToWorker

LEMMA CommandPosted ==
    ASSUME SendEvent \/ EnqueueCommands
    PROVE  /\ \E ahead \in Nat : Post(<<Command(ahead)>>)
           /\ ~IsFrozen /\ UNCHANGED <<mainVars, workerVars, outbox>>
<1>1. CASE SendEvent
  BY <1>1 DEF SendEvent
<1>2. CASE EnqueueCommands
  BY <1>2, ControllerAssumption DEF EnqueueCommands, ControllerAssumption
<1> QED
  BY <1>1, <1>2

LEMMA WorkTakes ==
    ASSUME Work
    PROVE  alive /\ inbox # <<>> /\ inbox' = Tail(inbox) /\ UNCHANGED mainVars
BY DEF Work, HandleInit, HandleTick, HandleTickThrows, HandleCommands, HandleSerialize,
       HandleHydrate, RefuseRequest, Takes

(* A tick moves the worker by whole steps, and the frame says how far.      *)
LEMMA TickFacts ==
    ASSUME Types, HandleTick
    PROVE  /\ step' \in Nat /\ bankMs' \in Nat /\ step <= step'
           /\ Emit([kind |-> "frame", nextStep |-> step'])
<1> DEFINE budget == bankMs + Head(inbox).ms
<1>1. PICK extra \in Extra :
        /\ step' = step + budget \div StepMs + extra
        /\ bankMs' = budget % StepMs
        /\ Emit([kind |-> "frame", nextStep |-> step + budget \div StepMs + extra])
  BY Zenon DEF HandleTick
<1>2. inbox # <<>> /\ inbox' = Tail(inbox) /\ Head(inbox).kind = "tick"
  BY DEF HandleTick, Takes
<1>3. Head(inbox).ms \in Nat /\ extra \in Nat
  BY <1>2, TakeOne, ToWorkerFacts, ControllerAssumption DEF Types, ControllerAssumption
<1>4. StepMs \in Nat \ {0} /\ budget \in Nat /\ step \in Nat
  BY <1>3, ControllerAssumption DEF Types, ControllerAssumption
<1> HIDE DEF budget
<1>5. budget \div StepMs \in Nat /\ budget % StepMs \in Nat
  BY <1>4
<1> QED
  BY <1>1, <1>3, <1>4, <1>5

(* The worker puts a message at the end of the outbox.                      *)
LEMMA EmitOne ==
    ASSUME outbox \in Seq(FromWorker), NEW m \in FromWorker, Emit(m)
    PROVE  /\ outbox' \in Seq(FromWorker)
           /\ Len(outbox') = Len(outbox) + 1
           /\ \A i \in 1..Len(outbox) : outbox'[i] = outbox[i]
           /\ outbox'[Len(outbox) + 1] = m
BY AppendProperties DEF Emit

(* The main process hears the first message of the outbox.                  *)
LEMMA HearOne ==
    ASSUME outbox \in Seq(FromWorker), outbox # <<>>, outbox' = Tail(outbox)
    PROVE  /\ Len(outbox) >= 1 /\ outbox[1] \in FromWorker /\ Head(outbox) = outbox[1]
           /\ outbox' \in Seq(FromWorker)
           /\ Len(outbox') = Len(outbox) - 1
           /\ \A i \in 1..Len(outbox') : outbox'[i] = outbox[i + 1]
BY HeadTailProperties

(* The batches of a step call are ticks.                                    *)
LEMMA BatchTypes ==
    ASSUME NEW n \in Nat
    PROVE  /\ Batches(n) \in Seq(ToWorker)
           /\ \A i \in 1..Len(Batches(n)) : Batches(n)[i].kind = "tick"
<1>1. StepMs \in Nat /\ MaxStepsPerFrame \in Nat \ {0}
  BY ControllerAssumption DEF ControllerAssumption
<1>2. BatchCount(n) \in Nat
  BY <1>1 DEF BatchCount
<1> DEFINE size(i) == IF i * MaxStepsPerFrame <= n THEN MaxStepsPerFrame ELSE n % MaxStepsPerFrame
           batch(i) == [kind |-> "tick", ms |-> StepMs * size(i)]
<1>3. ASSUME NEW i \in 1..BatchCount(n) PROVE batch(i) \in ToWorker
  <2>1. size(i) \in Nat
    BY <1>1
  <2> HIDE DEF size
  <2>2. StepMs * size(i) \in Nat
    BY <1>1, <2>1
  <2> QED
    BY <2>2 DEF ToWorker
<1>4. Batches(n) = [i \in 1..BatchCount(n) |-> batch(i)]
  BY DEF Batches
<1>5. \A i \in 1..BatchCount(n) : batch(i).kind = "tick"
  OBVIOUS
<1> HIDE DEF batch
<1>6. Batches(n) \in [1..BatchCount(n) -> ToWorker]
  BY <1>3, <1>4
<1>7. Batches(n) \in Seq(ToWorker) /\ Len(Batches(n)) = BatchCount(n)
  BY <1>2, <1>6, SeqDef
<1> QED
  BY <1>4, <1>5, <1>7

-----------------------------------------------------------------------------
(* Types, in three parts: the controller's flags, its tools, the channels.  *)
FlagTypes ==
    /\ isReady \in BOOLEAN /\ isPaused \in BOOLEAN
    /\ hasFailed \in BOOLEAN /\ isDisposing \in BOOLEAN
    /\ tickTimer \in BOOLEAN /\ asked \in BOOLEAN /\ alive \in BOOLEAN

ToolTypes ==
    /\ freezes \in Seq(BOOLEAN) /\ tool \in Tools
    /\ writing = NoSave \/ writing \in SaveState
    /\ file = NoSave \/ file \in SaveState

ChannelTypes ==
    /\ nextStep \in Nat /\ step \in Nat /\ bankMs \in Nat
    /\ inbox \in Seq(ToWorker) /\ outbox \in Seq(FromWorker)

LEMMA TypeParts == Types <=> FlagTypes /\ ToolTypes /\ ChannelTypes
BY DEF Types, FlagTypes, ToolTypes, ChannelTypes

(* The outermost freeze is a flag; another freeze keeps it.                 *)
LEMMA FreezeFacts ==
    ASSUME freezes \in Seq(BOOLEAN), isPaused \in BOOLEAN
    PROVE  /\ freezes # <<>> => Head(freezes) \in BOOLEAN
           /\ Append(freezes, isPaused) \in Seq(BOOLEAN)
           /\ Append(freezes, isPaused) # <<>>
           /\ Head(Append(freezes, isPaused)) = IF freezes = <<>> THEN isPaused ELSE Head(freezes)
BY HeadTailProperties, AppendProperties, HeadTailAppend

(* What the main process hears as an answer is an answer to its request.    *)
LEMMA AnswerHeard ==
    ASSUME Types, Shape, Requests, Running, outbox # <<>>, IsAnswer(Head(outbox))
    PROVE  /\ IsFrozen /\ Head(freezes) \in BOOLEAN
           /\ tool \in {"serializing", "hydrating"}
           /\ Head(outbox).kind = "serialized" => tool = "serializing"
           /\ Head(outbox).kind = "hydrated" => tool = "hydrating"
<1>1. Head(outbox) = outbox[1] /\ 1 \in DOMAIN outbox
  BY HeadTailProperties, LenProperties, EmptySeq DEF Types
<1>2. /\ tool \in {"serializing", "hydrating"}
      /\ outbox[1].kind = "serialized" => tool = "serializing"
      /\ outbox[1].kind = "hydrated" => tool = "hydrating"
  BY <1>1 DEF Requests
<1> QED
  BY <1>1, <1>2, FreezeFacts DEF Shape, IsFrozen, Types

LEMMA FlagTypesStep ==
    ASSUME IInv, [Next]_vars
    PROVE  FlagTypes'
<1>1. FlagTypes /\ Types /\ Shape /\ Requests
  BY TypeParts DEF IInv
<1>2. CASE Pause \/ Resume \/ StepSimulation
  BY <1>1, <1>2 DEF Pause, Resume, StepSimulation, StopTickLoop, StartTickLoop, FlagTypes, Running, workerVars
<1>3. CASE Save \/ Load \/ SaveRead
  BY <1>1, <1>3 DEF Save, Load, SaveRead, Freeze, StopTickLoop, FlagTypes, workerVars
<1>4. CASE BridgeFails \/ Dispose \/ OnFailure
  <2>1. pendingRequests # {} => Head(freezes) \in BOOLEAN
    BY <1>1, FreezeFacts DEF Shape, Types, RequestOf
  <2> QED
    BY <1>1, <1>4, <2>1 DEF BridgeFails, Dispose, OnFailure, Fail, StopTickLoop, FlagTypes
<1>5. CASE ReadFails
  <2>1. Head(freezes) \in BOOLEAN
    BY <1>1, <1>5, FreezeFacts DEF Shape, Types, ReadFails
  <2> QED
    BY <1>1, <1>5, <2>1 DEF ReadFails, Thaw, StartTickLoop, Running, FlagTypes, workerVars
<1>6. CASE OnSerialized \/ OnHydrated \/ OnRequestError
  <2>1. Head(freezes) \in BOOLEAN
    BY <1>1, <1>6, AnswerHeard DEF OnSerialized, OnHydrated, OnRequestError, Hears, IsAnswer
  <2> QED
    BY <1>1, <1>6, <2>1
    DEF OnSerialized, OnHydrated, OnRequestError, Hears, Answered, Thaw, StartTickLoop,
        Running, FlagTypes, workerVars
<1>7. CASE OnReady \/ OnFrame
  BY <1>1, <1>7 DEF OnReady, OnFrame, Hears, StartTickLoop, Running, FlagTypes, workerVars, toolVars
<1>8. CASE Work \/ WorkerDies
  BY <1>1, <1>8
  DEF Work, HandleInit, HandleTick, HandleTickThrows, HandleCommands, HandleSerialize,
      HandleHydrate, RefuseRequest, WorkerDies, FlagTypes, workerVars, mainVars, statusVars, toolVars
<1>9. CASE TimerFires \/ SendEvent \/ EnqueueCommands \/ SaveWritten \/ UNCHANGED vars
  BY <1>1, <1>9, CommandPosted
  DEF TimerFires, SaveWritten, FlagTypes, vars, workerVars, mainVars, statusVars, toolVars
<1> QED
  BY <1>2, <1>3, <1>4, <1>5, <1>6, <1>7, <1>8, <1>9 DEF Next, Call, Hear

LEMMA ToolTypesStep ==
    ASSUME IInv, [Next]_vars
    PROVE  ToolTypes'
<1>1. ToolTypes /\ Types /\ Shape /\ Requests /\ <<>> \in Seq(BOOLEAN)
  BY TypeParts DEF IInv
<1>2. CASE Save \/ Load \/ SaveRead
  BY <1>1, <1>2, FreezeFacts DEF Save, Load, SaveRead, Freeze, Remember, ToolTypes, Types, Tools
<1>3. CASE BridgeFails \/ Dispose \/ OnFailure
  BY <1>1, <1>3 DEF BridgeFails, Dispose, OnFailure, Fail, EndRequest, ToolTypes, Tools
<1>4. CASE ReadFails
  BY <1>1, <1>4 DEF ReadFails, Thaw, ToolTypes, Tools
<1>5. CASE OnSerialized
  <2>1. Head(outbox).state \in SaveState
    BY <1>1, <1>5, HearOne, FromWorkerFacts DEF OnSerialized, Hears, Types
  <2> QED
    BY <1>1, <1>5, <2>1 DEF OnSerialized, Answered, Thaw, ToolTypes, Tools
<1>6. CASE OnHydrated \/ OnRequestError
  BY <1>1, <1>6 DEF OnHydrated, OnRequestError, Answered, Thaw, ToolTypes, Tools
<1>7. CASE SaveWritten
  BY <1>1, <1>7 DEF SaveWritten, ToolTypes, Tools
<1>8. CASE Work \/ WorkerDies
  BY <1>1, <1>8
  DEF Work, HandleInit, HandleTick, HandleTickThrows, HandleCommands, HandleSerialize,
      HandleHydrate, RefuseRequest, WorkerDies, ToolTypes, mainVars, toolVars
<1>9. CASE \/ TimerFires \/ SendEvent \/ EnqueueCommands \/ Pause \/ Resume \/ StepSimulation
           \/ OnReady \/ OnFrame \/ UNCHANGED vars
  BY <1>1, <1>9, CommandPosted
  DEF TimerFires, Pause, Resume, StepSimulation, OnReady, OnFrame, ToolTypes,
      vars, mainVars, toolVars
<1> QED
  BY <1>2, <1>3, <1>4, <1>5, <1>6, <1>7, <1>8, <1>9 DEF Next, Call, Hear

LEMMA ChannelTypesStep ==
    ASSUME IInv, [Next]_vars
    PROVE  ChannelTypes'
<1>1. ChannelTypes /\ Types /\ StepMs \in Nat \ {0} /\ MaxStepsPerFrame \in Nat
  BY TypeParts, ControllerAssumption DEF IInv, ControllerAssumption
<1>2. CASE TimerFires
  <2>1. PICK d \in Deltas : Post(<<[kind |-> "tick", ms |-> d]>>)
    BY <1>2 DEF TimerFires
  <2>2. [kind |-> "tick", ms |-> d] \in ToWorker
    BY ControllerAssumption DEF ControllerAssumption, ToWorker
  <2> QED
    BY <1>1, <1>2, <2>1, <2>2, PostOne
    DEF TimerFires, ChannelTypes, workerVars, mainVars, statusVars
<1>3. CASE SendEvent \/ EnqueueCommands
  <2>1. PICK ahead \in Nat : Post(<<Command(ahead)>>)
    BY <1>3, CommandPosted
  <2>2. Command(ahead) \in ToWorker /\ UNCHANGED <<mainVars, workerVars, outbox>>
    BY <1>1, <1>3, CommandFacts, CommandPosted DEF ChannelTypes
  <2> QED
    BY <1>1, <2>1, <2>2, PostOne DEF ChannelTypes, workerVars, mainVars, statusVars
<1>4. CASE StepSimulation
  <2>1. PICK n \in Nat : Post(Batches(n))
    BY <1>4, ControllerAssumption DEF StepSimulation, ControllerAssumption
  <2>2. inbox' \in Seq(ToWorker)
    BY <1>1, <2>1, BatchTypes, ConcatProperties DEF Post, ChannelTypes
  <2> QED
    BY <1>1, <1>4, <2>2 DEF StepSimulation, ChannelTypes, workerVars
<1>5. CASE Save
  <2>1. [kind |-> "serialize"] \in ToWorker
    BY DEF ToWorker
  <2> QED
    BY <1>1, <1>5, <2>1, PostOne DEF Save, ChannelTypes, workerVars
<1>6. CASE SaveRead
  <2>1. [kind |-> "hydrate", save |-> file] \in ToWorker
    BY <1>1, <1>6 DEF SaveRead, Types, ToWorker
  <2> QED
    BY <1>1, <1>6, <2>1, PostOne DEF SaveRead, ChannelTypes, workerVars
<1>7. CASE Work
  <2>1. inbox # <<>> /\ inbox' = Tail(inbox)
    BY <1>7, WorkTakes
  <2>2. inbox' \in Seq(ToWorker) /\ Head(inbox) \in ToWorker
    BY <1>1, <2>1, TakeOne DEF ChannelTypes
  <2>3. nextStep' = nextStep
    BY <1>7, WorkTakes DEF mainVars, statusVars
  <2>4. CASE HandleInit
    <3>1. [kind |-> "ready", nextStep |-> step] \in FromWorker
      BY <1>1 DEF FromWorker, ChannelTypes
    <3> QED
      BY <1>1, <2>2, <2>3, <2>4, <3>1, EmitOne DEF HandleInit, ChannelTypes, workerVars
  <2>5. CASE HandleTick
    <3>1. step' \in Nat /\ bankMs' \in Nat /\ Emit([kind |-> "frame", nextStep |-> step'])
      BY <1>1, <2>5, TickFacts
    <3>2. [kind |-> "frame", nextStep |-> step'] \in FromWorker
      BY <3>1 DEF FromWorker
    <3> QED
      BY <1>1, <2>2, <2>3, <3>1, <3>2, EmitOne DEF ChannelTypes
  <2>6. CASE HandleTickThrows
    <3>1. [kind |-> "error"] \in FromWorker
      BY DEF FromWorker
    <3> QED
      BY <1>1, <2>2, <2>3, <2>6, <3>1, EmitOne DEF HandleTickThrows, ChannelTypes
  <2>7. CASE HandleCommands
    BY <1>1, <2>2, <2>3, <2>7 DEF HandleCommands, ChannelTypes, workerVars
  <2>8. CASE HandleSerialize
    <3>1. [kind |-> "serialized", state |-> [step |-> step, bankMs |-> bankMs]] \in FromWorker
      BY <1>1 DEF FromWorker, SaveState, ChannelTypes
    <3> QED
      BY <1>1, <2>2, <2>3, <2>8, <3>1, EmitOne DEF HandleSerialize, ChannelTypes, workerVars
  <2>9. CASE HandleHydrate
    <3>1. step' \in Nat /\ bankMs' \in Nat
      BY <2>2, <2>9, ToWorkerFacts DEF HandleHydrate, Takes
    <3>2. [kind |-> "hydrated", nextStep |-> step'] \in FromWorker
      BY <3>1 DEF FromWorker
    <3> QED
      BY <1>1, <2>2, <2>3, <2>9, <3>1, <3>2, EmitOne DEF HandleHydrate, ChannelTypes
  <2>10. CASE RefuseRequest
    <3>1. [kind |-> "requestError"] \in FromWorker
      BY DEF FromWorker
    <3> QED
      BY <1>1, <2>2, <2>3, <2>10, <3>1, EmitOne DEF RefuseRequest, ChannelTypes, workerVars
  <2> QED
    BY <1>7, <2>4, <2>5, <2>6, <2>7, <2>8, <2>9, <2>10 DEF Work
<1>8. CASE WorkerDies
  <2>1. [kind |-> "exit"] \in FromWorker
    BY DEF FromWorker
  <2> QED
    BY <1>1, <1>8, <2>1, EmitOne DEF WorkerDies, ChannelTypes, mainVars, statusVars
<1>9. CASE Hear
  <2>1. outbox # <<>> /\ outbox' = Tail(outbox) /\ UNCHANGED <<step, bankMs, inbox>>
    BY <1>9 DEF Hear, OnReady, OnFrame, OnSerialized, OnHydrated, OnRequestError, OnFailure,
                Hears, Fail, workerVars
  <2>2. outbox' \in Seq(FromWorker) /\ Head(outbox) \in FromWorker
    BY <1>1, <2>1, HearOne DEF ChannelTypes
  <2>3. nextStep' \in Nat
    BY <1>1, <1>9, <2>2, FromWorkerFacts
    DEF Hear, OnReady, OnFrame, OnSerialized, OnHydrated, OnRequestError, OnFailure, Hears,
        Fail, AdoptStep, ChannelTypes
  <2> QED
    BY <1>1, <2>1, <2>2, <2>3 DEF ChannelTypes
<1>10. CASE \/ BridgeFails \/ Pause \/ Resume \/ Dispose \/ Load \/ SaveWritten \/ ReadFails
            \/ UNCHANGED vars
  BY <1>1, <1>10
  DEF BridgeFails, Pause, Resume, Dispose, Load, SaveWritten, ReadFails, Fail, ChannelTypes,
      vars, mainVars, statusVars, workerVars
<1> QED
  BY <1>2, <1>3, <1>4, <1>5, <1>6, <1>7, <1>8, <1>9, <1>10 DEF Next, Call

LEMMA TypesStep ==
    ASSUME IInv, [Next]_vars
    PROVE  Types'
BY FlagTypesStep, ToolTypesStep, ChannelTypesStep DEF Types, FlagTypes, ToolTypes, ChannelTypes

-----------------------------------------------------------------------------
(* The controller: what the tools freeze and what they have asked for.      *)

LEMMA ShapeStep ==
    ASSUME IInv, [Next]_vars
    PROVE  Shape'
<1>1. Types /\ Shape /\ Requests
  BY DEF IInv
<1>2. CASE Save \/ Load \/ SaveRead
  <2>1. freezes' # <<>>
    BY <1>1, <1>2, FreezeFacts DEF Save, Load, SaveRead, Freeze, Remember, Types
  <2> QED
    BY <1>1, <1>2, <2>1
    DEF Save, Load, SaveRead, InterruptSteps, RejectWaiters, RequestOf, Shape, Running, workerVars
<1>3. CASE BridgeFails \/ Dispose \/ OnFailure
  BY <1>1, <1>3
  DEF BridgeFails, Dispose, OnFailure, Fail, EndRequest, WaitersOnFailure, RejectWaiters,
      RequestOf, Shape
<1>4. CASE ReadFails
  BY <1>1, <1>4 DEF ReadFails, Thaw, RequestOf, Shape, Running, workerVars
<1>5. CASE OnSerialized \/ OnHydrated \/ OnRequestError
  <2>1. freezes' = <<>> /\ pendingRequests' = {} /\ tool' \in {"none", "writing"}
    BY <1>5 DEF OnSerialized, OnHydrated, OnRequestError, Answered, Thaw
  <2>2. UNCHANGED <<hasFailed, isDisposing, alive>>
    BY <1>5 DEF OnSerialized, OnHydrated, OnRequestError, Hears, Answered, workerVars
  <2> QED
    BY <1>1, <2>1, <2>2 DEF RequestOf, Shape, Running
<1>6. CASE StepSimulation
  BY <1>1, <1>6 DEF StepSimulation, IsFrozen, Shape, Running, workerVars
<1>7. CASE OnReady \/ OnFrame
  BY <1>1, <1>7
  DEF OnReady, OnFrame, Hears, ResolveWaiters, Shape, Running, workerVars, toolVars
<1>8. CASE Work \/ WorkerDies
  <2>1. alive /\ UNCHANGED mainVars
    BY <1>8, WorkTakes DEF WorkerDies
  <2> QED
    BY <1>1, <2>1 DEF Shape, Running, mainVars, statusVars, toolVars
<1>9. CASE \/ TimerFires \/ SendEvent \/ EnqueueCommands \/ Pause \/ Resume
           \/ SaveWritten \/ UNCHANGED vars
  BY <1>1, <1>9, CommandPosted
  DEF TimerFires, Pause, Resume, SaveWritten, RequestOf, Shape, Running,
      vars, mainVars, statusVars, toolVars, workerVars
<1> QED
  BY <1>2, <1>3, <1>4, <1>5, <1>6, <1>7, <1>8, <1>9 DEF Next, Call, Hear

(* Thaw gives the pause flag back as it was found, and the timer with it.   *)
LEMMA ThawFlags ==
    ASSUME Types, Shape, Flags, IsFrozen, Thaw,
           UNCHANGED <<isReady, hasFailed, isDisposing, asked>>
    PROVE  Flags'
<1>1. Head(freezes) \in BOOLEAN
  BY FreezeFacts DEF Types, IsFrozen
<1> QED
  BY <1>1 DEF Types, Flags, Thaw, StartTickLoop, IsFrozen, Running

LEMMA FlagsStep ==
    ASSUME IInv, [Next]_vars
    PROVE  Flags'
<1>1. Types /\ Shape /\ Flags /\ Requests
  BY DEF IInv
<1>2. CASE Save \/ Load \/ SaveRead
  <2>1. /\ freezes' # <<>>
        /\ Head(freezes') = IF freezes = <<>> THEN isPaused ELSE Head(freezes)
        /\ isPaused' /\ ~tickTimer'
    BY <1>1, <1>2, FreezeFacts
    DEF Save, Load, SaveRead, Freeze, Remember, StopTickLoop, Types
  <2>2. Running /\ UNCHANGED <<hasFailed, isDisposing, asked>>
    BY <1>2 DEF Save, Load, SaveRead
  <2> QED
    BY <1>1, <2>1, <2>2 DEF Flags, IsFrozen, Running
<1>3. CASE BridgeFails \/ Dispose \/ OnFailure
  BY <1>3 DEF BridgeFails, Dispose, OnFailure, Fail, StopTickLoop, Flags, Running
<1>4. CASE ReadFails
  BY <1>1, <1>4, ThawFlags DEF ReadFails, Shape, IsFrozen
<1>5. CASE OnSerialized \/ OnHydrated \/ OnRequestError
  <2>1. IsFrozen
    BY <1>1, <1>5, AnswerHeard DEF OnSerialized, OnHydrated, OnRequestError, Hears, IsAnswer
  <2> QED
    BY <1>1, <1>5, <2>1, ThawFlags DEF OnSerialized, OnHydrated, OnRequestError, Answered
<1>6. CASE StepSimulation \/ Pause \/ Resume
  <2>1. Running /\ ~IsFrozen /\ UNCHANGED <<isReady, hasFailed, isDisposing, freezes>>
    BY <1>6 DEF StepSimulation, Pause, Resume
  <2>2. \/ isPaused' = TRUE /\ asked' = TRUE /\ tickTimer' = FALSE
        \/ isPaused' = FALSE /\ asked' = FALSE /\ tickTimer' = isReady
    BY <1>1, <1>6, <2>1
    DEF StepSimulation, Pause, Resume, StopTickLoop, StartTickLoop, Running, Types
  <2> QED
    <3>1. Running' = TRUE /\ IsFrozen' = FALSE
      BY <2>1 DEF Running, IsFrozen
    <3>2. isPaused' = asked'
      BY <2>2
    <3>3. tickTimer' <=> isReady' /\ ~isPaused'
      BY <1>1, <2>1, <2>2 DEF Types
    <3> QED
      BY <3>1, <3>2, <3>3 DEF Flags
<1>7. CASE OnReady \/ OnFrame
  <2>1. Running /\ UNCHANGED <<isPaused, hasFailed, isDisposing, freezes, asked>>
    BY <1>7 DEF OnReady, OnFrame, Hears, toolVars
  <2>2. \/ UNCHANGED <<isReady, tickTimer>>
        \/ isReady' = TRUE /\ isPaused /\ UNCHANGED tickTimer
        \/ isReady' = TRUE /\ ~isPaused /\ tickTimer' = TRUE
    BY <1>1, <1>7, <2>1 DEF OnReady, OnFrame, StartTickLoop, Running, Types
  <2> QED
    <3>1. Running' = TRUE /\ IsFrozen' = IsFrozen
      BY <2>1 DEF Running, IsFrozen
    <3>2. isPaused' = IF IsFrozen THEN TRUE ELSE asked'
      BY <1>1, <2>1 DEF Flags
    <3>3. IsFrozen => Head(freezes') = asked'
      BY <1>1, <2>1 DEF Flags
    <3>4. tickTimer' <=> isReady' /\ ~isPaused' /\ ~IsFrozen
      <4>1. tickTimer <=> isReady /\ ~isPaused /\ ~IsFrozen
        BY <1>1, <2>1 DEF Flags
      <4>2. ~isPaused => ~IsFrozen
        BY <1>1, <2>1 DEF Flags, Types
      <4> QED
        BY <2>1, <2>2, <4>1, <4>2
    <3> QED
      BY <3>1, <3>2, <3>3, <3>4 DEF Flags
<1>8. CASE \/ Work \/ WorkerDies \/ TimerFires \/ SendEvent \/ EnqueueCommands \/ SaveWritten
           \/ UNCHANGED vars
  <2>1. UNCHANGED <<statusVars, freezes, asked>>
    BY <1>8, WorkTakes, CommandPosted
    DEF WorkerDies, TimerFires, SaveWritten, vars, mainVars, toolVars
  <2> QED
    BY <1>1, <2>1 DEF Flags, IsFrozen, Running, statusVars
<1> QED
  BY <1>2, <1>3, <1>4, <1>5, <1>6, <1>7, <1>8 DEF Next, Call, Hear

-----------------------------------------------------------------------------
(* Requests and answers under way.                                          *)

(* Nobody waits for an answer: no request and no answer is under way.       *)
Quiet ==
    /\ \A i \in DOMAIN inbox : ~IsRequest(inbox[i])
    /\ \A i \in DOMAIN outbox : ~IsAnswer(outbox[i])

LEMMA IdleIsQuiet ==
    ASSUME Requests, Running, RequestOf(tool) = {}
    PROVE  Quiet
<1>1. tool \notin {"serializing", "hydrating"}
  BY DEF RequestOf
<1> QED
  BY <1>1 DEF Requests, Quiet

LEMMA QuietRequests == Quiet => Requests
BY DEF Quiet, Requests

(* Messages that are no requests do not matter.                             *)
LEMMA PostOthers ==
    ASSUME Types, Requests, NEW ms \in Seq(ToWorker), Post(ms),
           \A i \in 1..Len(ms) : ~IsRequest(ms[i]),
           UNCHANGED <<tool, outbox, hasFailed, isDisposing>>
    PROVE  Requests'
<1>1. /\ inbox' \in Seq(ToWorker) /\ Len(inbox') = Len(inbox) + Len(ms)
      /\ \A i \in 1..Len(inbox') : inbox'[i] =
            IF i <= Len(inbox) THEN inbox[i] ELSE ms[i - Len(inbox)]
  BY ConcatProperties DEF Post, Types
<1>2. \A i \in DOMAIN inbox' : IsRequest(inbox'[i]) => i \in DOMAIN inbox /\ inbox'[i] = inbox[i]
  <2> TAKE i \in DOMAIN inbox'
  <2>1. i \in 1..Len(inbox') /\ Len(inbox) \in Nat /\ Len(ms) \in Nat
    BY <1>1, LenProperties DEF Types
  <2>2. CASE i <= Len(inbox)
    BY <1>1, <2>1, <2>2 DEF Types
  <2>3. CASE i > Len(inbox)
    <3>1. inbox'[i] = ms[i - Len(inbox)] /\ i - Len(inbox) \in 1..Len(ms)
      BY <1>1, <2>1, <2>3
    <3> QED
      BY <3>1
  <2> QED
    BY <2>1, <2>2, <2>3
<1> QED
  BY <1>2 DEF Requests, Running

(* The only request: the tool that posts it waits for it.                   *)
LEMMA PostRequest ==
    ASSUME Types, Quiet, NEW m \in ToWorker, Post(<<m>>), UNCHANGED outbox,
           RequestOf(tool') = {m.kind}
    PROVE  Requests'
<1>1. /\ Len(inbox) \in Nat /\ DOMAIN inbox' = 1..(Len(inbox) + 1)
      /\ \A i \in 1..Len(inbox) : inbox'[i] = inbox[i]
      /\ inbox'[Len(inbox) + 1] = m
  BY PostOne, LenProperties DEF Types
<1>2. \A i \in DOMAIN inbox' : IsRequest(inbox'[i]) => i = Len(inbox) + 1
  BY <1>1 DEF Quiet, Types
<1>3. \A i \in DOMAIN outbox' : ~IsAnswer(outbox'[i])
  BY DEF Quiet
<1> QED
  BY <1>1, <1>2, <1>3 DEF Requests

(* The worker takes a message that is no request, and gives no answer.      *)
LEMMA TakeOther ==
    ASSUME Types, Requests, inbox # <<>>, inbox' = Tail(inbox),
           \/ outbox' = outbox
           \/ \E m \in FromWorker : Emit(m) /\ ~IsAnswer(m),
           UNCHANGED <<tool, hasFailed, isDisposing>>
    PROVE  Requests'
<1>1. /\ Len(inbox) \in Nat /\ DOMAIN inbox = 1..Len(inbox)
      /\ DOMAIN inbox' = 1..(Len(inbox) - 1)
      /\ \A i \in DOMAIN inbox' : inbox'[i] = inbox[i + 1]
  BY TakeOne, LenProperties DEF Types
<1>2. \A i \in DOMAIN outbox' : IsAnswer(outbox'[i]) => i \in DOMAIN outbox /\ outbox'[i] = outbox[i]
  <2>1. CASE outbox' = outbox
    BY <2>1
  <2>2. ASSUME NEW m \in FromWorker, Emit(m), ~IsAnswer(m)
        PROVE  \A i \in DOMAIN outbox' :
                   IsAnswer(outbox'[i]) => i \in DOMAIN outbox /\ outbox'[i] = outbox[i]
    <3>1. /\ Len(outbox) \in Nat /\ DOMAIN outbox = 1..Len(outbox)
          /\ DOMAIN outbox' = 1..(Len(outbox) + 1)
          /\ \A i \in DOMAIN outbox : outbox'[i] = outbox[i]
          /\ outbox'[Len(outbox) + 1] = m
      BY <2>2, EmitOne, LenProperties DEF Types
    <3> QED
      BY <2>2, <3>1
  <2> QED
    BY <2>1, <2>2
<1>3. \A i \in DOMAIN inbox' : i + 1 \in DOMAIN inbox /\ inbox'[i] = inbox[i + 1]
  BY <1>1
<1>4. \A i, j \in DOMAIN inbox' : i + 1 = j + 1 => i = j
  BY <1>1
<1> QED
  BY <1>2, <1>3, <1>4 DEF Requests, Running

(* The worker gives no answer.                                              *)
LEMMA EmitOther ==
    ASSUME Types, Requests, UNCHANGED <<inbox, tool, hasFailed, isDisposing>>,
           NEW m \in FromWorker, Emit(m), ~IsAnswer(m)
    PROVE  Requests'
<1>1. /\ Len(outbox) \in Nat /\ DOMAIN outbox = 1..Len(outbox)
      /\ DOMAIN outbox' = 1..(Len(outbox) + 1)
      /\ \A i \in DOMAIN outbox : outbox'[i] = outbox[i]
      /\ outbox'[Len(outbox) + 1] = m
  BY EmitOne, LenProperties DEF Types
<1>2. \A i \in DOMAIN outbox' : IsAnswer(outbox'[i]) => i \in DOMAIN outbox /\ outbox'[i] = outbox[i]
  BY <1>1
<1> QED
  BY <1>2 DEF Requests, Running

(* The worker takes the request and answers it.                             *)
LEMMA TakeRequest ==
    ASSUME Types, Requests, Running, inbox # <<>>, inbox' = Tail(inbox), IsRequest(Head(inbox)),
           NEW m \in FromWorker, Emit(m), UNCHANGED tool,
           m.kind = "serialized" => Head(inbox).kind = "serialize",
           m.kind = "hydrated" => Head(inbox).kind = "hydrate"
    PROVE  Requests'
<1>1. /\ Len(inbox) \in Nat /\ DOMAIN inbox = 1..Len(inbox) /\ 1 \in DOMAIN inbox
      /\ Head(inbox) = inbox[1] /\ DOMAIN inbox' = 1..(Len(inbox) - 1)
      /\ \A i \in DOMAIN inbox' : inbox'[i] = inbox[i + 1]
  BY TakeOne, LenProperties DEF Types
<1>2. /\ Len(outbox) \in Nat /\ DOMAIN outbox = 1..Len(outbox)
      /\ DOMAIN outbox' = 1..(Len(outbox) + 1)
      /\ \A i \in DOMAIN outbox : outbox'[i] = outbox[i]
      /\ outbox'[Len(outbox) + 1] = m
  BY EmitOne, LenProperties DEF Types
<1>3. RequestOf(tool) = {Head(inbox).kind}
  BY <1>1 DEF Requests
<1>4. \A i \in DOMAIN inbox' : ~IsRequest(inbox'[i])
  <2> TAKE i \in DOMAIN inbox'
  <2>1. i + 1 \in DOMAIN inbox /\ i + 1 # 1 /\ inbox'[i] = inbox[i + 1]
    BY <1>1
  <2> QED
    BY <1>1, <2>1 DEF Requests
<1>5. \A i \in DOMAIN outbox' : IsAnswer(outbox'[i]) => i = Len(outbox) + 1
  BY <1>1, <1>2 DEF Requests
<1>6. /\ tool \in {"serializing", "hydrating"}
      /\ m.kind = "serialized" => tool = "serializing"
      /\ m.kind = "hydrated" => tool = "hydrating"
  BY <1>1, <1>3 DEF RequestOf
<1> QED
  BY <1>2, <1>4, <1>5, <1>6 DEF Requests

(* The main process hears a message that is no answer.                      *)
LEMMA HearOther ==
    ASSUME Types, Requests, outbox # <<>>, outbox' = Tail(outbox),
           UNCHANGED <<tool, inbox, hasFailed, isDisposing>>
    PROVE  Requests'
<1>1. /\ Len(outbox) \in Nat /\ DOMAIN outbox = 1..Len(outbox)
      /\ DOMAIN outbox' = 1..(Len(outbox) - 1)
      /\ \A i \in DOMAIN outbox' : outbox'[i] = outbox[i + 1]
  BY HearOne, LenProperties DEF Types
<1>2. \A i \in DOMAIN outbox' : i + 1 \in DOMAIN outbox /\ outbox'[i] = outbox[i + 1]
  BY <1>1
<1>3. \A i, j \in DOMAIN outbox' : i + 1 = j + 1 => i = j
  BY <1>1
<1> QED
  BY <1>2, <1>3 DEF Requests, Running

(* The main process hears the answer, and nothing else is under way.        *)
LEMMA HearAnswer ==
    ASSUME Types, Requests, Running, outbox # <<>>, outbox' = Tail(outbox),
           IsAnswer(Head(outbox)), UNCHANGED inbox
    PROVE  Requests'
<1>1. /\ Len(outbox) \in Nat /\ DOMAIN outbox = 1..Len(outbox) /\ 1 \in DOMAIN outbox
      /\ Head(outbox) = outbox[1] /\ DOMAIN outbox' = 1..(Len(outbox) - 1)
      /\ \A i \in DOMAIN outbox' : outbox'[i] = outbox[i + 1]
  BY HearOne, LenProperties DEF Types
<1>2. \A i \in DOMAIN outbox' : ~IsAnswer(outbox'[i])
  <2> TAKE i \in DOMAIN outbox'
  <2>1. i + 1 \in DOMAIN outbox /\ i + 1 # 1 /\ outbox'[i] = outbox[i + 1]
    BY <1>1
  <2> QED
    BY <1>1, <2>1 DEF Requests
<1>3. \A i \in DOMAIN inbox' : ~IsRequest(inbox'[i])
  BY <1>1 DEF Requests
<1> QED
  BY <1>2, <1>3 DEF Requests

LEMMA SameRequests ==
    ASSUME Requests, UNCHANGED <<inbox, outbox, hasFailed, isDisposing>>,
           UNCHANGED tool \/ (Running => Quiet)
    PROVE  Requests'
<1>1. CASE UNCHANGED tool
  BY <1>1 DEF Requests, Running
<1>2. CASE Running /\ Quiet
  BY <1>2 DEF Quiet, Requests
<1>3. CASE ~Running
  BY <1>3 DEF Requests, Running
<1> QED
  BY <1>1, <1>2, <1>3

LEMMA RequestsStep ==
    ASSUME IInv, [Next]_vars
    PROVE  Requests'
<1>1. Types /\ Shape /\ Requests /\ (alive => Running)
  BY DEF IInv, Shape
<1>2. CASE TimerFires
  <2>1. PICK d \in Deltas : Post(<<[kind |-> "tick", ms |-> d]>>)
    BY <1>2 DEF TimerFires
  <2>2. [kind |-> "tick", ms |-> d] \in ToWorker
    BY ControllerAssumption DEF ControllerAssumption, ToWorker
  <2>3. \A i \in 1..Len(<<[kind |-> "tick", ms |-> d]>>) :
            ~IsRequest(<<[kind |-> "tick", ms |-> d]>>[i])
    BY DEF IsRequest
  <2>4. UNCHANGED <<tool, outbox, hasFailed, isDisposing>>
    BY <1>2 DEF TimerFires, mainVars, statusVars, toolVars
  <2>5. <<[kind |-> "tick", ms |-> d]>> \in Seq(ToWorker)
    BY <2>2
  <2> QED
    BY <1>1, <2>1, <2>3, <2>4, <2>5, PostOthers
<1>3. CASE SendEvent \/ EnqueueCommands
  <2>1. PICK ahead \in Nat : Post(<<Command(ahead)>>)
    BY <1>3, CommandPosted
  <2>2. UNCHANGED <<tool, outbox, hasFailed, isDisposing>>
    BY <1>3, CommandPosted DEF mainVars, statusVars, toolVars
  <2> DEFINE m == Command(ahead)
  <2>3. m \in ToWorker /\ ~IsRequest(m) /\ Post(<<m>>)
    BY <1>1, <2>1, CommandFacts DEF Types, IsRequest
  <2> HIDE DEF m
  <2>4. /\ <<m>> \in Seq(ToWorker) /\ \A i \in 1..Len(<<m>>) : ~IsRequest(<<m>>[i])
        /\ Post(<<m>>)
    BY <2>3
  <2> QED
    BY <1>1, <2>2, <2>4, PostOthers
<1>4. CASE StepSimulation
  <2>1. PICK n \in Nat : Post(Batches(n))
    BY <1>4, ControllerAssumption DEF StepSimulation, ControllerAssumption
  <2>2. Batches(n) \in Seq(ToWorker) /\ \A i \in 1..Len(Batches(n)) : ~IsRequest(Batches(n)[i])
    BY BatchTypes DEF IsRequest
  <2>3. UNCHANGED <<tool, outbox, hasFailed, isDisposing>>
    BY <1>4 DEF StepSimulation
  <2> QED
    BY <1>1, <2>1, <2>2, <2>3, PostOthers
<1>5. CASE Save
  <2>1. [kind |-> "serialize"] \in ToWorker
    BY DEF ToWorker
  <2>2. Quiet
    BY <1>1, <1>5, IdleIsQuiet DEF Save, RequestOf
  <2>3. Post(<<[kind |-> "serialize"]>>) /\ UNCHANGED outbox /\ RequestOf(tool') = {"serialize"}
    BY <1>5 DEF Save, RequestOf
  <2> QED
    BY <1>1, <2>1, <2>2, <2>3, PostRequest
<1>6. CASE SaveRead
  <2>1. [kind |-> "hydrate", save |-> file] \in ToWorker
    BY <1>1, <1>6 DEF SaveRead, Types, ToWorker
  <2>2. Quiet
    BY <1>1, <1>6, IdleIsQuiet DEF SaveRead, RequestOf
  <2>3. /\ Post(<<[kind |-> "hydrate", save |-> file]>>) /\ UNCHANGED outbox
        /\ RequestOf(tool') = {"hydrate"}
    BY <1>6 DEF SaveRead, RequestOf
  <2> QED
    BY <1>1, <2>1, <2>2, <2>3, PostRequest
<1>7. CASE HandleInit \/ HandleTick \/ HandleTickThrows \/ HandleCommands
  <2>1. inbox # <<>> /\ inbox' = Tail(inbox) /\ UNCHANGED <<tool, hasFailed, isDisposing>>
    BY <1>7, WorkTakes DEF Work, mainVars, statusVars, toolVars
  <2>2. CASE HandleInit
    <3>1. /\ [kind |-> "ready", nextStep |-> step] \in FromWorker
          /\ ~IsAnswer([kind |-> "ready", nextStep |-> step])
      BY <1>1 DEF Types, FromWorker, IsAnswer
    <3> QED
      BY <1>1, <2>1, <2>2, <3>1, TakeOther DEF HandleInit
  <2>3. CASE HandleTick
    <3>1. step' \in Nat /\ Emit([kind |-> "frame", nextStep |-> step'])
      BY <1>1, <2>3, TickFacts
    <3>2. PICK n \in Nat : Emit([kind |-> "frame", nextStep |-> n])
      BY <3>1
    <3>3. /\ [kind |-> "frame", nextStep |-> n] \in FromWorker
          /\ ~IsAnswer([kind |-> "frame", nextStep |-> n])
      BY DEF FromWorker, IsAnswer
    <3> QED
      BY <1>1, <2>1, <3>2, <3>3, TakeOther
  <2>4. CASE HandleTickThrows
    <3>1. [kind |-> "error"] \in FromWorker /\ ~IsAnswer([kind |-> "error"])
      BY DEF FromWorker, IsAnswer
    <3> QED
      BY <1>1, <2>1, <2>4, <3>1, TakeOther DEF HandleTickThrows
  <2>5. CASE HandleCommands
    BY <1>1, <2>1, <2>5, TakeOther DEF HandleCommands
  <2> QED
    BY <1>7, <2>2, <2>3, <2>4, <2>5
<1>8. CASE HandleSerialize \/ HandleHydrate \/ RefuseRequest
  <2>1. Running /\ inbox # <<>> /\ inbox' = Tail(inbox) /\ UNCHANGED tool
    BY <1>1, <1>8, WorkTakes DEF Work, mainVars, toolVars
  <2>2. CASE HandleSerialize
    <3>1. [kind |-> "serialized", state |-> [step |-> step, bankMs |-> bankMs]] \in FromWorker
      BY <1>1 DEF FromWorker, SaveState, Types
    <3>2. IsRequest(Head(inbox)) /\ Head(inbox).kind = "serialize"
      BY <2>2 DEF HandleSerialize, Takes, IsRequest
    <3> QED
      BY <1>1, <2>1, <2>2, <3>1, <3>2, TakeRequest DEF HandleSerialize
  <2>3. CASE HandleHydrate
    <3>1. IsRequest(Head(inbox)) /\ Head(inbox).kind = "hydrate"
      BY <2>3 DEF HandleHydrate, Takes, IsRequest
    <3>2. PICK n \in Nat : Emit([kind |-> "hydrated", nextStep |-> n])
      <4>1. Head(inbox) \in ToWorker
        BY <1>1, <2>1, TakeOne DEF Types
      <4>2. step' \in Nat
        BY <2>3, <3>1, <4>1, ToWorkerFacts DEF HandleHydrate
      <4> QED
        BY <2>3, <4>2 DEF HandleHydrate
    <3>3. [kind |-> "hydrated", nextStep |-> n] \in FromWorker
      BY DEF FromWorker
    <3> QED
      BY <1>1, <2>1, <3>1, <3>2, <3>3, TakeRequest
  <2>4. CASE RefuseRequest
    <3>1. [kind |-> "requestError"] \in FromWorker /\ Emit([kind |-> "requestError"])
      BY <2>4 DEF FromWorker, RefuseRequest
    <3>2. IsRequest(Head(inbox))
      BY <2>4 DEF RefuseRequest, Takes, IsRequest
    <3> QED
      BY <1>1, <2>1, <3>1, <3>2, TakeRequest
  <2> QED
    BY <1>8, <2>2, <2>3, <2>4
<1>9. CASE OnReady \/ OnFrame
  BY <1>1, <1>9, HearOther DEF OnReady, OnFrame, Hears, toolVars
<1>10. CASE OnSerialized \/ OnHydrated \/ OnRequestError
  BY <1>1, <1>10, HearAnswer DEF OnSerialized, OnHydrated, OnRequestError, Hears, IsAnswer
<1>11. CASE BridgeFails \/ Dispose \/ OnFailure
  BY <1>11 DEF BridgeFails, Dispose, OnFailure, Fail, Requests, Running
<1>12. CASE WorkerDies
  <2>1. [kind |-> "exit"] \in FromWorker /\ ~IsAnswer([kind |-> "exit"])
    BY DEF FromWorker, IsAnswer
  <2>2. Emit([kind |-> "exit"]) /\ UNCHANGED <<tool, inbox, hasFailed, isDisposing>>
    BY <1>12 DEF WorkerDies, mainVars, statusVars, toolVars
  <2> QED
    BY <1>1, <2>1, <2>2, EmitOther
<1>13. CASE Load \/ SaveWritten \/ ReadFails
  <2>1. tool \in {"none", "writing", "reading"}
    BY <1>13 DEF Load, SaveWritten, ReadFails
  <2>2. Running => Quiet
    BY <1>1, <2>1, IdleIsQuiet DEF RequestOf
  <2> QED
    BY <1>1, <1>13, <2>2, SameRequests DEF Load, SaveWritten, ReadFails, statusVars
<1>14. CASE Pause \/ Resume \/ UNCHANGED vars
  BY <1>1, <1>14, SameRequests
  DEF Pause, Resume, vars, mainVars, statusVars, toolVars
<1> QED
  BY <1>2, <1>3, <1>4, <1>5, <1>6, <1>7, <1>8, <1>9, <1>10, <1>11, <1>12, <1>13, <1>14
  DEF Next, Call, Work, Hear

-----------------------------------------------------------------------------
(* Stamps.                                                                  *)

(* No load is under way: the main process knows a step the worker reached.  *)
LEMMA StampReached ==
    ASSUME Types, Shape, Requests, Stamps, alive, ~IsFrozen
    PROVE  /\ nextStep <= step
           /\ \A i \in DOMAIN inbox : inbox[i].kind # "hydrate"
<1>1. Running /\ tool \notin {"serializing", "hydrating"} /\ RequestOf(tool) = {}
  BY DEF Shape, IsFrozen, RequestOf
<1>2. \A k \in DOMAIN outbox : outbox[k].kind # "hydrated"
  BY <1>1 DEF Requests, IsAnswer
<1>3. \A i \in DOMAIN inbox : inbox[i].kind # "hydrate"
  BY <1>1 DEF Requests, IsRequest
<1> QED
  BY <1>2, <1>3 DEF Stamps, HydratedAfter

(* Messages that are neither commands nor loads do not matter.              *)
LEMMA PostUnstamped ==
    ASSUME Types, Stamps, NEW ms \in Seq(ToWorker), Post(ms),
           \A i \in 1..Len(ms) : ms[i].kind \notin {"enqueueCommands", "hydrate"},
           UNCHANGED <<alive, step, nextStep, outbox>>
    PROVE  Stamps'
<1>1. /\ Len(inbox) \in Nat /\ Len(ms) \in Nat /\ DOMAIN inbox = 1..Len(inbox)
      /\ DOMAIN inbox' = 1..(Len(inbox) + Len(ms))
      /\ \A i \in DOMAIN inbox' : inbox'[i] =
            IF i <= Len(inbox) THEN inbox[i] ELSE ms[i - Len(inbox)]
  BY ConcatProperties, LenProperties DEF Post, Types
<1>2. \A i \in DOMAIN inbox' : inbox'[i].kind \in {"enqueueCommands", "hydrate"} =>
          i \in DOMAIN inbox /\ inbox'[i] = inbox[i]
  <2> TAKE i \in DOMAIN inbox'
  <2>1. CASE i <= Len(inbox)
    BY <1>1, <2>1
  <2>2. CASE i > Len(inbox)
    <3>1. inbox'[i] = ms[i - Len(inbox)] /\ i - Len(inbox) \in 1..Len(ms)
      BY <1>1, <2>2
    <3> QED
      BY <3>1
  <2> QED
    BY <1>1, <2>1, <2>2
<1> QED
  BY <1>2 DEF Stamps, HydratedAfter

(* A command stamped from a step the worker has reached, with no load to    *)
(* come before it.                                                          *)
LEMMA PostCommand ==
    ASSUME Types, Shape, Requests, Stamps, ~IsFrozen,
           NEW ahead \in Nat, Post(<<Command(ahead)>>),
           UNCHANGED <<alive, step, nextStep, outbox>>
    PROVE  Stamps'
<1> DEFINE m == Command(ahead)
<1>1. /\ m \in ToWorker /\ m.kind = "enqueueCommands"
      /\ m.step = nextStep + ahead /\ m.ahead = ahead
      /\ nextStep \in Nat /\ step \in Nat
  BY CommandFacts DEF Types
<1>2. Post(<<m>>)
  OBVIOUS
<1> HIDE DEF m
<1>3. /\ Len(inbox) \in Nat /\ DOMAIN inbox = 1..Len(inbox)
      /\ DOMAIN inbox' = 1..(Len(inbox) + 1)
      /\ \A i \in DOMAIN inbox : inbox'[i] = inbox[i]
      /\ inbox'[Len(inbox) + 1] = m
  BY <1>1, <1>2, PostOne, LenProperties DEF Types
<1>4. ASSUME alive PROVE nextStep <= step /\ \A i \in DOMAIN inbox' : inbox'[i].kind # "hydrate"
  BY <1>1, <1>3, <1>4, StampReached
<1>5. ASSUME alive, NEW i \in DOMAIN inbox', inbox'[i].kind = "enqueueCommands"
      PROVE  inbox'[i].step <= step + inbox'[i].ahead
  <2>1. CASE i = Len(inbox) + 1
    BY <1>1, <1>3, <1>4, <1>5, <2>1
  <2>2. CASE i \in DOMAIN inbox
    BY <1>3, <1>5, <2>2 DEF Stamps
  <2> QED
    BY <1>3, <2>1, <2>2
<1> QED
  BY <1>4, <1>5 DEF Stamps, HydratedAfter

(* A load is put behind every command.                                      *)
LEMMA PostHydrate ==
    ASSUME Types, Stamps, Quiet, NEW m \in ToWorker, Post(<<m>>), m.kind = "hydrate",
           UNCHANGED <<alive, step, nextStep, outbox>>
    PROVE  Stamps'
<1>1. /\ Len(inbox) \in Nat /\ DOMAIN inbox = 1..Len(inbox)
      /\ DOMAIN inbox' = 1..(Len(inbox) + 1)
      /\ \A i \in DOMAIN inbox : inbox'[i] = inbox[i]
      /\ inbox'[Len(inbox) + 1] = m
  BY PostOne, LenProperties DEF Types
<1>2. \A i \in DOMAIN inbox' : inbox'[i].kind = "hydrate" => i = Len(inbox) + 1
  BY <1>1 DEF Quiet, IsRequest
<1>3. \A i \in DOMAIN inbox' : inbox'[i].kind = "enqueueCommands" =>
          i \in DOMAIN inbox /\ inbox'[i] = inbox[i] /\ i < Len(inbox) + 1
  BY <1>1
<1> QED
  BY <1>2, <1>3 DEF Stamps, HydratedAfter

(* A message does not name a step beyond this one.                          *)
Within(m, n) == m.kind \in {"ready", "frame", "hydrated"} => m.nextStep <= n

(* The worker takes a message and goes on from its step, or stays there.    *)
LEMMA TakeForward ==
    ASSUME Types, Stamps, inbox # <<>>, inbox' = Tail(inbox), alive,
           step' \in Nat, step <= step', UNCHANGED nextStep,
           outbox' = outbox \/ \E m \in FromWorker : Emit(m) /\ Within(m, step')
    PROVE  Stamps'
<1>1. /\ Len(inbox) \in Nat /\ DOMAIN inbox = 1..Len(inbox)
      /\ DOMAIN inbox' = 1..(Len(inbox) - 1)
      /\ \A i \in DOMAIN inbox' : inbox'[i] = inbox[i + 1]
  BY TakeOne, LenProperties DEF Types
<1>2. step \in Nat /\ nextStep \in Nat /\ inbox \in Seq(ToWorker) /\ outbox \in Seq(FromWorker)
  BY DEF Types
<1>3. ASSUME NEW i \in DOMAIN inbox', inbox'[i].kind = "enqueueCommands"
      PROVE  inbox'[i].step <= step' + inbox'[i].ahead
  <2>1. i + 1 \in DOMAIN inbox /\ inbox'[i] = inbox[i + 1]
    BY <1>1
  <2>2. /\ inbox[i + 1].step <= step + inbox[i + 1].ahead
        /\ inbox[i + 1].step \in Nat /\ inbox[i + 1].ahead \in Nat
    BY <1>2, <1>3, <2>1, ToWorkerFacts DEF Stamps
  <2> QED
    BY <1>2, <2>1, <2>2
<1>4. ASSUME NEW i \in DOMAIN inbox', NEW j \in DOMAIN inbox',
             inbox'[i].kind = "hydrate", inbox'[j].kind = "enqueueCommands"
      PROVE  j < i
  <2>1. /\ i + 1 \in DOMAIN inbox /\ inbox'[i] = inbox[i + 1]
        /\ j + 1 \in DOMAIN inbox /\ inbox'[j] = inbox[j + 1]
    BY <1>1
  <2>2. j + 1 < i + 1
    BY <1>4, <2>1 DEF Stamps
  <2> QED
    BY <1>1, <2>2
<1>5. /\ \A j \in DOMAIN outbox : j \in DOMAIN outbox' /\ outbox'[j] = outbox[j]
      /\ \A j \in DOMAIN outbox' : j \in DOMAIN outbox \/ Within(outbox'[j], step')
  <2>1. CASE outbox' = outbox
    BY <2>1
  <2>2. CASE outbox' # outbox
    <3>1. PICK m \in FromWorker : Emit(m) /\ Within(m, step')
      BY <2>2
    <3>2. /\ Len(outbox) \in Nat /\ DOMAIN outbox = 1..Len(outbox)
          /\ DOMAIN outbox' = 1..(Len(outbox) + 1)
          /\ \A i \in DOMAIN outbox : outbox'[i] = outbox[i]
          /\ outbox'[Len(outbox) + 1] = m
      BY <1>2, <3>1, EmitOne, LenProperties
    <3> QED
      BY <3>1, <3>2
  <2> QED
    BY <2>1, <2>2
<1>6. \A n : HydratedAfter(n) => HydratedAfter(n)'
  BY <1>5 DEF HydratedAfter
<1>7. ASSUME NEW j \in DOMAIN outbox', outbox'[j].kind \in {"ready", "frame", "hydrated"}
      PROVE  outbox'[j].nextStep <= step' \/ HydratedAfter(j)'
  <2>1. CASE j \in DOMAIN outbox
    <3>1. outbox'[j] = outbox[j] /\ outbox[j].nextStep \in Nat
      BY <1>2, <1>5, <1>7, <2>1, FromWorkerFacts
    <3>2. outbox[j].nextStep <= step \/ HydratedAfter(j)
      BY <1>7, <2>1, <3>1 DEF Stamps
    <3> QED
      BY <1>2, <1>6, <3>1, <3>2
  <2> QED
    BY <1>5, <1>7, <2>1 DEF Within
<1>8. nextStep' <= step' \/ HydratedAfter(0)'
  <2>1. nextStep <= step \/ HydratedAfter(0)
    BY DEF Stamps
  <2> QED
    BY <1>2, <1>6, <2>1
<1> QED
  BY <1>3, <1>4, <1>7, <1>8 DEF Stamps

(* A load is taken: no command is left, and its answer is the last message. *)
LEMMA TakeHydrate ==
    ASSUME Types, Stamps, inbox # <<>>, inbox' = Tail(inbox), Head(inbox).kind = "hydrate", alive,
           step' \in Nat, UNCHANGED nextStep, Emit([kind |-> "hydrated", nextStep |-> step'])
    PROVE  Stamps'
<1>1. /\ Len(inbox) \in Nat /\ DOMAIN inbox = 1..Len(inbox) /\ 1 \in DOMAIN inbox
      /\ Head(inbox) = inbox[1] /\ DOMAIN inbox' = 1..(Len(inbox) - 1)
      /\ \A i \in DOMAIN inbox' : inbox'[i] = inbox[i + 1]
  BY TakeOne, LenProperties DEF Types
<1>2. PICK n \in Nat : n = step' /\ Emit([kind |-> "hydrated", nextStep |-> n])
  OBVIOUS
<1> DEFINE m == [kind |-> "hydrated", nextStep |-> n]
<1>3. m \in FromWorker /\ m.kind = "hydrated" /\ m.nextStep = n /\ Emit(m)
  BY <1>2 DEF FromWorker
<1> HIDE DEF m
<1>4. /\ Len(outbox) \in Nat /\ DOMAIN outbox = 1..Len(outbox)
      /\ DOMAIN outbox' = 1..(Len(outbox) + 1)
      /\ \A i \in DOMAIN outbox : outbox'[i] = outbox[i]
      /\ outbox'[Len(outbox) + 1] = m
  BY <1>3, EmitOne, LenProperties DEF Types
<1>5. \A i \in DOMAIN inbox' : inbox'[i].kind # "enqueueCommands"
  <2> TAKE i \in DOMAIN inbox'
  <2>1. i + 1 \in DOMAIN inbox /\ ~(i + 1 < 1) /\ inbox'[i] = inbox[i + 1]
    BY <1>1
  <2> QED
    BY <1>1, <2>1 DEF Stamps
<1>6. Len(outbox) + 1 \in DOMAIN outbox' /\ outbox'[Len(outbox) + 1].kind = "hydrated"
  BY <1>3, <1>4
<1>7. HydratedAfter(0)'
  BY <1>4, <1>6 DEF HydratedAfter
<1>8. ASSUME NEW j \in DOMAIN outbox', outbox'[j].kind \in {"ready", "frame", "hydrated"}
      PROVE  outbox'[j].nextStep <= step' \/ HydratedAfter(j)'
  <2>1. CASE j = Len(outbox) + 1
    BY <1>2, <1>3, <1>4, <2>1
  <2>2. CASE j < Len(outbox) + 1
    BY <1>6, <2>2 DEF HydratedAfter
  <2> QED
    BY <1>4, <2>1, <2>2
<1> QED
  BY <1>5, <1>7, <1>8 DEF Stamps

(* The main process takes over the step it hears of, or hears of none.      *)
LEMMA HearStep ==
    ASSUME Types, Stamps, outbox # <<>>, outbox' = Tail(outbox), UNCHANGED <<alive, step, inbox>>,
           \/ nextStep' = Head(outbox).nextStep
              /\ Head(outbox).kind \in {"ready", "frame", "hydrated"}
           \/ nextStep' = nextStep /\ Head(outbox).kind # "hydrated"
    PROVE  Stamps'
<1>1. /\ Len(outbox) \in Nat /\ DOMAIN outbox = 1..Len(outbox) /\ 1 \in DOMAIN outbox
      /\ Head(outbox) = outbox[1] /\ DOMAIN outbox' = 1..(Len(outbox) - 1)
      /\ \A i \in DOMAIN outbox' : outbox'[i] = outbox[i + 1]
  BY HearOne, LenProperties DEF Types
<1>2. \A n \in Nat : HydratedAfter(n + 1) => HydratedAfter(n)'
  <2> SUFFICES ASSUME NEW n \in Nat, NEW k \in DOMAIN outbox, k > n + 1, outbox[k].kind = "hydrated"
               PROVE  HydratedAfter(n)'
    BY DEF HydratedAfter
  <2>1. k - 1 \in DOMAIN outbox' /\ k - 1 > n /\ outbox'[k - 1] = outbox[k]
    BY <1>1
  <2> QED
    BY <2>1 DEF HydratedAfter
<1>3. ASSUME alive, NEW j \in DOMAIN outbox', outbox'[j].kind \in {"ready", "frame", "hydrated"}
      PROVE  outbox'[j].nextStep <= step \/ HydratedAfter(j)'
  <2>1. j \in Nat /\ j + 1 \in DOMAIN outbox /\ outbox'[j] = outbox[j + 1]
    BY <1>1
  <2>2. outbox[j + 1].nextStep <= step \/ HydratedAfter(j + 1)
    BY <1>3, <2>1 DEF Stamps
  <2> QED
    BY <1>2, <2>1, <2>2
<1>4. ASSUME alive PROVE nextStep' <= step \/ HydratedAfter(0)'
  <2>1. CASE nextStep' = Head(outbox).nextStep
             /\ Head(outbox).kind \in {"ready", "frame", "hydrated"}
    <3>1. nextStep' <= step \/ HydratedAfter(1)
      BY <1>1, <1>4, <2>1 DEF Stamps
    <3>2. 0 \in Nat /\ 0 + 1 = 1
      OBVIOUS
    <3> QED
      BY <1>2, <3>1, <3>2
  <2>2. CASE nextStep' = nextStep /\ Head(outbox).kind # "hydrated"
    <3>1. nextStep <= step \/ HydratedAfter(0)
      BY <1>4 DEF Stamps
    <3>2. ASSUME HydratedAfter(0) PROVE HydratedAfter(1)
      <4>1. PICK k \in DOMAIN outbox : k > 0 /\ outbox[k].kind = "hydrated"
        BY <3>2 DEF HydratedAfter
      <4>2. k > 1
        BY <1>1, <2>2, <4>1
      <4> QED
        BY <4>1, <4>2 DEF HydratedAfter
    <3>3. 0 \in Nat /\ 0 + 1 = 1
      OBVIOUS
    <3> QED
      BY <1>2, <2>2, <3>1, <3>2, <3>3
  <2> QED
    BY <2>1, <2>2
<1> QED
  BY <1>3, <1>4 DEF Stamps

LEMMA SameStamps ==
    ASSUME Stamps, ~alive' \/ UNCHANGED <<alive, step, nextStep, inbox, outbox>>
    PROVE  Stamps'
BY DEF Stamps, HydratedAfter

LEMMA StampsStep ==
    ASSUME IInv, [Next]_vars
    PROVE  Stamps'
<1>1. Types /\ Shape /\ Requests /\ Stamps
  BY DEF IInv
<1>2. CASE TimerFires
  <2>1. PICK d \in Deltas : Post(<<[kind |-> "tick", ms |-> d]>>)
    BY <1>2 DEF TimerFires
  <2> DEFINE m == [kind |-> "tick", ms |-> d]
  <2>2. m \in ToWorker /\ m.kind \notin {"enqueueCommands", "hydrate"}
    BY ControllerAssumption DEF ControllerAssumption, ToWorker
  <2>3. Post(<<m>>) /\ UNCHANGED <<alive, step, nextStep, outbox>>
    BY <1>2, <2>1 DEF TimerFires, mainVars, statusVars, workerVars
  <2> HIDE DEF m
  <2>4. /\ <<m>> \in Seq(ToWorker)
        /\ \A i \in 1..Len(<<m>>) : <<m>>[i].kind \notin {"enqueueCommands", "hydrate"}
    BY <2>2
  <2> QED
    BY <1>1, <2>3, <2>4, PostUnstamped
<1>3. CASE SendEvent \/ EnqueueCommands
  BY <1>1, <1>3, CommandPosted, PostCommand DEF mainVars, statusVars, workerVars
<1>4. CASE StepSimulation
  <2>1. PICK n \in Nat : Post(Batches(n))
    BY <1>4, ControllerAssumption DEF StepSimulation, ControllerAssumption
  <2>2. /\ Batches(n) \in Seq(ToWorker)
        /\ \A i \in 1..Len(Batches(n)) : Batches(n)[i].kind \notin {"enqueueCommands", "hydrate"}
    BY BatchTypes
  <2>3. UNCHANGED <<alive, step, nextStep, outbox>>
    BY <1>4 DEF StepSimulation, workerVars
  <2> QED
    BY <1>1, <2>1, <2>2, <2>3, PostUnstamped
<1>5. CASE Save
  <2>1. /\ <<[kind |-> "serialize"]>> \in Seq(ToWorker)
        /\ \A i \in 1..Len(<<[kind |-> "serialize"]>>) :
              <<[kind |-> "serialize"]>>[i].kind \notin {"enqueueCommands", "hydrate"}
    BY DEF ToWorker
  <2>2. Post(<<[kind |-> "serialize"]>>) /\ UNCHANGED <<alive, step, nextStep, outbox>>
    BY <1>5 DEF Save, workerVars
  <2> QED
    BY <1>1, <2>1, <2>2, PostUnstamped
<1>6. CASE SaveRead
  <2> DEFINE m == [kind |-> "hydrate", save |-> file]
  <2>1. m \in ToWorker /\ m.kind = "hydrate"
    BY <1>1, <1>6 DEF SaveRead, Types, ToWorker
  <2>2. Quiet
    BY <1>1, <1>6, IdleIsQuiet DEF SaveRead, RequestOf
  <2>3. Post(<<m>>) /\ UNCHANGED <<alive, step, nextStep, outbox>>
    BY <1>6 DEF SaveRead, workerVars
  <2> HIDE DEF m
  <2> QED
    BY <1>1, <2>1, <2>2, <2>3, PostHydrate
<1>7. CASE Work
  <2>1. alive /\ inbox # <<>> /\ inbox' = Tail(inbox) /\ UNCHANGED nextStep /\ step \in Nat
    BY <1>1, <1>7, WorkTakes DEF mainVars, statusVars, Types
  <2>2. CASE HandleInit
    <3>1. [kind |-> "ready", nextStep |-> step] \in FromWorker
      BY <2>1 DEF FromWorker
    <3>2. step' = step /\ Emit([kind |-> "ready", nextStep |-> step])
      BY <2>2 DEF HandleInit, workerVars
    <3> QED
      BY <1>1, <2>1, <3>1, <3>2, TakeForward DEF Within
  <2>3. CASE HandleTick
    <3>1. /\ step' \in Nat /\ step <= step'
          /\ Emit([kind |-> "frame", nextStep |-> step'])
      BY <1>1, <2>3, TickFacts
    <3>2. PICK n \in Nat : n = step' /\ Emit([kind |-> "frame", nextStep |-> n])
      BY <3>1
    <3>3. [kind |-> "frame", nextStep |-> n] \in FromWorker
      BY DEF FromWorker
    <3> QED
      BY <1>1, <2>1, <3>1, <3>2, <3>3, TakeForward DEF Within
  <2>4. CASE HandleTickThrows
    BY <1>1, <2>4, SameStamps DEF HandleTickThrows
  <2>5. CASE HandleCommands
    BY <1>1, <2>1, <2>5, TakeForward DEF HandleCommands, workerVars
  <2>6. CASE HandleSerialize
    <3>1. [kind |-> "serialized", state |-> [step |-> step, bankMs |-> bankMs]] \in FromWorker
      BY <1>1 DEF FromWorker, SaveState, Types
    <3>2. step' = step /\ Emit([kind |-> "serialized", state |-> [step |-> step, bankMs |-> bankMs]])
      BY <2>6 DEF HandleSerialize, workerVars
    <3> QED
      BY <1>1, <2>1, <3>1, <3>2, TakeForward DEF Within
  <2>7. CASE HandleHydrate
    <3>1. Head(inbox).kind = "hydrate" /\ Emit([kind |-> "hydrated", nextStep |-> step'])
      BY <2>7 DEF HandleHydrate, Takes
    <3>2. Head(inbox) \in ToWorker
      BY <1>1, <2>1, TakeOne DEF Types
    <3>3. step' \in Nat
      BY <2>7, <3>1, <3>2, ToWorkerFacts DEF HandleHydrate
    <3> QED
      BY <1>1, <2>1, <3>1, <3>3, TakeHydrate
  <2>8. CASE RefuseRequest
    <3>1. [kind |-> "requestError"] \in FromWorker
      BY DEF FromWorker
    <3>2. step' = step /\ Emit([kind |-> "requestError"])
      BY <2>8 DEF RefuseRequest, workerVars
    <3> QED
      BY <1>1, <2>1, <3>1, <3>2, TakeForward DEF Within
  <2> QED
    BY <1>7, <2>2, <2>3, <2>4, <2>5, <2>6, <2>7, <2>8 DEF Work
<1>8. CASE OnReady \/ OnFrame \/ OnHydrated
  BY <1>1, <1>8, HearStep DEF OnReady, OnFrame, OnHydrated, AdoptStep, Hears, workerVars
<1>9. CASE OnSerialized \/ OnRequestError
  BY <1>1, <1>9, HearStep DEF OnSerialized, OnRequestError, Hears, workerVars
<1>10. CASE BridgeFails \/ Dispose \/ OnFailure \/ WorkerDies
  BY <1>1, <1>10, SameStamps DEF BridgeFails, Dispose, OnFailure, WorkerDies, Fail
<1>11. CASE Pause \/ Resume \/ Load \/ SaveWritten \/ ReadFails \/ UNCHANGED vars
  BY <1>1, <1>11, SameStamps
  DEF Pause, Resume, Load, SaveWritten, ReadFails, vars, mainVars, statusVars, workerVars
<1> QED
  BY <1>2, <1>3, <1>4, <1>5, <1>6, <1>7, <1>8, <1>9, <1>10, <1>11 DEF Next, Call, Hear

-----------------------------------------------------------------------------
LEMMA InitIInv == Init => IInv
<1> SUFFICES ASSUME Init PROVE IInv
  OBVIOUS
<1>1. Types
  <2>1. [kind |-> "init"] \in ToWorker /\ <<>> \in Seq(FromWorker) /\ <<>> \in Seq(BOOLEAN)
    BY DEF ToWorker
  <2>2. inbox \in Seq(ToWorker) /\ outbox \in Seq(FromWorker) /\ freezes \in Seq(BOOLEAN)
    BY <2>1 DEF Init
  <2> QED
    BY <2>2 DEF Init, Types, Tools
<1>2. Shape /\ Flags
  BY DEF Init, Shape, Flags, RequestOf, IsFrozen, Running
<1>3. DOMAIN inbox = {1} /\ inbox[1].kind = "init" /\ DOMAIN outbox = {}
  BY DEF Init
<1>4. Requests
  BY <1>3 DEF Requests, IsRequest
<1>5. Stamps
  BY <1>3 DEF Init, Stamps
<1> QED
  BY <1>1, <1>2, <1>4, <1>5 DEF IInv

LEMMA IInvStep == IInv /\ [Next]_vars => IInv'
BY TypesStep, ShapeStep, FlagsStep, RequestsStep, StampsStep DEF IInv

-----------------------------------------------------------------------------
(* Induction over the messages of a channel. The library's induction        *)
(* theorems take an operator; this one takes the set of the numbers for     *)
(* which a claim holds.                                                     *)
(* Every set of numbers has a least one.                                    *)
LEMMA LeastNatural ==
    ASSUME NEW S, S \subseteq Nat, S # {}
    PROVE  \E n \in S : \A m \in S : n <= m
<1>1. \E x \in S : \A y \in S : ~(<<y, x>> \in OpToRel(<, Nat))
  BY NatLessThanWellFounded, WFMin, Zenon
<1>2. \A x, y \in Nat : <<y, x>> \in OpToRel(<, Nat) <=> y < x
  BY Zenon DEF OpToRel
<1>3. PICK n \in S : \A m \in S : ~(m < n)
  BY <1>1, <1>2
<1>4. \A m \in S : n <= m
  <2> TAKE m \in S
  <2>1. m \in Nat /\ n \in Nat /\ ~(m < n)
    BY <1>3
  <2> QED
    BY <2>1
<1> QED
  BY <1>4

(* A set with 0 and with the successor of each of its numbers has them all. *)
LEMMA SetInduction ==
    ASSUME NEW S, 0 \in S, \A n \in Nat : n \in S => n + 1 \in S
    PROVE  Nat \subseteq S
<1> SUFFICES ASSUME Nat \ S # {} PROVE FALSE
  OBVIOUS
<1>1. PICK n \in Nat \ S : \A m \in Nat \ S : n <= m
  BY LeastNatural
<1>2. n # 0
  BY <1>1
<1>3. n - 1 \in Nat /\ n - 1 \in S
  BY <1>1, <1>2
<1> QED
  BY <1>1, <1>3

-----------------------------------------------------------------------------
(* The milliseconds of the ticks among messages.                            *)

Millis(m) == IF m.kind = "tick" THEN m.ms ELSE 0

Sums(g, messages) ==
    /\ g[0] = 0
    /\ \A i \in 0..Len(messages) : g[i] \in Nat
    /\ \A i \in 1..Len(messages) : g[i] = g[i - 1] + Millis(messages[i])

(* They are a number.                                                       *)
LEMMA MillisNat ==
    ASSUME NEW m \in ToWorker
    PROVE  Millis(m) \in Nat
BY ToWorkerFacts DEF Millis

(* TickMs adds the messages up from the first to the last.                  *)
LEMMA TickMsSums ==
    ASSUME NEW messages \in Seq(ToWorker)
    PROVE  \E g : Sums(g, messages) /\ TickMs(messages) = g[Len(messages)]
<1> DEFINE L == Len(messages)
           Step(g, n) == IF n = 0 THEN 0
                         ELSE g[n - 1] + IF messages[n].kind = "tick" THEN messages[n].ms ELSE 0
           Defined == {n \in Nat : \E g : g = [m \in 0..n |-> Step(g, m)]}
<1>1. L \in Nat
  OBVIOUS
<1>2. 0 \in Defined
  <2> DEFINE g == [m \in 0..0 |-> 0]
  <2>1. g = [m \in 0..0 |-> Step(g, m)]
    OBVIOUS
  <2> HIDE DEF g
  <2> QED
    BY <2>1
<1>3. ASSUME NEW n \in Nat, n \in Defined PROVE n + 1 \in Defined
  <2>1. PICK g : g = [m \in 0..n |-> Step(g, m)]
    BY <1>3
  <2> DEFINE h == [m \in 0..(n + 1) |-> IF m = n + 1 THEN Step(g, m) ELSE g[m]]
  <2>2. \A m \in 0..(n + 1) : m # 0 => h[m - 1] = g[m - 1]
    OBVIOUS
  <2> HIDE DEF h
  <2>3. \A m \in 0..(n + 1) : Step(h, m) = Step(g, m)
    BY <2>2
  <2> HIDE DEF Step
  <2>4. \A m \in 0..n : g[m] = Step(g, m)
    BY <2>1
  <2>5. h = [m \in 0..(n + 1) |-> h[m]] /\ \A m \in 0..(n + 1) : h[m] = Step(g, m)
    BY <2>4 DEF h
  <2>6. h = [m \in 0..(n + 1) |-> Step(h, m)]
    BY <2>3, <2>5
  <2>7. \E f : f = [m \in 0..(n + 1) |-> Step(f, m)]
    BY <2>6
  <2> QED
    BY <2>7
<1>4. Nat \subseteq Defined
  BY <1>2, <1>3, SetInduction
<1> DEFINE g == CHOOSE sum : sum = [m \in 0..L |-> Step(sum, m)]
<1>5. g = [m \in 0..L |-> Step(g, m)]
  BY <1>1, <1>4
<1>6. TickMs(messages) = g[L]
  BY DEF TickMs
<1> HIDE DEF g
<1>7. \A m \in 0..L : g[m] = Step(g, m)
  BY <1>5
<1>8. g[0] = 0
  BY <1>1, <1>7
<1>9. \A i \in 1..L : g[i] = g[i - 1] + Millis(messages[i])
  BY <1>1, <1>7 DEF Millis
<1>10. \A i \in 1..L : Millis(messages[i]) \in Nat
  <2> TAKE i \in 1..L
  <2>1. messages[i] \in ToWorker
    OBVIOUS
  <2> QED
    BY <2>1, MillisNat
<1> HIDE DEF L
<1> DEFINE Right == {n \in Nat : n <= L => g[n] \in Nat}
<1>11. 0 \in Right
  BY <1>8
<1>12. ASSUME NEW n \in Nat, n \in Right PROVE n + 1 \in Right
  <2> SUFFICES ASSUME n + 1 <= L PROVE g[n + 1] \in Nat
    OBVIOUS
  <2>1. g[n] \in Nat /\ n + 1 \in 1..L /\ (n + 1) - 1 = n
    BY <1>1, <1>12
  <2>2. g[n + 1] = g[n] + Millis(messages[n + 1])
    BY <1>9, <2>1
  <2> QED
    BY <1>10, <2>1, <2>2
<1>13. Nat \subseteq Right
  BY <1>11, <1>12, SetInduction
<1>14. \A i \in 0..L : g[i] \in Nat
  BY <1>1, <1>13
<1>15. Sums(g, messages)
  BY <1>8, <1>9, <1>14 DEF Sums, L
<1> QED
  BY <1>6, <1>15 DEF L

(* Whatever adds the messages up from k on comes to their sum.              *)
LEMMA SumsAgree ==
    ASSUME NEW messages \in Seq(ToWorker), NEW g, Sums(g, messages),
           NEW h, NEW k \in Nat, h[k] \in Nat,
           \A i \in 1..Len(messages) : h[k + i] = h[k + i - 1] + Millis(messages[i])
    PROVE  h[k + Len(messages)] = h[k] + g[Len(messages)]
<1> DEFINE L == Len(messages)
           Right == {n \in Nat : n <= L => h[k + n] = h[k] + g[n]}
<1>1. L \in Nat
  OBVIOUS
<1>2. \A i \in 1..L : Millis(messages[i]) \in Nat
  <2> TAKE i \in 1..L
  <2>1. messages[i] \in ToWorker
    OBVIOUS
  <2> QED
    BY <2>1, MillisNat
<1>3. /\ g[0] = 0 /\ \A i \in 0..L : g[i] \in Nat
      /\ \A i \in 1..L : g[i] = g[i - 1] + Millis(messages[i])
      /\ \A i \in 1..L : h[k + i] = h[k + i - 1] + Millis(messages[i])
  BY DEF Sums
<1> HIDE DEF L
<1>4. 0 \in Right
  BY <1>3
<1>5. ASSUME NEW n \in Nat, n \in Right PROVE n + 1 \in Right
  <2> SUFFICES ASSUME n + 1 <= L PROVE h[k + (n + 1)] = h[k] + g[n + 1]
    OBVIOUS
  <2>1. /\ n + 1 \in 1..L /\ n \in 0..L /\ (n + 1) - 1 = n /\ k + (n + 1) - 1 = k + n
        /\ h[k + n] = h[k] + g[n]
    BY <1>1, <1>5
  <2>2. /\ g[n + 1] = g[n] + Millis(messages[n + 1])
        /\ h[k + (n + 1)] = h[k + n] + Millis(messages[n + 1])
    BY <1>3, <2>1
  <2>3. g[n] \in Nat /\ Millis(messages[n + 1]) \in Nat
    BY <1>2, <1>3, <2>1
  <2> QED
    BY <2>1, <2>2, <2>3
<1>6. Nat \subseteq Right
  BY <1>4, <1>5, SetInduction
<1> QED
  BY <1>1, <1>6 DEF L

LEMMA TickMsNat ==
    ASSUME NEW messages \in Seq(ToWorker)
    PROVE  TickMs(messages) \in Nat
<1>1. PICK g : Sums(g, messages) /\ TickMs(messages) = g[Len(messages)]
  BY TickMsSums
<1>2. Len(messages) \in 0..Len(messages)
  OBVIOUS
<1> QED
  BY <1>1, <1>2 DEF Sums

(* Messages one after the other.                                            *)
LEMMA TickMsConcat ==
    ASSUME NEW a \in Seq(ToWorker), NEW b \in Seq(ToWorker)
    PROVE  TickMs(a \o b) = TickMs(a) + TickMs(b)
<1> DEFINE ab == a \o b
<1>1. /\ ab \in Seq(ToWorker) /\ Len(ab) = Len(a) + Len(b)
      /\ \A i \in 1..(Len(a) + Len(b)) :
            ab[i] = IF i <= Len(a) THEN a[i] ELSE b[i - Len(a)]
  BY ConcatProperties
<1>2. Len(a) \in Nat /\ Len(b) \in Nat
  OBVIOUS
<1> HIDE DEF ab
<1>3. PICK f : Sums(f, a) /\ TickMs(a) = f[Len(a)]
  BY TickMsSums
<1>4. PICK g : Sums(g, b) /\ TickMs(b) = g[Len(b)]
  BY TickMsSums
<1>5. PICK h : Sums(h, ab) /\ TickMs(ab) = h[Len(ab)]
  BY <1>1, TickMsSums
<1>6. /\ h[0] = 0 /\ \A i \in 0..Len(ab) : h[i] \in Nat
      /\ \A i \in 1..Len(ab) : h[i] = h[i - 1] + Millis(ab[i])
  BY <1>5 DEF Sums
<1>7. \A i \in 1..Len(a) : h[0 + i] = h[0 + i - 1] + Millis(a[i])
  BY <1>1, <1>2, <1>6
<1>8. \A i \in 1..Len(b) : h[Len(a) + i] = h[Len(a) + i - 1] + Millis(b[i])
  <2> TAKE i \in 1..Len(b)
  <2>1. Len(a) + i \in 1..Len(ab) /\ ~(Len(a) + i <= Len(a)) /\ (Len(a) + i) - Len(a) = i
    BY <1>1, <1>2
  <2>2. ab[Len(a) + i] = b[i]
    BY <1>1, <2>1
  <2> QED
    BY <1>6, <2>1, <2>2
<1>9. h[0 + Len(a)] = h[0] + f[Len(a)]
  <2>1. 0 \in Nat /\ h[0] \in Nat
    BY <1>6
  <2> QED
    BY <1>3, <1>7, <2>1, SumsAgree
<1>10. h[Len(a) + Len(b)] = h[Len(a)] + g[Len(b)]
  <2>1. h[Len(a)] \in Nat
    BY <1>1, <1>2, <1>6
  <2> QED
    BY <1>2, <1>4, <1>8, <2>1, SumsAgree
<1>11. TickMs(a) \in Nat
  BY TickMsNat
<1>12. h[Len(a)] = TickMs(a)
  BY <1>2, <1>3, <1>6, <1>9, <1>11
<1> QED
  BY <1>1, <1>4, <1>5, <1>10, <1>12 DEF ab

(* One message, and the first of many.                                      *)
LEMMA TickMsOne ==
    ASSUME NEW m \in ToWorker
    PROVE  TickMs(<<m>>) = Millis(m)
<1>1. <<m>> \in Seq(ToWorker) /\ Len(<<m>>) = 1 /\ <<m>>[1] = m
  OBVIOUS
<1>2. PICK g : Sums(g, <<m>>) /\ TickMs(<<m>>) = g[1]
  BY <1>1, TickMsSums
<1>3. g[0] = 0 /\ g[1] = g[1 - 1] + Millis(m)
  BY <1>1, <1>2 DEF Sums
<1> QED
  BY <1>2, <1>3, MillisNat

LEMMA TickMsTail ==
    ASSUME NEW messages \in Seq(ToWorker), messages # <<>>
    PROVE  /\ Head(messages) \in ToWorker /\ Tail(messages) \in Seq(ToWorker)
           /\ TickMs(messages) = Millis(Head(messages)) + TickMs(Tail(messages))
<1>1. /\ Head(messages) \in ToWorker /\ Tail(messages) \in Seq(ToWorker)
      /\ messages = <<Head(messages)>> \o Tail(messages)
  OBVIOUS
<1>2. <<Head(messages)>> \in Seq(ToWorker)
  BY <1>1
<1>3. TickMs(<<Head(messages)>> \o Tail(messages))
        = TickMs(<<Head(messages)>>) + TickMs(Tail(messages))
  BY <1>1, <1>2, TickMsConcat
<1> QED
  BY <1>1, <1>3, TickMsOne

-----------------------------------------------------------------------------
(* Dividing by a positive number. Quotient and remainder have names of      *)
(* their own because the provers multiply a named number better.            *)
LEMMA Division ==
    ASSUME NEW S \in Nat \ {0}, NEW x \in Nat
    PROVE  \E q, r \in Nat : q = x \div S /\ r = x % S /\ r < S /\ x = S * q + r
<1>1. PICK q \in Nat : q = x \div S
  OBVIOUS
<1>2. PICK r \in Nat : r = x % S
  OBVIOUS
<1>3. r < S
  BY <1>2
<1>4. x = S * q + r
  BY <1>1, <1>2
<1> QED
  BY <1>1, <1>2, <1>3, <1>4

(* What is divided determines quotient and remainder.                       *)
LEMMA DivisionUnique ==
    ASSUME NEW S \in Nat \ {0}, NEW q \in Nat, NEW r \in Nat, r < S
    PROVE  (S * q + r) \div S = q /\ (S * q + r) % S = r
<1>1. (S * q + r) \div S = q
  OBVIOUS
<1>2. (S * q + r) % S = r
  OBVIOUS
<1> QED
  BY <1>1, <1>2

(* n steps more.                                                            *)
LEMMA DivisionAdds ==
    ASSUME NEW S \in Nat \ {0}, NEW x \in Nat, NEW n \in Nat
    PROVE  (x + S * n) \div S = x \div S + n
<1>1. PICK q, r \in Nat : q = x \div S /\ r < S /\ x = S * q + r
  BY Division
<1>2. S * (q + n) = S * q + S * n
  OBVIOUS
<1>3. S * q \in Nat /\ S * n \in Nat
  OBVIOUS
<1>4. x + S * n = S * (q + n) + r
  BY <1>1, <1>2, <1>3
<1>5. (S * (q + n) + r) \div S = q + n
  <2>1. q + n \in Nat
    OBVIOUS
  <2> QED
    BY <1>1, <2>1, DivisionUnique
<1> QED
  BY <1>1, <1>4, <1>5

(* Dividing in two parts, the remainder of the first kept for the second.   *)
LEMMA DivisionSplits ==
    ASSUME NEW S \in Nat \ {0}, NEW x \in Nat, NEW y \in Nat
    PROVE  /\ x \div S \in Nat /\ x % S \in Nat
           /\ (x + y) \div S = x \div S + ((x % S) + y) \div S
<1>1. PICK q, r \in Nat : q = x \div S /\ r = x % S /\ r < S /\ x = S * q + r
  BY Division
<1>2. PICK z \in Nat : z = r + y
  OBVIOUS
<1>3. (z + S * q) \div S = z \div S + q
  BY DivisionAdds
<1>4. x + y = z + S * q
  <2>1. S * q \in Nat
    OBVIOUS
  <2> QED
    BY <1>1, <1>2, <2>1
<1>5. z \div S \in Nat
  OBVIOUS
<1> QED
  BY <1>1, <1>2, <1>3, <1>4, <1>5

(* More milliseconds give no fewer steps.                                   *)
LEMMA DivisionMonotone ==
    ASSUME NEW S \in Nat \ {0}, NEW x \in Nat, NEW y \in Nat, x <= y
    PROVE  x \div S <= y \div S /\ x \div S \in Nat /\ y \div S \in Nat
OBVIOUS

(* However many batches a step call needs, they carry its steps in full.    *)
LEMMA BatchesSum ==
    ASSUME NEW n \in Nat
    PROVE  /\ Batches(n) \in Seq(ToWorker)
           /\ TickMs(Batches(n)) = StepMs * n
<1>1. PICK F \in Nat \ {0}, S \in Nat \ {0} : F = MaxStepsPerFrame /\ S = StepMs
  BY ControllerAssumption DEF ControllerAssumption
<1>2. PICK q, r \in Nat : q = n \div F /\ r = n % F /\ r < F /\ n = F * q + r
  BY <1>1, Division
<1>3. PICK c \in Nat : c = IF r = 0 THEN q ELSE q + 1
  OBVIOUS
<1>4. BatchCount(n) = c
  <2>1. n + F - 1 \in Nat /\ n + F - 1 = (r + F - 1) + F * q /\ r + F - 1 \in Nat
    <3>1. F * q \in Nat
      OBVIOUS
    <3> QED
      BY <1>2, <3>1
  <2>2. ((r + F - 1) + F * q) \div F = (r + F - 1) \div F + q
    BY <2>1, DivisionAdds
  <2>3. (r + F - 1) \div F = IF r = 0 THEN 0 ELSE 1
    <3>1. CASE r = 0
      <4>1. F - 1 \in Nat /\ (F * 0 + (F - 1)) \div F = 0
        BY DivisionUnique
      <4> QED
        BY <3>1, <4>1
    <3>2. CASE r # 0
      <4>1. r - 1 \in Nat /\ r - 1 < F
        BY <1>2, <3>2
      <4>2. (F * 1 + (r - 1)) \div F = 1
        BY <4>1, DivisionUnique
      <4> QED
        BY <3>2, <4>1, <4>2
    <3> QED
      BY <3>1, <3>2
  <2> QED
    BY <1>1, <1>3, <2>1, <2>2, <2>3 DEF BatchCount
<1> DEFINE b == Batches(n)
           size(i) == IF i * F <= n THEN F ELSE r
<1>5. b \in Seq(ToWorker)
  BY BatchTypes
<1>6. b = [i \in 1..c |-> [kind |-> "tick", ms |-> S * size(i)]]
  BY <1>1, <1>2, <1>4 DEF Batches
<1>7. Len(b) = c /\ \A i \in 1..c : Millis(b[i]) = S * size(i)
  <2> HIDE DEF size
  <2>1. DOMAIN b = 1..c
    BY <1>6
  <2>2. Len(b) = c
    BY <1>3, <1>5, <2>1
  <2> QED
    BY <1>6, <2>2 DEF Millis
<1>8. PICK g : Sums(g, b) /\ TickMs(b) = g[c]
  BY <1>5, <1>7, TickMsSums
<1> HIDE DEF b
<1>9. g[0] = 0 /\ \A i \in 1..c : g[i] = g[i - 1] + S * size(i)
  BY <1>7, <1>8 DEF Sums
<1>10. PICK P \in Nat : P = S * F
  OBVIOUS
<1>11. \A i \in 1..q : i * F <= n
  <2> TAKE i \in 1..q
  <2>1. i * F <= F * q
    OBVIOUS
  <2>2. i * F \in Nat /\ F * q \in Nat
    OBVIOUS
  <2> QED
    BY <1>2, <2>1, <2>2
<1>12. \A i \in 1..q : g[i] = g[i - 1] + P
  BY <1>3, <1>9, <1>10, <1>11
<1> DEFINE Right == {i \in Nat : i <= q => g[i] = P * i}
<1>13. 0 \in Right
  BY <1>9
<1>14. ASSUME NEW i \in Nat, i \in Right PROVE i + 1 \in Right
  <2> SUFFICES ASSUME i + 1 <= q PROVE g[i + 1] = P * (i + 1)
    OBVIOUS
  <2>1. i + 1 \in 1..q /\ (i + 1) - 1 = i /\ g[i] = P * i
    BY <1>14
  <2>2. g[i + 1] = P * i + P
    BY <1>12, <2>1
  <2> QED
    BY <2>2
<1>15. g[q] = P * q
  <2>1. Nat \subseteq Right
    <3> HIDE DEF Right
    <3> QED
      BY <1>13, <1>14, SetInduction
  <2> QED
    BY <2>1
<1>16. P * q = S * (F * q)
  BY <1>10
<1>17. PICK p \in Nat : p = F * q
  OBVIOUS
<1>18. CASE r = 0
  <2>1. n = p
    BY <1>2, <1>17, <1>18
  <2> QED
    BY <1>1, <1>3, <1>5, <1>8, <1>15, <1>16, <1>17, <1>18, <2>1 DEF b
<1>19. CASE r # 0
  <2>1. ~((q + 1) * F <= n)
    <3>1. (q + 1) * F = F * q + F
      OBVIOUS
    <3> QED
      BY <1>2, <1>17, <3>1
  <2>2. c \in 1..c /\ c = q + 1 /\ c - 1 = q
    BY <1>3, <1>19
  <2>3. g[c] = S * p + S * r
    BY <1>9, <1>15, <1>16, <1>17, <2>1, <2>2
  <2>4. S * (p + r) = S * p + S * r
    OBVIOUS
  <2>5. n = p + r
    BY <1>2, <1>17
  <2> QED
    BY <1>1, <1>5, <1>8, <2>3, <2>4, <2>5 DEF b
<1> QED
  BY <1>18, <1>19

-----------------------------------------------------------------------------
(* What the step calls wait for.                                            *)

(* The step the worker reaches with the time it has been sent.              *)
Reach == step + (bankMs + TickMs(inbox)) \div StepMs

Paid ==
    /\ waiters \in Seq(Nat)
    /\ alive => \A i \in DOMAIN waiters : waiters[i] <= Reach

(* It is a step, whatever is under way.                                     *)
LEMMA ReachNat ==
    ASSUME NEW from \in Nat, NEW bank \in Nat, NEW messages \in Seq(ToWorker)
    PROVE  from + (bank + TickMs(messages)) \div StepMs \in Nat
<1>1. TickMs(messages) \in Nat
  BY TickMsNat
<1>2. StepMs \in Nat \ {0} /\ bank + TickMs(messages) \in Nat
  BY <1>1, ControllerAssumption DEF ControllerAssumption
<1>3. (bank + TickMs(messages)) \div StepMs \in Nat
  BY <1>2, DivisionSplits
<1> QED
  BY <1>3

(* Waiters that were waiting before, and a worker that reaches as far.      *)
LEMMA StillPaid ==
    ASSUME Types, Paid, waiters' \in Seq(Nat), Types',
           \A i \in DOMAIN waiters' : \E j \in DOMAIN waiters : waiters'[i] = waiters[j],
           alive' => alive /\ Reach <= Reach'
    PROVE  Paid'
<1>1. Reach \in Nat /\ Reach' \in Nat
  BY ReachNat DEF Reach, Types
<1>2. ASSUME alive', NEW i \in DOMAIN waiters' PROVE waiters'[i] <= Reach'
  <2>1. PICK j \in DOMAIN waiters : waiters'[i] = waiters[j]
    OBVIOUS
  <2>2. waiters[j] <= Reach /\ waiters[j] \in Nat
    BY <1>2 DEF Paid
  <2> QED
    BY <1>1, <1>2, <2>1, <2>2
<1> QED
  BY <1>2 DEF Paid

(* The same waiters.                                                        *)
LEMMA SameWaiters ==
    ASSUME Types, Paid, Types', waiters' = waiters, alive' => alive /\ Reach <= Reach'
    PROVE  Paid'
<1>1. waiters' \in Seq(Nat)
  BY DEF Paid
<1>2. \A i \in DOMAIN waiters' : \E j \in DOMAIN waiters : waiters'[i] = waiters[j]
  OBVIOUS
<1> QED
  BY <1>1, <1>2, StillPaid

(* A load, a failure and a disposal leave nobody waiting.                   *)
LEMMA NobodyWaits ==
    ASSUME waiters' = <<>>
    PROVE  Paid'
BY DEF Paid

(* More messages under way, none of them taken.                             *)
LEMMA PostReaches ==
    ASSUME Types, NEW messages \in Seq(ToWorker), Post(messages), UNCHANGED <<step, bankMs>>
    PROVE  /\ Reach <= Reach'
           /\ \A n \in Nat : TickMs(messages) = StepMs * n => Reach' = Reach + n
<1>1. PICK S \in Nat \ {0} : S = StepMs
  BY ControllerAssumption DEF ControllerAssumption
<1>2. PICK a \in Nat, b \in Nat : a = TickMs(inbox) /\ b = TickMs(messages)
  BY TickMsNat DEF Types
<1>3. TickMs(inbox') = a + b
  BY <1>2, TickMsConcat DEF Post, Types
<1>4. PICK x \in Nat : x = bankMs + a
  BY DEF Types
<1>5. Reach = step + x \div S /\ Reach' = step + (x + b) \div S
  <2>1. bankMs + (a + b) = x + b
    BY <1>2, <1>4 DEF Types
  <2> QED
    BY <1>1, <1>2, <1>3, <1>4, <2>1 DEF Reach
<1>6. step \in Nat
  BY DEF Types
<1>7. x \div S <= (x + b) \div S /\ x \div S \in Nat /\ (x + b) \div S \in Nat
  <2>1. x + b \in Nat /\ x <= x + b
    BY <1>2, <1>4
  <2> QED
    BY <1>4, <2>1, DivisionMonotone
<1>8. \A n \in Nat : (x + S * n) \div S = x \div S + n
  BY <1>1, <1>4, DivisionAdds
<1>9. ASSUME NEW n \in Nat, b = S * n PROVE Reach' = Reach + n
  <2>1. (x + b) \div S = x \div S + n
    BY <1>8, <1>9
  <2> QED
    BY <1>5, <1>6, <1>7, <2>1
<1>10. Reach <= Reach'
  BY <1>5, <1>6, <1>7
<1> QED
  BY <1>1, <1>2, <1>9, <1>10

(* The worker takes a message that is no tick.                              *)
LEMMA TakeReaches ==
    ASSUME Types, inbox # <<>>, inbox' = Tail(inbox), Head(inbox).kind # "tick",
           UNCHANGED <<step, bankMs>>
    PROVE  Reach' = Reach
<1>1. TickMs(inbox) = Millis(Head(inbox)) + TickMs(Tail(inbox))
  BY TickMsTail DEF Types
<1>2. TickMs(Tail(inbox)) \in Nat
  BY TickMsTail, TickMsNat DEF Types
<1>3. TickMs(inbox') = TickMs(inbox)
  BY <1>1, <1>2 DEF Millis
<1> QED
  BY <1>3 DEF Reach

(* A tick: the bank keeps what is left of a step.                           *)
LEMMA TickReaches ==
    ASSUME Types, HandleTick
    PROVE  Reach <= Reach'
<1>1. PICK S \in Nat \ {0} : S = StepMs
  BY ControllerAssumption DEF ControllerAssumption
<1>2. inbox # <<>> /\ inbox' = Tail(inbox) /\ Head(inbox).kind = "tick"
  BY DEF HandleTick, Takes
<1>3. PICK m \in Nat : m = Head(inbox).ms
  BY <1>2, TakeOne, ToWorkerFacts DEF Types
<1>4. PICK t \in Nat : t = TickMs(inbox')
  BY <1>2, TickMsTail, TickMsNat DEF Types
<1>5. TickMs(inbox) = m + t
  BY <1>2, <1>3, <1>4, TickMsTail DEF Types, Millis
<1>6. PICK x \in Nat : x = bankMs + m
  BY <1>3 DEF Types
<1>7. PICK extra \in Extra : step' = step + x \div S + extra /\ bankMs' = x % S
  BY <1>1, <1>3, <1>6, Zenon DEF HandleTick
<1>8. extra \in Nat /\ step \in Nat
  BY ControllerAssumption DEF ControllerAssumption, Types
<1>9. /\ x \div S \in Nat /\ x % S \in Nat
      /\ (x + t) \div S = x \div S + ((x % S) + t) \div S
  BY <1>1, <1>4, <1>6, DivisionSplits
<1>10. ((x % S) + t) \div S \in Nat
  <2>1. (x % S) + t \in Nat
    BY <1>4, <1>9
  <2> QED
    BY <2>1, DivisionSplits
<1>11. Reach = step + (x + t) \div S
  <2>1. bankMs + (m + t) = x + t
    BY <1>3, <1>4, <1>6 DEF Types
  <2> QED
    BY <1>1, <1>5, <2>1 DEF Reach
<1>12. Reach' = step' + ((x % S) + t) \div S
  BY <1>1, <1>4, <1>7 DEF Reach
<1> QED
  BY <1>7, <1>8, <1>9, <1>10, <1>11, <1>12

(* A sequence over a set of numbers, grown by at most one of them.          *)
LEMMA GrownSequence ==
    ASSUME NEW A, A \subseteq Nat, NEW s \in Seq(A)
    PROVE  /\ s \in Seq(Nat)
           /\ \A i \in DOMAIN s : s[i] \in A
           /\ <<>> \in Seq(A)
           /\ \A e \in A : Append(s, e) \in Seq(A)
<1>1. s \in Seq(Nat) /\ s \in [1..Len(s) -> A]
  BY SeqMonotonic, LenProperties
<1>2. \A e \in A : Append(s, e) \in Seq(A)
  BY AppendProperties
<1> QED
  BY <1>1, <1>2, EmptySeq

(* What is left of the waiters are waiters.                                 *)
LEMMA UnresolvedFacts ==
    ASSUME NEW pending \in Seq(Nat), NEW reached
    PROVE  /\ Unresolved(pending, reached) \in Seq(Nat)
           /\ \A i \in DOMAIN Unresolved(pending, reached) :
                 \E j \in DOMAIN pending : Unresolved(pending, reached)[i] = pending[j]
<1> DEFINE L == Len(pending)
           Some == {pending[j] : j \in 1..L}
           Step(kept, n) == IF n = 0 THEN <<>>
                            ELSE IF pending[n] <= reached THEN kept[n - 1]
                                 ELSE Append(kept[n - 1], pending[n])
           Defined == {n \in Nat : \E kept : kept = [m \in 0..n |-> Step(kept, m)]}
<1>1. L \in Nat /\ DOMAIN pending = 1..L
  OBVIOUS
<1>2. 0 \in Defined
  <2> DEFINE kept == [m \in 0..0 |-> <<>>]
  <2>1. kept = [m \in 0..0 |-> Step(kept, m)]
    OBVIOUS
  <2> HIDE DEF kept
  <2> QED
    BY <2>1
<1>3. ASSUME NEW n \in Nat, n \in Defined PROVE n + 1 \in Defined
  <2>1. PICK kept : kept = [m \in 0..n |-> Step(kept, m)]
    BY <1>3
  <2> DEFINE h == [m \in 0..(n + 1) |-> IF m = n + 1 THEN Step(kept, m) ELSE kept[m]]
  <2>2. \A m \in 0..(n + 1) : m # 0 => h[m - 1] = kept[m - 1]
    OBVIOUS
  <2> HIDE DEF h
  <2>3. \A m \in 0..(n + 1) : Step(h, m) = Step(kept, m)
    BY <2>2
  <2> HIDE DEF Step
  <2>4. \A m \in 0..n : kept[m] = Step(kept, m)
    BY <2>1
  <2>5. h = [m \in 0..(n + 1) |-> h[m]] /\ \A m \in 0..(n + 1) : h[m] = Step(kept, m)
    BY <2>4 DEF h
  <2>6. h = [m \in 0..(n + 1) |-> Step(h, m)]
    BY <2>3, <2>5
  <2>7. \E f : f = [m \in 0..(n + 1) |-> Step(f, m)]
    BY <2>6
  <2> QED
    BY <2>7
<1>4. Nat \subseteq Defined
  BY <1>2, <1>3, SetInduction
<1> DEFINE kept == CHOOSE kept : kept = [m \in 0..L |-> Step(kept, m)]
<1>5. kept = [m \in 0..L |-> Step(kept, m)]
  BY <1>1, <1>4
<1>6. Unresolved(pending, reached) = kept[L]
  BY DEF Unresolved
<1> HIDE DEF kept
<1>7. \A m \in 0..L : kept[m] = Step(kept, m)
  BY <1>5
<1>8. kept[0] = <<>>
  BY <1>1, <1>7
<1>9. ASSUME NEW n \in Nat, n + 1 <= L
      PROVE  /\ pending[n + 1] \in Some
             /\ kept[n + 1] \in {kept[n], Append(kept[n], pending[n + 1])}
  <2>1. n + 1 \in 1..L /\ n + 1 \in 0..L /\ n + 1 # 0 /\ (n + 1) - 1 = n
    BY <1>1, <1>9
  <2>2. kept[n + 1] = Step(kept, n + 1)
    BY <1>7, <2>1, Zenon
  <2> QED
    BY <2>1, <2>2
<1>10. Some \subseteq Nat /\ \A x \in Some : \E j \in DOMAIN pending : x = pending[j]
  BY <1>1
<1> HIDE DEF Some, L, Step
<1> DEFINE Right == {n \in Nat : n <= L => kept[n] \in Seq(Some)}
<1>11. 0 \in Right
  <2>1. kept[0] \in Seq(Some)
    BY <1>8, EmptySeq
  <2> QED
    BY <2>1
<1>12. ASSUME NEW n \in Nat, n \in Right PROVE n + 1 \in Right
  <2> SUFFICES ASSUME n + 1 <= L PROVE kept[n + 1] \in Seq(Some)
    OBVIOUS
  <2>1. kept[n] \in Seq(Some)
    BY <1>1, <1>12
  <2>2. pending[n + 1] \in Some /\ kept[n + 1] \in {kept[n], Append(kept[n], pending[n + 1])}
    BY <1>9
  <2>3. Append(kept[n], pending[n + 1]) \in Seq(Some)
    BY <1>10, <2>1, <2>2, GrownSequence
  <2> QED
    BY <2>1, <2>2, <2>3
<1>13. Nat \subseteq Right
  <2> HIDE DEF Right
  <2> QED
    BY <1>11, <1>12, SetInduction
<1>14. Unresolved(pending, reached) \in Seq(Some)
  BY <1>1, <1>6, <1>13
<1> QED
  BY <1>10, <1>14, GrownSequence

(* A step call waits for steps whose time it sends along.                   *)
LEMMA StepPaid ==
    ASSUME Types, Types', Paid, Shape, Requests, Stamps, StepSimulation
    PROVE  Paid'
<1>1. PICK n \in Nat : /\ waiters' = Unresolved(Append(waiters, TargetStep(n)), nextStep)
                       /\ Post(Batches(n))
  BY ControllerAssumption DEF StepSimulation, ControllerAssumption
<1>2. Running /\ freezes = <<>> /\ UNCHANGED <<alive, step, bankMs>>
  BY DEF StepSimulation, IsFrozen, workerVars
<1>3. Reach \in Nat /\ Reach' = Reach + n
  BY <1>1, <1>2, BatchesSum, PostReaches, ReachNat DEF Types, Reach
<1>4. alive => nextStep <= step
  <2> SUFFICES ASSUME alive, HydratedAfter(0) PROVE FALSE
    BY DEF Stamps
  <2> QED
    BY <1>2 DEF HydratedAfter, Requests, IsAnswer, Shape
<1>5. step <= Reach
  <2>1. PICK d : d = (bankMs + TickMs(inbox)) \div StepMs
    OBVIOUS
  <2>2. 0 + d \in Nat
    BY <2>1, ReachNat DEF Types
  <2>3. step \in Nat
    BY DEF Types
  <2> QED
    BY <2>1, <2>2, <2>3 DEF Reach
<1>6. TargetStep(n) \in Nat /\ (alive => TargetStep(n) <= Reach + n)
  <2>1. CASE waiters = <<>>
    BY <1>3, <1>4, <1>5, <2>1 DEF TargetStep, Types
  <2>2. CASE waiters # <<>>
    <3>1. Last(waiters) = waiters[Len(waiters)] /\ Len(waiters) \in DOMAIN waiters
      BY <2>2 DEF Paid, Last
    <3>2. waiters[Len(waiters)] \in Nat /\ (alive => waiters[Len(waiters)] <= Reach)
      BY <3>1 DEF Paid
    <3> QED
      BY <1>3, <2>2, <3>1, <3>2 DEF TargetStep
  <2> QED
    BY <2>1, <2>2
<1>7. /\ waiters' \in Seq(Nat)
      /\ \A i \in DOMAIN waiters' :
            \/ \E j \in DOMAIN waiters : waiters'[i] = waiters[j]
            \/ waiters'[i] = TargetStep(n)
  <2> DEFINE pending == Append(waiters, TargetStep(n))
  <2>1. /\ pending \in Seq(Nat)
        /\ \A i \in DOMAIN pending :
              \/ \E j \in DOMAIN waiters : pending[i] = waiters[j]
              \/ pending[i] = TargetStep(n)
    BY <1>6, AppendProperties DEF Paid
  <2> HIDE DEF pending
  <2>2. /\ Unresolved(pending, nextStep) \in Seq(Nat)
        /\ \A i \in DOMAIN Unresolved(pending, nextStep) :
              \E j \in DOMAIN pending : Unresolved(pending, nextStep)[i] = pending[j]
    BY <2>1, UnresolvedFacts
  <2>3. waiters' = Unresolved(pending, nextStep)
    BY <1>1 DEF pending
  <2> QED
    BY <2>1, <2>2, <2>3
<1>8. ASSUME alive', NEW i \in DOMAIN waiters' PROVE waiters'[i] <= Reach'
  <2>1. CASE \E j \in DOMAIN waiters : waiters'[i] = waiters[j]
    <3>1. PICK j \in DOMAIN waiters : waiters'[i] = waiters[j]
      BY <2>1
    <3>2. waiters[j] \in Nat /\ waiters[j] <= Reach
      BY <1>2, <1>8 DEF Paid
    <3> QED
      BY <1>3, <3>1, <3>2
  <2>2. CASE waiters'[i] = TargetStep(n)
    BY <1>2, <1>3, <1>6, <1>8, <2>2
  <2> QED
    BY <1>7, <2>1, <2>2
<1> QED
  BY <1>7, <1>8 DEF Paid

(* No step of the system leaves a step call without its time.               *)
LEMMA PaidStep ==
    ASSUME IInv, Paid, [Next]_vars
    PROVE  Paid'
<1>1. Types /\ Types' /\ Shape /\ Requests /\ Stamps
  BY TypesStep DEF IInv
<1>2. CASE TimerFires
  <2>1. PICK d \in Deltas : Post(<<[kind |-> "tick", ms |-> d]>>)
    BY <1>2 DEF TimerFires
  <2>2. <<[kind |-> "tick", ms |-> d]>> \in Seq(ToWorker)
    <3>1. d \in Nat
      BY ControllerAssumption DEF ControllerAssumption
    <3>2. [kind |-> "tick", ms |-> d] \in ToWorker
      BY <3>1 DEF ToWorker
    <3> QED
      BY <3>2
  <2>3. UNCHANGED <<step, bankMs, alive, waiters>>
    BY <1>2 DEF TimerFires, workerVars, mainVars
  <2> QED
    BY <1>1, <2>1, <2>2, <2>3, PostReaches, SameWaiters
<1>3. CASE SendEvent \/ EnqueueCommands \/ Save \/ SaveRead
  <2>1. \E m \in ToWorker : Post(<<m>>)
    <3>1. CASE SendEvent \/ EnqueueCommands
      BY <1>1, <3>1, CommandPosted, CommandFacts DEF Types
    <3>2. CASE Save
      <4>1. [kind |-> "serialize"] \in ToWorker
        BY DEF ToWorker
      <4> QED
        BY <3>2, <4>1 DEF Save
    <3>3. CASE SaveRead
      <4>1. [kind |-> "hydrate", save |-> file] \in ToWorker
        BY <1>1, <3>3 DEF SaveRead, Types, ToWorker
      <4> QED
        BY <3>3, <4>1 DEF SaveRead
    <3> QED
      BY <1>3, <3>1, <3>2, <3>3
  <2>2. PICK m \in ToWorker : Post(<<m>>)
    BY <2>1
  <2>3. <<m>> \in Seq(ToWorker)
    OBVIOUS
  <2>4. UNCHANGED <<step, bankMs, alive, waiters>>
    BY <1>3, CommandPosted DEF Save, SaveRead, workerVars, mainVars
  <2> QED
    BY <1>1, <2>2, <2>3, <2>4, PostReaches, SameWaiters
<1>4. CASE StepSimulation
  BY <1>1, <1>4, StepPaid
<1>5. CASE HandleTick
  <2>1. UNCHANGED <<alive, waiters>>
    BY <1>5 DEF HandleTick, mainVars
  <2> QED
    BY <1>1, <1>5, <2>1, TickReaches, SameWaiters
<1>6. CASE HandleInit \/ HandleCommands \/ HandleSerialize \/ RefuseRequest
  <2>1. /\ inbox # <<>> /\ inbox' = Tail(inbox) /\ Head(inbox).kind # "tick"
        /\ UNCHANGED <<step, bankMs, alive, waiters>>
    BY <1>6 DEF HandleInit, HandleCommands, HandleSerialize, RefuseRequest, Takes,
               workerVars, mainVars
  <2>2. Reach \in Nat
    BY <1>1, ReachNat DEF Reach, Types
  <2> QED
    BY <1>1, <2>1, <2>2, TakeReaches, SameWaiters
<1>7. CASE HandleHydrate
  <2>1. Len(inbox) >= 1 /\ Head(inbox) = inbox[1] /\ 1 \in DOMAIN inbox
    BY <1>1, <1>7, HeadTailProperties, LenProperties, EmptySeq DEF HandleHydrate, Takes, Types
  <2>2. inbox[1].kind = "hydrate" /\ Running
    BY <1>1, <1>7, <2>1 DEF HandleHydrate, Takes, Shape
  <2>3. RequestOf(tool) = {"hydrate"}
    BY <1>1, <2>1, <2>2 DEF Requests, IsRequest
  <2>4. waiters = <<>>
    BY <1>1, <2>3 DEF RequestOf, Shape
  <2> QED
    BY <1>7, <2>4, NobodyWaits DEF HandleHydrate, mainVars
<1>8. CASE HandleTickThrows \/ WorkerDies
  BY <1>8 DEF Paid, HandleTickThrows, WorkerDies, mainVars
<1>9. CASE BridgeFails \/ OnFailure \/ Dispose \/ Load \/ OnHydrated
  BY <1>9, NobodyWaits
  DEF BridgeFails, OnFailure, Fail, WaitersOnFailure, Dispose, Load, InterruptSteps,
      OnHydrated, RejectWaiters
<1>10. CASE OnReady \/ OnFrame
  <2>1. UNCHANGED <<step, bankMs, alive, inbox>>
    BY <1>10 DEF OnReady, OnFrame, Hears, workerVars
  <2>2. Reach' = Reach /\ Reach \in Nat
    BY <1>1, <2>1, ReachNat DEF Reach, Types
  <2>3. CASE waiters' = waiters
    BY <1>1, <2>1, <2>2, <2>3, SameWaiters
  <2>4. CASE waiters' = Unresolved(waiters, nextStep')
    <3>1. /\ waiters' \in Seq(Nat)
          /\ \A i \in DOMAIN waiters' : \E j \in DOMAIN waiters : waiters'[i] = waiters[j]
      BY <2>4, UnresolvedFacts DEF Paid
    <3> QED
      BY <1>1, <2>1, <2>2, <3>1, StillPaid
  <2> QED
    BY <1>10, <2>3, <2>4 DEF OnReady, OnFrame, ResolveWaiters
<1>11. CASE \/ Pause \/ Resume \/ SaveWritten \/ ReadFails \/ OnSerialized \/ OnRequestError
            \/ UNCHANGED vars
  <2>1. UNCHANGED <<step, bankMs, alive, inbox, waiters>>
    BY <1>11 DEF Pause, Resume, SaveWritten, ReadFails, OnSerialized, OnRequestError, Hears,
                vars, workerVars, mainVars
  <2> QED
    BY <2>1 DEF Paid, Reach
<1> QED
  BY <1>2, <1>3, <1>4, <1>5, <1>6, <1>7, <1>8, <1>9, <1>10, <1>11 DEF Next, Call, Hear, Work

-----------------------------------------------------------------------------
(* IInv holds in every state: the messages in the two channels, the flags  *)
(* of the controller and the state of the worker agree with one another     *)
(* (createSimWorkerController, main.ts).                                    *)
THEOREM InductiveInvariant == Spec => []IInv
BY InitIInv, IInvStep, PTL DEF Spec

(* PauseAsAsked: the pause flag is what the last tool asked for, and the    *)
(* tick timer runs exactly while the simulation may, however the freezes of *)
(* runWhileCommandIngressFrozen (main.ts) nest and end.                     *)
THEOREM PauseCorrect == Spec => []PauseAsAsked
<1>1. IInv => PauseAsAsked
  BY DEF IInv, Flags, PauseAsAsked
<1> QED
  BY <1>1, InductiveInvariant, PTL

(* NoStepDuringLoad: no step call waits while a load reads its file or waits*)
(* for the worker.                                                          *)
THEOREM LoadInterruptsSteps == Spec => []NoStepDuringLoad
<1>1. IInv => NoStepDuringLoad
  BY DEF IInv, Shape, NoStepDuringLoad
<1> QED
  BY <1>1, InductiveInvariant, PTL

(* HeldAsAsked: no command reaches the worker further ahead of its step     *)
(* than the caller of enqueueCommands (main.ts) asked for, across loads     *)
(* that move the worker back and the frames of the old runtime.             *)
THEOREM HeldAsAskedCorrect == Spec => []HeldAsAsked
<1>1. IInv => HeldAsAsked
  BY DEF IInv, Stamps, HeldAsAsked
<1> QED
  BY <1>1, InductiveInvariant, PTL

(* TargetsPaidFor: the steps a step call waits for have been run or their   *)
(* time is under way in whole, however stepSimulation (main.ts) divides     *)
(* them into batches and the worker banks what is left of a step.           *)
THEOREM TargetsCorrect == Spec => []TargetsPaidFor
<1>1. Init => Paid
  BY DEF Init, Paid
<1>2. Paid => TargetsPaidFor
  BY DEF Paid, Reach, TargetsPaidFor
<1> QED
  BY <1>1, <1>2, PaidStep, InductiveInvariant, PTL DEF Spec
=============================================================================
