--------------------------- MODULE GameSave_proofs ---------------------------
(***************************************************************************)
(* For every step size, budget, number of systems, queue and set of        *)
(* commands: the fixed-step loop conserves time, never runs past its       *)
(* budget, never leaves a command behind the step counter and never        *)
(* executes or answers a command twice, whatever handlers enqueue and      *)
(* credit, and whichever subscribers throw. And across any number of       *)
(* saves, loads and new instances: a loaded game keeps the time it was     *)
(* handed and the commands it was saved with, unless its jump went past    *)
(* the saved step; a command is never executed or answered twice by one    *)
(* instance; and the step stamped on player commands is never behind the   *)
(* step the runtime is at.                                                 *)
(***************************************************************************)
EXTENDS GameSave, QueueOperations_proofs

-----------------------------------------------------------------------------
(* The loop, of which a game is one instance after another.                 *)

(* The parts of the loop's state that depend on where the call is.          *)
Phase ==
    /\ pc \in {"idle", "drain"} => stepsLeft = 0
    /\ pc \in {"capture", "commands", "systems"} => stepsLeft >= 1
    /\ pc # "commands" => batch = {}
    /\ pc \in {"commands", "systems"} => nextExecutableStep = currentStep + 1
    /\ nextExecutableStep >= currentStep

(* Steps run, paid for and still allowed add up to the call's limit.        *)
Budgeted == pc # "idle" => currentStep + stepsLeft + budget = stepLimit

(* The first step a queued command may still have: once the step's commands *)
(* are captured, none is left for it.                                       *)
EarliestStep == IF pc \in {"commands", "systems"} THEN currentStep + 1 ELSE currentStep

Fresh ==
    /\ jumpSequence <= nextSequence
    /\ \A e \in entries : e.sequence >= jumpSequence => e.step >= EarliestStep

(* Commands that have not been answered or dropped yet.                     *)
Live == entries \cup batch \cup pending

OnePlace ==
    /\ \A e, f \in Live : e.sequence = f.sequence => e = f
    /\ entries \cap batch = {}
    /\ (entries \cup batch) \cap pending = {}
    /\ \A e \in Live : e.sequence < nextSequence /\ e.sequence \notin answered
    /\ \A n \in answered : n < nextSequence
    /\ \A o \in outcomes : o.sequence \in answered

(* What holds of a runtime whatever it was loaded from (see GameSave).      *)
LoopInv ==
    /\ WellFormed
    /\ TypeInv
    /\ Phase
    /\ Budgeted
    /\ OnePlace

IInv == LoopInv /\ TimeConserved /\ Fresh

-----------------------------------------------------------------------------
(* Arithmetic of the banks.                                                 *)

LEMMA WholeSteps ==
    ASSUME RuntimeAssumption, NEW x \in Nat
    PROVE  /\ x \div StepMs \in Nat
           /\ (x \div StepMs) * StepMs <= x
           /\ x \div StepMs = 0 => x < StepMs
BY DEF RuntimeAssumption

LEMMA LessSteps ==
    ASSUME RuntimeAssumption, NEW a \in Nat, NEW b \in Nat, a <= b
    PROVE  a * StepMs <= b * StepMs /\ a * StepMs \in Nat
BY DEF RuntimeAssumption

LEMMA LeastFacts ==
    ASSUME NEW a \in Nat, NEW b \in Nat
    PROVE  /\ Least(a, b) \in Nat
           /\ Least(a, b) <= a
           /\ Least(a, b) <= b
           /\ Least(a, b) = a \/ Least(a, b) = b
BY DEF Least

(* What a batch may hold is bounded by the budget and paid for in the bank. *)
LEMMA AffordableFacts ==
    ASSUME RuntimeAssumption, TypeInv
    PROVE  /\ AffordableSteps \in Nat
           /\ AffordableSteps <= budget
           /\ AffordableSteps * StepMs \in Nat
           /\ AffordableSteps * StepMs <= Available(source)
           /\ AffordableSteps = 0 => budget = 0 \/ Available(source) < StepMs
<1> DEFINE whole == Available(source) \div StepMs
<1>1. Available(source) \in Nat /\ budget \in Nat
  BY DEF TypeInv, Available
<1>2. /\ whole \in Nat
      /\ whole * StepMs <= Available(source)
      /\ whole = 0 => Available(source) < StepMs
  BY <1>1, WholeSteps
<1>3. whole * StepMs \in Nat
  BY <1>2, LessSteps
<1> HIDE DEF whole
<1>4. AffordableSteps = Least(whole, budget)
  BY DEF AffordableSteps, whole
<1>5. /\ AffordableSteps \in Nat
      /\ AffordableSteps <= whole
      /\ AffordableSteps <= budget
      /\ AffordableSteps = whole \/ AffordableSteps = budget
  BY <1>1, <1>2, <1>4, LeastFacts
<1>6. AffordableSteps * StepMs <= whole * StepMs /\ AffordableSteps * StepMs \in Nat
  BY <1>2, <1>5, LessSteps
<1>7. AffordableSteps * StepMs <= Available(source)
  BY <1>1, <1>2, <1>3, <1>6
<1> QED
  BY <1>2, <1>5, <1>6, <1>7

(* Taking a sum out of the banks that they hold.                            *)
LEMMA ConsumeFacts ==
    ASSUME TypeInv, NEW amount \in Nat, amount <= Available(source),
           Consume(source, amount)
    PROVE  /\ hostMs' \in Nat
           /\ creditedMs' \in Nat
           /\ hostMs' + creditedMs' + amount = hostMs + creditedMs
BY DEF TypeInv, Consume, Available, Least

-----------------------------------------------------------------------------
(* Queueing a command adds at most one entry, under a fresh number.         *)
LEMMA EnqueueAdds ==
    ASSUME NEW c \in Command, Enqueue(c), nextSequence \in Nat
    PROVE  \/ entries' \subseteq entries /\ nextSequence' = nextSequence
           \/ \E new \in Entry :
                 /\ new.sequence = nextSequence
                 /\ new.step = c.step
                 /\ entries' \subseteq entries \cup {new}
                 /\ nextSequence' = nextSequence + 1
<1>1. /\ Stamped(c, nextSequence) \in Entry
      /\ Stamped(c, nextSequence).sequence = nextSequence
      /\ Stamped(c, nextSequence).step = c.step
  BY StampedType DEF Stamped
<1>2. CASE EnqueueRefused(c)
  BY <1>2 DEF EnqueueRefused, queueVars
<1>3. CASE EnqueueWithRoom(c)
  BY <1>1, <1>3 DEF EnqueueWithRoom, Insert
<1>4. CASE EnqueueFull(c)
  BY <1>1, <1>4 DEF EnqueueFull, InsertEvicting
<1> QED
  BY <1>2, <1>3, <1>4 DEF Enqueue

(* What the game's code can queue between or inside ticks.                  *)
LEMMA StampedCommand ==
    ASSUME TypeInv, EnqueueStamped
    PROVE  \E c \in Command : Enqueue(c) /\ c.step >= nextExecutableStep
<1>1. PICK ahead \in Ahead, t \in Types, x \in Payloads, p \in Priority, ts \in Timestamps :
        Enqueue([type |-> t, payload |-> x, priority |-> p, timestamp |-> ts,
                 step |-> nextExecutableStep + ahead])
  BY DEF EnqueueStamped, EnqueueAt
<1> DEFINE c == [type |-> t, payload |-> x, priority |-> p, timestamp |-> ts,
                 step |-> nextExecutableStep + ahead]
<1>2. nextExecutableStep + ahead \in Nat /\ nextExecutableStep + ahead >= nextExecutableStep
  BY RuntimeAssumption DEF RuntimeAssumption, TypeInv
<1>3. c \in Command /\ c.step >= nextExecutableStep
  BY <1>2, QueueAssumption DEF QueueAssumption, Command
<1> QED
  BY <1>1, <1>3

(* The lanes and their counter stay well-formed.                            *)
LEMMA WellFormedStep ==
    ASSUME LoopInv, [Next]_vars
    PROVE  WellFormed'
<1>1. CASE EnqueueStamped
  BY <1>1, StampedCommand, EnqueuePreserves, QueueAssumption DEF LoopInv
<1>2. CASE CaptureCommands
  BY <1>2, DequeuePreserves, QueueAssumption DEF LoopInv, CaptureCommands, TakeDue
<1>3. CASE UNCHANGED queueVars
  BY <1>3 DEF LoopInv, queueVars, WellFormed, QueueTypes, SizeInv, SequencesBelow
<1>4. [Next]_vars => EnqueueStamped \/ CaptureCommands \/ UNCHANGED queueVars
  BY DEF Next, Run, BeginBatch, Return, SkipCommand, ExecuteCommand,
         ExecuteAsyncCommand, DispatchAfterCommands, TickSystem, DispatchThrows,
         CompleteStep, Tick, DrainCreditedBacklog, CreditFromOutside, FastForward,
         HandlerCreditsTime, PromiseSettles, DrainOutcomes, DrainFailures, vars
<1> QED
  BY <1>1, <1>2, <1>3, <1>4

-----------------------------------------------------------------------------
(* The types of the banks, the counters and the place the call is at.       *)
BankTypes == hostMs \in Nat /\ creditedMs \in Nat /\ supplied \in Nat
StepTypes ==
    /\ currentStep \in Nat /\ nextExecutableStep \in Nat
    /\ jumpSequence \in Nat /\ lostSteps \in Nat
LoopTypes ==
    /\ pc \in {"idle", "drain", "capture", "commands", "systems"}
    /\ source \in {"any", "credited"}
    /\ stepLimit \in Nat /\ budget \in Nat /\ stepsLeft \in Nat
    /\ system \in 0..NSystems /\ batch \in SUBSET Entry
ResultTypes ==
    /\ pending \in SUBSET Entry
    /\ outcomes \in SUBSET [sequence: Nat, step: Nat, success: BOOLEAN]
    /\ failures \in SUBSET Nat /\ answered \in SUBSET Nat

LEMMA TypeParts ==
    TypeInv <=> QueueTypes /\ BankTypes /\ StepTypes /\ LoopTypes /\ ResultTypes
BY DEF TypeInv, BankTypes, StepTypes, LoopTypes, ResultTypes

(* The jump takes whole steps out of the banks and no more than they hold.  *)
LEMMA JumpByFacts ==
    ASSUME TypeInv, NEW ms \in Nat, JumpBy(ms)
    PROVE  \E steps \in Nat :
              /\ supplied' = supplied + ms
              /\ hostMs' \in Nat
              /\ creditedMs' \in Nat
              /\ hostMs' + creditedMs' + StepMs * steps = hostMs + creditedMs + ms
              /\ currentStep' = currentStep + steps
              /\ steps > 0 => /\ nextExecutableStep' = currentStep + steps
                              /\ jumpSequence' = nextSequence
              /\ steps = 0 => /\ nextExecutableStep' = nextExecutableStep
                              /\ jumpSequence' = jumpSequence
<1>1. LET steps == (hostMs + ms + creditedMs) \div StepMs
          fromHost == Least(hostMs + ms, steps * StepMs)
      IN  /\ supplied' = supplied + ms
          /\ hostMs' = hostMs + ms - fromHost
          /\ creditedMs' = creditedMs - (steps * StepMs - fromHost)
          /\ currentStep' = currentStep + steps
          /\ nextExecutableStep' =
                IF steps > 0 THEN currentStep + steps ELSE nextExecutableStep
          /\ jumpSequence' = IF steps > 0 THEN nextSequence ELSE jumpSequence
  BY DEF JumpBy, JumpSteps
<1> DEFINE steps == (hostMs + ms + creditedMs) \div StepMs
           cost == steps * StepMs
<1>2. ms \in Nat /\ hostMs \in Nat /\ creditedMs \in Nat /\ StepMs \in Nat
  BY RuntimeAssumption DEF RuntimeAssumption, TypeInv
<1>3. /\ steps \in Nat
      /\ cost <= hostMs + ms + creditedMs
  BY <1>2, WholeSteps, RuntimeAssumption
<1>4. cost \in Nat /\ cost = StepMs * steps
  BY <1>2, <1>3
<1>5. /\ supplied' = supplied + ms
      /\ hostMs' = hostMs + ms - Least(hostMs + ms, cost)
      /\ creditedMs' = creditedMs - (cost - Least(hostMs + ms, cost))
      /\ currentStep' = currentStep + steps
      /\ steps > 0 => /\ nextExecutableStep' = currentStep + steps
                      /\ jumpSequence' = nextSequence
      /\ steps = 0 => /\ nextExecutableStep' = nextExecutableStep
                      /\ jumpSequence' = jumpSequence
  BY <1>1
<1> HIDE DEF cost, steps
<1>6. hostMs' \in Nat /\ creditedMs' \in Nat /\ hostMs' + creditedMs' + cost = hostMs + creditedMs + ms
  BY <1>2, <1>3, <1>4, <1>5 DEF Least
<1> QED
  BY <1>2, <1>3, <1>4, <1>5, <1>6

LEMMA FastForwardFacts ==
    ASSUME TypeInv, FastForward
    PROVE  \E ms \in Nat, steps \in Nat :
              /\ supplied' = supplied + ms
              /\ hostMs' \in Nat
              /\ creditedMs' \in Nat
              /\ hostMs' + creditedMs' + StepMs * steps = hostMs + creditedMs + ms
              /\ currentStep' = currentStep + steps
              /\ steps > 0 => /\ nextExecutableStep' = currentStep + steps
                              /\ jumpSequence' = nextSequence
              /\ steps = 0 => /\ nextExecutableStep' = nextExecutableStep
                              /\ jumpSequence' = jumpSequence
<1>1. PICK ms \in Deltas : JumpBy(ms)
  BY DEF FastForward
<1>2. ms \in Nat
  BY RuntimeAssumption DEF RuntimeAssumption
<1> QED
  BY <1>1, <1>2, JumpByFacts

LEMMA BankTypesStep ==
    ASSUME LoopInv, [Next]_vars
    PROVE  BankTypes'
<1>1. BankTypes
  BY TypeParts DEF LoopInv
<1>2. CASE Tick \/ CreditFromOutside \/ HandlerCreditsTime
  BY <1>1, <1>2, RuntimeAssumption
  DEF Tick, CreditFromOutside, HandlerCreditsTime, CreditTime, BankTypes, RuntimeAssumption
<1>3. CASE FastForward
  BY <1>1, <1>3, FastForwardFacts DEF LoopInv, BankTypes
<1>4. CASE BeginBatch
  BY <1>1, <1>4, AffordableFacts, ConsumeFacts, RuntimeAssumption DEF LoopInv, BankTypes, BeginBatch
<1>5. CASE UNCHANGED bankVars
  BY <1>1, <1>5 DEF BankTypes, bankVars
<1>6. \/ Tick \/ CreditFromOutside \/ HandlerCreditsTime \/ FastForward \/ BeginBatch
      \/ UNCHANGED bankVars
  BY DEF Next, Run, Return, CaptureCommands, SkipCommand, ExecuteCommand,
         ExecuteAsyncCommand, DispatchAfterCommands, TickSystem, DispatchThrows,
         CompleteStep, DrainCreditedBacklog, EnqueueStamped, PromiseSettles,
         DrainOutcomes, DrainFailures, vars
<1> QED
  BY <1>2, <1>3, <1>4, <1>5, <1>6

LEMMA StepTypesStep ==
    ASSUME LoopInv, [Next]_vars
    PROVE  StepTypes'
<1>1. StepTypes /\ stepsLeft \in Nat /\ nextSequence \in Nat
  BY DEF LoopInv, TypeInv, StepTypes, QueueTypes
<1>2. CASE FastForward
  <2>1. lostSteps' = lostSteps
    BY <1>2 DEF FastForward, stepVars
  <2> QED
    BY <1>1, <1>2, <2>1, FastForwardFacts DEF LoopInv, StepTypes
<1>3. CASE CaptureCommands
  BY <1>1, <1>3 DEF CaptureCommands, NextStepWhileRunning, StepTypes
<1>4. CASE DispatchThrows
  BY <1>1, <1>4 DEF DispatchThrows, StepTypes
<1>5. CASE CompleteStep
  BY <1>1, <1>5 DEF CompleteStep, StepTypes
<1>6. CASE UNCHANGED stepVars
  BY <1>1, <1>6 DEF StepTypes, stepVars
<1>7. \/ FastForward \/ CaptureCommands \/ DispatchThrows \/ CompleteStep
      \/ UNCHANGED stepVars
  BY DEF Next, Run, BeginBatch, Return, SkipCommand, ExecuteCommand,
         ExecuteAsyncCommand, DispatchAfterCommands, TickSystem, Tick,
         DrainCreditedBacklog, CreditFromOutside, EnqueueStamped,
         HandlerCreditsTime, PromiseSettles, DrainOutcomes, DrainFailures, vars
<1> QED
  BY <1>2, <1>3, <1>4, <1>5, <1>6, <1>7

LEMMA LoopTypesStep ==
    ASSUME LoopInv, [Next]_vars
    PROVE  LoopTypes'
<1>1. LoopTypes /\ currentStep \in Nat
  BY DEF LoopInv, TypeInv, LoopTypes
<1>2. CASE Tick \/ DrainCreditedBacklog
  BY <1>1, <1>2, RuntimeAssumption
  DEF Tick, DrainCreditedBacklog, Call, LoopTypes, RuntimeAssumption
<1>3. CASE BeginBatch
  BY <1>1, <1>3, AffordableFacts, RuntimeAssumption
  DEF LoopInv, BeginBatch, ChargedBudget, LoopTypes
<1>4. CASE Return \/ DispatchAfterCommands \/ TickSystem \/ DispatchThrows
  BY <1>1, <1>4, RuntimeAssumption
  DEF Return, DispatchAfterCommands, TickSystem, DispatchThrows, LoopTypes, RuntimeAssumption
<1>5. CASE CaptureCommands
  <2>1. Drained(currentStep) \in SUBSET Entry
    BY DEF LoopInv, TypeInv, QueueTypes, Drained, Due
  <2>2. 0 \in 0..NSystems
    BY RuntimeAssumption DEF RuntimeAssumption
  <2> QED
    BY <1>1, <1>5, <2>1, <2>2 DEF CaptureCommands, LoopTypes
<1>6. CASE SkipCommand \/ ExecuteCommand \/ ExecuteAsyncCommand
  BY <1>1, <1>6 DEF SkipCommand, ExecuteCommand, ExecuteAsyncCommand, LoopTypes
<1>7. CASE CompleteStep
  <2>1. stepsLeft >= 1
    BY <1>7 DEF LoopInv, Phase, CompleteStep
  <2> QED
    BY <1>1, <1>7, <2>1 DEF CompleteStep, LoopTypes
<1>8. CASE UNCHANGED loopVars
  BY <1>1, <1>8 DEF LoopTypes, loopVars
<1>9. \/ Tick \/ DrainCreditedBacklog \/ Run \/ UNCHANGED loopVars
  BY DEF Next, CreditFromOutside, FastForward, EnqueueStamped,
         HandlerCreditsTime, PromiseSettles, DrainOutcomes, DrainFailures, vars
<1> QED
  BY <1>2, <1>3, <1>4, <1>5, <1>6, <1>7, <1>8, <1>9 DEF Run

LEMMA RecordTypes ==
    ASSUME ResultTypes, NEW e \in Entry, NEW success \in BOOLEAN, Record(e, success)
    PROVE  /\ outcomes' \in SUBSET [sequence: Nat, step: Nat, success: BOOLEAN]
           /\ failures' \in SUBSET Nat
           /\ answered' \in SUBSET Nat
<1>1. e.sequence \in Nat /\ e.step \in Nat
  BY DEF Entry
<1>2. [sequence |-> e.sequence, step |-> e.step, success |-> success]
        \in [sequence: Nat, step: Nat, success: BOOLEAN]
  BY <1>1
<1>3. outcomes' \in SUBSET [sequence: Nat, step: Nat, success: BOOLEAN]
  BY <1>2 DEF Record, ResultTypes
<1>4. failures' \in SUBSET Nat /\ answered' \in SUBSET Nat
  BY <1>1 DEF Record, ResultTypes
<1> QED
  BY <1>3, <1>4

LEMMA ResultTypesStep ==
    ASSUME LoopInv, [Next]_vars
    PROVE  ResultTypes'
<1>1. ResultTypes /\ batch \in SUBSET Entry
  BY DEF LoopInv, TypeInv, ResultTypes
<1>2. CASE ExecuteCommand
  BY <1>1, <1>2, RecordTypes DEF ExecuteCommand, ResultTypes
<1>3. CASE ExecuteAsyncCommand
  BY <1>1, <1>3 DEF ExecuteAsyncCommand, ResultTypes
<1>4. CASE PromiseSettles
  <2>1. PICK e \in pending, success \in BOOLEAN : Record(e, success) /\ pending' = pending \ {e}
    BY <1>4 DEF PromiseSettles
  <2>2. e \in Entry
    BY <1>1 DEF ResultTypes
  <2> QED
    BY <1>1, <2>1, <2>2, RecordTypes DEF ResultTypes
<1>5. CASE DrainOutcomes \/ DrainFailures
  BY <1>1, <1>5 DEF DrainOutcomes, DrainFailures, ResultTypes
<1>6. CASE UNCHANGED resultVars
  BY <1>1, <1>6 DEF ResultTypes, resultVars
<1>7. \/ ExecuteCommand \/ ExecuteAsyncCommand \/ PromiseSettles \/ DrainOutcomes
      \/ DrainFailures \/ UNCHANGED resultVars
  BY DEF Next, Run, BeginBatch, Return, CaptureCommands, SkipCommand,
         DispatchAfterCommands, TickSystem, DispatchThrows, CompleteStep, Tick,
         DrainCreditedBacklog, CreditFromOutside, FastForward, EnqueueStamped,
         HandlerCreditsTime, vars
<1> QED
  BY <1>2, <1>3, <1>4, <1>5, <1>6, <1>7

LEMMA TypeStep ==
    ASSUME LoopInv, [Next]_vars
    PROVE  TypeInv'
<1>1. QueueTypes'
  BY WellFormedStep DEF WellFormed
<1> QED
  BY <1>1, BankTypesStep, StepTypesStep, LoopTypesStep, ResultTypesStep
  DEF TypeInv, BankTypes, StepTypes, LoopTypes, ResultTypes

-----------------------------------------------------------------------------
(* Time is neither created nor lost. A price is kept folded so that the     *)
(* arithmetic below stays linear.                                           *)
Price(n) == StepMs * n

LEMMA PriceFacts ==
    /\ \A n \in Int : Price(n) \in Int
    /\ \A n, k \in Int : Price(n + k) = Price(n) + Price(k)
<1>1. StepMs \in Int
  BY RuntimeAssumption DEF RuntimeAssumption
<1>2. ASSUME NEW n \in Int PROVE Price(n) \in Int
  BY <1>1 DEF Price
<1>3. ASSUME NEW n \in Int, NEW k \in Int PROVE Price(n + k) = Price(n) + Price(k)
  BY <1>1 DEF Price
<1> QED
  BY <1>2, <1>3

LEMMA TimePriced == TimeConserved <=> supplied = hostMs + creditedMs + Price(StepsPaidFor)
BY DEF TimeConserved, Price

LEMMA TimeStep ==
    ASSUME LoopInv, TimeConserved, [Next]_vars
    PROVE  TimeConserved'
<1>1. /\ hostMs \in Nat /\ creditedMs \in Nat /\ supplied \in Nat
      /\ currentStep \in Nat /\ stepsLeft \in Nat /\ lostSteps \in Nat
      /\ StepMs \in Nat /\ InitialStep \in Nat
      /\ StepsPaidFor \in Int
  BY RuntimeAssumption DEF LoopInv, TypeInv, RuntimeAssumption, StepsPaidFor
<1>2. hostMs' \in Nat /\ creditedMs' \in Nat
      /\ supplied = hostMs + creditedMs + Price(StepsPaidFor)
  BY BankTypesStep, TimePriced DEF BankTypes, LoopInv
<1>3. CASE Tick \/ CreditFromOutside \/ HandlerCreditsTime
  <2>1. PICK ms \in Deltas : /\ supplied' = supplied + ms
                             /\ \/ hostMs' = hostMs + ms /\ creditedMs' = creditedMs
                                \/ hostMs' = hostMs /\ creditedMs' = creditedMs + ms
    BY <1>3 DEF Tick, CreditFromOutside, HandlerCreditsTime, CreditTime
  <2>2. UNCHANGED <<currentStep, stepsLeft, lostSteps>>
    BY <1>3 DEF Tick, CreditFromOutside, HandlerCreditsTime, Call, stepVars, loopVars
  <2>3. StepsPaidFor' = StepsPaidFor + 0
    BY <1>1, <2>2 DEF StepsPaidFor
  <2>4. ms \in Int /\ hostMs' + creditedMs' + Price(0) = hostMs + creditedMs + ms
    BY <1>1, <2>1, RuntimeAssumption DEF RuntimeAssumption, Price
  <2>6. StepsPaidFor \in Int /\ 0 \in Int
    BY <1>1, <2>1
  <2>7. /\ Price(StepsPaidFor + 0) = Price(StepsPaidFor) + Price(0)
        /\ Price(StepsPaidFor) \in Int /\ Price(0) \in Int
    BY <2>6, PriceFacts, Zenon
  <2>8. supplied' = hostMs' + creditedMs' + Price(StepsPaidFor')
    BY <1>1, <1>2, <2>1, <2>3, <2>4, <2>7
  <2> QED
    BY <2>8 DEF TimeConserved, Price
<1>4. CASE FastForward
  <2>1. PICK ms \in Nat, steps \in Nat :
          /\ supplied' = supplied + ms
          /\ hostMs' + creditedMs' + Price(steps) = hostMs + creditedMs + ms
          /\ currentStep' = currentStep + steps
    BY <1>4, FastForwardFacts DEF LoopInv, Price
  <2>2. UNCHANGED <<stepsLeft, lostSteps>>
    BY <1>4 DEF FastForward, loopVars
  <2>3. StepsPaidFor' = StepsPaidFor + steps
    BY <1>1, <2>1, <2>2 DEF StepsPaidFor
  <2>6. StepsPaidFor \in Int /\ steps \in Int
    BY <1>1, <2>1
  <2>7. /\ Price(StepsPaidFor + steps) = Price(StepsPaidFor) + Price(steps)
        /\ Price(StepsPaidFor) \in Int /\ Price(steps) \in Int
    BY <2>6, PriceFacts, Zenon
  <2>8. supplied' = hostMs' + creditedMs' + Price(StepsPaidFor')
    BY <1>1, <1>2, <2>1, <2>3, <2>7
  <2> QED
    BY <2>8 DEF TimeConserved, Price
<1>5. CASE BeginBatch
  <2>1. /\ AffordableSteps \in Nat /\ AffordableSteps * StepMs \in Nat
        /\ hostMs' + creditedMs' + AffordableSteps * StepMs = hostMs + creditedMs
        /\ stepsLeft' = AffordableSteps
        /\ UNCHANGED <<currentStep, lostSteps, supplied>>
    BY <1>5, AffordableFacts, ConsumeFacts, RuntimeAssumption DEF LoopInv, BeginBatch, stepVars
  <2>2. stepsLeft = 0
    BY <1>5 DEF BeginBatch, LoopInv, Phase
  <2>3. StepsPaidFor' = StepsPaidFor + AffordableSteps
    BY <1>1, <2>1, <2>2 DEF StepsPaidFor
  <2>4. Price(AffordableSteps) = AffordableSteps * StepMs
    BY <1>1, <2>1 DEF Price
  <2>5. /\ hostMs' + creditedMs' + Price(AffordableSteps) = hostMs + creditedMs + 0
        /\ supplied' = supplied + 0
    BY <1>1, <2>1, <2>4
  <2>6. StepsPaidFor \in Int /\ AffordableSteps \in Int
    BY <1>1, <2>1
  <2>7. /\ Price(StepsPaidFor + AffordableSteps) = Price(StepsPaidFor) + Price(AffordableSteps)
        /\ Price(StepsPaidFor) \in Int /\ Price(AffordableSteps) \in Int
    BY <2>6, PriceFacts, Zenon
  <2>8. supplied' = hostMs' + creditedMs' + Price(StepsPaidFor')
    BY <1>1, <1>2, <2>1, <2>3, <2>5, <2>7
  <2> QED
    BY <2>8 DEF TimeConserved, Price
<1>6. CASE \/ DispatchThrows \/ CompleteStep
           \/ UNCHANGED <<hostMs, creditedMs, supplied, currentStep, stepsLeft, lostSteps>>
  <2>1. UNCHANGED <<hostMs, creditedMs, supplied>>
    BY <1>6 DEF DispatchThrows, CompleteStep, bankVars
  <2>2. StepsPaidFor' = StepsPaidFor
    BY <1>1, <1>6 DEF DispatchThrows, CompleteStep, StepsPaidFor
  <2> QED
    BY <2>1, <2>2 DEF LoopInv, TimeConserved
<1>7. \/ Tick \/ CreditFromOutside \/ HandlerCreditsTime \/ FastForward \/ BeginBatch
      \/ DispatchThrows \/ CompleteStep
      \/ UNCHANGED <<hostMs, creditedMs, supplied, currentStep, stepsLeft, lostSteps>>
  BY DEF Next, Run, Return, CaptureCommands, SkipCommand, ExecuteCommand,
         ExecuteAsyncCommand, DispatchAfterCommands, TickSystem,
         DrainCreditedBacklog, Call, EnqueueStamped, PromiseSettles,
         DrainOutcomes, DrainFailures, vars, bankVars, stepVars, loopVars
<1> QED
  BY <1>3, <1>4, <1>5, <1>6, <1>7

LEMMA PhaseStep ==
    ASSUME LoopInv, [Next]_vars
    PROVE  Phase'
<1>1. /\ Phase /\ currentStep \in Nat /\ nextExecutableStep \in Nat /\ stepsLeft \in Nat
      /\ pc \in {"idle", "drain", "capture", "commands", "systems"}
  BY DEF LoopInv, TypeInv
<1>2. CASE Tick \/ DrainCreditedBacklog
  BY <1>1, <1>2 DEF Tick, DrainCreditedBacklog, Call, Idle, Phase, stepVars
<1>3. CASE FastForward
  <2>1. nextExecutableStep' >= currentStep'
    BY <1>1, <1>3, FastForwardFacts DEF LoopInv, Phase
  <2> QED
    BY <1>1, <1>3, <2>1 DEF FastForward, Idle, Phase, loopVars
<1>4. CASE BeginBatch
  BY <1>1, <1>4, AffordableFacts, RuntimeAssumption DEF LoopInv, BeginBatch, Phase, stepVars
<1>5. CASE Return \/ DispatchAfterCommands \/ TickSystem \/ DispatchThrows
  BY <1>1, <1>5 DEF Return, DispatchAfterCommands, TickSystem, DispatchThrows, Phase, stepVars
<1>6. CASE CaptureCommands
  BY <1>1, <1>6 DEF CaptureCommands, NextStepWhileRunning, Phase
<1>7. CASE SkipCommand \/ ExecuteCommand \/ ExecuteAsyncCommand
  BY <1>1, <1>7 DEF SkipCommand, ExecuteCommand, ExecuteAsyncCommand, Phase, stepVars
<1>8. CASE CompleteStep
  BY <1>1, <1>8 DEF CompleteStep, Phase
<1>9. CASE UNCHANGED <<loopVars, stepVars>>
  BY <1>1, <1>9 DEF Phase, loopVars, stepVars
<1>10. \/ Tick \/ DrainCreditedBacklog \/ FastForward \/ Run
       \/ UNCHANGED <<loopVars, stepVars>>
  BY DEF Next, CreditFromOutside, EnqueueStamped,
         HandlerCreditsTime, PromiseSettles, DrainOutcomes, DrainFailures, vars
<1> QED
  BY <1>2, <1>3, <1>4, <1>5, <1>6, <1>7, <1>8, <1>9, <1>10 DEF Run

LEMMA BudgetedStep ==
    ASSUME LoopInv, [Next]_vars
    PROVE  Budgeted'
<1>1. /\ Budgeted /\ Phase /\ currentStep \in Nat /\ stepsLeft \in Nat
      /\ budget \in Nat /\ stepLimit \in Nat
      /\ pc \in {"idle", "drain", "capture", "commands", "systems"}
  BY DEF LoopInv, TypeInv
<1>2. CASE Tick \/ DrainCreditedBacklog
  <2>1. PICK steps \in Nat : Call(source', steps)
    BY <1>2, RuntimeAssumption DEF Tick, DrainCreditedBacklog, Call, RuntimeAssumption
  <2>2. currentStep' = currentStep /\ stepsLeft = 0
    BY <1>1, <1>2 DEF Tick, DrainCreditedBacklog, Idle, Phase, stepVars
  <2> QED
    BY <1>1, <2>1, <2>2 DEF Call, Budgeted
<1>3. CASE FastForward
  BY <1>3 DEF FastForward, Idle, loopVars, Budgeted
<1>4. CASE BeginBatch
  <2>1. /\ AffordableSteps \in Nat
        /\ budget' = budget - AffordableSteps
        /\ stepsLeft' = AffordableSteps
        /\ pc = "drain" /\ stepsLeft = 0
        /\ UNCHANGED <<currentStep, stepLimit>>
    BY <1>1, <1>4, AffordableFacts, RuntimeAssumption
    DEF LoopInv, BeginBatch, ChargedBudget, Phase, stepVars
  <2> QED
    BY <1>1, <2>1 DEF Budgeted
<1>5. CASE Return \/ DispatchThrows
  BY <1>5 DEF Return, DispatchThrows, Budgeted
<1>6. CASE CompleteStep
  BY <1>1, <1>6 DEF CompleteStep, Budgeted
<1>7. CASE /\ pc # "idle" <=> pc' # "idle"
           /\ UNCHANGED <<currentStep, stepsLeft, budget, stepLimit>>
  BY <1>1, <1>7 DEF Budgeted
<1>8. \/ Tick \/ DrainCreditedBacklog \/ FastForward \/ BeginBatch \/ Return
      \/ DispatchThrows \/ CompleteStep
      \/ /\ pc # "idle" <=> pc' # "idle"
         /\ UNCHANGED <<currentStep, stepsLeft, budget, stepLimit>>
  BY DEF Next, Run, CaptureCommands, SkipCommand, ExecuteCommand, ExecuteAsyncCommand,
         DispatchAfterCommands, TickSystem, CreditFromOutside, EnqueueStamped,
         HandlerCreditsTime, PromiseSettles, DrainOutcomes, DrainFailures, vars,
         stepVars, loopVars
<1> QED
  BY <1>2, <1>3, <1>4, <1>5, <1>6, <1>7, <1>8

-----------------------------------------------------------------------------
(* No queued command falls behind the step counter.                         *)
LEMMA FreshStep ==
    ASSUME LoopInv, Fresh, [Next]_vars
    PROVE  Fresh'
<1>1. /\ Fresh /\ Phase /\ currentStep \in Nat /\ nextExecutableStep \in Nat
      /\ nextSequence \in Nat /\ jumpSequence \in Nat
      /\ pc \in {"idle", "drain", "capture", "commands", "systems"}
      /\ \A e \in entries : e.sequence \in Nat /\ e.step \in Nat /\ e.sequence < nextSequence
  BY DEF LoopInv, TypeInv, QueueTypes, WellFormed, SequencesBelow, Entry
<1>2. nextExecutableStep >= EarliestStep /\ EarliestStep \in Nat
  BY <1>1 DEF Phase, EarliestStep
<1>3. CASE EnqueueStamped
  <2>1. PICK c \in Command : Enqueue(c) /\ c.step >= nextExecutableStep
    BY <1>3, StampedCommand DEF LoopInv
  <2>2. UNCHANGED <<currentStep, jumpSequence, pc>>
    BY <1>3 DEF EnqueueStamped, stepVars, loopVars
  <2>3. EarliestStep' = EarliestStep
    BY <2>2 DEF EarliestStep
  <2>4. CASE entries' \subseteq entries /\ nextSequence' = nextSequence
    BY <1>1, <2>2, <2>3, <2>4 DEF Fresh
  <2>5. CASE \E new \in Entry : /\ new.sequence = nextSequence
                                /\ new.step = c.step
                                /\ entries' \subseteq entries \cup {new}
                                /\ nextSequence' = nextSequence + 1
    <3>1. PICK new \in Entry : /\ new.step = c.step
                               /\ entries' \subseteq entries \cup {new}
                               /\ nextSequence' = nextSequence + 1
      BY <2>5
    <3>2. new.step >= EarliestStep
      BY <1>1, <1>2, <2>1, <3>1 DEF Command
    <3> QED
      BY <1>1, <2>2, <2>3, <3>1, <3>2 DEF Fresh
  <2> QED
    BY <1>1, <2>1, <2>4, <2>5, EnqueueAdds
<1>4. CASE CaptureCommands
  <2>1. pc = "capture" /\ pc' = "commands" /\ entries' = entries \ Drained(currentStep)
        /\ UNCHANGED <<currentStep, jumpSequence, nextSequence>>
    BY <1>4 DEF CaptureCommands, TakeDue, DequeueUpToStep
  <2>2. totalSize = 0 => entries = {}
    BY FS_EmptySet DEF LoopInv, WellFormed, SizeInv
  <2>3. \A e \in entries' : e \in entries /\ e.step > currentStep
    BY <1>1, <2>1, <2>2 DEF Drained, Due
  <2> QED
    BY <1>1, <2>1, <2>3 DEF Fresh, EarliestStep
<1>5. CASE FastForward
  <2>1. UNCHANGED <<entries, nextSequence, pc>> /\ pc = "idle"
    BY <1>5 DEF FastForward, Idle, queueVars, loopVars
  <2>2. \/ UNCHANGED <<currentStep, jumpSequence>>
        \/ jumpSequence' = nextSequence
    BY <1>1, <1>5, FastForwardFacts DEF LoopInv
  <2> QED
    BY <1>1, <2>1, <2>2 DEF Fresh, EarliestStep
<1>6. CASE CompleteStep
  BY <1>1, <1>6 DEF CompleteStep, Fresh, EarliestStep, queueVars
<1>7. CASE /\ UNCHANGED <<entries, nextSequence, currentStep, jumpSequence>>
           /\ pc' \in {"commands", "systems"} => pc \in {"commands", "systems"}
  BY <1>1, <1>7 DEF Fresh, EarliestStep
<1>8. \/ EnqueueStamped \/ CaptureCommands \/ FastForward \/ CompleteStep
      \/ /\ UNCHANGED <<entries, nextSequence, currentStep, jumpSequence>>
         /\ pc' \in {"commands", "systems"} => pc \in {"commands", "systems"}
  BY DEF Next, Run, BeginBatch, Return, SkipCommand, ExecuteCommand,
         ExecuteAsyncCommand, DispatchAfterCommands, TickSystem, DispatchThrows,
         Tick, DrainCreditedBacklog, Call, CreditFromOutside, HandlerCreditsTime,
         PromiseSettles, DrainOutcomes, DrainFailures, vars, queueVars, stepVars,
         loopVars
<1> QED
  BY <1>3, <1>4, <1>5, <1>6, <1>7, <1>8

(* A command just queued is in one place: its number is new.                *)
LEMMA EnqueueOnePlace ==
    ASSUME OnePlace, TypeInv, NEW c \in Command, Enqueue(c),
           UNCHANGED <<batch, pending, answered, outcomes>>
    PROVE  OnePlace'
<1>1. /\ nextSequence \in Nat
      /\ \A e \in Live : e.sequence \in Nat
      /\ \A n \in answered : n \in Nat
  BY DEF TypeInv, QueueTypes, Live, Entry
<1>2. CASE entries' \subseteq entries /\ nextSequence' = nextSequence
  BY <1>1, <1>2 DEF OnePlace, Live
<1>3. CASE \E new \in Entry : /\ new.sequence = nextSequence
                              /\ new.step = c.step
                              /\ entries' \subseteq entries \cup {new}
                              /\ nextSequence' = nextSequence + 1
  <2>1. PICK new \in Entry : /\ new.sequence = nextSequence
                             /\ entries' \subseteq entries \cup {new}
                             /\ nextSequence' = nextSequence + 1
    BY <1>3
  <2>2. \A e \in Live : e.sequence < new.sequence
    BY <1>1, <2>1 DEF OnePlace
  <2>3. new.sequence \notin answered /\ new \notin Live
    BY <1>1, <2>1, <2>2 DEF OnePlace
  <2>4. Live' \subseteq Live \cup {new}
    BY <2>1 DEF Live
  <2>5. \A e, f \in Live' : e.sequence = f.sequence => e = f
    BY <1>1, <2>1, <2>2, <2>4 DEF OnePlace
  <2>6. \A e \in Live' : e.sequence < nextSequence' /\ e.sequence \notin answered'
    BY <1>1, <2>1, <2>2, <2>3, <2>4 DEF OnePlace
  <2>7. \A n \in answered' : n < nextSequence'
    BY <1>1, <2>1 DEF OnePlace
  <2>8. entries' \cap batch' = {} /\ (entries' \cup batch') \cap pending' = {}
    BY <1>1, <2>1, <2>3 DEF OnePlace, Live
  <2> QED
    BY <1>1, <2>5, <2>6, <2>7, <2>8 DEF OnePlace
<1> QED
  BY <1>1, <1>2, <1>3, EnqueueAdds

(* A command is in one place.                                               *)
LEMMA OnePlaceStep ==
    ASSUME LoopInv, [Next]_vars
    PROVE  OnePlace'
<1>1. /\ OnePlace /\ Phase /\ nextSequence \in Nat
      /\ \A e \in Live : e.sequence \in Nat
  BY DEF LoopInv, TypeInv, QueueTypes, Live, Entry
<1>2. CASE EnqueueStamped
  <2>1. PICK c \in Command : Enqueue(c)
    BY <1>2, StampedCommand DEF LoopInv
  <2>2. UNCHANGED <<batch, pending, answered, outcomes>>
    BY <1>2 DEF EnqueueStamped, loopVars, resultVars
  <2> QED
    BY <2>1, <2>2, EnqueueOnePlace DEF LoopInv, TypeInv, QueueTypes
<1>3. CASE CaptureCommands
  <2>1. /\ batch' = Drained(currentStep)
        /\ entries' = entries \ Drained(currentStep)
        /\ Drained(currentStep) \subseteq entries
        /\ UNCHANGED <<nextSequence, pending, answered, outcomes>>
    BY <1>3 DEF CaptureCommands, TakeDue, DequeueUpToStep, Drained, Due, resultVars
  <2> QED
    BY <1>1, <2>1 DEF OnePlace, Live
<1>4. CASE SkipCommand
  <2>1. batch' \subseteq batch /\ UNCHANGED <<entries, nextSequence, pending, answered, outcomes>>
    BY <1>4 DEF SkipCommand, queueVars, resultVars
  <2> QED
    BY <1>1, <2>1 DEF OnePlace, Live
<1>5. CASE ExecuteCommand \/ PromiseSettles
  <2>1. PICK e \in batch \cup pending :
          /\ answered' = answered \cup {e.sequence}
          /\ \A o \in outcomes' : o \in outcomes \/ o.sequence = e.sequence
          /\ batch' \subseteq batch /\ pending' \subseteq pending
          /\ e \notin batch' \cup pending'
          /\ UNCHANGED <<entries, nextSequence>>
    BY <1>1, <1>5 DEF ExecuteCommand, PromiseSettles, Record, queueVars, loopVars, OnePlace
  <2>2. e \in Live /\ e \notin entries /\ e \notin Live'
    BY <1>1, <2>1 DEF OnePlace, Live
  <2>3. Live' \subseteq Live
    BY <2>1 DEF Live
  <2>4. \A f \in Live' : f.sequence # e.sequence
    BY <1>1, <2>2, <2>3 DEF OnePlace
  <2> QED
    BY <1>1, <2>1, <2>2, <2>3, <2>4 DEF OnePlace
<1>6. CASE ExecuteAsyncCommand
  <2>1. PICK e \in batch : batch' = batch \ {e} /\ pending' = pending \cup {e}
    BY <1>6 DEF ExecuteAsyncCommand
  <2>2. UNCHANGED <<entries, nextSequence, answered, outcomes>>
    BY <1>6 DEF ExecuteAsyncCommand, queueVars
  <2>3. Live' = Live
    BY <2>1, <2>2 DEF Live
  <2> QED
    BY <1>1, <2>1, <2>2, <2>3 DEF OnePlace
<1>7. CASE DrainOutcomes
  <2>1. outcomes' = {} /\ UNCHANGED <<entries, batch, pending, nextSequence, answered>>
    BY <1>7 DEF DrainOutcomes, queueVars, loopVars
  <2> QED
    BY <1>1, <2>1 DEF OnePlace, Live
<1>8. CASE UNCHANGED <<entries, batch, pending, nextSequence, answered, outcomes>>
  BY <1>1, <1>8 DEF OnePlace, Live
<1>9. \/ EnqueueStamped \/ CaptureCommands \/ SkipCommand \/ ExecuteCommand
      \/ PromiseSettles \/ ExecuteAsyncCommand \/ DrainOutcomes
      \/ UNCHANGED <<entries, batch, pending, nextSequence, answered, outcomes>>
  BY DEF Next, Run, BeginBatch, Return, DispatchAfterCommands, TickSystem,
         DispatchThrows, CompleteStep, Tick, DrainCreditedBacklog, Call,
         CreditFromOutside, FastForward, HandlerCreditsTime, DrainFailures,
         vars, queueVars, loopVars, resultVars
<1> QED
  BY <1>2, <1>3, <1>4, <1>5, <1>6, <1>7, <1>8, <1>9

-----------------------------------------------------------------------------
LEMMA InitIInv == Init => IInv
<1> SUFFICES ASSUME Init PROVE IInv
  OBVIOUS
<1> USE DEF Init
<1>1. WellFormed
  BY QueueInitWellFormed, QueueAssumption
<1>2. InitialStep \in Nat /\ NSystems \in Nat /\ StepMs \in Nat
  BY RuntimeAssumption DEF RuntimeAssumption
<1>3. BankTypes /\ StepTypes /\ LoopTypes /\ ResultTypes
  BY <1>2 DEF BankTypes, StepTypes, LoopTypes, ResultTypes
<1>4. TypeInv
  BY <1>1, <1>3, TypeParts DEF WellFormed
<1>5. TimeConserved
  <2>1. StepsPaidFor = 0
    BY <1>2 DEF StepsPaidFor
  <2> QED
    BY <1>2, <2>1 DEF TimeConserved
<1>6. Phase /\ Budgeted
  BY <1>2 DEF Phase, Budgeted
<1>7. entries = {} /\ nextSequence = 0
  BY DEF QueueInit
<1>8. Fresh /\ OnePlace
  BY <1>7 DEF Fresh, OnePlace, Live
<1> QED
  BY <1>1, <1>4, <1>5, <1>6, <1>8 DEF IInv, LoopInv

LEMMA InductiveInvariant == Spec => []IInv
<1>1. IInv /\ [Next]_vars => IInv'
  BY WellFormedStep, TypeStep, TimeStep, PhaseStep, BudgetedStep, FreshStep,
     OnePlaceStep DEF IInv, LoopInv
<1> QED
  BY <1>1, InitIInv, PTL DEF Spec

(* IdleEngineRuntime's fields always have their types.                      *)
THEOREM TypeCorrect == Spec => []TypeInv
BY InductiveInvariant, PTL DEF IInv, LoopInv

(* tick, creditTime, drainCreditedBacklog and fastForward conserve time,    *)
(* the steps a throwing subscriber gives up counted.                        *)
THEOREM TimeCorrect == Spec => []TimeConserved
BY InductiveInvariant, PTL DEF IInv, LoopInv

(* No queued command is left behind by the step counter, except by a        *)
(* fastForward; in particular not when a tick throws.                       *)
THEOREM FreshCorrect == Spec => []NoStaleCommand
<1>1. IInv => NoStaleCommand
  BY DEF IInv, LoopInv, TypeInv, QueueTypes, Fresh, NoStaleCommand, EarliestStep, Entry
<1> QED
  BY <1>1, InductiveInvariant, PTL

(* No command is executed or answered twice.                                *)
THEOREM OnePlaceCorrect == Spec => []InOnePlace
<1>1. IInv => InOnePlace
  BY DEF IInv, LoopInv, OnePlace, Live, InOnePlace
<1> QED
  BY <1>1, InductiveInvariant, PTL

(* A call of tick or drainCreditedBacklog runs its whole budget unless the  *)
(* bank runs short or a subscriber throws, and never more.                  *)
THEOREM BudgetCorrect == Spec => CallRunsItsBudget
<1>1. ASSUME IInv, [Next]_vars, pc # "idle", pc' = "idle"
      PROVE  /\ currentStep' <= stepLimit
             /\ pc = "drain" => currentStep = stepLimit \/ Available(source) < StepMs
  <2>1. /\ currentStep + stepsLeft + budget = stepLimit
        /\ currentStep \in Nat /\ stepsLeft \in Nat /\ budget \in Nat
        /\ pc = "drain" => stepsLeft = 0
    BY <1>1 DEF IInv, LoopInv, Budgeted, Phase, TypeInv
  <2>2. CASE Return
    <3>1. AffordableSteps = 0
      BY <1>1, <2>2, AffordableFacts, RuntimeAssumption DEF Return, NothingAffordable, IInv, LoopInv
    <3>2. budget = 0 \/ Available(source) < StepMs
      BY <1>1, <3>1, AffordableFacts, RuntimeAssumption DEF IInv, LoopInv
    <3>3. currentStep' = currentStep
      BY <2>2 DEF Return, stepVars
    <3> QED
      BY <2>1, <3>2, <3>3
  <2>3. CASE DispatchThrows
    BY <2>1, <2>3 DEF DispatchThrows
  <2>4. Return \/ DispatchThrows
    BY <1>1
    DEF Next, Run, BeginBatch, CaptureCommands, SkipCommand, ExecuteCommand,
        ExecuteAsyncCommand, DispatchAfterCommands, TickSystem, CompleteStep, Tick,
        DrainCreditedBacklog, Call, Idle, CreditFromOutside, FastForward,
        EnqueueStamped, HandlerCreditsTime, PromiseSettles, DrainOutcomes,
        DrainFailures, vars, loopVars
  <2> QED
    BY <2>1, <2>2, <2>3, <2>4
<1>2. IInv /\ [Next]_vars =>
        [(pc # "idle" /\ pc' = "idle") =>
            /\ currentStep' <= stepLimit
            /\ pc = "drain" => currentStep = stepLimit \/ Available(source) < StepMs]_vars
  BY <1>1
<1> QED
  BY <1>2, InductiveInvariant, PTL DEF Spec, CallRunsItsBudget

-----------------------------------------------------------------------------
(* Saves and loads.                                                         *)

(* No queued command's step is already over, whatever its sequence number.  *)
CommandsAhead == \A e \in entries : e.step >= EarliestStep

(* What serialize writes: a queue that fits and accounts that balance.      *)
SoundSave(s) ==
    /\ s.step \in Nat /\ s.hostMs \in Nat /\ s.creditedMs \in Nat
    /\ s.supplied \in Nat /\ s.lostSteps \in Nat /\ s.overshot \in BOOLEAN
    /\ s.entries \in SUBSET Entry /\ IsFiniteSet(s.entries)
    /\ Cardinality(s.entries) <= MaxSize
    /\ UniqueSequences(s.entries)
    /\ \/ s.overshot
       \/ /\ s.supplied = s.hostMs + s.creditedMs
                           + StepMs * ((s.step - InitialStep) + s.lostSteps)
          /\ \A e \in s.entries : e.step >= s.step

(* What the runtime owes the facade beyond its own invariant.               *)
History ==
    /\ overshot \in BOOLEAN
    /\ overshot \/ (TimeConserved /\ CommandsAhead)
    /\ nextExecutableStep <= currentStep + 1

SlotSound == slot = NoSave \/ SoundSave(slot)

GameInv == LoopInv /\ History /\ SlotSound

-----------------------------------------------------------------------------
(* Renumbering a save: restored entries are as many as the saved ones.      *)

(* restoreFromSave queues one entry per saved entry, with its step, under a *)
(* new number of its own.                                                   *)
LEMMA RestoredFacts ==
    ASSUME NEW S \in SUBSET Entry, IsFiniteSet(S), UniqueSequences(S), nextSequence \in Nat
    PROVE  LET R == RestoredEntries(S)
           IN  /\ R \in SUBSET Entry
               /\ IsFiniteSet(R) /\ Cardinality(R) = Cardinality(S)
               /\ UniqueSequences(R)
               /\ \A r \in R : /\ r.sequence >= nextSequence
                               /\ r.sequence < nextSequence + Cardinality(S)
                               /\ \E e \in S : r.step = e.step
<1> DEFINE R == RestoredEntries(S)
           New == [e \in S |-> Renumbered(e, S)]
<1>1. ASSUME NEW e \in S
      PROVE  /\ New[e] \in Entry
             /\ New[e].sequence = nextSequence + Rank(e, S)
             /\ New[e].step = e.step
  <2>1. Rank(e, S) \in Nat /\ e \in Entry
    BY RankFacts
  <2> QED
    BY <2>1 DEF Renumbered, Stamped, Rank, Entry
<1>2. R = {New[e] : e \in S}
  BY DEF RestoredEntries
<1> HIDE DEF R, New
<1>3. \A e, f \in S : New[e].sequence = New[f].sequence => e = f
  <2>1. \A e, f \in S : Rank(e, S) = Rank(f, S) => e = f
    BY RankFacts, PrecedesOrders
  <2> QED
    BY <1>1, <2>1, RankFacts
<1>4. IsFiniteSet(R) /\ Cardinality(R) = Cardinality(S)
  <2>1. New \in Bijection(S, R)
    BY <1>2, <1>3 DEF Bijection, Injection, Surjection, IsInjective, New
  <2>2. ExistsBijection(S, R)
    BY <2>1 DEF ExistsBijection
  <2> QED
    BY <2>2, FS_Bijection
<1>5. \A r \in R : \E e \in S : r = New[e]
  BY <1>2
<1>6. R \in SUBSET Entry /\ UniqueSequences(R)
  BY <1>1, <1>3, <1>5 DEF UniqueSequences
<1>7. \A r \in R : /\ r.sequence >= nextSequence
                   /\ r.sequence < nextSequence + Cardinality(S)
                   /\ \E e \in S : r.step = e.step
  BY <1>1, <1>5, RankFacts
<1> QED
  BY <1>4, <1>6, <1>7 DEF R

-----------------------------------------------------------------------------
(* hydrate's jump lands on the saved step or past it.                       *)
LEMMA DivAtLeast ==
    ASSUME NEW k \in Nat, NEW r \in Nat
    PROVE  (r + k * StepMs) \div StepMs \in Nat /\ (r + k * StepMs) \div StepMs >= k
<1> DEFINE x == r + k * StepMs
           q == x \div StepMs
<1>1. StepMs \in Nat \ {0} /\ x \in Nat /\ k * StepMs \in Nat
  BY RuntimeAssumption DEF RuntimeAssumption
<1>2. q \in Nat /\ x < q * StepMs + StepMs /\ q * StepMs \in Nat
  BY <1>1
<1> HIDE DEF q
<1>3. ASSUME q < k PROVE FALSE
  <2>1. (q + 1) * StepMs <= k * StepMs /\ (q + 1) * StepMs = q * StepMs + StepMs
    BY <1>1, <1>2, <1>3, LessSteps, RuntimeAssumption
  <2> QED
    BY <1>1, <1>2, <2>1
<1> QED
  BY <1>1, <1>2, <1>3 DEF q

LEMMA JumpFacts ==
    ASSUME LoopInv, SoundSave(slot), slot.step >= currentStep
    PROVE  /\ StepsToJump \in Nat
           /\ currentStep + StepsToJump >= slot.step
           /\ slot.step = currentStep => StepsToJump = 0
<1>1. /\ hostMs \in Nat /\ creditedMs \in Nat /\ currentStep \in Nat /\ slot.step \in Nat
      /\ StepMs \in Nat
  BY RuntimeAssumption DEF LoopInv, TypeInv, SoundSave, RuntimeAssumption
<1>2. CASE slot.step > currentStep
  <2> DEFINE k == slot.step - currentStep
             r == hostMs + creditedMs
  <2>1. k \in Nat /\ r \in Nat
    BY <1>1, <1>2
  <2>2. StepsToJump = (hostMs + k * StepMs + creditedMs) \div StepMs
    BY <1>2 DEF StepsToJump, JumpSteps
  <2> HIDE DEF k
  <2>3. hostMs + k * StepMs + creditedMs = r + k * StepMs
    BY <1>1, <2>1
  <2>4. StepsToJump \in Nat /\ StepsToJump >= k
    BY <2>1, <2>2, <2>3, DivAtLeast
  <2> QED
    BY <1>1, <1>2, <2>4 DEF k
<1>3. CASE slot.step = currentStep
  BY <1>1, <1>3 DEF StepsToJump
<1> QED
  BY <1>1, <1>2, <1>3

-----------------------------------------------------------------------------
(* The steps of the facade that are steps of the runtime.                   *)
LoopStep == GameTick \/ Start \/ Stop \/ Serialize \/ RuntimeRuns \/ UNCHANGED gameVars

LEMMA LoopStepFacts ==
    ASSUME LoopStep
    PROVE  /\ [Next]_vars
           /\ overshot' = overshot
           /\ slot' = slot \/ (slot' = Save /\ UNCHANGED vars)
           /\ \/ CaptureCommands \/ CompleteStep
              \/ /\ UNCHANGED <<entries, currentStep, nextExecutableStep>>
                 /\ pc' \in {"commands", "systems"} => pc \in {"commands", "systems"}
BY DEF LoopStep, GameTick, Start, Stop, Serialize, RuntimeRuns, gameVars, facadeVars, Next,
       Run, BeginBatch, Return, SkipCommand, ExecuteCommand, ExecuteAsyncCommand,
       DispatchAfterCommands, TickSystem, DispatchThrows, Tick, DrainCreditedBacklog, Call,
       CreditFromOutside, HandlerCreditsTime, PromiseSettles, DrainOutcomes, DrainFailures,
       vars, queueVars, stepVars, loopVars

LEMMA LoopInvStep ==
    ASSUME LoopInv, [Next]_vars
    PROVE  LoopInv'
BY WellFormedStep, TypeStep, PhaseStep, BudgetedStep, OnePlaceStep DEF LoopInv

(* No step of the runtime loses time or passes a queued command by.         *)
LEMMA LoopHistory ==
    ASSUME LoopInv, History, LoopStep
    PROVE  History'
<1>1. /\ currentStep \in Nat /\ nextExecutableStep \in Nat
      /\ pc \in {"idle", "drain", "capture", "commands", "systems"}
      /\ \A e \in entries : e.step \in Nat
      /\ Phase
  BY DEF LoopInv, TypeInv, QueueTypes, Entry
<1>2. overshot' = overshot /\ [Next]_vars
  BY LoopStepFacts
<1>3. CASE CaptureCommands
  <2>1. /\ pc = "capture" /\ pc' = "commands"
        /\ entries' = entries \ Drained(currentStep)
        /\ currentStep' = currentStep /\ nextExecutableStep' = currentStep + 1
    BY <1>3 DEF CaptureCommands, TakeDue, DequeueUpToStep, NextStepWhileRunning
  <2>2. totalSize = 0 => entries = {}
    BY FS_EmptySet DEF LoopInv, WellFormed, SizeInv
  <2>3. \A e \in entries' : e \in entries /\ e.step > currentStep
    BY <1>1, <2>1, <2>2 DEF Drained, Due
  <2>4. CommandsAhead'
    BY <1>1, <2>1, <2>3 DEF CommandsAhead, EarliestStep
  <2> QED
    BY <1>1, <1>2, <2>1, <2>4, TimeStep DEF History
<1>4. CASE CompleteStep
  <2>1. /\ pc = "systems" /\ entries' = entries /\ currentStep' = currentStep + 1
        /\ nextExecutableStep' = currentStep + 1 /\ pc' \in {"capture", "drain"}
    BY <1>4 DEF CompleteStep, queueVars
  <2>2. CommandsAhead => CommandsAhead'
    BY <1>1, <2>1 DEF CommandsAhead, EarliestStep
  <2> QED
    BY <1>1, <1>2, <2>1, <2>2, TimeStep DEF History
<1>5. CASE /\ UNCHANGED <<entries, currentStep, nextExecutableStep>>
           /\ pc' \in {"commands", "systems"} => pc \in {"commands", "systems"}
  <2>1. CommandsAhead => CommandsAhead'
    BY <1>1, <1>5 DEF CommandsAhead, EarliestStep
  <2> QED
    BY <1>1, <1>2, <1>5, <2>1, TimeStep DEF History
<1> QED
  BY <1>3, <1>4, <1>5, LoopStepFacts

(* Between calls, what serialize writes is a sound save.                    *)
LEMMA SaveSound ==
    ASSUME LoopInv, History, Idle
    PROVE  SoundSave(Save)
<1>1. /\ currentStep \in Nat /\ hostMs \in Nat /\ creditedMs \in Nat /\ supplied \in Nat
      /\ lostSteps \in Nat /\ overshot \in BOOLEAN /\ entries \in SUBSET Entry
      /\ IsFiniteSet(entries) /\ Cardinality(entries) <= MaxSize
      /\ UniqueSequences(entries)
  BY DEF LoopInv, History, TypeInv, QueueTypes, WellFormed, SizeInv, OnePlace, Live,
         UniqueSequences
<1>2. stepsLeft = 0 /\ EarliestStep = currentStep /\ InitialStep \in Nat
  BY RuntimeAssumption DEF LoopInv, Phase, Idle, EarliestStep, RuntimeAssumption
<1>3. StepsPaidFor = (currentStep - InitialStep) + lostSteps
  BY <1>1, <1>2 DEF StepsPaidFor
<1>4. ~overshot =>
        /\ supplied = hostMs + creditedMs + StepMs * ((currentStep - InitialStep) + lostSteps)
        /\ \A e \in entries : e.step >= currentStep
  BY <1>2, <1>3 DEF History, TimeConserved, CommandsAhead
<1> QED
  BY <1>1, <1>4 DEF SoundSave, Save

LEMMA LoopGameInv ==
    ASSUME GameInv, LoopStep
    PROVE  GameInv'
<1>1. LoopInv' /\ History'
  BY LoopStepFacts, LoopInvStep, LoopHistory DEF GameInv
<1>2. CASE slot' = slot
  BY <1>1, <1>2 DEF GameInv, SlotSound, SoundSave
<1>3. CASE Serialize
  <2>1. SoundSave(Save) /\ slot' = Save
    BY <1>3, SaveSound DEF Serialize, GameInv
  <2> QED
    BY <1>1, <2>1 DEF GameInv, SlotSound, SoundSave
<1> QED
  BY <1>2, <1>3 DEF LoopStep, GameTick, Start, Stop, RuntimeRuns, gameVars, facadeVars

(* A player command is stamped for a step that is still to come.            *)
LEMMA PlayerCommandGameInv ==
    ASSUME GameInv, EnqueuePlayerCommand
    PROVE  GameInv'
<1>1. /\ currentStep \in Nat /\ nextExecutableStep \in Nat /\ Idle
      /\ nextExecutableStep >= currentStep /\ QueueTypes /\ TypeInv
  BY DEF GameInv, LoopInv, TypeInv, Phase, EnqueuePlayerCommand
<1>2. PICK c \in Command : Enqueue(c) /\ c.step = nextExecutableStep
  <2>1. currentStep * StepMs \in Nat /\ PLAYER \in Priority
    BY <1>1, RuntimeAssumption DEF RuntimeAssumption, Priority
  <2>2. PICK t \in Types, x \in Payloads :
          Enqueue([type |-> t, payload |-> x, priority |-> PLAYER,
                   timestamp |-> currentStep * StepMs, step |-> nextExecutableStep])
    BY DEF EnqueuePlayerCommand
  <2> DEFINE c == [type |-> t, payload |-> x, priority |-> PLAYER,
                   timestamp |-> currentStep * StepMs, step |-> nextExecutableStep]
  <2>3. c \in Command /\ c.step = nextExecutableStep
    BY <1>1, <2>1 DEF Command
  <2> QED
    BY <2>2, <2>3
<1>3. UNCHANGED <<bankVars, stepVars, loopVars, resultVars, running, slot, overshot>>
  BY DEF EnqueuePlayerCommand, facadeVars
<1>4. LoopInv'
  <2>1. WellFormed'
    BY <1>2, EnqueuePreserves, QueueAssumption DEF GameInv, LoopInv
  <2>2. TypeInv' /\ Phase' /\ Budgeted'
    BY <1>3, <2>1 DEF GameInv, LoopInv, TypeInv, WellFormed, Phase, Budgeted, bankVars,
                      stepVars, loopVars, resultVars
  <2>3. OnePlace'
    BY <1>1, <1>2, <1>3, EnqueueOnePlace DEF GameInv, LoopInv, loopVars, resultVars
  <2> QED
    BY <2>1, <2>2, <2>3 DEF LoopInv
<1>5. History'
  <2>1. CommandsAhead => CommandsAhead'
    <3>1. /\ EarliestStep' = currentStep /\ EarliestStep = currentStep
      BY <1>1, <1>3 DEF EarliestStep, Idle, stepVars, loopVars
    <3>2. \A e \in entries' : e \in entries \/ e.step = nextExecutableStep
      BY <1>1, <1>2, EnqueueAdds DEF QueueTypes
    <3> QED
      BY <1>1, <3>1, <3>2 DEF CommandsAhead
  <2>2. TimeConserved => TimeConserved'
    BY <1>3 DEF TimeConserved, StepsPaidFor, bankVars, stepVars, loopVars
  <2> QED
    BY <1>3, <2>1, <2>2 DEF GameInv, History, stepVars
<1> QED
  BY <1>3, <1>4, <1>5 DEF GameInv, SlotSound, SoundSave

(* Loading a save: into an instance that has not passed its step, or into a *)
(* new one.                                                                 *)
LEMMA HydrateGameInv ==
    ASSUME GameInv, Hydrate
    PROVE  GameInv'
<1>1. /\ SoundSave(slot) /\ slot.step >= currentStep /\ Idle
      /\ LoopInv /\ TypeInv /\ OnePlace /\ Phase
      /\ currentStep \in Nat /\ nextSequence \in Nat /\ nextExecutableStep \in Nat
  BY DEF GameInv, SlotSound, Hydrate, Loadable, LoopInv, TypeInv, QueueTypes
<1>2. /\ currentStep' = currentStep + StepsToJump
      /\ nextExecutableStep' = IF StepsToJump > 0 THEN currentStep' ELSE nextExecutableStep
      /\ entries' = RestoredEntries(slot.entries)
      /\ nextSequence' = nextSequence + Cardinality(slot.entries)
      /\ totalSize' = Cardinality(slot.entries)
      /\ hostMs' = slot.hostMs /\ creditedMs' = slot.creditedMs
      /\ supplied' = slot.supplied /\ lostSteps' = slot.lostSteps
      /\ jumpSequence' = nextSequence
      /\ overshot' = (slot.overshot \/ (slot.step > currentStep /\ currentStep' > slot.step))
      /\ UNCHANGED <<loopVars, resultVars, running, slot>>
  BY DEF Hydrate, JumpToStep, RestoredBanks
<1>3. /\ StepsToJump \in Nat
      /\ currentStep + StepsToJump >= slot.step
      /\ slot.step = currentStep => StepsToJump = 0
  BY <1>1, JumpFacts
<1>4. /\ entries' \in SUBSET Entry
      /\ IsFiniteSet(entries') /\ Cardinality(entries') = Cardinality(slot.entries)
      /\ UniqueSequences(entries')
      /\ \A r \in entries' : /\ r.sequence >= nextSequence
                             /\ r.sequence < nextSequence + Cardinality(slot.entries)
                             /\ \E e \in slot.entries : r.step = e.step
  BY <1>1, <1>2, RestoredFacts DEF SoundSave
<1>5. Cardinality(slot.entries) \in Nat
  BY <1>1, FS_CardinalityType DEF SoundSave
<1>6. WellFormed'
  BY <1>1, <1>2, <1>4, <1>5 DEF WellFormed, QueueTypes, SizeInv, SequencesBelow, SoundSave, Entry
<1>7. TypeInv'
  BY <1>1, <1>2, <1>3, <1>6 DEF TypeInv, WellFormed, SoundSave, loopVars, resultVars
<1>8. Phase' /\ Budgeted' /\ pc' = "idle" /\ stepsLeft' = 0 /\ batch' = {}
  BY <1>1, <1>2, <1>3 DEF Phase, Budgeted, Idle, loopVars
<1>9. OnePlace'
  <2>1. /\ \A e \in pending : e.sequence \in Nat /\ e.sequence < nextSequence /\ e.sequence \notin answered
        /\ \A n \in answered : n \in Nat /\ n < nextSequence
        /\ \A e, f \in pending : e.sequence = f.sequence => e = f
        /\ \A o \in outcomes : o.sequence \in answered
        /\ \A r \in entries' : r.sequence \in Nat
    BY <1>1, <1>4 DEF OnePlace, Live, TypeInv, Entry
  <2>2. UNCHANGED <<pending, answered, outcomes>>
    BY <1>2 DEF resultVars
  <2>3. Live' = entries' \cup pending
    BY <1>8, <2>2 DEF Live
  <2>4. \A e, f \in Live' : e.sequence = f.sequence => e = f
    BY <1>1, <1>4, <2>1, <2>3 DEF UniqueSequences
  <2>5. entries' \cap pending = {}
    BY <1>1, <1>4, <2>1
  <2>6. \A e \in Live' : e.sequence < nextSequence' /\ e.sequence \notin answered
    BY <1>1, <1>2, <1>4, <1>5, <2>1, <2>3
  <2>7. \A n \in answered : n < nextSequence'
    BY <1>1, <1>2, <1>5, <2>1
  <2> QED
    BY <1>8, <2>1, <2>2, <2>4, <2>5, <2>6, <2>7 DEF OnePlace
<1>10. ASSUME ~overshot' PROVE currentStep' = slot.step /\ ~slot.overshot
  <2>1. ~slot.overshot /\ ~(slot.step > currentStep /\ currentStep' > slot.step)
    BY <1>2, <1>10, Zenon
  <2>2. slot.step \in Nat
    BY <1>1 DEF SoundSave
  <2> QED
    BY <1>1, <1>2, <1>3, <2>1, <2>2
<1>11. History'
  <2>1. overshot' \in BOOLEAN
    <3>1. slot.overshot \in BOOLEAN
      BY <1>1 DEF SoundSave
    <3> QED
      BY <1>2, <3>1
  <2>2. ASSUME ~overshot' PROVE TimeConserved'
    <3>1. /\ slot.supplied = slot.hostMs + slot.creditedMs
                             + StepMs * ((slot.step - InitialStep) + slot.lostSteps)
          /\ slot.step \in Nat /\ slot.lostSteps \in Nat /\ InitialStep \in Nat
      BY <1>1, <1>10, <2>2, RuntimeAssumption DEF SoundSave, RuntimeAssumption
    <3>2. StepsPaidFor' = (slot.step - InitialStep) + slot.lostSteps
      BY <1>2, <1>8, <1>10, <2>2, <3>1 DEF StepsPaidFor
    <3> QED
      BY <1>2, <3>1, <3>2 DEF TimeConserved
  <2>3. ASSUME ~overshot' PROVE CommandsAhead'
    <3>1. EarliestStep' = slot.step
      BY <1>8, <1>10, <2>3 DEF EarliestStep
    <3> QED
      BY <1>1, <1>4, <1>10, <2>3, <3>1 DEF SoundSave, CommandsAhead
  <2>4. nextExecutableStep' <= currentStep' + 1
    BY <1>1, <1>2, <1>3 DEF GameInv, History
  <2> QED
    BY <2>1, <2>2, <2>3, <2>4 DEF History
<1>12. SlotSound'
  BY <1>1, <1>2 DEF SlotSound, SoundSave
<1> QED
  BY <1>6, <1>7, <1>8, <1>9, <1>11, <1>12 DEF GameInv, LoopInv

(* A hydrate that throws leaves its jump, which loses no time.              *)
LEMMA HydrateThrowsGameInv ==
    ASSUME GameInv, HydrateThrows
    PROVE  GameInv'
<1>1. /\ SoundSave(slot) /\ slot.step > currentStep /\ Idle /\ LoopInv /\ History
      /\ WellFormed /\ TypeInv /\ Phase /\ OnePlace
      /\ currentStep \in Nat /\ nextExecutableStep \in Nat /\ StepMs \in Nat
  BY RuntimeAssumption
  DEF GameInv, SlotSound, HydrateThrows, Loadable, LoopInv, TypeInv, RuntimeAssumption
<1>2. /\ JumpBy((slot.step - currentStep) * StepMs)
      /\ overshot' = (overshot \/ \E e \in entries : e.step < currentStep')
      /\ UNCHANGED <<queueVars, lostSteps, loopVars, resultVars, running, slot>>
  BY DEF HydrateThrows
<1>3. (slot.step - currentStep) * StepMs \in Nat
  <2>1. slot.step - currentStep \in Nat
    BY <1>1 DEF SoundSave
  <2> QED
    BY <1>1, <2>1
<1>4. PICK ms \in Nat, steps \in Nat :
        /\ supplied' = supplied + ms
        /\ hostMs' \in Nat /\ creditedMs' \in Nat
        /\ hostMs' + creditedMs' + Price(steps) = hostMs + creditedMs + ms
        /\ currentStep' = currentStep + steps
        /\ steps > 0 => nextExecutableStep' = currentStep + steps /\ jumpSequence' = nextSequence
        /\ steps = 0 => nextExecutableStep' = nextExecutableStep /\ jumpSequence' = jumpSequence
  <2>1. PICK n \in Nat : n = (slot.step - currentStep) * StepMs
    BY <1>3
  <2>2. JumpBy(n)
    BY <1>2, <2>1
  <2> QED
    BY <1>1, <2>2, JumpByFacts DEF Price
<1>5. WellFormed'
  BY <1>1, <1>2 DEF WellFormed, QueueTypes, SizeInv, SequencesBelow, queueVars
<1>6. TypeInv'
  BY <1>1, <1>2, <1>4 DEF TypeInv, QueueTypes, queueVars, loopVars, resultVars
<1>7. Phase' /\ Budgeted'
  BY <1>1, <1>2, <1>4 DEF Phase, Budgeted, Idle, loopVars
<1>8. OnePlace'
  BY <1>1, <1>2 DEF OnePlace, Live, queueVars, loopVars, resultVars
<1>9. overshot' \in BOOLEAN /\ (overshot' \/ ~overshot)
  BY <1>1, <1>2, Zenon DEF History
<1>10. TimeConserved => TimeConserved'
  <2>1. UNCHANGED <<stepsLeft, lostSteps>>
    BY <1>2 DEF loopVars
  <2>2. StepsPaidFor' = StepsPaidFor + steps /\ StepsPaidFor \in Int
    BY <1>1, <1>4, <2>1, RuntimeAssumption DEF StepsPaidFor, TypeInv, RuntimeAssumption
  <2>3. StepsPaidFor \in Int /\ steps \in Int
    BY <2>2
  <2>4. /\ Price(StepsPaidFor + steps) = Price(StepsPaidFor) + Price(steps)
        /\ Price(StepsPaidFor) \in Int /\ Price(steps) \in Int
    BY <2>3, PriceFacts, Zenon
  <2>5. /\ supplied \in Nat /\ hostMs \in Nat /\ creditedMs \in Nat
    BY <1>1 DEF TypeInv
  <2> HIDE DEF Price
  <2>6. supplied = hostMs + creditedMs + Price(StepsPaidFor) =>
            supplied' = hostMs' + creditedMs' + Price(StepsPaidFor')
    BY <1>4, <2>2, <2>4, <2>5
  <2> QED
    BY <2>6 DEF TimeConserved, Price
<1>11. ~overshot' => CommandsAhead'
  <2>1. entries' = entries /\ EarliestStep' = currentStep'
    BY <1>1, <1>2 DEF queueVars, loopVars, EarliestStep, Idle
  <2>2. \A e \in entries : e.step \in Nat
    BY <1>1 DEF TypeInv, QueueTypes, Entry
  <2>3. ~overshot' => \A e \in entries : ~(e.step < currentStep')
    BY <1>2, Zenon
  <2>4. currentStep' \in Nat
    BY <1>1, <1>4
  <2> QED
    BY <2>1, <2>2, <2>3, <2>4 DEF CommandsAhead
<1>12. nextExecutableStep' <= currentStep' + 1
  BY <1>1, <1>4 DEF History
<1>13. History'
  BY <1>1, <1>9, <1>10, <1>11, <1>12, Zenon DEF History
<1> QED
  BY <1>1, <1>2, <1>5, <1>6, <1>7, <1>8, <1>13 DEF GameInv, LoopInv, SlotSound, SoundSave

(* A new instance starts from nothing; only the slot survives.              *)
LEMMA CreateGameInv ==
    ASSUME GameInv, CreateGame
    PROVE  GameInv'
<1>1. /\ entries' = {} /\ nextSequence' = 0 /\ totalSize' = 0
      /\ hostMs' = 0 /\ creditedMs' = 0 /\ supplied' = 0
      /\ currentStep' = InitialStep /\ nextExecutableStep' = InitialStep
      /\ jumpSequence' = 0 /\ lostSteps' = 0
      /\ pending' = {} /\ outcomes' = {} /\ failures' = {} /\ answered' = {}
      /\ overshot' = FALSE /\ slot' = slot
      /\ pc' = "idle" /\ UNCHANGED <<pc, source, budget, stepsLeft, batch, system, stepLimit>>
  BY DEF CreateGame, Idle, loopVars
<1>2. InitialStep \in Nat /\ StepMs \in Nat /\ MaxSize \in Nat
  BY RuntimeAssumption, QueueAssumption DEF RuntimeAssumption, QueueAssumption
<1>3. WellFormed'
  BY <1>1, <1>2, FS_EmptySet DEF WellFormed, QueueTypes, SizeInv, SequencesBelow
<1>4. TypeInv'
  BY <1>1, <1>2, <1>3 DEF TypeInv, WellFormed, GameInv, LoopInv
<1>5. Phase' /\ Budgeted' /\ stepsLeft' = 0 /\ batch' = {}
  BY <1>1, <1>2 DEF Phase, Budgeted, GameInv, LoopInv
<1>6. OnePlace'
  BY <1>1, <1>5 DEF OnePlace, Live
<1>7. History'
  <2>1. StepsPaidFor' = 0
    BY <1>1, <1>2, <1>5 DEF StepsPaidFor
  <2>2. TimeConserved' /\ CommandsAhead'
    BY <1>1, <1>2, <2>1 DEF TimeConserved, CommandsAhead
  <2>3. overshot' \in BOOLEAN
    BY <1>1, Zenon
  <2>4. nextExecutableStep' <= currentStep' + 1
    BY <1>1, <1>2
  <2> QED
    BY <2>2, <2>3, <2>4 DEF History
<1> QED
  BY <1>1, <1>3, <1>4, <1>5, <1>6, <1>7 DEF GameInv, LoopInv, SlotSound, SoundSave

LEMMA GameInductive == GameSpec => []GameInv
<1>1. GameInit => GameInv
  <2> SUFFICES ASSUME GameInit PROVE GameInv
    OBVIOUS
  <2>1. IInv /\ overshot = FALSE /\ slot = NoSave /\ entries = {}
    BY InitIInv DEF GameInit, Init, QueueInit
  <2>2. nextExecutableStep <= currentStep + 1
    BY RuntimeAssumption DEF GameInit, Init, RuntimeAssumption
  <2> QED
    BY <2>1, <2>2 DEF GameInv, IInv, History, CommandsAhead, SlotSound
<1>2. GameInv /\ [GameNext]_gameVars => GameInv'
  BY PlayerCommandGameInv, HydrateGameInv, HydrateThrowsGameInv, CreateGameInv, LoopGameInv
  DEF GameNext, LoopStep
<1> QED
  BY <1>1, <1>2, PTL DEF GameSpec

-----------------------------------------------------------------------------
(* enqueuePlayerCommand's promise across serialize and hydrate: the step of *)
(* a queued command is still to come.                                       *)
THEOREM SavedCommandsCorrect == GameSpec => []SavedCommandsStillRun
<1>1. GameInv => SavedCommandsStillRun
  BY DEF GameInv, LoopInv, TypeInv, QueueTypes, Entry, History, CommandsAhead, EarliestStep,
         SavedCommandsStillRun
<1> QED
  BY <1>1, GameInductive, PTL

(* The time a loaded game had been handed is in its banks or its steps.     *)
THEOREM SavedTimeCorrect == GameSpec => []SavedTimeSurvives
<1>1. GameInv => SavedTimeSurvives
  BY DEF GameInv, History, SavedTimeSurvives
<1> QED
  BY <1>1, GameInductive, PTL

(* The step the facade stamps on player commands is the runtime's step, or  *)
(* the one after it when a tick threw.                                      *)
THEOREM StampCorrect == GameSpec => []StampNeverBehind
<1>1. GameInv => StampNeverBehind
  BY DEF GameInv, LoopInv, TypeInv, Phase, History, StampNeverBehind
<1> QED
  BY <1>1, GameInductive, PTL

(* One instance never executes or answers a command twice, the saves it is  *)
(* loaded with included: restored commands never share a sequence number    *)
(* with a command still awaiting its promise or already answered.           *)
THEOREM LoadedOnePlaceCorrect == GameSpec => []InOnePlace
<1>1. GameInv => InOnePlace
  BY DEF GameInv, LoopInv, OnePlace, Live, InOnePlace
<1> QED
  BY <1>1, GameInductive, PTL
=============================================================================
