--------------------------- MODULE ClientPrediction ---------------------------
(***************************************************************************)
(* Client prediction and rollback (state-sync/prediction-manager.ts) over  *)
(* two runtimes that execute the same commands: the server's, which stamps *)
(* a command with its own step when it arrives, and the client's, which    *)
(* executes it at once. Commands reach the server in any order and as late *)
(* as they like; server snapshots reach the client late, twice, out of     *)
(* order or not at all. What a runtime holds is reduced to the commands it *)
(* has executed, at which steps, and those it has queued: the checksum     *)
(* tells two runtimes apart exactly when these differ.                     *)
(***************************************************************************)
EXTENDS Selections, FiniteSets, Functions

CONSTANTS
    MaxCommands,            \* bound: commands the player issues
    MaxStep,                \* bound: the steps of both runtimes
    MaxPredictionSteps,     \* maxPredictionSteps, the capacity of the history
    MaxPendingCommands,     \* maxPendingCommands
    ChecksumInterval        \* checksumIntervalSteps

Ids == 1..MaxCommands

ASSUME PredictionAssumption ==
    /\ {MaxCommands, MaxStep, MaxPredictionSteps, MaxPendingCommands} \subseteq Nat
    /\ ChecksumInterval \in Nat \ {0}

VARIABLES
    server,         \* the server's runtime
    uplink,         \* commands issued that the server has not received
    snapshots,      \* server snapshots taken, each deliverable at any time
    client,         \* the client's runtime
    issued,         \* ghost: command |-> the step the client gave it
    \* The prediction manager
    history,        \* its ring of checksums, oldest first
    lastRecordedStep,
    pendingCommands,
    pendingOverflowed,
    localStep,
    lastConfirmedStep,
    predictionDisabled,
    confirmed       \* ghost: the snapshot reconciled with last

managerVars == <<history, lastRecordedStep, pendingCommands, pendingOverflowed, localStep,
                 lastConfirmedStep, predictionDisabled, confirmed>>
predictionVars == <<server, uplink, snapshots, client, issued, managerVars>>

None == -1

-----------------------------------------------------------------------------
(* Runtimes: executed[id] lists the steps that executed the command, queue  *)
(* holds the commands to come, [id, step].                                  *)

NewRuntime == [step |-> 0, executed |-> [id \in Ids |-> <<>>], queue |-> {}]

\* tick: every command of this step or an earlier one, then step + 1.
Ticked(r) ==
    LET Due(id) == Cardinality({c \in r.queue : c.id = id /\ c.step <= r.step})
    IN  [step |-> r.step + 1,
         executed |-> [id \in Ids |-> r.executed[id] \o [n \in 1..Due(id) |-> r.step]],
         queue |-> {c \in r.queue : c.step > r.step}]

Enqueued(r, commands) == [r EXCEPT !.queue = @ \cup commands]

\* computeStateChecksum of a snapshot, which holds the command queue too.
StateChecksum(r) == r

-----------------------------------------------------------------------------
(* Server and connection                                                    *)

ServerReceive(id) ==
    /\ id \in uplink
    /\ uplink' = uplink \ {id}
    /\ server' = Enqueued(server, {[id |-> id, step |-> server.step]})
    /\ UNCHANGED <<snapshots, client, issued, managerVars>>

ServerTick ==
    /\ server.step < MaxStep
    /\ server' = Ticked(server)
    /\ UNCHANGED <<uplink, snapshots, client, issued, managerVars>>

ServerSnapshot ==
    /\ snapshots' = snapshots \cup {server}
    /\ snapshots' # snapshots
    /\ UNCHANGED <<server, uplink, client, issued, managerVars>>

-----------------------------------------------------------------------------
(* The manager's records                                                    *)

\* recordChecksum and pruneHistory: the newest entries that fit, none of them
\* more than MaxPredictionSteps behind the newest.
WithChecksum(entries, entry) ==
    LET all == Append(entries, entry)
        kept == IF Len(all) > MaxPredictionSteps THEN Tail(all) ELSE all
    IN  Select(kept, {e \in Range(kept) : e.step >= entry.step - MaxPredictionSteps})

ShouldRecord(last, step) == last = None \/ step - last >= ChecksumInterval

\* The manager's fields a record of runtime r at its step changes.
Recording(m, r) ==
    IF ShouldRecord(m.last, r.step)
    THEN [entries |-> WithChecksum(m.entries, [step |-> r.step, checksum |-> StateChecksum(r)]),
          last |-> r.step]
    ELSE m

Fresh == [entries |-> <<>>, last |-> None]

Issues(id) == id \notin DOMAIN issued /\ \A n \in 1..(id - 1) : n \in DOMAIN issued

\* comparePendingCommands: by step, then by the order they were issued in.
Inserted(commands, c) ==
    Select(commands, {d \in Range(commands) : d.step <= c.step}) \o <<c>>
        \o Select(commands, {d \in Range(commands) : d.step > c.step})

OverflowNoted == TRUE

\* A command of the player: sent, queued in the client's runtime for its next
\* step, and given to recordLocalCommand.
LocalCommand(id) ==
    /\ Issues(id)
    /\ uplink' = uplink \cup {id}
    /\ issued' = [n \in DOMAIN issued \cup {id} |->
                     IF n = id THEN client.step ELSE issued[n]]
    /\ LET c == [id |-> id, step |-> client.step]
           grown == Inserted(pendingCommands, c)
       IN  /\ client' = Enqueued(client, {c})
           /\ \/ /\ predictionDisabled
                 /\ UNCHANGED <<pendingCommands, pendingOverflowed>>
              \/ /\ ~predictionDisabled /\ Len(grown) > MaxPendingCommands
                 /\ pendingCommands' = <<>>
                 /\ pendingOverflowed' = OverflowNoted
              \/ /\ ~predictionDisabled /\ Len(grown) <= MaxPendingCommands
                 /\ pendingCommands' = grown
                 /\ UNCHANGED pendingOverflowed
    /\ UNCHANGED <<server, snapshots, history, lastRecordedStep, localStep,
                   lastConfirmedStep, predictionDisabled, confirmed>>

\* The client's runtime ticks once, followed by recordPredictedStep().
PredictStep ==
    /\ client.step < MaxStep
    /\ client' = Ticked(client)
    /\ IF predictionDisabled
       THEN UNCHANGED <<history, lastRecordedStep, localStep>>
       ELSE LET m == IF lastRecordedStep # None /\ client'.step <= lastRecordedStep
                     THEN Fresh
                     ELSE [entries |-> history, last |-> lastRecordedStep]
            IN  /\ history' = Recording(m, client').entries
                /\ lastRecordedStep' = Recording(m, client').last
                /\ localStep' = client'.step
    /\ UNCHANGED <<server, uplink, snapshots, issued, pendingCommands, pendingOverflowed,
                   lastConfirmedStep, predictionDisabled, confirmed>>

-----------------------------------------------------------------------------
(* applyServerState(snapshot, confirmedStep) with confirmedStep =           *)
(* snapshot.runtime.step. `compatible` is the outcome of the version and    *)
(* digest checks.                                                           *)

Stale(s) == s.step < lastConfirmedStep

\* dropPendingCommands
Unconfirmed(commands, confirmedStep) ==
    Select(commands, {c \in Range(commands) : c.step > confirmedStep})

HasChecksum(step) == \E i \in 1..Len(history) : history[i].step = step

\* findChecksum: the oldest entry of that step.
LocalChecksum(step) ==
    history[CHOOSE i \in 1..Len(history) :
               /\ history[i].step = step
               /\ \A j \in 1..(i - 1) : history[j].step # step].checksum

\* Wrong on purpose (mutant): computePartialChecksum of the command queue.
ChecksumMatchQueue(s) == LocalChecksum(s.step).queue = StateChecksum(s).queue

ChecksumMatch(s) == LocalChecksum(s.step) = StateChecksum(s)

\* Wrong on purpose (mutant): the history of the old timeline is kept.
ReplayStartKeepsHistory(s) ==
    Recording([entries |-> history, last |-> lastRecordedStep], s)

\* clearHistory and recordSnapshotChecksum.
ReplayStart(s) == Recording(Fresh, s)

\* replayToStep: the runtime and the records after each step replayed.
Replayed(r, m, target) ==
    LET steps == IF target > r.step THEN target - r.step ELSE 0
        after[n \in 0..steps] ==
          IF n = 0 THEN [runtime |-> r, records |-> m]
          ELSE [runtime |-> Ticked(after[n - 1].runtime),
                records |-> Recording(after[n - 1].records, Ticked(after[n - 1].runtime))]
    IN  after[steps]

\* Wrong on purpose (mutant): the commands in flight are not replayed.
ReplayQueueEmpty(commands) == {}

\* The pending commands reconcileWithReplay enqueues in the restored runtime.
ReplayQueue(commands) == {commands[i] : i \in 1..Len(commands)}

\* reconcileWithReplay: a runtime restored from the snapshot replaces the
\* client's once it has caught up with the step the client had reached.
Reconcile(s, commands, target) ==
    LET restored == Enqueued(s, ReplayQueue(commands))
        result == Replayed(restored, ReplayStart(s), target)
    IN  /\ client' = result.runtime
        /\ history' = result.records.entries
        /\ lastRecordedStep' = result.records.last
        /\ localStep' = result.runtime.step
        /\ pendingCommands' = commands
        /\ pendingOverflowed' = FALSE
        /\ lastConfirmedStep' = s.step
        /\ confirmed' = s

ResolvedLocalStep(s) == IF localStep >= 0 THEN localStep ELSE s.step

Delivery(s) == s \in snapshots /\ UNCHANGED <<server, uplink, snapshots, issued>>

Ignore(s) ==
    /\ Delivery(s) /\ Stale(s)
    /\ UNCHANGED <<client, managerVars>>

\* resyncAndDisablePrediction, and every snapshot from then on.
ResyncDisabled(s, compatible) ==
    /\ Delivery(s) /\ ~Stale(s)
    /\ predictionDisabled \/ ~compatible
    /\ predictionDisabled' = TRUE
    /\ Reconcile(s, <<>>, s.step)

ResyncOverflow(s) ==
    /\ Delivery(s) /\ ~Stale(s) /\ ~predictionDisabled
    /\ pendingOverflowed
    /\ Reconcile(s, <<>>, s.step)
    /\ UNCHANGED predictionDisabled

\* prediction-window-exceeded
ResyncUnrecorded(s) ==
    /\ Delivery(s) /\ ~Stale(s) /\ ~predictionDisabled /\ ~pendingOverflowed
    /\ ~HasChecksum(s.step)
    /\ Reconcile(s, Unconfirmed(pendingCommands, s.step), ResolvedLocalStep(s))
    /\ UNCHANGED predictionDisabled

Confirm(s) ==
    /\ Delivery(s) /\ ~Stale(s) /\ ~predictionDisabled /\ ~pendingOverflowed
    /\ HasChecksum(s.step) /\ ChecksumMatch(s)
    /\ pendingCommands' = Unconfirmed(pendingCommands, s.step)
    /\ lastConfirmedStep' = s.step
    /\ confirmed' = s
    /\ UNCHANGED <<client, history, lastRecordedStep, pendingOverflowed, localStep,
                   predictionDisabled>>

RollBack(s) ==
    /\ Delivery(s) /\ ~Stale(s) /\ ~predictionDisabled /\ ~pendingOverflowed
    /\ HasChecksum(s.step) /\ ~ChecksumMatch(s)
    /\ Reconcile(s, Unconfirmed(pendingCommands, s.step), ResolvedLocalStep(s))
    /\ UNCHANGED predictionDisabled

ApplyServerState(s) ==
    \/ Ignore(s)
    \/ \E compatible \in BOOLEAN : ResyncDisabled(s, compatible)
    \/ ResyncOverflow(s)
    \/ ResyncUnrecorded(s)
    \/ Confirm(s)
    \/ RollBack(s)

-----------------------------------------------------------------------------
PredictionInit ==
    /\ server = NewRuntime /\ client = NewRuntime
    /\ uplink = {} /\ snapshots = {}
    /\ issued = << >>
    /\ history = <<>> /\ lastRecordedStep = None
    /\ pendingCommands = <<>> /\ pendingOverflowed = FALSE
    /\ localStep = None /\ lastConfirmedStep = None
    /\ predictionDisabled = FALSE
    /\ confirmed = NewRuntime

PredictionNext ==
    \/ \E id \in Ids : ServerReceive(id) \/ LocalCommand(id)
    \/ ServerTick
    \/ ServerSnapshot
    \/ PredictStep
    \/ \E s \in snapshots : ApplyServerState(s)

PredictionSpec == PredictionInit /\ [][PredictionNext]_predictionVars

-----------------------------------------------------------------------------
IdsOf(commands) == {commands[i].id : i \in 1..Len(commands)}

\* What runtime r had executed when it reached the given step.
ExecutedBefore(r, step) ==
    [id \in Ids |-> Select(r.executed[id], 0..(step - 1))]

(* The client's present never contradicts the snapshot it reconciled with   *)
(* last: up to the confirmed step it has executed exactly what the server   *)
(* has, after a confirmation (which compares checksums only) as after a     *)
(* rollback or a resync, whichever snapshots came late, twice or never.     *)
AgreesWithConfirmed ==
    ExecutedBefore(client, lastConfirmedStep) = ExecutedBefore(confirmed, lastConfirmedStep)

(* Every checksum in the history is of the timeline the client is on: a     *)
(* rollback leaves none of the runtime it replaced behind (clearHistory,    *)
(* recordReplayStep), which a later snapshot could be compared with.        *)
HistoryIsOurs ==
    \A i \in 1..Len(history) :
        history[i].checksum.executed = ExecutedBefore(client, history[i].step)

(* The prediction and the manager's record of it are the same: a pending    *)
(* command has been executed by the client's runtime or is queued there,    *)
(* whatever was replayed since; and a command that runtime has executed or  *)
(* queued is pending, known to the snapshot reconciled with last, or from a *)
(* step already confirmed, unless the pending buffer overflowed and the     *)
(* next snapshot will replace the runtime.                                  *)
Predicted(r, id) == r.executed[id] # <<>> \/ \E c \in r.queue : c.id = id

NothingUntracked ==
    \A id \in Ids :
        /\ id \in IdsOf(pendingCommands) => Predicted(client, id)
        /\ Predicted(client, id) =>
              \/ pendingOverflowed \/ predictionDisabled
              \/ id \in IdsOf(pendingCommands)
              \/ Predicted(confirmed, id)
              \/ issued[id] <= lastConfirmedStep
=============================================================================
