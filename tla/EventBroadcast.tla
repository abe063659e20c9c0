---------------------------- MODULE EventBroadcast ----------------------------
(***************************************************************************)
(* The path of runtime events from the server to a client: the frame built *)
(* from the outbound buffers (runtime-event-frame.ts), the broadcast frame *)
(* made of it, the batcher, and the client that applies batches, with a    *)
(* deduper, to its own bus (event-broadcast.ts). The connection in between *)
(* is the application's: it delivers batches in the order they were sent,  *)
(* may deliver any of the last few again after a reconnect, may cut a      *)
(* frame short, and retries a batch whose application threw.               *)
(***************************************************************************)
EXTENDS Selections, SequencesExt

CONSTANTS
    TypeCount,          \* event types; type t has channel index t
    RunsPerFrame,       \* steps one runTickBatch may run: one frame holds them all
    MaxSteps, MaxEvents, MaxDelay,  \* the batcher's limits
    DeduperCapacity,
    Configs,            \* the other options: coalesce mode, priority types, filter
    MaxFrameEvents,     \* bound: events of one frame
    MaxPublished,       \* bound: events of all frames
    MaxFrames,          \* bound: frames the server builds
    MaxReplays,         \* bound: batches delivered once more
    MaxFaults           \* bound: applications that throw, and deduper resets

Types == 1..TypeCount
NotSet == -1

ASSUME BroadcastAssumption ==
    /\ {TypeCount, RunsPerFrame, MaxSteps, MaxEvents, DeduperCapacity} \subseteq Nat \ {0}
    /\ {MaxDelay, MaxFrameEvents, MaxPublished, MaxFrames, MaxReplays, MaxFaults} \subseteq Nat
    /\ \A c \in Configs :
          /\ c.coalesce \in {"none", "first", "last"}
          /\ c.priority \subseteq Types /\ c.filter \subseteq Types

VARIABLES
    config,             \* the options in force
    \* Server
    serverStep,         \* frames built so far; the next frame's step
    now,                \* the batcher's clock
    pendingFrames,
    pendingSince,
    sent,               \* batches handed to the connection
    published,          \* ghost: every event of every frame, in publish order
    \* Client
    received,           \* batches applied without an exception
    ring,               \* the deduper's keys, oldest first
    log,                \* ghost: every event recorded, handed to handlers or not
    skipped,            \* ghost: the events the last application skipped
    epoch,              \* ghost: resets of the deduper
    replays, faults

serverVars == <<serverStep, now, pendingFrames, pendingSince, sent, published>>
clientVars == <<received, ring, log, skipped, epoch>>
broadcastVars == <<config, serverVars, clientVars, replays, faults>>

-----------------------------------------------------------------------------
(* Frames. An event is named by the step of its frame, the run of the batch *)
(* that published it and its dispatch order, which every run starts at 0.   *)

Contents == UNION {[1..n -> Types] : n \in 1..MaxFrameEvents}

Published(step, run, types) ==
    [i \in 1..Len(types) |->
        [step |-> step, run |-> run, order |-> i - 1, type |-> types[i]]]

\* buildRuntimeEventFrame: channel after channel, each in publish order.
RuntimeFrame(events) ==
    FlattenSeq([c \in Types |-> Select(events, {e \in Range(events) : e.type = c})])

\* Array.prototype.sort keeps the order of events with the same dispatchOrder.
ByDispatchOrder(events) ==
    FlattenSeq([n \in 1..MaxFrameEvents |->
                   Select(events, {e \in Range(events) : e.order = n - 1})])

\* The fnv1a32 of the frame, taken to differ when the events do.
Checksum(events) == events

BroadcastFrame(step, events) ==
    LET ordered == ByDispatchOrder(RuntimeFrame(events))
    IN  [serverStep |-> step, events |-> ordered, checksum |-> Checksum(ordered),
         at |-> now']    \* ghost: when it reaches the batcher

\* refreshBroadcastFrameChecksum
WithEvents(frame, events) ==
    [frame EXCEPT !.events = events, !.checksum = Checksum(events)]

-----------------------------------------------------------------------------
(* EventBroadcastBatcher                                                    *)

EventCount(frames) == Len(FlattenSeq([i \in 1..Len(frames) |-> frames[i].events]))

\* Wrong on purpose (mutant): both modes keep the first event of a key.
ReplacedByFirst(frames, f, i) ==
    /\ config.coalesce # "none"
    /\ \E g \in 1..Len(frames) : \E j \in 1..Len(frames[g].events) :
          /\ frames[g].events[j].type = frames[f].events[i].type
          /\ g < f \/ (g = f /\ j < i)

\* Another event with the key of event i of frame f takes its place.
Replaced(frames, f, i) ==
    \E g \in 1..Len(frames) : \E j \in 1..Len(frames[g].events) :
        /\ frames[g].events[j].type = frames[f].events[i].type
        /\ \/ config.coalesce = "first" /\ (g < f \/ (g = f /\ j < i))
           \/ config.coalesce = "last" /\ (g > f \/ (g = f /\ j > i))

Coalesced(frames) ==
    IF Len(frames) <= 1 THEN frames ELSE
    LET Kept(f) == [i \in 1..Len(frames[f].events) |->
                       IF Replaced(frames, f, i) THEN <<>> ELSE <<frames[f].events[i]>>]
        compacted == [f \in 1..Len(frames) |->
                         WithEvents(frames[f], FlattenSeq(Kept(f)))]
    IN  Select(compacted, {frame \in Range(compacted) : frame.events # <<>>})

\* flush: the batches it yields, at most one.
Flushed(frames) == IF frames = <<>> THEN <<>> ELSE <<Coalesced(frames)>>

DelayElapsed == pendingSince # NotSet /\ now' - pendingSince >= MaxDelay

HasPriority(events) == \E i \in 1..Len(events) : events[i].type \in config.priority

ShouldFlush(frames) == Len(frames) >= MaxSteps \/ EventCount(frames) >= MaxEvents

PriorityBatches(pending, frame) == Flushed(pending) \o << <<frame>> >>

\* Wrong on purpose (mutant): every frame added restarts the delay.
PendingSinceAfterRestarts(pending) == now'

\* addPendingFrame: the delay runs from the first frame pending.
PendingSinceAfter(pending) ==
    IF pending = <<>> THEN now'
    ELSE IF DelayElapsed THEN now' ELSE pendingSince

\* ingestFrame
Ingest(frame) ==
    LET early == IF DelayElapsed THEN Flushed(pendingFrames) ELSE <<>>
        pending == IF DelayElapsed THEN <<>> ELSE pendingFrames
        events == Select(frame.events, {e \in Range(frame.events) : e.type \in config.filter})
        adjusted == WithEvents(frame, events)
    IN  \/ /\ events = <<>>
           /\ sent' = sent \o early
           /\ pendingFrames' = pending
           /\ pendingSince' = IF DelayElapsed THEN NotSet ELSE pendingSince
        \/ /\ events # <<>> /\ HasPriority(events)
           /\ sent' = sent \o early \o PriorityBatches(pending, adjusted)
           /\ pendingFrames' = <<>>
           /\ pendingSince' = NotSet
        \/ /\ events # <<>> /\ ~HasPriority(events)
           /\ ShouldFlush(Append(pending, adjusted))
           /\ sent' = sent \o early \o Flushed(Append(pending, adjusted))
           /\ pendingFrames' = <<>>
           /\ pendingSince' = NotSet
        \/ /\ events # <<>> /\ ~HasPriority(events)
           /\ ~ShouldFlush(Append(pending, adjusted))
           /\ sent' = sent \o early
           /\ pendingFrames' = Append(pending, adjusted)
           /\ pendingSince' = PendingSinceAfter(pending)

-----------------------------------------------------------------------------
(* Server                                                                   *)

\* A runTickBatch, the frame of its outbound events, and ingestFrame. (Runs that
\* publish nothing are not counted.)
ServerFrame ==
    /\ serverStep < MaxFrames
    /\ \E runs \in 0..RunsPerFrame : \E contents \in [1..runs -> Contents] :
          LET events == FlattenSeq([r \in 1..runs |->
                                       Published(serverStep, r, contents[r])])
          IN  /\ Len(events) <= MaxFrameEvents
              /\ Len(published) + Len(events) <= MaxPublished
              /\ published' = published \o events
              /\ \E elapsed \in 0..1 : now' = now + elapsed
              /\ Ingest(BroadcastFrame(serverStep, events))
    /\ serverStep' = serverStep + 1
    /\ UNCHANGED <<config, clientVars, replays, faults>>

\* The application flushes the batcher.
ServerFlush ==
    /\ pendingFrames # <<>>
    /\ sent' = sent \o Flushed(pendingFrames)
    /\ pendingFrames' = <<>>
    /\ pendingSince' = NotSet
    /\ UNCHANGED <<config, serverStep, now, published, clientVars, replays, faults>>

-----------------------------------------------------------------------------
(* Client                                                                   *)

\* `${serverStep}:${dispatchOrder}:${type}`
Key(e) == <<e.step, e.order, e.type>>

\* Wrong on purpose (mutant): keys are forgotten one too early.
RecordedTooFew(keys, key) ==
    IF Len(keys) < DeduperCapacity - 1 THEN Append(keys, key)
    ELSE Append(Tail(keys), key)

\* EventBroadcastDeduper.record: the ring overwrites its oldest key.
Recorded(keys, key) ==
    IF Len(keys) < DeduperCapacity THEN Append(keys, key) ELSE Append(Tail(keys), key)

\* One event of a frame: skipped, or recorded and published to the bus.
Offer(client, e) ==
    IF \E i \in 1..Len(client.ring) : client.ring[i] = Key(e)
    THEN [client EXCEPT !.skipped = Append(@, e)]
    ELSE [client EXCEPT !.ring = Recorded(@, Key(e)), !.fresh = Append(@, e)]

OfferAll(client, events) ==
    IF events = <<>> THEN client ELSE
    LET after[n \in 0..Len(events)] ==
          IF n = 0 THEN client ELSE Offer(after[n - 1], events[n])
    IN  after[Len(events)]

Client == [ring |-> ring, fresh |-> <<>>, skipped |-> <<>>]

\* Wrong on purpose (mutant): a frame is published in the order of its channels.
HydratedAsIs(frame) == RuntimeFrame(frame.events)

\* The events applyEventBroadcastFrame goes through, in order.
Hydrated(frame) == ByDispatchOrder(frame.events)

Valid(frame) == frame.checksum = Checksum(frame.events)

Events(frames) == FlattenSeq([f \in 1..Len(frames) |-> Hydrated(frames[f])])

\* The bus hands out the first `handed` of the events published to it.
Apply(client, handed) ==
    /\ ring' = client.ring
    /\ skipped' = client.skipped
    /\ log' = log \o [n \in 1..Len(client.fresh) |->
                         [event |-> client.fresh[n], handed |-> n <= handed, epoch |-> epoch]]
    /\ UNCHANGED <<config, serverVars, epoch>>

\* Batches arrive in order; any may come once more.
Arrives(i) ==
    /\ i <= received + 1
    /\ i <= received => replays < MaxReplays
    /\ replays' = IF i <= received THEN replays + 1 ELSE replays

\* applyEventBroadcastBatch
Deliver(i) ==
    LET client == OfferAll(Client, Events(sent[i]))
    IN  /\ Arrives(i)
        /\ \A f \in 1..Len(sent[i]) : Valid(sent[i][f])
        /\ Apply(client, Len(client.fresh))
        /\ received' = IF i > received THEN i ELSE received
        /\ UNCHANGED faults

\* A frame fails to apply, and the rest of its batch is left: publish throws
\* at event p (a full buffer, a validator), before dispatch, or the handler of
\* the h-th published event throws. The deduper keeps what it has recorded.
DeliverThrows(i) ==
    /\ Arrives(i)
    /\ faults < MaxFaults /\ faults' = faults + 1
    /\ \E f \in 1..Len(sent[i]) :
          LET events == Hydrated(sent[i][f])
              before == OfferAll(Client, Events(SubSeq(sent[i], 1, f - 1)))
              after(p) == OfferAll(before, SubSeq(events, 1, p))
              whole == Len(before.fresh)
          IN  /\ Valid(sent[i][f])
              /\ \/ \E p \in 1..Len(events) :
                       /\ Len(after(p).fresh) > Len(after(p - 1).fresh)
                       /\ Apply(after(p), whole)
                 \/ \E h \in (whole + 1)..Len(after(Len(events)).fresh) :
                       Apply(after(Len(events)), h)
    /\ UNCHANGED received

\* A frame arrives without its last event and fails its checksum.
DeliverDamaged(i) ==
    /\ Arrives(i)
    /\ faults < MaxFaults /\ faults' = faults + 1
    /\ \E f \in 1..Len(sent[i]) :
          LET damaged == [sent[i][f] EXCEPT !.events = Front(@)]
              before == OfferAll(Client, Events(SubSeq(sent[i], 1, f - 1)))
          IN  /\ ~Valid(damaged)
              /\ Apply(before, Len(before.fresh))
    /\ UNCHANGED received

ResetDeduper ==
    /\ faults < MaxFaults /\ faults' = faults + 1
    /\ ring' = <<>>
    /\ epoch' = epoch + 1
    /\ UNCHANGED <<config, serverVars, received, log, skipped, replays>>

-----------------------------------------------------------------------------
BroadcastInit ==
    /\ config \in Configs
    /\ serverStep = 0 /\ now = 0
    /\ pendingFrames = <<>> /\ pendingSince = NotSet
    /\ sent = <<>> /\ published = <<>>
    /\ received = 0 /\ ring = <<>>
    /\ log = <<>> /\ skipped = <<>> /\ epoch = 0
    /\ replays = 0 /\ faults = 0

BroadcastNext ==
    \/ ServerFrame
    \/ ServerFlush
    \/ \E i \in 1..Len(sent) :
          \/ Deliver(i)
          \/ DeliverThrows(i)
          \/ DeliverDamaged(i)
    \/ ResetDeduper

BroadcastSpec == BroadcastInit /\ [][BroadcastNext]_broadcastVars

-----------------------------------------------------------------------------
\* The order a frame is sorted into, blind to which step of a batch published.
SortedBefore(d, e) == d.step < e.step \/ (d.step = e.step /\ d.order < e.order)

\* The order of the server's bus: step after step, each in dispatch order.
PublishedBefore(d, e) ==
    \/ d.step < e.step
    \/ d.step = e.step /\ d.run < e.run
    \/ d.step = e.step /\ d.run = e.run /\ d.order < e.order

\* Two steps of one batch, whose events share a frame.
OneBatch(d, e) == d.step = e.step /\ d.run # e.run

HeardBefore(k, e) == \E n \in 1..(k - 1) : log[n].event = e

(* Nothing is lost between the server's bus and the client's deduper: when  *)
(* the batcher is empty and every batch has been applied, each event that   *)
(* the filter allows has been recorded, or one with the same key (steps of  *)
(* one batch share the key's step), or one that coalescing let take its     *)
(* place (ingestFrame, flush, coalesceBatchFrames, shouldSkip), however     *)
(* often batches were replayed, damaged or abandoned half applied. Recorded *)
(* is not handed to a handler: where an application threw, the deduper      *)
(* keeps out of the retry what the bus had not dispatched; only without a   *)
(* fault has a handler been given it too.                                   *)
NothingLost ==
    pendingFrames = <<>> /\ received = Len(sent) =>
        \A i \in 1..Len(published) :
            LET e == published[i]
            IN  e.type \in config.filter =>
                    \E j \in 1..Len(log) :
                        LET d == log[j].event
                        IN  /\ \/ Key(d) = Key(e)
                               \/ /\ d.type = e.type
                                  /\ \/ config.coalesce = "last" /\ SortedBefore(e, d)
                                     \/ config.coalesce = "first" /\ SortedBefore(d, e)
                            /\ faults = 0 => log[j].handed

(* A handler is given the same event again only after the deduper has       *)
(* recorded as many others as it holds, or has been reset (shouldSkip,      *)
(* record), whether the batch was replayed or retried after an exception.   *)
HeardOnce ==
    \A j, k \in 1..Len(log) :
        j < k /\ log[j].event = log[k].event /\ log[j].epoch = log[k].epoch =>
            k - j > DeduperCapacity

(* Events of one step, and those of different frames, reach the client for  *)
(* the first time in the order in which they were published: the priority   *)
(* flush never lets a frame overtake another, and a frame is put back into  *)
(* dispatch order although it is built channel by channel. It says nothing  *)
(* of two steps of one batch, whose events one frame holds.                 *)
HeardInOrder ==
    \A j, k \in 1..Len(log) :
        LET d == log[j].event
            e == log[k].event
        IN  j < k /\ PublishedBefore(e, d) /\ ~OneBatch(e, d) => HeardBefore(k, e)

(* The same with the steps of one batch included, which is the order of the *)
(* server's bus (docs/runtime-event-broadcast-design-issue-547.md:23,       *)
(* "preserve existing event ordering semantics"). It does not hold: every   *)
(* step starts dispatchOrder at 0, and createEventBroadcastFrame and        *)
(* applyEventBroadcastFrame sort by it alone and break ties by channel, so  *)
(* that a later step's first event may be heard before an earlier step's.   *)
HeardAsPublished ==
    \A j, k \in 1..Len(log) :
        j < k /\ PublishedBefore(log[k].event, log[j].event) => HeardBefore(k, log[k].event)

(* No frame waits in the batcher for maxDelayMs or longer once the server   *)
(* has come back to it with its next frame, an empty one included (with a   *)
(* maxDelayMs of 0 only a frame of this very moment may be there).          *)
DelayKept ==
    \A f \in 1..Len(pendingFrames) :
        pendingFrames[f].at = now \/ now - pendingFrames[f].at < MaxDelay
=============================================================================
