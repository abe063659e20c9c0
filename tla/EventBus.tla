------------------------------- MODULE EventBus -------------------------------
(***************************************************************************)
(* The runtime's event bus (packages/core/src/events/event-bus.ts) under   *)
(* the ticks of internals.browser.ts: one internal and one outbound buffer *)
(* per channel, published to by handlers, systems and subscribers and, by  *)
(* code that resumes after an await, between ticks. dispatch merges the    *)
(* internal buffers by dispatchOrder and is broken here at every           *)
(* subscriber, which may publish, subscribe, unsubscribe or throw.         *)
(***************************************************************************)
EXTENDS Selections, Functions, FiniteSets

CONSTANTS
    ChannelCount,
    Capacity,           \* of every channel
    MaxOrder,           \* bound: events published in one tick
    MaxSubscribers,     \* bound: subscriptions ever made
    MaxTick             \* bound: the step counter

Channels == 1..ChannelCount

ASSUME BusAssumption ==
    /\ ChannelCount \in Nat \ {0}
    /\ Capacity \in Nat \ {0}
    /\ MaxOrder \in Nat /\ MaxSubscribers \in Nat /\ MaxTick \in Nat

VARIABLES
    step,               \* the runtime's currentStep
    pc,                 \* "between" ticks, "running" handlers and systems,
                        \* "dispatching", in a "subscriber", step "completed"
    internal,           \* channel |-> internalBuffer, events by dispatchOrder
    outbound,           \* channel |-> outboundBuffer, events by tick and order
    subscribers,        \* channel |-> subscriber records, in registration order
    currentTick,        \* the tick beginTick announced
    dispatchCounter,
    tickAborted,
    cursors,            \* dispatch: channel |-> events already dispatched
    serving,            \* dispatch: the channel of the event being handed out, or 0
    position,           \* dispatch: subscribers of that channel already passed
    delivered,          \* ghost: <<order, subscriber>> pairs of this tick
    lastServed,         \* ghost: the last event taken in this tick, or -1
    nextId              \* ghost: names subscriptions

bufferVars == <<internal, outbound, dispatchCounter, tickAborted>>
dispatchVars == <<cursors, serving, position, delivered, lastServed>>
subscriberVars == <<subscribers, nextId>>
tickVars == <<step, currentTick>>
busVars == <<pc, bufferVars, dispatchVars, subscriberVars, tickVars>>

-----------------------------------------------------------------------------
(* beginTick                                                                *)

NoEvents == [c \in Channels |-> <<>>]
Zero == [c \in Channels |-> 0]

Active(list) == Select(list, {s \in Range(list) : s.active})

\* compactSubscribers; who is left has been there since before the tick.
Compacted(list) ==
    [i \in 1..Len(Active(list)) |-> [Active(list)[i] EXCEPT !.late = FALSE]]

BeginTick(resetOutbound) ==
    /\ currentTick' = step
    /\ dispatchCounter' = 0
    /\ tickAborted' = FALSE
    /\ internal' = NoEvents
    /\ outbound' = IF resetOutbound THEN NoEvents ELSE outbound
    /\ subscribers' = [c \in Channels |-> Compacted(subscribers[c])]
    /\ cursors' = Zero /\ serving' = 0 /\ position' = 0
    /\ delivered' = {} /\ lastServed' = -1
    /\ pc' = "running"
    /\ UNCHANGED <<step, nextId>>

\* The first step of a runTickBatch.
BeginBatch ==
    /\ pc = "between"
    /\ step < MaxTick
    /\ BeginTick(TRUE)

\* Every further step keeps the outbound events of those before it.
ContinueBatch ==
    /\ pc = "completed"
    /\ step < MaxTick
    /\ BeginTick(FALSE)

EndBatch ==
    /\ pc = "completed"
    /\ pc' = "between"
    /\ UNCHANGED <<bufferVars, dispatchVars, subscriberVars, tickVars>>

-----------------------------------------------------------------------------
(* publish, on, unsubscribe: from handlers, systems, subscribers, and from  *)
(* continuations between ticks.                                             *)

MayCall == pc \in {"between", "running", "subscriber"}

AtCapacity(c) == Len(internal[c]) >= Capacity \/ Len(outbound[c]) >= Capacity

Publish(c) ==
    /\ MayCall /\ ~tickAborted /\ ~AtCapacity(c)
    /\ dispatchCounter < MaxOrder
    /\ dispatchCounter' = dispatchCounter + 1
    /\ internal' = [internal EXCEPT ![c] = Append(@, dispatchCounter)]
    /\ outbound' = [outbound EXCEPT ![c] =
                        Append(@, [tick |-> currentTick, order |-> dispatchCounter])]
    /\ UNCHANGED <<pc, tickAborted, dispatchVars, subscriberVars, tickVars>>

\* The payload's validator throws, with its dispatchOrder already taken.
PublishInvalid(c) ==
    /\ MayCall /\ ~tickAborted /\ ~AtCapacity(c)
    /\ dispatchCounter < MaxOrder
    /\ dispatchCounter' = dispatchCounter + 1
    /\ UNCHANGED <<pc, internal, outbound, tickAborted, dispatchVars, subscriberVars,
                   tickVars>>

\* EventBufferOverflowError, thrown at whoever publishes; until the next
\* beginTick every publish throws it.
PublishOverflows(c) ==
    /\ MayCall /\ ~tickAborted /\ AtCapacity(c)
    /\ tickAborted' = TRUE
    /\ UNCHANGED <<pc, internal, outbound, dispatchCounter, dispatchVars, subscriberVars,
                   tickVars>>

Subscribe(c) ==
    /\ MayCall
    /\ nextId < MaxSubscribers
    /\ nextId' = nextId + 1
    /\ subscribers' = [subscribers EXCEPT ![c] =
                          Append(@, [id |-> nextId, active |-> TRUE, late |-> TRUE])]
    /\ UNCHANGED <<pc, bufferVars, dispatchVars, tickVars>>

\* The record stays in the list until the next beginTick.
Deactivated(list, i) == [list EXCEPT ![i].active = FALSE]

Unsubscribe(c) ==
    /\ MayCall
    /\ \E i \in 1..Len(subscribers[c]) :
          /\ subscribers[c][i].active
          /\ subscribers' = [subscribers EXCEPT ![c] = Deactivated(@, i)]
    /\ UNCHANGED <<pc, bufferVars, dispatchVars, tickVars, nextId>>

-----------------------------------------------------------------------------
(* dispatch                                                                 *)

StartDispatch ==
    /\ pc = "running"
    /\ pc' = "dispatching"
    /\ UNCHANGED <<bufferVars, dispatchVars, subscriberVars, tickVars>>

Candidates == {c \in Channels : cursors[c] < Len(internal[c])}
EventAt(c) == internal[c][cursors[c] + 1]

\* Wrong on purpose (mutant): the channels are emptied one after the other.
IsNextByChannel(c) == c \in Candidates /\ \A d \in Candidates : c <= d

\* findNextDispatchCandidate
IsNext(c) == c \in Candidates /\ \A d \in Candidates : EventAt(c) <= EventAt(d)

TakeEvent ==
    /\ pc = "dispatching" /\ serving = 0
    /\ \E c \in Channels :
          /\ IsNext(c)
          /\ serving' = c
          /\ lastServed' = EventAt(c)
    /\ position' = 0
    /\ UNCHANGED <<pc, bufferVars, cursors, delivered, subscriberVars, tickVars>>

Handing == pc = "dispatching" /\ serving # 0

NextSubscriber == subscribers[serving][position + 1]

InvokeSubscriber ==
    /\ Handing
    /\ position < Len(subscribers[serving])
    /\ NextSubscriber.active
    /\ delivered' = delivered \cup {<<EventAt(serving), NextSubscriber.id>>}
    /\ position' = position + 1
    /\ pc' = "subscriber"
    /\ UNCHANGED <<bufferVars, cursors, serving, lastServed, subscriberVars, tickVars>>

SkipSubscriber ==
    /\ Handing
    /\ position < Len(subscribers[serving])
    /\ ~NextSubscriber.active
    /\ position' = position + 1
    /\ UNCHANGED <<pc, bufferVars, cursors, serving, delivered, lastServed, subscriberVars,
                   tickVars>>

SubscriberReturns ==
    /\ pc = "subscriber"
    /\ pc' = "dispatching"
    /\ UNCHANGED <<bufferVars, dispatchVars, subscriberVars, tickVars>>

\* The tick fails and tick() throws: buffers and step stay as they are.
SubscriberThrows ==
    /\ pc = "subscriber"
    /\ pc' = "between"
    /\ cursors' = [cursors EXCEPT ![serving] = @ + 1]
    /\ serving' = 0
    /\ UNCHANGED <<bufferVars, position, delivered, lastServed, subscriberVars, tickVars>>

EventDone ==
    /\ Handing
    /\ position >= Len(subscribers[serving])
    /\ cursors' = [cursors EXCEPT ![serving] = @ + 1]
    /\ serving' = 0
    /\ UNCHANGED <<pc, bufferVars, position, delivered, lastServed, subscriberVars, tickVars>>

\* Wrong on purpose (mutant): dispatched events stay in the internal buffers.
InternalKept == internal

ClearedInternal == NoEvents

EndDispatch ==
    /\ pc = "dispatching" /\ serving = 0
    /\ Candidates = {}
    /\ internal' = ClearedInternal
    /\ cursors' = Zero
    /\ pc' = "running"
    /\ UNCHANGED <<outbound, dispatchCounter, tickAborted, serving, position, delivered,
                   lastServed, subscriberVars, tickVars>>

\* The last dispatch of a step follows its last system.
CompleteStep ==
    /\ pc = "running"
    /\ internal = NoEvents
    /\ step' = step + 1
    /\ pc' = "completed"
    /\ UNCHANGED <<bufferVars, dispatchVars, subscriberVars, currentTick>>

-----------------------------------------------------------------------------
BusInit ==
    /\ step = 0 /\ currentTick = 0
    /\ pc = "between"
    /\ internal = NoEvents /\ outbound = NoEvents
    /\ dispatchCounter = 0 /\ tickAborted = FALSE
    /\ subscribers = NoEvents /\ nextId = 1
    /\ cursors = Zero /\ serving = 0 /\ position = 0
    /\ delivered = {} /\ lastServed = -1

BusNext ==
    \/ BeginBatch
    \/ ContinueBatch
    \/ EndBatch
    \/ \E c \in Channels :
          \/ Publish(c)
          \/ PublishInvalid(c)
          \/ PublishOverflows(c)
          \/ Subscribe(c)
          \/ Unsubscribe(c)
    \/ StartDispatch
    \/ TakeEvent
    \/ InvokeSubscriber
    \/ SkipSubscriber
    \/ SubscriberReturns
    \/ SubscriberThrows
    \/ EventDone
    \/ EndDispatch
    \/ CompleteStep

BusSpec == BusInit /\ [][BusNext]_busVars

-----------------------------------------------------------------------------
(* Events published and not yet taken by dispatch, merged over channels.    *)
Undelivered ==
    UNION {{internal[c][i] : i \in (cursors[c] + (IF serving = c THEN 2 ELSE 1))..Len(internal[c])}
              : c \in Channels}

Merged(S) ==
    CHOOSE order \in [1..Cardinality(S) -> S] :
        \A i, j \in 1..Cardinality(S) : i < j => order[i] < order[j]

Queue == INSTANCE EventQueue WITH
    Orders <- 0..(MaxOrder - 1),
    queue <- Merged(Undelivered),
    last <- lastServed,
    delivering <- pc \in {"dispatching", "subscriber"}

(* One buffer per channel, merged by dispatchOrder at every turn, behaves   *)
(* like a single first-in-first-out queue: events are handed out in the     *)
(* order they were published, nested publishes included, and a dispatch     *)
(* leaves none behind (dispatch, findNextDispatchCandidate, beginTick).     *)
ImplementsEventQueue == Queue!Spec

(* When a step completes, every event of its tick has reached every         *)
(* subscriber of its channel that was there when the tick began and has not *)
(* left, whatever subscribers joined, left or published during dispatch.    *)
HeardByAll ==
    pc = "completed" =>
        \A c \in Channels :
            \A i \in 1..Len(outbound[c]), j \in 1..Len(subscribers[c]) :
                LET event == outbound[c][i]
                    s == subscribers[c][j]
                IN  event.tick = currentTick /\ s.active /\ ~s.late =>
                        <<event.order, s.id>> \in delivered

(* And none is handed the same event twice, although a tick dispatches once *)
(* after the commands and again after every system.                         *)
HeardExactlyOnce ==
    /\ []HeardByAll
    /\ [][InvokeSubscriber => <<EventAt(serving), NextSubscriber.id>> \notin delivered]_busVars
=============================================================================
