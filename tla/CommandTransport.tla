--------------------------- MODULE CommandTransport ---------------------------
(***************************************************************************)
(* Commands that come over a network: the server                           *)
(* (packages/core/src/command-transport-server.ts) with its idempotency    *)
(* registry and its table of request ids in use, in front of the runtime's *)
(* command queue. Clients time out and retry and networks lose, repeat and *)
(* reorder, so every envelope may reach the server at every moment. A      *)
(* request is a key <<clientId, requestId>>. The payload of a queued       *)
(* command stands for its key; the runtime reports the outcome under the   *)
(* request id alone.                                                       *)
(***************************************************************************)
EXTENDS QueueOperations, Sequences

CONSTANTS
    Clients, Requests,      \* client ids and request ids; clients may pick equal request ids
    Ttl,                    \* idempotencyTtlMs
    MaxNow                  \* bound: the clock

Keys == Clients \X Requests

ASSUME TransportAssumption ==
    /\ Payloads = Keys
    /\ Ttl \in Nat \ {0}
    /\ MaxNow \in Nat

VARIABLES
    now,
    registry,       \* key |-> the response on record
    pendingKeys,    \* requestId |-> who holds it
    nextStep,       \* the runtime's next executable step
    awaiting,       \* executed commands whose promise is open
    outcomes,       \* the runtime's commandOutcomes
    admitted,       \* ghost: sequence number |-> key and time of an enqueued command
    dropped,        \* ghost: keys whose command the queue refused or evicted
    overdue         \* ghost: an outcome came a ttl or more after its command

serverVars == <<registry, pendingKeys>>
runtimeVars == <<nextStep, awaiting, outcomes>>
ghostVars == <<admitted, dropped, overdue>>
transportVars == <<queueVars, now, serverVars, runtimeVars, ghostVars>>

Put(map, x, value) == [y \in DOMAIN map \cup {x} |-> IF y = x THEN value ELSE map[y]]
Without(map, S) == [y \in DOMAIN map \ S |-> map[y]]

-----------------------------------------------------------------------------
(* handleEnvelope. Every call purges first.                                 *)

\* Wrong on purpose (mutant): a record is purged a tick before it expires.
LiveEarly(map) == Without(map, {x \in DOMAIN map : map[x].expiresAt <= now + 1})

Live(map) == Without(map, {x \in DOMAIN map : map[x].expiresAt <= now})

Expiry == now + Ttl

\* The response on record; `of` is a ghost, whose command it speaks of.
Response(status, k) == [status |-> status, expiresAt |-> Expiry, of |-> k]

Cached(k) == k \in DOMAIN Live(registry)

\* Wrong on purpose (mutant): the request id alone is looked up.
HeldByOtherNever(k) == FALSE

HeldByOther(k) ==
    k[2] \in DOMAIN Live(pendingKeys) /\ pendingKeys[k[2]].key # k

AnswerDuplicate(k) ==
    /\ Cached(k)
    /\ registry' = Live(registry)
    /\ pendingKeys' = Live(pendingKeys)
    /\ UNCHANGED <<queueVars, ghostVars>>

\* REQUEST_ID_IN_USE goes on record, but takes nothing from the holder.
RefuseInUse(k) ==
    /\ ~Cached(k)
    /\ HeldByOther(k)
    /\ registry' = Put(Live(registry), k, Response("rejected", k))
    /\ pendingKeys' = Live(pendingKeys)
    /\ UNCHANGED <<queueVars, ghostVars>>

\* The request id is in use by k from now on.
Hold(k) == Put(Live(pendingKeys), k[2], [key |-> k, expiresAt |-> Expiry])

\* recordRejectedResponse: bad sentAt, bad command or mismatched request ids.
RefuseInvalid(k) ==
    /\ ~Cached(k) /\ ~HeldByOther(k)
    /\ registry' = Put(Live(registry), k, Response("rejected", k))
    /\ pendingKeys' = Hold(k)
    /\ UNCHANGED <<queueVars, ghostVars>>

Evicted == {e.payload : e \in entries \ entries'}

\* The command goes to the queue, and is accepted whatever the queue says.
Accept(k) ==
    /\ ~Cached(k) /\ ~HeldByOther(k)
    /\ nextSequence < MaxSequence
    /\ \E t \in Types, p \in Priority, ts \in Timestamps :
          Enqueue([type |-> t, payload |-> k, priority |-> p,
                   timestamp |-> ts, step |-> nextStep])
    /\ LET enqueued == nextSequence' # nextSequence
       IN  /\ admitted' = IF enqueued THEN Put(admitted, nextSequence, [key |-> k, at |-> now])
                          ELSE admitted
           /\ dropped' = (IF enqueued THEN dropped \ {k} ELSE dropped \cup {k}) \cup Evicted
    /\ registry' = Put(Live(registry), k, Response("accepted", k))
    /\ pendingKeys' = Hold(k)
    /\ UNCHANGED overdue

HandleEnvelope(k) ==
    /\ AnswerDuplicate(k) \/ RefuseInUse(k) \/ RefuseInvalid(k) \/ Accept(k)
    /\ UNCHANGED <<now, runtimeVars>>

PurgeExpired ==
    /\ registry' = Live(registry)
    /\ pendingKeys' = Live(pendingKeys)
    /\ UNCHANGED <<queueVars, now, runtimeVars, ghostVars>>

-----------------------------------------------------------------------------
(* drainOutcomeResponses                                                    *)

RequestOf(outcome) == outcome.key[2]

\* The outcomes that carry the request id r.
Reported(r) == {i \in 1..Len(outcomes) : RequestOf(outcomes[i]) = r}

\* The first of them finds the id pending; the others find it gone.
AnswerFor(r) ==
    outcomes[CHOOSE i \in Reported(r) : \A j \in Reported(r) : i <= j]

Answerable == {r \in DOMAIN Live(pendingKeys) : Reported(r) # {}}

\* Wrong on purpose (mutant): an answered request id stays in use.
PendingKept == Live(pendingKeys)

StillPending == Without(Live(pendingKeys), Answerable)

Holders == {pendingKeys[r].key : r \in Answerable}

DrainOutcomeResponses ==
    /\ outcomes # <<>>
    /\ registry' =
          [k \in DOMAIN Live(registry) \cup Holders |->
              IF k \in Holders
              THEN Response(IF AnswerFor(k[2]).success THEN "accepted" ELSE "rejected",
                            AnswerFor(k[2]).key)
              ELSE registry[k]]
    /\ pendingKeys' = StillPending
    /\ outcomes' = <<>>
    /\ overdue' = (overdue \/ \E i \in 1..Len(outcomes) : outcomes[i].at + Ttl <= now)
    /\ UNCHANGED <<queueVars, now, nextStep, awaiting, admitted, dropped>>

-----------------------------------------------------------------------------
(* The runtime, as far as the server sees it: one whole step of IdleRuntime, *)
(* and promises that settle later.                                          *)

Outcome(e, success) ==
    [key |-> e.payload, at |-> admitted[e.sequence].at, success |-> success]

\* The commands in the order the queue hands them out.
InOrder(S) ==
    CHOOSE order \in [1..Cardinality(S) -> S] :
        \A i, j \in 1..Cardinality(S) : i < j => Precedes(order[i], order[j])

RunStep ==
    LET due == Drained(nextStep)
    IN  /\ due # {}
        /\ DequeueUpToStep(nextStep)
        /\ nextStep' = nextStep + 1
        /\ \E promised \in SUBSET due, succeeds \in [due -> BOOLEAN] :
              LET settled == InOrder(due \ promised)
              IN  /\ awaiting' = awaiting \cup promised
                  /\ outcomes' = outcomes \o
                        [i \in 1..Len(settled) |-> Outcome(settled[i], succeeds[settled[i]])]
    /\ UNCHANGED <<now, serverVars, ghostVars>>

PromiseSettles ==
    /\ \E e \in awaiting, success \in BOOLEAN :
          /\ awaiting' = awaiting \ {e}
          /\ outcomes' = Append(outcomes, Outcome(e, success))
    /\ UNCHANGED <<queueVars, now, serverVars, nextStep, ghostVars>>

TimePasses ==
    /\ now < MaxNow
    /\ now' = now + 1
    /\ UNCHANGED <<queueVars, serverVars, runtimeVars, ghostVars>>

-----------------------------------------------------------------------------
Empty == [x \in {} |-> x]

TransportInit ==
    /\ QueueInit
    /\ now = 0 /\ nextStep = 0
    /\ registry = Empty /\ pendingKeys = Empty
    /\ awaiting = {} /\ outcomes = <<>>
    /\ admitted = Empty /\ dropped = {} /\ overdue = FALSE

TransportNext ==
    \/ \E k \in Keys : HandleEnvelope(k)
    \/ PurgeExpired
    \/ DrainOutcomeResponses
    \/ RunStep
    \/ PromiseSettles
    \/ TimePasses

TransportSpec == TransportInit /\ [][TransportNext]_transportVars

-----------------------------------------------------------------------------
(* However often a client retries and the network repeats, two commands of  *)
(* one request enter the queue at least a ttl apart (handleEnvelope's       *)
(* registry lookup, purgeExpired and the refresh when an outcome is drained). *)
AtMostOncePerTtl ==
    \A i, j \in DOMAIN admitted :
        i < j /\ admitted[i].key = admitted[j].key =>
            admitted[j].at >= admitted[i].at + Ttl

(* Until some outcome takes a ttl or longer, what the registry says of a    *)
(* request is the outcome of that request's own command, although the       *)
(* runtime names only the request id and two clients may use the same one.  *)
OwnAnswerUnlessOverdue ==
    overdue \/ \A k \in DOMAIN registry : registry[k].of = k

(* A request id is in use exactly as long as the response its holder got is *)
(* on record: the two maps, written and purged one after the other, never   *)
(* disagree about a pending request. And one held as accepted still has its *)
(* command in the queue, in a handler's promise or among the undrained      *)
(* outcomes, unless the queue dropped it (a refused or evicted command      *)
(* leaves no outcome) or answers were mixed up by an overdue one: its       *)
(* client can still hear of it.                                             *)
HolderCanBeAnswered ==
    \A r \in DOMAIN pendingKeys :
        LET k == pendingKeys[r].key
        IN  /\ k \in DOMAIN registry
            /\ registry[k].expiresAt = pendingKeys[r].expiresAt
            /\ \/ overdue
               \/ registry[k].status = "rejected"
               \/ k \in dropped
               \/ \E e \in entries \cup awaiting : e.payload = k
               \/ \E i \in 1..Len(outcomes) : outcomes[i].key = k
=============================================================================
