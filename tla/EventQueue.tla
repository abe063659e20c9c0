------------------------------ MODULE EventQueue ------------------------------
(***************************************************************************)
(* What the event bus promises its subscribers: "Events flow through a     *)
(* single queue" (docs/runtime-event-pubsub-design.md). Events are named   *)
(* by the order they were published in within their tick. EventBus, with   *)
(* one buffer per channel, is checked to implement this.                   *)
(***************************************************************************)
EXTENDS Integers, Sequences

CONSTANT Orders     \* the dispatch orders a tick hands out

VARIABLES
    queue,      \* events published and not yet handed to subscribers, oldest first
    last,       \* the event handed over last in this tick, -1 if none
    delivering  \* a dispatch is under way

vars == <<queue, last, delivering>>

Init == queue = <<>> /\ last = -1 /\ delivering = FALSE

Publish ==
    /\ \E n \in Orders :
          /\ n > last
          /\ \A i \in 1..Len(queue) : n > queue[i]
          /\ queue' = Append(queue, n)
    /\ UNCHANGED <<last, delivering>>

Deliver ==
    /\ delivering
    /\ queue # <<>>
    /\ queue' = Tail(queue)
    /\ last' = Head(queue)
    /\ UNCHANGED delivering

Begin == ~delivering /\ delivering' = TRUE /\ UNCHANGED <<queue, last>>

\* A dispatch ends when nothing is left, not even what its handlers published.
End == delivering /\ queue = <<>> /\ delivering' = FALSE /\ UNCHANGED <<queue, last>>

\* A subscriber throws.
Abandon == delivering /\ delivering' = FALSE /\ UNCHANGED <<queue, last>>

\* The next tick begins.
Reset == ~delivering /\ queue' = <<>> /\ last' = -1 /\ UNCHANGED delivering

Next == Publish \/ Deliver \/ Begin \/ End \/ Abandon \/ Reset

Spec == Init /\ [][Next]_vars
=============================================================================
