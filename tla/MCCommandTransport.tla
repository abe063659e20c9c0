-------------------------- MODULE MCCommandTransport --------------------------
(* Small instances of CommandTransport for TLC: two clients that pick the   *)
(* same request id, a queue of one command, a ttl of two ticks.            *)
EXTENDS CommandTransport

CONSTANTS c1, c2, r1, cmd

MCKeys == {c1, c2} \X {r1}
MCAllowed == [t \in Types |-> {SYSTEM, PLAYER}]
MCOneTime == {0}
=============================================================================
