---------------------------- MODULE MCIdleRuntime ----------------------------
(* A small instance of IdleRuntime for TLC.                                 *)
EXTENDS IdleRuntime

MCAllowed == [t \in Types |-> Priority \ {AUTOMATION}]
MCTimestamps == {0}
MCAhead == {0, 1}
MCDeltas == {3, 4}
=============================================================================
