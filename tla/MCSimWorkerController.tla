------------------------- MODULE MCSimWorkerController -------------------------
(* A small instance of SimWorkerController for TLC: steps of two milliseconds, *)
(* two steps to a batch, timer ticks below and above a step, step calls that    *)
(* need one batch or two.                                                       *)
EXTENDS SimWorkerController
=============================================================================
