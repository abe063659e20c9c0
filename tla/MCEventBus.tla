------------------------------ MODULE MCEventBus ------------------------------
(* A small instance of EventBus for TLC: two channels of one or two events, *)
(* two or three subscriptions, two steps in one batch or in two.            *)
EXTENDS EventBus
=============================================================================
