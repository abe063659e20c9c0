-------------------------- MODULE MCClientPrediction --------------------------
(* A small instance of ClientPrediction for TLC: two commands and a pending *)
(* buffer of one, so that it overflows; a history of two checksums over     *)
(* three steps, so that a snapshot falls out of it.                         *)
EXTENDS ClientPrediction
=============================================================================
