----------------------------- MODULE MCGameSave -----------------------------
(* A small instance of GameSave for TLC: one step per frame, so that a tick *)
(* can leave a whole step in the bank.                                      *)
EXTENDS GameSave

MCAllowed == [t \in Types |-> {PLAYER}]
MCTimestamps == {0}
MCAhead == {0}
MCDeltas == {3}
=============================================================================
