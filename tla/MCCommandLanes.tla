--------------------------- MODULE MCCommandLanes ---------------------------
(***************************************************************************)
(* Lanes of up to three entries, so that the binary search has something   *)
(* to find and the compaction something to move, and two lanes, so that an *)
(* overflow chooses between them; authorization and unserializable         *)
(* payloads are CommandQueue's business and left to its run.               *)
(***************************************************************************)
EXTENDS CommandLanes, TLC
CONSTANTS open, p1, p2, p3, p4

MCTypes == {open}
MCAllowed == [t \in MCTypes |-> {1, 2}]   \* PLAYER, AUTOMATION
MCPayloads == {p1, p2, p3, p4}
PayloadSymmetry == Permutations(MCPayloads)
=============================================================================
