--------------------------- MODULE MCCommandQueue ---------------------------
(***************************************************************************)
(* Two kinds of command: an ordinary one every priority may issue and a   *)
(* save can hold, and a restricted one (PRESTIGE_RESET's policy: not for  *)
(* AUTOMATION) whose payload is not plain JSON. A queue of two entries    *)
(* overflows at the third command; two timestamps and two steps make      *)
(* ties, inversions and clamped rebasing possible.                        *)
(***************************************************************************)
EXTENDS CommandQueue, TLC
CONSTANTS open, restricted, p1, p2, p3

MCTypes == {open, restricted}
MCAllowed == [t \in MCTypes |->
    IF t = open THEN Priority ELSE {SYSTEM, PLAYER}]
MCSerializable == {open}
MCPayloads == {p1, p2, p3}
PayloadSymmetry == Permutations(MCPayloads)
=============================================================================
