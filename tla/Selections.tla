------------------------------ MODULE Selections ------------------------------
(***************************************************************************)
(* Array.prototype.filter, as the event and state-sync code uses it or     *)
(* writes it as a loop (compactSubscribers): the elements of an array that *)
(* belong to a set, in the order of the array.                             *)
(***************************************************************************)
EXTENDS Integers, Sequences

Select(s, S) ==
    IF s = <<>> THEN <<>> ELSE
    LET chosen[n \in 0..Len(s)] ==
          IF n = 0 THEN <<>>
          ELSE IF s[n] \in S THEN Append(chosen[n - 1], s[n])
          ELSE chosen[n - 1]
    IN  chosen[Len(s)]
=============================================================================
