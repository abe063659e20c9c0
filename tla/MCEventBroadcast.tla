--------------------------- MODULE MCEventBroadcast ---------------------------
(* A small instance of EventBroadcast for TLC: two event types, frames of   *)
(* up to two events of one step or of two, up to four events in three       *)
(* frames, a deduper of three keys, each coalesce mode, with and without a  *)
(* priority type and a filter.                                              *)
EXTENDS EventBroadcast

Options ==
    {[coalesce |-> "none", priority |-> {}, filter |-> {1}],
     [coalesce |-> "first", priority |-> {}, filter |-> {1, 2}],
     [coalesce |-> "last", priority |-> {2}, filter |-> {1, 2}]}
=============================================================================
