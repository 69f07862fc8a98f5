--------------------------- MODULE MCSessionRing ----------------------------
(* SessionRing over a ring of 3 events and 5 bytes: sizes 1, 2, 4 make the   *)
(* count limit, the byte limit and several evictions for one append happen, *)
(* and size 6 is the event that is larger than the whole budget.            *)
EXTENDS SessionRing

CONSTANT MaxSeq     \* bound: events emitted

BoundedNext == seq < MaxSeq /\ Next

BoundedSpec == Init /\ [][BoundedNext]_vars
=============================================================================
