------------------------- MODULE MCCommandDelivery -------------------------
(* CommandDelivery with commands of each kind: m and n run on the serial      *)
(* lane, t is an off-lane mutation and r an off-lane read.                    *)
EXTENDS CommandDelivery

CONSTANTS m, n, t, r
=============================================================================
