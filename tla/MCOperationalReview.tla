------------------------- MODULE MCOperationalReview -------------------------
(* OperationalReview for TLC: a group of eleven items and a single one are   *)
(* the twelve that expansion-ready asks for; the steps of time are the nine  *)
(* days of the cadence, half a day more, and just over the 180 days after    *)
(* which an item is stale.                                                   *)
EXTENDS OperationalReview, TLC

CONSTANTS policies, certificate, ann

Sizes == [g \in Groups |-> IF g = policies THEN 11 ELSE 1]

Waits == {18, 19, 361}
=============================================================================
