--------------------------- MODULE MCEvidenceGraph ---------------------------
(* EvidenceGraph for TLC: items mapped fully or not at all, and 181 days pass *)
(* at once (then a review is overdue and an item stale).  The cap on nodes    *)
(* lies between the size of an empty tenant's graph and that of a full one; a *)
(* pilot takes two reviews, so that one can be complete.                      *)
EXTENDS EvidenceGraph

CONSTANT ann

Unmapped == [control |-> {}, vendor |-> {}, risk |-> {}]
Mapped   == [control |-> {"access"}, vendor |-> {"host"}, risk |-> {"loss"}]

SomeMappings == {Unmapped, Mapped}

Days == {181}
=============================================================================
