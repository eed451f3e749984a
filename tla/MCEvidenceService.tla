-------------------------- MODULE MCEvidenceService --------------------------
(* EvidenceService and the export of its items for TLC: two handlers at a    *)
(* time over two items and days around the edges of the reminder window.     *)
EXTENDS Proofpack, TLC

CONSTANTS r1, r2, policy, report

Symmetry == Permutations(Requests) \cup Permutations(Names)

\* Items without an expiry, items that expire on day 1 and among them one that is
\* archived and one that comes with a path.
SomeBodies ==
    {[expiry |-> NoDate, status |-> "", claims |-> FALSE],
     [expiry |-> 1, status |-> "", claims |-> FALSE],
     [expiry |-> 1, status |-> "archived", claims |-> FALSE],
     [expiry |-> 1, status |-> "", claims |-> TRUE]}
=============================================================================
