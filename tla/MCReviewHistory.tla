--------------------------- MODULE MCReviewHistory ---------------------------
(* ReviewHistory for TLC: one tenant, and two requests that may overlap.     *)
EXTENDS ReviewHistory

CONSTANTS acme, p1, p2

Symmetry == Permutations(Procs)
=============================================================================
