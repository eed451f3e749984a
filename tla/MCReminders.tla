----------------------------- MODULE MCReminders -----------------------------
(* Reminders for TLC: two days, a certificate that expires at the noon of   *)
(* the first and a policy whose two-day window opens at that noon.           *)
EXTENDS Reminders

CONSTANTS r1, r2, certificate, policy

Expiries == [i \in Items |-> IF i = certificate THEN 1 ELSE 5]
=============================================================================
