---------------------------- MODULE DurableStore ----------------------------
(* What persistence.Store promises when PERSISTENCE_MODE=file, with nothing  *)
(* of how FileStore does it: no locks, no temporary files, no loop over the  *)
(* files.  Every map of persistence.State is a register with a volatile      *)
(* value cur[f] and a saved value saved[f]; both are version numbers.  A     *)
(* write may change any registers, registers are saved one at a time, and a  *)
(* write is acknowledged only when everything in memory is saved.            *)
EXTENDS Naturals

CONSTANTS Files

VARIABLES cur,      \* [Files -> Nat] the version of each map in memory
          saved,    \* [Files -> Nat] the version a restart would load
          acked,    \* [Files -> Nat] the version the last successful write covered
          intact    \* FALSE once the medium has lost completed renames

avars == <<cur, saved, acked, intact>>

ATypeOK == /\ cur \in [Files -> Nat]
           /\ saved \in [Files -> Nat]
           /\ acked \in [Files -> Nat]
           /\ intact \in BOOLEAN

AInit == /\ cur = [f \in Files |-> 0]
         /\ saved = [f \in Files |-> 0]
         /\ acked = [f \in Files |-> 0]
         /\ intact = TRUE

\* The function of a Write, or one inside a Read, changes some of the maps in memory.
Apply == /\ cur' \in [Files -> Nat]
         /\ \A f \in Files : cur'[f] >= cur[f]
         /\ UNCHANGED <<saved, acked, intact>>

\* One map reaches the disk.  Nothing says in which order maps are saved.
Save(f) == /\ saved' = [saved EXCEPT ![f] = cur[f]]
           /\ UNCHANGED <<cur, acked, intact>>

\* Write returns nil: only when all that is in memory is saved.
Acknowledge == /\ saved = cur
               /\ acked' = cur
               /\ UNCHANGED <<cur, saved, intact>>

\* The process ends and is started again: memory is what was saved.
Recover == /\ cur' = saved
           /\ UNCHANGED <<saved, acked, intact>>

\* The medium goes back to an earlier version of some files.
LoseMedium == /\ saved' \in [Files -> Nat]
              /\ \A f \in Files : saved'[f] <= saved[f]
              /\ cur' = saved'
              /\ intact' = FALSE
              /\ UNCHANGED acked

ANext == \/ Apply
         \/ \E f \in Files : Save(f)
         \/ Acknowledge
         \/ Recover
         \/ LoseMedium

ASpec == AInit /\ [][ANext]_avars

(* While the medium keeps what was renamed into place, no version covered by *)
(* a successful Write is ever missing from the disk (Store.Write,            *)
(* internal/persistence/file_store.go).                                      *)
ADurable == intact => \A f \in Files : acked[f] <= saved[f]

\* Why: a save never takes a register back, for memory is never behind the disk.
AInv == ATypeOK /\ ADurable /\ \A f \in Files : saved[f] <= cur[f]
=============================================================================
