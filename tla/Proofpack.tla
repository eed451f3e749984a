------------------------------ MODULE Proofpack ------------------------------
(* internal/proofpack/service.go: a handler may also run Export, beside      *)
(* those of EvidenceService.  It reads the items, the file records and the   *)
(* audit log in three calls of the Store; other requests come in between any *)
(* two.  The Write of the pack's own record is ReviewHistory's.              *)
EXTENDS EvidenceService

VARIABLES
    step,     \* [Requests -> Steps] where its Export is
    records,  \* [Requests -> Seq(Int)] evidence_records: the path of each item
    linked    \* [Requests -> Seq(File)] linked_files

pvars == <<step, records, linked>>

Steps == {"idle", "listed", "payload"}
File  == [item : Nat, upload : Nat]

PTypeOK == /\ TypeOK
           /\ step \in [Requests -> Steps]
           /\ records \in [Requests -> Seq(Int)]
           /\ linked \in [Requests -> Seq(File)]

PInit == /\ Init
         /\ step = [r \in Requests |-> "idle"]
         /\ records = [r \in Requests |-> << >>]
         /\ linked = [r \in Requests |-> << >>]

Paths == [i \in 1 .. Len(items) |-> items[i].path]

\* Export begins: evidence.List.
ListItems(r) == /\ pc[r] = "idle" /\ step[r] = "idle"
                /\ records' = [records EXCEPT ![r] = Paths]
                /\ step' = [step EXCEPT ![r] = "listed"]
                /\ UNCHANGED <<linked, vars>>

\* Mutant of LinkFiles: the files are those of some moment before the items were listed.
LinkFilesFirst(r) == /\ step[r] = "listed"
                     /\ \E n \in 0 .. Len(files) :
                           linked' = [linked EXCEPT ![r] = SubSeq(files, 1, n)]
                     /\ step' = [step EXCEPT ![r] = "payload"]
                     /\ UNCHANGED <<records, vars>>

\* evidence.Files, while the payload is put together; audit.ListByTenant after it
\* changes nothing.
LinkFiles(r) == /\ step[r] = "listed"
                /\ linked' = [linked EXCEPT ![r] = files]
                /\ step' = [step EXCEPT ![r] = "payload"]
                /\ UNCHANGED <<records, vars>>

\* The payload is hashed, its record stored, and sent.
Pack(r) == /\ step[r] = "payload"
           /\ step' = [step EXCEPT ![r] = "idle"]
           /\ records' = [records EXCEPT ![r] = << >>]
           /\ linked' = [linked EXCEPT ![r] = << >>]
           /\ UNCHANGED vars

PNext == \/ NextDay /\ UNCHANGED pvars
         \/ \E r \in Requests : \/ step[r] = "idle" /\ Handle(r) /\ UNCHANGED pvars
                                \/ ListItems(r) \/ LinkFiles(r) \/ Pack(r)

PSpec == PInit /\ [][PNext]_<<vars, pvars>>

-----------------------------------------------------------------------------
(* A pack is closed, although its parts are read at different moments: every *)
(* file path of its evidence records is among its linked files, as a file of *)
(* that item (Export reads the items before the files, and AttachFile writes *)
(* both at once), but for a path that the item was created with, which no    *)
(* record of a file stands behind.                                           *)
PackIsClosed ==
    \A r \in Requests : step[r] = "payload" =>
        \A i \in 1 .. Len(records[r]) :
            records[r][i] \notin {NoFile, Claimed(i)} =>
                \E k \in 1 .. Len(linked[r]) :
                    linked[r][k] = [item |-> i, upload |-> records[r][i]]

(* Why it holds: what an Export has listed was the item's own before it asks *)
(* for the files.                                                            *)
ListedInv ==
    \A r \in Requests : step[r] = "listed" =>
        \A i \in 1 .. Len(records[r]) :
            MayCarry(i, records[r][i])

HoldsInv == /\ step \in [Requests -> Steps]
            /\ records \in [Requests -> Seq(Int)]
            /\ linked \in [Requests -> Seq(File)]
            /\ ListedInv /\ PackIsClosed

PIndInv == IndInv /\ HoldsInv
=============================================================================
