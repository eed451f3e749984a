----------------------------- MODULE MCFileStore -----------------------------
(* FileStore for TLC.  Three files stand for the fourteen: one Write changes *)
(* two maps (AttachFile changes Evidence and EvidenceFile), another only one *)
(* of them, and the third, ReminderSent, is changed inside Reads alone.      *)
EXTENDS FileStore

CONSTANTS evidence, files, sent, c1, c2

AttachOrUpdate == {{evidence, files}, {evidence}}
=============================================================================
