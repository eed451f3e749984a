--------------------------- MODULE FileStore_proofs ---------------------------
(* Proofs about FileStore for any number of files, of callers, of writes and *)
(* of faults.  IndInv is inductive; the safety properties, the two action    *)
(* properties and the refinement of DurableStore follow from it.             *)
EXTENDS FileStore, FiniteSetTheorems, TLAPS

\* The initial state satisfies the inductive invariant.
LEMMA InitInd == Init => IndInv
<1> SUFFICES ASSUME Init PROVE IndInv
  OBVIOUS
<1>1. TypeOK
  BY DEF Init, TypeOK, Zero, PC, Phases, Content, Absent
<1>2. LockInv
  BY DEF Init, LockInv, Writers
<1>3. OrderInv
  BY DEF Init, OrderInv, Zero
<1>4. LoopInv
  BY DEF Init, LoopInv
<1>5. CleanWhenQuiet
  BY DEF Init, CleanWhenQuiet
<1>6. AckedDurable
  BY DEF Init, AckedDurable, Zero
<1> QED BY <1>1, <1>2, <1>3, <1>4, <1>5, <1>6 DEF IndInv

\* Taking and leaving the read lock, and queueing for the write lock, keep it.
LEMMA LockStepInd ==
  ASSUME NEW c \in Callers, IndInv,
         RLock(c) \/ RUnlock(c) \/ CallWrite(c) \/ Announce(c) \/ Lock(c)
  PROVE  IndInv'
<1> USE DEF IndInv
<1>1. TypeOK'
  BY DEF TypeOK, PC, Phases, RLock, RUnlock, CallWrite, Announce, Lock, ghosts
<1>2. LockInv'
  BY DEF TypeOK, PC, LockInv, Readers, Writers, RLock, RUnlock, CallWrite,
         Announce, Lock, ghosts
<1>3. OrderInv'
  BY DEF OrderInv, RLock, RUnlock, CallWrite, Announce, Lock, ghosts
<1>4. LoopInv'
  BY DEF LoopInv, RLock, RUnlock, CallWrite, Announce, Lock, ghosts
<1>5. CleanWhenQuiet'
  <2>1. CASE Lock(c)
    BY <2>1 DEF Lock, CleanWhenQuiet, LockInv, Writers, TypeOK, PC, ghosts
  <2>2. CASE RLock(c) \/ RUnlock(c) \/ CallWrite(c) \/ Announce(c)
    BY <2>2 DEF CleanWhenQuiet, RLock, RUnlock, CallWrite, Announce, ghosts
  <2> QED BY <2>1, <2>2
<1>6. AckedDurable'
  BY DEF AckedDurable, RLock, RUnlock, CallWrite, Announce, Lock, ghosts
<1> QED BY <1>1, <1>2, <1>3, <1>4, <1>5, <1>6

\* A Read that changes a map does so beside readers only: no loop is running.
LEMMA MarkInd == ASSUME NEW c \in Callers, IndInv, Mark(c) PROVE IndInv'
<1> USE DEF IndInv, Mark, ghosts
<1>1. PICK f \in Marked : mem' = [mem EXCEPT ![f] = seq + 1]
  OBVIOUS
<1>2. seq \in Nat /\ mem \in [Files -> Nat] /\ Marked \subseteq Files
  BY FileStoreAssumption DEF TypeOK
<1>3. mem' \in [Files -> Nat] /\ seq' \in Nat
  BY <1>1, <1>2
<1>4. TypeOK'
  BY <1>3 DEF TypeOK
<1>5. LockInv'
  BY DEF LockInv, Writers
<1>6. OrderInv'
  <2> SUFFICES ASSUME NEW g \in Files
               PROVE /\ disk[g] \in Nat /\ medium[g] \in Nat /\ medium[g] <= disk[g]
                     /\ disk[g] <= seq' /\ mem'[g] <= seq' /\ (up => disk[g] <= mem'[g])
    BY DEF OrderInv
  <2>1. mem'[g] = seq + 1 \/ mem'[g] = mem[g]
    BY <1>1, <1>2
  <2>2. mem[g] \in Nat
    BY <1>2
  <2> QED BY <1>2, <2>1, <2>2 DEF OrderInv
<1>7. LoopInv'
  <2>1. phase = "none"
    BY DEF LockInv
  <2> QED BY <2>1 DEF LoopInv
<1>8. CleanWhenQuiet'
  <2>1. \A g \in Files \ Marked : mem'[g] = mem[g]
    BY <1>1, <1>2
  <2> QED BY <2>1 DEF CleanWhenQuiet
<1>9. AckedDurable'
  BY DEF AckedDurable
<1> QED BY <1>4, <1>5, <1>6, <1>7, <1>8, <1>9

-----------------------------------------------------------------------------
\* The holder of the write lock is alone in the store of a running process.
LEMMA WriterAlone ==
  ASSUME NEW c \in Callers, IndInv, pc[c] = "writing"
  PROVE  /\ up
         /\ \A d \in Callers : d # c => pc[d] \in {"idle", "wantR", "wantW"}
<1>1. up
  BY DEF IndInv, LockInv
<1>2. ASSUME NEW d \in Callers, d # c PROVE pc[d] \in {"idle", "wantR", "wantW"}
  BY <1>2 DEF IndInv, LockInv, TypeOK, PC, Writers
<1> QED BY <1>1, <1>2

\* Unlock keeps the invariant of the lock and lets only readers in.
LEMMA UnlockLockInv ==
  ASSUME NEW c \in Callers, IndInv, pc[c] = "writing", Unlock(c), UNCHANGED up
  PROVE  LockInv' /\ pc' \in [Callers -> PC] /\ phase' = "none"
<1>1. up /\ \A d \in Callers : d # c => pc[d] \in {"idle", "wantR", "wantW"}
  BY WriterAlone
<1>2. pc \in [Callers -> PC]
  BY DEF IndInv, TypeOK
<1>3. pc' \in [Callers -> PC] /\ phase' = "none"
  BY <1>2 DEF Unlock, PC
<1>4. \A d \in Callers : pc'[d] \in {"idle", "reading", "wantW"}
  BY <1>1 DEF Unlock
<1> QED BY <1>1, <1>3, <1>4 DEF LockInv, Writers

\* fn succeeds: memory moves ahead of the disk and every file is to do.
LEMMA FnOkInd == ASSUME NEW c \in Callers, IndInv, FnOk(c) PROVE IndInv'
<1> USE DEF IndInv, FnOk, Holds, ghosts
<1>1. TypeOK'
  BY DEF TypeOK, Phases
<1>2. LockInv'
  BY DEF LockInv, Writers
<1>3. OrderInv'
  <2> SUFFICES ASSUME NEW f \in Files
               PROVE /\ disk[f] \in Nat /\ medium[f] \in Nat /\ medium[f] <= disk[f]
                     /\ disk[f] <= seq' /\ mem'[f] <= seq' /\ (up => disk[f] <= mem'[f])
    BY DEF OrderInv
  <2>1. mem'[f] = seq + 1 \/ mem'[f] = mem[f]
    OBVIOUS
  <2>2. seq \in Nat /\ seq' = seq + 1 /\ mem[f] \in Nat
    BY DEF TypeOK
  <2> QED BY <2>1, <2>2 DEF OrderInv
<1>4. LoopInv'
  BY DEF LoopInv
<1>5. CleanWhenQuiet'
  BY DEF CleanWhenQuiet
<1>6. AckedDurable'
  BY DEF AckedDurable
<1> QED BY <1>1, <1>2, <1>3, <1>4, <1>5, <1>6

\* fn fails: the lock is released and nothing has changed.
LEMMA FnErrorInd == ASSUME NEW c \in Callers, IndInv, FnError(c) PROVE IndInv'
<1> USE DEF IndInv, FnError, Holds, ghosts
<1>1. LockInv' /\ pc' \in [Callers -> PC] /\ phase' = "none"
  BY UnlockLockInv
<1>2. TypeOK'
  BY <1>1 DEF TypeOK, Phases
<1>3. OrderInv'
  BY DEF OrderInv
<1>4. LoopInv'
  BY <1>1 DEF LoopInv
<1>5. CleanWhenQuiet'
  BY DEF CleanWhenQuiet
<1>6. AckedDurable'
  BY DEF AckedDurable
<1> QED BY <1>1, <1>2, <1>3, <1>4, <1>5, <1>6

\* A temporary file is opened, written or synced: no other file is touched.
LEMMA TmpStepInd ==
  ASSUME NEW c \in Callers, IndInv, OpenTmp(c) \/ WriteTmp(c) \/ SyncTmp(c)
  PROVE  IndInv'
<1> USE DEF IndInv, OpenTmp, WriteTmp, SyncTmp, Holds, ghosts
<1>1. TypeOK'
  BY DEF TypeOK, Phases, Content, Partial
<1>2. LockInv'
  BY DEF LockInv, Writers
<1>3. OrderInv'
  BY DEF OrderInv
<1>4. LoopInv'
  BY DEF LoopInv, TypeOK
<1>5. CleanWhenQuiet'
  BY DEF CleanWhenQuiet
<1>6. AckedDurable'
  BY DEF AckedDurable
<1> QED BY <1>1, <1>2, <1>3, <1>4, <1>5, <1>6

\* The file in hand is renamed into place: it holds what memory holds.
LEMMA RenameInd == ASSUME NEW c \in Callers, IndInv, Rename(c) PROVE IndInv'
<1> USE DEF IndInv, Rename, Holds, ghosts
<1>0. /\ up /\ flushed /\ tmp[file] = mem[file] /\ file \in Files
      /\ mem[file] \in Nat /\ mem[file] <= seq /\ disk[file] <= mem[file]
  BY WriterAlone DEF LoopInv, TypeOK, OrderInv
<1>1. disk' = [disk EXCEPT ![file] = mem[file]]
  BY <1>0
<1>2. medium' = medium \/ medium' = [medium EXCEPT ![file] = mem[file]]
  BY <1>0
<1>3. TypeOK'
  <2>1. disk' \in [Files -> Content] /\ medium' \in [Files -> Content]
    BY <1>0, <1>1, <1>2 DEF TypeOK, Content
  <2> QED BY <2>1 DEF TypeOK, Phases, Content, Absent
<1>4. LockInv'
  BY DEF LockInv, Writers
<1>5. OrderInv'
  <2> SUFFICES ASSUME NEW f \in Files
               PROVE /\ disk'[f] \in Nat /\ medium'[f] \in Nat /\ medium'[f] <= disk'[f]
                     /\ disk'[f] <= seq /\ mem[f] <= seq /\ (up => disk'[f] <= mem[f])
    BY DEF OrderInv
  <2>1. CASE f = file
    BY <1>0, <1>1, <1>2, <2>1 DEF OrderInv, TypeOK
  <2>2. CASE f # file
    BY <1>1, <1>2, <2>2 DEF OrderInv, TypeOK
  <2> QED BY <2>1, <2>2
<1>6. LoopInv'
  <2> SUFFICES ASSUME NEW f \in Files \ todo PROVE disk'[f] = mem[f]
    BY DEF LoopInv
  <2>1. CASE f = file
    BY <1>0, <1>1, <2>1 DEF TypeOK
  <2>2. CASE f # file
    BY <1>1, <2>2 DEF LoopInv, TypeOK
  <2> QED BY <2>1, <2>2
<1>7. CleanWhenQuiet'
  BY DEF CleanWhenQuiet
<1>8. AckedDurable'
  <2> SUFFICES ASSUME powerLosses = 0, NEW f \in Files PROVE acked[f] <= disk'[f]
    BY DEF AckedDurable
  <2>1. acked[f] <= disk[f] /\ acked[f] \in Nat /\ disk[f] \in Nat
    BY DEF AckedDurable, TypeOK, OrderInv
  <2>2. CASE f = file
    BY <1>0, <1>1, <2>1, <2>2 DEF TypeOK
  <2>3. CASE f # file
    BY <1>1, <2>1, <2>3 DEF TypeOK
  <2> QED BY <2>2, <2>3
<1> QED BY <1>3, <1>4, <1>5, <1>6, <1>7, <1>8

\* A persist error releases the lock; memory stays ahead and failed records it.
LEMMA PersistErrorInd ==
  ASSUME NEW c \in Callers, IndInv, PersistError(c) PROVE IndInv'
<1> USE DEF IndInv, PersistError
<1>1. LockInv' /\ pc' \in [Callers -> PC] /\ phase' = "none"
  BY UnlockLockInv
<1>2. TypeOK'
  BY <1>1 DEF TypeOK, Phases
<1>3. OrderInv'
  BY DEF OrderInv
<1>4. LoopInv'
  BY <1>1 DEF LoopInv
<1>5. CleanWhenQuiet'
  BY DEF CleanWhenQuiet
<1>6. AckedDurable'
  BY DEF AckedDurable
<1> QED BY <1>1, <1>2, <1>3, <1>4, <1>5, <1>6

\* At the end of the loop every file equals its map, so the Write may return nil.
LEMMA LoopDone ==
  ASSUME NEW c \in Callers, IndInv, Return(c) PROVE mem = disk
<1>1. phase = "open" /\ todo = {}
  BY DEF Return, Holds
<1>2. \A f \in Files : disk[f] = mem[f]
  BY <1>1 DEF IndInv, LoopInv
<1>3. mem \in [Files -> Nat] /\ disk \in [Files -> Content]
  BY DEF IndInv, TypeOK
<1> QED BY <1>2, <1>3

LEMMA ReturnInd == ASSUME NEW c \in Callers, IndInv, Return(c) PROVE IndInv'
<1> USE DEF IndInv, Return, Holds
<1>1. LockInv' /\ pc' \in [Callers -> PC] /\ phase' = "none"
  BY UnlockLockInv
<1>2. mem = disk
  BY LoopDone
<1>3. TypeOK'
  BY <1>1 DEF TypeOK, Phases
<1>4. OrderInv'
  BY DEF OrderInv
<1>5. LoopInv'
  BY <1>1 DEF LoopInv
<1>6. CleanWhenQuiet'
  BY <1>2 DEF CleanWhenQuiet
<1>7. AckedDurable'
  BY <1>2 DEF AckedDurable, OrderInv
<1> QED BY <1>1, <1>3, <1>4, <1>5, <1>6, <1>7

\* The process ends: nobody is in the store; the files are old or new, whole.
LEMMA StopInd == ASSUME IndInv, Fault PROVE IndInv'
<1> USE DEF IndInv, Fault, Crash, PowerLoss, Stop
<1>1. TypeOK'
  <2>1. up' = FALSE /\ mem' = Zero /\ pc' = [d \in Callers |-> "idle"]
    OBVIOUS
  <2>2. up' \in BOOLEAN /\ pc' \in [Callers -> PC] /\ mem' \in [Files -> Nat]
    BY <2>1 DEF PC, Zero
  <2>3. disk' \in [Files -> Content]
    BY DEF TypeOK
  <2>4. crashes' \in Nat /\ powerLosses' \in Nat
    BY DEF TypeOK
  <2> QED BY <2>2, <2>3, <2>4 DEF TypeOK, Phases
<1>2. LockInv'
  BY DEF LockInv, Writers
<1>3. OrderInv'
  BY DEF OrderInv, TypeOK, Zero
<1>4. LoopInv'
  BY DEF LoopInv
<1>5. CleanWhenQuiet'
  BY DEF CleanWhenQuiet
<1>6. AckedDurable'
  BY DEF AckedDurable, TypeOK
<1> QED BY <1>1, <1>2, <1>3, <1>4, <1>5, <1>6

LEMMA RestartInd == ASSUME IndInv, Restart PROVE IndInv'
<1> USE DEF IndInv, Restart
<1>1. TypeOK'
  <2>1. disk \in [Files -> Nat]
    BY DEF TypeOK
  <2> QED BY <2>1 DEF TypeOK
<1>2. LockInv'
  BY DEF LockInv, Writers, TypeOK
<1>3. OrderInv'
  BY DEF OrderInv
<1>4. LoopInv'
  <2>1. phase = "none"
    BY DEF LockInv
  <2> QED BY <2>1 DEF LoopInv
<1>5. CleanWhenQuiet'
  BY DEF CleanWhenQuiet
<1>6. AckedDurable'
  BY DEF AckedDurable
<1> QED BY <1>1, <1>2, <1>3, <1>4, <1>5, <1>6

-----------------------------------------------------------------------------
LEMMA NextInd == ASSUME IndInv, [Next]_vars PROVE IndInv'
<1>1. ASSUME NEW c \in Callers, ReadStep(c) \/ WriteStep(c) PROVE IndInv'
  BY <1>1, LockStepInd, MarkInd, FnOkInd, FnErrorInd, TmpStepInd, RenameInd,
     PersistErrorInd, ReturnInd DEF ReadStep, WriteStep
<1>2. CASE Fault
  BY <1>2, StopInd
<1>3. CASE Restart
  BY <1>3, RestartInd
<1>4. CASE UNCHANGED vars
  BY <1>4 DEF IndInv, TypeOK, LockInv, OrderInv, LoopInv, CleanWhenQuiet,
              AckedDurable, Writers, vars
<1> QED BY <1>1, <1>2, <1>3, <1>4 DEF Next

(* IndInv holds in every reachable state.                                    *)
THEOREM Invariance == Spec => []IndInv
<1>1. Init => IndInv
  BY InitInd
<1>2. IndInv /\ [Next]_vars => IndInv'
  BY NextInd
<1> QED BY <1>1, <1>2, PTL DEF Spec

(* Every variable of the store keeps its type.                               *)
THEOREM TypeCorrect == Spec => []TypeOK
<1>1. IndInv => TypeOK
  BY DEF IndInv
<1> QED BY <1>1, Invariance, PTL

(* The files of the data directory are whole versions after any sequence of  *)
(* writes, errors, crashes and power losses: load always succeeds.           *)
THEOREM AlwaysWhole == Spec => []FilesWhole
<1>1. IndInv => FilesWhole
  BY DEF IndInv, OrderInv, FilesWhole
<1> QED BY <1>1, Invariance, PTL

(* A successful Write is never lost while the medium keeps its renames.      *)
THEOREM Durability == Spec => []AckedDurable
<1>1. IndInv => AckedDurable
  BY DEF IndInv
<1> QED BY <1>1, Invariance, PTL

(* Whenever no Write is persisting and the last one did not fail, memory is  *)
(* ahead of the disk in nothing but what functions changed inside Read: a    *)
(* successful Write flushes what failed ones left behind.                    *)
THEOREM QuietIsClean == Spec => []CleanWhenQuiet
<1>1. IndInv => CleanWhenQuiet
  BY DEF IndInv
<1> QED BY <1>1, Invariance, PTL

-----------------------------------------------------------------------------
\* Beside a reader no Write and no restart change memory, only marks do.
LEMMA MemStable ==
  ASSUME IndInv, [Next]_vars, NEW d \in Callers, pc[d] = "reading", pc'[d] = "reading"
  PROVE  \A f \in Files \ Marked : mem'[f] = mem[f]
<1>1. ASSUME NEW c \in Callers, FnOk(c) PROVE FALSE
  BY <1>1 DEF FnOk, Holds, IndInv, LockInv
<1>2. ASSUME Restart PROVE FALSE
  BY <1>2 DEF Restart, IndInv, LockInv
<1>3. ASSUME Fault PROVE FALSE
  <2>1. pc'[d] = "idle"
    BY <1>3 DEF Fault, Crash, PowerLoss, Stop
  <2> QED BY <2>1
<1>4. ASSUME NEW c \in Callers, Mark(c) PROVE \A f \in Files \ Marked : mem'[f] = mem[f]
  BY <1>4 DEF Mark, IndInv, TypeOK
<1>5. ASSUME NEW c \in Callers, ReadStep(c) \/ WriteStep(c), ~FnOk(c), ~Mark(c)
      PROVE  mem' = mem
  BY <1>5 DEF ReadStep, WriteStep, RLock, RUnlock, CallWrite, Announce, Lock, FnError,
              OpenTmp, WriteTmp, SyncTmp, Rename, PersistError, Return
<1>6. CASE UNCHANGED vars
  BY <1>6 DEF vars
<1> QED BY <1>1, <1>2, <1>3, <1>4, <1>5, <1>6 DEF Next

(* No Write changes a map while a function passed to Read looks at it, from  *)
(* its first to its last line; only the marks of other Reads can.            *)
THEOREM ReadsAreStable == Spec => StableRead
<1>1. IndInv /\ [Next]_vars
        => [\A c \in Callers : pc[c] = "reading" /\ pc'[c] = "reading"
               => \A f \in Files \ Marked : mem'[f] = mem[f]]_vars
  BY MemStable
<1> QED BY <1>1, Invariance, PTL DEF Spec, StableRead

\* Only a rename and a power loss change the files of the directory.
LEMMA DiskStep ==
  ASSUME IndInv, [Next]_vars
  PROVE  disk' = disk \/ PowerLoss \/ \E c \in Callers : Rename(c)
<1>1. ASSUME NEW c \in Callers, ReadStep(c) \/ WriteStep(c), ~Rename(c) PROVE disk' = disk
  BY <1>1 DEF ReadStep, WriteStep, RLock, Mark, RUnlock, CallWrite, Announce, Lock, FnOk,
              FnError, OpenTmp, WriteTmp, SyncTmp, PersistError, Return
<1>2. CASE Fault
  BY <1>2 DEF Fault, Crash
<1>3. CASE Restart
  BY <1>3 DEF Restart
<1>4. CASE UNCHANGED vars
  BY <1>4 DEF vars
<1> QED BY <1>1, <1>2, <1>3, <1>4 DEF Next

\* What a rename does to the file in hand, in terms of memory.
LEMMA RenameSaves ==
  ASSUME NEW c \in Callers, IndInv, Rename(c)
  PROVE  /\ up /\ file \in Files
         /\ mem[file] \in Nat /\ disk[file] <= mem[file]
         /\ disk' = [disk EXCEPT ![file] = mem[file]]
BY WriterAlone DEF Rename, Holds, IndInv, LoopInv, TypeOK, OrderInv

(* With the power on, no file goes back to an older version, over any number *)
(* of crashes and restarts.                                                  *)
THEOREM FilesMoveForward == Spec => DiskForward
<1>1. ASSUME IndInv, [Next]_vars, powerLosses' = powerLosses, NEW f \in Files
      PROVE  disk'[f] >= disk[f]
  <2>1. disk[f] \in Nat /\ disk \in [Files -> Content] /\ powerLosses \in Nat
    BY <1>1 DEF IndInv, OrderInv, TypeOK
  <2>2. CASE disk' = disk
    BY <2>1, <2>2
  <2>3. CASE PowerLoss
    BY <1>1, <2>1, <2>3 DEF PowerLoss
  <2>4. CASE \E c \in Callers : Rename(c)
    BY <1>1, <2>1, <2>4, RenameSaves
  <2> QED BY <1>1, <2>2, <2>3, <2>4, DiskStep
<1>2. IndInv /\ [Next]_vars
        => [powerLosses' = powerLosses => \A f \in Files : disk'[f] >= disk[f]]_vars
  BY <1>1
<1> QED BY <1>2, Invariance, PTL DEF Spec, DiskForward

-----------------------------------------------------------------------------
(* FileStore implements DurableStore: the temporary files, the locks and the *)
(* order of the loop are hidden, memory and the directory remain.            *)

LEMMA InitRefines == Init => Durable!AInit
BY DEF Init, Durable!AInit, CurView, Zero

\* The steps that neither memory nor the directory shows are stutters.
LEMMA HiddenStep ==
  ASSUME UNCHANGED <<up, mem, disk, acked, powerLosses>>
  PROVE  UNCHANGED Durable!avars
BY DEF Durable!avars, CurView

LEMMA FnOkRefines ==
  ASSUME NEW c \in Callers, IndInv, FnOk(c) PROVE Durable!Apply
<1> USE DEF FnOk, Holds, ghosts
<1>1. up /\ up'
  BY WriterAlone
<1>2. seq \in Nat /\ mem \in [Files -> Nat]
  BY DEF IndInv, TypeOK
<1>3. mem' \in [Files -> Nat]
  BY <1>2
<1>4. \A f \in Files : mem'[f] >= mem[f]
  <2> SUFFICES ASSUME NEW f \in Files PROVE mem'[f] >= mem[f]
    OBVIOUS
  <2>1. mem'[f] = seq + 1 \/ mem'[f] = mem[f]
    OBVIOUS
  <2>2. mem[f] \in Nat /\ mem[f] <= seq
    BY <1>2 DEF IndInv, OrderInv
  <2> QED BY <1>2, <2>1, <2>2
<1> QED BY <1>1, <1>3, <1>4 DEF Durable!Apply, CurView

LEMMA MarkRefines ==
  ASSUME NEW c \in Callers, IndInv, Mark(c) PROVE Durable!Apply
<1> USE DEF Mark, ghosts
<1>1. up /\ up'
  BY DEF IndInv, LockInv
<1>2. seq \in Nat /\ mem \in [Files -> Nat] /\ Marked \subseteq Files
  BY FileStoreAssumption DEF IndInv, TypeOK
<1>3. PICK f \in Marked : mem' = [mem EXCEPT ![f] = seq + 1]
  OBVIOUS
<1>4. mem' \in [Files -> Nat]
  BY <1>2, <1>3
<1>5. \A g \in Files : mem'[g] >= mem[g]
  <2> SUFFICES ASSUME NEW g \in Files PROVE mem'[g] >= mem[g]
    OBVIOUS
  <2>1. mem'[g] = seq + 1 \/ mem'[g] = mem[g]
    BY <1>2, <1>3
  <2>2. mem[g] \in Nat /\ mem[g] <= seq
    BY <1>2 DEF IndInv, OrderInv
  <2> QED BY <1>2, <2>1, <2>2
<1> QED BY <1>1, <1>4, <1>5 DEF Durable!Apply, CurView

LEMMA PowerLossRefines == ASSUME IndInv, PowerLoss PROVE Durable!LoseMedium
<1> USE DEF PowerLoss, Stop
<1>1. \A f \in Files : disk'[f] \in Nat /\ disk'[f] <= disk[f]
  BY DEF IndInv, OrderInv
<1>2. disk' \in [Files -> Nat]
  BY <1>1 DEF IndInv, TypeOK
<1>3. (powerLosses' = 0) = FALSE
  BY DEF IndInv, TypeOK
<1> QED BY <1>1, <1>2, <1>3 DEF Durable!LoseMedium, CurView

LEMMA StepRefines == ASSUME IndInv, [Next]_vars PROVE [Durable!ANext]_(Durable!avars)
<1>1. ASSUME NEW c \in Callers, ReadStep(c) \/ WriteStep(c)
      PROVE  [Durable!ANext]_(Durable!avars)
  <2>1. CASE FnOk(c)
    BY <2>1, FnOkRefines DEF Durable!ANext
  <2>2. CASE Rename(c)
    <3>1. UNCHANGED <<up, mem, acked, powerLosses>>
      BY <2>2 DEF Rename, ghosts
    <3>2. Durable!Save(file)
      BY <2>2, <3>1, RenameSaves DEF Durable!Save, CurView
    <3> QED BY <2>2, <3>2, RenameSaves DEF Durable!ANext
  <2>3. CASE Return(c)
    <3>1. mem = disk /\ up
      BY <2>3, LoopDone, WriterAlone DEF Return, Holds
    <3>2. Durable!Acknowledge
      BY <2>3, <3>1 DEF Return, Durable!Acknowledge, CurView
    <3> QED BY <3>2 DEF Durable!ANext
  <2>4. CASE Mark(c)
    BY <2>4, MarkRefines DEF Durable!ANext
  <2>5. CASE ~(FnOk(c) \/ Rename(c) \/ Return(c) \/ Mark(c))
    <3>1. UNCHANGED <<up, mem, disk, acked, powerLosses>>
      BY <1>1, <2>5 DEF ReadStep, WriteStep, RLock, RUnlock, CallWrite, Announce, Lock,
              FnError, OpenTmp, WriteTmp, SyncTmp, PersistError, ghosts
    <3> QED BY <3>1, HiddenStep
  <2> QED BY <2>1, <2>2, <2>3, <2>4, <2>5
<1>2. CASE Crash
  <2>1. Durable!Recover
    BY <1>2 DEF Crash, Stop, Durable!Recover, CurView
  <2> QED BY <2>1 DEF Durable!ANext
<1>3. CASE PowerLoss
  BY <1>3, PowerLossRefines DEF Durable!ANext
<1>4. CASE Restart
  <2>1. UNCHANGED Durable!avars
    BY <1>4 DEF Restart, Durable!avars, CurView
  <2> QED BY <2>1
<1>5. CASE UNCHANGED vars
  BY <1>5, HiddenStep DEF vars
<1> QED BY <1>1, <1>2, <1>3, <1>4, <1>5 DEF Next, Fault

(* The file store keeps the promise of DurableStore: a restart loads, for    *)
(* each map, the version last renamed into place, and nil is returned only   *)
(* when every map is saved.                                                  *)
THEOREM Implements == Spec => Refinement
<1>1. Init => Durable!AInit
  BY InitRefines
<1>2. IndInv /\ [Next]_vars => [Durable!ANext]_(Durable!avars)
  BY StepRefines
<1> QED BY <1>1, <1>2, Invariance, PTL DEF Spec, Refinement, Durable!ASpec

-----------------------------------------------------------------------------
(* Why every call can end: the waiting and the steps left.                   *)

(* Two halves of CallReturns that need no fairness.  First: while a call is  *)
(* in progress, some goroutine inside the store can take its next step, so   *)
(* the lock, held through every file of persistLocked, is never waited for   *)
(* in a circle (sync.RWMutex in FileStore.Read and Write).                   *)
CanStep(c) == \/ pc[c] = "reading"
              \/ pc[c] = "wantW" /\ Writers = {}
              \/ pc[c] = "draining" /\ Readers = {}
              \/ pc[c] = "writing" /\ phase # "none"

NobodyStuck == (\E c \in Callers : pc[c] # "idle") => \E c \in Callers : CanStep(c)

\* Steps from here to the end of the loop: four for each file.
StepsLeft ==
    4 * Cardinality(IF phase = "fn" THEN Files ELSE todo)
        + [none |-> 0, fn |-> 2, open |-> 1, write |-> 4, sync |-> 3, rename |-> 2][phase]

(* Second: a Write that has the lock comes nearer to its end with every step *)
(* of its own, and nothing another goroutine does takes it further away      *)
(* (persistLocked visits each file once).                                    *)
WriteEnds ==
    [][\A c \in Callers : pc[c] = "writing" /\ pc'[c] = "writing" =>
          StepsLeft' < StepsLeft \/ UNCHANGED <<phase, todo>>]_vars

\* The waiting: a reader waits behind a writer only, and a writer has a step to take.
WaitInv == /\ \A c \in Callers : pc[c] = "wantR" => Writers # {}
           /\ \A c \in Callers : pc[c] = "writing" => phase # "none"

LEMMA WaitInit == Init => WaitInv
BY DEF Init, WaitInv

\* Only Unlock and the end of the process take a writer away, and both wake the readers.
LEMMA WaitNext == ASSUME IndInv, WaitInv, [Next]_vars PROVE WaitInv'
<1>0. pc \in [Callers -> PC] /\ phase \in Phases
  BY DEF IndInv, TypeOK
<1>1. ASSUME NEW c \in Callers, RLock(c) \/ RUnlock(c) \/ CallWrite(c) \/ Announce(c) \/ Lock(c)
      PROVE  WaitInv'
  <2>1. ASSUME NEW d \in Callers, d \in Writers PROVE d \in Writers'
    BY <1>0, <1>1, <2>1 DEF Writers, RLock, RUnlock, CallWrite, Announce, Lock
  <2>2. \A d \in Callers : pc'[d] = "wantR" => Writers' # {}
    <3> SUFFICES ASSUME NEW d \in Callers, pc'[d] = "wantR" PROVE Writers' # {}
      OBVIOUS
    <3>1. pc[d] = "wantR" \/ Writers # {}
      BY <1>0, <1>1 DEF RLock, RUnlock, CallWrite, Announce, Lock
    <3>2. Writers # {} /\ Writers \subseteq Callers
      BY <3>1 DEF WaitInv, Writers
    <3> QED BY <2>1, <3>2
  <2>3. \A d \in Callers : pc'[d] = "writing" => phase' # "none"
    BY <1>0, <1>1 DEF WaitInv, RLock, RUnlock, CallWrite, Announce, Lock
  <2> QED BY <2>2, <2>3 DEF WaitInv
<1>2. ASSUME NEW c \in Callers,
             FnOk(c) \/ OpenTmp(c) \/ WriteTmp(c) \/ SyncTmp(c) \/ Rename(c) \/ Mark(c)
      PROVE  WaitInv'
  <2>1. pc' = pc /\ (phase' # "none" \/ phase' = phase)
    BY <1>2 DEF FnOk, OpenTmp, WriteTmp, SyncTmp, Rename, Mark
  <2> QED BY <2>1 DEF WaitInv, Writers
<1>3. ASSUME NEW c \in Callers, FnError(c) \/ PersistError(c) \/ Return(c) PROVE WaitInv'
  <2>1. pc[c] = "writing" /\ Unlock(c)
    BY <1>3 DEF FnError, PersistError, Return, Holds
  <2>2. \A d \in Callers : pc'[d] \in {"idle", "reading", "wantW"}
    BY <2>1, WriterAlone DEF Unlock
  <2> QED BY <2>2 DEF WaitInv
<1>4. CASE Fault
  <2>1. \A d \in Callers : pc'[d] = "idle"
    BY <1>4 DEF Fault, Crash, PowerLoss, Stop
  <2> QED BY <2>1 DEF WaitInv
<1>5. CASE Restart \/ UNCHANGED vars
  BY <1>5 DEF WaitInv, Writers, Restart, vars
<1> QED BY <1>1, <1>2, <1>3, <1>4, <1>5 DEF Next, ReadStep, WriteStep

\* Who waits waits for a writer, who waits for readers, who wait for nobody.
LEMMA SomeoneSteps == IndInv /\ WaitInv => NobodyStuck
<1> SUFFICES ASSUME IndInv, WaitInv, NEW c \in Callers, pc[c] # "idle"
             PROVE  \E d \in Callers : CanStep(d)
  BY DEF NobodyStuck
<1>0. pc[c] \in PC
  BY DEF IndInv, TypeOK
<1>1. CASE Writers # {}
  <2>1. PICK d \in Callers : pc[d] \in {"draining", "writing"}
    BY <1>1 DEF Writers
  <2>2. CASE pc[d] = "writing"
    BY <2>2 DEF WaitInv, CanStep
  <2>3. CASE pc[d] = "draining" /\ Readers = {}
    BY <2>3 DEF CanStep
  <2>4. CASE Readers # {}
    BY <2>4 DEF Readers, CanStep
  <2> QED BY <2>1, <2>2, <2>3, <2>4
<1>2. CASE Writers = {}
  <2>1. pc[c] \in {"reading", "wantW"}
    BY <1>0, <1>2 DEF WaitInv, Writers, PC
  <2> QED BY <1>2, <2>1 DEF CanStep
<1> QED BY <1>1, <1>2

(* No sequence of calls, errors, crashes and restarts leads to goroutines    *)
(* that wait for each other inside the store.                                *)
THEOREM NoCircle == Spec => []NobodyStuck
<1>1. Init => WaitInv
  BY WaitInit
<1>2. IndInv /\ WaitInv /\ [Next]_vars => WaitInv'
  BY WaitNext
<1>3. IndInv /\ WaitInv => NobodyStuck
  BY SomeoneSteps
<1> QED BY <1>1, <1>2, <1>3, Invariance, PTL DEF Spec

\* A file that is taken in hand is one file less to do.
LEMMA OneLess ==
  ASSUME NEW f \in todo, todo \subseteq Files
  PROVE  /\ Cardinality(todo) \in Nat
         /\ Cardinality(todo \ {f}) = Cardinality(todo) - 1
<1>1. IsFiniteSet(todo)
  BY FS_Subset, FileStoreAssumption
<1> QED BY <1>1, FS_CardinalityType, FS_RemoveElement

\* What the holder of the lock does itself, short of releasing it, is one step less.
LEMMA OwnStepShrinks ==
  ASSUME IndInv, NEW c \in Callers,
         FnOk(c) \/ OpenTmp(c) \/ WriteTmp(c) \/ SyncTmp(c) \/ Rename(c)
  PROVE  StepsLeft' < StepsLeft
<1>0. todo \subseteq Files /\ Cardinality(Files) \in Nat /\ Cardinality(todo) \in Nat
  <2>1. todo \subseteq Files
    BY DEF IndInv, TypeOK
  <2> QED BY <2>1, FS_Subset, FS_CardinalityType, FileStoreAssumption
<1>1. CASE FnOk(c)
  <2>1. phase = "fn" /\ phase' = "open" /\ todo' = Files
    BY <1>1 DEF FnOk, Holds
  <2>2. StepsLeft = 4 * Cardinality(Files) + 2 /\ StepsLeft' = 4 * Cardinality(Files) + 1
    BY <2>1 DEF StepsLeft
  <2> QED BY <1>0, <2>2
<1>2. CASE OpenTmp(c)
  <2>1. PICK f \in todo : todo' = todo \ {f}
    BY <1>2 DEF OpenTmp
  <2>2. phase = "open" /\ phase' = "write"
    BY <1>2 DEF OpenTmp, Holds
  <2>3. StepsLeft = 4 * Cardinality(todo) + 1 /\ StepsLeft' = 4 * Cardinality(todo \ {f}) + 4
    BY <2>1, <2>2 DEF StepsLeft
  <2>4. Cardinality(todo \ {f}) = Cardinality(todo) - 1
    BY <1>0, OneLess
  <2> QED BY <1>0, <2>3, <2>4
<1>3. CASE WriteTmp(c) \/ SyncTmp(c) \/ Rename(c)
  <2>1. /\ todo' = todo
        /\ \/ phase = "write" /\ phase' = "sync"
           \/ phase = "sync" /\ phase' = "rename"
           \/ phase = "rename" /\ phase' = "open"
    BY <1>3 DEF WriteTmp, SyncTmp, Rename, Holds
  <2> DEFINE n == 4 * Cardinality(todo)
  <2>2. \/ StepsLeft = n + 4 /\ StepsLeft' = n + 3
        \/ StepsLeft = n + 3 /\ StepsLeft' = n + 2
        \/ StepsLeft = n + 2 /\ StepsLeft' = n + 1
    BY <2>1 DEF StepsLeft
  <2>3. n \in Nat
    BY <1>0
  <2> HIDE DEF n
  <2> QED BY <2>2, <2>3
<1> QED BY <1>1, <1>2, <1>3

(* A Write that got the lock is bounded by four steps for each file, and no  *)
(* other goroutine can make it longer.                                       *)
THEOREM WriteIsBounded == Spec => WriteEnds
<1> DEFINE Shrinks == StepsLeft' < StepsLeft \/ UNCHANGED <<phase, todo>>
<1>1. ASSUME IndInv, [Next]_vars, NEW c \in Callers, pc[c] = "writing", pc'[c] = "writing"
      PROVE  Shrinks
  <2>1. ASSUME NEW d \in Callers, ReadStep(d) \/ WriteStep(d) PROVE Shrinks
    <3>1. CASE RLock(d) \/ Mark(d) \/ RUnlock(d) \/ CallWrite(d) \/ Announce(d)
      BY <3>1 DEF RLock, Mark, RUnlock, CallWrite, Announce
    <3>2. CASE Lock(d)
      BY <1>1, <3>2 DEF Lock, IndInv, LockInv, Writers
    <3>3. CASE FnOk(d) \/ OpenTmp(d) \/ WriteTmp(d) \/ SyncTmp(d) \/ Rename(d)
      BY <1>1, <3>3, OwnStepShrinks
    <3>4. CASE FnError(d) \/ PersistError(d) \/ Return(d)
      <4>1. pc[d] = "writing" /\ Unlock(d)
        BY <3>4 DEF FnError, PersistError, Return, Holds
      <4>2. d = c
        BY <1>1, <4>1 DEF IndInv, LockInv, Writers
      <4> QED BY <1>1, <4>1, <4>2 DEF Unlock
    <3> QED BY <2>1, <3>1, <3>2, <3>3, <3>4 DEF ReadStep, WriteStep
  <2>2. CASE Fault
    <3>1. pc'[c] = "idle"
      BY <2>2 DEF Fault, Crash, PowerLoss, Stop
    <3> QED BY <1>1, <3>1
  <2>3. CASE Restart \/ UNCHANGED vars
    BY <2>3 DEF Restart, vars
  <2> QED BY <1>1, <2>1, <2>2, <2>3 DEF Next
<1>2. IndInv /\ [Next]_vars
        => [\A c \in Callers : pc[c] = "writing" /\ pc'[c] = "writing" => Shrinks]_vars
  BY <1>1
<1> HIDE DEF Shrinks
<1> QED BY <1>2, Invariance, PTL DEF Spec, WriteEnds, Shrinks

-----------------------------------------------------------------------------
(* What DurableStore itself promises, by its own actions alone: with         *)
(* Implements, a reader of the store need look no further than there.        *)

LEMMA AbstractInit == Durable!AInit => Durable!AInv
BY DEF Durable!AInit, Durable!AInv, Durable!ATypeOK, Durable!ADurable

LEMMA AbstractNext ==
  Durable!AInv /\ [Durable!ANext]_(Durable!avars) => Durable!AInv'
<1> SUFFICES ASSUME Durable!AInv, [Durable!ANext]_(Durable!avars) PROVE Durable!AInv'
  OBVIOUS
<1> USE DEF Durable!AInv, Durable!ATypeOK, Durable!ADurable
<1>1. CASE Durable!Apply
  <2>1. \A f \in Files : disk'[f] <= CurView'[f]
    <3> SUFFICES ASSUME NEW f \in Files PROVE disk'[f] <= CurView'[f]
      OBVIOUS
    <3>1. /\ disk'[f] = disk[f] /\ disk[f] \in Nat /\ CurView[f] \in Nat /\ CurView'[f] \in Nat
          /\ disk[f] <= CurView[f] /\ CurView'[f] >= CurView[f]
      BY <1>1 DEF Durable!Apply
    <3> QED BY <3>1
  <2> QED BY <1>1, <2>1 DEF Durable!Apply
<1>2. CASE \E f \in Files : Durable!Save(f)
  <2>1. PICK g \in Files : Durable!Save(g)
    BY <1>2
  <2>2. disk' = [disk EXCEPT ![g] = CurView[g]] /\ CurView' = CurView /\ acked' = acked
        /\ (powerLosses' = 0) = (powerLosses = 0)
    BY <2>1 DEF Durable!Save
  <2>3. disk' \in [Files -> Nat]
    BY <2>2
  <2>4. ASSUME NEW f \in Files
        PROVE  disk'[f] <= CurView'[f] /\ (acked[f] <= disk[f] => acked'[f] <= disk'[f])
    <3>1. disk[f] \in Nat /\ CurView[f] \in Nat /\ acked[f] \in Nat /\ disk[f] <= CurView[f]
      OBVIOUS
    <3>2. disk'[f] = disk[f] \/ disk'[f] = CurView[f]
      BY <2>2
    <3> QED BY <2>2, <3>1, <3>2
  <2> QED BY <2>2, <2>3, <2>4
<1>3. CASE Durable!Recover
  BY <1>3 DEF Durable!Recover
<1>4. CASE Durable!Acknowledge
  BY <1>4 DEF Durable!Acknowledge
<1>5. CASE Durable!LoseMedium
  BY <1>5 DEF Durable!LoseMedium
<1>6. CASE UNCHANGED Durable!avars
  BY <1>6 DEF Durable!avars
<1> QED BY <1>1, <1>2, <1>3, <1>4, <1>5, <1>6 DEF Durable!ANext

(* DurableStore keeps what it acknowledges, whatever is applied, saved or    *)
(* lost in between, and in whatever order its registers are saved.           *)
THEOREM AbstractDurability == Durable!ASpec => []Durable!ADurable
<1>1. Durable!AInit => Durable!AInv
  BY AbstractInit
<1>2. Durable!AInv /\ [Durable!ANext]_(Durable!avars) => Durable!AInv'
  BY AbstractNext
<1>3. Durable!AInv => Durable!ADurable
  BY DEF Durable!AInv
<1> QED BY <1>1, <1>2, <1>3, PTL DEF Durable!ASpec
=============================================================================
