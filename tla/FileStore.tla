------------------------------ MODULE FileStore ------------------------------
(* internal/persistence/file_store.go: the store of PERSISTENCE_MODE=file.   *)
(* Goroutines (HTTP handlers) call Read and Write; one RWMutex guards the    *)
(* in-memory State; Write, still holding the lock, rewrites every file of    *)
(* the data directory, one at a time and in an arbitrary order, each through *)
(* a temporary file.  A persist error returns to the caller and undoes       *)
(* nothing.  The process may end at any instruction and is started again.    *)
(* Read hands out the same State under the shared lock, and one of the       *)
(* functions passed to it, the collecting loop of reminders.Service.Run,     *)
(* changes a map there: nothing saves that before the next Write of anything.*)
(*                                                                           *)
(* The content of a map, or of its file, is the number of the change of      *)
(* memory that last touched it, by a Write or inside a Read; 0 is the empty  *)
(* map and a file that does not exist yet.                                   *)
EXTENDS Integers, FiniteSets

CONSTANTS Files,          \* the JSON files, one for each map of State
          Callers,        \* the goroutines that use the store
          WriteSets,      \* the sets of maps that one Write's function changes
          Marked,         \* the maps that functions passed to Read change (ReminderSent)
          MaxChanges,     \* bound: changes of memory, by Writes and inside Reads
          MaxErrors,      \* bound: persist errors
          MaxCrashes,     \* bound: ends of the process
          MaxPowerLosses  \* bound: how many of them are power losses

ASSUME FileStoreAssumption ==
    /\ IsFiniteSet(Files)
    /\ WriteSets \subseteq SUBSET Files
    /\ Marked \subseteq Files
    /\ MaxChanges \in Nat /\ MaxErrors \in Nat
    /\ MaxCrashes \in Nat /\ MaxPowerLosses \in Nat

VARIABLES
    up,       \* the process runs
    pc,       \* [Callers -> PC] where each goroutine is
    phase,    \* where the holder of the write lock is in Write
    todo,     \* the files persistLocked has not reached yet
    file,     \* the file persistLocked is writing
    mem,      \* [Files -> Nat] f.state
    tmp,      \* [Files -> Content] the <name>.tmp files
    flushed,  \* the temporary file being written has been fsynced
    disk,     \* [Files -> Content] the files a running system reads
    medium,   \* [Files -> Content] what the directory holds after a power loss
    seq,      \* changes of memory so far
    acked,    \* [Files -> Nat] what the last successful Write covered
    failed,   \* the last persist of this process returned an error
    errors, crashes, powerLosses   \* how often each fault happened

ghosts == <<acked, failed, errors, crashes, powerLosses>>
vars == <<up, pc, phase, todo, file, mem, tmp, flushed, disk, medium, seq,
          acked, failed, errors, crashes, powerLosses>>

PC == {"idle", "wantR", "reading", "wantW", "draining", "writing"}
Phases == {"none", "fn", "open", "write", "sync", "rename"}

Absent  == -2                       \* no such temporary file
Partial == -1                       \* cut short: json.Unmarshal rejects it
Content == Nat \cup {Absent, Partial}

Zero == [f \in Files |-> 0]

TypeOK == /\ up \in BOOLEAN
          /\ pc \in [Callers -> PC]
          /\ phase \in Phases
          /\ todo \subseteq Files
          /\ file \in Files
          /\ mem \in [Files -> Nat]
          /\ tmp \in [Files -> Content]
          /\ flushed \in BOOLEAN
          /\ disk \in [Files -> Content]
          /\ medium \in [Files -> Content]
          /\ seq \in Nat
          /\ acked \in [Files -> Nat]
          /\ failed \in BOOLEAN
          /\ errors \in Nat /\ crashes \in Nat /\ powerLosses \in Nat

\* NewFileStore on an empty directory.
Init == /\ up = TRUE
        /\ pc = [c \in Callers |-> "idle"]
        /\ phase = "none"
        /\ todo = {}
        /\ file \in Files
        /\ mem = Zero
        /\ tmp = [f \in Files |-> Absent]
        /\ flushed = FALSE
        /\ disk = Zero
        /\ medium = Zero
        /\ seq = 0
        /\ acked = Zero
        /\ failed = FALSE
        /\ errors = 0 /\ crashes = 0 /\ powerLosses = 0

-----------------------------------------------------------------------------
(* sync.RWMutex.  A writer that calls Lock first takes the inner mutex, then *)
(* waits for the readers that hold the lock; from then on a new reader       *)
(* waits.  Unlock lets in every waiting reader before another writer.        *)

Readers == {c \in Callers : pc[c] = "reading"}
Writers == {c \in Callers : pc[c] \in {"draining", "writing"}}

\* Mutant of RLock: an announced writer that still drains readers lets more in.
RLockPastDraining(c) ==
    /\ up
    /\ pc[c] = "idle"
    /\ pc' = [pc EXCEPT ![c] =
                 IF \A d \in Callers : pc[d] # "writing" THEN "reading" ELSE "wantR"]
    /\ UNCHANGED <<up, phase, todo, file, mem, tmp, flushed, disk, medium, seq, ghosts>>

\* f.mu.RLock(): at once, or behind a writer.
RLock(c) == /\ up
            /\ pc[c] = "idle"
            /\ pc' = [pc EXCEPT ![c] = IF Writers = {} THEN "reading" ELSE "wantR"]
            /\ UNCHANGED <<up, phase, todo, file, mem, tmp, flushed, disk, medium, seq, ghosts>>

\* The function inside Read changes a map, under the shared lock.  Two that do
\* so at once race: one change may be lost (no step), or the runtime throws (Crash).
Mark(c) == /\ pc[c] = "reading"
           /\ seq < MaxChanges
           /\ seq' = seq + 1
           /\ \E f \in Marked : mem' = [mem EXCEPT ![f] = seq + 1]
           /\ UNCHANGED <<up, pc, phase, todo, file, tmp, flushed, disk, medium, ghosts>>

\* fn(&f.state) has returned; f.mu.RUnlock().
RUnlock(c) == /\ pc[c] = "reading"
              /\ pc' = [pc EXCEPT ![c] = "idle"]
              /\ UNCHANGED <<up, phase, todo, file, mem, tmp, flushed, disk, medium, seq, ghosts>>

\* A call of Write reaches f.mu.Lock().
CallWrite(c) == /\ up
                /\ pc[c] = "idle"
                /\ pc' = [pc EXCEPT ![c] = "wantW"]
                /\ UNCHANGED <<up, phase, todo, file, mem, tmp, flushed, disk, medium, seq, ghosts>>

\* The inner mutex of the RWMutex is taken.
Announce(c) == /\ pc[c] = "wantW"
               /\ Writers = {}
               /\ pc' = [pc EXCEPT ![c] = "draining"]
               /\ UNCHANGED <<up, phase, todo, file, mem, tmp, flushed, disk, medium, seq, ghosts>>

\* Mutant of Lock: an exclusive lock that does not wait for readers.
LockPastReaders(c) == /\ pc[c] = "draining"
                      /\ pc' = [pc EXCEPT ![c] = "writing"]
                      /\ phase' = "fn"
                      /\ UNCHANGED <<up, todo, file, mem, tmp, flushed, disk, medium, seq, ghosts>>

\* The readers that were inside have left: Lock returns.
Lock(c) == /\ pc[c] = "draining"
           /\ Readers = {}
           /\ pc' = [pc EXCEPT ![c] = "writing"]
           /\ phase' = "fn"
           /\ UNCHANGED <<up, todo, file, mem, tmp, flushed, disk, medium, seq, ghosts>>

\* The deferred f.mu.Unlock(), as an effect of the step that returns.
Unlock(c) ==
    /\ pc' = [d \in Callers |-> IF d = c THEN "idle"
                                ELSE IF pc[d] = "wantR" THEN "reading" ELSE pc[d]]
    /\ phase' = "none"

-----------------------------------------------------------------------------
(* FileStore.Write and persistLocked, by the holder c of the write lock.     *)

Holds(c, ph) == pc[c] = "writing" /\ phase = ph

\* Mutant of FnOk: only the maps this Write changed are persisted.
FnOkPersistsDirty(c) ==
    /\ Holds(c, "fn")
    /\ seq < MaxChanges
    /\ seq' = seq + 1
    /\ \E S \in WriteSets :
          /\ mem' = [f \in Files |-> IF f \in S THEN seq + 1 ELSE mem[f]]
          /\ todo' = S
    /\ phase' = "open"
    /\ UNCHANGED <<up, pc, file, tmp, flushed, disk, medium, ghosts>>

\* fn(&f.state) succeeds: it has changed the maps in S; persistLocked starts.
FnOk(c) == /\ Holds(c, "fn")
           /\ seq < MaxChanges
           /\ seq' = seq + 1
           /\ \E S \in WriteSets :
                 mem' = [f \in Files |-> IF f \in S THEN seq + 1 ELSE mem[f]]
           /\ phase' = "open"
           /\ todo' = Files
           /\ UNCHANGED <<up, pc, file, tmp, flushed, disk, medium, ghosts>>

\* fn(&f.state) returns an error, before it has changed anything.
FnError(c) == /\ Holds(c, "fn")
              /\ Unlock(c)
              /\ UNCHANGED <<up, todo, file, mem, tmp, flushed, disk, medium, seq, ghosts>>

\* The next file of the map iteration: marshal, open with O_CREATE|O_TRUNC.
OpenTmp(c) == /\ Holds(c, "open")
              /\ \E f \in todo :
                    /\ file' = f
                    /\ todo' = todo \ {f}
                    /\ tmp' = [tmp EXCEPT ![f] = Partial]
              /\ flushed' = FALSE
              /\ phase' = "write"
              /\ UNCHANGED <<up, pc, mem, disk, medium, seq, ghosts>>

\* file.Write(b).
WriteTmp(c) == /\ Holds(c, "write")
               /\ tmp' = [tmp EXCEPT ![file] = mem[file]]
               /\ phase' = "sync"
               /\ UNCHANGED <<up, pc, todo, file, mem, flushed, disk, medium, seq, ghosts>>

\* Mutant of SyncTmp: the file is closed without an fsync.
SyncTmpSkipped(c) == /\ Holds(c, "sync")
                     /\ flushed' = FALSE
                     /\ phase' = "rename"
                     /\ UNCHANGED <<up, pc, todo, file, mem, tmp, disk, medium, seq, ghosts>>

\* file.Sync() and file.Close().
SyncTmp(c) == /\ Holds(c, "sync")
              /\ flushed' = TRUE
              /\ phase' = "rename"
              /\ UNCHANGED <<up, pc, todo, file, mem, tmp, disk, medium, seq, ghosts>>

\* os.Rename(tmp, final).  The directory itself is not synced: the medium may
\* have the new name already or not; data that was never synced may be missing.
Rename(c) == /\ Holds(c, "rename")
             /\ disk' = [disk EXCEPT ![file] = tmp[file]]
             /\ tmp' = [tmp EXCEPT ![file] = Absent]
             /\ \/ medium' = medium
                \/ medium' = [medium EXCEPT ![file] =
                                IF flushed THEN tmp[file] ELSE Partial]
             /\ phase' = "open"
             /\ UNCHANGED <<up, pc, todo, file, mem, flushed, seq, ghosts>>

\* Mutant of PersistError: the error is logged and Write returns nil.
PersistErrorSwallowed(c) ==
    /\ pc[c] = "writing"
    /\ \/ phase = "open" /\ todo # {}
       \/ phase \in {"write", "sync", "rename"}
    /\ errors < MaxErrors
    /\ errors' = errors + 1
    /\ acked' = mem
    /\ Unlock(c)
    /\ todo' = {}
    /\ UNCHANGED <<up, file, mem, tmp, flushed, disk, medium, seq,
                   failed, crashes, powerLosses>>

\* Any step of persistLocked fails: the error is returned, nothing is undone.
PersistError(c) == /\ pc[c] = "writing"
                   /\ \/ phase = "open" /\ todo # {}
                      \/ phase \in {"write", "sync", "rename"}
                   /\ errors < MaxErrors
                   /\ errors' = errors + 1
                   /\ failed' = TRUE
                   /\ Unlock(c)
                   /\ todo' = {}
                   /\ UNCHANGED <<up, file, mem, tmp, flushed, disk, medium, seq,
                                  acked, crashes, powerLosses>>

\* Mutant of Return: the lock is released and nil returned after any file.
ReturnEarly(c) == /\ Holds(c, "open")
                  /\ Unlock(c)
                  /\ todo' = {}
                  /\ acked' = mem
                  /\ failed' = FALSE
                  /\ UNCHANGED <<up, file, mem, tmp, flushed, disk, medium, seq,
                                 errors, crashes, powerLosses>>

\* The loop is over: Write returns nil.
Return(c) == /\ Holds(c, "open")
             /\ todo = {}
             /\ Unlock(c)
             /\ acked' = mem
             /\ failed' = FALSE
             /\ UNCHANGED <<up, todo, file, mem, tmp, flushed, disk, medium, seq,
                            errors, crashes, powerLosses>>

-----------------------------------------------------------------------------
(* The end of the process and its next start.                                *)

Stop == /\ up
        /\ crashes < MaxCrashes
        /\ crashes' = crashes + 1
        /\ up' = FALSE
        /\ pc' = [c \in Callers |-> "idle"]
        /\ phase' = "none"
        /\ todo' = {}
        /\ mem' = Zero
        /\ UNCHANGED <<file, tmp, flushed, medium, seq, acked, failed, errors>>

\* Killed, or a panic: the kernel keeps what was written.
Crash == Stop /\ UNCHANGED <<disk, powerLosses>>

\* The machine stops: the directory is what the medium holds.
PowerLoss == /\ Stop
             /\ powerLosses < MaxPowerLosses
             /\ powerLosses' = powerLosses + 1
             /\ disk' = medium

\* Mutant of Restart: the service starts from emptyState().
RestartEmpty == /\ ~up
                /\ up' = TRUE
                /\ mem' = Zero
                /\ failed' = FALSE
                /\ UNCHANGED <<pc, phase, todo, file, tmp, flushed, disk, medium, seq,
                               acked, errors, crashes, powerLosses>>

\* NewFileStore and load: every file must decode; temporary files are ignored.
Restart == /\ ~up
           /\ \A f \in Files : disk[f] \in Nat
           /\ up' = TRUE
           /\ mem' = disk
           /\ failed' = FALSE
           /\ UNCHANGED <<pc, phase, todo, file, tmp, flushed, disk, medium, seq,
                          acked, errors, crashes, powerLosses>>

-----------------------------------------------------------------------------
ReadStep(c) == RLock(c) \/ Mark(c) \/ RUnlock(c)

WriteStep(c) == \/ CallWrite(c) \/ Announce(c) \/ Lock(c)
                \/ FnOk(c) \/ FnError(c)
                \/ OpenTmp(c) \/ WriteTmp(c) \/ SyncTmp(c) \/ Rename(c)
                \/ PersistError(c) \/ Return(c)

Fault == Crash \/ PowerLoss

Next == \/ \E c \in Callers : ReadStep(c) \/ WriteStep(c)
        \/ Fault
        \/ Restart

Spec == Init /\ [][Next]_vars

\* What a goroutine inside the store does next; calling in is the client's choice.
Progress(c) == \/ RUnlock(c) \/ Lock(c) \/ FnOk(c) \/ FnError(c)
               \/ OpenTmp(c) \/ WriteTmp(c) \/ SyncTmp(c) \/ Rename(c) \/ Return(c)

(* The Go scheduler runs every goroutine that can run; the inner mutex hands *)
(* itself to a waiter that starves (sync.Mutex, starvation mode), which is   *)
(* strong fairness of Announce.  The process is restarted by its supervisor. *)
Fairness == /\ \A c \in Callers : WF_vars(Progress(c)) /\ SF_vars(Announce(c))
            /\ WF_vars(Restart)

FairSpec == Spec /\ Fairness

-----------------------------------------------------------------------------
(* Every file of the directory holds one whole version of its map, whatever  *)
(* the process or the machine did, so load never refuses to start            *)
(* (write, fsync, rename in persistLocked).                                  *)
FilesWhole == \A f \in Files : disk[f] \in Nat /\ medium[f] \in Nat

(* What a successful Write covered is on disk for ever after, through errors *)
(* of later Writes, ends of the process and restarts (Write returns nil only *)
(* after the whole loop of persistLocked).                                   *)
AckedDurable == powerLosses = 0 => \A f \in Files : acked[f] <= disk[f]

(* A map differs from its file only while a Write is persisting or after one *)
(* that failed to (the next successful Write also saves what the failed one  *)
(* left), or if it is one that functions change inside Read: those run ahead *)
(* of the disk with nothing in progress (reminders/service.go:43).           *)
CleanWhenQuiet ==
    up /\ ~failed /\ phase \in {"none", "fn"} => \A f \in Files \ Marked : mem[f] = disk[f]

(* The function passed to Read sees one State: no Write changes a map while  *)
(* it holds the read lock.  What other functions inside Read change, the     *)
(* marks of the reminders, may move under its eyes.                          *)
StableRead ==
    [][\A c \in Callers : pc[c] = "reading" /\ pc'[c] = "reading"
           => \A f \in Files \ Marked : mem'[f] = mem[f]]_vars

(* A file never goes back to an older version as long as power stays on, not *)
(* even when a restarted process rewrites it.                                *)
DiskForward ==
    [][powerLosses' = powerLosses => \A f \in Files : disk'[f] >= disk[f]]_vars

(* Every call of Read or Write returns, or ends with the process: readers    *)
(* cannot hold back a writer for ever, nor writers a reader.                 *)
CallReturns == \A c \in Callers : pc[c] # "idle" ~> pc[c] = "idle"

-----------------------------------------------------------------------------
(* The inductive invariant behind the safety properties.                     *)

\* The lock: one writer, no reader beside it, and only it is in a phase.
LockInv ==
    /\ \A c, d \in Writers : c = d
    /\ \A c, d \in Callers : pc[c] = "writing" => pc[d] # "reading"
    /\ phase # "none" => \E c \in Callers : pc[c] = "writing"
    /\ ~up => \A c \in Callers : pc[c] = "idle"

\* Versions only move from memory to the disk to the medium.
OrderInv ==
    \A f \in Files : /\ disk[f] \in Nat /\ medium[f] \in Nat
                     /\ medium[f] <= disk[f]
                     /\ disk[f] <= seq /\ mem[f] <= seq
                     /\ up => disk[f] <= mem[f]

\* persistLocked: all files but those still to do, and the one in hand, are saved.
LoopInv ==
    phase \notin {"none", "fn"} =>
        /\ \A f \in Files \ todo : disk[f] = mem[f] \/ (phase # "open" /\ f = file)
        /\ phase \in {"sync", "rename"} => tmp[file] = mem[file]
        /\ phase = "rename" => flushed

IndInv == /\ TypeOK
          /\ LockInv
          /\ OrderInv
          /\ LoopInv
          /\ CleanWhenQuiet
          /\ AckedDurable

-----------------------------------------------------------------------------
(* The abstract store: a stopped process shows the values it would restart   *)
(* with.                                                                     *)
CurView == IF up THEN mem ELSE disk

Durable == INSTANCE DurableStore WITH
    cur <- CurView, saved <- disk, intact <- powerLosses = 0

Refinement == Durable!ASpec
=============================================================================
