----------------------------- MODULE PostgresStore -----------------------------
(* internal/persistence/postgres_store.go, by one server process, with the   *)
(* Writes of AdjudicationService and audit.Service on it.  A call takes the  *)
(* store's RWMutex, then a connection of database/sql's pool; a Write loads  *)
(* all rows into a State, runs its function, upserts every row and commits.  *)
(* An error of persistState returns without Rollback: the transaction keeps  *)
(* its connection for good.  PostgreSQL and database/sql are not part of the *)
(* repository; the tables are those the statements name.                     *)
EXTENDS Adjudication, FiniteSets

CONSTANTS Callers,     \* goroutines that use the store
          PoolSize,    \* SetMaxOpenConns
          MaxCalls,    \* bound: calls of Write
          MaxErrors,   \* bound: statements or commits that fail
          MaxCrashes   \* bound: ends of the process

ASSUME PostgresAssumption ==
    /\ Ids = 1 .. MaxCalls
    /\ Keys # {}
    /\ PoolSize \in Nat \ {0}
    /\ MaxCalls \in Nat /\ MaxErrors \in Nat /\ MaxCrashes \in Nat

VARIABLES
    lock,     \* [Callers -> Locks] p.mu, as each goroutine has it or waits for it
    at,       \* [Callers -> Places] where it is inside Read or Write
    call,     \* [Callers -> Call] what its Write is for
    work,     \* [Callers -> Loaded] the State of its transaction
    leaked,   \* connections of transactions that nobody will end
    shut,     \* p.closed
    db,       \* the rows that are committed
    told,     \* what successful calls told their callers
    calls, errors, crashes

vars == <<lock, at, call, work, leaked, shut, db, told, calls, errors, crashes>>
local == <<call, work>>

Locks  == {"none", "wantR", "R", "wantW", "draining", "W"}
Places == {"out", "tx", "loaded", "changed", "commit", "landed"}
Ops    == {"ensure", "resolve", "log", "close"}

\* A Write's number is its fresh ID; issue is the one it is about, 0 if unknown yet.
Call   == [op : Ops, id : Nat, key : Keys, issue : Nat]
NoCall == [op |-> "log", id |-> 0, key |-> CHOOSE k \in Keys : TRUE, issue |-> 0]

\* The State of a transaction and the rows: the same but for audit_logs, where a
\* State has entries and the table counts the rows of each.
Loaded == [issues : Issues, audit : SUBSET Ids]
Rows   == [issues : Issues, audit : [Ids -> Nat]]

Empty == [issues |-> NoIssues(NoCall.key), audit |-> {}]

TypeOK == /\ lock \in [Callers -> Locks]
          /\ at \in [Callers -> Places]
          /\ call \in [Callers -> Call]
          /\ work \in [Callers -> Loaded]
          /\ leaked \in Nat
          /\ shut \in BOOLEAN
          /\ db \in Rows
          /\ told \in [filed : SUBSET Ids, closed : SUBSET Ids, logged : SUBSET Ids]
          /\ calls \in Nat /\ errors \in Nat /\ crashes \in Nat

Init == /\ lock = [c \in Callers |-> "none"]
        /\ at = [c \in Callers |-> "out"]
        /\ call = [c \in Callers |-> NoCall]
        /\ work = [c \in Callers |-> Empty]
        /\ leaked = 0
        /\ shut = FALSE
        /\ db = [issues |-> NoIssues(NoCall.key), audit |-> [i \in Ids |-> 0]]
        /\ told = [filed |-> {}, closed |-> {}, logged |-> {}]
        /\ calls = 0 /\ errors = 0 /\ crashes = 0

-----------------------------------------------------------------------------
(* p.mu, a sync.RWMutex: an announced writer waits for the readers inside    *)
(* and keeps new ones out; Unlock lets in the readers that wait.             *)

Writers == {c \in Callers : lock[c] \in {"draining", "W"}}

Hold(c, l) == lock' = [lock EXCEPT ![c] = l]

\* Mutant of RLock: readers go past a writer that waits.
RLockPastWriters(c) ==
    /\ lock[c] = "none"
    /\ Hold(c, IF \A d \in Callers : lock[d] # "W" THEN "R" ELSE "wantR")
    /\ UNCHANGED <<at, local, leaked, shut, db, told, calls, errors, crashes>>

\* A call of Read.
RLock(c) == /\ lock[c] = "none"
            /\ Hold(c, IF Writers = {} THEN "R" ELSE "wantR")
            /\ UNCHANGED <<at, local, leaked, shut, db, told, calls, errors, crashes>>

\* A call of Write, by EnsureIssue, ResolveIssue or audit.Log, or of Close.
CallWrite(c) ==
    /\ lock[c] = "none"
    /\ calls < MaxCalls
    /\ calls' = calls + 1
    /\ \E op \in Ops, k \in Keys, i \in Ids :
          /\ op = "ensure" \/ k = NoCall.key
          /\ op = "resolve" \/ i = 1
          /\ call' = [call EXCEPT ![c] = [op |-> op, id |-> calls + 1, key |-> k,
                                          issue |-> IF op = "resolve" THEN i ELSE 0]]
    /\ Hold(c, "wantW")
    /\ UNCHANGED <<at, work, leaked, shut, db, told, errors, crashes>>

Announce(c) == /\ lock[c] = "wantW"
               /\ Writers = {}
               /\ Hold(c, "draining")
               /\ UNCHANGED <<at, local, leaked, shut, db, told, calls, errors, crashes>>

\* Mutant of Lock: Write takes the lock that readers share.
LockShared(c) == /\ lock[c] = "wantW"
                 /\ Hold(c, "W")
                 /\ UNCHANGED <<at, local, leaked, shut, db, told, calls, errors, crashes>>

Lock(c) == /\ lock[c] = "draining"
           /\ \A d \in Callers : lock[d] # "R"
           /\ Hold(c, "W")
           /\ UNCHANGED <<at, local, leaked, shut, db, told, calls, errors, crashes>>

\* The call returns: the deferred Unlock or RUnlock; its transaction is gone.
Return(c) ==
    /\ lock' = [d \in Callers |->
                   IF d = c THEN "none"
                   ELSE IF lock[c] = "W" /\ lock[d] = "wantR" THEN "R" ELSE lock[d]]
    /\ at' = [at EXCEPT ![c] = "out"]
    /\ call' = [call EXCEPT ![c] = NoCall]
    /\ work' = [work EXCEPT ![c] = Empty]

-----------------------------------------------------------------------------
(* The pool of connections and the transaction.                              *)

InTx == {c \in Callers : at[c] # "out"}

Holding(c, place) == lock[c] = "W" /\ at[c] = place

Goto(c, place) == at' = [at EXCEPT ![c] = place]

Fail == errors < MaxErrors /\ errors' = errors + 1

\* Inside the lock, p.closed is looked at first.
ReturnClosed(c) == /\ lock[c] \in {"R", "W"} /\ at[c] = "out"
                   /\ shut /\ call[c].op # "close"
                   /\ Return(c)
                   /\ UNCHANGED <<leaked, shut, db, told, calls, errors, crashes>>

\* Close.  A transaction that leaked keeps its connection.
Close(c) == /\ Holding(c, "out")
            /\ call[c].op = "close"
            /\ shut' = TRUE
            /\ Return(c)
            /\ UNCHANGED <<leaked, db, told, calls, errors, crashes>>

\* BeginTxx with context.Background(): it waits as long as the pool is used up.
Begin(c) == /\ lock[c] \in {"R", "W"} /\ at[c] = "out"
            /\ ~shut /\ call[c].op # "close"
            /\ Cardinality(InTx) + leaked < PoolSize
            /\ Goto(c, "tx")
            /\ UNCHANGED <<lock, local, leaked, shut, db, told, calls, errors, crashes>>

\* Read: loadState and the function, and Rollback is deferred: whether one of them
\* fails makes no difference.
ReadReturns(c) == /\ lock[c] = "R" /\ at[c] = "tx"
                  /\ Return(c)
                  /\ UNCHANGED <<leaked, shut, db, told, calls, errors, crashes>>

\* Mutant of loadState: the entries of audit_logs are loaded.
loadStateAll == [issues |-> db.issues, audit |-> {i \in Ids : db.audit[i] > 0}]

\* loadState: the tables keyed by tenant come back as they were stored.
\* loadSimpleTable decodes each row of audit_logs, an object, into the slice, which
\* fails without a trace: the State has no audit entries.
loadState == [issues |-> db.issues, audit |-> {}]

Load(c) == /\ Holding(c, "tx")
           /\ work' = [work EXCEPT ![c] = loadState]
           /\ Goto(c, "loaded")
           /\ UNCHANGED <<lock, call, leaked, shut, db, told, calls, errors, crashes>>

\* BeginTxx or loadState fails: nothing is kept, Rollback.
LoadFails(c) == /\ Holding(c, "tx")
                /\ Fail
                /\ Return(c)
                /\ UNCHANGED <<leaked, shut, db, told, calls, crashes>>

\* fn(state) of EnsureIssue, ResolveIssue or audit.Log.
Apply(c) ==
    /\ Holding(c, "loaded")
    /\ LET st == work[c].issues
           w  == call[c]
       IN  \/ /\ w.op = "ensure"
              /\ work' = [work EXCEPT ![c].issues = EnsureIssue(st, w.id, w.key)]
              /\ call' = [call EXCEPT ![c].issue = Ensured(st, w.id, w.key)]
           \/ /\ w.op = "resolve" /\ ~Refused(st, w.issue)
              /\ work' = [work EXCEPT ![c].issues = ResolveIssue(st, w.issue)]
              /\ call' = call
           \/ /\ w.op = "log"
              /\ work' = [work EXCEPT ![c].audit = @ \cup {w.id}]
              /\ call' = call
    /\ Goto(c, "changed")
    /\ UNCHANGED <<lock, leaked, shut, db, told, calls, errors, crashes>>

\* fn returns an error: Rollback.
Refuse(c) == /\ Holding(c, "loaded")
             /\ call[c].op = "resolve" /\ Refused(work[c].issues, call[c].issue)
             /\ Return(c)
             /\ UNCHANGED <<leaked, shut, db, told, calls, errors, crashes>>

\* persistState has sent every upsert.
Persist(c) == /\ Holding(c, "changed")
              /\ Goto(c, "commit")
              /\ UNCHANGED <<lock, local, leaked, shut, db, told, calls, errors, crashes>>

\* One of its statements fails.  PostgreSQL aborts the transaction and lets go of its
\* row locks; nobody calls Rollback, and the connection is never given back.
PersistFails(c) == /\ Holding(c, "changed")
                   /\ Fail
                   /\ leaked' = leaked + 1
                   /\ Return(c)
                   /\ UNCHANGED <<shut, db, told, calls, crashes>>

\* Mutant of persistState: the issues are committed before their events.
persistStateIssuesFirst(w) ==
    [issues |-> [w.issues EXCEPT !.decisions = db.issues.decisions],
     audit  |-> [i \in Ids |-> db.audit[i] + IF i \in w.audit THEN 1 ELSE 0]]

\* persistState, once committed: a row of each tenant is replaced; upsertSimple
\* inserts every entry again (ON CONFLICT finds none: a row's ID is a new one).
persistState(w) ==
    [issues |-> w.issues,
     audit  |-> [i \in Ids |-> db.audit[i] + IF i \in w.audit THEN 1 ELSE 0]]

\* COMMIT takes effect in the database, before Write returns: one that a server
\* executes after the connection broke and the lock was let go is left out.
Land(c) == /\ Holding(c, "commit")
           /\ db' = persistState(work[c])
           /\ Goto(c, "landed")
           /\ UNCHANGED <<lock, local, leaked, shut, told, calls, errors, crashes>>

Answered(c) ==
    LET w == call[c]
    IN  CASE w.op = "ensure"  -> [told EXCEPT !.filed = @ \cup {w.issue}]
          [] w.op = "resolve" -> [told EXCEPT !.closed = @ \cup {w.issue}]
          [] w.op = "log"     -> [told EXCEPT !.logged = @ \cup {w.id}]
          [] w.op = "close"   -> told

\* Mutant of CommitFails: the error of Commit is dropped, Write returns nil.
CommitFailsUnseen(c) == /\ Holding(c, "commit")
                        /\ Fail
                        /\ told' = Answered(c)
                        /\ Return(c)
                        /\ UNCHANGED <<leaked, shut, db, calls, crashes>>

\* COMMIT fails and nothing is stored; Commit gives the connection back.
CommitFails(c) == /\ Holding(c, "commit")
                  /\ Fail
                  /\ Return(c)
                  /\ UNCHANGED <<leaked, shut, db, told, calls, crashes>>

\* Write returns nil.
ReturnOk(c) == /\ Holding(c, "landed")
               /\ told' = Answered(c)
               /\ Return(c)
               /\ UNCHANGED <<leaked, shut, db, calls, errors, crashes>>

\* The connection breaks before the answer to COMMIT: Write returns an error for
\* what is stored.
ReturnLost(c) == /\ Holding(c, "landed")
                 /\ Fail
                 /\ Return(c)
                 /\ UNCHANGED <<leaked, shut, db, told, calls, crashes>>

-----------------------------------------------------------------------------
\* The process ends and is started again: PostgreSQL rolls back what was open.
Crash == /\ crashes < MaxCrashes
         /\ crashes' = crashes + 1
         /\ lock' = [c \in Callers |-> "none"]
         /\ at' = [c \in Callers |-> "out"]
         /\ call' = [c \in Callers |-> NoCall]
         /\ work' = [c \in Callers |-> Empty]
         /\ leaked' = 0
         /\ shut' = FALSE
         /\ UNCHANGED <<db, told, calls, errors>>

Inside(c) == \/ Lock(c) \/ ReturnClosed(c) \/ Close(c)
             \/ ReadReturns(c) \/ Load(c) \/ LoadFails(c) \/ Apply(c) \/ Refuse(c)
             \/ Persist(c) \/ PersistFails(c)
             \/ Land(c) \/ CommitFails(c) \/ ReturnOk(c) \/ ReturnLost(c)

Next == \/ \E c \in Callers : RLock(c) \/ CallWrite(c) \/ Announce(c) \/ Begin(c) \/ Inside(c)
        \/ Crash

Spec == Init /\ [][Next]_vars

(* What a goroutine inside the store can do it does; Lock's inner mutex and  *)
(* the pool's queue of requests both hand over to one that waits.            *)
Fairness == \A c \in Callers : /\ WF_vars(Inside(c))
                               /\ SF_vars(Announce(c)) /\ SF_vars(Begin(c))

FairSpec == Spec /\ Fairness

-----------------------------------------------------------------------------
(* What a call was told stays: the issue EnsureIssue returned exists, the    *)
(* one ResolveIssue closed is resolved, an entry audit.Log wrote is in the   *)
(* table, whatever fails, leaks or ends afterwards (Write returns nil only   *)
(* after Commit).                                                            *)
ToldIsKept ==
    /\ \A i \in told.filed : db.issues.status[i] # "none"
    /\ \A i \in told.closed : db.issues.status[i] = "resolved"
    /\ \A i \in told.logged : db.audit[i] > 0

(* There is never more than one open issue of an item and a type, also when  *)
(* a caller repeats EnsureIssue after an answer that was lost.               *)
OneOpen ==
    \A i, j \in Ids :
        /\ db.issues.status[i] = "open" /\ db.issues.status[j] = "open"
        /\ db.issues.key[i] = db.issues.key[j]
        => i = j

(* Issues and events lie in two tables, and agree at any moment: a resolved  *)
(* issue has exactly one event, an open one none (one transaction).          *)
DecidedOnce ==
    \A i \in Ids :
        db.issues.decisions[i] = IF db.issues.status[i] = "resolved" THEN 1 ELSE 0

(* Every Write inserts the audit entries of its State once more, and yet no  *)
(* entry is in the table twice: no State ever has an older one.              *)
AuditOnce == \A i \in Ids : db.audit[i] <= 1

(* Every call returns or ends with the process, until every connection of    *)
(* the pool has been lost to a persist error.                                *)
CallReturns == \A c \in Callers : lock[c] # "none" ~> lock[c] = "none" \/ leaked >= PoolSize

-----------------------------------------------------------------------------
(* Why they hold.  One writer at a time is inside, with no reader beside it. *)
LockInv ==
    /\ \A c, d \in Callers : c # d /\ lock[c] \in {"draining", "W"}
                               => lock[d] \notin {"draining", "W"}
    /\ \A c, d \in Callers : lock[c] = "W" => lock[d] # "R"
    /\ \A c \in Callers : /\ at[c] # "out" => lock[c] \in {"R", "W"}
                          /\ at[c] \notin {"out", "tx"} => lock[c] = "W"

\* The number of a Write is its own, and unknown to the database until it lands.
FreshInv ==
    /\ calls <= MaxCalls
    /\ \A c \in Callers :
          /\ call[c].id <= calls
          /\ call[c].id = 0 <=> lock[c] \in {"none", "wantR", "R"}
          /\ lock[c] = "W" /\ at[c] # "out" => call[c].op # "close"
          /\ call[c].op = "resolve" => call[c].issue \in Ids
    /\ \A c, d \in Callers : call[c].id = call[d].id /\ call[c].id # 0 => c = d
    /\ \A i \in Ids :
          i > calls \/ (\E c \in Callers : call[c].id = i /\ at[c] # "landed")
          => db.issues.status[i] = "none" /\ db.audit[i] = 0

\* What a Write has made of the rows, which nobody else changes meanwhile.
Prepared(c) ==
    LET w == call[c]
    IN  \/ /\ w.op = "ensure"
           /\ work[c] = [issues |-> EnsureIssue(db.issues, w.id, w.key), audit |-> {}]
           /\ w.issue = Ensured(db.issues, w.id, w.key)
        \/ /\ w.op = "resolve" /\ ~Refused(db.issues, w.issue)
           /\ work[c] = [issues |-> ResolveIssue(db.issues, w.issue), audit |-> {}]
        \/ /\ w.op = "log"
           /\ work[c] = [issues |-> db.issues, audit |-> {w.id}]

\* What it is about to tell its caller.
Landed(c) ==
    LET w == call[c]
    IN  /\ w.op = "ensure" => w.issue \in Ids /\ db.issues.status[w.issue] # "none"
        /\ w.op = "resolve" => db.issues.status[w.issue] = "resolved"
        /\ w.op = "log" => db.audit[w.id] > 0

WorkInv ==
    \A c \in Callers : /\ at[c] = "loaded" => work[c] = [issues |-> db.issues, audit |-> {}]
                       /\ at[c] \in {"changed", "commit"} => Prepared(c)
                       /\ at[c] = "landed" => Landed(c)

RowsInv == OneOpen /\ DecidedOnce /\ AuditOnce

IndInv == TypeOK /\ LockInv /\ FreshInv /\ WorkInv /\ RowsInv /\ ToldIsKept

-----------------------------------------------------------------------------
Ledger == INSTANCE IssueLedger WITH
    status <- db.issues.status, key <- db.issues.key, decisions <- db.issues.decisions

(* On this store the adjudication implements its abstract specification.     *)
ImplementsLedger == Ledger!LSpec
=============================================================================
