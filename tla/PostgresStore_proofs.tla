------------------------- MODULE PostgresStore_proofs -------------------------
(* Proofs about PostgresStore for any callers, pool and bounds: what a call  *)
(* was told stays, issues are filed and decided once, and adjudication on    *)
(* this store implements IssueLedger, through failing statements, lost       *)
(* answers, leaked connections and crashes.                                  *)
EXTENDS PostgresStore, FiniteSetTheorems, TLAPS

LEMMA KeysInhabited == NoCall \in Call /\ NoCall.key \in Keys /\ NoCall.id = 0
<1>1. NoCall.key \in Keys
  BY PostgresAssumption DEF NoCall
<1> QED BY <1>1 DEF NoCall, Call, Ops

\* EnsureIssue keeps the state or opens the fresh ID, as there is an open issue or not.
LEMMA EnsureFacts ==
  ASSUME NEW st \in Issues, NEW i \in Ids, NEW k \in Keys
  PROVE  /\ EnsureIssue(st, i, k) \in Issues
         /\ Ensured(st, i, k) \in Ids
         /\ \/ /\ EnsureIssue(st, i, k) = st
               /\ st.status[Ensured(st, i, k)] = "open"
            \/ /\ \A j \in Ids : ~(st.status[j] = "open" /\ st.key[j] = k)
               /\ Ensured(st, i, k) = i
               /\ EnsureIssue(st, i, k) =
                     [status |-> [st.status EXCEPT ![i] = "open"],
                      key |-> [st.key EXCEPT ![i] = k], decisions |-> st.decisions]
<1>1. CASE OpenIssues(st, k) # {}
  <2>1. EnsureIssue(st, i, k) = st
    BY <1>1 DEF EnsureIssue
  <2>2. Ensured(st, i, k) \in OpenIssues(st, k)
    BY <1>1 DEF Ensured
  <2> QED BY <2>1, <2>2 DEF OpenIssues
<1>2. CASE OpenIssues(st, k) = {}
  <2>1. EnsureIssue(st, i, k) = [st EXCEPT !.status[i] = "open", !.key[i] = k]
    BY <1>2 DEF EnsureIssue
  <2>2. EnsureIssue(st, i, k) =
           [status |-> [st.status EXCEPT ![i] = "open"],
            key |-> [st.key EXCEPT ![i] = k], decisions |-> st.decisions]
    BY <2>1 DEF Issues
  <2>3. Ensured(st, i, k) = i
    BY <1>2 DEF Ensured
  <2>4. EnsureIssue(st, i, k) \in Issues
    BY <2>2 DEF Issues
  <2> QED BY <1>2, <2>2, <2>3, <2>4 DEF OpenIssues
<1> QED BY <1>1, <1>2

\* ResolveIssue closes the issue and counts its decision.
LEMMA ResolveFacts ==
  ASSUME NEW st \in Issues, NEW i \in Ids
  PROVE  /\ ResolveIssue(st, i) \in Issues
         /\ ResolveIssue(st, i) =
               [status |-> [st.status EXCEPT ![i] = "resolved"], key |-> st.key,
                decisions |-> [st.decisions EXCEPT ![i] = @ + 1]]
<1>1. ResolveIssue(st, i) =
         [status |-> [st.status EXCEPT ![i] = "resolved"], key |-> st.key,
          decisions |-> [st.decisions EXCEPT ![i] = @ + 1]]
  <2> DEFINE new == ResolveIssue(st, i)
  <2>1. new.status = [st.status EXCEPT ![i] = "resolved"]
    BY DEF ResolveIssue, Issues
  <2>2. new.key = st.key
    BY DEF ResolveIssue, Issues
  <2>3. new.decisions = [st.decisions EXCEPT ![i] = @ + 1]
    BY DEF ResolveIssue, Issues
  <2>4. new \in Issues
    <3>1. st.decisions[i] + 1 \in Nat
      BY DEF Issues
    <3> QED BY <3>1 DEF ResolveIssue, Issues
  <2> HIDE DEF new
  <2>5. new = [status |-> new.status, key |-> new.key, decisions |-> new.decisions]
    BY <2>4 DEF Issues
  <2> QED BY <2>1, <2>2, <2>3, <2>5 DEF new
<1> QED BY <1>1 DEF Issues

LEMMA InitInd == Init => IndInv
<1> SUFFICES ASSUME Init PROVE IndInv
  OBVIOUS
<1>1. db.issues \in Issues /\ db \in Rows /\ Empty \in Loaded
  BY KeysInhabited DEF Init, NoIssues, Issues, Rows, Loaded, Empty
<1>2. TypeOK
  BY <1>1, KeysInhabited DEF Init, TypeOK, Locks, Places
<1>3. LockInv
  BY DEF Init, LockInv
<1>4. FreshInv
  BY PostgresAssumption DEF Init, FreshInv, NoCall, NoIssues
<1>5. WorkInv
  BY DEF Init, WorkInv
<1>6. RowsInv
  BY DEF Init, RowsInv, OneOpen, DecidedOnce, AuditOnce, NoIssues
<1>7. ToldIsKept
  BY DEF Init, ToldIsKept
<1> QED BY <1>2, <1>3, <1>4, <1>5, <1>6, <1>7 DEF IndInv

-----------------------------------------------------------------------------
\* Queueing for the lock and taking it.
LEMMA LockStepInd ==
  ASSUME NEW c \in Callers, IndInv, RLock(c) \/ CallWrite(c) \/ Announce(c) \/ Lock(c)
  PROVE  IndInv'
<1> USE DEF IndInv
<1>1. /\ UNCHANGED <<at, work, leaked, shut, db, told, errors, crashes>>
      /\ lock[c] \in {"none", "wantW", "draining"} /\ at[c] = "out"
  BY DEF RLock, CallWrite, Announce, Lock, local, LockInv, TypeOK, Locks
<1>2. lock' \in [Callers -> Locks] /\ \A d \in Callers : d # c => lock'[d] = lock[d]
  BY DEF RLock, CallWrite, Announce, Lock, Hold, TypeOK, Locks
<1>3. call' \in [Callers -> Call] /\ \A d \in Callers : d # c => call'[d] = call[d]
  <2>1. CASE CallWrite(c)
    <3>1. PICK op \in Ops, k \in Keys, i \in Ids :
             call' = [call EXCEPT ![c] = [op |-> op, id |-> calls + 1, key |-> k,
                                          issue |-> IF op = "resolve" THEN i ELSE 0]]
      BY <2>1 DEF CallWrite
    <3>2. [op |-> op, id |-> calls + 1, key |-> k,
           issue |-> IF op = "resolve" THEN i ELSE 0] \in Call
      BY PostgresAssumption DEF Call, TypeOK
    <3> QED BY <3>1, <3>2 DEF TypeOK
  <2>2. CASE RLock(c) \/ Announce(c) \/ Lock(c)
    BY <2>2 DEF RLock, Announce, Lock, local, TypeOK
  <2> QED BY <2>1, <2>2
<1>4. TypeOK'
  <2>1. calls' \in Nat
    BY DEF RLock, CallWrite, Announce, Lock, TypeOK
  <2> QED BY <1>1, <1>2, <1>3, <2>1 DEF TypeOK
<1>5. LockInv'
  BY <1>1, <1>2 DEF LockInv, RLock, CallWrite, Announce, Lock, Hold, Writers, TypeOK
<1>6. FreshInv'
  <2>1. CASE CallWrite(c)
    <3>1. PICK op \in Ops, k \in Keys, i \in Ids :
             call' = [call EXCEPT ![c] = [op |-> op, id |-> calls + 1, key |-> k,
                                          issue |-> IF op = "resolve" THEN i ELSE 0]]
      BY <2>1 DEF CallWrite
    <3>2. /\ call'[c].id = calls + 1 /\ call'[c].op = op
          /\ op = "resolve" => call'[c].issue \in Ids
          /\ lock'[c] = "wantW" /\ calls' = calls + 1 /\ calls < MaxCalls /\ calls \in Nat
      BY <2>1, <3>1 DEF CallWrite, Hold, TypeOK
    <3>3. \A d \in Callers : call[d].id <= calls /\ call[d].id \in Nat
      BY DEF FreshInv, TypeOK, Call
    <3>4. calls' <= MaxCalls
      BY <3>2, PostgresAssumption
    <3>5. ASSUME NEW d \in Callers
          PROVE  /\ call'[d].id <= calls'
                 /\ call'[d].id = 0 <=> lock'[d] \in {"none", "wantR", "R"}
                 /\ lock'[d] = "W" /\ at'[d] # "out" => call'[d].op # "close"
                 /\ call'[d].op = "resolve" => call'[d].issue \in Ids
      BY <1>1, <1>2, <1>3, <3>2, <3>3 DEF FreshInv
    <3>6. ASSUME NEW d \in Callers, NEW e \in Callers, call'[d].id = call'[e].id,
                 call'[d].id # 0
          PROVE  d = e
      BY <1>3, <3>2, <3>3, <3>6 DEF FreshInv
    <3>7. ASSUME NEW j \in Ids,
                 j > calls' \/ (\E d \in Callers : call'[d].id = j /\ at'[d] # "landed")
          PROVE  db'.issues.status[j] = "none" /\ db'.audit[j] = 0
      <4>1. j \in Nat
        BY PostgresAssumption
      <4>2. j > calls \/ (\E d \in Callers : call[d].id = j /\ at[d] # "landed")
        BY <1>1, <1>3, <3>2, <3>7, <4>1
      <4> QED BY <1>1, <4>2 DEF FreshInv
    <3> QED BY <3>4, <3>5, <3>6, <3>7 DEF FreshInv
  <2>2. CASE RLock(c) \/ Announce(c) \/ Lock(c)
    <3>1. call' = call /\ calls' = calls
      BY <2>2 DEF RLock, Announce, Lock, local
    <3>2. lock'[c] \in {"none", "wantR", "R"} <=> lock[c] \in {"none", "wantR", "R"}
      BY <2>2 DEF RLock, Announce, Lock, Hold, TypeOK
    <3> QED BY <1>1, <1>2, <3>1, <3>2 DEF FreshInv
  <2> QED BY <2>1, <2>2
<1>7. WorkInv'
  <2> SUFFICES ASSUME NEW d \in Callers
               PROVE  /\ at'[d] = "loaded" =>
                            work'[d] = [issues |-> db'.issues, audit |-> {}]
                      /\ at'[d] \in {"changed", "commit"} => Prepared(d)'
                      /\ at'[d] = "landed" => Landed(d)'
    BY DEF WorkInv
  <2>1. d = c => at'[d] = "out"
    BY <1>1
  <2>2. d # c => call'[d] = call[d]
    BY <1>3
  <2> QED BY <1>1, <2>1, <2>2 DEF WorkInv, Prepared, Landed
<1>8. RowsInv'
  BY <1>1 DEF RowsInv, OneOpen, DecidedOnce, AuditOnce
<1>9. ToldIsKept'
  BY <1>1 DEF ToldIsKept
<1> QED BY <1>4, <1>5, <1>6, <1>7, <1>8, <1>9

-----------------------------------------------------------------------------
\* A call returns: its goroutine is outside, and only waiting readers come in.
LEMMA ReturnFacts ==
  ASSUME NEW c \in Callers, IndInv, Return(c), lock[c] \in {"R", "W"}, UNCHANGED <<db, calls>>
  PROVE  /\ lock' \in [Callers -> Locks] /\ at' \in [Callers -> Places]
         /\ call' \in [Callers -> Call] /\ work' \in [Callers -> Loaded]
         /\ LockInv' /\ FreshInv' /\ WorkInv'
<1> USE DEF IndInv
<1>1. lock' \in [Callers -> Locks]
  BY DEF TypeOK, Locks, Return
<1>2. at' \in [Callers -> Places]
  BY DEF TypeOK, Places, Return
<1>3. call' \in [Callers -> Call]
  BY KeysInhabited DEF TypeOK, Return
<1>4. work' \in [Callers -> Loaded]
  BY KeysInhabited DEF TypeOK, Return, Loaded, Empty, NoIssues, Issues
<1>5. /\ lock'[c] = "none" /\ at'[c] = "out" /\ call'[c] = NoCall
      /\ \A d \in Callers : d # c => /\ at'[d] = at[d] /\ call'[d] = call[d]
                                    /\ work'[d] = work[d]
                                    /\ \/ lock'[d] = lock[d]
                                       \/ lock[c] = "W" /\ lock[d] = "wantR" /\ lock'[d] = "R"
  BY DEF Return, TypeOK
<1>6. LockInv'
  BY <1>5 DEF LockInv
<1>7. FreshInv'
  <2>1. /\ NoCall.id = 0 /\ NoCall.op = "log" /\ calls \in Nat
        /\ \A i \in Ids : i # 0
    BY PostgresAssumption DEF NoCall, TypeOK
  <2>2. ASSUME NEW d \in Callers
        PROVE  /\ call'[d].id <= calls'
               /\ call'[d].id = 0 <=> lock'[d] \in {"none", "wantR", "R"}
               /\ lock'[d] = "W" /\ at'[d] # "out" => call'[d].op # "close"
               /\ call'[d].op = "resolve" => call'[d].issue \in Ids
    BY <1>5, <2>1 DEF FreshInv
  <2>3. ASSUME NEW d \in Callers, NEW e \in Callers, call'[d].id = call'[e].id,
               call'[d].id # 0
        PROVE  d = e
    BY <1>5, <2>1, <2>3 DEF FreshInv
  <2>4. ASSUME NEW i \in Ids,
               i > calls' \/ (\E d \in Callers : call'[d].id = i /\ at'[d] # "landed")
        PROVE  db'.issues.status[i] = "none" /\ db'.audit[i] = 0
    BY <1>5, <2>1, <2>4 DEF FreshInv
  <2> QED BY <2>2, <2>3, <2>4 DEF FreshInv
<1>8. WorkInv'
  <2> SUFFICES ASSUME NEW d \in Callers
               PROVE  /\ at'[d] = "loaded" =>
                            work'[d] = [issues |-> db'.issues, audit |-> {}]
                      /\ at'[d] \in {"changed", "commit"} => Prepared(d)'
                      /\ at'[d] = "landed" => Landed(d)'
    BY DEF WorkInv
  <2>1. CASE d = c
    BY <1>5, <2>1
  <2>2. CASE d # c
    <3>1. at'[d] = at[d] /\ call'[d] = call[d] /\ work'[d] = work[d] /\ db' = db
      BY <1>5, <2>2
    <3> QED BY <3>1 DEF WorkInv, Prepared, Landed
  <2> QED BY <2>1, <2>2
<1> QED BY <1>1, <1>2, <1>3, <1>4, <1>6, <1>7, <1>8

\* Reads, refusals and failures return without a word to the caller.
LEMMA FailureInd ==
  ASSUME NEW c \in Callers, IndInv,
         \/ ReturnClosed(c) \/ Close(c) \/ ReadReturns(c) \/ LoadFails(c) \/ Refuse(c)
         \/ PersistFails(c) \/ CommitFails(c) \/ ReturnLost(c)
  PROVE  IndInv'
<1> USE DEF ReturnClosed, Close, ReadReturns, LoadFails, Refuse, PersistFails, CommitFails,
            ReturnLost, Holding, Fail
<1>1. Return(c) /\ lock[c] \in {"R", "W"} /\ UNCHANGED <<db, calls, told, crashes>>
  OBVIOUS
<1>2. /\ lock' \in [Callers -> Locks] /\ at' \in [Callers -> Places]
      /\ call' \in [Callers -> Call] /\ work' \in [Callers -> Loaded]
      /\ LockInv' /\ FreshInv' /\ WorkInv'
  BY <1>1, ReturnFacts
<1>3. leaked' \in Nat /\ shut' \in BOOLEAN /\ errors' \in Nat
  <2>1. leaked' = leaked \/ leaked' = leaked + 1
    OBVIOUS
  <2>2. shut' = shut \/ shut' = TRUE
    OBVIOUS
  <2>3. errors' = errors \/ errors' = errors + 1
    OBVIOUS
  <2>4. leaked \in Nat /\ shut \in BOOLEAN /\ errors \in Nat
    BY DEF IndInv, TypeOK
  <2>5. leaked' \in Nat /\ errors' \in Nat
    BY <2>1, <2>3, <2>4
  <2>6. shut' \in BOOLEAN
    BY ONLY <2>2, <2>4
  <2> QED BY ONLY <2>5, <2>6
<1>4. TypeOK'
  BY <1>1, <1>2, <1>3 DEF IndInv, TypeOK
<1>5. RowsInv' /\ ToldIsKept'
  BY <1>1 DEF IndInv, RowsInv, OneOpen, DecidedOnce, AuditOnce, ToldIsKept
<1> QED BY <1>2, <1>4, <1>5 DEF IndInv

\* Write returns nil for what has landed.
LEMMA ReturnOkInd == ASSUME NEW c \in Callers, IndInv, ReturnOk(c) PROVE IndInv'
<1>1. /\ Return(c) /\ lock[c] = "W" /\ at[c] = "landed" /\ told' = Answered(c)
      /\ UNCHANGED <<leaked, shut, db, calls, errors, crashes>>
  BY DEF ReturnOk, Holding
<1>2. /\ lock' \in [Callers -> Locks] /\ at' \in [Callers -> Places]
      /\ call' \in [Callers -> Call] /\ work' \in [Callers -> Loaded]
      /\ LockInv' /\ FreshInv' /\ WorkInv'
  BY <1>1, ReturnFacts
<1>3. Landed(c)
  BY <1>1 DEF IndInv, WorkInv
<1>4. call[c] \in Call /\ call[c].id \in Ids
      /\ (call[c].op = "resolve" => call[c].issue \in Ids)
  <2>1. call[c] \in Call /\ call[c].id \in Nat /\ calls \in Nat
    BY DEF IndInv, TypeOK, Call
  <2>2. /\ call[c].id # 0 /\ call[c].id <= calls /\ calls <= MaxCalls
        /\ (call[c].op = "resolve" => call[c].issue \in Ids)
    BY <1>1 DEF IndInv, FreshInv
  <2>3. call[c].id \in 1 .. MaxCalls
    BY <2>1, <2>2, PostgresAssumption
  <2> QED BY <2>1, <2>2, <2>3, PostgresAssumption
<1>5. told' \in [filed : SUBSET Ids, closed : SUBSET Ids, logged : SUBSET Ids] /\ ToldIsKept'
  <2>1. CASE call[c].op = "ensure"
    <3>1. told' = [told EXCEPT !.filed = @ \cup {call[c].issue}]
      BY <1>1, <2>1 DEF Answered
    <3> QED BY <1>1, <1>3, <2>1, <3>1 DEF Landed, ToldIsKept, IndInv, TypeOK
  <2>2. CASE call[c].op = "resolve"
    <3>1. told' = [told EXCEPT !.closed = @ \cup {call[c].issue}]
      BY <1>1, <2>2 DEF Answered
    <3> QED BY <1>1, <1>3, <1>4, <2>2, <3>1 DEF Landed, ToldIsKept, IndInv, TypeOK
  <2>3. CASE call[c].op = "log"
    <3>1. told' = [told EXCEPT !.logged = @ \cup {call[c].id}]
      BY <1>1, <2>3 DEF Answered
    <3> QED BY <1>1, <1>3, <1>4, <2>3, <3>1 DEF Landed, ToldIsKept, IndInv, TypeOK
  <2>4. CASE call[c].op = "close"
    <3>1. told' = told
      BY <1>1, <2>4 DEF Answered
    <3> QED BY <1>1, <3>1 DEF ToldIsKept, IndInv, TypeOK
  <2> QED BY <1>4, <2>1, <2>2, <2>3, <2>4 DEF Call, Ops
<1>6. TypeOK'
  BY <1>1, <1>2, <1>5 DEF IndInv, TypeOK
<1>7. RowsInv'
  BY <1>1 DEF IndInv, RowsInv, OneOpen, DecidedOnce, AuditOnce
<1> QED BY <1>2, <1>5, <1>6, <1>7 DEF IndInv

-----------------------------------------------------------------------------
\* The number of a Write inside is one of the IDs, and the row of it is free.
LEMMA OwnId ==
  ASSUME NEW c \in Callers, IndInv, lock[c] = "W"
  PROVE  /\ call[c] \in Call /\ call[c].id \in Ids
         /\ call[c].op = "resolve" => call[c].issue \in Ids
         /\ at[c] # "landed" => /\ db.issues.status[call[c].id] = "none"
                               /\ db.audit[call[c].id] = 0
<1>1. call[c] \in Call /\ call[c].id \in Nat /\ calls \in Nat
  BY DEF IndInv, TypeOK, Call
<1>2. /\ call[c].id # 0 /\ call[c].id <= calls /\ calls <= MaxCalls
      /\ (call[c].op = "resolve" => call[c].issue \in Ids)
  BY DEF IndInv, FreshInv
<1>3. call[c].id \in 1 .. MaxCalls
  BY <1>1, <1>2, PostgresAssumption
<1>4. call[c].id \in Ids
  BY <1>3, PostgresAssumption
<1> QED BY <1>1, <1>2, <1>4 DEF IndInv, FreshInv

\* fn(state) prepares the State of its transaction.
LEMMA ApplyFacts ==
  ASSUME NEW c \in Callers, IndInv, Apply(c)
  PROVE  /\ Prepared(c)' /\ call'[c] \in Call /\ work'[c] \in Loaded
         /\ call'[c].id = call[c].id /\ call'[c].op = call[c].op
         /\ call'[c].op = "resolve" => call'[c].issue \in Ids
         /\ \A d \in Callers : d # c => call'[d] = call[d] /\ work'[d] = work[d]
<1> DEFINE w == call[c]
<1>1. /\ lock[c] = "W" /\ work[c] = [issues |-> db.issues, audit |-> {}] /\ db' = db
      /\ db.issues \in Issues
  BY DEF Apply, Holding, IndInv, WorkInv, TypeOK, Rows
<1>2. w \in Call /\ w.id \in Ids /\ w.key \in Keys /\ (w.op = "resolve" => w.issue \in Ids)
  BY <1>1, OwnId DEF Call
<1>3. CASE /\ w.op = "ensure"
           /\ work' = [work EXCEPT ![c].issues = EnsureIssue(work[c].issues, w.id, w.key)]
           /\ call' = [call EXCEPT ![c].issue = Ensured(work[c].issues, w.id, w.key)]
  <2>1. work'[c] = [issues |-> EnsureIssue(db.issues, w.id, w.key), audit |-> {}]
    <3>1. work'[c] = [work[c] EXCEPT !.issues = EnsureIssue(work[c].issues, w.id, w.key)]
      BY <1>3 DEF IndInv, TypeOK
    <3> QED BY <1>1, <3>1
  <2>2. /\ call'[c].issue = Ensured(db.issues, w.id, w.key)
        /\ call'[c].id = w.id /\ call'[c].op = w.op /\ call'[c].key = w.key
    BY <1>1, <1>2, <1>3 DEF IndInv, TypeOK, Call
  <2>3. EnsureIssue(db.issues, w.id, w.key) \in Issues /\ Ensured(db.issues, w.id, w.key) \in Nat
    <3>1. EnsureIssue(db.issues, w.id, w.key) \in Issues /\ Ensured(db.issues, w.id, w.key) \in Ids
      BY <1>1, <1>2, EnsureFacts
    <3> QED BY <3>1, PostgresAssumption
  <2>4. call'[c] \in Call
    BY <1>1, <1>2, <1>3, <2>3 DEF IndInv, TypeOK, Call
  <2>5. work'[c] \in Loaded
    BY <2>1, <2>3 DEF Loaded
  <2> QED BY <1>1, <1>3, <2>1, <2>2, <2>4, <2>5 DEF Prepared, IndInv, TypeOK
<1>4. CASE /\ w.op = "resolve" /\ ~Refused(work[c].issues, w.issue)
           /\ work' = [work EXCEPT ![c].issues = ResolveIssue(work[c].issues, w.issue)]
           /\ call' = call
  <2>1. work'[c] = [issues |-> ResolveIssue(db.issues, w.issue), audit |-> {}]
    BY <1>1, <1>4 DEF IndInv, TypeOK
  <2>2. ResolveIssue(db.issues, w.issue) \in Issues
    BY <1>1, <1>2, <1>4, ResolveFacts
  <2>3. work'[c] \in Loaded
    BY <2>1, <2>2 DEF Loaded
  <2> QED BY <1>1, <1>2, <1>4, <2>1, <2>3 DEF Prepared, IndInv, TypeOK
<1>5. CASE /\ w.op = "log"
           /\ work' = [work EXCEPT ![c].audit = @ \cup {w.id}]
           /\ call' = call
  <2>1. work'[c] = [issues |-> db.issues, audit |-> {w.id}]
    <3>1. work'[c] = [work[c] EXCEPT !.audit = work[c].audit \cup {w.id}] /\ work[c] \in Loaded
      BY <1>5 DEF IndInv, TypeOK
    <3>2. work[c].issues = db.issues /\ work[c].audit \cup {w.id} = {w.id}
      BY ONLY <1>1
    <3>3. work'[c].issues = db.issues /\ work'[c].audit = {w.id}
      BY ONLY <3>1, <3>2 DEF Loaded
    <3>4. work'[c] = [issues |-> work'[c].issues, audit |-> work'[c].audit]
      BY <1>2, <3>1 DEF Loaded
    <3> QED BY ONLY <3>3, <3>4
  <2>2. work'[c] \in Loaded
    BY <1>1, <1>2, <2>1 DEF Loaded
  <2> QED BY <1>1, <1>2, <1>5, <2>1, <2>2 DEF Prepared, IndInv, TypeOK
<1> QED BY <1>3, <1>4, <1>5 DEF Apply

\* The steps of a transaction before it lands leave the rows alone.
LEMMA TxStepInd ==
  ASSUME NEW c \in Callers, IndInv, Begin(c) \/ Load(c) \/ Apply(c) \/ Persist(c)
  PROVE  IndInv'
<1>1. /\ UNCHANGED <<lock, leaked, shut, db, told, calls, errors, crashes>>
      /\ at[c] # "landed" /\ lock[c] \in {"R", "W"}
  BY DEF Begin, Load, Apply, Persist, Holding
<1>2. /\ at'[c] \in {"tx", "loaded", "changed", "commit"}
      /\ at'[c] # "tx" => lock[c] = "W"
      /\ \A d \in Callers : d # c => at'[d] = at[d]
      /\ at' \in [Callers -> Places]
  BY DEF Begin, Load, Apply, Persist, Holding, Goto, IndInv, TypeOK, Places
<1>3. /\ \A d \in Callers : d # c => call'[d] = call[d] /\ work'[d] = work[d]
      /\ call'[c].id = call[c].id /\ call'[c].op = call[c].op
      /\ call'[c].op = "resolve" => call'[c].issue \in Ids
      /\ call'[c] \in Call /\ work'[c] \in Loaded
      /\ call' = [d \in Callers |-> call'[d]] /\ work' = [d \in Callers |-> work'[d]]
  <2>1. CASE Begin(c) \/ Persist(c)
    BY <2>1 DEF Begin, Persist, local, IndInv, TypeOK, FreshInv
  <2>2. CASE Load(c)
    <3>1. db.issues \in Issues
      BY DEF IndInv, TypeOK, Rows
    <3>2. loadState \in Loaded
      BY <3>1 DEF loadState, Loaded
    <3> QED BY <2>2, <3>2 DEF Load, IndInv, TypeOK, FreshInv
  <2>3. CASE Apply(c)
    <3>1. call' = [d \in Callers |-> call'[d]] /\ work' = [d \in Callers |-> work'[d]]
      BY <2>3 DEF Apply, IndInv, TypeOK
    <3> QED BY <2>3, <3>1, ApplyFacts
  <2> QED BY <2>1, <2>2, <2>3
<1>4. TypeOK'
  <2>1. call' \in [Callers -> Call] /\ work' \in [Callers -> Loaded]
    BY <1>3 DEF IndInv, TypeOK
  <2> QED BY <1>1, <1>2, <2>1 DEF IndInv, TypeOK
<1>5. LockInv'
  BY <1>1, <1>2 DEF IndInv, LockInv
<1>6. FreshInv'
  <2>1. lock[c] = "W" => call[c].op # "close"
    BY DEF Begin, Load, Apply, Persist, Holding, IndInv, FreshInv
  <2>2. ASSUME NEW d \in Callers
        PROVE  /\ call'[d].id <= calls'
               /\ call'[d].id = 0 <=> lock'[d] \in {"none", "wantR", "R"}
               /\ lock'[d] = "W" /\ at'[d] # "out" => call'[d].op # "close"
               /\ call'[d].op = "resolve" => call'[d].issue \in Ids
    BY <1>1, <1>2, <1>3, <2>1 DEF IndInv, FreshInv
  <2>3. ASSUME NEW d \in Callers, NEW e \in Callers, call'[d].id = call'[e].id,
               call'[d].id # 0
        PROVE  d = e
    BY <1>3, <2>3 DEF IndInv, FreshInv
  <2>4. ASSUME NEW i \in Ids,
               i > calls' \/ (\E d \in Callers : call'[d].id = i /\ at'[d] # "landed")
        PROVE  db'.issues.status[i] = "none" /\ db'.audit[i] = 0
    BY <1>1, <1>2, <1>3, <2>4 DEF IndInv, FreshInv
  <2> QED BY <1>1, <2>2, <2>3, <2>4 DEF IndInv, FreshInv
<1>7. WorkInv'
  <2> SUFFICES ASSUME NEW d \in Callers
               PROVE  /\ at'[d] = "loaded" =>
                            work'[d] = [issues |-> db'.issues, audit |-> {}]
                      /\ at'[d] \in {"changed", "commit"} => Prepared(d)'
                      /\ at'[d] = "landed" => Landed(d)'
    BY DEF WorkInv
  <2>1. CASE d # c
    <3>1. at'[d] = at[d] /\ call'[d] = call[d] /\ work'[d] = work[d] /\ db' = db
      BY <1>1, <1>2, <1>3, <2>1
    <3> QED BY <3>1 DEF IndInv, WorkInv, Prepared, Landed
  <2>2. CASE d = c /\ Begin(c)
    BY <2>2 DEF Begin, Goto, IndInv, TypeOK
  <2>3. CASE d = c /\ Load(c)
    BY <2>3 DEF Load, Goto, loadState, IndInv, TypeOK
  <2>4. CASE d = c /\ Apply(c)
    BY <2>4, ApplyFacts DEF Apply, Goto, IndInv, TypeOK
  <2>5. CASE d = c /\ Persist(c)
    <3>1. at'[c] = "commit" /\ at[c] = "changed" /\ UNCHANGED <<call, work, db>>
      BY <2>5 DEF Persist, Holding, Goto, local, IndInv, TypeOK
    <3> QED BY <2>5, <3>1 DEF IndInv, WorkInv, Prepared
  <2> QED BY <2>1, <2>2, <2>3, <2>4, <2>5
<1>8. RowsInv' /\ ToldIsKept'
  BY <1>1 DEF IndInv, RowsInv, OneOpen, DecidedOnce, AuditOnce, ToldIsKept
<1> QED BY <1>4, <1>5, <1>6, <1>7, <1>8 DEF IndInv

-----------------------------------------------------------------------------
\* What landing does to the rows, by what the call is for.
LEMMA LandFacts ==
  ASSUME NEW c \in Callers, IndInv, Land(c)
  PROVE  /\ db'.issues \in Issues /\ db' \in Rows
         /\ \/ /\ call[c].op = "ensure" /\ db' = db
               /\ call[c].issue \in Ids /\ db.issues.status[call[c].issue] = "open"
            \/ /\ call[c].op = "ensure" /\ call[c].issue = call[c].id
               /\ \A j \in Ids : ~(/\ db.issues.status[j] = "open"
                                   /\ db.issues.key[j] = call[c].key)
               /\ db'.issues.status = [db.issues.status EXCEPT ![call[c].id] = "open"]
               /\ db'.issues.key = [db.issues.key EXCEPT ![call[c].id] = call[c].key]
               /\ db'.issues.decisions = db.issues.decisions
               /\ db'.audit = db.audit
            \/ /\ call[c].op = "resolve" /\ call[c].issue \in Ids
               /\ db.issues.status[call[c].issue] = "open"
               /\ db'.issues.status = [db.issues.status EXCEPT ![call[c].issue] = "resolved"]
               /\ db'.issues.key = db.issues.key
               /\ db'.issues.decisions = [db.issues.decisions EXCEPT ![call[c].issue] = @ + 1]
               /\ db'.audit = db.audit
            \/ /\ call[c].op = "log"
               /\ db'.issues = db.issues
               /\ db'.audit = [db.audit EXCEPT ![call[c].id] = 1]
<1> DEFINE w == call[c]
<1>1. /\ lock[c] = "W" /\ at[c] = "commit" /\ db' = persistState(work[c]) /\ Prepared(c)
      /\ db.issues \in Issues /\ db.audit \in [Ids -> Nat]
      /\ db = [issues |-> db.issues, audit |-> db.audit]
  BY DEF Land, Holding, IndInv, WorkInv, TypeOK, Rows
<1>2. w \in Call /\ w.id \in Ids /\ w.key \in Keys /\ (w.op = "resolve" => w.issue \in Ids)
      /\ db.audit[w.id] = 0
  BY <1>1, OwnId DEF Call
<1>3. db'.issues = work[c].issues
      /\ db'.audit = [i \in Ids |-> db.audit[i] + IF i \in work[c].audit THEN 1 ELSE 0]
      /\ db' = [issues |-> db'.issues, audit |-> db'.audit]
  BY <1>1 DEF persistState
<1>4. work[c].audit = {} => db'.audit = db.audit
  BY <1>1, <1>3
<1>5. CASE /\ w.op = "ensure"
           /\ work[c] = [issues |-> EnsureIssue(db.issues, w.id, w.key), audit |-> {}]
           /\ w.issue = Ensured(db.issues, w.id, w.key)
  <2>1. db'.issues = EnsureIssue(db.issues, w.id, w.key) /\ db'.audit = db.audit
    BY <1>3, <1>4, <1>5
  <2> DEFINE new == EnsureIssue(db.issues, w.id, w.key)
  <2>2. /\ new \in Issues
        /\ w.issue \in Ids
        /\ \/ /\ new = db.issues
              /\ db.issues.status[w.issue] = "open"
           \/ /\ \A j \in Ids : ~(db.issues.status[j] = "open" /\ db.issues.key[j] = w.key)
              /\ w.issue = w.id
              /\ new = [status |-> [db.issues.status EXCEPT ![w.id] = "open"],
                        key |-> [db.issues.key EXCEPT ![w.id] = w.key],
                        decisions |-> db.issues.decisions]
    <3> DEFINE own == Ensured(db.issues, w.id, w.key)
    <3>1. /\ new \in Issues /\ own \in Ids
          /\ \/ new = db.issues /\ db.issues.status[own] = "open"
             \/ /\ \A j \in Ids : ~(db.issues.status[j] = "open" /\ db.issues.key[j] = w.key)
                /\ own = w.id
                /\ new = [status |-> [db.issues.status EXCEPT ![w.id] = "open"],
                          key |-> [db.issues.key EXCEPT ![w.id] = w.key],
                          decisions |-> db.issues.decisions]
      BY ONLY <1>1, <1>2, EnsureFacts
    <3>2. w.issue = own
      BY <1>5
    <3> QED BY ONLY <3>1, <3>2
  <2>3. db' \in Rows
    BY <1>1, <1>3, <2>1, <2>2 DEF Rows
  <2>4. new = db.issues => db' = db
    BY <1>1, <1>3, <2>1
  <2> HIDE DEF new
  <2> QED BY <1>5, <2>1, <2>2, <2>3, <2>4 DEF new
<1>6. CASE /\ w.op = "resolve" /\ ~Refused(db.issues, w.issue)
           /\ work[c] = [issues |-> ResolveIssue(db.issues, w.issue), audit |-> {}]
  <2>1. db'.issues = ResolveIssue(db.issues, w.issue) /\ db'.audit = db.audit
    BY <1>3, <1>4, <1>6
  <2>2. db.issues.status[w.issue] = "open"
    BY <1>6 DEF Refused
  <2>3. /\ db'.issues \in Issues
        /\ db'.issues = [status |-> [db.issues.status EXCEPT ![w.issue] = "resolved"],
                         key |-> db.issues.key,
                         decisions |-> [db.issues.decisions EXCEPT ![w.issue] = @ + 1]]
    BY <1>1, <1>2, <1>6, <2>1, ResolveFacts
  <2>4. db' \in Rows
    BY <1>1, <1>3, <2>1, <2>3 DEF Rows
  <2> QED BY <1>2, <1>6, <2>1, <2>2, <2>3, <2>4
<1>7. CASE /\ w.op = "log"
           /\ work[c] = [issues |-> db.issues, audit |-> {w.id}]
  <2>1. db'.issues = db.issues
    BY <1>3, <1>7
  <2>2. db'.audit = [db.audit EXCEPT ![w.id] = 1]
    <3>1. db'.audit = [i \in Ids |-> db.audit[i] + IF i = w.id THEN 1 ELSE 0]
      BY <1>3, <1>7
    <3> QED BY <1>1, <1>2, <3>1
  <2>3. db' \in Rows
    BY <1>1, <1>3, <2>1, <2>2 DEF Rows
  <2> QED BY <1>1, <1>7, <2>1, <2>2, <2>3
<1> QED BY <1>1, <1>5, <1>6, <1>7 DEF Prepared

\* Rows only change when a Write lands, and then in what is free or open.
LEMMA LandInd == ASSUME NEW c \in Callers, IndInv, Land(c) PROVE IndInv'
<1> DEFINE w == call[c]
<1>1. /\ lock[c] = "W" /\ at[c] = "commit"
      /\ UNCHANGED <<lock, call, work, leaked, shut, told, calls, errors, crashes>>
      /\ at' = [at EXCEPT ![c] = "landed"]
  BY DEF Land, Holding, Goto, local
<1>2. /\ w \in Call /\ w.id \in Ids /\ w.key \in Keys
      /\ db.issues.status[w.id] = "none" /\ db.audit[w.id] = 0
  BY <1>1, OwnId DEF Call
<1>3. /\ at'[c] = "landed" /\ \A d \in Callers : d # c => at'[d] = at[d]
      /\ at' \in [Callers -> Places]
  BY <1>1 DEF IndInv, TypeOK, Places
<1>4. db.issues \in Issues /\ db.audit \in [Ids -> Nat]
      /\ db'.issues \in Issues /\ db' \in Rows
  BY LandFacts DEF IndInv, TypeOK, Rows
<1>5. \/ /\ w.op = "ensure" /\ db' = db
         /\ w.issue \in Ids /\ db.issues.status[w.issue] = "open"
      \/ /\ w.op = "ensure" /\ w.issue = w.id
         /\ \A j \in Ids : ~(db.issues.status[j] = "open" /\ db.issues.key[j] = w.key)
         /\ db'.issues.status = [db.issues.status EXCEPT ![w.id] = "open"]
         /\ db'.issues.key = [db.issues.key EXCEPT ![w.id] = w.key]
         /\ db'.issues.decisions = db.issues.decisions
         /\ db'.audit = db.audit
      \/ /\ w.op = "resolve" /\ w.issue \in Ids
         /\ db.issues.status[w.issue] = "open"
         /\ db'.issues.status = [db.issues.status EXCEPT ![w.issue] = "resolved"]
         /\ db'.issues.key = db.issues.key
         /\ db'.issues.decisions = [db.issues.decisions EXCEPT ![w.issue] = @ + 1]
         /\ db'.audit = db.audit
      \/ /\ w.op = "log" /\ db'.issues = db.issues
         /\ db'.audit = [db.audit EXCEPT ![w.id] = 1]
  BY LandFacts
<1>6. TypeOK'
  BY <1>1, <1>3, <1>4 DEF IndInv, TypeOK
<1>7. LockInv'
  BY <1>1, <1>3 DEF IndInv, LockInv
<1>8. FreshInv'
  <2>1. ASSUME NEW i \in Ids,
               i > calls' \/ (\E d \in Callers : call'[d].id = i /\ at'[d] # "landed")
        PROVE  db'.issues.status[i] = "none" /\ db'.audit[i] = 0
    <3>1. i # w.id
      <4>1. CASE i > calls
        <5>1. w.id <= calls /\ calls \in Nat /\ i \in Nat /\ w.id \in Nat
          BY PostgresAssumption DEF IndInv, FreshInv, TypeOK, Call
        <5> QED BY <4>1, <5>1
      <4>2. CASE \E d \in Callers : call[d].id = i /\ at'[d] # "landed"
        <5>1. \A j \in Ids : j # 0
          BY PostgresAssumption
        <5> QED BY <1>3, <4>2, <5>1 DEF IndInv, FreshInv
      <4> QED BY <1>1, <2>1, <4>1, <4>2
    <3>2. i > calls \/ (\E d \in Callers : call[d].id = i /\ at[d] # "landed")
      BY <1>1, <1>3, <2>1
    <3>3. db.issues.status[i] = "none" /\ db.audit[i] = 0
      BY <3>2 DEF IndInv, FreshInv
    <3> QED BY <1>4, <1>5, <3>1, <3>3 DEF Issues
  <2>2. \A d \in Callers : lock[d] = "W" /\ at'[d] # "out" => call[d].op # "close"
    BY <1>1, <1>3 DEF IndInv, FreshInv
  <2> QED BY <1>1, <2>1, <2>2 DEF IndInv, FreshInv
<1>9. WorkInv'
  <2> SUFFICES ASSUME NEW d \in Callers
               PROVE  /\ at'[d] = "loaded" =>
                            work'[d] = [issues |-> db'.issues, audit |-> {}]
                      /\ at'[d] \in {"changed", "commit"} => Prepared(d)'
                      /\ at'[d] = "landed" => Landed(d)'
    BY DEF WorkInv
  <2>1. CASE d # c
    BY <1>1, <1>3, <2>1 DEF IndInv, LockInv, TypeOK, Places
  <2>2. CASE d = c
    <3>1. Landed(c)'
      BY <1>1, <1>2, <1>4, <1>5 DEF Landed, Issues
    <3> QED BY <1>3, <2>2, <3>1
  <2> QED BY <2>1, <2>2
<1>10. RowsInv'
  <2>1. OneOpen'
    BY <1>2, <1>4, <1>5 DEF IndInv, RowsInv, OneOpen, Issues
  <2>2. DecidedOnce'
    <3> SUFFICES ASSUME NEW i \in Ids
                 PROVE  db'.issues.decisions[i] =
                            IF db'.issues.status[i] = "resolved" THEN 1 ELSE 0
      BY DEF DecidedOnce
    <3>1. db.issues.decisions[i] = IF db.issues.status[i] = "resolved" THEN 1 ELSE 0
      BY DEF IndInv, RowsInv, DecidedOnce
    <3> QED BY <1>2, <1>4, <1>5, <3>1 DEF Issues
  <2>3. AuditOnce'
    BY <1>2, <1>4, <1>5 DEF IndInv, RowsInv, AuditOnce
  <2> QED BY <2>1, <2>2, <2>3 DEF RowsInv
<1>11. ToldIsKept'
  <2> SUFFICES ASSUME NEW i \in Ids
               PROVE  /\ i \in told.filed => db'.issues.status[i] # "none"
                      /\ i \in told.closed => db'.issues.status[i] = "resolved"
                      /\ i \in told.logged => db'.audit[i] > 0
    BY <1>1 DEF ToldIsKept, IndInv, TypeOK
  <2>1. /\ i \in told.filed => db.issues.status[i] # "none"
        /\ i \in told.closed => db.issues.status[i] = "resolved"
        /\ i \in told.logged => db.audit[i] > 0
    BY DEF IndInv, ToldIsKept
  <2> QED BY <1>2, <1>4, <1>5, <2>1 DEF Issues
<1> QED BY <1>6, <1>7, <1>8, <1>9, <1>10, <1>11 DEF IndInv

\* After a crash nobody is inside, and the rows are as they were.
LEMMA CrashInd == IndInv /\ Crash => IndInv'
<1> SUFFICES ASSUME IndInv, Crash PROVE IndInv'
  OBVIOUS
<1> USE DEF IndInv, Crash
<1>1. TypeOK'
  <2>1. Empty \in Loaded
    BY KeysInhabited DEF Loaded, Empty, NoIssues, Issues
  <2>2. /\ lock' \in [Callers -> Locks] /\ at' \in [Callers -> Places]
        /\ call' \in [Callers -> Call] /\ work' \in [Callers -> Loaded]
    BY <2>1, KeysInhabited DEF Locks, Places
  <2>3. leaked' \in Nat /\ crashes' \in Nat
    BY DEF TypeOK
  <2>4. shut' \in BOOLEAN
    BY Zenon
  <2> QED BY <2>2, <2>3, <2>4 DEF TypeOK
<1>2. LockInv'
  BY DEF LockInv
<1>3. FreshInv'
  <2>1. NoCall.id = 0 /\ NoCall.op = "log" /\ calls \in Nat /\ \A i \in Ids : i # 0
    BY PostgresAssumption DEF NoCall, TypeOK
  <2>2. /\ \A d \in Callers : call'[d] = NoCall /\ lock'[d] = "none" /\ at'[d] = "out"
        /\ calls' = calls /\ db' = db
    OBVIOUS
  <2> QED BY <2>1, <2>2 DEF FreshInv
<1>4. WorkInv'
  BY DEF WorkInv
<1>5. RowsInv' /\ ToldIsKept'
  BY DEF RowsInv, OneOpen, DecidedOnce, AuditOnce, ToldIsKept
<1> QED BY <1>1, <1>2, <1>3, <1>4, <1>5

LEMMA NextInd == IndInv /\ [Next]_vars => IndInv'
<1> SUFFICES ASSUME IndInv, [Next]_vars PROVE IndInv'
  OBVIOUS
<1>1. CASE UNCHANGED vars
  BY <1>1 DEF vars, IndInv, TypeOK, LockInv, FreshInv, WorkInv, Prepared, Landed, RowsInv,
              OneOpen, DecidedOnce, AuditOnce, ToldIsKept
<1>2. ASSUME NEW c \in Callers, RLock(c) \/ CallWrite(c) \/ Announce(c) \/ Begin(c)
      PROVE  IndInv'
  BY <1>2, LockStepInd, TxStepInd
<1>3. ASSUME NEW c \in Callers, Inside(c) PROVE IndInv'
  BY <1>3, LockStepInd, TxStepInd, FailureInd, ReturnOkInd, LandInd DEF Inside
<1>4. CASE Crash
  BY <1>4, CrashInd
<1> QED BY <1>1, <1>2, <1>3, <1>4 DEF Next

-----------------------------------------------------------------------------
\* A step changes the rows only by landing; each landing is a step of the ledger or none.
LEMMA LedgerStep == IndInv /\ [Next]_vars => [Ledger!LNext]_(Ledger!lvars)
<1> SUFFICES ASSUME IndInv, [Next]_vars
             PROVE  Ledger!LNext \/ UNCHANGED Ledger!lvars
  OBVIOUS
<1>1. ASSUME NEW c \in Callers, Land(c)
      PROVE  Ledger!LNext \/ UNCHANGED Ledger!lvars
  <2> DEFINE w == call[c]
  <2>1. /\ w.id \in Ids /\ w.key \in Keys /\ db.issues.status[w.id] = "none"
    BY <1>1, OwnId DEF Land, Holding, Call
  <2>2. \/ /\ w.op = "ensure" /\ db' = db
        \/ /\ w.op = "ensure" /\ w.issue = w.id
           /\ \A j \in Ids : ~(db.issues.status[j] = "open" /\ db.issues.key[j] = w.key)
           /\ db'.issues.status = [db.issues.status EXCEPT ![w.id] = "open"]
           /\ db'.issues.key = [db.issues.key EXCEPT ![w.id] = w.key]
           /\ db'.issues.decisions = db.issues.decisions
        \/ /\ w.op = "resolve" /\ w.issue \in Ids
           /\ db.issues.status[w.issue] = "open"
           /\ db'.issues.status = [db.issues.status EXCEPT ![w.issue] = "resolved"]
           /\ db'.issues.key = db.issues.key
           /\ db'.issues.decisions = [db.issues.decisions EXCEPT ![w.issue] = @ + 1]
        \/ /\ w.op = "log" /\ db'.issues = db.issues
    BY <1>1, LandFacts
  <2>3. CASE \/ w.op = "ensure" /\ db' = db
             \/ w.op = "log" /\ db'.issues = db.issues
    BY <2>3 DEF Ledger!lvars
  <2>4. CASE /\ \A j \in Ids : ~(db.issues.status[j] = "open" /\ db.issues.key[j] = w.key)
             /\ db'.issues.status = [db.issues.status EXCEPT ![w.id] = "open"]
             /\ db'.issues.key = [db.issues.key EXCEPT ![w.id] = w.key]
             /\ db'.issues.decisions = db.issues.decisions
    <3>1. Ledger!File(w.id, w.key)
      BY <2>1, <2>4 DEF Ledger!File, Ledger!OpenOn
    <3> QED BY <2>1, <3>1 DEF Ledger!LNext
  <2>5. CASE /\ w.issue \in Ids
             /\ db.issues.status[w.issue] = "open"
             /\ db'.issues.status = [db.issues.status EXCEPT ![w.issue] = "resolved"]
             /\ db'.issues.key = db.issues.key
             /\ db'.issues.decisions = [db.issues.decisions EXCEPT ![w.issue] = @ + 1]
    <3>1. Ledger!Resolve(w.issue)
      BY <2>5 DEF Ledger!Resolve
    <3> QED BY <2>5, <3>1 DEF Ledger!LNext
  <2> QED BY <2>2, <2>3, <2>4, <2>5
<1>2. db' = db => UNCHANGED Ledger!lvars
  BY DEF Ledger!lvars
<1>3. ASSUME NEW c \in Callers, RLock(c) \/ CallWrite(c) \/ Announce(c) \/ Begin(c)
      PROVE  db' = db
  BY <1>3 DEF RLock, CallWrite, Announce, Begin
<1>4. ASSUME NEW c \in Callers, Inside(c), ~Land(c) PROVE db' = db
  BY <1>4 DEF Inside, Lock, ReturnClosed, Close, ReadReturns, Load, LoadFails, Apply, Refuse,
              Persist, PersistFails, CommitFails, ReturnOk, ReturnLost
<1>5. CASE Crash \/ UNCHANGED vars
  BY <1>2, <1>5 DEF Crash, vars
<1> QED BY <1>1, <1>2, <1>3, <1>4, <1>5 DEF Next

LEMMA LedgerInit == Init => Ledger!LInit
<1> SUFFICES ASSUME Init PROVE Ledger!LInit
  OBVIOUS
<1>1. db.issues = NoIssues(NoCall.key) /\ NoCall.key \in Keys
  BY KeysInhabited DEF Init
<1> QED BY <1>1 DEF Ledger!LInit, NoIssues

-----------------------------------------------------------------------------
(* The inductive invariant of the Postgres store: one writer, fresh numbers, *)
(* and a State that nobody else changes between load and commit.             *)
THEOREM Invariance == Spec => []IndInv
BY InitInd, NextInd, PTL DEF Spec

(* Every variable of the Postgres store keeps its type.                      *)
THEOREM TypeCorrect == Spec => []TypeOK
<1>1. IndInv => TypeOK
  BY DEF IndInv
<1> QED BY <1>1, Invariance, PTL

(* What a call was told stays, whatever fails, leaks or ends afterwards.     *)
THEOREM Told == Spec => []ToldIsKept
<1>1. IndInv => ToldIsKept
  BY DEF IndInv
<1> QED BY <1>1, Invariance, PTL

(* There is never more than one open issue of an item and a type, also when  *)
(* the answer to a COMMIT was lost and EnsureIssue is repeated.              *)
THEOREM OneOpenIssue == Spec => []OneOpen
<1>1. IndInv => OneOpen
  BY DEF IndInv, RowsInv
<1> QED BY <1>1, Invariance, PTL

(* An issue is resolved exactly when it has its one adjudication event.      *)
THEOREM OneDecision == Spec => []DecidedOnce
<1>1. IndInv => DecidedOnce
  BY DEF IndInv, RowsInv
<1> QED BY <1>1, Invariance, PTL

(* No audit entry is ever in the table twice, although every Write inserts   *)
(* the entries of its State anew.                                            *)
THEOREM OneAuditRow == Spec => []AuditOnce
<1>1. IndInv => AuditOnce
  BY DEF IndInv, RowsInv
<1> QED BY <1>1, Invariance, PTL

(* Adjudication on the Postgres store implements IssueLedger.                *)
THEOREM Implements == Spec => ImplementsLedger
<1>1. Spec => Ledger!LInit /\ [][Ledger!LNext]_(Ledger!lvars)
  BY LedgerInit, LedgerStep, Invariance, PTL DEF Spec
<1> QED BY <1>1, PTL DEF ImplementsLedger, Ledger!LSpec

-----------------------------------------------------------------------------
(* The pool and the waiting.                                                 *)

(* The half of CallReturns that needs no fairness: while a call is in        *)
(* progress and a connection is left, some goroutine can take its next step. *)
(* Locks and connections are taken in one order, p.mu first (Read and        *)
(* Write), so they never wait for each other in a circle; only leaked        *)
(* connections can stop the store.                                           *)
CanStep(c) ==
    \/ lock[c] = "wantW" /\ Writers = {}
    \/ lock[c] = "draining" /\ \A d \in Callers : lock[d] # "R"
    \/ /\ lock[c] \in {"R", "W"}
       /\ \/ at[c] # "out" \/ shut \/ call[c].op = "close"
          \/ Cardinality(InTx) + leaked < PoolSize

NobodyStuck ==
    leaked < PoolSize /\ (\E c \in Callers : lock[c] # "none")
        => \E c \in Callers : CanStep(c)

(* The pool is never overdrawn, and a connection is lost only to an error:   *)
(* transactions in progress and leaked ones fit in it (BeginTxx, and Commit  *)
(* or Rollback or neither in Write).                                         *)
PoolKept == /\ Cardinality(InTx) + leaked <= PoolSize
            /\ leaked <= errors

\* A reader waits behind a writer only; a call that is no Write has no purpose.
WaitInv == \A c \in Callers : /\ lock[c] = "wantR" => Writers # {}
                              /\ lock[c] \in {"none", "wantR", "R"} => call[c] = NoCall

\* Every way in which a call can end.
Ends(c) == \/ ReturnClosed(c) \/ Close(c) \/ ReadReturns(c) \/ LoadFails(c) \/ Refuse(c)
           \/ PersistFails(c) \/ CommitFails(c) \/ ReturnOk(c) \/ ReturnLost(c)

LEMMA EndsReturn ==
  ASSUME NEW c \in Callers, Ends(c) PROVE Return(c) /\ lock[c] \in {"R", "W"}
BY DEF Ends, ReturnClosed, Close, ReadReturns, LoadFails, Refuse, PersistFails, CommitFails,
       ReturnOk, ReturnLost, Holding

LEMMA WaitInit == Init => WaitInv
BY DEF Init, WaitInv

\* A writer goes away only where it wakes the readers behind it.
LEMMA WaitNext == ASSUME IndInv, WaitInv, [Next]_vars PROVE WaitInv'
<1>0. lock \in [Callers -> Locks] /\ call \in [Callers -> Call]
  BY DEF IndInv, TypeOK
<1> DEFINE Waits(d) == /\ lock[d] = "wantR" => Writers # {}
                       /\ lock[d] \in {"none", "wantR", "R"} => call[d] = NoCall
<1>1. ASSUME NEW c \in Callers, RLock(c) \/ CallWrite(c) \/ Announce(c) \/ Lock(c),
             NEW d \in Callers
      PROVE  Waits(d)'
  <2>1. /\ \A e \in Callers : e \in Writers => e \in Writers'
        /\ d # c => lock'[d] = lock[d] /\ call'[d] = call[d]
    BY <1>0, <1>1 DEF Writers, RLock, CallWrite, Announce, Lock, Hold, local
  <2>2. Writers # {} => Writers' # {}
    BY <2>1 DEF Writers
  <2>3. CASE d # c
    BY <2>1, <2>2, <2>3 DEF WaitInv
  <2>4. CASE d = c /\ RLock(c)
    BY <1>0, <2>2, <2>4 DEF WaitInv, RLock, Hold, local
  <2>5. CASE d = c /\ ~RLock(c)
    BY <1>0, <1>1, <2>5 DEF CallWrite, Announce, Lock, Hold
  <2> QED BY <2>3, <2>4, <2>5
<1>2. ASSUME NEW c \in Callers, Begin(c) \/ Load(c) \/ Apply(c) \/ Persist(c) \/ Land(c),
             NEW d \in Callers
      PROVE  Waits(d)'
  <2>1. lock' = lock /\ (call'[d] = call[d] \/ lock[d] = "W")
    BY <1>0, <1>2 DEF Begin, Load, Apply, Persist, Land, Holding, local
  <2> QED BY <2>1 DEF WaitInv, Writers
<1>3. ASSUME NEW c \in Callers, Ends(c), NEW d \in Callers PROVE Waits(d)'
  <2>1. Return(c) /\ lock[c] \in {"R", "W"}
    BY <1>3, EndsReturn
  <2>2. CASE d = c
    BY <1>0, <2>1, <2>2 DEF Return
  <2>3. CASE d # c /\ lock[c] = "W"
    BY <1>0, <2>1, <2>3 DEF Return, WaitInv
  <2>4. CASE d # c /\ lock[c] = "R"
    <3>1. \A e \in Callers : e # c => lock'[e] = lock[e] /\ call'[e] = call[e]
      BY <1>0, <2>1, <2>4 DEF Return
    <3>2. Writers # {} => Writers' # {}
      BY <2>4, <3>1 DEF Writers
    <3> QED BY <2>4, <3>1, <3>2 DEF WaitInv
  <2> QED BY <2>1, <2>2, <2>3, <2>4
<1>4. ASSUME Crash, NEW d \in Callers PROVE Waits(d)'
  BY <1>4 DEF Crash
<1>5. ASSUME UNCHANGED vars, NEW d \in Callers PROVE Waits(d)'
  BY <1>5 DEF vars, WaitInv, Writers
<1> HIDE DEF Waits
<1>6. \A d \in Callers : Waits(d)'
  BY <1>1, <1>2, <1>3, <1>4, <1>5 DEF Next, Inside, Ends
<1> QED BY <1>6 DEF WaitInv, Waits

\* In a transaction nobody waits; before one, only for the pool, which is free then.
LEMMA SomeoneSteps == IndInv /\ WaitInv => NobodyStuck
<1> SUFFICES ASSUME IndInv, WaitInv, leaked < PoolSize, NEW c \in Callers, lock[c] # "none"
             PROVE  \E d \in Callers : CanStep(d)
  BY DEF NobodyStuck
<1>0. lock[c] \in Locks /\ leaked \in Nat
  BY DEF IndInv, TypeOK
<1>1. ASSUME NEW d \in Callers, lock[d] \in {"R", "W"} PROVE \E e \in Callers : CanStep(e)
  <2>1. CASE InTx # {}
    <3>1. PICK e \in Callers : at[e] # "out"
      BY <2>1 DEF InTx
    <3> QED BY <3>1 DEF CanStep, IndInv, LockInv
  <2>2. CASE InTx = {}
    <3>1. Cardinality(InTx) = 0
      BY <2>2, FS_EmptySet
    <3>2. Cardinality(InTx) + leaked < PoolSize
      BY <1>0, <3>1
    <3> QED BY <1>1, <3>2 DEF CanStep
  <2> QED BY <2>1, <2>2
<1>2. CASE \E d \in Callers : lock[d] \in {"R", "W"}
  BY <1>1, <1>2
<1>3. CASE ~ \E d \in Callers : lock[d] \in {"R", "W"}
  <2>1. CASE Writers # {}
    <3>1. PICK d \in Callers : lock[d] = "draining"
      BY <1>3, <2>1 DEF Writers
    <3> QED BY <1>3, <3>1 DEF CanStep
  <2>2. CASE Writers = {}
    <3>1. lock[c] \notin {"R", "W", "draining", "wantR"}
      BY <1>3, <2>2 DEF WaitInv, Writers
    <3>2. lock[c] = "wantW"
      BY <1>0, <3>1 DEF Locks
    <3> QED BY <2>2, <3>2 DEF CanStep
  <2> QED BY <2>1, <2>2
<1> QED BY <1>2, <1>3

(* As long as a connection is left, calls never wait for each other in a     *)
(* circle: not for the mutex, not for the pool, not one for the other.       *)
THEOREM NoCircle == Spec => []NobodyStuck
<1>1. Init => WaitInv
  BY WaitInit
<1>2. IndInv /\ WaitInv /\ [Next]_vars => WaitInv'
  BY WaitNext
<1>3. IndInv /\ WaitInv => NobodyStuck
  BY SomeoneSteps
<1> QED BY <1>1, <1>2, <1>3, Invariance, PTL DEF Spec

\* Transactions in progress are finitely many, whatever Callers is.
PoolInv == IsFiniteSet(InTx) /\ PoolKept

LEMMA PoolInit == Init => PoolInv
<1> SUFFICES ASSUME Init PROVE PoolInv
  OBVIOUS
<1>1. InTx = {}
  BY DEF Init, InTx
<1>2. IsFiniteSet(InTx) /\ Cardinality(InTx) = 0
  BY <1>1, FS_EmptySet
<1>3. leaked = 0 /\ errors = 0
  BY DEF Init
<1> QED BY <1>2, <1>3, PostgresAssumption DEF PoolInv, PoolKept

\* One goroutine comes into a transaction or goes out of one in a step, or all at a crash.
LEMMA PoolNext == ASSUME IndInv, PoolInv, [Next]_vars PROVE PoolInv'
<1>0. /\ at \in [Callers -> Places] /\ leaked \in Nat /\ errors \in Nat
      /\ Cardinality(InTx) \in Nat /\ IsFiniteSet(InTx) /\ PoolSize \in Nat
      /\ Cardinality(InTx) + leaked <= PoolSize /\ leaked <= errors
  BY FS_CardinalityType, PostgresAssumption DEF IndInv, TypeOK, PoolInv, PoolKept
<1>1. ASSUME NEW c \in Callers, Begin(c) PROVE PoolInv'
  <2>1. InTx' = InTx \cup {c}
    BY <1>0, <1>1 DEF Begin, Goto, InTx
  <2>2. c \notin InTx /\ UNCHANGED <<leaked, errors>> /\ Cardinality(InTx) + leaked < PoolSize
    BY <1>1 DEF Begin, InTx
  <2>3. IsFiniteSet(InTx') /\ Cardinality(InTx') = Cardinality(InTx) + 1
    BY <1>0, <2>1, <2>2, FS_AddElement
  <2> QED BY <1>0, <2>2, <2>3 DEF PoolInv, PoolKept
<1>2. ASSUME NEW c \in Callers, Ends(c) PROVE PoolInv'
  <2>1. InTx' = InTx \ {c}
    BY <1>0, <1>2, EndsReturn DEF Return, InTx
  <2>2. /\ IsFiniteSet(InTx')
        /\ Cardinality(InTx') = IF c \in InTx THEN Cardinality(InTx) - 1 ELSE Cardinality(InTx)
    BY <1>0, <2>1, FS_RemoveElement
  <2>3. \/ leaked' = leaked /\ errors' \in {errors, errors + 1}
        \/ leaked' = leaked + 1 /\ errors' = errors + 1 /\ c \in InTx
    BY <1>2 DEF Ends, ReturnClosed, Close, ReadReturns, LoadFails, Refuse, PersistFails,
                CommitFails, ReturnOk, ReturnLost, Holding, Fail, InTx
  <2> QED BY <1>0, <2>2, <2>3 DEF PoolInv, PoolKept
<1>3. ASSUME NEW c \in Callers,
             \/ RLock(c) \/ CallWrite(c) \/ Announce(c) \/ Lock(c)
             \/ Load(c) \/ Apply(c) \/ Persist(c) \/ Land(c)
      PROVE  PoolInv'
  <2>1. UNCHANGED <<leaked, errors>>
    BY <1>3 DEF RLock, CallWrite, Announce, Lock, Load, Apply, Persist, Land
  <2>2. InTx' = InTx
    BY <1>0, <1>3 DEF InTx, RLock, CallWrite, Announce, Lock, Load, Apply, Persist, Land,
                      Holding, Goto
  <2> QED BY <2>1, <2>2 DEF PoolInv, PoolKept
<1>4. CASE Crash
  <2>1. InTx' = {} /\ leaked' = 0 /\ errors' = errors
    BY <1>4 DEF Crash, InTx
  <2>2. IsFiniteSet(InTx') /\ Cardinality(InTx') = 0
    BY <2>1, FS_EmptySet
  <2> QED BY <1>0, <2>1, <2>2 DEF PoolInv, PoolKept
<1>5. CASE UNCHANGED vars
  BY <1>5 DEF vars, PoolInv, PoolKept, InTx
<1> QED BY <1>1, <1>2, <1>3, <1>4, <1>5 DEF Next, Inside, Ends

(* Transactions in progress and connections nobody will give back fit in the *)
(* pool, and there are no more of the latter than failed statements.         *)
THEOREM PoolFits == Spec => []PoolKept
<1>1. PoolInv => PoolKept
  BY DEF PoolInv
<1>2. IndInv /\ PoolInv /\ [Next]_vars => PoolInv'
  BY PoolNext
<1> QED BY PoolInit, <1>1, <1>2, Invariance, PTL DEF Spec

\* How many steps a call still takes at most: two or three for the lock, and six from
\* BeginTxx to the answer of Commit.
StepsLeft(c) ==
    CASE lock[c] = "none" -> 0
      [] lock[c] = "wantW" -> 8
      [] lock[c] \in {"wantR", "draining"} -> 7
      [] lock[c] \in {"R", "W"} ->
             [out |-> 6, tx |-> 5, loaded |-> 4, changed |-> 3, commit |-> 2, landed |-> 1][at[c]]

(* No call goes back: whatever a goroutine does, every other call keeps its  *)
(* place or comes closer to its end, and a call that moves comes closer      *)
(* (Write and Read begin one transaction and never try again).               *)
CallEnds ==
    [][\A c \in Callers :
          lock[c] # "none" => StepsLeft(c)' < StepsLeft(c) \/ UNCHANGED <<lock[c], at[c]>>]_vars

LEMMA OwnStepShrinks ==
  ASSUME IndInv, NEW c \in Callers, lock[c] # "none",
         Announce(c) \/ Lock(c) \/ Begin(c) \/ Load(c) \/ Apply(c) \/ Persist(c) \/ Land(c)
  PROVE  StepsLeft(c)' < StepsLeft(c)
<1>0. lock \in [Callers -> Locks] /\ at \in [Callers -> Places]
  BY DEF IndInv, TypeOK
<1>1. CASE Announce(c)
  <2>1. lock[c] = "wantW" /\ lock'[c] = "draining"
    BY <1>0, <1>1 DEF Announce, Hold
  <2> QED BY <2>1 DEF StepsLeft
<1>2. CASE Lock(c)
  <2>1. lock[c] = "draining" /\ lock'[c] = "W" /\ at'[c] = at[c]
    BY <1>0, <1>2 DEF Lock, Hold
  <2>2. at[c] = "out"
    BY <2>1 DEF IndInv, LockInv
  <2> QED BY <2>1, <2>2 DEF StepsLeft
<1>3. CASE Begin(c) \/ Load(c) \/ Apply(c) \/ Persist(c) \/ Land(c)
  <2>1. /\ lock[c] \in {"R", "W"} /\ lock'[c] = lock[c]
        /\ \/ at[c] = "out" /\ at'[c] = "tx"
           \/ at[c] = "tx" /\ at'[c] = "loaded"
           \/ at[c] = "loaded" /\ at'[c] = "changed"
           \/ at[c] = "changed" /\ at'[c] = "commit"
           \/ at[c] = "commit" /\ at'[c] = "landed"
    BY <1>0, <1>3 DEF Begin, Load, Apply, Persist, Land, Holding, Goto
  <2> QED BY <2>1 DEF StepsLeft
<1> QED BY <1>1, <1>2, <1>3

(* A call takes at most eight steps of its own, and none of them is undone   *)
(* or made longer by another goroutine: with NoCircle, what CallReturns      *)
(* needs beside fairness.                                                    *)
THEOREM CallIsBounded == Spec => CallEnds
<1> DEFINE Shrinks(c) == StepsLeft(c)' < StepsLeft(c) \/ UNCHANGED <<lock[c], at[c]>>
<1>1. ASSUME IndInv, [Next]_vars, NEW c \in Callers, lock[c] # "none" PROVE Shrinks(c)
  <2>0. lock \in [Callers -> Locks] /\ at \in [Callers -> Places]
    BY <1>1 DEF IndInv, TypeOK
  <2>1. lock'[c] = "none" => StepsLeft(c)' < StepsLeft(c)
    <3>1. lock[c] \in Locks \ {"none"} /\ at[c] \in Places
      BY <1>1, <2>0
    <3>2. StepsLeft(c) \in 1..8
      BY <3>1 DEF StepsLeft, Locks, Places
    <3>3. lock'[c] = "none" => StepsLeft(c)' = 0
      BY DEF StepsLeft
    <3> QED BY <3>2, <3>3
  <2>2. ASSUME NEW d \in Callers,
               \/ RLock(d) \/ CallWrite(d) \/ Announce(d) \/ Lock(d) \/ Begin(d)
               \/ Load(d) \/ Apply(d) \/ Persist(d) \/ Land(d)
        PROVE  Shrinks(c)
    <3>1. CASE d = c
      <4>1. ~RLock(d) /\ ~CallWrite(d)
        BY <1>1, <3>1 DEF RLock, CallWrite
      <4> QED BY <1>1, <2>2, <3>1, <4>1, OwnStepShrinks
    <3>2. CASE d # c
      BY <2>0, <2>2, <3>2 DEF RLock, CallWrite, Announce, Lock, Begin, Load, Apply, Persist, Land,
                              Hold, Goto
    <3> QED BY <3>1, <3>2
  <2>3. ASSUME NEW d \in Callers, Ends(d) PROVE Shrinks(c)
    <3>1. Return(d)
      BY <2>3, EndsReturn
    <3>2. CASE d = c
      <4>1. lock'[c] = "none"
        BY <3>1, <3>2 DEF Return
      <4> QED BY <2>1, <4>1
    <3>3. CASE d # c /\ lock'[c] = lock[c]
      BY <2>0, <3>1, <3>3 DEF Return
    <3>4. CASE d # c /\ lock'[c] # lock[c]
      <4>1. lock[c] = "wantR" /\ lock'[c] = "R" /\ at'[c] = at[c]
        BY <2>0, <3>1, <3>4 DEF Return
      <4>2. at[c] = "out"
        BY <1>1, <4>1 DEF IndInv, LockInv
      <4> QED BY <4>1, <4>2 DEF StepsLeft
    <3> QED BY <3>2, <3>3, <3>4
  <2>4. CASE Crash
    <3>1. lock'[c] = "none"
      BY <2>4 DEF Crash
    <3> QED BY <2>1, <3>1
  <2>5. CASE UNCHANGED vars
    BY <2>5 DEF vars
  <2> HIDE DEF Shrinks
  <2> QED BY <1>1, <2>2, <2>3, <2>4, <2>5 DEF Next, Inside, Ends
<1>2. IndInv /\ [Next]_vars => [\A c \in Callers : lock[c] # "none" => Shrinks(c)]_vars
  BY <1>1
<1> QED BY <1>2, Invariance, PTL DEF Spec, CallEnds

-----------------------------------------------------------------------------
(* What IssueLedger itself promises, by its own two actions.                 *)

LEMMA AbstractInit == Ledger!LInit => Ledger!LInv
BY DEF Ledger!LInit, Ledger!LInv, Ledger!OpenOn

LEMMA AbstractNext ==
  Ledger!LInv /\ [Ledger!LNext]_(Ledger!lvars) => Ledger!LInv'
<1> SUFFICES ASSUME Ledger!LInv, [Ledger!LNext]_(Ledger!lvars) PROVE Ledger!LInv'
  OBVIOUS
<1>1. ASSUME NEW i \in Ids, Ledger!Resolve(i) PROVE Ledger!LInv'
  BY <1>1 DEF Ledger!Resolve, Ledger!LInv, Ledger!OpenOn
<1>2. ASSUME NEW i \in Ids, NEW k \in Keys, Ledger!File(i, k) PROVE Ledger!LInv'
  BY <1>2 DEF Ledger!File, Ledger!LInv, Ledger!OpenOn
<1>3. CASE UNCHANGED Ledger!lvars
  BY <1>3 DEF Ledger!lvars, Ledger!LInv, Ledger!OpenOn
<1> QED BY <1>1, <1>2, <1>3 DEF Ledger!LNext

(* In the abstract ledger no key has two open issues, and no issue has two   *)
(* decisions, or one before it is resolved.                                  *)
THEOREM AbstractLedger == Ledger!LSpec => []Ledger!LInv
BY AbstractInit, AbstractNext, PTL DEF Ledger!LSpec
=============================================================================
