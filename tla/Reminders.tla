------------------------------ MODULE Reminders ------------------------------
(* internal/reminders/service.go, Run, and its handler runReminders          *)
(* (internal/http/server.go), over a store in file mode.  Run collects the   *)
(* items to remind of, and marks them, inside Store.Read: goroutines that    *)
(* read are not excluded from one another, so every look at the map and      *)
(* every mark is a step.  Then it sends one mail after the other and writes  *)
(* an audit entry for each; only such a Write brings the marks to the disk.  *)
EXTENDS Integers, FiniteSets

CONSTANTS Runs,          \* calls of POST /api/cron/reminders in progress
          Items,         \* evidence items with an owner's address
          Expiry,        \* [Items -> Int] the tick each item expires at
          RemindBefore,  \* reminder_days_before of every item
          LastTick,      \* bound: the last tick of the clock
          MaxCalls,      \* bound: calls of Run
          MaxCrashes,    \* bound: ends of the process
          MaxFailures    \* bound: mails that cannot be sent

ASSUME RemindersAssumption ==
    /\ Items # {} /\ IsFiniteSet(Items) /\ IsFiniteSet(Runs)
    /\ Expiry \in [Items -> Int]
    /\ RemindBefore \in Nat
    /\ LastTick \in Nat /\ MaxCalls \in Nat /\ MaxCrashes \in Nat /\ MaxFailures \in Nat

TicksPerDay == 2               \* midnight and noon UTC
Ticks == 0 .. LastTick
DayOf(t) == t \div TicksPerDay
Days == 0 .. DayOf(LastTick)
Keys == Items \X Days          \* the keys of ReminderSent: item.ID:day

VARIABLES
    now,        \* time.Now()
    marked,     \* ReminderSent in memory
    saved,      \* ReminderSent as reminder_logs.json has it
    pc,         \* [Runs -> Pc] where each Run is
    at,         \* [Runs -> Ticks] nowUTC of a Run, read when it started
    todo,       \* [Runs -> SUBSET Items] items the collection has not looked at
    queue,      \* [Runs -> SUBSET Items] toSend
    cur,        \* [Runs -> Items] the item looked at, or being mailed
    ok,         \* [Runs -> BOOLEAN] how Send ended for cur
    mails,      \* [Keys -> Nat] reminders delivered
    failures,   \* [Keys -> Nat] mails the adapter refused
    logSent,    \* [Keys -> Nat] audit entries with status sent
    logFailed,  \* [Keys -> Nat] audit entries with status failed
    calls, crashes

local == <<at, todo, queue, cur, ok>>
vars  == <<now, marked, saved, pc, at, todo, queue, cur, ok,
           mails, failures, logSent, logFailed, calls, crashes>>

Pcs == {"idle", "collect", "mark", "send", "log", "record"}

None == [k \in Keys |-> 0]

TypeOK == /\ now \in Ticks
          /\ marked \subseteq Keys
          /\ saved \subseteq Keys
          /\ pc \in [Runs -> Pcs]
          /\ at \in [Runs -> Ticks]
          /\ todo \in [Runs -> SUBSET Items]
          /\ queue \in [Runs -> SUBSET Items]
          /\ cur \in [Runs -> Items]
          /\ ok \in [Runs -> BOOLEAN]
          /\ mails \in [Keys -> Nat]
          /\ failures \in [Keys -> Nat]
          /\ logSent \in [Keys -> Nat]
          /\ logFailed \in [Keys -> Nat]
          /\ calls \in Nat /\ crashes \in Nat

AnyItem == CHOOSE i \in Items : TRUE

Each(v) == [r \in Runs |-> v]

Init == /\ now = 0
        /\ marked = {}
        /\ saved = {}
        /\ pc = Each("idle") /\ at = Each(0)
        /\ todo = Each({}) /\ queue = Each({})
        /\ cur = Each(AnyItem) /\ ok = Each(FALSE)
        /\ mails = None /\ failures = None
        /\ logSent = None /\ logFailed = None
        /\ calls = 0 /\ crashes = 0

\* Mutant of Due: an expired item is not told from one that expires today.
DueExpired(i, t) == Expiry[i] <= t + RemindBefore * TicksPerDay

\* Mutant of Due: the last day of the window is left out.
DueTooLate(i, t) == Expiry[i] >= t /\ Expiry[i] < t + RemindBefore * TicksPerDay

\* Whether a Run whose nowUTC is t reminds of item i: neither expired before
\* t nor expiring later than RemindBefore days after t.
Due(i, t) == Expiry[i] >= t /\ Expiry[i] <= t + RemindBefore * TicksPerDay

Day(r) == DayOf(at[r])
Key(r) == <<cur[r], Day(r)>>

\* No Read is in progress, so a Write gets the lock.
NoReader == \A r \in Runs : pc[r] \notin {"collect", "mark"}

Bump(f, k) == [f EXCEPT ![k] = @ + 1]

-----------------------------------------------------------------------------
\* time.Now() is read once; then Store.Read.
Start(r) == /\ pc[r] = "idle"
            /\ calls < MaxCalls
            /\ calls' = calls + 1
            /\ at' = [at EXCEPT ![r] = now]
            /\ todo' = [todo EXCEPT ![r] = Items]
            /\ pc' = [pc EXCEPT ![r] = "collect"]
            /\ UNCHANGED <<now, marked, saved, queue, cur, ok, mails, failures,
                           logSent, logFailed, crashes>>

\* Mutant of Check: the lookup in ReminderSent is missing.
CheckUnmarked(r) ==
    /\ pc[r] = "collect"
    /\ \E i \in todo[r] :
          /\ todo' = [todo EXCEPT ![r] = @ \ {i}]
          /\ cur' = [cur EXCEPT ![r] = i]
          /\ pc' = [pc EXCEPT ![r] = IF Due(i, at[r]) THEN "mark" ELSE "collect"]
    /\ UNCHANGED <<now, marked, saved, at, queue, ok, mails, failures,
                   logSent, logFailed, calls, crashes>>

\* One item of the two nested loops: is it due, and not marked for the day?
Check(r) ==
    /\ pc[r] = "collect"
    /\ \E i \in todo[r] :
          /\ todo' = [todo EXCEPT ![r] = @ \ {i}]
          /\ cur' = [cur EXCEPT ![r] = i]
          /\ pc' = [pc EXCEPT ![r] =
                       IF Due(i, at[r]) /\ <<i, Day(r)>> \notin marked
                       THEN "mark" ELSE "collect"]
    /\ UNCHANGED <<now, marked, saved, at, queue, ok, mails, failures,
                   logSent, logFailed, calls, crashes>>

\* Mutant of Mark: an item is marked and not appended to toSend.
MarkOnly(r) == /\ pc[r] = "mark"
               /\ marked' = marked \cup {Key(r)}
               /\ pc' = [pc EXCEPT ![r] = "collect"]
               /\ UNCHANGED <<now, saved, at, todo, queue, cur, ok, mails, failures,
                              logSent, logFailed, calls, crashes>>

\* st.ReminderSent[k] = struct{}{}; toSend = append(toSend, item).
Mark(r) == /\ pc[r] = "mark"
           /\ marked' = marked \cup {Key(r)}
           /\ queue' = [queue EXCEPT ![r] = @ \cup {cur[r]}]
           /\ pc' = [pc EXCEPT ![r] = "collect"]
           /\ UNCHANGED <<now, saved, at, todo, cur, ok, mails, failures,
                          logSent, logFailed, calls, crashes>>

\* The function passed to Read returns.
Collected(r) == /\ pc[r] = "collect"
                /\ todo[r] = {}
                /\ pc' = [pc EXCEPT ![r] = "send"]
                /\ UNCHANGED <<now, marked, saved, local, mails, failures,
                               logSent, logFailed, calls, crashes>>

-----------------------------------------------------------------------------
\* email.Send for the next item of toSend.
Send(r) == /\ pc[r] = "send"
           /\ \E i \in queue[r] :
                 /\ queue' = [queue EXCEPT ![r] = @ \ {i}]
                 /\ cur' = [cur EXCEPT ![r] = i]
                 /\ mails' = Bump(mails, <<i, Day(r)>>)
           /\ ok' = [ok EXCEPT ![r] = TRUE]
           /\ pc' = [pc EXCEPT ![r] = "log"]
           /\ UNCHANGED <<now, marked, saved, at, todo, failures,
                          logSent, logFailed, calls, crashes>>

\* Mutant of SendFails: the error of Send is dropped.
SendFailsUnseen(r) ==
    /\ pc[r] = "send"
    /\ \E i \in queue[r] :
          /\ queue' = [queue EXCEPT ![r] = @ \ {i}]
          /\ cur' = [cur EXCEPT ![r] = i]
          /\ failures' = Bump(failures, <<i, Day(r)>>)
    /\ ok' = [ok EXCEPT ![r] = TRUE]
    /\ pc' = [pc EXCEPT ![r] = "log"]
    /\ UNCHANGED <<now, marked, saved, at, todo, mails,
                   logSent, logFailed, calls, crashes>>

\* The adapter returns an error: the item keeps its mark for the day.
SendFails(r) ==
    /\ pc[r] = "send"
    /\ \E i \in queue[r] :
          /\ failures[<<i, Day(r)>>] < MaxFailures
          /\ queue' = [queue EXCEPT ![r] = @ \ {i}]
          /\ cur' = [cur EXCEPT ![r] = i]
          /\ failures' = Bump(failures, <<i, Day(r)>>)
    /\ ok' = [ok EXCEPT ![r] = FALSE]
    /\ pc' = [pc EXCEPT ![r] = "log"]
    /\ UNCHANGED <<now, marked, saved, at, todo, mails,
                   logSent, logFailed, calls, crashes>>

\* A Write persists ReminderSent with everything else; that it can fail is
\* the subject of FileStore.
Persist == saved' = marked

\* audit.Log: a Write, which waits for the Reads in progress.
Log(r) == /\ pc[r] = "log"
          /\ NoReader
          /\ logSent' = IF ok[r] THEN Bump(logSent, Key(r)) ELSE logSent
          /\ logFailed' = IF ok[r] THEN logFailed ELSE Bump(logFailed, Key(r))
          /\ Persist
          /\ pc' = [pc EXCEPT ![r] = "send"]
          /\ ok' = [ok EXCEPT ![r] = FALSE]
          /\ UNCHANGED <<now, marked, at, todo, queue, cur, mails, failures, calls, crashes>>

\* All mails are out: Run returns.
RunReturns(r) == /\ pc[r] = "send"
                 /\ queue[r] = {}
                 /\ pc' = [pc EXCEPT ![r] = "record"]
                 /\ UNCHANGED <<now, marked, saved, local, mails, failures,
                                logSent, logFailed, calls, crashes>>

\* runReminders records the event reminders.run, another Write.
Record(r) == /\ pc[r] = "record"
             /\ NoReader
             /\ Persist
             /\ pc' = [pc EXCEPT ![r] = "idle"]
             /\ at' = [at EXCEPT ![r] = 0]
             /\ cur' = [cur EXCEPT ![r] = AnyItem]
             /\ UNCHANGED <<now, marked, todo, queue, ok, mails, failures,
                            logSent, logFailed, calls, crashes>>

-----------------------------------------------------------------------------
Tick == /\ now < LastTick
        /\ now' = now + 1
        /\ UNCHANGED <<marked, saved, pc, local, mails, failures,
                       logSent, logFailed, calls, crashes>>

\* The process ends and is started again: killed, or by the Go runtime, which
\* stops a program it sees writing one map from two goroutines (Mark).
Crash == /\ crashes < MaxCrashes
         /\ crashes' = crashes + 1
         /\ marked' = saved
         /\ pc' = Each("idle") /\ at' = Each(0)
         /\ todo' = Each({}) /\ queue' = Each({})
         /\ cur' = Each(AnyItem) /\ ok' = Each(FALSE)
         /\ UNCHANGED <<now, saved, mails, failures, logSent, logFailed, calls>>

Step(r) == \/ Start(r) \/ Check(r) \/ Mark(r) \/ Collected(r)
           \/ Send(r) \/ SendFails(r) \/ Log(r) \/ RunReturns(r) \/ Record(r)

Next == Tick \/ Crash \/ \E r \in Runs : Step(r)

Spec == Init /\ [][Next]_vars

(* A goroutine that can go on does; clients need not call, mails need not    *)
(* fail, the clock need not reach the next tick.                             *)
Fairness == \A r \in Runs :
    WF_vars(\/ Check(r) \/ Mark(r) \/ Collected(r) \/ Send(r) \/ SendFails(r)
            \/ Log(r) \/ RunReturns(r) \/ Record(r))

FairSpec == Spec /\ Fairness

-----------------------------------------------------------------------------
Attempts(k) == mails[k] + failures[k]

(* However often the cron job is called, one reminder is attempted at most   *)
(* once a day by each Run that was collecting when the item was first        *)
(* marked, and again only after a crash took the mark away.  With one Run at *)
(* a time and no crash that is once a day (Run, ReminderSent).               *)
AttemptsBounded == \A k \in Keys : Attempts(k) <= Cardinality(Runs) * (1 + crashes)

(* The audit log tells sent from failed truthfully, and when no Run is in    *)
(* progress and none was cut off, completely.                                *)
LogsMatchMails ==
    /\ \A k \in Keys : logSent[k] <= mails[k] /\ logFailed[k] <= failures[k]
    /\ crashes = 0 /\ (\A r \in Runs : pc[r] = "idle") =>
           logSent = mails /\ logFailed = failures

\* Run r will mail the reminder of key k.
InQueue(r, k) == k[1] \in queue[r] /\ k[2] = Day(r)

(* A mark never stands for a reminder nobody will send: without crashes it   *)
(* was attempted, or some Run still has it in hand.                          *)
MarkIsHandled ==
    crashes = 0 =>
        \A k \in marked : \/ Attempts(k) > 0
                          \/ \E r \in Runs : InQueue(r, k)

(* No reminder goes out for an item that had expired before the day of the   *)
(* Run, or that expires after its reminder window.                           *)
OnlyWhenDue ==
    \A k \in Keys : Attempts(k) > 0 =>
        /\ DayOf(Expiry[k[1]]) >= k[2]
        /\ DayOf(Expiry[k[1]]) <= k[2] + RemindBefore

(* An item that is due when a Run starts has its reminder attempted, by this *)
(* Run or by another that marked it first, unless the process ends.          *)
DueIsAttempted ==
    \A k \in Keys :
        (\E r \in Runs : /\ pc[r] = "collect" /\ Day(r) = k[2]
                         /\ Expiry[k[1]] \in at[r] .. at[r] + RemindBefore * TicksPerDay)
          ~> Attempts(k) > 0 \/ crashes > 0

(* DEPLOYMENT.md: a reminder run is idempotent per evidence, day and channel. *)
Idempotent == \A k \in Keys : mails[k] <= 1

-----------------------------------------------------------------------------
(* Why they hold.  Once a key is marked, only the Runs that have it in hand  *)
(* can still mail it, and no other joins them before a crash; each mail that *)
(* went out and has no audit entry yet belongs to one Run.                   *)
Hands(k) == {r \in Runs : \/ InQueue(r, k)
                          \/ pc[r] = "mark" /\ Key(r) = k}

ClaimInv ==
    \A k \in Keys :
        /\ k \notin marked =>
              /\ Attempts(k) <= Cardinality(Runs) * crashes
              /\ \A r \in Runs : ~InQueue(r, k)
        /\ k \in marked =>
              Attempts(k) + Cardinality(Hands(k)) <= Cardinality(Runs) * (1 + crashes)

QueueInv ==
    \A r \in Runs :
        /\ pc[r] \in {"idle", "record"} => queue[r] = {}
        /\ \A i \in queue[r] : Due(i, at[r])
        /\ pc[r] = "mark" => Due(cur[r], at[r])

SentUnlogged(k)   == {r \in Runs : pc[r] = "log" /\ ok[r] /\ Key(r) = k}
FailedUnlogged(k) == {r \in Runs : pc[r] = "log" /\ ~ok[r] /\ Key(r) = k}

LogInv ==
    \A k \in Keys :
        /\ logSent[k] + Cardinality(SentUnlogged(k)) <= mails[k]
        /\ logFailed[k] + Cardinality(FailedUnlogged(k)) <= failures[k]
        /\ crashes = 0 => /\ logSent[k] + Cardinality(SentUnlogged(k)) = mails[k]
                          /\ logFailed[k] + Cardinality(FailedUnlogged(k)) = failures[k]

IndInv == TypeOK /\ ClaimInv /\ QueueInv /\ LogInv /\ MarkIsHandled /\ OnlyWhenDue
=============================================================================
