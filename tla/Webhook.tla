------------------------------- MODULE Webhook -------------------------------
(* The Stripe webhook: Server.webhook (internal/http/server.go) and          *)
(* Service.VerifyWebhook, RecordAndProcessEvent (internal/billing/service.go)*)
(* over a store in file mode.  Stripe, which is not part of the repository,  *)
(* delivers an event until it is answered with 200 and may deliver it again  *)
(* after that.  An event is marked in one Write and audited in a second one; *)
(* either Write may fail to persist, after it has changed the memory.        *)
EXTENDS Naturals, FiniteSets

CONSTANTS Events,      \* the events Stripe sends
          Handlers,    \* the webhook requests served at the same time
          MaxErrors,   \* bound: Writes that fail to persist
          MaxCrashes   \* bound: ends of the process

ASSUME WebhookAssumption == MaxErrors \in Nat /\ MaxCrashes \in Nat

VARIABLES
    acked,       \* the events answered with 200
    pc,          \* [Handlers -> Pcs] where each handler is
    event,       \* [Handlers -> Events] the event it serves
    marks,       \* StripeEvents in memory
    diskMarks,   \* stripe_events.json
    audits,      \* [Events -> Nat] entries stripe.webhook_processed in AuditLogs
    diskAudits,  \* [Events -> Nat] those in audit_logs.json
    errors, crashes

vars == <<acked, pc, event, marks, diskMarks, audits, diskAudits, errors, crashes>>
memory == <<marks, audits>>
disk   == <<diskMarks, diskAudits>>

Pcs == {"idle", "record", "audit", "ok"}

TypeOK == /\ acked \subseteq Events
          /\ pc \in [Handlers -> Pcs]
          /\ event \in [Handlers -> Events]
          /\ marks \subseteq Events
          /\ diskMarks \subseteq Events
          /\ audits \in [Events -> Nat]
          /\ diskAudits \in [Events -> Nat]
          /\ errors \in Nat /\ crashes \in Nat

Nothing == [e \in Events |-> 0]

Init == /\ acked = {}
        /\ pc = [h \in Handlers |-> "idle"]
        /\ event \in [Handlers -> Events]
        /\ marks = {} /\ diskMarks = {}
        /\ audits = Nothing /\ diskAudits = Nothing
        /\ errors = 0 /\ crashes = 0

Goto(h, p) == pc' = [pc EXCEPT ![h] = p]

\* FileStore.Write after its function: all of the two files, or an error with
\* any of them renamed before it.
Persisted == diskMarks' = marks' /\ diskAudits' = audits'

PersistFails == /\ errors < MaxErrors
                /\ errors' = errors + 1
                /\ diskMarks' \in {diskMarks, marks'}
                /\ diskAudits' \in {diskAudits, audits'}

-----------------------------------------------------------------------------
\* Stripe delivers an event, the first time, again, or after it was acknowledged.
\* VerifyWebhook accepts it: a request whose signature does not verify or whose
\* body does not decode is answered with 400 and changes nothing.
Deliver(h, e) == /\ pc[h] = "idle"
                 /\ event' = [event EXCEPT ![h] = e]
                 /\ Goto(h, "record")
                 /\ UNCHANGED <<acked, memory, disk, errors, crashes>>

\* Mutant of Record: a duplicate is not recognised.
RecordAgain(h) ==
    /\ pc[h] = "record"
    /\ marks' = marks \cup {event[h]}
    /\ audits' = audits
    /\ Persisted
    /\ Goto(h, "audit")
    /\ UNCHANGED <<acked, event, errors, crashes>>

\* Mutant of Record: a known event is answered from memory, without a Write.
RecordFast(h) ==
    /\ pc[h] = "record"
    /\ audits' = audits
    /\ marks' = marks \cup {event[h]}
    /\ IF event[h] \in marks THEN UNCHANGED disk ELSE Persisted
    /\ Goto(h, IF event[h] \in marks THEN "ok" ELSE "audit")
    /\ UNCHANGED <<acked, event, errors, crashes>>

\* Mutant of Record: ErrDuplicateEvent is answered with 500.
RecordDuplicateRefused(h) ==
    /\ pc[h] = "record"
    /\ marks' = marks \cup {event[h]}
    /\ audits' = audits
    /\ Persisted
    /\ Goto(h, IF event[h] \in marks THEN "idle" ELSE "audit")
    /\ UNCHANGED <<acked, event, errors, crashes>>

\* Mutant of Record: the test for a duplicate is the wrong way round.
RecordInverted(h) ==
    /\ pc[h] = "record"
    /\ marks' = marks \cup {event[h]}
    /\ audits' = audits
    /\ Persisted
    /\ Goto(h, IF event[h] \notin marks THEN "ok" ELSE "audit")
    /\ UNCHANGED <<acked, event, errors, crashes>>

\* The first Write of RecordAndProcessEvent persists.  A duplicate is answered
\* with 200 (ErrDuplicateEvent) and not audited again.
Record(h) ==
    /\ pc[h] = "record"
    /\ marks' = marks \cup {event[h]}
    /\ audits' = audits
    /\ Persisted
    /\ Goto(h, IF event[h] \in marks THEN "ok" ELSE "audit")
    /\ UNCHANGED <<acked, event, errors, crashes>>

\* It does not persist: 500.  The mark stays in memory.
RecordFails(h) ==
    /\ pc[h] = "record"
    /\ marks' = marks \cup {event[h]}
    /\ audits' = audits
    /\ PersistFails
    /\ Goto(h, "idle")
    /\ UNCHANGED <<acked, event, crashes>>

\* audit.Log: a second Write, whose error is ignored.
Audit(h) == /\ pc[h] = "audit"
            /\ audits' = [audits EXCEPT ![event[h]] = @ + 1]
            /\ marks' = marks
            /\ \/ Persisted /\ UNCHANGED errors
               \/ PersistFails
            /\ Goto(h, "ok")
            /\ UNCHANGED <<acked, event, crashes>>

\* w.WriteHeader(200).
Answer(h) == /\ pc[h] = "ok"
             /\ acked' = acked \cup {event[h]}
             /\ Goto(h, "idle")
             /\ UNCHANGED <<event, memory, disk, errors, crashes>>

\* The process ends and is started again; the deliveries in progress get no answer.
Crash == /\ crashes < MaxCrashes
         /\ crashes' = crashes + 1
         /\ pc' = [h \in Handlers |-> "idle"]
         /\ marks' = diskMarks
         /\ audits' = diskAudits
         /\ UNCHANGED <<acked, event, disk, errors>>

Serve(h) == Record(h) \/ RecordFails(h) \/ Audit(h) \/ Answer(h)

Next == \/ \E h \in Handlers : Serve(h) \/ \E e \in Events : Deliver(h, e)
        \/ Crash

Spec == Init /\ [][Next]_vars

(* A handler that can go on does, and Stripe goes on delivering an event     *)
(* that was never acknowledged while handlers are free again and again.      *)
Fairness == /\ \A h \in Handlers : WF_vars(Serve(h))
            /\ \A e \in Events : SF_vars(e \notin acked /\ \E h \in Handlers : Deliver(h, e))

FairSpec == Spec /\ Fairness

-----------------------------------------------------------------------------
(* Two deliveries of one event, one after the other or at the same time,     *)
(* before or after a crash, process it once (RecordAndProcessEvent checks    *)
(* and marks in one Write).                                                  *)
ProcessedOnce ==
    \A e \in Events : audits[e] <= 1 /\ diskAudits[e] <= 1

(* Stripe need not send an acknowledged event again, so an acknowledged      *)
(* event is marked on disk, whatever persist errors came before the answer.  *)
AckedIsDurable == acked \subseteq diskMarks

(* Every event is acknowledged in the end, although Writes fail and the      *)
(* process ends a few times.                                                 *)
EventuallyAcked == \A e \in Events : <>(e \in acked)

(* DEPLOYMENT.md: stripe webhook processing writes an audit event.  When no  *)
(* handler is at work, every acknowledged event has one.                     *)
AckedIsAudited ==
    (\A h \in Handlers : pc[h] = "idle") => \A e \in acked : audits[e] >= 1

\* The events whose processing is over for this process without an entry.
Unaudited == {e \in marks : /\ audits[e] = 0
                            /\ \A h \in Handlers : pc[h] = "audit" => event[h] # e}

(* Where that promise fails a fault was at work: while the process lives, no *)
(* more events lack an entry than Writes failed to persist, whatever is      *)
(* delivered twice or at once (RecordAndProcessEvent: marked, error, 500,    *)
(* then a duplicate).                                                        *)
GapsHaveCause == crashes = 0 => Cardinality(Unaudited) <= errors

-----------------------------------------------------------------------------
(* Why they hold: what is on disk is in memory, an entry is written after    *)
(* its mark is on disk, and at most one handler is between the two.          *)
DiskBehind == /\ diskMarks \subseteq marks
              /\ \A e \in Events : diskAudits[e] <= audits[e] /\ audits[e] <= 1

MarkedFirst == \A e \in Events : audits[e] >= 1 => e \in diskMarks

InHand == \A h \in Handlers :
    /\ pc[h] \in {"audit", "ok"} => event[h] \in diskMarks
    /\ pc[h] = "audit" => /\ audits[event[h]] = 0
                         /\ \A g \in Handlers : pc[g] = "audit" /\ event[g] = event[h] => g = h

IndInv == TypeOK /\ DiskBehind /\ MarkedFirst /\ InHand /\ AckedIsDurable
=============================================================================
