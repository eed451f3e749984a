---------------------------- MODULE Webhook_proofs ----------------------------
(* Proofs about Webhook for any events, handlers and bounds: however         *)
(* deliveries, persist errors and crashes interleave, an event is processed  *)
(* once and is marked on disk when it is acknowledged.                       *)
EXTENDS Webhook, FiniteSetTheorems, TLAPS

LEMMA InitInd == Init => IndInv
BY DEF Init, IndInv, TypeOK, Nothing, Pcs, DiskBehind, MarkedFirst, InHand, AckedIsDurable

\* A delivery only takes a handler that was idle.
LEMMA DeliverInd ==
  ASSUME NEW h \in Handlers, NEW e \in Events, IndInv, Deliver(h, e)
  PROVE  IndInv'
<1> USE DEF IndInv, Deliver, Goto, memory, disk
<1>1. TypeOK'
  BY DEF TypeOK, Pcs
<1>2. DiskBehind'
  BY DEF DiskBehind
<1>3. MarkedFirst'
  BY DEF MarkedFirst
<1>4. InHand'
  BY DEF InHand, TypeOK
<1>5. AckedIsDurable'
  BY DEF AckedIsDurable
<1> QED BY <1>1, <1>2, <1>3, <1>4, <1>5

\* The marks on disk only grow, and stay behind the memory, in every Write.
LEMMA WriteGrows ==
  ASSUME IndInv, marks \subseteq marks', marks' \subseteq Events,
         audits' \in [Events -> Nat],
         \A e \in Events : audits[e] <= audits'[e],
         Persisted \/ PersistFails
  PROVE  /\ diskMarks \subseteq diskMarks' /\ diskMarks' \subseteq marks'
         /\ diskAudits' \in [Events -> Nat]
         /\ \A e \in Events : diskAudits'[e] <= audits'[e]
<1>1. diskMarks \subseteq marks /\ \A e \in Events : diskAudits[e] <= audits[e]
  BY DEF IndInv, DiskBehind
<1>2. audits \in [Events -> Nat] /\ diskAudits \in [Events -> Nat]
  BY DEF IndInv, TypeOK
<1>3. CASE Persisted
  BY <1>1, <1>2, <1>3 DEF Persisted
<1>4. CASE PersistFails
  <2>1. diskAudits' = diskAudits \/ diskAudits' = audits'
    BY <1>4 DEF PersistFails
  <2>2. \A e \in Events : diskAudits'[e] <= audits'[e]
    BY <1>1, <1>2, <2>1
  <2> QED BY <1>1, <1>2, <1>4, <2>1, <2>2 DEF PersistFails
<1> QED BY <1>3, <1>4

\* Both outcomes of the first Write; only a new event goes on to be audited.
LEMMA RecordInd ==
  ASSUME NEW h \in Handlers, IndInv, Record(h) \/ RecordFails(h)
  PROVE  IndInv'
<1>1. /\ marks' = marks \cup {event[h]} /\ audits' = audits
      /\ event[h] \in Events /\ event' = event /\ acked' = acked
      /\ audits \in [Events -> Nat] /\ marks \subseteq Events
      /\ Persisted \/ PersistFails
  BY DEF IndInv, TypeOK, Record, RecordFails
<1>2. /\ diskMarks \subseteq diskMarks' /\ diskMarks' \subseteq marks'
      /\ diskAudits' \in [Events -> Nat]
      /\ \A e \in Events : diskAudits'[e] <= audits'[e]
  BY <1>1, WriteGrows
<1>3. pc' \in [Handlers -> Pcs]
  BY DEF IndInv, TypeOK, Record, RecordFails, Goto, Pcs
<1>4. errors' \in Nat /\ crashes' \in Nat
  BY DEF IndInv, TypeOK, Record, RecordFails, PersistFails
<1>5. TypeOK'
  BY <1>1, <1>2, <1>3, <1>4 DEF IndInv, TypeOK
<1>6. DiskBehind'
  BY <1>1, <1>2 DEF IndInv, DiskBehind
<1>7. MarkedFirst'
  BY <1>1, <1>2 DEF IndInv, MarkedFirst
<1>8. AckedIsDurable'
  BY <1>1, <1>2 DEF IndInv, AckedIsDurable
<1>9. InHand'
  <2>1. CASE Record(h)
    <3>1. event[h] \in diskMarks'
      BY <1>1, <2>1 DEF Record, Persisted
    <3>2. \A g \in Handlers : pc[g] = "audit" => event[g] \in marks
      BY DEF IndInv, InHand, DiskBehind
    <3>3. event[h] \notin marks => audits[event[h]] = 0
      BY <1>1 DEF IndInv, DiskBehind, MarkedFirst
    <3>4. \A g \in Handlers : pc'[g] = IF g # h THEN pc[g]
                                       ELSE IF event[h] \in marks THEN "ok" ELSE "audit"
      BY <2>1 DEF Record, Goto, IndInv, TypeOK
    <3> QED BY <1>1, <1>2, <3>1, <3>2, <3>3, <3>4 DEF IndInv, InHand
  <2>2. CASE RecordFails(h)
    <3>1. \A g \in Handlers : pc'[g] = IF g # h THEN pc[g] ELSE "idle"
      BY <2>2 DEF RecordFails, Goto, IndInv, TypeOK
    <3> QED BY <1>1, <1>2, <3>1 DEF IndInv, InHand
  <2> QED BY <2>1, <2>2
<1> QED BY <1>5, <1>6, <1>7, <1>8, <1>9 DEF IndInv

\* The entry of a marked event, whether the Write persists or not.
LEMMA AuditInd == ASSUME NEW h \in Handlers, IndInv, Audit(h) PROVE IndInv'
<1>1. /\ pc[h] = "audit" /\ event[h] \in diskMarks /\ audits[event[h]] = 0
      /\ \A g \in Handlers : pc[g] = "audit" /\ event[g] = event[h] => g = h
  BY DEF IndInv, InHand, Audit
<1>2. /\ marks' = marks /\ event' = event /\ acked' = acked /\ event[h] \in Events
      /\ audits \in [Events -> Nat] /\ marks \subseteq Events
      /\ audits' = [audits EXCEPT ![event[h]] = 1]
      /\ Persisted \/ PersistFails
  BY <1>1 DEF IndInv, TypeOK, Audit
<1>3. audits' \in [Events -> Nat] /\ \A e \in Events : audits[e] <= audits'[e]
  BY <1>1, <1>2
<1>4. /\ diskMarks \subseteq diskMarks' /\ diskMarks' \subseteq marks'
      /\ diskAudits' \in [Events -> Nat]
      /\ \A e \in Events : diskAudits'[e] <= audits'[e]
  BY <1>2, <1>3, WriteGrows
<1>5. \A g \in Handlers : pc'[g] = IF g # h THEN pc[g] ELSE "ok"
  BY DEF Audit, Goto, IndInv, TypeOK
<1>6. TypeOK'
  <2>1. pc' \in [Handlers -> Pcs] /\ errors' \in Nat /\ crashes' \in Nat
    BY DEF IndInv, TypeOK, Audit, Goto, Pcs, PersistFails
  <2> QED BY <1>2, <1>3, <1>4, <2>1 DEF IndInv, TypeOK
<1>7. DiskBehind'
  BY <1>2, <1>4 DEF IndInv, DiskBehind
<1>8. MarkedFirst'
  BY <1>1, <1>2, <1>4 DEF IndInv, MarkedFirst
<1>9. InHand'
  BY <1>1, <1>2, <1>4, <1>5 DEF IndInv, InHand, TypeOK
<1>10. AckedIsDurable'
  BY <1>2, <1>4 DEF IndInv, AckedIsDurable
<1> QED BY <1>6, <1>7, <1>8, <1>9, <1>10 DEF IndInv

\* What is acknowledged has been marked on disk before.
LEMMA AnswerInd == ASSUME NEW h \in Handlers, IndInv, Answer(h) PROVE IndInv'
<1> USE DEF IndInv, Answer, Goto, memory, disk
<1>1. TypeOK'
  BY DEF TypeOK, Pcs
<1>2. DiskBehind'
  BY DEF DiskBehind
<1>3. MarkedFirst'
  BY DEF MarkedFirst
<1>4. InHand'
  BY DEF InHand, TypeOK
<1>5. AckedIsDurable'
  BY DEF AckedIsDurable, InHand
<1> QED BY <1>1, <1>2, <1>3, <1>4, <1>5

\* After a crash the memory is what was on disk.
LEMMA CrashInd == IndInv /\ Crash => IndInv'
<1> SUFFICES ASSUME IndInv, Crash PROVE IndInv'
  OBVIOUS
<1> USE DEF IndInv, Crash, disk
<1>1. TypeOK'
  BY DEF TypeOK, Pcs
<1>2. DiskBehind'
  <2>1. \A e \in Events : diskAudits[e] <= 1
    BY DEF DiskBehind, TypeOK
  <2> QED BY <2>1 DEF DiskBehind, TypeOK
<1>3. MarkedFirst'
  BY DEF MarkedFirst, DiskBehind, TypeOK
<1>4. InHand'
  BY DEF InHand
<1>5. AckedIsDurable'
  BY DEF AckedIsDurable
<1> QED BY <1>1, <1>2, <1>3, <1>4, <1>5

LEMMA NextInd == IndInv /\ [Next]_vars => IndInv'
<1> SUFFICES ASSUME IndInv, [Next]_vars PROVE IndInv'
  OBVIOUS
<1>1. CASE UNCHANGED vars
  BY <1>1 DEF vars, IndInv, TypeOK, DiskBehind, MarkedFirst, InHand, AckedIsDurable
<1>2. ASSUME NEW h \in Handlers, Serve(h) PROVE IndInv'
  BY <1>2, RecordInd, AuditInd, AnswerInd DEF Serve
<1>3. ASSUME NEW h \in Handlers, NEW e \in Events, Deliver(h, e) PROVE IndInv'
  BY <1>3, DeliverInd
<1>4. CASE Crash
  BY <1>4, CrashInd
<1> QED BY <1>1, <1>2, <1>3, <1>4 DEF Next

(* The inductive invariant of the webhook: disk behind memory, entries after *)
(* marks, one handler between the two Writes of an event.                    *)
THEOREM Invariance == Spec => []IndInv
BY InitInd, NextInd, PTL DEF Spec

(* Every variable of the webhook keeps its type.                             *)
THEOREM TypeCorrect == Spec => []TypeOK
<1>1. IndInv => TypeOK
  BY DEF IndInv
<1> QED BY <1>1, Invariance, PTL

(* An event is processed at most once, however often and however closely     *)
(* Stripe delivers it (RecordAndProcessEvent).                               *)
THEOREM Once == Spec => []ProcessedOnce
<1>1. IndInv => ProcessedOnce
  <2> SUFFICES ASSUME IndInv, NEW e \in Events
               PROVE  audits[e] <= 1 /\ diskAudits[e] <= 1
    BY DEF ProcessedOnce
  <2> QED BY DEF IndInv, TypeOK, DiskBehind
<1> QED BY <1>1, Invariance, PTL

(* What was answered with 200 is marked on disk, through errors and crashes. *)
THEOREM Durable == Spec => []AckedIsDurable
<1>1. IndInv => AckedIsDurable
  BY DEF IndInv
<1> QED BY <1>1, Invariance, PTL

-----------------------------------------------------------------------------
(* The events without an audit entry.                                        *)

\* The events without an entry are finitely many, whatever Events is.
GapInv == crashes = 0 => IsFiniteSet(Unaudited) /\ Cardinality(Unaudited) <= errors

LEMMA GapInit == Init => GapInv
<1> SUFFICES ASSUME Init PROVE GapInv
  OBVIOUS
<1>1. Unaudited = {} /\ errors = 0
  BY DEF Init, Unaudited
<1>2. IsFiniteSet(Unaudited) /\ Cardinality(Unaudited) = 0
  BY <1>1, FS_EmptySet
<1> QED BY <1>1, <1>2 DEF GapInv

\* A first Write adds a gap only when it fails, and then at most the event in hand.
LEMMA GapStep ==
  ASSUME IndInv, NEW h \in Handlers, Serve(h)
  PROVE  \/ Unaudited' = Unaudited /\ errors' >= errors
         \/ Unaudited' = Unaudited \cup {event[h]} /\ errors' = errors + 1
         \/ Unaudited' = Unaudited \ {event[h]} /\ errors' >= errors
<1>0. /\ pc \in [Handlers -> Pcs] /\ event \in [Handlers -> Events] /\ errors \in Nat
      /\ audits \in [Events -> Nat] /\ marks \subseteq Events
  BY DEF IndInv, TypeOK
<1>1. CASE Record(h)
  <2>1. /\ marks' = marks \cup {event[h]} /\ UNCHANGED <<audits, event, errors>>
        /\ pc[h] = "record"
        /\ pc' = [pc EXCEPT ![h] = IF event[h] \in marks THEN "ok" ELSE "audit"]
    BY <1>1 DEF Record, Goto
  <2>2. ASSUME NEW e \in Events PROVE e \in Unaudited' <=> e \in Unaudited
    <3>1. \A g \in Handlers : pc'[g] = IF g # h THEN pc[g]
                                       ELSE IF event[h] \in marks THEN "ok" ELSE "audit"
      BY <1>0, <2>1
    <3>2. CASE event[h] \in marks
      BY <2>1, <3>1, <3>2 DEF Unaudited
    <3>3. CASE event[h] \notin marks
      <4>1. CASE e = event[h]
        BY <2>1, <3>1, <3>3, <4>1 DEF Unaudited
      <4>2. CASE e # event[h]
        BY <2>1, <3>1, <3>3, <4>2 DEF Unaudited
      <4> QED BY <4>1, <4>2
    <3> QED BY <3>2, <3>3
  <2>3. Unaudited \subseteq Events /\ Unaudited' \subseteq Events
    BY <1>0, <2>1 DEF Unaudited
  <2>4. Unaudited' = Unaudited
    BY <2>2, <2>3
  <2> QED BY <1>0, <2>1, <2>4
<1>2. CASE RecordFails(h)
  <2>1. /\ marks' = marks \cup {event[h]} /\ UNCHANGED <<audits, event>>
        /\ pc[h] = "record" /\ errors' = errors + 1
        /\ pc' = [pc EXCEPT ![h] = "idle"]
    BY <1>2 DEF RecordFails, Goto, PersistFails
  <2>2. \A g \in Handlers : pc'[g] = IF g # h THEN pc[g] ELSE "idle"
    BY <1>0, <2>1
  <2>3. ASSUME NEW e, e # event[h] PROVE e \in Unaudited' <=> e \in Unaudited
    BY <2>1, <2>2, <2>3 DEF Unaudited
  <2>4. CASE event[h] \in Unaudited'
    <3>1. Unaudited' = Unaudited \cup {event[h]}
      BY <2>3, <2>4
    <3> QED BY <2>1, <3>1
  <2>5. CASE event[h] \notin Unaudited'
    <3>1. Unaudited' = Unaudited \ {event[h]}
      BY <2>3, <2>5
    <3> QED BY <1>0, <2>1, <3>1
  <2> QED BY <2>4, <2>5
<1>3. CASE Audit(h)
  <2>1. /\ marks' = marks /\ event' = event /\ errors' >= errors
        /\ audits' = [audits EXCEPT ![event[h]] = @ + 1]
        /\ pc' = [pc EXCEPT ![h] = "ok"]
    BY <1>0, <1>3 DEF Audit, Goto, PersistFails
  <2>2. \A g \in Handlers : pc'[g] = IF g # h THEN pc[g] ELSE "ok"
    BY <1>0, <2>1
  <2>3. ASSUME NEW e \in Events, e # event[h] PROVE e \in Unaudited' <=> e \in Unaudited
    BY <1>0, <2>1, <2>2, <2>3 DEF Unaudited
  <2>4. event[h] \notin Unaudited'
    BY <1>0, <2>1 DEF Unaudited
  <2>5. Unaudited \subseteq Events /\ Unaudited' \subseteq Events
    BY <1>0, <2>1 DEF Unaudited
  <2> QED BY <2>1, <2>3, <2>4, <2>5
<1>4. CASE Answer(h)
  <2>1. UNCHANGED <<marks, audits, event, errors>> /\ pc[h] = "ok"
        /\ pc' = [pc EXCEPT ![h] = "idle"]
    BY <1>4 DEF Answer, Goto, memory
  <2>2. \A g \in Handlers : pc'[g] = "audit" <=> pc[g] = "audit"
    BY <1>0, <2>1
  <2> QED BY <1>0, <2>1, <2>2 DEF Unaudited
<1> QED BY <1>1, <1>2, <1>3, <1>4 DEF Serve

LEMMA GapNext == IndInv /\ GapInv /\ [Next]_vars => GapInv'
<1> SUFFICES ASSUME IndInv, GapInv, [Next]_vars, crashes' = 0
             PROVE  IsFiniteSet(Unaudited') /\ Cardinality(Unaudited') <= errors'
  BY DEF GapInv
<1>0. crashes \in Nat /\ errors \in Nat
  BY DEF IndInv, TypeOK
<1>1. ASSUME UNCHANGED <<crashes, errors>>, Unaudited' = Unaudited
      PROVE  IsFiniteSet(Unaudited') /\ Cardinality(Unaudited') <= errors'
  BY <1>1 DEF GapInv
<1>2. ASSUME NEW h \in Handlers, Serve(h)
      PROVE  IsFiniteSet(Unaudited') /\ Cardinality(Unaudited') <= errors'
  <2>1. crashes = 0
    BY <1>2 DEF Serve, Record, RecordFails, Audit, Answer
  <2>2. IsFiniteSet(Unaudited) /\ Cardinality(Unaudited) <= errors
        /\ Cardinality(Unaudited) \in Nat
    BY <2>1, FS_CardinalityType DEF GapInv
  <2>3. errors' \in Nat
    BY <1>0, <1>2 DEF Serve, Record, RecordFails, Audit, Answer, PersistFails
  <2>4. /\ IsFiniteSet(Unaudited \cup {event[h]}) /\ IsFiniteSet(Unaudited \ {event[h]})
        /\ Cardinality(Unaudited \cup {event[h]}) <= Cardinality(Unaudited) + 1
        /\ Cardinality(Unaudited \ {event[h]}) <= Cardinality(Unaudited)
    <3>1. /\ IsFiniteSet(Unaudited \cup {event[h]})
          /\ Cardinality(Unaudited \cup {event[h]}) =
                IF event[h] \in Unaudited THEN Cardinality(Unaudited)
                                          ELSE Cardinality(Unaudited) + 1
      BY <2>2, FS_AddElement
    <3>2. /\ IsFiniteSet(Unaudited \ {event[h]})
          /\ Cardinality(Unaudited \ {event[h]}) =
                IF event[h] \in Unaudited THEN Cardinality(Unaudited) - 1
                                          ELSE Cardinality(Unaudited)
      BY <2>2, FS_RemoveElement
    <3> QED BY <2>2, <3>1, <3>2
  <2>5. /\ Cardinality(Unaudited \cup {event[h]}) \in Nat
        /\ Cardinality(Unaudited \ {event[h]}) \in Nat
    BY <2>4, FS_CardinalityType
  <2> QED BY <1>0, <1>2, <2>2, <2>3, <2>4, <2>5, GapStep
<1>3. ASSUME NEW h \in Handlers, NEW e \in Events, Deliver(h, e)
      PROVE  IsFiniteSet(Unaudited') /\ Cardinality(Unaudited') <= errors'
  <2>1. UNCHANGED <<marks, audits, crashes, errors>> /\ pc[h] = "idle"
        /\ pc' = [pc EXCEPT ![h] = "record"] /\ event' = [event EXCEPT ![h] = e]
    BY <1>3 DEF Deliver, Goto, memory
  <2>2. \A g \in Handlers : /\ pc'[g] = "audit" <=> pc[g] = "audit"
                            /\ pc[g] = "audit" => event'[g] = event[g]
    BY <2>1 DEF IndInv, TypeOK
  <2>3. Unaudited' = Unaudited
    BY <2>1, <2>2 DEF Unaudited
  <2> QED BY <1>1, <2>1, <2>3
<1>4. CASE Crash
  BY <1>0, <1>4 DEF Crash
<1>5. CASE UNCHANGED vars
  BY <1>1, <1>5 DEF vars, Unaudited
<1> QED BY <1>2, <1>3, <1>4, <1>5 DEF Next

(* Without a crash, each event that was processed without an audit entry is  *)
(* paid for by a Write of its own that failed; without faults there is none. *)
THEOREM GapsExplained == Spec => []GapsHaveCause
<1>1. GapInv => GapsHaveCause
  BY DEF GapInv, GapsHaveCause
<1> QED BY GapInit, GapNext, <1>1, Invariance, PTL DEF Spec

\* Among idle handlers an acknowledged event without an entry is a gap.
LEMMA NoGapAudited ==
  ASSUME IndInv, GapInv, errors = 0, crashes = 0 PROVE AckedIsAudited
<1> SUFFICES ASSUME \A h \in Handlers : pc[h] = "idle", NEW e \in acked
             PROVE  audits[e] >= 1
  BY DEF AckedIsAudited
<1>1. e \in marks /\ audits[e] \in Nat
  BY DEF IndInv, TypeOK, AckedIsDurable, DiskBehind
<1>2. Unaudited = {}
  <2>1. IsFiniteSet(Unaudited) /\ Cardinality(Unaudited) <= 0
    BY DEF GapInv
  <2> QED BY <2>1, FS_CardinalityType, FS_EmptySet
<1> QED BY <1>1, <1>2 DEF Unaudited

(* What DEPLOYMENT.md says of processed events holds while nothing fails:    *)
(* without persist errors and crashes every acknowledged event is audited.   *)
THEOREM AuditedUnlessFault == Spec => [](errors = 0 /\ crashes = 0 => AckedIsAudited)
<1>1. IndInv /\ GapInv => (errors = 0 /\ crashes = 0 => AckedIsAudited)
  BY NoGapAudited
<1> QED BY GapInit, GapNext, <1>1, Invariance, PTL DEF Spec

-----------------------------------------------------------------------------
(* What EventuallyAcked needs beside fairness.                               *)

\* How many steps a delivery in progress still takes at most.
StepsLeft(h) == [idle |-> 0, record |-> 3, audit |-> 2, ok |-> 1][pc[h]]

(* A delivery ends after three steps of its own, whatever the others do, and *)
(* it ends with 200 or at the price of a fault: a Write that failed to       *)
(* persist or the end of the process.  A duplicate is never turned away      *)
(* (webhook answers ErrDuplicateEvent with 200).                             *)
DeliveryEnds ==
    [][\A h \in Handlers : pc[h] # "idle" =>
          \/ UNCHANGED <<pc[h], event[h]>>
          \/ /\ StepsLeft(h)' < StepsLeft(h)
             /\ \/ pc'[h] # "idle" /\ event'[h] = event[h]
                \/ event[h] \in acked' \/ errors' > errors \/ crashes' > crashes]_vars

(* As the faults are bounded, all but so many deliveries are acknowledged.   *)
THEOREM DeliveryIsBounded == Spec => DeliveryEnds
<1> DEFINE Ends(h) == \/ UNCHANGED <<pc[h], event[h]>>
                      \/ /\ StepsLeft(h)' < StepsLeft(h)
                         /\ \/ pc'[h] # "idle" /\ event'[h] = event[h]
                            \/ event[h] \in acked' \/ errors' > errors \/ crashes' > crashes
<1>1. ASSUME IndInv, [Next]_vars, NEW h \in Handlers, pc[h] # "idle" PROVE Ends(h)
  <2>0. /\ pc \in [Handlers -> Pcs] /\ event \in [Handlers -> Events]
        /\ errors \in Nat /\ crashes \in Nat
    BY <1>1 DEF IndInv, TypeOK
  <2>1. CASE Record(h)
    <3>1. /\ pc[h] = "record" /\ pc'[h] \in {"ok", "audit"} /\ event'[h] = event[h]
      BY <2>0, <2>1 DEF Record, Goto
    <3> QED BY <3>1 DEF StepsLeft
  <2>2. CASE RecordFails(h)
    <3>1. pc[h] = "record" /\ pc'[h] = "idle" /\ errors' > errors
      BY <2>0, <2>2 DEF RecordFails, PersistFails, Goto
    <3> QED BY <3>1 DEF StepsLeft
  <2>3. CASE Audit(h)
    <3>1. pc[h] = "audit" /\ pc'[h] = "ok" /\ event'[h] = event[h]
      BY <2>0, <2>3 DEF Audit, Goto
    <3> QED BY <3>1 DEF StepsLeft
  <2>4. CASE Answer(h)
    <3>1. pc[h] = "ok" /\ pc'[h] = "idle" /\ event[h] \in acked'
      BY <2>0, <2>4 DEF Answer, Goto
    <3> QED BY <3>1 DEF StepsLeft
  <2>5. ASSUME NEW g \in Handlers, Serve(g), g # h PROVE Ends(h)
    BY <2>0, <2>5 DEF Serve, Record, RecordFails, Audit, Answer, Goto
  <2>6. ASSUME NEW g \in Handlers, NEW e \in Events, Deliver(g, e) PROVE Ends(h)
    BY <1>1, <2>0, <2>6 DEF Deliver, Goto
  <2>7. CASE Crash
    <3>1. pc[h] \in {"record", "audit", "ok"} /\ pc'[h] = "idle" /\ crashes' > crashes
      BY <1>1, <2>0, <2>7 DEF Crash, Pcs
    <3> QED BY <3>1 DEF StepsLeft
  <2>8. CASE UNCHANGED vars
    BY <2>8 DEF vars
  <2> HIDE DEF Ends
  <2> QED BY <1>1, <2>1, <2>2, <2>3, <2>4, <2>5, <2>6, <2>7, <2>8 DEF Next, Serve
<1>2. IndInv /\ [Next]_vars => [\A h \in Handlers : pc[h] # "idle" => Ends(h)]_vars
  BY <1>1
<1> QED BY <1>2, Invariance, PTL DEF Spec, DeliveryEnds
=============================================================================
