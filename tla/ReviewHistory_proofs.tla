------------------------- MODULE ReviewHistory_proofs -------------------------
(* Proofs about ReviewHistory for any tenants, goroutines, requests and      *)
(* bounds: the order of events and milestones survives overlapping requests, *)
(* Writes that persist only some files, and crashes; what was answered is    *)
(* kept as long as every Write persists.                                     *)
EXTENDS ReviewHistory, SequenceTheorems, FiniteSetTheorems, TLAPS

Event == [kind : Events, at : Ticks]
ReachedTimes == [Milestone -> Ticks \cup {Unset}]

\* What is right about each part of a history, as of now.
ReviewsOK(rv) == rv \in [Tenants -> Seq(Ticks)]

EventsOK(es) ==
  /\ es \in [Scopes -> Seq(Event)]
  /\ \A s \in Scopes : /\ NewestFirst(Times(es[s]))
                       /\ \A i \in 1 .. Len(es[s]) : es[s][i].at <= now

ReachedOK(rc) ==
  /\ rc \in [Scopes -> ReachedTimes]
  /\ \A s \in Scopes, m \in Milestone : rc[s][m] <= now
  /\ \A t \in Tenants :
        rc[t]["secondReview"] # Unset =>
            /\ rc[t]["firstReview"] # Unset
            /\ rc[t]["firstReview"] <= rc[t]["secondReview"]

HistoryOK(h) == /\ h = [reviews |-> h.reviews, events |-> h.events, reached |-> h.reached]
                /\ ReviewsOK(h.reviews) /\ EventsOK(h.events) /\ ReachedOK(h.reached)

\* The invariant, said part by part.
Rest == /\ now \in Ticks
        /\ pc \in [Procs -> {"idle", "stamped", "record"}]
        /\ job \in [Procs -> Jobs]
        /\ answered \in [Tenants -> Nat]
        /\ requests \in Nat /\ faults \in Nat /\ crashes \in Nat

LEMMA ByParts ==
  IndInv <=> HistoryOK(mem) /\ HistoryOK(disk) /\ Rest /\ JobInv /\ DiskInv /\ KeptInv
<1>1. ASSUME NEW h
      PROVE  HistoryOK(h) <=>
               /\ h \in History
               /\ \A s \in Scopes : NewestFirst(Times(h.events[s]))
               /\ \A s \in Scopes :
                     /\ \A i \in 1 .. Len(h.events[s]) : h.events[s][i].at <= now
                     /\ \A m \in Milestone : h.reached[s][m] <= now
               /\ \A t \in Tenants :
                     h.reached[t]["secondReview"] # Unset =>
                        /\ h.reached[t]["firstReview"] # Unset
                        /\ h.reached[t]["firstReview"] <= h.reached[t]["secondReview"]
  BY DEF HistoryOK, ReviewsOK, EventsOK, ReachedOK, History, Event, ReachedTimes
<1> QED
  BY <1>1 DEF IndInv, TypeOK, EventsInOrder, SecondAfterFirst, PastInv, Rest

LEMMA ByPartsNext ==
  ASSUME HistoryOK(mem)', HistoryOK(disk)', Rest', JobInv', DiskInv', KeptInv'
  PROVE  IndInv'
BY ByParts, PTL

LEMMA Later ==
  ASSUME NEW h, HistoryOK(h), Rest, now' \in Ticks, now <= now', h' = h
  PROVE  HistoryOK(h)'
<1>1. now \in Int /\ now' \in Int
  BY DEF Rest, Ticks
<1>2. \A s \in Scopes : \A i \in 1 .. Len(h.events[s]) : h.events[s][i].at \in Int
  <2>1. ASSUME NEW s \in Scopes, NEW i \in 1 .. Len(h.events[s]) PROVE h.events[s][i] \in Event
    BY ElementOfSeq DEF HistoryOK, EventsOK
  <2> QED BY <2>1 DEF Event, Ticks
<1>3. \A s \in Scopes, m \in Milestone : h.reached[s][m] \in Int
  BY DEF HistoryOK, ReachedOK, ReachedTimes, Ticks, Unset
<1>4. EventsOK(h.events)'
  BY <1>1, <1>2 DEF HistoryOK, EventsOK
<1>5. ReachedOK(h.reached)'
  BY <1>1, <1>3 DEF HistoryOK, ReachedOK
<1> QED BY <1>4, <1>5 DEF HistoryOK, ReviewsOK

LEMMA InitInd == Init => IndInv
<1> SUFFICES ASSUME Init PROVE IndInv
  OBVIOUS
<1>1. 0 \in Ticks
  BY ReviewHistoryAssumption DEF Ticks
<1>2. NoJob \in Jobs
  BY <1>1 DEF NoJob, Jobs, Scopes, Events
<1>3. HistoryOK(Blank)
  <2>1. EventsOK(Blank.events)
    BY <1>1 DEF Init, Blank, EventsOK, NewestFirst, Times
  <2>2. ReachedOK(Blank.reached)
    BY <1>1 DEF Init, Blank, ReachedOK, ReachedTimes, Unset, Scopes, Milestone
  <2> QED BY <2>1, <2>2 DEF Blank, HistoryOK, ReviewsOK
<1>4. Rest
  BY <1>1, <1>2 DEF Init, Rest
<1>5. KeptInv
  <2>1. ASSUME NEW t \in Tenants PROVE Cardinality(Recording(t)) = 0
    <3>1. Recording(t) = {}
      BY DEF Init, Recording
    <3> QED BY <3>1, FS_EmptySet
  <2>2. \A t \in Tenants : answered[t] = 0 /\ Len(mem.reviews[t]) = 0
    BY DEF Init, Blank
  <2> QED BY <2>1, <2>2 DEF Init, KeptInv
<1> QED BY <1>3, <1>4, <1>5, ByParts DEF Init, JobInv, DiskInv, Blank

-----------------------------------------------------------------------------
\* Whichever files a Write persists, each part on disk is that of the memory or
\* the one before; without a fault all of them are.
LEMMA PersistParts ==
  ASSUME Rest, NEW kept \in SUBSET Parts, Persist(kept), now' = now,
         HistoryOK(mem)', HistoryOK(disk)
  PROVE  /\ HistoryOK(disk)' /\ faults' \in Nat
         /\ disk'.reached \in {mem'.reached, disk.reached}
         /\ faults' = 0 => faults = 0 /\ disk' = mem'
<1>1. disk' = [x \in Parts |-> IF x \in kept THEN mem'[x] ELSE disk[x]]
  BY DEF Persist
<1>2. /\ disk' = [reviews |-> disk'.reviews, events |-> disk'.events, reached |-> disk'.reached]
      /\ disk'.reviews = IF "reviews" \in kept THEN mem'.reviews ELSE disk.reviews
      /\ disk'.events = IF "events" \in kept THEN mem'.events ELSE disk.events
      /\ disk'.reached = IF "reached" \in kept THEN mem'.reached ELSE disk.reached
  BY <1>1 DEF Parts
<1>3. ReviewsOK(disk.reviews)' /\ EventsOK(disk.events)' /\ ReachedOK(disk.reached)'
  BY <1>2 DEF HistoryOK, ReviewsOK, EventsOK, ReachedOK
<1>4. ASSUME faults' = 0 PROVE faults = 0 /\ disk' = mem'
  <2>1. kept = Parts /\ faults = 0
    BY <1>4 DEF Persist, Rest
  <2>2. /\ disk'.reviews = mem'.reviews /\ disk'.events = mem'.events
        /\ disk'.reached = mem'.reached
    BY <1>2, <2>1 DEF Parts
  <2> QED BY <1>2, <2>1, <2>2 DEF HistoryOK
<1> QED BY <1>2, <1>3, <1>4 DEF HistoryOK, Persist, Rest

\* A Write after which no milestone that was reached has another time.
LEMMA WriteInd ==
  ASSUME IndInv, now' = now, NEW kept \in SUBSET Parts, Persist(kept), HistoryOK(mem)',
         \A s \in Scopes, m \in Milestone :
             mem.reached[s][m] \in {Unset, mem'.reached[s][m]}
  PROVE  /\ HistoryOK(disk)' /\ DiskInv' /\ faults' \in Nat
         /\ faults' = 0 => faults = 0 /\ disk' = mem'
<1>1. HistoryOK(mem) /\ HistoryOK(disk) /\ Rest /\ DiskInv
  BY ByParts
<1>2. /\ HistoryOK(disk)' /\ faults' \in Nat
      /\ disk'.reached \in {mem'.reached, disk.reached}
      /\ faults' = 0 => faults = 0 /\ disk' = mem'
  BY <1>1, PersistParts
<1>3. DiskInv'
  BY <1>1, <1>2 DEF DiskInv
<1> QED BY <1>2, <1>3

\* A review that is being recorded can be counted.
LEMMA RecordingSize ==
  \A t : Recording(t) \in SUBSET Procs /\ IsFiniteSet(Recording(t)) /\ Cardinality(Recording(t)) \in Nat
BY ReviewHistoryAssumption, FS_Subset, FS_CardinalityType DEF Recording

\* Steps that leave the memory, the answers and the reviews in hand as they are.
LEMMA SameKept ==
  ASSUME KeptInv, mem' = mem, answered' = answered,
         faults' = 0 => faults = 0 /\ disk' = mem',
         \A t \in Tenants : Recording(t)' = Recording(t)
  PROVE  KeptInv'
BY DEF KeptInv

LEMMA HandleInd == ASSUME NEW p \in Procs, IndInv, Handle(p) PROVE IndInv'
<1>0. PICK k \in Events \ {Reviewed} : \E s \in ScopesOf(k) :
         /\ Take(p, s, k, "record")
         /\ \/ mem' = mem /\ Persist(Parts)
            \/ k \in Lenient /\ Write(mem)
            \/ k = Reminded /\ UNCHANGED <<mem, disk, faults>>
  BY DEF Handle
<1>1. PICK s \in ScopesOf(k) :
         /\ Take(p, s, k, "record")
         /\ \/ mem' = mem /\ Persist(Parts)
            \/ k \in Lenient /\ Write(mem)
            \/ k = Reminded /\ UNCHANGED <<mem, disk, faults>>
  BY <1>0
<1>2. HistoryOK(mem) /\ HistoryOK(disk) /\ Rest /\ JobInv /\ DiskInv /\ KeptInv
  BY ByParts
<1>3. UNCHANGED <<now, answered, crashes, mem>>
  BY <1>1 DEF Handle, Write
<1>4. HistoryOK(mem)'
  BY <1>2, <1>3, Later DEF Rest, Ticks
<1>5. /\ HistoryOK(disk)' /\ DiskInv' /\ faults' \in Nat
      /\ faults' = 0 => faults = 0 /\ disk' = mem'
  <2>1. CASE UNCHANGED <<mem, disk, faults>>
    <3>1. HistoryOK(disk)'
      BY <1>2, <1>3, <2>1, Later DEF Rest, Ticks
    <3> QED BY <1>2, <2>1, <3>1 DEF Rest, DiskInv, KeptInv
  <2>2. ASSUME NEW kept \in SUBSET Parts, Persist(kept)
        PROVE  /\ HistoryOK(disk)' /\ DiskInv' /\ faults' \in Nat
               /\ faults' = 0 => faults = 0 /\ disk' = mem'
    BY <1>3, <1>4, <2>2, WriteInd
  <2> QED BY <1>1, <2>1, <2>2 DEF Write
<1>6. /\ pc[p] = "idle" /\ requests' = requests + 1
      /\ pc' = [pc EXCEPT ![p] = "record"]
      /\ job' = [job EXCEPT ![p] = [scope |-> s, kind |-> k, stamp |-> now]]
  BY <1>1 DEF Take
<1>7. s \in Scopes
  BY DEF ScopesOf, Scopes
<1>8. Rest'
  BY <1>2, <1>3, <1>5, <1>6, <1>7 DEF Rest, Jobs
<1>9. /\ pc'[p] = "record" /\ job'[p].kind # Reviewed
      /\ \A q \in Procs : q # p => pc'[q] = pc[q] /\ job'[q] = job[q]
  BY <1>2, <1>6 DEF Rest
<1>10. JobInv'
  BY <1>2, <1>9 DEF JobInv, Tenant
<1>11. \A t \in Tenants : Recording(t)' = Recording(t)
  BY <1>6, <1>9 DEF Recording, Tenant
<1>12. KeptInv'
  BY <1>2, <1>3, <1>5, <1>11, SameKept
<1> QED BY <1>4, <1>5, <1>8, <1>10, <1>12, ByPartsNext

LEMMA HandleFailsInd == ASSUME IndInv, HandleFails PROVE IndInv'
<1>1. PICK kept \in SUBSET Parts : Persist(kept)
  BY DEF HandleFails
<1>2. HistoryOK(mem) /\ HistoryOK(disk) /\ Rest /\ JobInv /\ DiskInv /\ KeptInv
  BY ByParts
<1>3. UNCHANGED <<now, pc, job, answered, crashes, mem>> /\ requests' = requests + 1
  BY DEF HandleFails
<1>4. HistoryOK(mem)'
  BY <1>2, <1>3, Later DEF Rest, Ticks
<1>5. /\ HistoryOK(disk)' /\ DiskInv' /\ faults' \in Nat
      /\ faults' = 0 => faults = 0 /\ disk' = mem'
  BY <1>1, <1>3, <1>4, WriteInd
<1>6. Rest'
  BY <1>2, <1>3, <1>5 DEF Rest
<1>7. JobInv'
  BY <1>2, <1>3 DEF JobInv, Tenant
<1>8. \A t \in Tenants : Recording(t)' = Recording(t)
  BY <1>3 DEF Recording, Tenant
<1>9. KeptInv'
  BY <1>2, <1>3, <1>5, <1>8, SameKept
<1> QED BY <1>4, <1>5, <1>6, <1>7, <1>9, ByPartsNext

LEMMA ReviewInd == ASSUME NEW p \in Procs, IndInv, Review(p) PROVE IndInv'
<1>1. PICK t \in Tenants : Take(p, t, Reviewed, "stamped")
  BY DEF Review
<1>2. HistoryOK(mem) /\ HistoryOK(disk) /\ Rest /\ JobInv /\ DiskInv /\ KeptInv
  BY ByParts
<1>3. UNCHANGED <<now, mem, disk, answered, faults, crashes>>
  BY DEF Review
<1>4. HistoryOK(mem)' /\ HistoryOK(disk)'
  BY <1>2, <1>3, Later DEF Rest, Ticks
<1>5. /\ pc[p] = "idle" /\ requests' = requests + 1
      /\ pc' = [pc EXCEPT ![p] = "stamped"]
      /\ job' = [job EXCEPT ![p] = [scope |-> t, kind |-> Reviewed, stamp |-> now]]
  BY <1>1 DEF Take
<1>6. Rest'
  BY <1>2, <1>3, <1>5 DEF Rest, Jobs, Scopes, Events
<1>7. /\ pc'[p] = "stamped" /\ job'[p].kind = Reviewed /\ job'[p].scope = t
      /\ \A q \in Procs : q # p => pc'[q] = pc[q] /\ job'[q] = job[q]
  BY <1>2, <1>5 DEF Rest
<1>8. JobInv'
  BY <1>2, <1>7 DEF JobInv, Tenant
<1>9. DiskInv'
  BY <1>2, <1>3 DEF DiskInv
<1>10. \A s \in Tenants : Recording(s)' = Recording(s)
  BY <1>5, <1>7 DEF Recording, Tenant
<1>11. KeptInv'
  BY <1>2, <1>3, <1>10 DEF KeptInv
<1> QED BY <1>4, <1>6, <1>8, <1>9, <1>11, ByPartsNext

\* An entry put in front.
LEMMA ConsFacts ==
  ASSUME NEW S, NEW s \in Seq(S), NEW e \in S
  PROVE  /\ Cons(e, s) \in Seq(S) /\ Len(Cons(e, s)) = Len(s) + 1 /\ Len(s) \in Nat
         /\ Cons(e, s)[1] = e
         /\ \A i \in 2 .. Len(s) + 1 : Cons(e, s)[i] = s[i - 1]
<1>1. <<e>> \in Seq(S) /\ Len(<<e>>) = 1 /\ <<e>>[1] = e /\ Len(s) \in Nat
  BY LenProperties
<1>2. /\ <<e>> \o s \in Seq(S) /\ Len(<<e>> \o s) = 1 + Len(s)
      /\ \A i \in 1 .. 1 + Len(s) : (<<e>> \o s)[i] = IF i <= 1 THEN <<e>>[i] ELSE s[i - 1]
  BY <1>1, ConcatProperties
<1> QED BY <1>1, <1>2 DEF Cons

\* The snapshot is kept with the reviews, and counted by the goroutine that
\* will record it.
LEMMA SaveReviewInd == ASSUME NEW p \in Procs, IndInv, SaveReview(p) PROVE IndInv'
<1> DEFINE t == Tenant(p)
           list == Cons(Stamp(p), mem.reviews[t])
<1>1. HistoryOK(mem) /\ HistoryOK(disk) /\ Rest /\ JobInv /\ DiskInv /\ KeptInv
  BY ByParts
<1>2. /\ pc[p] = "stamped" /\ pc' = [pc EXCEPT ![p] = "record"]
      /\ UNCHANGED <<now, job, answered, requests, crashes>>
      /\ mem' = [mem EXCEPT !.reviews[t] = list]
  BY DEF SaveReview, Write
<1>3. PICK kept \in SUBSET Parts : Persist(kept)
  BY DEF SaveReview, Write
<1>4. t \in Tenants /\ job[p].kind = Reviewed /\ Stamp(p) \in Ticks
  BY <1>1, <1>2 DEF JobInv, Rest, Jobs, Stamp
<1>5. mem.reviews[t] \in Seq(Ticks)
  BY <1>1, <1>4 DEF HistoryOK, ReviewsOK
<1>6. list \in Seq(Ticks) /\ Len(list) = Len(mem.reviews[t]) + 1 /\ Len(mem.reviews[t]) \in Nat
  <2>1. PICK e \in Ticks, s \in Seq(Ticks) : e = Stamp(p) /\ s = mem.reviews[t]
    BY <1>4, <1>5
  <2>2. Cons(e, s) \in Seq(Ticks) /\ Len(Cons(e, s)) = Len(s) + 1 /\ Len(s) \in Nat
    BY ConsFacts
  <2> QED BY <2>1, <2>2
<1> HIDE DEF list
<1>7. /\ mem' = [reviews |-> mem'.reviews, events |-> mem'.events, reached |-> mem'.reached]
      /\ mem'.reviews = [mem.reviews EXCEPT ![t] = list]
      /\ mem'.events = mem.events /\ mem'.reached = mem.reached
  BY <1>1, <1>2 DEF HistoryOK
<1>8. HistoryOK(mem)'
  <2>1. ReviewsOK(mem.reviews)'
    BY <1>1, <1>4, <1>6, <1>7 DEF HistoryOK, ReviewsOK
  <2>2. EventsOK(mem.events)' /\ ReachedOK(mem.reached)'
    BY <1>1, <1>2, <1>7 DEF HistoryOK, EventsOK, ReachedOK
  <2> QED BY <1>7, <2>1, <2>2 DEF HistoryOK
<1>9. /\ HistoryOK(disk)' /\ DiskInv' /\ faults' \in Nat
      /\ faults' = 0 => faults = 0 /\ disk' = mem'
  BY <1>2, <1>3, <1>7, <1>8, WriteInd
<1>10. Rest'
  BY <1>1, <1>2, <1>9 DEF Rest
<1>11. pc'[p] = "record" /\ \A q \in Procs : q # p => pc'[q] = pc[q]
  BY <1>1, <1>2 DEF Rest
<1>12. JobInv'
  BY <1>1, <1>2, <1>4, <1>11 DEF JobInv, Tenant
<1>13. KeptInv'
  <2> SUFFICES ASSUME faults' = 0, NEW u \in Tenants
               PROVE  answered[u] + Cardinality(Recording(u)') <= Len(mem'.reviews[u])
    BY <1>2, <1>9 DEF KeptInv
  <2>1. /\ answered[u] + Cardinality(Recording(u)) <= Len(mem.reviews[u])
        /\ answered[u] \in Nat /\ mem.reviews[u] \in Seq(Ticks)
    BY <1>1, <1>9 DEF KeptInv, Rest, HistoryOK, ReviewsOK
  <2>2. /\ IsFiniteSet(Recording(u)) /\ Cardinality(Recording(u)) \in Nat
        /\ Len(mem.reviews[u]) \in Nat
    BY <2>1, RecordingSize, LenProperties
  <2>3. CASE u = t
    <3>1. Recording(u)' = Recording(u) \cup {p} /\ p \notin Recording(u)
      BY <1>2, <1>4, <1>11, <2>3 DEF Recording, Tenant
    <3>2. Cardinality(Recording(u)') = Cardinality(Recording(u)) + 1
      BY <2>2, <3>1, FS_AddElement
    <3>3. Len(mem'.reviews[u]) = Len(mem.reviews[u]) + 1
      BY <1>1, <1>4, <1>6, <1>7, <2>3 DEF HistoryOK, ReviewsOK
    <3> QED BY <2>1, <2>2, <3>2, <3>3
  <2>4. CASE u # t
    <3>1. Recording(u)' = Recording(u)
      BY <1>2, <1>4, <1>11, <2>4 DEF Recording, Tenant
    <3>2. mem'.reviews[u] = mem.reviews[u]
      BY <1>1, <1>4, <1>7, <2>4 DEF HistoryOK, ReviewsOK
    <3> QED BY <2>1, <3>1, <3>2
  <2> QED BY <2>3, <2>4
<1> QED BY <1>8, <1>9, <1>10, <1>12, <1>13, ByPartsNext

\* The newest event in front keeps the list newest first.
LEMMA EventInFront ==
  ASSUME NEW es \in Seq(Event), NEW e \in Event, now \in Ticks, e.at = now,
         NewestFirst(Times(es)), \A i \in 1 .. Len(es) : es[i].at <= now
  PROVE  /\ Cons(e, es) \in Seq(Event) /\ NewestFirst(Times(Cons(e, es)))
         /\ \A i \in 1 .. Len(Cons(e, es)) : Cons(e, es)[i].at <= now
<1> DEFINE new == Cons(e, es)
<1>1. /\ new \in Seq(Event) /\ Len(new) = Len(es) + 1 /\ Len(es) \in Nat
      /\ new[1] = e /\ \A i \in 2 .. Len(es) + 1 : new[i] = es[i - 1]
  BY ConsFacts
<1>2. now \in Int /\ \A i \in 1 .. Len(es) : es[i].at \in Int
  <2>1. \A i \in 1 .. Len(es) : es[i] \in Event
    BY ElementOfSeq
  <2> QED BY <2>1 DEF Event, Ticks
<1> HIDE DEF new
<1>3. \A i \in 1 .. Len(new) : i = 1 \/ (i \in 2 .. Len(es) + 1 /\ i - 1 \in 1 .. Len(es))
  BY <1>1
<1>4. ASSUME NEW i \in 1 .. Len(new) PROVE new[i].at <= now
  <2>1. CASE i = 1
    BY <1>1, <1>2, <2>1
  <2>2. CASE i \in 2 .. Len(es) + 1 /\ i - 1 \in 1 .. Len(es)
    <3>1. new[i] = es[i - 1]
      BY <1>1, <2>2
    <3> QED BY <2>2, <3>1
  <2> QED BY <1>3, <2>1, <2>2
<1>5. NewestFirst(Times(new))
  <2> SUFFICES ASSUME NEW i \in 1 .. Len(new), NEW j \in 1 .. Len(new), i < j
               PROVE  new[i].at >= new[j].at
    <3>1. /\ Times(new) \in Seq(Int) /\ Len(Times(new)) = Len(new)
          /\ \A i \in 1 .. Len(new) : Times(new)[i] = new[i].at
      <4>1. \A i \in 1 .. Len(new) : new[i] \in Event
        BY <1>1, ElementOfSeq
      <4> QED BY <1>1, <4>1 DEF Times, Event, Ticks
    <3> QED BY <3>1 DEF NewestFirst
  <2>1. /\ Len(Times(es)) = Len(es)
        /\ \A k \in 1 .. Len(es) : Times(es)[k] = es[k].at
    BY <1>1, <1>2 DEF Times
  <2>2. \A k, l \in 1 .. Len(es) : k < l => es[k].at >= es[l].at
    BY <2>1 DEF NewestFirst
  <2>3. j \in 2 .. Len(es) + 1 /\ j - 1 \in 1 .. Len(es) /\ new[j] = es[j - 1]
    BY <1>1
  <2>4. CASE i = 1
    BY <1>1, <1>2, <2>3, <2>4
  <2>5. CASE i # 1
    <3>1. i \in 2 .. Len(es) + 1 /\ i - 1 \in 1 .. Len(es) /\ i - 1 < j - 1
      BY <1>1, <2>5
    <3> QED BY <1>1, <2>2, <2>3, <3>1
  <2> QED BY <2>4, <2>5
<1> QED BY <1>1, <1>4, <1>5 DEF new

\* A milestone that is reached keeps its time; the next one is reached now.
LEMMA ReachOnce ==
  ASSUME NEW ms \in ReachedTimes, NEW kind \in Events, now \in Ticks,
         \A m \in Milestone : ms[m] <= now
  PROVE  LET new == Reach(ms, kind, now)
         IN  /\ new \in ReachedTimes
             /\ \A m \in Milestone : new[m] <= now /\ ms[m] \in {Unset, new[m]}
<1> DEFINE new == Reach(ms, kind, now)
<1>1. new \in ReachedTimes
  BY DEF Reach, ReachedTimes
<1>2. \A m \in Milestone : \/ new[m] = now /\ ms[m] = Unset
                           \/ new[m] = ms[m]
  BY DEF Reach, IsNext
<1>3. now \in Int
  BY DEF Ticks
<1> QED BY <1>1, <1>2, <1>3

\* The second review is reached only after the first.
LEMMA ReachFacts ==
  ASSUME NEW ms \in ReachedTimes, NEW kind \in Events, now \in Ticks,
         \A m \in Milestone : ms[m] <= now,
         ms["secondReview"] # Unset =>
             ms["firstReview"] # Unset /\ ms["firstReview"] <= ms["secondReview"]
  PROVE  LET new == Reach(ms, kind, now)
         IN  /\ new \in ReachedTimes
             /\ \A m \in Milestone : new[m] <= now /\ ms[m] \in {Unset, new[m]}
             /\ new["secondReview"] # Unset =>
                    new["firstReview"] # Unset /\ new["firstReview"] <= new["secondReview"]
<1> DEFINE new == Reach(ms, kind, now)
           Got(m) == \E i \in 1 .. Len(Milestones(kind)) :
                        Milestones(kind)[i] = m /\ IsNext(ms, kind, i)
<1>1. \A m \in Milestone : new[m] = IF Got(m) THEN now ELSE ms[m]
  BY DEF Reach
<1>2. new \in ReachedTimes
  BY DEF Reach, ReachedTimes
<1>3. \A m \in Milestone : Got(m) => ms[m] = Unset
  BY DEF IsNext
<1>4. now \in Int /\ now # Unset
  BY DEF Ticks, Unset
<1>5. \A m \in Milestone : new[m] <= now /\ ms[m] \in {Unset, new[m]}
  BY <1>1, <1>3, <1>4
<1>6. Got("secondReview") => ms["firstReview"] # Unset
  <2> SUFFICES ASSUME NEW i \in 1 .. Len(Milestones(kind)),
                      Milestones(kind)[i] = "secondReview", IsNext(ms, kind, i)
               PROVE  ms["firstReview"] # Unset
    OBVIOUS
  <2>1. kind = Reviewed
    BY DEF Milestones, Events, Strict, Lenient, Reviewed, Reminded
  <2>2. Milestones(kind) = <<"firstReview", "secondReview">>
    BY <2>1 DEF Milestones, Reviewed, Reminded
  <2>3. i = 2
    BY <2>2
  <2> QED BY <2>2, <2>3 DEF IsNext
<1>7. "firstReview" \in Milestone /\ "secondReview" \in Milestone
  BY DEF Milestone
<1> HIDE DEF new, Got
<1>8. new["secondReview"] # Unset =>
          new["firstReview"] # Unset /\ new["firstReview"] <= new["secondReview"]
  <2>1. ms["firstReview"] \in Int /\ ms["secondReview"] \in Int
    BY <1>7 DEF ReachedTimes, Ticks, Unset
  <2>2. CASE Got("secondReview")
    BY <1>1, <1>3, <1>4, <1>5, <1>6, <1>7, <2>1, <2>2
  <2>3. CASE ~Got("secondReview")
    BY <1>1, <1>3, <1>5, <1>7, <2>1, <2>3
  <2> QED BY <2>2, <2>3
<1> QED BY <1>2, <1>5, <1>8 DEF new

\* What RecordEvent makes of the memory, part by part.
LEMMA RecordedParts ==
  ASSUME NEW p \in Procs, IndInv, RecordEvent(p)
  PROVE  /\ HistoryOK(mem)' /\ mem'.reviews = mem.reviews
         /\ \A s \in Scopes, m \in Milestone :
               mem.reached[s][m] \in {Unset, mem'.reached[s][m]}
<1>1. HistoryOK(mem) /\ Rest
  BY ByParts
<1>2. now' = now /\ job[p] \in Jobs
  BY <1>1 DEF RecordEvent, Rest
<1>3. PICK s \in Scopes, k \in Events : s = Tenant(p) /\ k = job[p].kind
  BY <1>2 DEF Jobs, Tenant
<1>4. PICK es \in Seq(Event) : es = mem.events[s]
  BY <1>1, <1>3 DEF HistoryOK, EventsOK
<1>5. PICK ms \in ReachedTimes : ms = mem.reached[s]
  BY <1>1, <1>3 DEF HistoryOK, ReachedOK
<1>6. PICK e \in Event : e = [kind |-> k, at |-> now]
  BY <1>1 DEF Event, Rest
<1> DEFINE list == Cons(e, es)
           new == Reach(ms, k, now)
<1>7. mem' = [mem EXCEPT !.events[s] = list, !.reached[s] = new]
  BY <1>3, <1>4, <1>5, <1>6 DEF RecordEvent, Write
<1>8. /\ list \in Seq(Event) /\ NewestFirst(Times(list))
      /\ \A i \in 1 .. Len(list) : list[i].at <= now
  <2>1. now \in Ticks /\ e.at = now
    BY <1>1, <1>6 DEF Rest
  <2>2. NewestFirst(Times(es)) /\ \A i \in 1 .. Len(es) : es[i].at <= now
    BY <1>1, <1>4 DEF HistoryOK, EventsOK
  <2> QED BY <2>1, <2>2, EventInFront
<1>9. /\ new \in ReachedTimes
      /\ \A m \in Milestone : new[m] <= now /\ ms[m] \in {Unset, new[m]}
      /\ s \in Tenants => (new["secondReview"] # Unset =>
             new["firstReview"] # Unset /\ new["firstReview"] <= new["secondReview"])
  <2>1. now \in Ticks /\ \A m \in Milestone : ms[m] <= now
    BY <1>1, <1>5 DEF HistoryOK, ReachedOK, Rest
  <2>2. CASE s \in Tenants
    <3>1. ms["secondReview"] # Unset =>
             ms["firstReview"] # Unset /\ ms["firstReview"] <= ms["secondReview"]
      BY <1>1, <1>5, <2>2 DEF HistoryOK, ReachedOK
    <3> QED BY <2>1, <3>1, ReachFacts
  <2>3. CASE s \notin Tenants
    <3>1. \A m \in Milestone : ms[m] <= now
      BY <2>1
    <3> QED BY <2>1, <2>3, <3>1, ReachOnce
  <2> QED BY <2>2, <2>3
<1> HIDE DEF list, new
<1>10. /\ mem' = [reviews |-> mem'.reviews, events |-> mem'.events, reached |-> mem'.reached]
       /\ mem'.events = [mem.events EXCEPT ![s] = list]
       /\ mem'.reached = [mem.reached EXCEPT ![s] = new]
       /\ mem'.reviews = mem.reviews
  BY <1>1, <1>7 DEF HistoryOK
<1>11. /\ mem.events \in [Scopes -> Seq(Event)] /\ mem.reached \in [Scopes -> ReachedTimes]
  BY <1>1 DEF HistoryOK, EventsOK, ReachedOK
<1>12. /\ mem'.events[s] = list /\ mem'.reached[s] = new
       /\ \A u \in Scopes : u # s => /\ mem'.events[u] = mem.events[u]
                                     /\ mem'.reached[u] = mem.reached[u]
  BY <1>10, <1>11
<1>13. EventsOK(mem.events)'
  <2>1. mem'.events \in [Scopes -> Seq(Event)]
    BY <1>8, <1>10, <1>11
  <2>2. ASSUME NEW u \in Scopes
        PROVE  /\ NewestFirst(Times(mem'.events[u]))
               /\ \A i \in 1 .. Len(mem'.events[u]) : mem'.events[u][i].at <= now
    BY <1>1, <1>8, <1>12 DEF HistoryOK, EventsOK
  <2> QED BY <1>2, <2>1, <2>2 DEF EventsOK
<1>14. ReachedOK(mem.reached)'
  <2>1. mem'.reached \in [Scopes -> ReachedTimes]
    BY <1>9, <1>10, <1>11
  <2>2. ASSUME NEW u \in Scopes, NEW m \in Milestone PROVE mem'.reached[u][m] <= now
    BY <1>1, <1>9, <1>12 DEF HistoryOK, ReachedOK
  <2>3. ASSUME NEW t \in Tenants, mem'.reached[t]["secondReview"] # Unset
        PROVE  /\ mem'.reached[t]["firstReview"] # Unset
               /\ mem'.reached[t]["firstReview"] <= mem'.reached[t]["secondReview"]
    <3>1. t \in Scopes
      BY DEF Scopes
    <3>2. CASE t = s
      BY <1>9, <1>12, <2>3, <3>2
    <3>3. CASE t # s
      BY <1>1, <1>12, <2>3, <3>1, <3>3 DEF HistoryOK, ReachedOK
    <3> QED BY <3>2, <3>3
  <2> QED BY <1>2, <2>1, <2>2, <2>3 DEF ReachedOK
<1>15. HistoryOK(mem)'
  <2>1. ReviewsOK(mem.reviews)'
    BY <1>1, <1>10 DEF HistoryOK, ReviewsOK
  <2> QED BY <1>10, <1>13, <1>14, <2>1 DEF HistoryOK
<1>16. ASSUME NEW u \in Scopes, NEW m \in Milestone
       PROVE  mem.reached[u][m] \in {Unset, mem'.reached[u][m]}
  BY <1>5, <1>9, <1>12
<1> QED BY <1>10, <1>15, <1>16

LEMMA RecordEventInd == ASSUME NEW p \in Procs, IndInv, RecordEvent(p) PROVE IndInv'
<1>1. HistoryOK(mem) /\ HistoryOK(disk) /\ Rest /\ JobInv /\ DiskInv /\ KeptInv
  BY ByParts
<1>2. /\ pc[p] = "record" /\ pc' = [pc EXCEPT ![p] = "idle"]
      /\ job' = [job EXCEPT ![p] = NoJob]
      /\ UNCHANGED <<now, requests, crashes>>
  BY DEF RecordEvent, Done
<1>3. PICK kept \in SUBSET Parts : Persist(kept)
  BY DEF RecordEvent, Write
<1>4. /\ HistoryOK(mem)' /\ mem'.reviews = mem.reviews
      /\ \A s \in Scopes, m \in Milestone :
            mem.reached[s][m] \in {Unset, mem'.reached[s][m]}
  BY RecordedParts
<1>5. /\ HistoryOK(disk)' /\ DiskInv' /\ faults' \in Nat
      /\ faults' = 0 => faults = 0 /\ disk' = mem'
  BY <1>2, <1>3, <1>4, WriteInd
<1>6. NoJob \in Jobs
  BY ReviewHistoryAssumption DEF NoJob, Jobs, Scopes, Events, Ticks
<1>7. IF job[p].kind = Reviewed
      THEN answered' = [answered EXCEPT ![Tenant(p)] = @ + 1] ELSE answered' = answered
  BY DEF RecordEvent, Answer
<1>8. answered' \in [Tenants -> Nat]
  BY <1>1, <1>7 DEF Rest
<1>9. Rest'
  BY <1>1, <1>2, <1>5, <1>6, <1>8 DEF Rest
<1>10. /\ pc'[p] = "idle"
       /\ \A q \in Procs : q # p => pc'[q] = pc[q] /\ job'[q] = job[q]
  BY <1>1, <1>2 DEF Rest
<1>11. JobInv'
  BY <1>1, <1>10 DEF JobInv, Tenant
<1>12. KeptInv'
  <2> SUFFICES ASSUME faults' = 0, NEW u \in Tenants
               PROVE  answered'[u] + Cardinality(Recording(u)') <= Len(mem.reviews[u])
    BY <1>4, <1>5 DEF KeptInv
  <2>1. /\ answered[u] + Cardinality(Recording(u)) <= Len(mem.reviews[u])
        /\ answered[u] \in Nat /\ mem.reviews[u] \in Seq(Ticks)
    BY <1>1, <1>5 DEF KeptInv, Rest, HistoryOK, ReviewsOK
  <2>2. /\ IsFiniteSet(Recording(u)) /\ Cardinality(Recording(u)) \in Nat
        /\ Len(mem.reviews[u]) \in Nat
    BY <2>1, RecordingSize, LenProperties
  <2>3. Recording(u)' = Recording(u) \ {p}
    BY <1>10 DEF Recording, Tenant
  <2>4. CASE p \in Recording(u)
    <3>1. answered'[u] = answered[u] + 1
      BY <1>1, <1>7, <2>4 DEF Recording, Rest
    <3>2. Cardinality(Recording(u)') = Cardinality(Recording(u)) - 1
      BY <2>2, <2>3, <2>4, FS_RemoveElement
    <3> QED BY <2>1, <2>2, <3>1, <3>2
  <2>5. CASE p \notin Recording(u)
    <3>1. answered'[u] = answered[u]
      BY <1>1, <1>2, <1>7, <2>5 DEF Recording, Rest
    <3>2. Recording(u)' = Recording(u)
      BY <2>3, <2>5
    <3> QED BY <2>1, <3>1, <3>2
  <2> QED BY <2>4, <2>5
<1> QED BY <1>4, <1>5, <1>9, <1>11, <1>12, ByPartsNext

-----------------------------------------------------------------------------
LEMMA TickInd == ASSUME IndInv, Tick PROVE IndInv'
<1>1. HistoryOK(mem) /\ HistoryOK(disk) /\ Rest /\ JobInv /\ DiskInv /\ KeptInv
  BY ByParts
<1>2. /\ now' \in Ticks /\ now <= now'
      /\ UNCHANGED <<mem, disk, pc, job, answered, requests, faults, crashes>>
  BY <1>1, ReviewHistoryAssumption DEF Tick, Rest, Ticks
<1>3. HistoryOK(mem)' /\ HistoryOK(disk)'
  BY <1>1, <1>2, Later
<1>4. Rest' /\ JobInv' /\ DiskInv' /\ KeptInv'
  BY <1>1, <1>2 DEF Rest, JobInv, Tenant, DiskInv, KeptInv, Recording
<1> QED BY <1>3, <1>4, ByPartsNext

LEMMA CrashInd == ASSUME IndInv, Crash PROVE IndInv'
<1>1. HistoryOK(mem) /\ HistoryOK(disk) /\ Rest /\ JobInv /\ DiskInv /\ KeptInv
  BY ByParts
<1>2. /\ crashes' = crashes + 1 /\ mem' = disk
      /\ pc' = [p \in Procs |-> "idle"] /\ job' = [p \in Procs |-> NoJob]
      /\ UNCHANGED <<now, disk, answered, requests, faults>>
  BY DEF Crash
<1>3. HistoryOK(disk)' /\ HistoryOK(mem)'
  <2>1. HistoryOK(disk)'
    BY <1>1, <1>2, Later DEF Rest, Ticks
  <2> QED BY <1>2, <2>1 DEF HistoryOK, ReviewsOK, EventsOK, ReachedOK
<1>4. NoJob \in Jobs
  BY ReviewHistoryAssumption DEF NoJob, Jobs, Scopes, Events, Ticks
<1>5. Rest'
  BY <1>1, <1>2, <1>4 DEF Rest
<1>6. JobInv'
  BY <1>2 DEF JobInv
<1>7. DiskInv'
  BY <1>2 DEF DiskInv
<1>8. KeptInv'
  <2> SUFFICES ASSUME faults = 0, NEW t \in Tenants
               PROVE  answered[t] + Cardinality(Recording(t)') <= Len(mem.reviews[t])
    BY <1>1, <1>2 DEF KeptInv
  <2>1. Recording(t)' = {}
    BY <1>2 DEF Recording
  <2>2. Cardinality(Recording(t)') = 0
    BY <2>1, FS_EmptySet
  <2>3. /\ answered[t] + Cardinality(Recording(t)) <= Len(mem.reviews[t])
        /\ answered[t] \in Nat /\ mem.reviews[t] \in Seq(Ticks)
    BY <1>1 DEF KeptInv, Rest, HistoryOK, ReviewsOK
  <2>4. Cardinality(Recording(t)) \in Nat /\ Len(mem.reviews[t]) \in Nat
    BY <2>3, RecordingSize, LenProperties
  <2> QED BY <2>2, <2>3, <2>4
<1> QED BY <1>3, <1>5, <1>6, <1>7, <1>8, ByPartsNext

LEMMA NextInd == IndInv /\ [Next]_vars => IndInv'
<1> SUFFICES ASSUME IndInv, [Next]_vars PROVE IndInv'
  OBVIOUS
<1>1. CASE UNCHANGED vars
  BY <1>1
  DEF vars, IndInv, TypeOK, EventsInOrder, SecondAfterFirst, JobInv, Tenant, PastInv, DiskInv,
      KeptInv, Recording
<1> QED
  BY <1>1, TickInd, CrashInd, HandleFailsInd, HandleInd, ReviewInd, SaveReviewInd,
     RecordEventInd
  DEF Next

-----------------------------------------------------------------------------
(* History only grows at its front.                                          *)
IsTail(s, t) == /\ Len(s) <= Len(t)
                /\ \A i \in 1 .. Len(s) : t[Len(t) - Len(s) + i] = s[i]

LEMMA SuffixIsTail ==
  ASSUME NEW S, NEW s \in Seq(S), NEW t \in Seq(S)
  PROVE  IsSuffix(s, t) <=> IsTail(s, t)
<1> DEFINE a == Reverse(s)
           b == Reverse(t)
<1>1. /\ a \in Seq(S) /\ b \in Seq(S) /\ Len(a) = Len(s) /\ Len(b) = Len(t)
      /\ Len(s) \in Nat /\ Len(t) \in Nat
      /\ \A i \in 1 .. Len(s) : a[i] = s[Len(s) - i + 1]
      /\ \A i \in 1 .. Len(t) : b[i] = t[Len(t) - i + 1]
  BY LenProperties, ElementOfSeq DEF Reverse
<1> HIDE DEF a, b
<1>2. IsSuffix(s, t) <=> Len(a) <= Len(b) /\ \A i \in 1 .. Len(a) : a[i] = b[i]
  <2>1. IsSuffix(s, t) <=> Len(a) <= Len(b) /\ SubSeq(a, 1, Len(a)) = SubSeq(b, 1, Len(a))
    BY DEF IsSuffix, IsPrefix, a, b
  <2>2. CASE Len(a) <= Len(b)
    <3>1. SubSeq(a, 1, Len(a)) = a
      BY <1>1
    <3>2. /\ SubSeq(b, 1, Len(a)) \in Seq(S) /\ Len(SubSeq(b, 1, Len(a))) = Len(a)
          /\ \A i \in 1 .. Len(a) : SubSeq(b, 1, Len(a))[i] = b[i]
      BY <1>1, <2>2
    <3> QED BY <1>1, <2>1, <2>2, <3>1, <3>2, SeqEqual
  <2> QED BY <2>1, <2>2
<1>3. ASSUME Len(s) <= Len(t)
      PROVE  (\A i \in 1 .. Len(s) : a[i] = b[i]) <=>
             \A i \in 1 .. Len(s) : t[Len(t) - Len(s) + i] = s[i]
  <2>1. ASSUME \A i \in 1 .. Len(s) : a[i] = b[i], NEW i \in 1 .. Len(s)
        PROVE  t[Len(t) - Len(s) + i] = s[i]
    <3>1. PICK j \in 1 .. Len(s) : j = Len(s) - i + 1
      BY <1>1
    <3>2. j \in 1 .. Len(t) /\ Len(s) - j + 1 = i /\ Len(t) - j + 1 = Len(t) - Len(s) + i
      BY <1>1, <1>3, <3>1
    <3> QED BY <1>1, <2>1, <3>2
  <2>2. ASSUME \A i \in 1 .. Len(s) : t[Len(t) - Len(s) + i] = s[i], NEW i \in 1 .. Len(s)
        PROVE  a[i] = b[i]
    <3>1. PICK j \in 1 .. Len(s) : j = Len(s) - i + 1
      BY <1>1
    <3>2. i \in 1 .. Len(t) /\ Len(t) - i + 1 = Len(t) - Len(s) + j
      BY <1>1, <1>3, <3>1
    <3> QED BY <1>1, <2>2, <3>1, <3>2
  <2> QED BY <2>1, <2>2
<1> QED BY <1>1, <1>2, <1>3 DEF IsTail

LEMMA TailTransitive ==
  ASSUME NEW S, NEW s \in Seq(S), NEW t \in Seq(S), NEW u \in Seq(S), IsTail(s, t), IsTail(t, u)
  PROVE  IsTail(s, u)
<1>1. Len(s) \in Nat /\ Len(t) \in Nat /\ Len(u) \in Nat
  BY LenProperties
<1> SUFFICES ASSUME NEW i \in 1 .. Len(s) PROVE u[Len(u) - Len(s) + i] = s[i]
  BY <1>1 DEF IsTail
<1>2. PICK j \in 1 .. Len(t) : j = Len(t) - Len(s) + i
  BY <1>1 DEF IsTail
<1>3. t[j] = s[i] /\ u[Len(u) - Len(t) + j] = t[j]
  BY <1>2 DEF IsTail
<1> QED BY <1>1, <1>2, <1>3

LEMMA TailOfCons ==
  ASSUME NEW S, NEW s \in Seq(S), NEW e \in S
  PROVE  IsTail(s, Cons(e, s))
<1> DEFINE new == Cons(e, s)
<1>1. /\ Len(new) = Len(s) + 1 /\ Len(s) \in Nat
      /\ \A i \in 2 .. Len(s) + 1 : new[i] = s[i - 1]
  BY ConsFacts
<1> HIDE DEF new
<1>2. ASSUME NEW i \in 1 .. Len(s) PROVE new[Len(new) - Len(s) + i] = s[i]
  <2>1. PICK j \in 2 .. Len(s) + 1 : j = i + 1
    BY <1>1
  <2> QED BY <1>1, <2>1
<1> QED BY <1>1, <1>2 DEF IsTail, new

\* Lists of reviews and of events, tenant by tenant.
Grows(old, new, D) == \A x \in D : IsTail(old[x], new[x])

LEMMA GrowsByParts ==
  ASSUME NEW h, NEW g,
         h.reviews \in [Tenants -> Seq(Ticks)], g.reviews \in [Tenants -> Seq(Ticks)],
         h.events \in [Scopes -> Seq(Event)], g.events \in [Scopes -> Seq(Event)]
  PROVE  GrowsOnly(h, g) <=> /\ Grows(h.reviews, g.reviews, Tenants)
                             /\ Grows(h.events, g.events, Scopes)
<1>1. \A t \in Tenants : IsSuffix(h.reviews[t], g.reviews[t]) <=> IsTail(h.reviews[t], g.reviews[t])
  <2> SUFFICES ASSUME NEW t \in Tenants
               PROVE  IsSuffix(h.reviews[t], g.reviews[t]) <=> IsTail(h.reviews[t], g.reviews[t])
    OBVIOUS
  <2>1. h.reviews[t] \in Seq(Ticks) /\ g.reviews[t] \in Seq(Ticks)
    OBVIOUS
  <2> QED BY <2>1, SuffixIsTail
<1>2. \A s \in Scopes : IsSuffix(h.events[s], g.events[s]) <=> IsTail(h.events[s], g.events[s])
  <2> SUFFICES ASSUME NEW s \in Scopes
               PROVE  IsSuffix(h.events[s], g.events[s]) <=> IsTail(h.events[s], g.events[s])
    OBVIOUS
  <2>1. h.events[s] \in Seq(Event) /\ g.events[s] \in Seq(Event)
    OBVIOUS
  <2> QED BY <2>1, SuffixIsTail
<1> QED BY <1>1, <1>2 DEF GrowsOnly, Grows

LEMMA GrowsTransitive ==
  ASSUME NEW S, NEW D, NEW a \in [D -> Seq(S)], NEW b \in [D -> Seq(S)], NEW c \in [D -> Seq(S)],
         Grows(a, b, D), Grows(b, c, D)
  PROVE  Grows(a, c, D)
<1> SUFFICES ASSUME NEW x \in D PROVE IsTail(a[x], c[x])
  BY DEF Grows
<1>1. a[x] \in Seq(S) /\ b[x] \in Seq(S) /\ c[x] \in Seq(S) /\ IsTail(a[x], b[x]) /\ IsTail(b[x], c[x])
  BY DEF Grows
<1> QED BY <1>1, TailTransitive

LEMMA GrowsReflexive == ASSUME NEW S, NEW D, NEW a \in [D -> Seq(S)] PROVE Grows(a, a, D)
<1> SUFFICES ASSUME NEW x \in D PROVE IsTail(a[x], a[x])
  BY DEF Grows
<1>1. Len(a[x]) \in Nat
  BY LenProperties
<1> QED BY <1>1 DEF IsTail

LEMMA GrowsInFront ==
  ASSUME NEW S, NEW D, NEW a \in [D -> Seq(S)], NEW x \in D, NEW e \in S
  PROVE  Grows(a, [a EXCEPT ![x] = Cons(e, a[x])], D)
<1> DEFINE b == [a EXCEPT ![x] = Cons(e, a[x])]
<1>1. b[x] = Cons(e, a[x]) /\ a[x] \in Seq(S) /\ \A y \in D : y # x => b[y] = a[y]
  OBVIOUS
<1>2. IsTail(a[x], b[x])
  BY <1>1, TailOfCons
<1>3. Grows(a, a, D)
  BY GrowsReflexive
<1> HIDE DEF b
<1>4. Grows(a, b, D)
  BY <1>1, <1>2, <1>3 DEF Grows
<1> QED BY <1>4 DEF b

\* What each step does to the lists: in memory it adds in front of one of them,
\* and on disk each is as it was or as the memory has it.
Lists(h) == /\ h.reviews \in [Tenants -> Seq(Ticks)]
            /\ h.events \in [Scopes -> Seq(Event)]

Adds == /\ Grows(mem.reviews, mem'.reviews, Tenants)
        /\ Grows(mem.events, mem'.events, Scopes)
        /\ disk'.reviews \in {disk.reviews, mem'.reviews}
        /\ disk'.events \in {disk.events, mem'.events}

LEMMA ListsOK == IndInv => Lists(mem) /\ Lists(disk)
BY ByParts DEF HistoryOK, ReviewsOK, EventsOK, Lists

LEMMA PersistLists ==
  ASSUME NEW kept \in SUBSET Parts, Persist(kept)
  PROVE  /\ disk'.reviews \in {disk.reviews, mem'.reviews}
         /\ disk'.events \in {disk.events, mem'.events}
BY DEF Persist, Parts

LEMMA SameGrows ==
  ASSUME IndInv, mem' = mem,
         disk' = disk \/ \E kept \in SUBSET Parts : Persist(kept)
  PROVE  Adds
<1>1. /\ Grows(mem.reviews, mem.reviews, Tenants)
      /\ Grows(mem.events, mem.events, Scopes)
  <2>1. mem.reviews \in [Tenants -> Seq(Ticks)] /\ mem.events \in [Scopes -> Seq(Event)]
    BY ListsOK DEF Lists
  <2> QED BY <2>1, GrowsReflexive
<1> QED BY <1>1, PersistLists DEF Adds

LEMMA SaveReviewAdds == ASSUME NEW p \in Procs, IndInv, SaveReview(p) PROVE Adds
<1>1. PICK kept \in SUBSET Parts : Persist(kept)
  BY DEF SaveReview, Write
<1>2. /\ mem' = [mem EXCEPT !.reviews[Tenant(p)] = Cons(Stamp(p), mem.reviews[Tenant(p)])]
      /\ pc[p] = "stamped"
  BY DEF SaveReview, Write
<1>3. HistoryOK(mem) /\ Rest /\ JobInv
  BY ByParts
<1>4. PICK t \in Tenants, e \in Ticks : t = Tenant(p) /\ e = Stamp(p)
  BY <1>2, <1>3 DEF JobInv, Rest, Jobs, Stamp
<1>5. /\ mem'.reviews = [mem.reviews EXCEPT ![t] = Cons(e, mem.reviews[t])]
      /\ mem'.events = mem.events
  BY <1>2, <1>3, <1>4 DEF HistoryOK
<1>6. mem.reviews \in [Tenants -> Seq(Ticks)] /\ mem.events \in [Scopes -> Seq(Event)]
  BY ListsOK DEF Lists
<1>7. Grows(mem.reviews, mem'.reviews, Tenants)
  <2>1. PICK a \in [Tenants -> Seq(Ticks)] : a = mem.reviews
    BY <1>6
  <2>2. Grows(a, [a EXCEPT ![t] = Cons(e, a[t])], Tenants)
    BY GrowsInFront
  <2> QED BY <1>5, <2>1, <2>2
<1>8. Grows(mem.events, mem'.events, Scopes)
  BY <1>5, <1>6, GrowsReflexive
<1> QED BY <1>1, <1>7, <1>8, PersistLists DEF Adds

LEMMA RecordEventAdds == ASSUME NEW p \in Procs, IndInv, RecordEvent(p) PROVE Adds
<1>1. PICK kept \in SUBSET Parts : Persist(kept)
  BY DEF RecordEvent, Write
<1>2. HistoryOK(mem) /\ Rest
  BY ByParts
<1>3. PICK s \in Scopes, e \in Event : s = Tenant(p) /\ e = [kind |-> job[p].kind, at |-> now]
  BY <1>2 DEF Rest, Jobs, Tenant, Event
<1>4. PICK new : mem' = [mem EXCEPT !.events[s] = Cons(e, mem.events[s]), !.reached[s] = new]
  BY <1>3 DEF RecordEvent, Write
<1>5. /\ mem'.events = [mem.events EXCEPT ![s] = Cons(e, mem.events[s])]
      /\ mem'.reviews = mem.reviews
  BY <1>2, <1>4 DEF HistoryOK
<1>6. mem.reviews \in [Tenants -> Seq(Ticks)] /\ mem.events \in [Scopes -> Seq(Event)]
  BY ListsOK DEF Lists
<1>7. Grows(mem.events, mem'.events, Scopes)
  <2>1. PICK a \in [Scopes -> Seq(Event)] : a = mem.events
    BY <1>6
  <2>2. Grows(a, [a EXCEPT ![s] = Cons(e, a[s])], Scopes)
    BY GrowsInFront
  <2> QED BY <1>5, <2>1, <2>2
<1>8. Grows(mem.reviews, mem'.reviews, Tenants)
  BY <1>5, <1>6, GrowsReflexive
<1> QED BY <1>1, <1>7, <1>8, PersistLists DEF Adds

LEMMA StepAdds ==
  ASSUME IndInv, [Next]_vars
  PROVE  \/ crashes' = crashes /\ Adds
         \/ crashes' # crashes /\ mem' = disk /\ disk' = disk
<1>1. CASE Crash
  BY <1>1 DEF Crash, IndInv, TypeOK
<1>2. CASE UNCHANGED vars \/ Tick \/ HandleFails
  BY <1>2, SameGrows DEF vars, Tick, HandleFails
<1>3. ASSUME NEW p \in Procs, Handle(p) \/ Review(p) PROVE crashes' = crashes /\ Adds
  <2>1. crashes' = crashes /\ mem' = mem
    BY <1>3 DEF Handle, Review, Write
  <2>2. disk' = disk \/ \E kept \in SUBSET Parts : Persist(kept)
    BY <1>3 DEF Handle, Review, Write
  <2> QED BY <2>1, <2>2, SameGrows
<1>4. ASSUME NEW p \in Procs, SaveReview(p) \/ RecordEvent(p) PROVE crashes' = crashes /\ Adds
  BY <1>4, SaveReviewAdds, RecordEventAdds DEF SaveReview, RecordEvent
<1> QED BY <1>1, <1>2, <1>3, <1>4 DEF Next

\* A step of the history: it grows, or a crash takes it back.
GrowsOrGoesBack == IF crashes' = crashes THEN GrowsOnly(mem, mem') ELSE GrowsOnly(mem', mem)

LEMMA TailNext == IndInv /\ IndInv' /\ TailInv /\ [Next]_vars => TailInv' /\ GrowsOrGoesBack
<1> SUFFICES ASSUME IndInv, IndInv', TailInv, [Next]_vars PROVE TailInv' /\ GrowsOrGoesBack
  OBVIOUS
<1>1. Lists(mem) /\ Lists(disk) /\ Lists(mem)' /\ Lists(disk)'
  BY ListsOK, PTL
<1>2. /\ mem.reviews \in [Tenants -> Seq(Ticks)] /\ mem.events \in [Scopes -> Seq(Event)]
      /\ disk.reviews \in [Tenants -> Seq(Ticks)] /\ disk.events \in [Scopes -> Seq(Event)]
      /\ mem'.reviews \in [Tenants -> Seq(Ticks)] /\ mem'.events \in [Scopes -> Seq(Event)]
      /\ disk'.reviews \in [Tenants -> Seq(Ticks)] /\ disk'.events \in [Scopes -> Seq(Event)]
  BY <1>1 DEF Lists
<1>3. /\ Grows(disk.reviews, mem.reviews, Tenants) /\ Grows(disk.events, mem.events, Scopes)
  BY <1>2, GrowsByParts DEF TailInv
<1>4. CASE crashes' = crashes /\ Adds
  <2>1. GrowsOnly(mem, mem')
    BY <1>2, <1>4, GrowsByParts DEF Adds
  <2>2. Grows(disk'.reviews, mem'.reviews, Tenants)
    BY <1>2, <1>3, <1>4, GrowsTransitive, GrowsReflexive DEF Adds
  <2>3. Grows(disk'.events, mem'.events, Scopes)
    BY <1>2, <1>3, <1>4, GrowsTransitive, GrowsReflexive DEF Adds
  <2>4. GrowsOnly(disk', mem')
    BY <1>2, <2>2, <2>3, GrowsByParts
  <2> QED BY <1>4, <2>1, <2>4 DEF TailInv, GrowsOrGoesBack, GrowsOnly
<1>5. CASE crashes' # crashes /\ mem' = disk /\ disk' = disk
  <2>1. GrowsOnly(disk, disk)
    BY <1>2, GrowsReflexive, GrowsByParts
  <2> QED BY <1>5, <2>1 DEF TailInv, GrowsOrGoesBack, GrowsOnly
<1> QED BY <1>4, <1>5, StepAdds

LEMMA TailInit == Init => TailInv
<1> SUFFICES ASSUME Init PROVE TailInv
  OBVIOUS
<1>1. mem.reviews \in [Tenants -> Seq(Ticks)] /\ mem.events \in [Scopes -> Seq(Event)]
  BY InitInd, ListsOK DEF Lists
<1>2. GrowsOnly(mem, mem)
  BY <1>1, GrowsReflexive, GrowsByParts
<1> QED BY <1>2 DEF Init, TailInv

\* What a step may do to a milestone.
Stable ==
    \A s \in Scopes, m \in Milestone :
        LET old   == mem.reached[s][m]
            saved == disk.reached[s][m]
            new   == mem'.reached[s][m]
        IN  /\ saved # Unset => new = saved /\ disk'.reached[s][m] = saved
            /\ old # Unset => \/ new = old
                              \/ /\ new = Unset /\ saved = Unset
                                 /\ crashes' # crashes /\ faults > 0

\* A step other than a crash keeps the milestones of the memory, and leaves
\* their file as it is or writes it.
KeepsReached ==
    /\ \A s \in Scopes, m \in Milestone :
          mem.reached[s][m] # Unset => mem'.reached[s][m] = mem.reached[s][m]
    /\ disk'.reached \in {disk.reached, mem'.reached}

LEMMA KeepsIsStable == ASSUME IndInv, KeepsReached PROVE Stable
<1> SUFFICES ASSUME NEW s \in Scopes, NEW m \in Milestone
             PROVE  /\ disk.reached[s][m] # Unset =>
                          /\ mem'.reached[s][m] = disk.reached[s][m]
                          /\ disk'.reached[s][m] = disk.reached[s][m]
                    /\ mem.reached[s][m] # Unset => mem'.reached[s][m] = mem.reached[s][m]
  BY Zenon DEF Stable
<1>1. disk.reached[s][m] \in {Unset, mem.reached[s][m]}
  BY DEF IndInv, DiskInv
<1>2. mem.reached[s][m] # Unset => mem'.reached[s][m] = mem.reached[s][m]
  BY DEF KeepsReached
<1>3. disk'.reached[s][m] \in {disk.reached[s][m], mem'.reached[s][m]}
  BY DEF KeepsReached
<1> QED BY <1>1, <1>2, <1>3

LEMMA CrashStable == ASSUME IndInv, Crash PROVE Stable
<1> SUFFICES ASSUME NEW s \in Scopes, NEW m \in Milestone
             PROVE  /\ disk.reached[s][m] # Unset =>
                          /\ mem'.reached[s][m] = disk.reached[s][m]
                          /\ disk'.reached[s][m] = disk.reached[s][m]
                    /\ mem.reached[s][m] # Unset =>
                          \/ mem'.reached[s][m] = mem.reached[s][m]
                          \/ /\ mem'.reached[s][m] = Unset /\ disk.reached[s][m] = Unset
                             /\ crashes' # crashes /\ faults > 0
  BY Zenon DEF Stable
<1>1. mem' = disk /\ disk' = disk /\ crashes' # crashes /\ faults \in Nat
  BY DEF Crash, IndInv, TypeOK
<1>2. disk.reached[s][m] \in {Unset, mem.reached[s][m]}
  BY DEF IndInv, DiskInv
<1>3. faults = 0 => disk = mem
  BY DEF IndInv, KeptInv
<1> QED BY <1>1, <1>2, <1>3

LEMMA PersistReached ==
  ASSUME NEW kept \in SUBSET Parts, Persist(kept)
  PROVE  disk'.reached \in {disk.reached, mem'.reached}
BY DEF Persist, Parts

LEMMA SameKeeps ==
  ASSUME mem' = mem, disk' = disk \/ \E kept \in SUBSET Parts : Persist(kept)
  PROVE  KeepsReached
BY PersistReached DEF KeepsReached

LEMMA NextStable == IndInv /\ [Next]_vars => Stable
<1> SUFFICES ASSUME IndInv, [Next]_vars PROVE Stable
  OBVIOUS
<1>1. CASE Crash
  BY <1>1, CrashStable
<1>2. ASSUME NEW p \in Procs, RecordEvent(p) PROVE KeepsReached
  <2>1. disk'.reached \in {disk.reached, mem'.reached}
    BY <1>2, PersistReached DEF RecordEvent, Write
  <2> QED BY <1>2, <2>1, RecordedParts DEF KeepsReached
<1>3. ASSUME NEW p \in Procs, SaveReview(p) PROVE KeepsReached
  <2>1. HistoryOK(mem)
    BY ByParts
  <2>2. PICK new : mem' = [mem EXCEPT !.reviews[Tenant(p)] = new]
    BY <1>3 DEF SaveReview, Write
  <2>3. mem'.reached = mem.reached
    BY <2>1, <2>2 DEF HistoryOK
  <2>4. disk'.reached \in {disk.reached, mem'.reached}
    BY <1>3, PersistReached DEF SaveReview, Write
  <2> QED BY <2>3, <2>4 DEF KeepsReached
<1>4. ASSUME NEW p \in Procs, Handle(p) \/ Review(p) PROVE KeepsReached
  <2>1. mem' = mem /\ (disk' = disk \/ \E kept \in SUBSET Parts : Persist(kept))
    BY <1>4 DEF Handle, Review, Write
  <2> QED BY <2>1, SameKeeps
<1>5. ASSUME HandleFails PROVE KeepsReached
  <2>1. mem' = mem
    BY <1>5 DEF HandleFails
  <2>2. \E kept \in SUBSET Parts : Persist(kept)
    BY <1>5 DEF HandleFails
  <2> QED BY <2>1, <2>2, SameKeeps
<1>6. ASSUME UNCHANGED vars \/ Tick PROVE KeepsReached
  <2>1. mem' = mem /\ disk' = disk
    BY <1>6 DEF vars, Tick
  <2> QED BY <2>1, SameKeeps
<1> QED
  BY <1>1, <1>2, <1>3, <1>4, <1>5, <1>6, KeepsIsStable DEF Next

-----------------------------------------------------------------------------
(* The inductive invariant holds in every reachable state.                   *)
THEOREM Invariance == Spec => []IndInv
BY InitInd, NextInd, PTL DEF Spec

(* Every variable keeps its type.                                            *)
THEOREM TypeCorrect == Spec => []TypeOK
<1>1. IndInv => TypeOK
  BY DEF IndInv
<1> QED BY <1>1, Invariance, PTL

(* Events are newest first, however requests overlap (RecordEvent).          *)
THEOREM Ordered == Spec => []EventsInOrder
<1>1. IndInv => EventsInOrder
  BY DEF IndInv
<1> QED BY <1>1, Invariance, PTL

(* The second review never without the first (RecordEvent).                  *)
THEOREM FirstThenSecond == Spec => []SecondAfterFirst
<1>1. IndInv => SecondAfterFirst
  BY DEF IndInv
<1> QED BY <1>1, Invariance, PTL

(* Reviews and events are only put in front; a crash goes back to what was   *)
(* there before (GenerateReviewSnapshot, RecordEvent, persistLocked).        *)
THEOREM AppendOnly == Spec => HistoryAppendOnly
<1>1. Spec => []TailInv
  BY TailInit, TailNext, Invariance, PTL DEF Spec
<1>2. IndInv /\ IndInv' /\ TailInv /\ [Next]_vars => [GrowsOrGoesBack]_vars
  BY TailNext
<1>3. [][GrowsOrGoesBack]_vars => HistoryAppendOnly
  BY PTL DEF HistoryAppendOnly, GrowsOrGoesBack
<1> QED BY <1>1, <1>2, <1>3, Invariance, PTL DEF Spec

(* A milestone keeps its time, and one that a Write has saved keeps it for   *)
(* ever; a crash after a failed Write may take away one that no Write has    *)
(* saved, and then a later event sets it again (RecordEvent).                *)
THEOREM KeptTimes == Spec => MilestonesStable
<1>1. IndInv /\ [Next]_vars => [Stable]_vars
  BY NextStable
<1>2. [][Stable]_vars => MilestonesStable
  BY PTL DEF MilestonesStable, Stable
<1> QED BY <1>1, <1>2, Invariance, PTL DEF Spec

(* As long as every Write persists, an answered review is not lost           *)
(* (GenerateReviewSnapshot).                                                 *)
THEOREM Kept == Spec => []AnsweredIsKept
<1>1. IndInv => AnsweredIsKept
  <2> SUFFICES ASSUME IndInv, faults = 0, NEW t \in Tenants
               PROVE  answered[t] <= Len(mem.reviews[t])
    BY DEF AnsweredIsKept
  <2>1. /\ answered[t] + Cardinality(Recording(t)) <= Len(mem.reviews[t])
        /\ answered[t] \in Nat /\ mem.reviews[t] \in Seq(Ticks)
    BY ByParts DEF KeptInv, Rest, HistoryOK, ReviewsOK
  <2>2. Cardinality(Recording(t)) \in Nat /\ Len(mem.reviews[t]) \in Nat
    BY <2>1, RecordingSize, LenProperties
  <2> QED BY <2>1, <2>2
<1> QED BY <1>1, Invariance, PTL

-----------------------------------------------------------------------------
(* Milestones and events.                                                    *)

LEMMA OfKindFinite ==
  ASSUME NEW es \in Seq(Event), NEW kind
  PROVE  /\ IsFiniteSet(OfKind(es, kind)) /\ Cardinality(OfKind(es, kind)) \in Nat
<1>1. Len(es) \in Nat
  BY LenProperties
<1>2. IsFiniteSet(1 .. Len(es)) /\ OfKind(es, kind) \in SUBSET (1 .. Len(es))
  BY <1>1, FS_Interval DEF OfKind
<1> QED BY <1>2, FS_Subset, FS_CardinalityType

\* Sets of positions that are moved by one have as many elements.
LEMMA Shifted ==
  ASSUME NEW S \in SUBSET Nat, IsFiniteSet(S)
  PROVE  /\ IsFiniteSet({l + 1 : l \in S})
         /\ Cardinality({l + 1 : l \in S}) = Cardinality(S)
<1> DEFINE T == {l + 1 : l \in S}
           f == [l \in S |-> l + 1]
<1>1. f \in [S -> T] /\ \A t \in T : \E l \in S : f[l] = t
  OBVIOUS
<1>2. \A a, b \in S : f[a] = f[b] => a = b
  OBVIOUS
<1>3. f \in Bijection(S, T)
  BY <1>1, <1>2 DEF Bijection, Injection, Surjection, IsInjective
<1> HIDE DEF f, T
<1>4. ExistsBijection(S, T)
  BY <1>3 DEF ExistsBijection
<1> QED BY <1>4, FS_Bijection DEF T

\* An event in front moves the others by one and is younger than all of them.
LEMMA OfKindInFront ==
  ASSUME NEW es \in Seq(Event), NEW e \in Event, NEW kind
  PROVE  LET new == Cons(e, es)
         IN  /\ OfKind(new, kind) = {l + 1 : l \in OfKind(es, kind)}
                                      \cup (IF e.kind = kind THEN {1} ELSE {})
             /\ \A j \in OfKind(es, kind) : /\ Older(new, kind, j + 1) = Older(es, kind, j)
                                            /\ new[j + 1] = es[j]
             /\ Older(new, kind, 1) = Cardinality(OfKind(es, kind))
             /\ Cardinality(OfKind(new, kind)) =
                   Cardinality(OfKind(es, kind)) + (IF e.kind = kind THEN 1 ELSE 0)
             /\ new[1] = e
<1> DEFINE new == Cons(e, es)
<1>1. /\ new \in Seq(Event) /\ Len(new) = Len(es) + 1 /\ Len(es) \in Nat
      /\ new[1] = e /\ \A i \in 2 .. Len(es) + 1 : new[i] = es[i - 1]
  <2>1. new \in Seq(Event) /\ Len(new) = Len(es) + 1 /\ Len(es) \in Nat /\ new[1] = e
    BY ConsFacts
  <2>2. \A i \in 2 .. Len(es) + 1 : new[i] = es[i - 1]
    BY ConsFacts
  <2> QED BY <2>1, <2>2
<1> DEFINE S == OfKind(es, kind)
           T == {l + 1 : l \in S}
           one == IF e.kind = kind THEN {1} ELSE {}
<1>2. S \in SUBSET (1 .. Len(es)) /\ IsFiniteSet(S) /\ Cardinality(S) \in Nat
  BY OfKindFinite DEF OfKind
<1>3. \A l \in 1 .. Len(es) : new[l + 1] = es[l]
  <2> SUFFICES ASSUME NEW l \in 1 .. Len(es) PROVE new[l + 1] = es[l]
    OBVIOUS
  <2>1. l + 1 \in 2 .. Len(es) + 1 /\ (l + 1) - 1 = l
    BY <1>1
  <2> QED BY <1>1, <2>1
<1> HIDE DEF new
<1>4. OfKind(new, kind) = T \cup one
  <2>1. ASSUME NEW i \in OfKind(new, kind) PROVE i \in T \cup one
    <3>1. i \in 1 .. Len(es) + 1 /\ new[i].kind = kind
      BY <1>1 DEF OfKind
    <3>2. CASE i = 1
      BY <1>1, <3>1, <3>2
    <3>3. CASE i # 1
      <4>1. i - 1 \in 1 .. Len(es) /\ (i - 1) + 1 = i
        BY <1>1, <3>1, <3>3
      <4>2. i - 1 \in S
        BY <1>3, <3>1, <4>1 DEF OfKind
      <4> QED BY <4>1, <4>2
    <3> QED BY <3>2, <3>3
  <2>2. ASSUME NEW l \in S PROVE l + 1 \in OfKind(new, kind)
    <3>1. l \in 1 .. Len(es) /\ es[l].kind = kind
      BY DEF OfKind
    <3>2. l + 1 \in 1 .. Len(new)
      BY <1>1, <3>1
    <3> QED BY <1>3, <3>1, <3>2 DEF OfKind
  <2>3. ASSUME e.kind = kind PROVE 1 \in OfKind(new, kind)
    BY <1>1, <2>3 DEF OfKind
  <2> QED BY <2>1, <2>2, <2>3
<1>5. S \in SUBSET Nat /\ IsFiniteSet(T) /\ Cardinality(T) = Cardinality(S) /\ 1 \notin T
  <2>1. S \in SUBSET Nat
    BY <1>1, <1>2
  <2>2. IsFiniteSet(T) /\ Cardinality(T) = Cardinality(S)
    <3> HIDE DEF S
    <3> QED BY <1>2, <2>1, Shifted
  <2>3. 1 \notin T
    BY <1>1, <1>2
  <2> QED BY <2>1, <2>2, <2>3
<1>6. ASSUME NEW j \in S PROVE Older(new, kind, j + 1) = Older(es, kind, j)
  <2> DEFINE P == {l \in S : l > j}
  <2>1. P \in SUBSET Nat /\ IsFiniteSet(P) /\ P \in SUBSET S
    <3>1. P \in SUBSET S
      OBVIOUS
    <3> QED BY <1>2, <1>5, <3>1, FS_Subset
  <2>2. {l \in OfKind(new, kind) : l > j + 1} = {l + 1 : l \in P}
    <3>1. j \in Nat /\ j >= 1
      BY <1>1, <1>2
    <3>2. \A l \in T \cup one : l > j + 1 => l \in {k + 1 : k \in P}
      BY <1>5, <3>1
    <3>3. \A l \in P : l + 1 \in T /\ l + 1 > j + 1
      BY <1>5, <3>1
    <3> HIDE DEF P, T, one
    <3> QED BY <1>4, <3>2, <3>3
  <2>3. Cardinality({l + 1 : l \in P}) = Cardinality(P)
    <3> HIDE DEF P
    <3> QED BY <2>1, Shifted
  <2> QED BY <2>2, <2>3 DEF Older
<1>7. ASSUME NEW j \in S PROVE new[j + 1] = es[j]
  BY <1>2, <1>3
<1>8. Older(new, kind, 1) = Cardinality(S)
  <2>1. {l \in T \cup one : l > 1} = T
    <3>1. \A l \in T : l > 1
      BY <1>1, <1>2
    <3>2. \A l \in one : l = 1
      OBVIOUS
    <3> HIDE DEF T, one
    <3> QED BY <3>1, <3>2
  <2> QED BY <1>4, <1>5, <2>1 DEF Older
<1>9. Cardinality(T \cup one) = Cardinality(S) + (IF e.kind = kind THEN 1 ELSE 0)
  <2>1. CASE e.kind = kind
    <3>1. Cardinality(T \cup {1}) = Cardinality(T) + 1
      <4> HIDE DEF T
      <4> QED BY <1>5, FS_AddElement
    <3> QED BY <1>5, <2>1, <3>1
  <2>2. CASE e.kind # kind
    <3>1. T \cup one = T
      BY <2>2
    <3> QED BY <1>2, <1>5, <2>2, <3>1
  <2> QED BY <2>1, <2>2
<1> QED BY <1>1, <1>4, <1>6, <1>7, <1>8, <1>9 DEF new

\* A milestone belongs to one kind and one place.
LEMMA MilestonesDiffer ==
  ASSUME NEW k \in Events, NEW n \in Events
  PROVE  /\ Len(Milestones(k)) \in 0 .. 2
         /\ \A i \in 1 .. Len(Milestones(k)) : Milestones(k)[i] \in Milestone
         /\ \A i \in 1 .. Len(Milestones(k)), j \in 1 .. Len(Milestones(n)) :
               Milestones(k)[i] = Milestones(n)[j] => k = n /\ i = j
BY DEF Milestones, Milestone, Events, Strict, Lenient, Reviewed, Reminded

\* The events of another kind stay as they are, and their milestones too.
LEMMA MatchOther ==
  ASSUME NEW es \in Seq(Event), NEW e \in Event, NEW ms \in ReachedTimes,
         NEW k \in Events, k # e.kind, Matches(es, ms, k)
  PROVE  Matches(Cons(e, es), Reach(ms, e.kind, now), k)
<1> DEFINE new == Cons(e, es)
           after == Reach(ms, e.kind, now)
<1> SUFFICES ASSUME NEW i \in 1 .. Len(Milestones(k))
             PROVE  IF Cardinality(OfKind(new, k)) < i
                    THEN after[Milestones(k)[i]] = Unset
                    ELSE \E j \in OfKind(new, k) :
                            /\ Older(new, k, j) = i - 1
                            /\ after[Milestones(k)[i]] = new[j].at
  BY DEF Matches
<1>1. /\ Cardinality(OfKind(new, k)) = Cardinality(OfKind(es, k))
      /\ \A j \in OfKind(es, k) : /\ j + 1 \in OfKind(new, k)
                                  /\ Older(new, k, j + 1) = Older(es, k, j)
                                  /\ new[j + 1] = es[j]
  BY OfKindInFront, OfKindFinite
<1>2. e.kind \in Events
  BY DEF Event
<1>3. after[Milestones(k)[i]] = ms[Milestones(k)[i]]
  BY <1>2, MilestonesDiffer DEF Reach
<1> HIDE DEF new, after
<1> QED BY <1>1, <1>3 DEF Matches

\* An event reaches the milestone that its number among its kind stands for.
LEMMA MatchSame ==
  ASSUME NEW es \in Seq(Event), NEW e \in Event, NEW ms \in ReachedTimes,
         e.at = now, Matches(es, ms, e.kind)
  PROVE  Matches(Cons(e, es), Reach(ms, e.kind, now), e.kind)
<1> DEFINE k == e.kind
           new == Cons(e, es)
           after == Reach(ms, k, now)
           c == Cardinality(OfKind(es, k))
<1> SUFFICES ASSUME NEW i \in 1 .. Len(Milestones(k))
             PROVE  IF Cardinality(OfKind(new, k)) < i
                    THEN after[Milestones(k)[i]] = Unset
                    ELSE \E j \in OfKind(new, k) :
                            /\ Older(new, k, j) = i - 1
                            /\ after[Milestones(k)[i]] = new[j].at
  BY DEF Matches
<1>1. /\ Cardinality(OfKind(new, k)) = c + 1 /\ c \in Nat
      /\ 1 \in OfKind(new, k) /\ Older(new, k, 1) = c /\ new[1].at = now
      /\ \A j \in OfKind(es, k) : /\ j + 1 \in OfKind(new, k)
                                  /\ Older(new, k, j + 1) = Older(es, k, j)
                                  /\ new[j + 1] = es[j]
  BY OfKindInFront, OfKindFinite
<1>2. k \in Events /\ \A j \in OfKind(es, k) : es[j].at \in Ticks
  <2>1. \A j \in OfKind(es, k) : es[j] \in Event
    BY ElementOfSeq DEF OfKind
  <2> QED BY <2>1 DEF Event
<1>3. \A j \in 1 .. Len(Milestones(k)) : ms[Milestones(k)[j]] = Unset <=> c < j
  <2> SUFFICES ASSUME NEW j \in 1 .. Len(Milestones(k))
               PROVE  ms[Milestones(k)[j]] = Unset <=> c < j
    OBVIOUS
  <2>1. CASE c < j
    BY <2>1 DEF Matches
  <2>2. CASE ~ (c < j)
    <3>1. \E l \in OfKind(es, k) : ms[Milestones(k)[j]] = es[l].at
      BY <2>2 DEF Matches
    <3> QED BY <1>2, <2>2, <3>1 DEF Ticks, Unset
  <2> QED BY <2>1, <2>2
<1>4. Len(Milestones(k)) \in 0 .. 2 /\ Milestones(k)[i] \in Milestone
  BY <1>2, MilestonesDiffer
<1>5. after[Milestones(k)[i]] = IF IsNext(ms, k, i) THEN now ELSE ms[Milestones(k)[i]]
  BY <1>2, <1>4, MilestonesDiffer DEF Reach
<1>6. IsNext(ms, k, i) <=> c = i - 1
  <2>1. IsNext(ms, k, i) <=> c < i /\ \A j \in 1 .. i - 1 : ~ (c < j)
    BY <1>3, <1>4 DEF IsNext
  <2>2. i \in Nat \ {0} /\ c \in Nat
    BY <1>1, <1>4
  <2> HIDE DEF c, k
  <2>3. ASSUME c = i - 1 PROVE \A j \in 1 .. i - 1 : ~ (c < j)
    BY <2>2, <2>3
  <2>4. ASSUME c < i, c # i - 1 PROVE i - 1 \in 1 .. i - 1 /\ c < i - 1
    BY <2>2, <2>4
  <2> QED BY <2>1, <2>2, <2>3, <2>4
<1> HIDE DEF new, after, c, k
<1>7. i \in Nat
  BY <1>4
<1>8. CASE c + 1 < i
  <2>1. c < i /\ c # i - 1
    BY <1>1, <1>7, <1>8
  <2> QED BY <1>1, <1>3, <1>5, <1>6, <1>8, <2>1
<1>9. CASE c + 1 = i
  <2>1. c = i - 1 /\ ~ (c + 1 < i)
    BY <1>1, <1>7, <1>9
  <2> QED BY <1>1, <1>5, <1>6, <2>1
<1>10. CASE c >= i
  <2>1. ~ (c < i) /\ c # i - 1 /\ ~ (c + 1 < i)
    BY <1>1, <1>7, <1>10
  <2>2. PICK j \in OfKind(es, k) : /\ Older(es, k, j) = i - 1
                                   /\ ms[Milestones(k)[i]] = es[j].at
    BY <2>1 DEF Matches, c, k
  <2> QED BY <1>1, <1>5, <1>6, <2>1, <2>2
<1> QED BY <1>1, <1>7, <1>8, <1>9, <1>10

MatchInv == IndInv /\ MilestonesMatchEvents

LEMMA MatchNext == MatchInv /\ [Next]_vars => MilestonesMatchEvents'
<1> SUFFICES ASSUME MatchInv, [Next]_vars PROVE MilestonesMatchEvents'
  OBVIOUS
<1>1. IndInv /\ crashes \in Nat /\ faults \in Nat
  BY DEF MatchInv, IndInv, TypeOK
<1>2. CASE Crash
  <2>1. crashes' # 0 /\ faults' = faults /\ mem' = disk
    BY <1>1, <1>2 DEF Crash
  <2>2. faults = 0 => disk = mem
    BY <1>1 DEF IndInv, KeptInv
  <2> QED BY <2>1, <2>2 DEF MatchInv, MilestonesMatchEvents
<1>3. ASSUME mem' = mem, crashes' = crashes, faults' = 0 => faults = 0
      PROVE  MilestonesMatchEvents'
  BY <1>3 DEF MatchInv, MilestonesMatchEvents
<1>4. ASSUME NEW kept, Persist(kept) PROVE faults' = 0 => faults = 0
  BY <1>1, <1>4 DEF Persist
<1>5. CASE UNCHANGED vars \/ Tick \/ HandleFails
  BY <1>3, <1>4, <1>5 DEF vars, Tick, HandleFails
<1>6. ASSUME NEW p \in Procs, Handle(p) \/ Review(p) PROVE MilestonesMatchEvents'
  BY <1>3, <1>4, <1>6 DEF Handle, Review, Write
<1>7. ASSUME NEW p \in Procs, SaveReview(p) PROVE MilestonesMatchEvents'
  <2>1. mem'.events = mem.events /\ mem'.reached = mem.reached /\ crashes' = crashes
    BY <1>1, <1>7 DEF SaveReview, Write, IndInv, TypeOK, History
  <2>2. faults' = 0 => faults = 0
    BY <1>4, <1>7 DEF SaveReview, Write
  <2> QED BY <2>1, <2>2 DEF MatchInv, MilestonesMatchEvents
<1>8. ASSUME NEW p \in Procs, RecordEvent(p) PROVE MilestonesMatchEvents'
  <2>1. HistoryOK(mem) /\ Rest
    BY <1>1, ByParts
  <2>2. PICK s \in Scopes, e \in Event : s = Tenant(p) /\ e = [kind |-> job[p].kind, at |-> now]
    BY <2>1 DEF Rest, Jobs, Tenant, Event
  <2>3. PICK es \in Seq(Event) : es = mem.events[s]
    BY <2>1 DEF HistoryOK, EventsOK
  <2>4. PICK ms \in ReachedTimes : ms = mem.reached[s]
    BY <2>1 DEF HistoryOK, ReachedOK
  <2>5. e.kind = job[p].kind /\ e.at = now /\ e.kind \in Events
    BY <2>2 DEF Event
  <2>6. mem' = [mem EXCEPT !.events[s] = Cons(e, es), !.reached[s] = Reach(ms, e.kind, now)]
    BY <1>8, <2>2, <2>3, <2>4, <2>5 DEF RecordEvent, Write
  <2>7. /\ mem.events \in [Scopes -> Seq(Event)] /\ mem.reached \in [Scopes -> ReachedTimes]
    BY <2>1 DEF HistoryOK, EventsOK, ReachedOK
  <2>8. /\ mem'.events = [mem.events EXCEPT ![s] = Cons(e, es)]
        /\ mem'.reached = [mem.reached EXCEPT ![s] = Reach(ms, e.kind, now)]
    BY <2>1, <2>6 DEF HistoryOK
  <2>9. faults' = 0 => faults = 0
    BY <1>4, <1>8 DEF RecordEvent, Write
  <2>10. crashes' = crashes
    BY <1>8 DEF RecordEvent
  <2> SUFFICES ASSUME crashes = 0 \/ faults = 0, NEW u \in Scopes, NEW k \in Events
               PROVE  Matches(mem'.events[u], mem'.reached[u], k)
    BY <2>9, <2>10 DEF MilestonesMatchEvents
  <2>11. Matches(mem.events[u], mem.reached[u], k)
    BY DEF MatchInv, MilestonesMatchEvents
  <2>12. CASE u # s
    BY <2>7, <2>8, <2>11, <2>12
  <2>13. CASE u = s
    <3>1. mem'.events[u] = Cons(e, es) /\ mem'.reached[u] = Reach(ms, e.kind, now)
      BY <2>7, <2>8, <2>13
    <3>2. Matches(es, ms, k)
      BY <2>3, <2>4, <2>11, <2>13
    <3>3. Matches(Cons(e, es), Reach(ms, e.kind, now), k)
      BY <2>5, <3>2, MatchSame, MatchOther
    <3> QED BY <3>1, <3>3
  <2> QED BY <2>12, <2>13
<1> QED BY <1>2, <1>5, <1>6, <1>7, <1>8 DEF Next

LEMMA MatchInit == Init => MilestonesMatchEvents
<1> SUFFICES ASSUME Init, NEW s \in Scopes, NEW k \in Events
             PROVE  Matches(mem.events[s], mem.reached[s], k)
  BY DEF MilestonesMatchEvents
<1>1. mem.events[s] = <<>> /\ mem.reached[s] = [m \in Milestone |-> Unset]
  BY DEF Init, Blank
<1>2. OfKind(<<>>, k) = {}
  BY DEF OfKind
<1>3. Cardinality(OfKind(<<>>, k)) = 0
  BY <1>2, FS_EmptySet
<1>4. \A i \in 1 .. Len(Milestones(k)) : i > 0 /\ Milestones(k)[i] \in Milestone
  BY MilestonesDiffer
<1> QED BY <1>1, <1>3, <1>4 DEF Matches

(* The milestones say what the events say, unless a crash finds a Write of   *)
(* which only some files were persisted.                                     *)
THEOREM MilestonesTell == Spec => []MilestonesMatchEvents
BY MatchInit, MatchNext, Invariance, PTL DEF Spec, MatchInv

-----------------------------------------------------------------------------
(* The order of the reviews, which CompareReviews relies on.                 *)

\* No two requests for a review of a tenant are between time.Now and Write.
OneAtATime ==
  \A p, q \in Procs :
     pc[p] = "stamped" /\ pc[q] = "stamped" /\ Tenant(p) = Tenant(q) => p = q

(* The reviews of a tenant are newest first, in memory and on disk: the      *)
(* first is the latest, for the summary, and the second the one before, for  *)
(* the comparison (populateSummaryFromState, CompareReviews).                *)
ReviewsInOrder == \A h \in {mem, disk} : \A t \in Tenants : NewestFirst(h.reviews[t])

Upto(s, n) == \A i \in 1 .. Len(s) : s[i] <= n

SortedOK(rv) == \A t \in Tenants : NewestFirst(rv[t]) /\ Upto(rv[t], now)

\* A review in hand is no older than any its tenant has.
OrderInv == /\ SortedOK(mem.reviews) /\ SortedOK(disk.reviews)
            /\ \A p \in Procs : pc[p] = "stamped" =>
                  Stamp(p) <= now /\ Upto(mem.reviews[Tenant(p)], Stamp(p))

LEMMA NewestInFront ==
  ASSUME NEW s \in Seq(Ticks), NEW e \in Ticks, NewestFirst(s), Upto(s, e)
  PROVE  NewestFirst(Cons(e, s)) /\ Upto(Cons(e, s), e)
<1> DEFINE new == Cons(e, s)
<1>1. /\ Len(new) = Len(s) + 1 /\ Len(s) \in Nat /\ new[1] = e
      /\ \A i \in 2 .. Len(s) + 1 : new[i] = s[i - 1]
  BY ConsFacts
<1>2. e \in Int /\ \A i \in 1 .. Len(s) : s[i] \in Int
  <2>1. \A i \in 1 .. Len(s) : s[i] \in Ticks
    BY ElementOfSeq
  <2> QED BY <2>1 DEF Ticks
<1> HIDE DEF new
<1>3. ASSUME NEW i \in 1 .. Len(new)
      PROVE  /\ i = 1 => new[i] = e
             /\ i # 1 => i - 1 \in 1 .. Len(s) /\ new[i] = s[i - 1]
  BY <1>1
<1>4. Upto(new, e)
  BY <1>2, <1>3 DEF Upto
<1>5. NewestFirst(new)
  <2> SUFFICES ASSUME NEW i \in 1 .. Len(new), NEW j \in 1 .. Len(new), i < j
               PROVE  new[i] >= new[j]
    BY DEF NewestFirst
  <2>1. j # 1
    OBVIOUS
  <2>2. CASE i = 1
    BY <1>2, <1>3, <2>1, <2>2 DEF Upto
  <2>3. CASE i # 1
    <3>1. i - 1 \in 1 .. Len(s) /\ j - 1 \in 1 .. Len(s) /\ i - 1 < j - 1
      BY <1>3, <2>1, <2>3
    <3>2. s[i - 1] >= s[j - 1]
      BY <3>1 DEF NewestFirst
    <3> QED BY <1>3, <2>1, <2>3, <3>2
  <2> QED BY <2>2, <2>3
<1> QED BY <1>4, <1>5 DEF new

LEMMA UptoLater ==
  ASSUME NEW s \in Seq(Ticks), NEW m \in Ticks, NEW n \in Ticks, Upto(s, m), m <= n
  PROVE  Upto(s, n)
<1>1. m \in Int /\ n \in Int /\ \A i \in 1 .. Len(s) : s[i] \in Int
  <2>1. \A i \in 1 .. Len(s) : s[i] \in Ticks
    BY ElementOfSeq
  <2> QED BY <2>1 DEF Ticks
<1> QED BY <1>1 DEF Upto

LEMMA OrderInit == Init => OrderInv
BY DEF Init, Blank, OrderInv, SortedOK, NewestFirst, Upto

\* The one review of its tenant in hand is put in front of older ones.
LEMMA OrderSave ==
  ASSUME NEW p \in Procs, IndInv, OrderInv, OneAtATime, SaveReview(p) PROVE OrderInv'
<1>1. PICK kept \in SUBSET Parts : Persist(kept)
  BY DEF SaveReview, Write
<1>2. /\ mem' = [mem EXCEPT !.reviews[Tenant(p)] = Cons(Stamp(p), mem.reviews[Tenant(p)])]
      /\ pc[p] = "stamped" /\ pc' = [pc EXCEPT ![p] = "record"] /\ UNCHANGED <<now, job>>
  BY DEF SaveReview, Write
<1>3. HistoryOK(mem) /\ Rest /\ JobInv
  BY ByParts
<1>4. PICK t \in Tenants, e \in Ticks : t = Tenant(p) /\ e = Stamp(p)
  BY <1>2, <1>3 DEF JobInv, Rest, Jobs, Stamp
<1>5. /\ mem.reviews \in [Tenants -> Seq(Ticks)] /\ now \in Ticks
      /\ mem'.reviews = [mem.reviews EXCEPT ![t] = Cons(e, mem.reviews[t])]
  BY <1>2, <1>3, <1>4 DEF HistoryOK, ReviewsOK, Rest
<1>6. e <= now /\ NewestFirst(mem.reviews[t]) /\ Upto(mem.reviews[t], e)
  BY <1>2, <1>4 DEF OrderInv, SortedOK
<1>7. NewestFirst(mem'.reviews[t]) /\ Upto(mem'.reviews[t], now)
  <2>1. PICK s \in Seq(Ticks) : s = mem.reviews[t]
    BY <1>5
  <2>2. NewestFirst(Cons(e, s)) /\ Upto(Cons(e, s), e)
    BY <1>6, <2>1, NewestInFront
  <2>3. Cons(e, s) \in Seq(Ticks)
    BY ConsFacts
  <2>4. Upto(Cons(e, s), now)
    BY <1>5, <1>6, <2>2, <2>3, UptoLater
  <2>5. mem'.reviews[t] = Cons(e, s)
    BY <1>5, <2>1
  <2> QED BY <2>2, <2>4, <2>5
<1>8. SortedOK(mem.reviews)'
  <2> SUFFICES ASSUME NEW u \in Tenants PROVE NewestFirst(mem'.reviews[u]) /\ Upto(mem'.reviews[u], now)
    BY <1>2 DEF SortedOK
  <2>1. CASE u = t
    BY <1>7, <2>1
  <2>2. CASE u # t
    <3>1. mem'.reviews[u] = mem.reviews[u]
      BY <1>5, <2>2
    <3> QED BY <3>1 DEF OrderInv, SortedOK
  <2> QED BY <2>1, <2>2
<1>9. SortedOK(disk.reviews)'
  <2>1. disk'.reviews \in {disk.reviews, mem'.reviews} /\ now' = now
    BY <1>1, <1>2, PersistLists
  <2> QED BY <1>8, <2>1 DEF OrderInv, SortedOK
<1>10. ASSUME NEW q \in Procs, pc'[q] = "stamped"
       PROVE  Stamp(q)' <= now' /\ Upto(mem'.reviews[Tenant(q)'], Stamp(q)')
  <2>1. q # p /\ pc[q] = "stamped" /\ Tenant(q)' = Tenant(q) /\ Stamp(q)' = Stamp(q)
    BY <1>2, <1>3, <1>10 DEF Rest, Tenant, Stamp
  <2>2. Tenant(q) # t
    BY <1>2, <1>4, <2>1 DEF OneAtATime
  <2>3. Tenant(q) \in Tenants
    BY <1>3, <2>1 DEF JobInv
  <2>4. mem'.reviews[Tenant(q)] = mem.reviews[Tenant(q)]
    BY <1>5, <2>2, <2>3
  <2> QED BY <1>2, <2>1, <2>4 DEF OrderInv
<1> QED BY <1>8, <1>9, <1>10 DEF OrderInv

\* A review in hand is of now, which no review is after.
LEMMA OrderReview ==
  ASSUME NEW p \in Procs, IndInv, OrderInv, Review(p) PROVE OrderInv'
<1>1. Rest /\ HistoryOK(mem)
  BY ByParts
<1>2. PICK t \in Tenants :
         /\ pc' = [pc EXCEPT ![p] = "stamped"]
         /\ job' = [job EXCEPT ![p] = [scope |-> t, kind |-> Reviewed, stamp |-> now]]
  BY DEF Review, Take
<1>3. UNCHANGED <<now, mem, disk>>
  BY DEF Review
<1>4. ASSUME NEW q \in Procs, pc'[q] = "stamped"
      PROVE  Stamp(q)' <= now' /\ Upto(mem'.reviews[Tenant(q)'], Stamp(q)')
  <2>1. CASE q = p
    <3>1. Stamp(q)' = now /\ Tenant(q)' = t
      BY <1>1, <1>2, <2>1 DEF Rest, Stamp, Tenant
    <3>2. now <= now
      BY <1>1 DEF Rest, Ticks
    <3> QED BY <1>3, <3>1, <3>2 DEF OrderInv, SortedOK
  <2>2. CASE q # p
    <3>1. pc[q] = "stamped" /\ Stamp(q)' = Stamp(q) /\ Tenant(q)' = Tenant(q)
      BY <1>1, <1>2, <1>4, <2>2 DEF Rest, Stamp, Tenant
    <3> QED BY <1>3, <3>1 DEF OrderInv
  <2> QED BY <2>1, <2>2
<1> QED BY <1>3, <1>4 DEF OrderInv, SortedOK

\* Everything else leaves the reviews alone, or falls back on those of the disk.
LEMMA OrderRest ==
  ASSUME IndInv, OrderInv, now' = now,
         mem'.reviews \in {mem.reviews, disk.reviews},
         disk'.reviews \in {mem.reviews, disk.reviews},
         \A q \in Procs : pc'[q] = "stamped" =>
            /\ pc[q] = "stamped" /\ Stamp(q)' = Stamp(q) /\ Tenant(q)' = Tenant(q)
            /\ mem'.reviews = mem.reviews
  PROVE  OrderInv'
BY DEF OrderInv, SortedOK

LEMMA OrderTick == ASSUME IndInv, OrderInv, Tick PROVE OrderInv'
<1>1. Rest /\ HistoryOK(mem) /\ HistoryOK(disk)
  BY ByParts
<1>2. /\ UNCHANGED <<mem, disk, pc, job>> /\ now' = now + 1 /\ now < LastTick
  BY DEF Tick
<1>3. now \in Ticks /\ now' \in Ticks /\ now <= now'
  BY <1>1, <1>2, ReviewHistoryAssumption DEF Rest, Ticks
<1>4. ASSUME NEW rv \in [Tenants -> Seq(Ticks)], SortedOK(rv), NEW t \in Tenants
      PROVE  NewestFirst(rv[t]) /\ Upto(rv[t], now')
  BY <1>3, <1>4, UptoLater DEF SortedOK
<1>5. /\ mem.reviews \in [Tenants -> Seq(Ticks)] /\ disk.reviews \in [Tenants -> Seq(Ticks)]
  BY <1>1 DEF HistoryOK, ReviewsOK
<1>6. SortedOK(mem.reviews)' /\ SortedOK(disk.reviews)'
  BY <1>2, <1>4, <1>5 DEF OrderInv, SortedOK
<1>7. ASSUME NEW q \in Procs, pc[q] = "stamped"
      PROVE  Stamp(q) <= now' /\ Upto(mem.reviews[Tenant(q)], Stamp(q))
  <2>1. Stamp(q) \in Ticks /\ Stamp(q) <= now /\ Upto(mem.reviews[Tenant(q)], Stamp(q))
    BY <1>1, <1>7 DEF OrderInv, Rest, Jobs, Stamp
  <2> QED BY <1>2, <1>3, <2>1 DEF Ticks
<1> QED BY <1>2, <1>6, <1>7 DEF OrderInv, Stamp, Tenant

LEMMA OrderNext == IndInv /\ OrderInv /\ OneAtATime /\ [Next]_vars => OrderInv'
<1> SUFFICES ASSUME IndInv, OrderInv, OneAtATime, [Next]_vars PROVE OrderInv'
  OBVIOUS
<1>0. Rest /\ HistoryOK(mem) /\ JobInv
  BY ByParts
<1>1. CASE Crash
  <2>1. now' = now /\ mem' = disk /\ disk' = disk /\ \A q \in Procs : pc'[q] = "idle"
    BY <1>1 DEF Crash
  <2> QED BY <2>1, OrderRest
<1>2. CASE HandleFails
  <2>1. UNCHANGED <<now, mem, pc, job>> /\ \E kept \in SUBSET Parts : Persist(kept)
    BY <1>2 DEF HandleFails
  <2>2. disk'.reviews \in {mem.reviews, disk.reviews}
    BY <2>1, PersistLists
  <2> QED BY <2>1, <2>2, OrderRest DEF Stamp, Tenant
<1>3. ASSUME NEW p \in Procs, Handle(p) PROVE OrderInv'
  <2>1. now' = now /\ mem' = mem /\ (disk' = disk \/ \E kept \in SUBSET Parts : Persist(kept))
    BY <1>3 DEF Handle, Write
  <2>2. disk'.reviews \in {mem.reviews, disk.reviews}
    BY <2>1, PersistLists
  <2>3. PICK new : pc' = [pc EXCEPT ![p] = "record"] /\ job' = [job EXCEPT ![p] = new]
    BY <1>3 DEF Handle, Take
  <2>4. ASSUME NEW q \in Procs, pc'[q] = "stamped"
        PROVE  pc[q] = "stamped" /\ Stamp(q)' = Stamp(q) /\ Tenant(q)' = Tenant(q)
    BY <1>0, <2>3, <2>4 DEF Rest, Stamp, Tenant
  <2> QED BY <2>1, <2>2, <2>4, OrderRest
<1>4. ASSUME NEW p \in Procs, RecordEvent(p) PROVE OrderInv'
  <2>1. now' = now /\ \E kept \in SUBSET Parts : Persist(kept)
    BY <1>4 DEF RecordEvent, Write
  <2>2. PICK es, rc : mem' = [mem EXCEPT !.events[Tenant(p)] = es, !.reached[Tenant(p)] = rc]
    BY <1>4 DEF RecordEvent, Write
  <2>3. mem'.reviews = mem.reviews
    BY <1>0, <2>2 DEF HistoryOK
  <2>4. disk'.reviews \in {mem.reviews, disk.reviews}
    BY <2>1, <2>3, PersistLists
  <2>5. pc' = [pc EXCEPT ![p] = "idle"] /\ job' = [job EXCEPT ![p] = NoJob]
    BY <1>4 DEF RecordEvent, Done
  <2>6. ASSUME NEW q \in Procs, pc'[q] = "stamped"
        PROVE  pc[q] = "stamped" /\ Stamp(q)' = Stamp(q) /\ Tenant(q)' = Tenant(q)
    BY <1>0, <2>5, <2>6 DEF Rest, Stamp, Tenant
  <2> QED BY <2>1, <2>3, <2>4, <2>6, OrderRest
<1>5. CASE UNCHANGED vars
  BY <1>5, OrderRest DEF vars, Stamp, Tenant
<1> QED BY <1>1, <1>2, <1>3, <1>4, <1>5, OrderTick, OrderReview, OrderSave DEF Next

(* As long as requests for reviews of one tenant do not overlap between the  *)
(* time they take and the Write, its reviews stay newest first, through      *)
(* other requests, Writes that persist only some files, and crashes.         *)
THEOREM ApartInOrder == Spec /\ []OneAtATime => []ReviewsInOrder
<1>1. OrderInv => ReviewsInOrder
  BY DEF OrderInv, SortedOK, ReviewsInOrder
<1> QED BY OrderInit, OrderNext, <1>1, Invariance, PTL DEF Spec
=============================================================================
