--------------------------- MODULE ReviewHistory ---------------------------
(* What a tenant's history is made of: the review snapshots and operational  *)
(* events (newest first) and the activation milestones, written by           *)
(* internal/operations/service.go for the handlers of internal/http.  A      *)
(* request makes several Writes with other requests in between, takes the    *)
(* time of a review outside the lock and that of an event inside, and goes   *)
(* on after a Write that could not persist; each part of the history has a   *)
(* file of its own, and any subset of the files may be as of that Write.     *)
EXTENDS Integers, Sequences, FiniteSets, SequencesExt

CONSTANTS Tenants,
          Procs,         \* goroutines that serve requests
          Kinds,         \* kinds of requests made, see Reviewed and Events
          LastTick,      \* bound: the last tick of the clock
          MaxRequests,   \* bound: requests
          MaxFaults,     \* bound: Writes that persist only some files
          MaxCrashes     \* bound: ends of the process

Reviewed == "review.snapshot.generated"
Reminded == "reminders.run"

\* Events whose handler answers with an error when its own Write fails ...
Strict == {"evidence.created", "evidence.template.created",
           "evidence.file.uploaded", "evidence.mappings.updated"}
\* ... and those whose handler drops the error of the Write.
Lenient == {"proofpack.generated", Reminded}
Events == Strict \cup Lenient \cup {Reviewed}

ASSUME ReviewHistoryAssumption ==
    /\ Kinds \subseteq Events
    /\ "global" \notin Tenants
    /\ IsFiniteSet(Procs)
    /\ LastTick \in Nat /\ MaxRequests \in Nat /\ MaxFaults \in Nat /\ MaxCrashes \in Nat

Scopes == Tenants \cup {"global"}   \* the tenant IDs given to RecordEvent
Ticks == 0 .. LastTick
Unset == -1                         \* a nil *time.Time

\* The milestones an event can reach, in the order it reaches them.
Milestones(kind) ==
    CASE kind = "evidence.created"       -> <<"firstEvidence">>
      [] kind = "evidence.file.uploaded" -> <<"firstUpload">>
      [] kind = "proofpack.generated"    -> <<"firstProofpack">>
      [] kind = Reminded                 -> <<"firstReminder">>
      [] kind = Reviewed                 -> <<"firstReview", "secondReview">>
      [] OTHER                           -> <<>>

Milestone == {"firstEvidence", "firstUpload", "firstProofpack", "firstReminder",
              "firstReview", "secondReview"}

VARIABLES
    now,       \* time.Now()
    mem,       \* the parts of State a request reads and writes
    disk,      \* the same parts, as the files have them
    pc,        \* [Procs -> {"idle", "stamped", "record"}]
    job,       \* [Procs -> Job] the request a goroutine serves
    answered,  \* [Tenants -> Nat] reviews answered with their snapshot
    requests, faults, crashes

vars == <<now, mem, disk, pc, job, answered, requests, faults, crashes>>

History == [reviews : [Tenants -> Seq(Ticks)],
            events  : [Scopes -> Seq([kind : Events, at : Ticks])],
            reached : [Scopes -> [Milestone -> Ticks \cup {Unset}]]]

Parts == {"reviews", "events", "reached"}  \* one file each

Jobs == [scope : Scopes, kind : Events, stamp : Ticks]

TypeOK == /\ now \in Ticks
          /\ mem \in History /\ disk \in History
          /\ pc \in [Procs -> {"idle", "stamped", "record"}]
          /\ job \in [Procs -> Jobs]
          /\ answered \in [Tenants -> Nat]
          /\ requests \in Nat /\ faults \in Nat /\ crashes \in Nat

Blank == [reviews |-> [t \in Tenants |-> <<>>],
          events  |-> [s \in Scopes |-> <<>>],
          reached |-> [s \in Scopes |-> [m \in Milestone |-> Unset]]]

NoJob == [scope |-> "global", kind |-> Reviewed, stamp |-> 0]

Init == /\ now = 0
        /\ mem = Blank /\ disk = Blank
        /\ pc = [p \in Procs |-> "idle"]
        /\ job = [p \in Procs |-> NoJob]
        /\ answered = [t \in Tenants |-> 0]
        /\ requests = 0 /\ faults = 0 /\ crashes = 0

-----------------------------------------------------------------------------
\* persistLocked: it takes the files in no particular order and stops at the
\* first that fails (MaxFaults bounds how often); the memory has changed.
Persist(kept) ==
    /\ kept # Parts => faults < MaxFaults
    /\ faults' = IF kept = Parts THEN faults ELSE faults + 1
    /\ disk' = [x \in Parts |-> IF x \in kept THEN mem'[x] ELSE disk[x]]

\* Mutant of Write: the files are left as they are.
WriteInMemory(new) == mem' = new /\ UNCHANGED <<disk, faults>>

\* Store.Write of a function that changes mem to new and returns nil.
Write(new) == mem' = new /\ \E kept \in SUBSET Parts : Persist(kept)

Take(p, s, k, where) ==
    /\ pc[p] = "idle"
    /\ requests < MaxRequests
    /\ k \in Kinds
    /\ requests' = requests + 1
    /\ pc' = [pc EXCEPT ![p] = where]
    /\ job' = [job EXCEPT ![p] = [scope |-> s, kind |-> k, stamp |-> now]]

Done(p) == /\ pc' = [pc EXCEPT ![p] = "idle"]
           /\ job' = [job EXCEPT ![p] = NoJob]

\* runReminders has no tenant.
ScopesOf(k) == IF k = Reminded THEN {"global"} ELSE Tenants

\* A handler has made its own changes, elsewhere in State, and is about to
\* record the event: its Write succeeded, or it does not look at the error,
\* or (no reminder was due) it made no Write.
Handle(p) ==
    /\ \E k \in Events \ {Reviewed} : \E s \in ScopesOf(k) :
          /\ Take(p, s, k, "record")
          /\ \/ mem' = mem /\ Persist(Parts)
             \/ k \in Lenient /\ Write(mem)
             \/ k = Reminded /\ UNCHANGED <<mem, disk, faults>>
    /\ UNCHANGED <<now, answered, crashes>>

\* Its Write failed and the client got the error: there will be no event.
HandleFails ==
    /\ mem' = mem
    /\ \E kept \in (SUBSET Parts) \ {Parts} : Persist(kept)
    /\ Kinds \cap Strict # {}
    /\ requests < MaxRequests
    /\ requests' = requests + 1
    /\ UNCHANGED <<now, pc, job, answered, crashes>>

\* GenerateReviewSnapshot has its summary and reads the time.
Review(p) == /\ \E t \in Tenants : Take(p, t, Reviewed, "stamped")
             /\ UNCHANGED <<now, mem, disk, answered, faults, crashes>>

Tenant(p) == job[p].scope
Stamp(p) == job[p].stamp

\* Mutant of SaveReview: a review replaces the latest one, as
\* GenerateOperationalSnapshot does within a day.
SaveReviewDaily(p) ==
    /\ pc[p] = "stamped"
    /\ Write([mem EXCEPT !.reviews[Tenant(p)] =
                 IF @ = <<>> THEN <<Stamp(p)>> ELSE Cons(Stamp(p), Tail(@))])
    /\ pc' = [pc EXCEPT ![p] = "record"]
    /\ UNCHANGED <<now, job, answered, requests, crashes>>

\* The snapshot is put in front of the tenant's reviews; an error is dropped.
SaveReview(p) ==
    /\ pc[p] = "stamped"
    /\ Write([mem EXCEPT !.reviews[Tenant(p)] = Cons(Stamp(p), @)])
    /\ pc' = [pc EXCEPT ![p] = "record"]
    /\ UNCHANGED <<now, job, answered, requests, crashes>>

\* Mutant of Reach: a milestone is not kept from being reached again.
ReachAgain(ms, kind, t) ==
    [m \in Milestone |-> IF m \in Range(Milestones(kind)) THEN t ELSE ms[m]]

\* Mutant of Reach: the second review is looked at first.
ReachBackwards(ms, kind, t) ==
    LET seq == Milestones(kind)
        Free(i) == ms[seq[i]] = Unset /\ \A j \in i + 1 .. Len(seq) : ms[seq[j]] # Unset
    IN  [m \in Milestone |->
            IF \E i \in 1 .. Len(seq) : seq[i] = m /\ Free(i) THEN t ELSE ms[m]]

\* Mutant of Reach: one review reaches both milestones.
ReachBoth(ms, kind, t) ==
    [m \in Milestone |->
        IF m \in Range(Milestones(kind)) /\ ms[m] = Unset THEN t ELSE ms[m]]

\* The i-th milestone of the kind is the first of them that is still unset.
IsNext(ms, kind, i) ==
    /\ ms[Milestones(kind)[i]] = Unset
    /\ \A j \in 1 .. i - 1 : ms[Milestones(kind)[j]] # Unset

\* The milestones after an event of this kind at time t: the next one is
\* reached now.
Reach(ms, kind, t) ==
    [m \in Milestone |->
        IF \E i \in 1 .. Len(Milestones(kind)) : Milestones(kind)[i] = m /\ IsNext(ms, kind, i)
        THEN t ELSE ms[m]]

\* A review is answered when GenerateReviewSnapshot returns.
Answer(p) == answered' = IF job[p].kind = Reviewed
                         THEN [answered EXCEPT ![Tenant(p)] = @ + 1] ELSE answered

\* Mutant of RecordEvent: the event is appended, not put in front.
RecordEventLast(p) ==
    /\ pc[p] = "record"
    /\ Write([mem EXCEPT
          !.events[Tenant(p)] = Append(@, [kind |-> job[p].kind, at |-> now]),
          !.reached[Tenant(p)] = Reach(@, job[p].kind, now)])
    /\ Answer(p)
    /\ Done(p)
    /\ UNCHANGED <<now, requests, crashes>>

\* RecordEvent: the time is read inside Write, its error is dropped.
RecordEvent(p) ==
    /\ pc[p] = "record"
    /\ Write([mem EXCEPT
          !.events[Tenant(p)] = Cons([kind |-> job[p].kind, at |-> now], @),
          !.reached[Tenant(p)] = Reach(@, job[p].kind, now)])
    /\ Answer(p)
    /\ Done(p)
    /\ UNCHANGED <<now, requests, crashes>>

-----------------------------------------------------------------------------
Tick == /\ now < LastTick
        /\ now' = now + 1
        /\ UNCHANGED <<mem, disk, pc, job, answered, requests, faults, crashes>>

\* The process ends, possibly in a Write (a fault before it), and NewFileStore
\* loads the files.
Crash == /\ crashes < MaxCrashes
         /\ crashes' = crashes + 1
         /\ mem' = disk
         /\ pc' = [p \in Procs |-> "idle"]
         /\ job' = [p \in Procs |-> NoJob]
         /\ UNCHANGED <<now, disk, answered, requests, faults>>

Next == \/ Tick \/ Crash \/ HandleFails
        \/ \E p \in Procs : Handle(p) \/ Review(p) \/ SaveReview(p) \/ RecordEvent(p)

Spec == Init /\ [][Next]_vars

-----------------------------------------------------------------------------
NewestFirst(s) == \A i, j \in 1 .. Len(s) : i < j => s[i] >= s[j]

Times(es) == [i \in 1 .. Len(es) |-> es[i].at]

(* The events of a tenant are newest first, in memory and on disk, whatever  *)
(* order requests overlap in: populateSummaryFromState takes the first for   *)
(* the last activity.                                                        *)
EventsInOrder ==
    \A h \in {mem, disk} : \A s \in Scopes : NewestFirst(Times(h.events[s]))

(* History is append-only (README.md): a step puts entries in front of the   *)
(* reviews and of the events and never changes or drops one.  Only a crash   *)
(* goes back, and then to what the history was some time before.             *)
GrowsOnly(old, new) ==
    /\ \A t \in Tenants : IsSuffix(old.reviews[t], new.reviews[t])
    /\ \A s \in Scopes : IsSuffix(old.events[s], new.events[s])

HistoryAppendOnly ==
    [][IF crashes' = crashes THEN GrowsOnly(mem, mem') ELSE GrowsOnly(mem', mem)]_vars

(* A milestone once reached keeps its time, and one whose file was written   *)
(* keeps it for ever, through failed Writes and crashes (RecordEvent,        *)
(* persistLocked).  Only a milestone that no Write has saved can be taken    *)
(* away, by a crash after a Write that failed; a later event sets it again.  *)
MilestonesStable ==
    [][\A s \in Scopes, m \in Milestone :
          LET old   == mem.reached[s][m]
              saved == disk.reached[s][m]
              new   == mem'.reached[s][m]
          IN  /\ saved # Unset => new = saved /\ disk'.reached[s][m] = saved
              /\ old # Unset => \/ new = old
                                \/ /\ new = Unset /\ saved = Unset
                                   /\ crashes' # crashes /\ faults > 0]_vars

(* The second review milestone is never there without the first, nor before  *)
(* it, even after crashes in the middle of a Write.                          *)
SecondAfterFirst ==
    \A h \in {mem, disk} : \A t \in Tenants :
        LET first == h.reached[t]["firstReview"]
            second == h.reached[t]["secondReview"]
        IN  second # Unset => first # Unset /\ first <= second

\* Where the events of a kind are, and how many of them are older than the
\* one at position j.
OfKind(es, kind) == {j \in 1 .. Len(es) : es[j].kind = kind}
Older(es, kind, j) == Cardinality({l \in OfKind(es, kind) : l > j})

\* The i-th milestone of a kind has the time of the i-th event of the kind, and
\* none while there are fewer.
Matches(es, ms, kind) ==
    \A i \in 1 .. Len(Milestones(kind)) :
        IF Cardinality(OfKind(es, kind)) < i
        THEN ms[Milestones(kind)[i]] = Unset
        ELSE \E j \in OfKind(es, kind) : /\ Older(es, kind, j) = i - 1
                                         /\ ms[Milestones(kind)[i]] = es[j].at

(* The milestones say what the events say: each is the time of the oldest    *)
(* event of its kind, the second review that of the second oldest.  It takes *)
(* a Write that persists only some files, and then a crash, to part them.    *)
MilestonesMatchEvents ==
    crashes = 0 \/ faults = 0 =>
        \A s \in Scopes, k \in Events : Matches(mem.events[s], mem.reached[s], k)

(* Weekly review snapshots are persisted as historical truth (README.md): as *)
(* long as every Write persists, a review whose request was answered is not  *)
(* lost, crash or not (GenerateReviewSnapshot).                              *)
AnsweredIsKept ==
    faults = 0 => \A t \in Tenants : answered[t] <= Len(mem.reviews[t])

-----------------------------------------------------------------------------
(* Why they hold.  Nothing is of a later time than now; the disk has the     *)
(* milestones of some moment before; and while every Write persists, it has  *)
(* the memory, and each review answered, or about to be, is there.           *)
JobInv ==
    \A p \in Procs :
        /\ pc[p] = "stamped" => job[p].kind = Reviewed
        /\ pc[p] # "idle" /\ job[p].kind = Reviewed => Tenant(p) \in Tenants

PastInv ==
    \A h \in {mem, disk} : \A s \in Scopes :
        /\ \A i \in 1 .. Len(h.events[s]) : h.events[s][i].at <= now
        /\ \A m \in Milestone : h.reached[s][m] <= now

DiskInv ==
    \A s \in Scopes, m \in Milestone : disk.reached[s][m] \in {Unset, mem.reached[s][m]}

Recording(t) ==
    {p \in Procs : pc[p] = "record" /\ job[p].kind = Reviewed /\ Tenant(p) = t}

KeptInv ==
    faults = 0 =>
        /\ disk = mem
        /\ \A t \in Tenants : answered[t] + Cardinality(Recording(t)) <= Len(mem.reviews[t])

IndInv == /\ TypeOK /\ EventsInOrder /\ SecondAfterFirst
          /\ JobInv /\ PastInv /\ DiskInv /\ KeptInv

\* The disk has the history of some moment before.
TailInv == GrowsOnly(disk, mem)
=============================================================================
