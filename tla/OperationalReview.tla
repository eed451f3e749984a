-------------------------- MODULE OperationalReview --------------------------
(* What internal/operations/service.go computes from one tenant's history:   *)
(* evaluate, BuildSummary with its derived signals, reviewStreak,            *)
(* buildPilotRitual, deriveStage, GenerateReviewSnapshot and CompareReviews, *)
(* as days pass and evidence changes.  Requests are one step each here: what *)
(* happens when they overlap is the subject of ReviewHistory.                *)
EXTENDS Integers, Sequences, FiniteSets, FiniteSetsExt

CONSTANTS Groups,      \* groups of items of the same state
          Size,        \* [Groups -> Nat] how many items each stands for
          Owners,      \* the owners named on items
          Statuses,    \* the stored statuses that occur
          Steps,       \* how much time may pass between two requests
          MaxPasses,   \* bound: how often time passes
          MaxChanges,  \* bound: requests that change evidence
          MaxReviews,  \* bound: reviews
          MaxPacks     \* bound: proofpacks

Day == 2               \* ticks: midnight and noon

NoOwner == "no owner"

ASSUME OperationalReviewAssumption ==
    /\ IsFiniteSet(Groups)
    /\ Size \in [Groups -> Nat \ {0}]
    /\ NoOwner \notin Owners
    /\ Statuses \subseteq {"active", "expiring", "expired", "missing", "archived"}
    /\ Steps \subseteq Nat \ {0}
    /\ MaxPasses \in Nat /\ MaxChanges \in Nat /\ MaxReviews \in Nat /\ MaxPacks \in Nat

VARIABLES
    now,      \* time.Now()
    items,    \* [SUBSET Groups -> Item] the groups that exist
    reviews,  \* ReviewSnapshots, newest first
    reached,  \* the activation milestones that are set
    packs,    \* len(Proofpacks)
    changes,  \* how often evidence changed
    passes    \* how often time passed

vars == <<now, items, reviews, reached, packs, changes, passes>>

Ticks == Nat

Milestone == {"evidence", "upload", "reminder", "proofpack", "review", "second"}
Item      == [status : Statuses, owner : Owners \cup {NoOwner}, updated : Ticks]
Snapshot  == [at : Ticks, health : 0 .. 100, unresolved : Nat, stale : Nat,
              expired : Nat, version : Nat]

TypeOK == /\ now \in Ticks
          /\ \E S \in SUBSET Groups : items \in [S -> Item]
          /\ reviews \in Seq(Snapshot)
          /\ reached \subseteq Milestone
          /\ packs \in Nat
          /\ changes \in Nat /\ passes \in Nat

Init == /\ now = 0
        /\ items = [g \in {} |-> {}]
        /\ reviews = << >>
        /\ reached = {}
        /\ packs = 0
        /\ changes = 0 /\ passes = 0

-----------------------------------------------------------------------------
(* evaluate and evaluateItem                                                 *)

Count(S) == MapThenSumSet(LAMBDA g : Size[g], S)

With(status) == {g \in DOMAIN items : items[g].status = status}
Ownerless    == {g \in DOMAIN items : items[g].owner = NoOwner}

\* Mutant of Stale: recently updated items are the stale ones.
StaleFresh == {g \in DOMAIN items : items[g].updated > now - 180 * Day}

\* Item.IsStale
Stale == {g \in DOMAIN items : items[g].updated < now - 180 * Day}

Clamp(n) == IF n < 0 THEN 0 ELSE IF n > 100 THEN 100 ELSE n

Health == Clamp(100 - 25 * Count(With("expired")) - 10 * Count(With("expiring"))
                    - 15 * Count(Ownerless) - 8 * Count(Stale) + Count(With("active")))

\* One item counts once for each thing that is wrong with it.
Unresolved == Count(With("expired")) + Count(With("expiring"))
                + Count(Ownerless) + Count(Stale)

\* len(Owners): items without an owner have an entry of their own.
OwnerEntries == Cardinality({items[g].owner : g \in DOMAIN items})

TotalEvidence == Count(DOMAIN items)

-----------------------------------------------------------------------------
(* BuildSummary                                                              *)

\* The newest reviews of which each is at most nine days after the one before.
reviewStreak(arr) ==
    Max({0} \cup {n \in 1 .. Len(arr) :
                     \A i \in 2 .. n : arr[i - 1].at - arr[i].at <= 9 * Day})

WholeDays(d) == d \div Day

LastReviewAge == now - reviews[1].at

\* populateSummaryFromState; DaysSinceLastReview is still its zero value.
Populated ==
    [health      |-> Health,
     unresolved  |-> Unresolved,
     healthDelta |-> IF Len(reviews) > 1 THEN Health - reviews[2].health ELSE 0,
     unresolvedDelta |->
         IF Len(reviews) > 1 THEN Unresolved - reviews[2].unresolved ELSE 0,
     streak      |-> reviewStreak(reviews),
     daysSinceLastReview |-> 0]

\* The gap since the last operational event is left out: no property looks at it.
frictionIndicators(sum) ==
    {f \in {"upward", "overdue", "ownerless", "streak break"} :
        CASE f = "upward"    -> sum.unresolvedDelta > 0
          [] f = "overdue"   -> With("expiring") \cup With("expired") # {}
          [] f = "ownerless" -> Ownerless # {}
          [] f = "streak break" -> sum.streak < 2 /\ sum.daysSinceLastReview > 9}

\* The 30-day trend is left out: only the demo seed stores operational snapshots.
founderSignals(sum) ==
    {f \in {"cadence degradation", "recovery worsening"} :
        CASE f = "cadence degradation" -> sum.daysSinceLastReview > 9
          [] f = "recovery worsening"  -> sum.unresolvedDelta > 0}

\* Mutant of deriveStage: expansion needs no streak.
deriveStageHasty(sum) ==
    IF sum.health >= 75 /\ TotalEvidence >= 12 /\ OwnerEntries > 1 THEN "expansion-ready"
    ELSE IF "second" \in reached THEN "recurring"
    ELSE IF {"proofpack", "review"} \subseteq reached THEN "operational"
    ELSE IF {"evidence", "upload"} \subseteq reached THEN "activated"
    ELSE "exploring"

deriveStage(sum) ==
    IF /\ sum.health >= 75 /\ TotalEvidence >= 12 /\ OwnerEntries > 1
       /\ packs >= 3 /\ sum.streak >= 3
    THEN "expansion-ready"
    ELSE IF "second" \in reached THEN "recurring"
    ELSE IF {"proofpack", "review"} \subseteq reached THEN "operational"
    ELSE IF {"evidence", "upload"} \subseteq reached THEN "activated"
    ELSE "exploring"

\* Mutant of buildPilotRitual: more than seven days is missed.
buildPilotRitualWeekly ==
    LET n == Len(reviews)
    IN  [week   |-> IF n = 0 THEN 1 ELSE IF n >= 4 THEN 4 ELSE n,
         days   |-> IF n = 0 THEN 0 ELSE WholeDays(LastReviewAge),
         missed |-> n > 0 /\ WholeDays(LastReviewAge) > 7]

buildPilotRitual ==
    LET n == Len(reviews)
    IN  [week   |-> IF n = 0 THEN 1 ELSE IF n >= 4 THEN 4 ELSE n,
         days   |-> IF n = 0 THEN 0 ELSE WholeDays(LastReviewAge),
         missed |-> n > 0 /\ WholeDays(LastReviewAge) > 9]

\* populateDerivedSignals: the signals are computed from what was populated,
\* and DaysSinceLastReview is assigned after them.
Summary ==
    LET sum == Populated
    IN  [stage    |-> deriveStage(sum),
         friction |-> frictionIndicators(sum),
         founder  |-> founderSignals(sum),
         healthDelta     |-> sum.healthDelta,
         unresolvedDelta |-> sum.unresolvedDelta,
         daysSinceLastReview |->
             IF reviews = << >> THEN 0 ELSE WholeDays(LastReviewAge),
         ritual   |-> buildPilotRitual]

\* CompareReviews(from, to), with positions that count from 1.
CompareReviews(from, to) ==
    LET health == reviews[from].health - reviews[to].health
        unresolved == reviews[from].unresolved - reviews[to].unresolved
    IN  [health |-> health, unresolved |-> unresolved,
         state |-> IF health < -2 \/ unresolved > 0 THEN "degrading"
                   ELSE IF health > 2 THEN "improving" ELSE "stable"]

-----------------------------------------------------------------------------
\* Time passes; no request changes anything.
Pass == /\ passes < MaxPasses
        /\ passes' = passes + 1
        /\ \E d \in Steps : now' = now + d
        /\ UNCHANGED <<items, reviews, reached, packs, changes>>

Changed == changes < MaxChanges /\ changes' = changes + 1 /\ passes' = passes

\* An item as Create, Update or AttachFile leave it.
Stamped(status, owner) == [status |-> status, owner |-> owner, updated |-> now]

\* POST /app/api/evidence, for the items of a group.
Create == /\ Changed
          /\ \E g \in Groups \ DOMAIN items, s \in Statuses, o \in Owners \cup {NoOwner} :
                items' = [h \in DOMAIN items \cup {g} |->
                             IF h = g THEN Stamped(s, o) ELSE items[h]]
          /\ reached' = reached \cup {"evidence"}
          /\ UNCHANGED <<now, reviews, packs>>

\* A mapping update stores the status deriveStatus gives on the day.
Update == /\ Changed
          /\ \E g \in DOMAIN items, s \in Statuses :
                items' = [items EXCEPT ![g] = Stamped(s, @.owner)]
          /\ UNCHANGED <<now, reviews, reached, packs>>

Upload == /\ Changed
          /\ \E g \in DOMAIN items :
                items' = [items EXCEPT ![g].updated = now]
          /\ reached' = reached \cup {"upload"}
          /\ UNCHANGED <<now, reviews, packs>>

Export == /\ packs < MaxPacks
          /\ packs' = packs + 1
          /\ reached' = reached \cup {"proofpack"}
          /\ UNCHANGED <<now, items, reviews, changes, passes>>

\* GenerateReviewSnapshot and the event it records.
Review == /\ Len(reviews) < MaxReviews
          /\ reviews' = <<[at |-> now, health |-> Health, unresolved |-> Unresolved,
                           stale |-> Count(Stale), expired |-> Count(With("expired")),
                           version |-> changes]>> \o reviews
          /\ reached' = reached \cup {IF "review" \in reached THEN "second" ELSE "review"}
          /\ UNCHANGED <<now, items, packs, changes, passes>>

Next == Pass \/ Create \/ Update \/ Upload \/ Export \/ Review

Spec == Init /\ [][Next]_vars

-----------------------------------------------------------------------------
Rank == [s \in {"exploring", "activated", "operational", "recurring", "expansion-ready"} |->
            CASE s = "exploring" -> 0 [] s = "activated" -> 1 [] s = "operational" -> 2
              [] s = "recurring" -> 3 [] s = "expansion-ready" -> 4]

Stage == deriveStage(Populated)

(* A tenant that has reached a maturity stage stays there or gets further;   *)
(* only from expansion-ready, which looks at health, it can fall, and then   *)
(* to recurring (deriveStage, RecordEvent).                                  *)
StageNeverFalls ==
    [][\/ Rank[Stage'] >= Rank[Stage]
       \/ Stage = "expansion-ready" /\ Stage' = "recurring"]_vars

(* The two readings of the nine-day cadence agree: when the ritual calls it  *)
(* missed, the next review starts a streak of its own (buildPilotRitual      *)
(* floors to whole days, reviewStreak does not).                             *)
MissedBreaksStreak ==
    [][reviews' # reviews /\ Summary.ritual.missed => reviewStreak(reviews') = 1]_vars

(* Without any change of evidence between two reviews the later one is never *)
(* better: time alone only makes items stale (evaluate, CompareReviews).     *)
UnchangedNeverImproves ==
    \A i, j \in 1 .. Len(reviews) :
        i < j /\ reviews[i].version = reviews[j].version
            => CompareReviews(i, j).state # "improving"

(* The code's own warning: founderSignals has a cadence degradation warning  *)
(* for more than nine days without a review (PILOT_MODEL.md: cadence         *)
(* warnings appear when reviews are missed).  A summary that calls the       *)
(* ritual missed holds it.                                                   *)
CadenceWarned ==
    Summary.ritual.missed => "cadence degradation" \in Summary.founder
=============================================================================
