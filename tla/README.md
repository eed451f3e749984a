# EvidenceVault: specifications, model checking and proofs

EvidenceVault is a Go server that keeps compliance evidence for tenants: items
with owners and expiry dates, uploaded files, reminder mails, proofpack exports,
operational reviews, Stripe billing. One process serves HTTP; all state is one
Go struct of maps (`persistence.State`) behind one lock, saved as JSON files.

This directory models what can go wrong when requests overlap, a Write cannot
persist, or the process ends, and the computations (statuses, scores, stages)
that are meant to be deterministic over a long history. Paths below are relative
to the repository; `file_store.go` and the like are in `internal/`.

## 1. Inventory

| Part | State it keeps | Operations | What makes it correct |
|---|---|---|---|
| File store (`persistence/file_store.go`) | `State` in memory, one JSON file for each of its 14 maps, an RWMutex | Read, Write (function, then rewrite every file through a `.tmp`), NewFileStore/load | files whole after any stop, a Write that returned nil stays, no Write under a reader's eyes, every call returns |
| Memory store, `State` (`persistence/repo.go`) | the same maps, no files | Read, Write | as above without the disk |
| Postgres store (`persistence/postgres_store.go`) | an RWMutex, a connection pool, one table for each map | Read, Write (load all rows, function, upsert all rows, commit), Close | what a call was told stays, tables agree, every call returns; not used by `cmd/server` |
| Evidence (`evidence/service.go`) | items, file records | Create, Update, AttachFile, Get, List, Files; status derived on each write | status never ahead of the calendar, a path comes from an upload to its item or from the client that created it, no lost update |
| Upload storage (`storage/storage.go`) | `uploads/<name>` | Upload (truncate, copy) | a recorded file is complete |
| Reminders (`reminders/service.go`) | `ReminderSent` marks | Run: collect and mark under Read, then mail, then audit | one reminder per item, day; the log tells the truth |
| Audit (`audit/audit.go`) | audit entries | Log, ListByTenant | entry for every act that claims one |
| Billing (`billing/service.go`) | processed Stripe events | VerifyWebhook, RecordAndProcessEvent; CheckoutURL and PortalURL only call Stripe | an event is processed once, and durably once acknowledged |
| Operations, history (`operations/service.go`) | review snapshots, events, activation milestones | GenerateReviewSnapshot, RecordEvent | append-only, ordered, milestones agree with events and stay |
| Operations, signals (same file) | none: computed | BuildSummary, evaluate, streak, ritual, stage, founder signals, CompareReviews | deterministic, mutually consistent |
| Adjudication (`operations/adjudication.go`) | issues and their events | EnsureIssue, ResolveIssue | one open issue per item and type, decided once, with its event; not wired into the server |
| Proofpack (`proofpack/service.go`) | pack metadata | Export, List | a pack holds every file attached to its items |
| Evidence graph (`evidencegraph/`) | none: computed from three reads | Build, text exports | every edge has its ends, score and reasons agree |
| HTTP (`http/`) | none | handlers: sequences of store calls; pages and exports | no handler tells a client what did not happen |
| Auth, config, id, demo seed, main | environment | tenant of a request, start-up | |

**How they interact.** Every service calls `Store.Read` or `Store.Write` with a
function. A Write is atomic in memory, and before it lets the lock go it has
rewritten all files. Read hands out the same State, and `reminders.Run` changes a map
inside it: nothing saves that before the next Write of anything. A *request* is several such calls with nothing held in
between, so requests interleave at store calls. Services call one another
directly (reminders and billing call audit; proofpack and the graph call evidence;
handlers call operations last). The clock is read sometimes inside a Write,
sometimes before it. Outside actors are the clients, a cron job that calls the
reminder endpoint, Stripe's deliveries, and whatever ends the process.

**The hard behaviours**, each listed at its line in `PROJECT.json` (`hazards`):
requests that read in one call and write in another; marks set under a shared
lock; a persist error that returns after memory has changed; dropped errors of
Write; crashes between two Writes or between two renames of one Write; repeated
and overlapping deliveries; reads that join several states; statuses and fields
that are stale when read; cadences counted in whole days here, in hours there.

## 2. Modules

| Module | Models | Run |
|---|---|---|
| `DurableStore` | what a store in file mode promises, no locks, loops or temporary files | as `Refinement` of `store` |
| `FileStore` | `file_store.go` instruction by instruction | `store` |
| `IssueLedger` | what adjudication promises, with nothing of a store below it | as `ImplementsLedger` of `postgres` |
| `Adjudication` | the functions `EnsureIssue` and `ResolveIssue` hand to Write | `postgres` |
| `PostgresStore` | `postgres_store.go` with lock, pool, transactions; adjudication and audit on it | `postgres` |
| `EvidenceService` | `evidence/service.go`, `storage.go`, the three handlers that change evidence | `evidence`, `evidence_lost_path` |
| `Proofpack` | `Export` in its separate reads, beside the handlers of `EvidenceService` | `evidence` |
| `Reminders` | `Run`, its handler, the mail adapter, its audit entries | `reminders`, `reminders_twice` |
| `Webhook` | `billing/service.go` and its handler, Stripe as environment | `webhook`, `webhook_audit` |
| `ReviewHistory` | the Writes of reviews, events, milestones by overlapping requests | `reviews` |
| `OperationalReview` | what is computed from history and evidence over weeks | `review_signals`, `review_warning` |
| `EvidenceGraph` | `Builder.Build` in its separate reads, score, actions, cap | `graph` |

For each of the eight that say how a component behaves, `<module>_proofs` holds the theorems
(`EvidenceService_proofs` those of `Proofpack` too, `PostgresStore_proofs` those of `Adjudication`).
`MC<module>` instantiates each for TLC. `FileStore` is the ground of the others:
what is on top takes a Write as one step, with what is proved of it there: what was
acknowledged stays, memory runs ahead after an error. In `Webhook`, `ReviewHistory` and
`PostgresStore` a Write may also fail to persist; `EvidenceService`, `Proofpack`, `Reminders` and
`EvidenceGraph` take it as one that succeeds, for they look at overlapping requests, days
and, in `Reminders`, crashes. `EvidenceGraph` and `OperationalReview` take a
whole request as a step; what overlapping does to histories is `ReviewHistory`'s.

**FileStore.** A caller is `idle`, waiting (`wantR`, `wantW`), `reading`,
`draining` (announced as the writer, waiting for readers to leave) or `writing`:
the states of a goroutine in `sync.RWMutex`. The holder of the write lock goes through
`phase`: the function, then for each file of `todo`, in any order (Go's map
order), open/truncate the `.tmp`, write, fsync, rename. A function inside Read may `Mark`: it changes
one of the maps `Marked` (`ReminderSent`), beside other readers and with nothing that saves it; a Go map
changed by two of them at once is a data race, whose outcomes are marks in some order, a lost mark (no
step) or a runtime that throws (`Crash`). A map, and its file, hold
the number of the change of memory that last touched it; `Partial` is a file cut short,
which `json.Unmarshal` refuses. `disk` is what a running system reads, `medium`
what a power loss leaves: the directory is never synced, so a rename may still
be lost, and a temporary file without fsync is empty or cut. `Crash`, `PowerLoss`
and `PersistError` may come at any instruction; `Restart` is `NewFileStore`.

**PostgresStore.** A caller's `lock` is as in FileStore; `at` is where it is inside Read or Write:
before `BeginTxx` has a connection (`out`), in a transaction (`tx`), with the State `loaded`,
`changed` by its function, upserted and about to `commit`, or `landed`. `work` is that State; `db` the
committed rows of issues, adjudication events and audit entries. Each statement may fail (one action, for they change
nothing before the commit), COMMIT may land and lose its answer, and an error of
`persistState` returns without Rollback, which takes a connection from the pool for good (`leaked`).
A COMMIT is decided before Write returns: one that the server executes only after the connection broke
and the lock was let go is not modelled (it could land on rows another Write has filed since, and file
a second open issue). `told` is what successful calls said. The statements of a load, and those of an upsert, are one step each: only whether one fails matters.

**Proofpack.** It extends the handlers of `EvidenceService` by `Export`: the items are `listed`, then the files
are read into the `payload`; days pass and other requests come in between. Its own record
and audit entry are Writes that `ReviewHistory` takes.

**EvidenceService.** One handler of `Requests` is `idle`, in `edit` (between Get and
Update of `updateEvidenceMappings`), `storing` (copying the upload) or in `attach`
(before `AttachFile`). `Bodies` are what clients send to create an item: `createEvidence` decodes a
whole `evidence.Item`, and `Create` keeps its status and path. A path is the number of the upload it was
recorded for, or `Claimed(i)` when it came with the body of item `i`. `blob` says which upload a name on disk holds, or that it is cut
or a mixture. Days pass between any two calls. `Validate` and the parsing of a
body have one outcome, "refused", which changes nothing and is left out.

**Reminders.** Since `Run` collects inside `Read`, each check of the map and each
mark is a step, and two Runs overlap in them. What makes marks durable is the
next Write of anything, an audit entry in the first place. Reading and writing the
map by two goroutines at once is a data race in Go; the outcomes modelled are
those of the steps in some order, not a runtime that throws.

**Webhook.** Stripe delivers any event to any free handler, again and again.
`Record` checks and marks in one Write, `Audit` is a second one, whose error
`audit.Log` drops. Signature checks reject without changing state.

**ReviewHistory.** The parts of `State` a request writes have a file each; a Write that
fails persists any subset of them. A review's time is taken before its Write, an
event's inside. A handler is one step up to its event (`Handle`), for it changes
other parts of `State`.

**OperationalReview.** Items are groups of equal items (a group may stand for
eleven). A summary is a record of what `BuildSummary` computes in the order the code
assigns it, which matters in `populateDerivedSignals`. Time advances by steps around the
cadence of nine days and around the 180 days of staleness.

**EvidenceGraph.** `listed` is what `Build` has from `List`; when it has loaded packs, reviews and events
(`LoadTenantGraphData`), with as many narratives as `BuildSummary` may find, it answers with a graph of
`applyCaps(Joined(n))`. The graph is kept by nobody, so what must hold of it is stated of the step that answers. Nodes and edges are sets, as
the maps of `work` make them. `applyCaps` keeps a prefix of the nodes sorted by type; which of
one type comes first is left open.

## 3. Runs, bounds and what they show

All bounds are constants that appear in guards, named `Max...` or `Last...`.

* **store** (2 callers, 3 files, 2 changes of memory, 1 persist error, 2 crashes, 1 power
  loss): one Write changes two maps or one of them, so a Write can leave its files
  from two states, and the third, `ReminderSent`, changes inside Reads; two callers make a reader against a writer and two writers; two
  crashes allow a crash after recovery, before the files were rewritten. Files are whole,
  acknowledged Writes stay, a reader never sees a Write, memory differs from disk outside a Write only in the
  marks or after an error, a file never goes back, the store implements `DurableStore`, and every call returns.
* **evidence** (2 handlers, 2 items, 2 file names, 1 mapping update, 2 uploads, days 0..2, expiry on
  day 1, the window only that day; bodies with and without an expiry, archived, with a path; any number of exports): covers the day before, the expiry day and the day after, and an
  export around an upload and a mapping update. The theorems have any window.
* **evidence_lost_path**: violation. A mapping update that began before an upload puts the
  old path back.
* **reminders** (2 Runs at once, 3 calls, 2 items, two days in half days, one failed mail, one crash):
  the certificate expires at noon of the first day (a call at noon is the last that may
  remind), the policy's window opens at that noon (one instant earlier it must not).
* **reminders_twice**: violation. Two Runs both find an item unmarked.
* **webhook** (2 events, 2 handlers, 2 persist errors, 2 crashes): enough for an error on
  the first delivery, a crash before the retry, and a second handler in between. Besides what an
  acknowledgement promises, `GapsHaveCause` counts the events left without an audit entry: in one life of
  the process at most one for each Write that failed.
* **webhook_audit**: violation. Marked, crash, retried, acknowledged as a duplicate, never audited.
* **reviews** (1 tenant, 2 goroutines, 3 requests, 2 failing persists, 2 crashes, 3 ticks):
  three requests give first, second and a further review. `MilestonesStable`: what a Write has saved of a
  milestone stays for ever, and only one that no Write has saved is taken away, by a crash after a Write that
  failed (it is then set again). `MilestonesMatchEvents` assumes
  `crashes = 0 \/ faults = 0`: only a failed Write *and* a crash can part milestones from events.
* **review_signals** (12 items in two groups, 3 reviews, 3 packs, 2 changes, 2 passages of 9, 9.5 or
  180.5 days): 12 items and 3 packs are what expansion-ready asks for.
* **review_warning**: violation. The cadence warning compares a field not assigned yet.
* **graph** (2 items, 1 pack, 2 reviews, 4 changes, one passage of 181 days, any number of Builds; a cap of
  17 nodes, above an empty tenant's graph and below a full one's; `PilotWeeks` is 2 where the code has 4, so that
  a complete pilot fits the bounds).
  Both properties of the score hold of the code's formula and of the documented one (see 4): `UnresolvedCost` is the
  part they leave open.
* **postgres** (2 callers, pool of 2, 3 Writes and any number of Reads, 2 errors, 1 crash): two errors can leak the
  whole pool; three Writes are EnsureIssue, its repetition after a lost answer, and a ResolveIssue of
  either. A call's word stays, no issue is filed or decided twice, tables agree, adjudication
  on this store implements `IssueLedger`, and every call returns as long as a connection is left.

Where a cfg has `CHECK_DEADLOCK FALSE`, requests, days or calls are used up and the system
rests; `store`, `webhook` and `graph` check deadlock. Symmetry is used only in runs without liveness.
The type invariants of the modules are proved (section 5) and not repeated in the runs, but for the
one of `graph` (the score's range).

**Fairness.** Liveness is checked in four runs.
`store`: weak fairness of what a goroutine inside the store does next (the Go scheduler runs what
can run), strong fairness of `Announce` (the inner mutex of RWMutex hands itself to a starving
waiter), weak fairness of `Restart` (a supervisor restarts the server). Nobody is obliged to call in.
`reminders`: weak fairness of the steps of a Run in progress, none of the cron job or the clock.
`postgres`: weak fairness of what a goroutine inside does next, strong fairness of `Announce` (as above) and of
`Begin` (the pool's queue hands a free connection to one that waits). PostgreSQL answers or fails.
`webhook`: weak fairness of a handler at work, and strong fairness of Stripe's delivery of an event
not yet acknowledged, its documented retries; faults are finitely many.

Each property of a passing run has a *mutant*: a definition written beside the one it replaces
("Mutant of ..."), a mistake one could make in that code, under which TLC refutes the property.

## 4. Disagreements found

| Run | Where | What |
|---|---|---|
| `evidence_lost_path` | `http/evidence_graph.go:89` | get, edit, put back in two store calls: an upload between them loses its path |
| `reminders_twice` | `reminders/service.go:41` | check and mark under a shared lock: two Runs mail the same reminder |
| `webhook_audit` | `billing/service.go:113` | marked and audited in two Writes: a retry after a fault is never audited |
| `review_warning` | `operations/service.go:175` | signals are computed before `DaysSinceLastReview` is assigned: the cadence warning never fires |

Seen while reading, without a run of their own:

* A machine that loses power may lose acknowledged Writes, for the directory is never synced (`store`
  guards `AckedDurable` by `powerLosses = 0`; files stay whole). A crash between two renames leaves
  the maps of one Write from two states.
* `GenerateReviewSnapshot` reads the time before it waits for the lock: overlapping reviews may be
  stored with the older one in front, and `CompareReviews(0, 1)` compares the wrong way round. It drops
  the error of Write, so a review can be answered that no restart finds; `AnsweredIsKept` therefore
  assumes that Writes persist, and says nothing of a review whose Write did not.
* `runReminders` records its event under `"global"`, so no tenant reaches the first reminder milestone; an item
  created from a template does not count as first evidence.
* A crash after a mail and before the next Write mails again; a mark persisted by another item's
  audit entry before a crash is a reminder neither sent nor logged.
* `FREE_TIER_LIMIT` of 0 or less is shown as unlimited and refuses every item.
* An overdue review costs ten points of graph health without a reason or an action; the node cap sorts by
  type, so the tenant's root is among the first to go; an event of an item created between the reads has
  an edge without a source (excepted in `EndsExist`).
* `docs/evidence-graph.md:99` takes up to 18 points off for the unresolved issues of the latest review;
  `graphHealth` does not. `ScoreOmitsIssues` (section 5) says how far the two differ, on every graph.
* `createEvidence` decodes a whole item, and `Create` stores the `source_file_path` a client sent: an item, and the
  records of a pack, may name a file nobody attached. `PathWasAttached` and `PackIsClosed` say that such a
  path is that of the item's own creation, and that every other one is attached and in the pack.
* A crash between two renames can leave a resolved issue without its event in file mode; in Postgres the two
  tables change in one transaction.
* Postgres: milestones are stored as a list and loaded into a struct, so each State has them unset and the next Write
  stores them so; audit entries and tenants are never loaded (which is why each Write inserts only its
  own entries); `rows.Err` is not looked at; after a statement for a missing table the transaction is aborted, so
  tolerating "does not exist" leads to an error two statements later, and the columns of migration 0001
  are not those of the statements; two processes on one database lose updates; once persist
  errors have leaked the pool, the next call waits in `BeginTxx` with the lock in its hands.
* The demo seed's stale item is never stale (Create and Update set `UpdatedAt`), and a seed that a
  crash cut short is never completed.
* A risk node shared by several items has the status of the last one built.
* Checkout and portal write no audit entry, although `DEPLOYMENT.md` names them.

## 5. Proofs

Each theorem holds for any values of the constants that the module's named assumption admits: bounds that are
natural numbers, and finite sets where something is counted (the items in `Reminders`, the references of one item in
`EvidenceGraph`: Go slices). Invariants are proved by `IndInv`, the named parts
at the end of each module: `Init => IndInv`, a lemma per action with a step per conjunct, `NextInd`,
and `Invariance`. Where a property is not a part of `IndInv` it follows from it, or has a further
invariant of its own that is inductive beside it (`WaitInv`, `PoolInv`, `GapInv`, `LooksInv`, `FilesInv`, `MatchInv`,
`HealthInv`, and the `OrderInv` of the reviews). Those, and properties that only a theorem states, stand in the
proofs module.

| Module | Theorems (property) | Argument |
|---|---|---|
| `FileStore_proofs` | `AlwaysWhole` (`FilesWhole`), `Durability` (`AckedDurable`), `QuietIsClean` (`CleanWhenQuiet`), `ReadsAreStable` (`StableRead`), `FilesMoveForward` (`DiskForward`), `Implements` (`Refinement`), `NoCircle`, `WriteIsBounded`, `AbstractDurability` | below |
| `PostgresStore_proofs` | `Told` (`ToldIsKept`), `OneOpenIssue` (`OneOpen`), `OneDecision` (`DecidedOnce`), `OneAuditRow` (`AuditOnce`), `Implements` (`ImplementsLedger`), `NoCircle`, `CallIsBounded`, `PoolFits`, `AbstractLedger` | one writer with no reader beside it (`LockInv`), so what a transaction loaded is still what is committed when it lands (`WorkInv`); a Write's ID is unknown to the rows until then (`FreshInv`); each transaction has its connection (`PoolInv`) |
| `EvidenceService_proofs` | `NotAhead` (`StatusNotAhead`), `OwnPath` (`PathWasAttached`), `Whole` (`AttachedIntact`), `Times` (`TimesForward`), `Closed` (`PackIsClosed`), `ExportsOnlyRead`, `OnlyStaleLoses`, `AloneKeepsPath` | a copy in hand has a path its item may carry (`EditInv`), an upload in progress is nobody else's (`UploadInv`), no update is later than today (`TimeInv`); a pack lists only paths attached before it asks for the files (`ListedInv`); file records name items that exist (`FilesInv`) |
| `Reminders_proofs` | `Bounded` (`AttemptsBounded`), `Logged` (`LogsMatchMails`), `Handled` (`MarkIsHandled`), `InWindow` (`OnlyWhenDue`), `Complete`, `RunIsBounded`, `OncePerDay` | attempts of a key and the Runs that have it in hand are together at most the Runs in each life of the process (`ClaimInv`); each mail without an entry belongs to one Run (`LogInv`); what a Run is past is marked (`LooksInv`) |
| `Webhook_proofs` | `Once` (`ProcessedOnce`), `Durable` (`AckedIsDurable`), `GapsExplained` (`GapsHaveCause`), `DeliveryIsBounded`, `AuditedUnlessFault` | the disk is behind the memory, an entry is written after its mark is on disk, at most one handler is between the two; a step that leaves an event without an entry counts an error (`GapInv`) |
| `ReviewHistory_proofs` | `Ordered` (`EventsInOrder`), `FirstThenSecond` (`SecondAfterFirst`), `AppendOnly` (`HistoryAppendOnly`), `KeptTimes` (`MilestonesStable`), `Kept` (`AnsweredIsKept`), `MilestonesTell` (`MilestonesMatchEvents`), `ApartInOrder` | part by part: the disk has the history of some moment before (`DiskInv`, `TailInv`), nothing is later than now (`PastInv`), memory is disk while every Write persists (`KeptInv`); a new event goes in front, so the older ones of its kind stay as many (`MatchInv`); a review stamped alone is not before any stored one (`OrderInv`) |
| `OperationalReview_proofs` | `StageStays` (`StageNeverFalls`), `MissedCadence` (`MissedBreaksStreak`), `TimeOnlyWorsens` (`UnchangedNeverImproves`), `WarningNeverFires` | a streak of three means a second review, whose milestone was reached (`SignalInv`); the greatest streak exists because the naturals are well-founded; the score of the reviews since the last change falls towards today's (`HealthInv`), for the stale items only become more and a sum over more of them is not smaller |
| `EvidenceGraph_proofs` | `Explains` (`HealthIsExplained`), `FixesHelp` (`FixNeverHurts`), `EdgesEnd` (`EndsExist`), `ScoreOmitsIssues`, `CapHolds`, `TypeCorrect` (`TypeOK`) | a gap costs points exactly when an item has it, a fix makes no new gap (an updated item is fresh), and each kind of edge takes its ends from the nodes; events name items that exist (`Named`); the nodes are finitely many, so types are taken until one does not fit, and that one has a subset of each size left |

`Invariance` and `TypeCorrect` (the type invariant of the module) are theorems of each of them.

**The file store.** `AckedDurable` is not inductive. That `Return` acknowledges only what is on disk needs that all files of the loop
were saved, which is `LoopInv` (a file no longer in `todo` equals memory, but for the one in hand, whose
temporary file has memory's content from the write on, and is flushed from the fsync on). That the
memory does not change under the loop needs `LockInv` (one writer, no reader beside it, phases only with a
writer, nobody inside a stopped process). That a rename never takes a file backwards, and that a restart
only loses what was not acknowledged, needs `OrderInv` (`medium <= disk <= mem <= seq`, per file, all of
them whole). `CleanWhenQuiet` closes the loop: a crash outside a Write, with no error before, loses nothing but marks made
inside Reads. So

    IndInv == TypeOK /\ LockInv /\ OrderInv /\ LoopInv /\ CleanWhenQuiet /\ AckedDurable

The refinement maps each action to `Apply` (a mark is one, of its own map), `Save`, `Acknowledge`, `Recover`, `LoseMedium` or a stutter; a crash and
its restart are one `Recover` at the crash. `Implements` of `PostgresStore_proofs` maps the landing of a commit
to `File` or `Resolve` and every other step to a stutter: the ledger changes when the rows do, before the
caller hears of it, and that a repeated `EnsureIssue` finds the issue of a lost answer is why there
is only one.

**What the abstract specifications promise** is proved of them alone: in `DurableStore` whatever was
acknowledged is in its registers (`AbstractDurability`), in `IssueLedger` no key has two open issues and no
issue two decisions (`AbstractLedger`). With `Implements` the same follows for the two stores.

**The safe half of liveness.** That every call returns needs fairness, but what fairness could not
mend is proved without it. `NoCircle` (of both stores): while a call is in progress some goroutine
inside can take its next step. `CanStep(c)` lists the guards of those steps; a reader waits only behind a writer
(`WaitInv`), a writer only for readers, and they for nobody; in Postgres the mutex comes before the pool, so only a
pool that has leaked empty stops the store. `WriteIsBounded`: the steps left of a Write (`StepsLeft`)
become fewer with each of its own, and nobody else adds any. The same holds of a call on the Postgres store (at
most eight steps, `CallIsBounded`), of a delivery of the webhook (three, at the end of which it has its 200 or
has used up a fault, `DeliveryIsBounded`) and of a Run of the reminders (four for each item and three more, however many
Runs it overlaps with, `RunIsBounded`). `Complete`: a Run that has collected has every due item attempted or in the
hands of a Run. Fairness of single goroutines then does the rest, and TLC checks that it does.

**What the violated claims need.** Three of the four are proved under the hypothesis the
documentation leaves out, and for the fourth the cause is. One mail per item and day, where Runs never overlap and nothing crashes
(`OncePerDay`); every acknowledged event audited, without persist errors and crashes (`AuditedUnlessFault`); the path
of the last upload, where requests come one after the other (`AloneKeepsPath`). `OnlyStaleLoses`
says more of the last: whatever overlaps, only the end of a mapping update begun before the upload can lose it.
The cadence warning is in no summary of any history, and with the two assignments of `populateDerivedSignals` in the
other order it would be there exactly when the ritual calls the cadence missed (`WarningNeverFires`). That reviews
are stored newest first fails when two overlap (section 4) and by nothing else: `ApartInOrder` proves it of every
behaviour in which no two requests for reviews of a tenant are between their time and their Write.

**The score and its document.** `ScoreOmitsIssues`: a graph's score is never below what `docs/evidence-graph.md` says and
is above it whenever the latest review left an issue unresolved and there are points to take off; the two agree on
all other graphs (the other penalties are the same in both).

**The cap of the graph.** `EdgesEnd` says something of every graph `applyCaps` may return. That there is one, and that it
has `NodeCap` nodes and the note when there are more, is `CapHolds`, for any tenant and cap; it needs that a read tenant
has finitely many nodes (`NodesFinite`) and that they are of the fourteen types it goes through (`NodeTypes`).

**Sums over items.** `Count` of `OperationalReview` is a fold, a recursive function that takes the groups in an
order nobody knows. `CountIs` proves that it is the number of the items the groups stand for: that number
satisfies the recursive equation, and two solutions cannot differ, for they would have to differ on a least set of
groups (`LeastSubset`, from `WFMin` on the strict subsets of a finite set, which needs no operator as its
parameter). That the score is in range and that more stale items never raise it follow.

**Only model-checked:** the liveness properties `CallReturns` (twice), `DueIsAttempted` and `EventuallyAcked`,
which are out of the prover's reach. Every other property of a passing run is a theorem.

## 6. Not modelled

Auth, configuration, ids and the demo seed (no state, or a fixed sequence before the server listens), page
rendering, CSV and text exports (pure output), operational snapshots and review reports (written only by the demo
seed and tests), the cap on edges and node statuses of the graph, names that collide in `slug`, wording of
narratives, the tables of the Postgres store other than issues, adjudication events and audit entries,
migrations, and two processes on one database.

## 7. Plan

Done: file store (everything rests on it) with its abstract specification; evidence; reminders; webhook;
history; signals; graph; adjudication with its abstract specification on the Postgres store; proofpack; the proofs of
all of them. What could still be added:

1. A composed module of one handler pool over a small store, with `EvidenceService` and `ReviewHistory`
   shown to implement an abstract tenant record.
2. The tables of the Postgres store whose conversions lose data (milestones), once the server uses it.
3. Operational snapshots and review reports, once a handler writes them.

## 8. Running

    tlc -workers 2 -config MCFileStore.cfg MCFileStore.tla     # any MC module with one of its cfgs
    tlapm FileStore_proofs.tla                                  # any of the proof modules

Each run takes at most two or three minutes with two workers.
