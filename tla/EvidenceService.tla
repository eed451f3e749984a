--------------------------- MODULE EvidenceService ---------------------------
(* internal/evidence/service.go and the HTTP handlers that change evidence:  *)
(* createEvidence, uploadEvidence (internal/http/server.go) and              *)
(* updateEvidenceMappings (internal/http/evidence_graph.go), for one tenant. *)
(* Every call of the Store is one step; what a handler does between two      *)
(* calls interleaves with the other handlers.  There is no operation that    *)
(* deletes evidence.                                                         *)
EXTENDS Integers, Sequences

CONSTANTS Requests,       \* the handlers that run at the same time
          Names,          \* the file names clients upload under
          Bodies,         \* what clients send to create an item
          ReminderDays,   \* reminder_days_before of every item
          FreeTierLimit,  \* FREE_TIER_LIMIT
          MaxItems,       \* bound: items created
          MaxEdits,       \* bound: mapping updates
          MaxUploads,     \* bound: uploads
          LastDay         \* bound: the last day of the clock

NoDate == -1              \* ExpiryDate == nil

\* The statuses clients send: deriveStatus treats "missing" as "archived" and
\* every other one as "".
Sent == {"", "archived"}

\* What createEvidence decodes: expiry, status, and whether a SourceFilePath is there.
Body == [expiry : Nat \cup {NoDate}, status : Sent, claims : BOOLEAN]

ASSUME EvidenceAssumption ==
    /\ Bodies \subseteq Body
    /\ ReminderDays \in Nat
    /\ FreeTierLimit \in Int
    /\ MaxItems \in Nat /\ MaxEdits \in Nat /\ MaxUploads \in Nat /\ LastDay \in Nat

VARIABLES
    today,    \* the UTC day of time.Now()
    items,    \* st.Evidence[tenant], oldest first: an item's ID is its position
    files,    \* st.EvidenceFile[tenant]
    blob,     \* [Names -> Int] what uploads/<name> holds, an upload's number
    sent,     \* the name every upload used: sent[u] for upload u
    edits,    \* mapping updates that have been applied
    pc,       \* [Requests -> Pc] where each handler is
    at,       \* [Requests -> Nat] the item the handler works on, 0 for an unknown ID
    copy,     \* [Requests -> item] what updateEvidenceMappings got from Get
    up        \* [Requests -> Nat] the upload the handler stores

vars == <<today, items, files, blob, sent, edits, pc, at, copy, up>>
handler == <<pc, at, copy, up>>

Kept     == {"missing", "archived"}               \* statuses only a client sets
Statuses == {"active", "expiring", "expired"} \cup Kept
Pcs      == {"idle", "edit", "storing", "attach"}

NoFile   == 0      \* SourceFilePath == "", or no file of that name yet
Cut      == -1     \* created or truncated, not yet copied
Mixed    == -2     \* two uploads wrote into it at the same time

\* A path is known by where it comes from: the number of the upload it was recorded
\* for, or the body that created item i, which createEvidence decodes as a whole Item.
Claimed(i) == -i

Item == [status : Statuses, expiry : Nat \cup {NoDate}, path : Int, refs : Nat,
         created : Nat, updated : Nat]

NoItem == [status |-> "active", expiry |-> NoDate, path |-> NoFile, refs |-> 0,
           created |-> 0, updated |-> 0]

TypeOK == /\ today \in Nat
          /\ items \in Seq(Item)
          /\ files \in Seq([item : Nat, upload : Nat])
          /\ blob \in [Names -> Int]
          /\ sent \in Seq(Names)
          /\ edits \in Nat
          /\ pc \in [Requests -> Pcs]
          /\ at \in [Requests -> Nat]
          /\ copy \in [Requests -> Item]
          /\ up \in [Requests -> Nat]

Init == /\ today = 0
        /\ items = << >>
        /\ files = << >>
        /\ blob = [n \in Names |-> NoFile]
        /\ sent = << >>
        /\ edits = 0
        /\ pc = [r \in Requests |-> "idle"]
        /\ at = [r \in Requests |-> 0]
        /\ copy = [r \in Requests |-> NoItem]
        /\ up = [r \in Requests |-> 0]

-----------------------------------------------------------------------------
(* deriveStatus: what a write on day d stores; existing is what the caller   *)
(* sent, of which only missing and archived survive.                         *)

\* Mutant of deriveStatus: the reminder window is counted from the wrong side.
deriveStatusLate(existing, expiry, d) ==
    CASE existing \in Kept             -> existing
      [] existing \notin Kept /\ expiry = NoDate -> "active"
      [] existing \notin Kept /\ expiry # NoDate /\ expiry <= d -> "expired"
      [] OTHER -> IF expiry <= d + ReminderDays THEN "expiring" ELSE "active"

deriveStatus(existing, expiry, d) ==
    CASE existing \in Kept             -> existing
      [] existing \notin Kept /\ expiry = NoDate -> "active"
      [] existing \notin Kept /\ expiry # NoDate /\ expiry < d -> "expired"
      [] OTHER -> IF expiry <= d + ReminderDays THEN "expiring" ELSE "active"

\* The handler answers; its local variables are gone.
Answer(r) == /\ pc' = [pc EXCEPT ![r] = "idle"]
             /\ at' = [at EXCEPT ![r] = 0]
             /\ copy' = [copy EXCEPT ![r] = NoItem]
             /\ up' = [up EXCEPT ![r] = 0]

-----------------------------------------------------------------------------
(* Service.Create, called by createEvidence and createEvidenceFromTemplate.  *)

Full == Len(items) >= FreeTierLimit

\* Over the limit, or with an item that Validate rejects, nothing changes.  A
\* SourceFilePath that the client sent is stored as it is.
Create(r) == /\ pc[r] = "idle"
             /\ ~Full
             /\ Len(items) < MaxItems
             /\ \E body \in Bodies :
                   items' = Append(items,
                       [status  |-> deriveStatus(body.status, body.expiry, today),
                        expiry  |-> body.expiry, refs |-> 0,
                        path    |-> IF body.claims THEN Claimed(Len(items) + 1) ELSE NoFile,
                        created |-> today, updated |-> today])
             /\ Answer(r)
             /\ UNCHANGED <<today, files, blob, sent, edits>>

-----------------------------------------------------------------------------
(* updateEvidenceMappings: Service.Get, then Service.Update with the whole   *)
(* item and its new references, in a second call of the Store.               *)

MapGet(r) == /\ pc[r] = "idle"
             /\ edits < MaxEdits
             /\ \E i \in 1 .. Len(items) :
                   /\ at' = [at EXCEPT ![r] = i]
                   /\ copy' = [copy EXCEPT ![r] = items[i]]
             /\ pc' = [pc EXCEPT ![r] = "edit"]
             /\ UNCHANGED <<today, items, files, blob, sent, edits, up>>

\* Mutant of MapUpdate: UpdatedAt is left as the caller sent it.
MapUpdateOldTime(r) ==
    /\ pc[r] = "edit"
    /\ edits' = edits + 1
    /\ items' = [items EXCEPT ![at[r]] =
           [copy[r] EXCEPT !.status  = deriveStatus(copy[r].status, copy[r].expiry, today),
                           !.refs    = edits + 1,
                           !.created = items[at[r]].created]]
    /\ Answer(r)
    /\ UNCHANGED <<today, files, blob, sent>>

\* Everything but ID, TenantID, CreatedAt and UpdatedAt comes from the copy;
\* the references are normalised, so Validate has nothing left to reject.
MapUpdate(r) ==
    /\ pc[r] = "edit"
    /\ edits' = edits + 1
    /\ items' = [items EXCEPT ![at[r]] =
           [copy[r] EXCEPT !.status  = deriveStatus(copy[r].status, copy[r].expiry, today),
                           !.refs    = edits + 1,
                           !.created = items[at[r]].created,
                           !.updated = today]]
    /\ Answer(r)
    /\ UNCHANGED <<today, files, blob, sent>>

-----------------------------------------------------------------------------
(* uploadEvidence: LocalClient.Upload writes uploads/<name>, then            *)
(* Service.AttachFile records it.                                            *)

Storing(n) == {r \in Requests : pc[r] = "storing" /\ sent[up[r]] = n}

\* os.Create truncates what an earlier upload of the same name left.  A request
\* without evidence_id or of a type that is not accepted changes nothing.
UploadStart(r) ==
    /\ pc[r] = "idle"
    /\ Len(sent) < MaxUploads
    /\ \E n \in Names, i \in 0 .. Len(items) :
          /\ sent' = Append(sent, n)
          /\ at' = [at EXCEPT ![r] = i]
          /\ blob' = [blob EXCEPT ![n] = IF Storing(n) = {} THEN Cut ELSE Mixed]
    /\ up' = [up EXCEPT ![r] = Len(sent) + 1]
    /\ pc' = [pc EXCEPT ![r] = "storing"]
    /\ UNCHANGED <<today, items, files, edits, copy>>

\* io.Copy has copied the body.
UploadCopied(r) ==
    /\ pc[r] = "storing"
    /\ LET n == sent[up[r]]
       IN \/ blob' = [blob EXCEPT ![n] = up[r]]
          \/ blob[n] = Mixed /\ blob' = blob
    /\ pc' = [pc EXCEPT ![r] = "attach"]
    /\ UNCHANGED <<today, items, files, sent, edits, at, copy, up>>

\* Mutant of UploadFails: a failed copy is not noticed.
UploadFailsUnseen(r) == /\ pc[r] = "storing"
                        /\ pc' = [pc EXCEPT ![r] = "attach"]
                        /\ UNCHANGED <<today, items, files, blob, sent, edits, at, copy,
                                       up>>

\* Copying fails: 503, and whatever was written stays.
UploadFails(r) == /\ pc[r] = "storing"
                  /\ Answer(r)
                  /\ UNCHANGED <<today, items, files, blob, sent, edits>>

\* Mutant of AttachFile: the item gets its path, the record is forgotten.
AttachFileNoRecord(r) ==
    /\ pc[r] = "attach"
    /\ at[r] \in 1 .. Len(items)
    /\ items' = [items EXCEPT ![at[r]].path = up[r], ![at[r]].updated = today]
    /\ Answer(r)
    /\ UNCHANGED <<today, files, blob, sent, edits>>

\* One Write: SourceFilePath and UpdatedAt of the item, and the file's record.
AttachFile(r) ==
    /\ pc[r] = "attach"
    /\ at[r] \in 1 .. Len(items)
    /\ items' = [items EXCEPT ![at[r]].path = up[r], ![at[r]].updated = today]
    /\ files' = Append(files, [item |-> at[r], upload |-> up[r]])
    /\ Answer(r)
    /\ UNCHANGED <<today, blob, sent, edits>>

\* "evidence not found": the stored file belongs to nothing.
AttachUnknown(r) == /\ pc[r] = "attach"
                    /\ at[r] \notin 1 .. Len(items)
                    /\ Answer(r)
                    /\ UNCHANGED <<today, items, files, blob, sent, edits>>

-----------------------------------------------------------------------------
\* Midnight UTC.  Nothing re-derives the stored statuses.
NextDay == /\ today < LastDay
           /\ today' = today + 1
           /\ UNCHANGED <<items, files, blob, sent, edits, handler>>

Handle(r) == \/ Create(r)
             \/ MapGet(r) \/ MapUpdate(r)
             \/ UploadStart(r) \/ UploadCopied(r) \/ UploadFails(r)
             \/ AttachFile(r) \/ AttachUnknown(r)

Next == NextDay \/ \E r \in Requests : Handle(r)

Spec == Init /\ [][Next]_vars

-----------------------------------------------------------------------------
\* What the calendar says of an item on day d, read from its expiry alone.
DaysLeft(it, d) == it.expiry - d

(* A stored status is never ahead of the calendar, whatever stale copy was   *)
(* written back: expired only after the expiry day, expiring only inside the *)
(* reminder window (deriveStatus in Create and Update; AttachFile keeps it). *)
StatusNotAhead ==
    \A i \in 1 .. Len(items) :
        LET it == items[i]
        IN /\ it.status = "expired" => it.expiry # NoDate /\ DaysLeft(it, today) < 0
           /\ it.status = "expiring" => it.expiry # NoDate /\ DaysLeft(it, today) <= ReminderDays

\* Upload u is recorded as a file of item i.
Attached(i, u) ==
    \E k \in 1 .. Len(files) : files[k] = [item |-> i, upload |-> u]

\* No other upload used the name of upload u.
Unique(u) == \A w \in 1 .. Len(sent) : sent[w] = sent[u] => w = u

\* A path item i may carry: none, the one it was created with, or one of its files.
MayCarry(i, path) == path \in {NoFile, Claimed(i)} \/ Attached(i, path)

(* A file path on an item is the one its creator sent or names a file that   *)
(* was recorded for that very item, also when a mapping update wrote back an *)
(* older path: no interleaving gives an item a path of another item, or of   *)
(* an upload that was not recorded (Create, AttachFile, Update).             *)
PathWasAttached == \A i \in 1 .. Len(items) : MayCarry(i, items[i].path)

(* A recorded file is complete and still the one that was uploaded, as long  *)
(* as no other upload used the same name (uploadEvidence attaches only what  *)
(* LocalClient.Upload has copied to the end).                                *)
AttachedIntact ==
    \A k \in 1 .. Len(files) :
        LET u == files[k].upload
        IN Unique(u) => blob[sent[u]] = u

(* UpdatedAt never goes back and CreatedAt never changes, although Update    *)
(* stores a copy that may be older than the item it replaces; stale          *)
(* detection (Item.IsStale) reads them.                                      *)
TimesForward ==
    [][\A i \in 1 .. Len(items) : /\ items'[i].updated >= items[i].updated
                                  /\ items'[i].created = items[i].created]_vars

(* An upload creates the evidence_files record and updates the item's        *)
(* source_file_path (DEPLOYMENT.md): the item points at the last file        *)
(* attached to it.                                                           *)
PathIsLastAttached ==
    \A k \in 1 .. Len(files) :
        (\A m \in k + 1 .. Len(files) : files[m].item # files[k].item)
            => items[files[k].item].path = files[k].upload

-----------------------------------------------------------------------------
(* Why they hold: a copy that will be written back has a path of its item,   *)
(* an upload in progress is nobody else's, and no item was changed later     *)
(* than today.                                                               *)
EditInv ==
    \A r \in Requests : pc[r] = "edit" =>
        /\ at[r] \in 1 .. Len(items)
        /\ MayCarry(at[r], copy[r].path)

UploadInv ==
    /\ \A k \in 1 .. Len(files) : files[k].upload \in 1 .. Len(sent)
    /\ \A r \in Requests : pc[r] \in {"storing", "attach"} =>
          /\ up[r] \in 1 .. Len(sent)
          /\ \A k \in 1 .. Len(files) : files[k].upload # up[r]
          /\ \A q \in Requests : pc[q] \in {"storing", "attach"} /\ up[q] = up[r] => q = r
          /\ Unique(up[r]) =>
                blob[sent[up[r]]] = IF pc[r] = "storing" THEN Cut ELSE up[r]

TimeInv == \A i \in 1 .. Len(items) : items[i].updated <= today

IndInv == /\ TypeOK /\ StatusNotAhead /\ PathWasAttached /\ AttachedIntact
          /\ EditInv /\ UploadInv /\ TimeInv
=============================================================================
