------------------------ MODULE EvidenceService_proofs ------------------------
(* Proofs about EvidenceService and Proofpack for any requests, file names,  *)
(* expiries and bounds: statuses never run ahead of the calendar, a path  *)
(* is the item's own, recorded files are whole, times go forward, and a pack *)
(* is closed.                                                                *)
EXTENDS Proofpack, SequenceTheorems, TLAPS

\* What deriveStatus may answer, by the calendar.
LEMMA DerivedStatus ==
  ASSUME NEW s \in Statuses \cup Sent, NEW e \in Nat \cup {NoDate}, NEW d \in Nat
  PROVE  /\ deriveStatus(s, e, d) \in Statuses
         /\ deriveStatus(s, e, d) = "expired" => e # NoDate /\ e - d < 0
         /\ deriveStatus(s, e, d) = "expiring" => e # NoDate /\ e - d <= ReminderDays
<1>1. CASE s \in Kept
  BY <1>1 DEF deriveStatus, Kept, Statuses
<1>2. CASE s \notin Kept /\ e = NoDate
  BY <1>2 DEF deriveStatus, Kept, Statuses
<1>3. CASE s \notin Kept /\ e # NoDate /\ e < d
  BY <1>3 DEF deriveStatus, Kept, Statuses, NoDate
<1>4. CASE s \notin Kept /\ e # NoDate /\ ~(e < d)
  <2>1. deriveStatus(s, e, d) = IF e <= d + ReminderDays THEN "expiring" ELSE "active"
    BY <1>4 DEF deriveStatus
  <2> QED BY <1>4, <2>1, EvidenceAssumption DEF Statuses, NoDate
<1> QED BY <1>1, <1>2, <1>3, <1>4

LEMMA InitInd == Init => IndInv
<1> SUFFICES ASSUME Init PROVE IndInv
  OBVIOUS
<1>1. NoItem \in Item
  BY DEF NoItem, Item, Statuses, NoDate, NoFile
<1>2. TypeOK
  BY <1>1 DEF Init, TypeOK, Pcs, NoFile
<1> QED BY <1>2 DEF Init, IndInv, StatusNotAhead, PathWasAttached, AttachedIntact, EditInv,
                    UploadInv, TimeInv

-----------------------------------------------------------------------------
\* As long as files stay recorded, a path an item may carry stays one.
LEMMA CarryStays ==
  ASSUME NEW i \in Nat, NEW p \in Int, MayCarry(i, p),
         \A j \in Nat, u \in Int : Attached(j, u) => Attached(j, u)'
  PROVE  MayCarry(i, p)'
BY DEF MayCarry

\* A handler that answers takes nothing along; the others keep what they hold.
LEMMA AnswerKeeps ==
  ASSUME NEW r \in Requests, IndInv, Answer(r), UNCHANGED <<sent, blob>>,
         Len(items') \in Nat, Len(items) <= Len(items'),
         \A i \in Nat, u \in Int : Attached(i, u) => Attached(i, u)',
         \A k \in 1 .. Len(files') : \/ k \in 1 .. Len(files) /\ files'[k] = files[k]
                                     \/ /\ pc[r] = "attach"
                                        /\ files'[k].upload = up[r]
  PROVE  /\ pc' \in [Requests -> Pcs] /\ at' \in [Requests -> Nat]
         /\ copy' \in [Requests -> Item] /\ up' \in [Requests -> Nat]
         /\ EditInv' /\ UploadInv'
<1>1. NoItem \in Item
  BY DEF NoItem, Item, Statuses, NoDate, NoFile
<1>2. /\ pc' \in [Requests -> Pcs] /\ at' \in [Requests -> Nat]
      /\ copy' \in [Requests -> Item] /\ up' \in [Requests -> Nat]
  BY <1>1 DEF Answer, IndInv, TypeOK, Pcs
<1>3. /\ pc'[r] = "idle"
      /\ \A q \in Requests : q # r => /\ pc'[q] = pc[q] /\ at'[q] = at[q]
                                    /\ copy'[q] = copy[q] /\ up'[q] = up[q]
  BY DEF Answer, IndInv, TypeOK
<1>4. EditInv'
  <2> SUFFICES ASSUME NEW q \in Requests, pc'[q] = "edit"
               PROVE  /\ at'[q] \in 1 .. Len(items')
                      /\ MayCarry(at[q], copy[q].path)'
    BY DEF EditInv
  <2>1. /\ q # r /\ at'[q] = at[q] /\ copy'[q] = copy[q] /\ pc[q] = "edit"
        /\ at[q] \in Nat /\ copy[q].path \in Int /\ Len(items) \in Nat
    BY <1>3, SMTT(30) DEF IndInv, TypeOK, Item
  <2>2. /\ at[q] \in 1 .. Len(items)
        /\ MayCarry(at[q], copy[q].path)
    BY <2>1 DEF IndInv, EditInv
  <2>3. at'[q] \in 1 .. Len(items')
    BY <2>1, <2>2
  <2>4. MayCarry(at[q], copy[q].path)'
    <3>1. PICK i \in Nat, p \in Int : i = at[q] /\ p = copy[q].path
      BY <2>1
    <3>2. MayCarry(i, p)'
      BY <2>2, <3>1, CarryStays
    <3> QED BY <2>1, <3>1, <3>2 DEF MayCarry, Attached
  <2> QED BY <2>3, <2>4
<1>5. UploadInv'
  <2>1. ASSUME NEW k \in 1 .. Len(files') PROVE files'[k].upload \in 1 .. Len(sent')
    BY DEF IndInv, UploadInv
  <2>2. ASSUME NEW q \in Requests, pc'[q] \in {"storing", "attach"}
        PROVE  /\ up'[q] \in 1 .. Len(sent')
               /\ \A k \in 1 .. Len(files') : files'[k].upload # up'[q]
               /\ \A p \in Requests : pc'[p] \in {"storing", "attach"} /\ up'[p] = up'[q] => p = q
               /\ Unique(up[q])' =>
                     blob'[sent'[up'[q]]] = IF pc'[q] = "storing" THEN Cut ELSE up'[q]
    <3>1. q # r /\ pc[q] \in {"storing", "attach"} /\ up'[q] = up[q] /\ pc'[q] = pc[q]
      BY <1>3, <2>2
    <3>2. up'[q] \in 1 .. Len(sent')
      BY <3>1 DEF IndInv, UploadInv
    <3>3. \A k \in 1 .. Len(files') : files'[k].upload # up'[q]
      BY <3>1 DEF IndInv, UploadInv
    <3>4. \A p \in Requests : pc'[p] \in {"storing", "attach"} /\ up'[p] = up'[q] => p = q
      BY <1>3, <3>1 DEF IndInv, UploadInv
    <3>5. Unique(up[q])' <=> Unique(up[q])
      BY <3>1 DEF Unique
    <3>6. Unique(up[q])' =>
             blob'[sent'[up'[q]]] = IF pc'[q] = "storing" THEN Cut ELSE up'[q]
      BY <3>1, <3>5 DEF IndInv, UploadInv
    <3> QED BY <3>2, <3>3, <3>4, <3>6
  <2> QED BY <2>1, <2>2 DEF UploadInv
<1> QED BY <1>2, <1>4, <1>5

\* Files are recorded by AttachFile alone: the rest keeps what was attached.
LEMMA SameFiles ==
  ASSUME files' = files
  PROVE  \A i, u : Attached(i, u) <=> Attached(i, u)'
BY DEF Attached

LEMMA CreateInd == ASSUME NEW r \in Requests, IndInv, Create(r) PROVE IndInv'
<1>1. UNCHANGED <<today, files, blob, sent, edits>> /\ Answer(r)
  BY DEF Create
<1>2. PICK body \in Bodies :
         items' = Append(items,
             [status  |-> deriveStatus(body.status, body.expiry, today),
              expiry  |-> body.expiry, refs |-> 0,
              path    |-> IF body.claims THEN Claimed(Len(items) + 1) ELSE NoFile,
              created |-> today, updated |-> today])
  BY DEF Create
<1> DEFINE expiry == body.expiry
           path == IF body.claims THEN Claimed(Len(items) + 1) ELSE NoFile
           new == [status  |-> deriveStatus(body.status, expiry, today),
                   expiry  |-> expiry, refs |-> 0, path |-> path,
                   created |-> today, updated |-> today]
<1>3. /\ items \in Seq(Item) /\ today \in Nat /\ expiry \in Nat \cup {NoDate}
      /\ body.status \in Statuses \cup Sent
  BY EvidenceAssumption DEF IndInv, TypeOK, Body
<1>0. path \in Int /\ MayCarry(Len(items) + 1, path)
  <2>1. Len(items) \in Nat
    BY <1>3, LenProperties
  <2>2. CASE body.claims
    BY <2>1, <2>2 DEF MayCarry, Claimed
  <2>3. CASE ~body.claims
    BY <2>3 DEF MayCarry, NoFile
  <2> QED BY <2>2, <2>3
<1>4. /\ new.status \in Statuses
      /\ new.status = "expired" => expiry # NoDate /\ expiry - today < 0
      /\ new.status = "expiring" => expiry # NoDate /\ expiry - today <= ReminderDays
  BY <1>3, DerivedStatus
<1>5. new \in Item
  BY <1>0, <1>3, <1>4 DEF Item
<1>6. /\ items' \in Seq(Item) /\ Len(items') = Len(items) + 1 /\ Len(items) \in Nat
      /\ \A i \in 1 .. Len(items) : items'[i] = items[i]
      /\ items'[Len(items) + 1] = new
  BY <1>2, <1>3, <1>5, AppendProperties, LenProperties
<1>7. \A i \in 1 .. Len(items') : i \in 1 .. Len(items) \/ i = Len(items) + 1
  BY <1>6
<1>8. \A i, u : Attached(i, u) <=> Attached(i, u)'
  BY <1>1, SameFiles
<1>9. /\ pc' \in [Requests -> Pcs] /\ at' \in [Requests -> Nat]
      /\ copy' \in [Requests -> Item] /\ up' \in [Requests -> Nat]
      /\ EditInv' /\ UploadInv'
  BY <1>1, <1>6, <1>8, AnswerKeeps
<1>15. new.path = path
  OBVIOUS
<1> HIDE DEF path, new
<1>10. TypeOK'
  BY <1>1, <1>6, <1>9 DEF IndInv, TypeOK
<1>11. StatusNotAhead'
  BY <1>1, <1>4, <1>6, <1>7 DEF IndInv, StatusNotAhead, DaysLeft, new
<1>12. PathWasAttached'
  BY <1>0, <1>6, <1>7, <1>8, <1>15 DEF IndInv, PathWasAttached, MayCarry
<1>13. AttachedIntact'
  BY <1>1 DEF IndInv, AttachedIntact, Unique
<1>14. TimeInv'
  BY <1>1, <1>3, <1>6, <1>7 DEF IndInv, TimeInv, new
<1> QED BY <1>9, <1>10, <1>11, <1>12, <1>13, <1>14 DEF IndInv

-----------------------------------------------------------------------------
LEMMA MapGetInd == ASSUME NEW r \in Requests, IndInv, MapGet(r) PROVE IndInv'
<1>1. UNCHANGED <<today, items, files, blob, sent, edits, up>> /\ pc[r] = "idle"
  BY DEF MapGet
<1>2. PICK i \in 1 .. Len(items) : /\ at' = [at EXCEPT ![r] = i]
                                   /\ copy' = [copy EXCEPT ![r] = items[i]]
  BY DEF MapGet
<1>3. /\ items \in Seq(Item) /\ i \in Nat /\ items[i] \in Item
  BY <1>2, ElementOfSeq, LenProperties DEF IndInv, TypeOK
<1>4. pc' = [pc EXCEPT ![r] = "edit"]
  BY DEF MapGet
<1>5. /\ pc' \in [Requests -> Pcs] /\ at' \in [Requests -> Nat]
      /\ copy' \in [Requests -> Item]
  BY <1>2, <1>3, <1>4 DEF IndInv, TypeOK, Pcs
<1>6. /\ pc'[r] = "edit" /\ at'[r] = i /\ copy'[r] = items[i]
      /\ \A q \in Requests : q # r => /\ pc'[q] = pc[q] /\ at'[q] = at[q]
                                    /\ copy'[q] = copy[q]
  BY <1>2, <1>4 DEF IndInv, TypeOK
<1>7. TypeOK'
  BY <1>1, <1>5 DEF IndInv, TypeOK
<1>8. StatusNotAhead' /\ PathWasAttached' /\ AttachedIntact' /\ TimeInv'
  BY <1>1 DEF IndInv, StatusNotAhead, DaysLeft, PathWasAttached, MayCarry, Attached,
              AttachedIntact, Unique, TimeInv
<1>9. EditInv'
  <2> SUFFICES ASSUME NEW q \in Requests, pc'[q] = "edit"
               PROVE  /\ at'[q] \in 1 .. Len(items')
                      /\ MayCarry(at[q], copy[q].path)'
    BY DEF EditInv
  <2>1. CASE q = r
    BY <1>1, <1>6, <2>1 DEF IndInv, PathWasAttached, MayCarry, Attached
  <2>2. CASE q # r
    BY <1>1, <1>6, <2>2 DEF IndInv, EditInv, MayCarry, Attached
  <2> QED BY <2>1, <2>2
<1>10. UploadInv'
  BY <1>1, <1>6 DEF IndInv, UploadInv, Unique
<1> QED BY <1>7, <1>8, <1>9, <1>10 DEF IndInv

\* What a mapping update makes of an item is an item.
LEMMA Edited ==
  ASSUME NEW c \in Item, NEW s \in Statuses, NEW n \in Nat, NEW d \in Nat, NEW t \in Nat
  PROVE  [c EXCEPT !.status = s, !.refs = n, !.created = d, !.updated = t] \in Item
BY DEF Item

\* MapUpdate replaces one item, by a copy with a path of that item.
LEMMA MapUpdateInd == ASSUME NEW r \in Requests, IndInv, MapUpdate(r) PROVE IndInv'
<1> DEFINE i == at[r]
           new == [copy[r] EXCEPT !.status  = deriveStatus(copy[r].status, copy[r].expiry, today),
                                  !.refs    = edits + 1,
                                  !.created = items[i].created,
                                  !.updated = today]
<1>1. /\ UNCHANGED <<today, files, blob, sent>> /\ Answer(r) /\ pc[r] = "edit"
      /\ edits' = edits + 1 /\ items' = [items EXCEPT ![i] = new]
  BY DEF MapUpdate
<1>2. /\ items \in Seq(Item) /\ today \in Nat /\ edits \in Nat /\ copy[r] \in Item
      /\ i \in 1 .. Len(items) /\ Len(items) \in Nat
  BY <1>1, LenProperties DEF IndInv, TypeOK, EditInv
<1>3. items[i] \in Item
  BY <1>2, ElementOfSeq
<1>4. /\ copy[r].status \in Statuses \cup Sent /\ copy[r].expiry \in Nat \cup {NoDate}
  BY <1>2 DEF Item
<1>5. /\ new.expiry = copy[r].expiry /\ new.path = copy[r].path /\ new.updated = today
      /\ new.status = deriveStatus(copy[r].status, copy[r].expiry, today)
  BY <1>2 DEF Item
<1>6. /\ new.status \in Statuses
      /\ new.status = "expired" => new.expiry # NoDate /\ new.expiry - today < 0
      /\ new.status = "expiring" => new.expiry # NoDate /\ new.expiry - today <= ReminderDays
  BY <1>2, <1>4, <1>5, DerivedStatus
<1>7. new \in Item
  <2>1. items[i].created \in Nat
    BY <1>3 DEF Item
  <2>2. edits + 1 \in Nat
    BY <1>2
  <2> QED BY <1>2, <1>5, <1>6, <2>1, <2>2, Edited
<1>8. MayCarry(i, new.path)
  BY <1>1, <1>5 DEF IndInv, EditInv
<1> HIDE DEF new
<1>9. /\ items' \in Seq(Item) /\ Len(items') = Len(items)
      /\ \A j \in 1 .. Len(items) : items'[j] = IF j = i THEN new ELSE items[j]
  BY <1>1, <1>2, <1>7, ExceptSeq
<1>10. \A j, u : Attached(j, u) <=> Attached(j, u)'
  BY <1>1, SameFiles
<1>11. /\ pc' \in [Requests -> Pcs] /\ at' \in [Requests -> Nat]
       /\ copy' \in [Requests -> Item] /\ up' \in [Requests -> Nat]
       /\ EditInv' /\ UploadInv'
  BY <1>1, <1>2, <1>9, <1>10, AnswerKeeps
<1>12. TypeOK'
  BY <1>1, <1>2, <1>9, <1>11 DEF IndInv, TypeOK
<1>13. StatusNotAhead'
  BY <1>1, <1>6, <1>9 DEF IndInv, StatusNotAhead, DaysLeft
<1>14. PathWasAttached'
  BY <1>8, <1>9, <1>10 DEF IndInv, PathWasAttached, MayCarry
<1>15. AttachedIntact'
  BY <1>1 DEF IndInv, AttachedIntact, Unique
<1>16. TimeInv'
  BY <1>1, <1>2, <1>5, <1>9 DEF IndInv, TimeInv
<1> QED BY <1>11, <1>12, <1>13, <1>14, <1>15, <1>16 DEF IndInv

-----------------------------------------------------------------------------
LEMMA UploadStartInd == ASSUME NEW r \in Requests, IndInv, UploadStart(r) PROVE IndInv'
<1>1. UNCHANGED <<today, items, files, edits, copy>> /\ pc[r] = "idle"
  BY DEF UploadStart
<1>2. PICK n \in Names, i \in 0 .. Len(items) :
         /\ sent' = Append(sent, n)
         /\ at' = [at EXCEPT ![r] = i]
         /\ blob' = [blob EXCEPT ![n] = IF Storing(n) = {} THEN Cut ELSE Mixed]
  BY DEF UploadStart
<1>3. pc' = [pc EXCEPT ![r] = "storing"] /\ up' = [up EXCEPT ![r] = Len(sent) + 1]
  BY DEF UploadStart
<1>4. /\ sent \in Seq(Names) /\ i \in Nat /\ Len(sent) \in Nat
  BY <1>2, LenProperties DEF IndInv, TypeOK
<1>5. /\ sent' \in Seq(Names) /\ Len(sent') = Len(sent) + 1
      /\ \A u \in 1 .. Len(sent) : sent'[u] = sent[u]
      /\ sent'[Len(sent) + 1] = n
  BY <1>2, <1>4, AppendProperties
<1>6. TypeOK'
  BY <1>1, <1>2, <1>3, <1>4, <1>5 DEF IndInv, TypeOK, Pcs, Cut, Mixed
<1>7. /\ pc'[r] = "storing" /\ up'[r] = Len(sent) + 1
      /\ \A q \in Requests : q # r => /\ pc'[q] = pc[q] /\ at'[q] = at[q]
                                    /\ up'[q] = up[q]
  BY <1>2, <1>3 DEF IndInv, TypeOK
<1>8. /\ blob'[n] = IF Storing(n) = {} THEN Cut ELSE Mixed
      /\ \A m \in Names : m # n => blob'[m] = blob[m]
  BY <1>2 DEF IndInv, TypeOK
\* An upload that is still the only one of its name has not been touched.
<1>9. ASSUME NEW u \in 1 .. Len(sent), Unique(u)'
      PROVE  Unique(u) /\ sent'[u] = sent[u] /\ blob'[sent[u]] = blob[sent[u]]
  <2>1. Unique(u)
    BY <1>4, <1>5, <1>9 DEF Unique
  <2>2. sent[u] # n
    BY <1>4, <1>5, <1>9 DEF Unique
  <2>3. sent[u] \in Names
    BY <1>4, ElementOfSeq
  <2> QED BY <1>5, <1>8, <2>1, <2>2, <2>3
<1>10. StatusNotAhead' /\ PathWasAttached' /\ TimeInv'
  BY <1>1 DEF IndInv, StatusNotAhead, DaysLeft, PathWasAttached, MayCarry, Attached, TimeInv
<1>11. AttachedIntact'
  <2> SUFFICES ASSUME NEW k \in 1 .. Len(files), Unique(files[k].upload)'
               PROVE  blob'[sent'[files[k].upload]] = files[k].upload
    BY <1>1 DEF AttachedIntact
  <2>1. PICK u \in 1 .. Len(sent) : u = files[k].upload
    BY DEF IndInv, UploadInv
  <2>2. Unique(u)'
    BY <1>1, <2>1 DEF Unique
  <2>3. blob[sent[u]] = u
    BY <1>9, <2>1, <2>2 DEF IndInv, AttachedIntact
  <2> QED BY <1>9, <2>1, <2>2, <2>3
<1>12. EditInv'
  BY <1>1, <1>7 DEF IndInv, EditInv, MayCarry, Attached
<1>13. UploadInv'
  <2>1. ASSUME NEW k \in 1 .. Len(files') PROVE files'[k].upload \in 1 .. Len(sent')
    BY <1>1, <1>4, <1>5 DEF IndInv, UploadInv
  <2>2. ASSUME NEW q \in Requests, pc'[q] \in {"storing", "attach"}
        PROVE  /\ up'[q] \in 1 .. Len(sent')
               /\ \A k \in 1 .. Len(files') : files'[k].upload # up'[q]
               /\ \A p \in Requests : pc'[p] \in {"storing", "attach"} /\ up'[p] = up'[q] => p = q
               /\ Unique(up[q])' =>
                     blob'[sent'[up'[q]]] = IF pc'[q] = "storing" THEN Cut ELSE up'[q]
    <3>1. CASE q = r
      <4>1. up'[q] \in 1 .. Len(sent')
        BY <1>4, <1>5, <1>7, <3>1
      <4>2. \A k \in 1 .. Len(files') : files'[k].upload # up'[q]
        BY <1>1, <1>4, <1>7, <3>1 DEF IndInv, UploadInv
      <4>3. \A p \in Requests : pc'[p] \in {"storing", "attach"} /\ up'[p] = up'[q] => p = q
        BY <1>4, <1>7, <3>1 DEF IndInv, UploadInv
      <4>4. ASSUME Unique(up[q])' PROVE blob'[sent'[up'[q]]] = Cut
        <5>1. ASSUME NEW p \in Storing(n) PROVE FALSE
          <6>1. /\ p \in Requests /\ up[p] \in 1 .. Len(sent) /\ sent[up[p]] = n
            BY <5>1 DEF Storing, IndInv, UploadInv
          <6>2. sent'[up[p]] = n /\ sent'[up'[q]] = n /\ up[p] # up'[q]
            BY <1>4, <1>5, <1>7, <3>1, <6>1
          <6> QED BY <1>4, <1>5, <4>4, <6>1, <6>2 DEF Unique
        <5> QED BY <1>5, <1>7, <1>8, <3>1, <5>1
      <4> QED BY <1>7, <3>1, <4>1, <4>2, <4>3, <4>4
    <3>2. CASE q # r
      <4>1. /\ pc[q] \in {"storing", "attach"} /\ pc'[q] = pc[q] /\ up'[q] = up[q]
            /\ up[q] \in 1 .. Len(sent)
        BY <1>7, <2>2, <3>2 DEF IndInv, UploadInv
      <4>2. \A k \in 1 .. Len(files') : files'[k].upload # up'[q]
        BY <1>1, <4>1 DEF IndInv, UploadInv
      <4>3. \A p \in Requests : pc'[p] \in {"storing", "attach"} /\ up'[p] = up'[q] => p = q
        <5> SUFFICES ASSUME NEW p \in Requests, pc'[p] \in {"storing", "attach"}, up'[p] = up'[q]
                     PROVE  p = q
          OBVIOUS
        <5>1. p # r
          BY <1>4, <1>7, <4>1
        <5> QED BY <1>7, <4>1, <5>1 DEF IndInv, UploadInv
      <4>4. ASSUME Unique(up[q])'
            PROVE  blob'[sent'[up'[q]]] = IF pc'[q] = "storing" THEN Cut ELSE up'[q]
        <5>1. PICK u \in 1 .. Len(sent) : u = up[q]
          BY <4>1
        <5>2. Unique(u)'
          BY <4>1, <4>4, <5>1 DEF Unique
        <5>3. blob[sent[u]] = IF pc[q] = "storing" THEN Cut ELSE u
          BY <1>9, <4>1, <5>1, <5>2 DEF IndInv, UploadInv
        <5> QED BY <1>9, <4>1, <5>1, <5>2, <5>3
      <4> QED BY <1>4, <1>5, <4>1, <4>2, <4>3, <4>4
    <3> QED BY <3>1, <3>2
  <2> QED BY <2>1, <2>2 DEF UploadInv
<1> QED BY <1>6, <1>10, <1>11, <1>12, <1>13 DEF IndInv

LEMMA UploadCopiedInd == ASSUME NEW r \in Requests, IndInv, UploadCopied(r) PROVE IndInv'
<1> DEFINE n == sent[up[r]]
<1>1. /\ UNCHANGED <<today, items, files, sent, edits, at, copy, up>>
      /\ pc[r] = "storing" /\ pc' = [pc EXCEPT ![r] = "attach"]
  BY DEF UploadCopied
<1>2. \/ blob' = [blob EXCEPT ![n] = up[r]]
      \/ blob[n] = Mixed /\ blob' = blob
  BY DEF UploadCopied
<1>3. /\ sent \in Seq(Names) /\ up[r] \in 1 .. Len(sent) /\ n \in Names /\ up[r] \in Nat
  <2>1. sent \in Seq(Names) /\ up \in [Requests -> Nat]
    BY DEF IndInv, TypeOK
  <2>2. up[r] \in 1 .. Len(sent)
    BY <1>1 DEF IndInv, UploadInv
  <2> QED BY <2>1, <2>2, ElementOfSeq
<1>4. TypeOK'
  BY <1>1, <1>2, <1>3 DEF IndInv, TypeOK, Pcs
<1>5. /\ pc'[r] = "attach"
      /\ \A q \in Requests : q # r => pc'[q] = pc[q]
  BY <1>1 DEF IndInv, TypeOK
<1>6. \A m \in Names : m # n => blob'[m] = blob[m]
  BY <1>2 DEF IndInv, TypeOK
<1>7. Unique(up[r]) => blob'[n] = up[r]
  <2>1. Unique(up[r]) => blob[n] # Mixed
    BY <1>1 DEF IndInv, UploadInv, Cut, Mixed
  <2> QED BY <1>2, <1>3, <2>1 DEF IndInv, TypeOK
\* Another upload that is alone under its name has another name.
<1>8. ASSUME NEW u \in 1 .. Len(sent), u # up[r], Unique(u)
      PROVE  blob'[sent[u]] = blob[sent[u]]
  <2>1. sent[u] # n /\ sent[u] \in Names
    BY <1>3, <1>8, ElementOfSeq DEF Unique
  <2> QED BY <1>6, <2>1
<1>9. StatusNotAhead' /\ PathWasAttached' /\ TimeInv'
  BY <1>1 DEF IndInv, StatusNotAhead, DaysLeft, PathWasAttached, MayCarry, Attached, TimeInv
<1>10. AttachedIntact'
  <2> SUFFICES ASSUME NEW k \in 1 .. Len(files), Unique(files[k].upload)
               PROVE  blob'[sent[files[k].upload]] = files[k].upload
    BY <1>1 DEF AttachedIntact, Unique
  <2>1. files[k].upload \in 1 .. Len(sent) /\ files[k].upload # up[r]
    BY <1>1 DEF IndInv, UploadInv
  <2> QED BY <1>8, <2>1 DEF IndInv, AttachedIntact
<1>11. EditInv'
  BY <1>1, <1>5 DEF IndInv, EditInv, MayCarry, Attached
<1>12. UploadInv'
  <2>1. ASSUME NEW k \in 1 .. Len(files') PROVE files'[k].upload \in 1 .. Len(sent')
    BY <1>1 DEF IndInv, UploadInv
  <2>2. ASSUME NEW q \in Requests, pc'[q] \in {"storing", "attach"}
        PROVE  /\ up'[q] \in 1 .. Len(sent')
               /\ \A k \in 1 .. Len(files') : files'[k].upload # up'[q]
               /\ \A p \in Requests : pc'[p] \in {"storing", "attach"} /\ up'[p] = up'[q] => p = q
               /\ Unique(up[q])' =>
                     blob'[sent'[up'[q]]] = IF pc'[q] = "storing" THEN Cut ELSE up'[q]
    <3>1. \A p \in Requests : pc'[p] \in {"storing", "attach"} => pc[p] \in {"storing", "attach"}
      BY <1>1, <1>5
    <3>2. /\ up'[q] \in 1 .. Len(sent')
          /\ \A k \in 1 .. Len(files') : files'[k].upload # up'[q]
          /\ \A p \in Requests : pc'[p] \in {"storing", "attach"} /\ up'[p] = up'[q] => p = q
      BY <1>1, <2>2, <3>1 DEF IndInv, UploadInv
    <3>3. Unique(up[q])' <=> Unique(up[q])
      BY <1>1 DEF Unique
    <3>4. CASE q = r
      BY <1>1, <1>5, <1>7, <3>2, <3>3, <3>4
    <3>5. CASE q # r
      <4>1. up[q] \in 1 .. Len(sent) /\ up[q] # up[r] /\ pc'[q] = pc[q]
        BY <1>1, <1>5, <2>2, <3>1, <3>5 DEF IndInv, UploadInv
      <4>2. Unique(up[q]) => blob[sent[up[q]]] = IF pc[q] = "storing" THEN Cut ELSE up[q]
        BY <2>2, <3>1 DEF IndInv, UploadInv
      <4> QED BY <1>1, <1>8, <3>2, <3>3, <4>1, <4>2
    <3> QED BY <3>4, <3>5
  <2> QED BY <2>1, <2>2 DEF UploadInv
<1> QED BY <1>4, <1>9, <1>10, <1>11, <1>12 DEF IndInv

\* A handler that answers with an error leaves everything as it is.
LEMMA DroppedInd ==
  ASSUME NEW r \in Requests, IndInv, Answer(r),
         UNCHANGED <<today, items, files, blob, sent, edits>>
  PROVE  IndInv'
<1>1. Len(items) \in Nat
  BY LenProperties DEF IndInv, TypeOK
<1>2. \A i, u : Attached(i, u) <=> Attached(i, u)'
  BY SameFiles
<1>3. /\ pc' \in [Requests -> Pcs] /\ at' \in [Requests -> Nat]
      /\ copy' \in [Requests -> Item] /\ up' \in [Requests -> Nat]
      /\ EditInv' /\ UploadInv'
  BY <1>1, <1>2, AnswerKeeps
<1>4. TypeOK'
  BY <1>3 DEF IndInv, TypeOK
<1>5. StatusNotAhead' /\ PathWasAttached' /\ AttachedIntact' /\ TimeInv'
  BY DEF IndInv, StatusNotAhead, DaysLeft, PathWasAttached, MayCarry, Attached, AttachedIntact,
         Unique, TimeInv
<1> QED BY <1>3, <1>4, <1>5 DEF IndInv

\* What attaching a file makes of an item is an item.
LEMMA WithPath ==
  ASSUME NEW c \in Item, NEW u \in Int, NEW t \in Nat
  PROVE  [c EXCEPT !.path = u, !.updated = t] \in Item
BY DEF Item

LEMMA AttachFileInd == ASSUME NEW r \in Requests, IndInv, AttachFile(r) PROVE IndInv'
<1> DEFINE i == at[r]
           u == up[r]
           new == [items[i] EXCEPT !.path = u, !.updated = today]
           rec == [item |-> i, upload |-> u]
<1>1. /\ UNCHANGED <<today, blob, sent, edits>> /\ Answer(r) /\ pc[r] = "attach"
      /\ i \in 1 .. Len(items) /\ files' = Append(files, rec)
  BY DEF AttachFile
<1>2. items' = [items EXCEPT ![i] = new]
  BY <1>1 DEF AttachFile
<1>3. /\ items \in Seq(Item) /\ today \in Nat /\ i \in Nat /\ Len(items) \in Nat
      /\ u \in Nat /\ u \in 1 .. Len(sent) /\ files \in Seq([item : Nat, upload : Nat])
      /\ Len(files) \in Nat /\ rec \in [item : Nat, upload : Nat]
  BY <1>1, LenProperties DEF IndInv, TypeOK, UploadInv
<1>4. items[i] \in Item
  BY <1>1, <1>3, ElementOfSeq
<1>5. /\ new.expiry = items[i].expiry /\ new.path = u /\ new.updated = today
      /\ new.status = items[i].status
  BY <1>4 DEF Item
<1>6. new \in Item
  <2>1. u \in Int
    BY <1>3
  <2> QED BY <1>3, <1>4, <2>1, WithPath
<1> HIDE DEF new
<1>7. /\ items' \in Seq(Item) /\ Len(items') = Len(items)
      /\ \A j \in 1 .. Len(items) : items'[j] = IF j = i THEN new ELSE items[j]
  BY <1>1, <1>2, <1>3, <1>6, ExceptSeq
<1>8. /\ files' \in Seq([item : Nat, upload : Nat]) /\ Len(files') = Len(files) + 1
      /\ \A k \in 1 .. Len(files) : files'[k] = files[k]
      /\ files'[Len(files) + 1] = rec
  BY <1>1, <1>3, AppendProperties
<1>9. \A k \in 1 .. Len(files') : \/ k \in 1 .. Len(files) /\ files'[k] = files[k]
                                  \/ k = Len(files) + 1 /\ files'[k].upload = u
  <2>1. \A k \in 1 .. Len(files') : k \in 1 .. Len(files) \/ k = Len(files) + 1
    BY <1>3, <1>8
  <2>2. files'[Len(files) + 1].upload = u
    BY <1>8
  <2> QED BY <1>8, <2>1, <2>2
<1>10. \A j \in Nat, w \in Int : Attached(j, w) => Attached(j, w)'
  <2> SUFFICES ASSUME NEW j \in Nat, NEW w \in Int, Attached(j, w)
               PROVE  \E k \in 1 .. Len(files') : files'[k] = [item |-> j, upload |-> w]
    BY DEF Attached
  <2>1. PICK k \in 1 .. Len(files) : files[k] = [item |-> j, upload |-> w]
    BY DEF Attached
  <2>2. k \in 1 .. Len(files')
    BY <1>3, <1>8
  <2> QED BY <1>8, <2>1, <2>2
<1>11. \E k \in 1 .. Len(files') : files'[k] = rec
  <2>1. Len(files) + 1 \in 1 .. Len(files')
    BY <1>3, <1>8
  <2> QED BY <1>8, <2>1
<1>12. /\ pc' \in [Requests -> Pcs] /\ at' \in [Requests -> Nat]
       /\ copy' \in [Requests -> Item] /\ up' \in [Requests -> Nat]
       /\ EditInv' /\ UploadInv'
  BY <1>1, <1>3, <1>7, <1>9, <1>10, AnswerKeeps, SMTT(30)
<1>13. TypeOK'
  BY <1>1, <1>7, <1>8, <1>12 DEF IndInv, TypeOK
<1>14. StatusNotAhead'
  BY <1>1, <1>5, <1>7 DEF IndInv, StatusNotAhead, DaysLeft
<1>15. PathWasAttached'
  <2> SUFFICES ASSUME NEW j \in 1 .. Len(items)
               PROVE  MayCarry(j, items[j].path)'
    BY <1>7 DEF PathWasAttached
  <2>1. CASE j = i
    BY <1>5, <1>7, <1>11, <2>1 DEF MayCarry, Attached
  <2>2. CASE j # i
    <3>1. items[j] \in Item /\ j \in Nat
      BY <1>3, ElementOfSeq
    <3>2. PICK w \in Int : w = items[j].path
      BY <3>1 DEF Item
    <3>3. MayCarry(j, w)
      BY <3>2 DEF IndInv, PathWasAttached
    <3>4. MayCarry(j, w)'
      BY <1>10, <3>1, <3>3, CarryStays
    <3> QED BY <1>7, <2>2, <3>2, <3>4 DEF MayCarry, Attached
  <2> QED BY <2>1, <2>2
<1>16. AttachedIntact'
  <2> SUFFICES ASSUME NEW k \in 1 .. Len(files'), Unique(files'[k].upload)
               PROVE  blob[sent[files'[k].upload]] = files'[k].upload
    BY <1>1 DEF AttachedIntact, Unique
  <2>1. CASE k \in 1 .. Len(files) /\ files'[k] = files[k]
    BY <2>1 DEF IndInv, AttachedIntact
  <2>2. CASE files'[k].upload = u
    BY <1>1, <2>2 DEF IndInv, UploadInv
  <2> QED BY <1>9, <2>1, <2>2
<1>17. TimeInv'
  <2>1. today' = today /\ today \in Nat
    BY <1>1, <1>3
  <2> SUFFICES ASSUME NEW j \in 1 .. Len(items) PROVE items'[j].updated <= today
    BY <1>7, <2>1 DEF TimeInv
  <2>2. CASE j = i
    BY <1>5, <1>7, <2>1, <2>2
  <2>3. CASE j # i
    BY <1>7, <2>3 DEF IndInv, TimeInv
  <2> QED BY <2>2, <2>3
<1> QED BY <1>12, <1>13, <1>14, <1>15, <1>16, <1>17 DEF IndInv

LEMMA NextDayInd == ASSUME IndInv, NextDay PROVE IndInv'
<1>1. /\ today' = today + 1 /\ today \in Nat
      /\ UNCHANGED <<items, files, blob, sent, edits, pc, at, copy, up>>
  BY DEF NextDay, handler, IndInv, TypeOK
<1>2. /\ Len(items) \in Nat
      /\ \A i \in 1 .. Len(items) : items[i].expiry \in Int /\ items[i].updated \in Nat
  <2>1. \A i \in 1 .. Len(items) : items[i] \in Item
    BY ElementOfSeq DEF IndInv, TypeOK
  <2> QED BY <2>1, LenProperties, SMTT(30) DEF IndInv, TypeOK, Item, NoDate
<1>3. TypeOK'
  BY <1>1 DEF IndInv, TypeOK
<1>4. StatusNotAhead'
  BY <1>1, <1>2, EvidenceAssumption DEF IndInv, StatusNotAhead, DaysLeft
<1>5. TimeInv'
  BY <1>1, <1>2 DEF IndInv, TimeInv
<1>6. PathWasAttached' /\ AttachedIntact' /\ EditInv' /\ UploadInv'
  BY <1>1 DEF IndInv, PathWasAttached, MayCarry, Attached, AttachedIntact, Unique, EditInv,
              UploadInv
<1> QED BY <1>3, <1>4, <1>5, <1>6 DEF IndInv

LEMMA StutterInd == ASSUME IndInv, UNCHANGED vars PROVE IndInv'
BY DEF vars, IndInv, TypeOK, StatusNotAhead, DaysLeft, PathWasAttached, MayCarry, Attached,
       AttachedIntact, Unique, EditInv, UploadInv, TimeInv

LEMMA NextInd == IndInv /\ [Next]_vars => IndInv'
<1> SUFFICES ASSUME IndInv, [Next]_vars PROVE IndInv'
  OBVIOUS
<1>1. CASE NextDay
  BY <1>1, NextDayInd
<1>2. ASSUME NEW r \in Requests, Handle(r) PROVE IndInv'
  <2>1. CASE Create(r)
    BY <2>1, CreateInd
  <2>2. CASE MapGet(r)
    BY <2>2, MapGetInd
  <2>3. CASE MapUpdate(r)
    BY <2>3, MapUpdateInd
  <2>4. CASE UploadStart(r)
    BY <2>4, UploadStartInd
  <2>5. CASE UploadCopied(r)
    BY <2>5, UploadCopiedInd
  <2>6. CASE UploadFails(r)
    BY <2>6, DroppedInd DEF UploadFails
  <2>7. CASE AttachFile(r)
    BY <2>7, AttachFileInd
  <2>8. CASE AttachUnknown(r)
    BY <2>8, DroppedInd DEF AttachUnknown
  <2> QED BY <1>2, <2>1, <2>2, <2>3, <2>4, <2>5, <2>6, <2>7, <2>8 DEF Handle
<1>3. CASE UNCHANGED vars
  BY <1>3, StutterInd
<1> QED BY <1>1, <1>2, <1>3 DEF Next

(* The inductive invariant holds in every reachable state of the service.    *)
THEOREM Invariance == Spec => []IndInv
BY InitInd, NextInd, PTL DEF Spec

(* No stored status runs ahead of the calendar (deriveStatus).               *)
THEOREM NotAhead == Spec => []StatusNotAhead
<1>1. IndInv => StatusNotAhead
  BY DEF IndInv
<1> QED BY <1>1, Invariance, PTL

(* An item's path is the one it was created with or names a file recorded    *)
(* for that item, also after a mapping update wrote an older copy back       *)
(* (Create, AttachFile, Update).                                             *)
THEOREM OwnPath == Spec => []PathWasAttached
<1>1. IndInv => PathWasAttached
  BY DEF IndInv
<1> QED BY <1>1, Invariance, PTL

(* A recorded file whose name no other upload used is whole (uploadEvidence, *)
(* LocalClient.Upload).                                                      *)
THEOREM Whole == Spec => []AttachedIntact
<1>1. IndInv => AttachedIntact
  BY DEF IndInv
<1> QED BY <1>1, Invariance, PTL

-----------------------------------------------------------------------------
\* What a step may do to the times of the items there are.
Forward == \A i \in 1 .. Len(items) : /\ items'[i].updated >= items[i].updated
                                      /\ items'[i].created = items[i].created

LEMMA NextForward == IndInv /\ [Next]_vars => Forward
<1> SUFFICES ASSUME IndInv, [Next]_vars PROVE Forward
  OBVIOUS
<1>1. /\ items \in Seq(Item) /\ Len(items) \in Nat /\ today \in Nat
      /\ \A i \in 1 .. Len(items) : /\ items[i] \in Item /\ items[i].updated \in Nat
                                    /\ items[i].updated <= today
  <2>1. \A i \in 1 .. Len(items) : items[i] \in Item
    BY ElementOfSeq DEF IndInv, TypeOK
  <2> QED BY <2>1, LenProperties DEF IndInv, TypeOK, Item, TimeInv
<1>2. CASE UNCHANGED items
  BY <1>1, <1>2 DEF Forward
<1>3. ASSUME NEW r \in Requests, Create(r) PROVE Forward
  <2>1. PICK new : items' = Append(items, new)
    BY <1>3 DEF Create
  <2>2. \A i \in 1 .. Len(items) : items'[i] = items[i]
    BY <1>1, <2>1
  <2> QED BY <1>1, <2>2 DEF Forward
<1>4. ASSUME NEW r \in Requests, MapUpdate(r) PROVE Forward
  <2>1. /\ copy[r] \in Item /\ at[r] \in 1 .. Len(items) /\ pc[r] = "edit"
    BY <1>4 DEF MapUpdate, IndInv, TypeOK, EditInv
  <2>2. PICK s, n : items' = [items EXCEPT ![at[r]] =
           [copy[r] EXCEPT !.status = s, !.refs = n, !.created = items[at[r]].created,
                           !.updated = today]]
    BY <1>4 DEF MapUpdate
  <2>3. ASSUME NEW i \in 1 .. Len(items), i = at[r]
        PROVE  items'[i].updated = today /\ items'[i].created = items[i].created
    BY <1>1, <2>1, <2>2, <2>3 DEF Item
  <2>4. \A i \in 1 .. Len(items) : i # at[r] => items'[i] = items[i]
    BY <1>1, <2>2
  <2> QED BY <1>1, <2>3, <2>4 DEF Forward
<1>5. ASSUME NEW r \in Requests, AttachFile(r) PROVE Forward
  <2>1. PICK new : /\ items' = [items EXCEPT ![at[r]] = new]
                   /\ new = [items[at[r]] EXCEPT !.path = up[r], !.updated = today]
    BY <1>5 DEF AttachFile
  <2>2. at[r] \in 1 .. Len(items)
    BY <1>5 DEF AttachFile
  <2>3. new.updated = today /\ new.created = items[at[r]].created
    BY <1>1, <2>1, <2>2 DEF Item
  <2>4. \A i \in 1 .. Len(items) : items'[i] = IF i = at[r] THEN new ELSE items[i]
    BY <1>1, <2>1, <2>2
  <2> QED BY <1>1, <2>3, <2>4 DEF Forward
<1> QED
  BY <1>2, <1>3, <1>4, <1>5
  DEF Next, Handle, vars, NextDay, MapGet, UploadStart, UploadCopied, UploadFails, AttachUnknown

(* UpdatedAt never goes back and CreatedAt never changes (Create, Update,    *)
(* AttachFile).                                                              *)
THEOREM Times == Spec => TimesForward
<1>1. IndInv /\ [Next]_vars => [Forward]_vars
  BY NextForward
<1>2. []IndInv /\ [][Next]_vars => [][Forward]_vars
  BY <1>1, PTL
<1>3. [][Forward]_vars => TimesForward
  BY PTL DEF TimesForward, Forward
<1> QED BY <1>2, <1>3, Invariance, PTL DEF Spec

-----------------------------------------------------------------------------
(* Which step can lose the file attached last.                               *)

\* A mapping update in progress whose copy has another path than its item by now.
StaleCopy(r) == pc[r] = "edit" /\ copy[r].path # items[at[r]].path

(* A file attached last is lost by one thing only, the end of a mapping      *)
(* update whose copy was taken before the file was attached                  *)
(* (updateEvidenceMappings: Get, then Update); no upload, creation or other  *)
(* update does it, however they overlap.                                     *)
OnlyStaleCopyLoses ==
    [][PathIsLastAttached =>
          \/ PathIsLastAttached'
          \/ \E r \in Requests : StaleCopy(r) /\ pc'[r] = "idle"]_vars

\* Files belong to items that exist.
FilesInv == \A k \in 1 .. Len(files) : files[k].item \in 1 .. Len(items)

\* What is known of the sequences, by their types.
LEMMA Shapes ==
  ASSUME IndInv
  PROVE  /\ items \in Seq(Item) /\ Len(items) \in Nat
         /\ files \in Seq([item : Nat, upload : Nat]) /\ Len(files) \in Nat
         /\ \A i \in 1 .. Len(items) : items[i] \in Item
         /\ \A k \in 1 .. Len(files) : files[k].item \in Nat /\ files[k].upload \in Nat
<1>1. items \in Seq(Item) /\ files \in Seq([item : Nat, upload : Nat])
  BY DEF IndInv, TypeOK
<1>2. /\ \A i \in 1 .. Len(items) : items[i] \in Item
      /\ \A k \in 1 .. Len(files) : files[k] \in [item : Nat, upload : Nat]
  BY <1>1, ElementOfSeq
<1> QED BY <1>1, <1>2, LenProperties

\* Only AttachFile and the end of a stale mapping update change the path of an item.
LEMMA PathsKept ==
  ASSUME IndInv, [Next]_vars, \A r \in Requests : ~AttachFile(r),
         \A r \in Requests : MapUpdate(r) => ~StaleCopy(r)
  PROVE  /\ files' = files /\ Len(items') \in Nat /\ Len(items) <= Len(items')
         /\ \A i \in 1 .. Len(items) : items'[i].path = items[i].path
<1> DEFINE Same == /\ files' = files /\ Len(items') \in Nat /\ Len(items) <= Len(items')
                    /\ \A i \in 1 .. Len(items) : items'[i].path = items[i].path
<1>1. CASE UNCHANGED <<items, files>>
  BY <1>1, Shapes
<1>2. ASSUME NEW r \in Requests, Create(r) PROVE Same
  <2>1. PICK new : items' = Append(items, new)
    BY <1>2 DEF Create
  <2>2. /\ Len(items') = Len(items) + 1
        /\ \A i \in 1 .. Len(items) : items'[i] = items[i]
    BY <2>1, Shapes
  <2>3. files' = files
    BY <1>2 DEF Create
  <2> QED BY <2>2, <2>3, Shapes
<1>3. ASSUME NEW r \in Requests, MapUpdate(r) PROVE Same
  <2>1. /\ copy[r] \in Item /\ at[r] \in 1 .. Len(items) /\ files' = files
        /\ copy[r].path = items[at[r]].path
    BY <1>3 DEF MapUpdate, StaleCopy, IndInv, TypeOK, EditInv
  <2>2. PICK s, n, d, t : items' = [items EXCEPT ![at[r]] =
           [copy[r] EXCEPT !.status = s, !.refs = n, !.created = d, !.updated = t]]
    BY <1>3 DEF MapUpdate
  <2> DEFINE new == [copy[r] EXCEPT !.status = s, !.refs = n, !.created = d, !.updated = t]
  <2>3. new.path = copy[r].path
    BY <2>1 DEF Item
  <2> HIDE DEF new
  <2>4. Len(items') = Len(items)
        /\ \A i \in 1 .. Len(items) : items'[i] = IF i = at[r] THEN new ELSE items[i]
    BY <2>1, <2>2, Shapes DEF new
  <2> QED BY <2>1, <2>3, <2>4, Shapes
<1> QED
  BY <1>1, <1>2, <1>3
  DEF Next, Handle, vars, NextDay, MapGet, UploadStart, UploadCopied, UploadFails, AttachUnknown

\* What AttachFile does to the paths and the records.
LEMMA AttachFacts ==
  ASSUME IndInv, NEW r \in Requests, AttachFile(r)
  PROVE  /\ at[r] \in 1 .. Len(items) /\ Len(items') = Len(items)
         /\ \A i \in 1 .. Len(items) :
               items'[i].path = IF i = at[r] THEN up[r] ELSE items[i].path
         /\ Len(files') = Len(files) + 1
         /\ \A k \in 1 .. Len(files) : files'[k] = files[k]
         /\ files'[Len(files) + 1] = [item |-> at[r], upload |-> up[r]]
<1>1. /\ at[r] \in 1 .. Len(items)
      /\ files' = Append(files, [item |-> at[r], upload |-> up[r]])
  BY DEF AttachFile
<1>2. PICK new : /\ items' = [items EXCEPT ![at[r]] = new]
                 /\ new = [items[at[r]] EXCEPT !.path = up[r], !.updated = today]
  BY DEF AttachFile
<1>3. new.path = up[r]
  BY <1>1, <1>2, Shapes DEF Item
<1>4. Len(items') = Len(items)
      /\ \A i \in 1 .. Len(items) : items'[i] = IF i = at[r] THEN new ELSE items[i]
  BY <1>1, <1>2, Shapes
<1>5. /\ Len(files') = Len(files) + 1
      /\ \A k \in 1 .. Len(files) : files'[k] = files[k]
      /\ files'[Len(files) + 1] = [item |-> at[r], upload |-> up[r]]
  BY <1>1, Shapes
<1> QED BY <1>1, <1>3, <1>4, <1>5

LEMMA FilesNext == IndInv /\ FilesInv /\ [Next]_vars => FilesInv'
<1> SUFFICES ASSUME IndInv, FilesInv, [Next]_vars, NEW k \in 1 .. Len(files')
             PROVE  files'[k].item \in 1 .. Len(items')
  BY DEF FilesInv
<1>1. ASSUME NEW r \in Requests, AttachFile(r) PROVE files'[k].item \in 1 .. Len(items')
  <2>1. /\ at[r] \in 1 .. Len(items) /\ Len(items') = Len(items)
        /\ Len(files') = Len(files) + 1 /\ Len(files) \in Nat
        /\ \A j \in 1 .. Len(files) : files'[j] = files[j]
        /\ files'[Len(files) + 1] = [item |-> at[r], upload |-> up[r]]
    BY <1>1, AttachFacts, Shapes
  <2>2. CASE k \in 1 .. Len(files)
    BY <2>1, <2>2 DEF FilesInv
  <2>3. CASE k = Len(files) + 1
    <3>1. files'[k].item = at[r]
      BY <2>1, <2>3
    <3> QED BY <2>1, <3>1
  <2>4. k \in 1 .. Len(files) \/ k = Len(files) + 1
    <3> DEFINE n == Len(files)
    <3>1. n \in Nat /\ k \in 1 .. n + 1
      BY <2>1
    <3> HIDE DEF n
    <3>2. k \in 1 .. n \/ k = n + 1
      BY <3>1
    <3> QED BY <3>2 DEF n
  <2> QED BY <2>2, <2>3, <2>4
<1>2. CASE \A r \in Requests : ~AttachFile(r)
  <2>1. files' = files /\ Len(items') \in Nat /\ Len(items) <= Len(items')
    <3>1. ASSUME NEW r \in Requests, MapUpdate(r)
          PROVE  files' = files /\ Len(items') = Len(items)
      <4>1. at[r] \in 1 .. Len(items) /\ files' = files
        BY <3>1 DEF MapUpdate, IndInv, EditInv
      <4>2. PICK new : items' = [items EXCEPT ![at[r]] = new]
        BY <3>1 DEF MapUpdate
      <4> QED BY <4>1, <4>2, Shapes
    <3>2. CASE \A r \in Requests : ~MapUpdate(r)
      BY <1>2, <3>2, PathsKept
    <3> QED BY <3>1, <3>2, Shapes
  <2>2. k \in 1 .. Len(files) /\ files'[k] = files[k]
    BY <2>1
  <2>3. files[k].item \in 1 .. Len(items)
    BY <2>2 DEF FilesInv
  <2>4. Len(items) \in Nat
    BY Shapes
  <2> HIDE DEF FilesInv
  <2> QED BY <2>1, <2>2, <2>3, <2>4
<1> QED BY <1>1, <1>2

\* An upload makes itself the last; a fresh copy changes no path.
LEMMA PathStep ==
  ASSUME IndInv, FilesInv, PathIsLastAttached, [Next]_vars,
         \A r \in Requests : MapUpdate(r) => ~StaleCopy(r)
  PROVE  PathIsLastAttached'
<1>1. CASE \A r \in Requests : ~AttachFile(r)
  BY <1>1, PathsKept DEF PathIsLastAttached, FilesInv
<1>2. ASSUME NEW r \in Requests, AttachFile(r) PROVE PathIsLastAttached'
  <2> DEFINE n == Len(files)
  <2>1. n \in Nat /\ Len(files') = n + 1
    BY <1>2, AttachFacts, Shapes
  <2> SUFFICES ASSUME NEW k \in 1 .. n + 1,
                      \A m \in k + 1 .. n + 1 : files'[m].item # files'[k].item
               PROVE  items'[files'[k].item].path = files'[k].upload
    BY <2>1 DEF PathIsLastAttached
  <2> DEFINE last == files'[n + 1]
  <2>4. /\ last = [item |-> at[r], upload |-> up[r]]
        /\ at[r] \in 1 .. Len(items) /\ items'[at[r]].path = up[r]
    BY <1>2, AttachFacts
  <2>5. last.item = at[r] /\ items'[last.item].path = last.upload
    BY <2>4
  <2>2. CASE k = n + 1
    BY <2>2, <2>5
  <2>3. CASE k \in 1 .. n
    <3>1. files'[k] = files[k] /\ files[k].item \in 1 .. Len(items)
      BY <1>2, <2>3, AttachFacts DEF FilesInv
    <3>2. files'[n + 1].item # files[k].item /\ files'[n + 1].item = at[r]
      <4>1. n + 1 \in k + 1 .. n + 1
        BY <2>1, <2>3
      <4>2. files'[n + 1].item # files'[k].item
        BY <4>1
      <4> QED BY <2>5, <3>1, <4>2
    <3>3. \A m \in k + 1 .. n : files[m].item # files[k].item
      <4> SUFFICES ASSUME NEW m \in k + 1 .. n PROVE files[m].item # files[k].item
        OBVIOUS
      <4>1. m \in 1 .. n /\ m \in k + 1 .. n + 1
        BY <2>1, <2>3
      <4>2. files'[m] = files[m]
        BY <1>2, <4>1, AttachFacts
      <4> QED BY <3>1, <4>1, <4>2
    <3>4. items[files[k].item].path = files[k].upload
      BY <2>3, <3>3 DEF PathIsLastAttached
    <3>5. \A i \in 1 .. Len(items) :
             items'[i].path = IF i = at[r] THEN up[r] ELSE items[i].path
      BY <1>2, AttachFacts
    <3>6. files[k].item \in 1 .. Len(items) /\ files[k].item # at[r]
      BY <3>1, <3>2
    <3>7. items'[files[k].item].path = files[k].upload
      BY <3>4, <3>5, <3>6
    <3> QED BY <3>1, <3>7
  <2> QED BY <2>1, <2>2, <2>3
<1> QED BY <1>1, <1>2

LEMMA FilesInit == Init => FilesInv
BY DEF Init, FilesInv

(* The only way to lose the file attached last is the one the run            *)
(* evidence_lost_path shows: a mapping update that writes an old copy back   *)
(* (updateEvidenceMappings).                                                 *)
THEOREM OnlyStaleLoses == Spec => OnlyStaleCopyLoses
<1> DEFINE Loses == PathIsLastAttached =>
                       PathIsLastAttached' \/ \E r \in Requests : StaleCopy(r) /\ pc'[r] = "idle"
<1>1. ASSUME IndInv, FilesInv, [Next]_vars PROVE Loses
  <2> SUFFICES ASSUME PathIsLastAttached, ~PathIsLastAttached'
               PROVE  \E r \in Requests : StaleCopy(r) /\ pc'[r] = "idle"
    OBVIOUS
  <2>1. PICK r \in Requests : MapUpdate(r) /\ StaleCopy(r)
    BY <1>1, PathStep
  <2>2. pc'[r] = "idle"
    BY <1>1, <2>1 DEF MapUpdate, Answer, IndInv, TypeOK
  <2> QED BY <2>1, <2>2
<1>2. IndInv /\ FilesInv /\ [Next]_vars => [Loses]_vars
  BY <1>1
<1>3. Spec => []FilesInv
  BY FilesInit, FilesNext, Invariance, PTL DEF Spec
<1> HIDE DEF Loses
<1> QED BY <1>2, <1>3, Invariance, PTL DEF Spec, OnlyStaleCopyLoses, Loses

\* One request at a time: nobody comes between Get and Update.
Alone == \A p, q \in Requests : p = q

FreshInv == /\ FilesInv /\ PathIsLastAttached
            /\ \A r \in Requests : ~StaleCopy(r)

LEMMA FreshNext == IndInv /\ (Alone => FreshInv) /\ [Next]_vars => (Alone => FreshInv')
<1> SUFFICES ASSUME IndInv, Alone, FreshInv, [Next]_vars PROVE FreshInv'
  OBVIOUS
<1>1. FilesInv'
  BY FilesNext DEF FreshInv
<1>2. PathIsLastAttached'
  BY PathStep DEF FreshInv
<1>3. ASSUME NEW r \in Requests, StaleCopy(r)' PROVE FALSE
  <2>1. /\ pc \in [Requests -> Pcs] /\ at \in [Requests -> Nat] /\ copy \in [Requests -> Item]
        /\ pc'[r] = "edit"
    BY <1>3 DEF StaleCopy, IndInv, TypeOK
  <2>2. CASE MapGet(r)
    BY <1>3, <2>1, <2>2 DEF MapGet, StaleCopy
  <2>3. ASSUME NEW q \in Requests, Handle(q), ~MapGet(q) PROVE FALSE
    <3>1. q = r
      BY DEF Alone
    <3>2. pc'[r] # "edit"
      BY <2>1, <2>3, <3>1 DEF Handle, Create, MapUpdate, UploadStart, UploadCopied, UploadFails,
                              AttachFile, AttachUnknown, Answer
    <3> QED BY <2>1, <3>2
  <2>4. CASE UNCHANGED <<items, pc, at, copy>>
    BY <1>3, <2>1, <2>4 DEF FreshInv, StaleCopy
  <2>5. MapGet(r) \/ (\E q \in Requests : Handle(q) /\ ~MapGet(q))
        \/ UNCHANGED <<items, pc, at, copy>>
    BY DEF Next, NextDay, handler, vars, Alone
  <2> QED BY <2>2, <2>3, <2>4, <2>5
<1> QED BY <1>1, <1>2, <1>3 DEF FreshInv

(* Where requests are served one after the other, an item always points at   *)
(* the last file attached to it, as DEPLOYMENT.md says: the loss needs two   *)
(* requests at once.                                                         *)
THEOREM AloneKeepsPath == Spec => [](Alone => PathIsLastAttached)
<1>1. Init => (Alone => FreshInv)
  BY DEF Init, FreshInv, FilesInv, PathIsLastAttached, StaleCopy
<1>2. IndInv /\ (Alone => FreshInv) /\ [Next]_vars => (Alone => FreshInv)'
  BY FreshNext DEF Alone
<1>3. (Alone => FreshInv) => (Alone => PathIsLastAttached)
  BY DEF FreshInv
<1> QED BY <1>1, <1>2, <1>3, Invariance, PTL DEF Spec

-----------------------------------------------------------------------------
(* Beside exports the service does what it does without them: Proofpack      *)
(* implements EvidenceService.                                               *)
THEOREM ExportsOnlyRead == PSpec => Spec
<1>1. PInit => Init
  BY DEF PInit
<1>2. [PNext]_<<vars, pvars>> => [Next]_vars
  BY DEF PNext, Next, ListItems, LinkFiles, Pack
<1> QED BY <1>1, <1>2, PTL DEF PSpec, Spec

\* A file that was recorded stays recorded.
LEMMA FilesGrow ==
  ASSUME IndInv, [Next]_vars, NEW i, NEW u, Attached(i, u)
  PROVE  \E k \in 1 .. Len(files') : files'[k] = [item |-> i, upload |-> u]
<1>1. PICK k \in 1 .. Len(files) : files[k] = [item |-> i, upload |-> u]
  BY DEF Attached
<1>2. CASE UNCHANGED files
  BY <1>1, <1>2
<1>3. ASSUME NEW r \in Requests, AttachFile(r)
      PROVE  k \in 1 .. Len(files') /\ files'[k] = files[k]
  <2>1. PICK f : files' = Append(files, f)
    BY <1>3 DEF AttachFile
  <2>2. files \in Seq([item : Nat, upload : Nat]) /\ Len(files) \in Nat
    BY LenProperties DEF IndInv, TypeOK
  <2> QED BY <2>1, <2>2
<1> QED
  BY <1>1, <1>2, <1>3
  DEF Next, Handle, vars, NextDay, Create, MapGet, MapUpdate, UploadStart, UploadCopied,
      UploadFails, AttachUnknown

LEMMA HoldsInit == PInit => HoldsInv
BY DEF PInit, HoldsInv, Steps, ListedInv, PackIsClosed

LEMMA HoldsNext == IndInv /\ HoldsInv /\ [PNext]_<<vars, pvars>> => HoldsInv'
<1> SUFFICES ASSUME IndInv, HoldsInv, [PNext]_<<vars, pvars>> PROVE HoldsInv'
  OBVIOUS
<1>1. [Next]_vars
  BY DEF PNext, Next, ListItems, LinkFiles, Pack
<1>2. CASE UNCHANGED pvars
  <2>1. UNCHANGED <<step, records, linked>>
    BY <1>2 DEF pvars
  <2>2. ListedInv'
    <3> SUFFICES ASSUME NEW r \in Requests, step[r] = "listed", NEW i \in 1 .. Len(records[r]),
                        records[r][i] \notin {NoFile, Claimed(i)}
                 PROVE  \E k \in 1 .. Len(files') :
                           files'[k] = [item |-> i, upload |-> records[r][i]]
      BY <2>1 DEF ListedInv, MayCarry, Attached
    <3>1. Attached(i, records[r][i])
      BY DEF HoldsInv, ListedInv, MayCarry
    <3> QED BY <1>1, <3>1, FilesGrow
  <2> QED BY <2>1, <2>2 DEF HoldsInv, PackIsClosed
<1>3. ASSUME NEW r \in Requests, ListItems(r) PROVE HoldsInv'
  <2>1. /\ step' = [step EXCEPT ![r] = "listed"] /\ records' = [records EXCEPT ![r] = Paths]
        /\ linked' = linked /\ files' = files
    BY <1>3 DEF ListItems, vars
  <2>2. Paths \in Seq(Int) /\ Len(Paths) = Len(items) /\ Len(items) \in Nat
    <3>1. \A i \in 1 .. Len(items) : items[i].path \in Int
      <4>1. \A i \in 1 .. Len(items) : items[i] \in Item
        BY ElementOfSeq DEF IndInv, TypeOK
      <4> QED BY <4>1 DEF Item
    <3>2. Len(items) \in Nat
      BY LenProperties DEF IndInv, TypeOK
    <3> QED BY <3>1, <3>2 DEF Paths
  <2>3. \A i \in 1 .. Len(Paths) : Paths[i] = items[i].path
    BY <2>2 DEF Paths
  <2>4. /\ step' \in [Requests -> Steps] /\ records' \in [Requests -> Seq(Int)]
        /\ linked' \in [Requests -> Seq(File)]
    BY <2>1, <2>2 DEF HoldsInv, Steps
  <2>5. /\ step'[r] = "listed" /\ records'[r] = Paths
        /\ \A q \in Requests : q # r => step'[q] = step[q] /\ records'[q] = records[q]
    BY <2>1 DEF HoldsInv
  <2>6. ListedInv'
    <3> SUFFICES ASSUME NEW q \in Requests, step'[q] = "listed",
                        NEW i \in 1 .. Len(records'[q]),
                        records'[q][i] \notin {NoFile, Claimed(i)}
                 PROVE  \E k \in 1 .. Len(files) :
                           files[k] = [item |-> i, upload |-> records'[q][i]]
      BY <2>1 DEF ListedInv, MayCarry, Attached
    <3>1. CASE q = r
      <4>1. i \in 1 .. Len(items) /\ records'[q][i] = items[i].path
        BY <2>2, <2>3, <2>5, <3>1
      <4> QED BY <4>1 DEF IndInv, PathWasAttached, MayCarry, Attached
    <3>2. CASE q # r
      BY <2>5, <3>2 DEF HoldsInv, ListedInv, MayCarry, Attached
    <3> QED BY <3>1, <3>2
  <2>7. PackIsClosed'
    BY <2>1, <2>5 DEF HoldsInv, PackIsClosed
  <2> QED BY <2>4, <2>6, <2>7 DEF HoldsInv
<1>4. ASSUME NEW r \in Requests, LinkFiles(r) PROVE HoldsInv'
  <2>1. /\ step' = [step EXCEPT ![r] = "payload"] /\ linked' = [linked EXCEPT ![r] = files]
        /\ records' = records /\ files' = files /\ step[r] = "listed"
    BY <1>4 DEF LinkFiles, vars
  <2>2. /\ step' \in [Requests -> Steps] /\ records' \in [Requests -> Seq(Int)]
        /\ linked' \in [Requests -> Seq(File)]
    BY <2>1 DEF HoldsInv, Steps, IndInv, TypeOK, File
  <2>3. /\ step'[r] = "payload" /\ linked'[r] = files
        /\ \A q \in Requests : q # r => step'[q] = step[q] /\ linked'[q] = linked[q]
    BY <2>1 DEF HoldsInv
  <2>4. ListedInv'
    BY <2>1, <2>3 DEF HoldsInv, ListedInv, MayCarry, Attached
  <2>5. PackIsClosed'
    <3> SUFFICES ASSUME NEW q \in Requests, step'[q] = "payload",
                        NEW i \in 1 .. Len(records[q]),
                        records[q][i] \notin {NoFile, Claimed(i)}
                 PROVE  \E k \in 1 .. Len(linked'[q]) :
                           linked'[q][k] = [item |-> i, upload |-> records[q][i]]
      BY <2>1 DEF PackIsClosed
    <3>1. CASE q = r
      <4>1. linked'[q] = files
        BY <2>3, <3>1
      <4>2. Attached(i, records[q][i])
        BY <2>1, <3>1 DEF HoldsInv, ListedInv, MayCarry
      <4> QED BY <4>1, <4>2 DEF Attached
    <3>2. CASE q # r
      <4>1. step[q] = "payload" /\ linked'[q] = linked[q]
        BY <2>3, <3>2
      <4>2. PackIsClosed
        BY DEF HoldsInv
      <4>3. \E k \in 1 .. Len(linked[q]) :
               linked[q][k] = [item |-> i, upload |-> records[q][i]]
        BY <4>1, <4>2 DEF PackIsClosed
      <4> QED BY <4>1, <4>3
    <3> QED BY <3>1, <3>2
  <2> QED BY <2>2, <2>4, <2>5 DEF HoldsInv
<1>5. ASSUME NEW r \in Requests, Pack(r) PROVE HoldsInv'
  <2>1. /\ step' = [step EXCEPT ![r] = "idle"] /\ records' = [records EXCEPT ![r] = << >>]
        /\ linked' = [linked EXCEPT ![r] = << >>] /\ files' = files
    BY <1>5 DEF Pack, vars
  <2>2. /\ step' \in [Requests -> Steps] /\ records' \in [Requests -> Seq(Int)]
        /\ linked' \in [Requests -> Seq(File)]
    BY <2>1 DEF HoldsInv, Steps
  <2>3. /\ step'[r] = "idle"
        /\ \A q \in Requests : q # r => /\ step'[q] = step[q] /\ records'[q] = records[q]
                                        /\ linked'[q] = linked[q]
    BY <2>1 DEF HoldsInv
  <2> QED BY <2>1, <2>2, <2>3 DEF HoldsInv, ListedInv, PackIsClosed, MayCarry, Attached
<1> QED BY <1>2, <1>3, <1>4, <1>5 DEF PNext

LEMMA ExportInvariance == PSpec => []PIndInv
BY ExportsOnlyRead, Invariance, HoldsInit, HoldsNext, PTL DEF PSpec, PIndInv

(* Every pack is closed, whatever the other requests do while it is put      *)
(* together (Export, AttachFile).                                            *)
THEOREM Closed == PSpec => []PackIsClosed
<1>1. PIndInv => PackIsClosed
  BY DEF PIndInv, HoldsInv
<1> QED BY <1>1, ExportInvariance, PTL

(* The variables of the service and of its exports keep their types.         *)
THEOREM TypeCorrect == PSpec => []PTypeOK
<1>1. PIndInv => PTypeOK
  BY DEF PIndInv, IndInv, HoldsInv, PTypeOK
<1> QED BY <1>1, ExportInvariance, PTL
=============================================================================
