--------------------------- MODULE Reminders_proofs ---------------------------
(* Proofs about Reminders for any runs, items, expiries and bounds: however  *)
(* Runs overlap and wherever the process ends, a reminder is attempted at    *)
(* most once per Run and life of the process, only when it is due, and the   *)
(* audit log counts what was mailed.                                         *)
EXTENDS Reminders, FiniteSetTheorems, TLAPS

\* A set of Runs has a size, at most that of all of them.
LEMMA Sizes ==
  ASSUME NEW S \in SUBSET Runs
  PROVE  /\ IsFiniteSet(S) /\ Cardinality(S) \in Nat
         /\ Cardinality(Runs) \in Nat /\ Cardinality(S) <= Cardinality(Runs)
BY RemindersAssumption, FS_Subset, FS_CardinalityType

\* Another life of the process is worth another attempt by every Run.
LEMMA Bounds ==
  ASSUME NEW n \in Nat
  PROVE  /\ Cardinality(Runs) * n \in Nat
         /\ Cardinality(Runs) * (1 + n) = Cardinality(Runs) * n + Cardinality(Runs)
         /\ Cardinality(Runs) * (1 + n) \in Nat
<1>1. Cardinality(Runs) \in Nat
  BY Sizes
<1> QED BY <1>1

LEMMA DayInDays == ASSUME NEW t \in Ticks PROVE DayOf(t) \in Days
BY RemindersAssumption DEF Ticks, DayOf, Days, TicksPerDay

LEMMA KeyInKeys ==
  ASSUME TypeOK, NEW r \in Runs
  PROVE  /\ Day(r) \in Days /\ Key(r) \in Keys
         /\ \A i \in Items : <<i, Day(r)>> \in Keys
BY DayInDays DEF TypeOK, Day, Key, Keys

\* What is due by the tick is due by the day.
LEMMA DueDay ==
  ASSUME NEW i \in Items, NEW t \in Ticks, Due(i, t)
  PROVE  /\ DayOf(Expiry[i]) >= DayOf(t)
         /\ DayOf(Expiry[i]) <= DayOf(t) + RemindBefore
<1>1. Expiry[i] \in Int /\ t \in Nat /\ RemindBefore \in Nat
  BY RemindersAssumption DEF Ticks
<1> QED BY <1>1 DEF Due, DayOf, TicksPerDay

LEMMA InitInd == Init => IndInv
<1> SUFFICES ASSUME Init PROVE IndInv
  OBVIOUS
<1>1. AnyItem \in Items
  BY RemindersAssumption DEF AnyItem
<1>2. TypeOK
  BY <1>1, RemindersAssumption DEF Init, TypeOK, Ticks, Each, Pcs, None
<1>3. \A r \in Runs, k \in Keys : ~InQueue(r, k)
  BY DEF Init, Each, InQueue
<1>4. ClaimInv
  BY <1>3, Bounds DEF Init, None, ClaimInv, Attempts
<1>5. LogInv
  <2>1. \A k \in Keys : SentUnlogged(k) = {} /\ FailedUnlogged(k) = {}
    BY DEF Init, Each, SentUnlogged, FailedUnlogged
  <2>2. \A k \in Keys : mails[k] = 0 /\ failures[k] = 0 /\ logSent[k] = 0 /\ logFailed[k] = 0
    BY DEF Init, None
  <2> QED BY <2>1, <2>2, FS_EmptySet DEF LogInv
<1> QED
  BY <1>2, <1>4, <1>5
  DEF IndInv, Init, None, Each, QueueInv, MarkIsHandled, OnlyWhenDue, Attempts

-----------------------------------------------------------------------------
\* Steps that send nothing and mark nothing, and put no marked key in hand.
LEMMA Quiet ==
  ASSUME IndInv, UNCHANGED <<mails, failures, crashes, marked>>,
         \A q \in Runs, k \in Keys : InQueue(q, k)' <=> InQueue(q, k),
         \A q \in Runs, k \in marked :
             (pc[q] = "mark" /\ Key(q) = k)' => pc[q] = "mark" /\ Key(q) = k
  PROVE  ClaimInv' /\ MarkIsHandled' /\ OnlyWhenDue'
<1>1. \A k \in Keys : Attempts(k)' = Attempts(k) /\ Attempts(k) \in Nat
  BY DEF Attempts, IndInv, TypeOK
<1>2. ClaimInv'
  <2> SUFFICES ASSUME NEW k \in Keys
               PROVE  /\ k \notin marked =>
                            /\ Attempts(k) <= Cardinality(Runs) * crashes
                            /\ \A r \in Runs : ~InQueue(r, k)'
                      /\ k \in marked =>
                            Attempts(k) + Cardinality(Hands(k)')
                               <= Cardinality(Runs) * (1 + crashes)
    BY <1>1 DEF ClaimInv
  <2>1. CASE k \notin marked
    BY <2>1 DEF IndInv, ClaimInv
  <2>2. CASE k \in marked
    <3>1. Hands(k)' \subseteq Hands(k) /\ Hands(k) \in SUBSET Runs /\ crashes \in Nat
      BY <2>2 DEF Hands, IndInv, TypeOK
    <3>2. Cardinality(Hands(k)') <= Cardinality(Hands(k))
      BY <3>1, Sizes, FS_Subset
    <3>3. /\ Cardinality(Hands(k)') \in Nat /\ Cardinality(Hands(k)) \in Nat
          /\ Cardinality(Runs) * (1 + crashes) \in Nat
      BY <3>1, Sizes, Bounds
    <3>4. Attempts(k) + Cardinality(Hands(k)) <= Cardinality(Runs) * (1 + crashes)
      BY <2>2 DEF IndInv, ClaimInv
    <3> QED BY <1>1, <2>2, <3>2, <3>3, <3>4
  <2> QED BY <2>1, <2>2
<1>3. MarkIsHandled'
  BY <1>1 DEF IndInv, MarkIsHandled, TypeOK
<1>4. OnlyWhenDue'
  BY <1>1 DEF IndInv, OnlyWhenDue
<1> QED BY <1>2, <1>3, <1>4

\* The mails that are not logged yet can be counted.
LogSizes(k) ==
  /\ IsFiniteSet(SentUnlogged(k)) /\ Cardinality(SentUnlogged(k)) \in Nat
  /\ IsFiniteSet(FailedUnlogged(k)) /\ Cardinality(FailedUnlogged(k)) \in Nat

LEMMA LogSize == \A k : LogSizes(k)
<1>1. \A k : SentUnlogged(k) \in SUBSET Runs /\ FailedUnlogged(k) \in SUBSET Runs
  BY DEF SentUnlogged, FailedUnlogged
<1> QED BY <1>1, Sizes DEF LogSizes

\* Steps that leave the audit log, and the mails still to be logged, as they are.
LEMMA SameLog ==
  ASSUME IndInv, UNCHANGED <<mails, failures, logSent, logFailed, crashes>>,
         \A q \in Runs : /\ pc'[q] = "log" <=> pc[q] = "log"
                         /\ pc[q] = "log" => ok'[q] = ok[q] /\ Key(q)' = Key(q)
  PROVE  LogInv'
<1>1. \A k : /\ SentUnlogged(k)' = SentUnlogged(k)
             /\ FailedUnlogged(k)' = FailedUnlogged(k)
  BY DEF SentUnlogged, FailedUnlogged
<1> QED BY <1>1 DEF IndInv, LogInv

LEMMA StartInd == ASSUME NEW r \in Runs, IndInv, Start(r) PROVE IndInv'
<1>1. /\ pc[r] = "idle" /\ queue[r] = {} /\ now \in Ticks /\ pc \in [Runs -> Pcs]
      /\ at \in [Runs -> Ticks] /\ todo \in [Runs -> SUBSET Items]
      /\ at' = [at EXCEPT ![r] = now] /\ pc' = [pc EXCEPT ![r] = "collect"]
      /\ UNCHANGED <<marked, queue, cur, ok, mails, failures, logSent, logFailed, crashes>>
  BY DEF Start, IndInv, TypeOK, QueueInv
<1>2. /\ pc'[r] = "collect"
      /\ \A q \in Runs : q # r => pc'[q] = pc[q] /\ Day(q)' = Day(q) /\ Key(q)' = Key(q)
                                  /\ at'[q] = at[q]
  BY <1>1 DEF Day, Key
<1>3. TypeOK'
  BY <1>1 DEF Start, IndInv, TypeOK, Pcs
<1>4. \A q \in Runs, k \in Keys : InQueue(q, k)' <=> InQueue(q, k)
  BY <1>1, <1>2 DEF InQueue
<1>5. ClaimInv' /\ MarkIsHandled' /\ OnlyWhenDue'
  BY <1>1, <1>2, <1>4, Quiet
<1>6. LogInv'
  BY <1>1, <1>2, SameLog
<1>7. QueueInv'
  BY <1>1, <1>2 DEF IndInv, QueueInv
<1> QED BY <1>3, <1>5, <1>6, <1>7 DEF IndInv

LEMMA CheckInd == ASSUME NEW r \in Runs, IndInv, Check(r) PROVE IndInv'
<1>1. PICK i \in todo[r] :
         /\ todo' = [todo EXCEPT ![r] = @ \ {i}]
         /\ cur' = [cur EXCEPT ![r] = i]
         /\ pc' = [pc EXCEPT ![r] =
                      IF Due(i, at[r]) /\ <<i, Day(r)>> \notin marked
                      THEN "mark" ELSE "collect"]
  BY DEF Check
<1>2. /\ pc[r] = "collect" /\ pc \in [Runs -> Pcs] /\ cur \in [Runs -> Items] /\ i \in Items
      /\ UNCHANGED <<now, marked, saved, at, queue, ok, mails, failures,
                     logSent, logFailed, calls, crashes>>
  BY DEF Check, IndInv, TypeOK
<1>3. /\ pc'[r] \in {"mark", "collect"} /\ cur'[r] = i
      /\ pc'[r] = "mark" => Due(i, at[r]) /\ <<i, Day(r)>> \notin marked
      /\ \A q \in Runs : q # r => pc'[q] = pc[q] /\ cur'[q] = cur[q]
      /\ \A q \in Runs : Day(q)' = Day(q)
  BY <1>1, <1>2 DEF Day
<1>4. TypeOK'
  BY <1>1, <1>2 DEF IndInv, TypeOK, Pcs
<1>5. \A q \in Runs, k \in Keys : InQueue(q, k)' <=> InQueue(q, k)
  BY <1>2, <1>3 DEF InQueue
<1>6. \A q \in Runs, k \in marked :
         (pc[q] = "mark" /\ Key(q) = k)' => pc[q] = "mark" /\ Key(q) = k
  BY <1>2, <1>3 DEF Key
<1>7. ClaimInv' /\ MarkIsHandled' /\ OnlyWhenDue'
  BY <1>2, <1>5, <1>6, Quiet
<1>8. LogInv'
  <2>1. \A q \in Runs : /\ pc'[q] = "log" <=> pc[q] = "log"
                        /\ pc[q] = "log" => ok'[q] = ok[q] /\ Key(q)' = Key(q)
    BY <1>2, <1>3 DEF Key
  <2> QED BY <1>2, <2>1, SameLog
<1>9. QueueInv'
  BY <1>2, <1>3 DEF IndInv, QueueInv
<1> QED BY <1>4, <1>7, <1>8, <1>9 DEF IndInv

\* The key was in the hands of at most all the Runs, and had cost no attempt
\* since the process started.
LEMMA MarkInd == ASSUME NEW r \in Runs, IndInv, Mark(r) PROVE IndInv'
<1>1. /\ pc[r] = "mark" /\ marked' = marked \cup {Key(r)}
      /\ queue' = [queue EXCEPT ![r] = @ \cup {cur[r]}]
      /\ pc' = [pc EXCEPT ![r] = "collect"]
      /\ UNCHANGED <<now, saved, at, todo, cur, ok, mails, failures, logSent, logFailed,
                     calls, crashes>>
  BY DEF Mark
<1>2. /\ pc \in [Runs -> Pcs] /\ queue \in [Runs -> SUBSET Items] /\ crashes \in Nat
      /\ cur[r] \in Items /\ Key(r) \in Keys
  BY KeyInKeys DEF IndInv, TypeOK
<1>3. /\ pc'[r] = "collect" /\ queue'[r] = queue[r] \cup {cur[r]}
      /\ \A q \in Runs : q # r => pc'[q] = pc[q] /\ queue'[q] = queue[q]
      /\ \A q \in Runs : Day(q)' = Day(q) /\ Key(q)' = Key(q)
  BY <1>1, <1>2 DEF Day, Key
<1>4. TypeOK'
  BY <1>1, <1>2 DEF IndInv, TypeOK, Pcs
<1>5. \A k \in Keys : Attempts(k)' = Attempts(k) /\ Attempts(k) \in Nat
  BY <1>1 DEF Attempts, IndInv, TypeOK
<1>6. \A q \in Runs, k \in Keys :
         InQueue(q, k)' <=> InQueue(q, k) \/ (q = r /\ k = Key(r))
  BY <1>2, <1>3 DEF InQueue, Key, Keys
<1>7. ClaimInv'
  <2> SUFFICES ASSUME NEW k \in Keys
               PROVE  /\ k \notin marked' =>
                            /\ Attempts(k) <= Cardinality(Runs) * crashes
                            /\ \A q \in Runs : ~InQueue(q, k)'
                      /\ k \in marked' =>
                            Attempts(k) + Cardinality(Hands(k)')
                               <= Cardinality(Runs) * (1 + crashes)
    BY <1>1, <1>5 DEF ClaimInv
  <2>1. CASE k \notin marked'
    BY <1>1, <1>6, <2>1 DEF IndInv, ClaimInv
  <2>2. CASE k \in marked
    <3>1. Hands(k)' \subseteq Hands(k) /\ Hands(k) \in SUBSET Runs
      BY <1>1, <1>3, <1>6 DEF Hands
    <3>2. Cardinality(Hands(k)') <= Cardinality(Hands(k))
      BY <3>1, Sizes, FS_Subset
    <3>3. /\ Cardinality(Hands(k)') \in Nat /\ Cardinality(Hands(k)) \in Nat
          /\ Cardinality(Runs) * (1 + crashes) \in Nat
      BY <1>2, <3>1, Sizes, Bounds
    <3>4. Attempts(k) + Cardinality(Hands(k)) <= Cardinality(Runs) * (1 + crashes)
      BY <2>2 DEF IndInv, ClaimInv
    <3> QED BY <1>1, <1>5, <2>2, <3>2, <3>3, <3>4
  <2>3. CASE k \notin marked /\ k \in marked'
    <3>1. Hands(k)' \in SUBSET Runs
      BY DEF Hands
    <3>2. /\ Cardinality(Hands(k)') \in Nat /\ Cardinality(Hands(k)') <= Cardinality(Runs)
          /\ Cardinality(Runs) \in Nat
      BY <3>1, Sizes
    <3>3. Attempts(k) <= Cardinality(Runs) * crashes
      BY <2>3 DEF IndInv, ClaimInv
    <3>4. /\ Cardinality(Runs) * crashes \in Nat
          /\ Cardinality(Runs) * (1 + crashes) = Cardinality(Runs) * crashes + Cardinality(Runs)
      BY <1>2, Bounds
    <3> QED BY <1>5, <2>3, <3>2, <3>3, <3>4
  <2> QED BY <2>1, <2>2, <2>3
<1>8. MarkIsHandled'
  BY <1>1, <1>2, <1>5, <1>6 DEF IndInv, MarkIsHandled, TypeOK
<1>9. OnlyWhenDue'
  BY <1>5 DEF IndInv, OnlyWhenDue
<1>10. LogInv'
  BY <1>1, <1>3, SameLog
<1>11. QueueInv'
  BY <1>1, <1>3 DEF IndInv, QueueInv
<1> QED BY <1>4, <1>7, <1>8, <1>9, <1>10, <1>11 DEF IndInv

\* Steps after which a Run stands elsewhere, with nothing to log.
LEMMA MovedInd ==
  ASSUME NEW r \in Runs, NEW p \in {"send", "record"}, IndInv,
         pc' = [pc EXCEPT ![r] = p], pc[r] \in {"collect", "send"},
         p = "record" => queue[r] = {},
         UNCHANGED <<now, marked, saved, local, mails, failures, logSent, logFailed,
                     calls, crashes>>
  PROVE  IndInv'
<1>1. /\ pc'[r] = p /\ \A q \in Runs : q # r => pc'[q] = pc[q]
      /\ UNCHANGED <<at, todo, queue, cur, ok>>
  BY DEF IndInv, TypeOK, local
<1>2. TypeOK'
  BY <1>1 DEF IndInv, TypeOK, Pcs
<1>3. \A q \in Runs : Key(q)' = Key(q) /\ \A k \in Keys : InQueue(q, k)' <=> InQueue(q, k)
  BY <1>1 DEF Key, InQueue, Day
<1>4. ClaimInv' /\ MarkIsHandled' /\ OnlyWhenDue'
  <2>1. \A q \in Runs, k \in marked :
           (pc[q] = "mark" /\ Key(q) = k)' => pc[q] = "mark" /\ Key(q) = k
    BY <1>1, <1>3
  <2> QED BY <1>3, <2>1, Quiet
<1>5. LogInv'
  <2>1. \A q \in Runs : /\ pc'[q] = "log" <=> pc[q] = "log"
                        /\ pc[q] = "log" => ok'[q] = ok[q] /\ Key(q)' = Key(q)
    BY <1>1, <1>3
  <2> QED BY <2>1, SameLog
<1>6. QueueInv'
  BY <1>1 DEF IndInv, QueueInv
<1> QED BY <1>2, <1>4, <1>5, <1>6 DEF IndInv

\* A mail goes out (b) or is refused: one attempt more, and one Run less that
\* has the key in hand; one mail more, and one more that is not logged yet.
LEMMA SendInd ==
  ASSUME NEW r \in Runs, NEW i \in queue[r], NEW b \in BOOLEAN, IndInv, pc[r] = "send",
         queue' = [queue EXCEPT ![r] = @ \ {i}], cur' = [cur EXCEPT ![r] = i],
         ok' = [ok EXCEPT ![r] = b], pc' = [pc EXCEPT ![r] = "log"],
         b => mails' = Bump(mails, <<i, Day(r)>>) /\ failures' = failures,
         ~b => mails' = mails /\ failures' = Bump(failures, <<i, Day(r)>>),
         UNCHANGED <<now, marked, saved, at, todo, logSent, logFailed, calls, crashes>>
  PROVE  IndInv'
<1>1. /\ i \in Items /\ crashes \in Nat /\ at[r] \in Ticks
      /\ pc \in [Runs -> Pcs] /\ cur \in [Runs -> Items] /\ ok \in [Runs -> BOOLEAN]
      /\ queue \in [Runs -> SUBSET Items]
      /\ mails \in [Keys -> Nat] /\ failures \in [Keys -> Nat]
      /\ logSent \in [Keys -> Nat] /\ logFailed \in [Keys -> Nat]
  BY DEF IndInv, TypeOK
<1>2. PICK key \in Keys : key = <<i, Day(r)>>
  BY <1>1, KeyInKeys DEF IndInv
<1>3. /\ pc'[r] = "log" /\ cur'[r] = i /\ ok'[r] = b /\ queue'[r] = queue[r] \ {i}
      /\ \A q \in Runs : q # r => /\ pc'[q] = pc[q] /\ cur'[q] = cur[q]
                                    /\ ok'[q] = ok[q] /\ queue'[q] = queue[q]
      /\ \A q \in Runs : Day(q)' = Day(q) /\ at'[q] = at[q]
  BY <1>1 DEF Day
<1>4. Key(r)' = key /\ \A q \in Runs : q # r => Key(q)' = Key(q)
  BY <1>2, <1>3 DEF Key
<1>5. /\ mails'[key] = mails[key] + (IF b THEN 1 ELSE 0)
      /\ failures'[key] = failures[key] + (IF b THEN 0 ELSE 1)
      /\ \A k \in Keys : k # key => mails'[k] = mails[k] /\ failures'[k] = failures[k]
      /\ mails' \in [Keys -> Nat] /\ failures' \in [Keys -> Nat]
  <2>1. CASE b
    BY <1>1, <1>2, <2>1 DEF Bump
  <2>2. CASE ~b
    BY <1>1, <1>2, <2>2 DEF Bump
  <2> QED BY <2>1, <2>2
<1>6. /\ Attempts(key)' = Attempts(key) + 1 /\ Attempts(key) \in Nat
      /\ \A k \in Keys : k # key => Attempts(k)' = Attempts(k) /\ Attempts(k) \in Nat
  BY <1>1, <1>5 DEF Attempts
<1>7. /\ InQueue(r, key) /\ key \in marked
      /\ \A q \in Runs, k \in Keys : InQueue(q, k)' <=> InQueue(q, k) /\ ~(q = r /\ k = key)
  <2>1. \A k \in Keys : k[1] = i /\ k[2] = Day(r) <=> k = key
    BY <1>2 DEF Keys
  <2>2. InQueue(r, key)
    BY <1>2, <2>1 DEF InQueue
  <2>3. \A q \in Runs, k \in Keys : InQueue(q, k)' <=> InQueue(q, k) /\ ~(q = r /\ k = key)
    BY <1>3, <2>1 DEF InQueue
  <2> QED BY <2>2, <2>3 DEF IndInv, ClaimInv
<1>8. TypeOK'
  BY <1>1, <1>5 DEF IndInv, TypeOK, Pcs
<1>9. ClaimInv'
  <2> SUFFICES ASSUME NEW k \in Keys
               PROVE  /\ k \notin marked =>
                            /\ Attempts(k)' <= Cardinality(Runs) * crashes
                            /\ \A q \in Runs : ~InQueue(q, k)'
                      /\ k \in marked =>
                            Attempts(k)' + Cardinality(Hands(k)')
                               <= Cardinality(Runs) * (1 + crashes)
    BY DEF ClaimInv
  <2>1. CASE k \notin marked
    BY <1>6, <1>7, <2>1 DEF IndInv, ClaimInv
  <2>2. CASE k \in marked
    <3>1. Hands(k)' \subseteq Hands(k) /\ Hands(k) \in SUBSET Runs
      BY <1>3, <1>4, <1>7 DEF Hands
    <3>2. /\ Cardinality(Hands(k)') \in Nat /\ Cardinality(Hands(k)) \in Nat
          /\ Cardinality(Runs) * (1 + crashes) \in Nat
          /\ Cardinality(Hands(k)') <= Cardinality(Hands(k))
          /\ IsFiniteSet(Hands(k))
      BY <1>1, <3>1, Sizes, Bounds, FS_Subset
    <3>3. Attempts(k) + Cardinality(Hands(k)) <= Cardinality(Runs) * (1 + crashes)
      BY <2>2 DEF IndInv, ClaimInv
    <3>4. CASE k # key
      BY <1>6, <2>2, <3>2, <3>3, <3>4
    <3>5. CASE k = key
      <4>1. Hands(k)' \subseteq Hands(k) \ {r} /\ r \in Hands(k)
        BY <1>3, <1>4, <1>7, <3>5 DEF Hands
      <4>2. /\ Cardinality(Hands(k) \ {r}) = Cardinality(Hands(k)) - 1
            /\ IsFiniteSet(Hands(k) \ {r})
        BY <3>2, <4>1, FS_RemoveElement
      <4>3. Cardinality(Hands(k)') <= Cardinality(Hands(k)) - 1
        BY <4>1, <4>2, FS_Subset
      <4> QED BY <1>6, <2>2, <3>2, <3>3, <3>5, <4>3
    <3> QED BY <3>4, <3>5
  <2> QED BY <2>1, <2>2
<1>10. MarkIsHandled'
  BY <1>6, <1>7 DEF IndInv, MarkIsHandled, TypeOK
<1>11. OnlyWhenDue'
  <2>1. Due(i, at[r])
    BY DEF IndInv, QueueInv
  <2>2. /\ DayOf(Expiry[key[1]]) >= key[2]
        /\ DayOf(Expiry[key[1]]) <= key[2] + RemindBefore
    BY <1>1, <1>2, <2>1, DueDay DEF Day
  <2> QED BY <1>6, <2>2 DEF IndInv, OnlyWhenDue
<1>12. LogInv'
  <2> SUFFICES ASSUME NEW k \in Keys
               PROVE  /\ logSent[k] + Cardinality(SentUnlogged(k)') <= mails'[k]
                      /\ logFailed[k] + Cardinality(FailedUnlogged(k)') <= failures'[k]
                      /\ crashes = 0 =>
                            /\ logSent[k] + Cardinality(SentUnlogged(k)') = mails'[k]
                            /\ logFailed[k] + Cardinality(FailedUnlogged(k)') = failures'[k]
    BY DEF LogInv
  <2>1. /\ logSent[k] + Cardinality(SentUnlogged(k)) <= mails[k]
        /\ logFailed[k] + Cardinality(FailedUnlogged(k)) <= failures[k]
        /\ crashes = 0 => /\ logSent[k] + Cardinality(SentUnlogged(k)) = mails[k]
                          /\ logFailed[k] + Cardinality(FailedUnlogged(k)) = failures[k]
    BY DEF IndInv, LogInv
  <2>2. LogSizes(k)
    BY LogSize
  <2>3. r \notin SentUnlogged(k) /\ r \notin FailedUnlogged(k)
    BY DEF SentUnlogged, FailedUnlogged
  <2>4. /\ mails[k] \in Nat /\ failures[k] \in Nat /\ logSent[k] \in Nat /\ logFailed[k] \in Nat
    BY <1>1
  <2>5. CASE k # key
    <3>1. SentUnlogged(k)' = SentUnlogged(k) /\ FailedUnlogged(k)' = FailedUnlogged(k)
      BY <1>3, <1>4, <2>3, <2>5 DEF SentUnlogged, FailedUnlogged
    <3>2. mails'[k] = mails[k] /\ failures'[k] = failures[k]
      BY <1>5, <2>5
    <3> QED BY <2>1, <3>1, <3>2
  <2>6. CASE k = key /\ b
    <3>1. /\ SentUnlogged(k)' = SentUnlogged(k) \cup {r}
          /\ FailedUnlogged(k)' = FailedUnlogged(k)
      BY <1>3, <1>4, <2>3, <2>6, ZenonT(40) DEF SentUnlogged, FailedUnlogged
    <3>2. mails'[k] = mails[k] + 1 /\ failures'[k] = failures[k]
      BY <1>1, <1>5, <2>6
    <3>3. Cardinality(SentUnlogged(k)') = Cardinality(SentUnlogged(k)) + 1
      BY <2>2, <2>3, <3>1, FS_AddElement DEF LogSizes
    <3> QED BY <2>1, <2>2, <2>4, <3>1, <3>2, <3>3 DEF LogSizes
  <2>7. CASE k = key /\ ~b
    <3>1. /\ FailedUnlogged(k)' = FailedUnlogged(k) \cup {r}
          /\ SentUnlogged(k)' = SentUnlogged(k)
      BY <1>3, <1>4, <2>3, <2>7 DEF SentUnlogged, FailedUnlogged
    <3>2. mails'[k] = mails[k] /\ failures'[k] = failures[k] + 1
      BY <1>1, <1>5, <2>7
    <3>3. Cardinality(FailedUnlogged(k)') = Cardinality(FailedUnlogged(k)) + 1
      BY <2>2, <2>3, <3>1, FS_AddElement DEF LogSizes
    <3> QED BY <2>1, <2>2, <2>4, <3>1, <3>2, <3>3 DEF LogSizes
  <2> QED BY <2>5, <2>6, <2>7
<1>13. QueueInv'
  BY <1>1, <1>3 DEF IndInv, QueueInv
<1> QED BY <1>8, <1>9, <1>10, <1>11, <1>12, <1>13 DEF IndInv

\* The audit entry of a mail: one entry more, one less to be made.
LEMMA LogInd == ASSUME NEW r \in Runs, IndInv, Log(r) PROVE IndInv'
<1>1. /\ pc[r] = "log" /\ saved' = marked
      /\ pc' = [pc EXCEPT ![r] = "send"] /\ ok' = [ok EXCEPT ![r] = FALSE]
      /\ UNCHANGED <<now, marked, at, todo, queue, cur, mails, failures, calls, crashes>>
  BY DEF Log, Persist
<1>2. /\ pc \in [Runs -> Pcs] /\ ok \in [Runs -> BOOLEAN]
      /\ mails \in [Keys -> Nat] /\ failures \in [Keys -> Nat]
      /\ logSent \in [Keys -> Nat] /\ logFailed \in [Keys -> Nat]
  BY DEF IndInv, TypeOK
<1>3. PICK key \in Keys : key = Key(r)
  BY KeyInKeys DEF IndInv
<1>4. PICK b \in BOOLEAN : b = ok[r]
  BY <1>2
<1>5. /\ logSent' = IF b THEN Bump(logSent, key) ELSE logSent
      /\ logFailed' = IF b THEN logFailed ELSE Bump(logFailed, key)
  BY <1>3, <1>4 DEF Log
<1>6. /\ logSent'[key] = logSent[key] + (IF b THEN 1 ELSE 0)
      /\ logFailed'[key] = logFailed[key] + (IF b THEN 0 ELSE 1)
      /\ \A k \in Keys : k # key => logSent'[k] = logSent[k] /\ logFailed'[k] = logFailed[k]
      /\ logSent' \in [Keys -> Nat] /\ logFailed' \in [Keys -> Nat]
  <2>1. CASE b
    BY <1>2, <1>5, <2>1 DEF Bump
  <2>2. CASE ~b
    BY <1>2, <1>5, <2>2 DEF Bump
  <2> QED BY <2>1, <2>2
<1>7. /\ pc'[r] = "send" /\ \A q \in Runs : q # r => pc'[q] = pc[q] /\ ok'[q] = ok[q]
      /\ \A q \in Runs : Key(q)' = Key(q) /\ \A k \in Keys : InQueue(q, k)' <=> InQueue(q, k)
  BY <1>1, <1>2 DEF Key, Day, InQueue
<1>8. TypeOK'
  BY <1>1, <1>6 DEF IndInv, TypeOK, Pcs
<1>9. ClaimInv' /\ MarkIsHandled' /\ OnlyWhenDue'
  <2>1. \A q \in Runs, k \in marked :
           (pc[q] = "mark" /\ Key(q) = k)' => pc[q] = "mark" /\ Key(q) = k
    BY <1>7
  <2> QED BY <1>1, <1>7, <2>1, Quiet
<1>10. LogInv'
  <2> SUFFICES ASSUME NEW k \in Keys
               PROVE  /\ logSent'[k] + Cardinality(SentUnlogged(k)') <= mails[k]
                      /\ logFailed'[k] + Cardinality(FailedUnlogged(k)') <= failures[k]
                      /\ crashes = 0 =>
                            /\ logSent'[k] + Cardinality(SentUnlogged(k)') = mails[k]
                            /\ logFailed'[k] + Cardinality(FailedUnlogged(k)') = failures[k]
    BY <1>1 DEF LogInv
  <2>1. /\ logSent[k] + Cardinality(SentUnlogged(k)) <= mails[k]
        /\ logFailed[k] + Cardinality(FailedUnlogged(k)) <= failures[k]
        /\ crashes = 0 => /\ logSent[k] + Cardinality(SentUnlogged(k)) = mails[k]
                          /\ logFailed[k] + Cardinality(FailedUnlogged(k)) = failures[k]
    BY DEF IndInv, LogInv
  <2>2. LogSizes(k)
    BY LogSize
  <2>3. /\ SentUnlogged(k)' = SentUnlogged(k) \ {r}
        /\ FailedUnlogged(k)' = FailedUnlogged(k) \ {r}
    BY <1>7 DEF SentUnlogged, FailedUnlogged
  <2>4. /\ mails[k] \in Nat /\ failures[k] \in Nat /\ logSent[k] \in Nat /\ logFailed[k] \in Nat
    BY <1>2
  <2>5. CASE k # key
    <3>1. r \notin SentUnlogged(k) /\ r \notin FailedUnlogged(k)
      BY <1>3, <2>5 DEF SentUnlogged, FailedUnlogged
    <3>2. SentUnlogged(k)' = SentUnlogged(k) /\ FailedUnlogged(k)' = FailedUnlogged(k)
      BY <2>3, <3>1
    <3>3. logSent'[k] = logSent[k] /\ logFailed'[k] = logFailed[k]
      BY <1>6, <2>5
    <3> QED BY <2>1, <3>2, <3>3
  <2>6. CASE k = key /\ b
    <3>1. r \in SentUnlogged(k) /\ r \notin FailedUnlogged(k)
      BY <1>1, <1>3, <1>4, <2>6 DEF SentUnlogged, FailedUnlogged
    <3>2. FailedUnlogged(k)' = FailedUnlogged(k)
      BY <2>3, <3>1
    <3>3. logSent'[k] = logSent[k] + 1 /\ logFailed'[k] = logFailed[k]
      BY <1>2, <1>6, <2>6
    <3>4. Cardinality(SentUnlogged(k)') = Cardinality(SentUnlogged(k)) - 1
      BY <2>2, <2>3, <3>1, FS_RemoveElement, ZenonT(40) DEF LogSizes
    <3> QED BY <2>1, <2>2, <2>4, <3>2, <3>3, <3>4 DEF LogSizes
  <2>7. CASE k = key /\ ~b
    <3>1. r \notin SentUnlogged(k) /\ r \in FailedUnlogged(k)
      BY <1>1, <1>3, <1>4, <2>7 DEF SentUnlogged, FailedUnlogged
    <3>2. SentUnlogged(k)' = SentUnlogged(k)
      BY <2>3, <3>1
    <3>3. logSent'[k] = logSent[k] /\ logFailed'[k] = logFailed[k] + 1
      BY <1>2, <1>6, <2>7
    <3>4. Cardinality(FailedUnlogged(k)') = Cardinality(FailedUnlogged(k)) - 1
      BY <2>2, <2>3, <3>1, FS_RemoveElement, ZenonT(40) DEF LogSizes
    <3> QED BY <2>1, <2>2, <2>4, <3>2, <3>3, <3>4 DEF LogSizes
  <2> QED BY <2>5, <2>6, <2>7
<1>11. QueueInv'
  BY <1>1, <1>7 DEF IndInv, QueueInv
<1> QED BY <1>8, <1>9, <1>10, <1>11 DEF IndInv

LEMMA RecordInd == ASSUME NEW r \in Runs, IndInv, Record(r) PROVE IndInv'
<1>1. /\ pc[r] = "record" /\ saved' = marked /\ queue[r] = {}
      /\ pc' = [pc EXCEPT ![r] = "idle"] /\ at' = [at EXCEPT ![r] = 0]
      /\ cur' = [cur EXCEPT ![r] = AnyItem]
      /\ UNCHANGED <<now, marked, todo, queue, ok, mails, failures, logSent, logFailed,
                     calls, crashes>>
  BY DEF Record, Persist, IndInv, QueueInv
<1>2. AnyItem \in Items /\ 0 \in Ticks
  BY RemindersAssumption DEF AnyItem, Ticks
<1>3. TypeOK'
  BY <1>1, <1>2 DEF IndInv, TypeOK, Pcs
<1>4. /\ pc'[r] = "idle"
      /\ \A q \in Runs : q # r => /\ pc'[q] = pc[q] /\ at'[q] = at[q] /\ cur'[q] = cur[q]
                                    /\ Day(q)' = Day(q) /\ Key(q)' = Key(q)
  BY <1>1 DEF IndInv, TypeOK, Day, Key
<1>5. \A q \in Runs, k \in Keys : InQueue(q, k)' <=> InQueue(q, k)
  BY <1>1, <1>4 DEF InQueue
<1>6. ClaimInv' /\ MarkIsHandled' /\ OnlyWhenDue'
  BY <1>1, <1>4, <1>5, Quiet
<1>7. LogInv'
  BY <1>1, <1>4, SameLog
<1>8. QueueInv'
  BY <1>1, <1>4 DEF IndInv, QueueInv
<1> QED BY <1>3, <1>6, <1>7, <1>8 DEF IndInv

LEMMA TickInd == ASSUME IndInv, Tick PROVE IndInv'
<1>1. /\ now' \in Ticks
      /\ UNCHANGED <<marked, saved, pc, at, todo, queue, cur, ok, mails, failures,
                     logSent, logFailed, calls, crashes>>
  BY RemindersAssumption DEF Tick, local, Ticks, IndInv, TypeOK
<1> QED
  BY <1>1, ZenonT(40)
  DEF IndInv, TypeOK, ClaimInv, Hands, InQueue, Key, Day, Attempts, QueueInv, LogInv,
      SentUnlogged, FailedUnlogged, MarkIsHandled, OnlyWhenDue

\* What the crash takes away costs at most one more attempt by every Run.
LEMMA CrashInd == ASSUME IndInv, Crash PROVE IndInv'
<1>1. /\ crashes' = crashes + 1 /\ marked' = saved
      /\ pc' = Each("idle") /\ at' = Each(0) /\ todo' = Each({}) /\ queue' = Each({})
      /\ cur' = Each(AnyItem) /\ ok' = Each(FALSE)
      /\ UNCHANGED <<now, saved, mails, failures, logSent, logFailed, calls>>
  BY DEF Crash
<1>2. AnyItem \in Items /\ 0 \in Ticks
  BY RemindersAssumption DEF AnyItem, Ticks
<1>3. crashes \in Nat
  BY DEF IndInv, TypeOK
<1>4. TypeOK'
  BY <1>1, <1>2 DEF IndInv, TypeOK, Pcs, Each
<1>5. \A k \in Keys : Attempts(k)' = Attempts(k) /\ Attempts(k) \in Nat
  BY <1>1 DEF Attempts, IndInv, TypeOK
<1>6. \A q \in Runs : pc'[q] = "idle" /\ queue'[q] = {}
  BY <1>1 DEF Each
<1>7. \A q \in Runs, k \in Keys : ~InQueue(q, k)'
  BY <1>6 DEF InQueue
<1>8. \A k \in Keys : Attempts(k) <= Cardinality(Runs) * (1 + crashes)
  <2> SUFFICES ASSUME NEW k \in Keys PROVE Attempts(k) <= Cardinality(Runs) * (1 + crashes)
    OBVIOUS
  <2>1. /\ Cardinality(Runs) * crashes \in Nat /\ Cardinality(Runs) \in Nat
        /\ Cardinality(Runs) * (1 + crashes) \in Nat
        /\ Cardinality(Runs) * (1 + crashes) = Cardinality(Runs) * crashes + Cardinality(Runs)
    BY <1>3, Bounds, Sizes
  <2>2. Hands(k) \in SUBSET Runs
    BY DEF Hands
  <2>3. Cardinality(Hands(k)) \in Nat
    BY <2>2, Sizes
  <2>4. CASE k \in marked
    <3>1. Attempts(k) + Cardinality(Hands(k)) <= Cardinality(Runs) * (1 + crashes)
      BY <2>4 DEF IndInv, ClaimInv
    <3> QED BY <1>5, <2>1, <2>3, <3>1
  <2>5. CASE k \notin marked
    <3>1. Attempts(k) <= Cardinality(Runs) * crashes
      BY <2>5 DEF IndInv, ClaimInv
    <3> QED BY <1>5, <2>1, <3>1
  <2> QED BY <2>4, <2>5
<1>9. ClaimInv'
  <2> SUFFICES ASSUME NEW k \in Keys
               PROVE  /\ Attempts(k) <= Cardinality(Runs) * (1 + crashes)
                      /\ Attempts(k) + Cardinality(Hands(k)')
                            <= Cardinality(Runs) * (1 + (1 + crashes))
    BY <1>1, <1>3, <1>5, <1>7 DEF ClaimInv
  <2>1. Hands(k)' = {}
    BY <1>6, <1>7 DEF Hands
  <2>2. Cardinality(Hands(k)') = 0
    BY <2>1, FS_EmptySet
  <2>3. /\ Cardinality(Runs) * (1 + crashes) \in Nat /\ Cardinality(Runs) \in Nat
        /\ Cardinality(Runs) * (1 + (1 + crashes)) =
              Cardinality(Runs) * (1 + crashes) + Cardinality(Runs)
    BY <1>3, Bounds, Sizes
  <2> QED BY <1>5, <1>8, <2>2, <2>3
<1>10. LogInv'
  <2> SUFFICES ASSUME NEW k \in Keys
               PROVE  /\ logSent[k] + Cardinality(SentUnlogged(k)') <= mails[k]
                      /\ logFailed[k] + Cardinality(FailedUnlogged(k)') <= failures[k]
    <3>1. crashes' # 0
      BY <1>1, <1>3
    <3> QED BY <1>1, <3>1 DEF LogInv
  <2>1. SentUnlogged(k)' = {} /\ FailedUnlogged(k)' = {}
    BY <1>6 DEF SentUnlogged, FailedUnlogged
  <2>2. Cardinality(SentUnlogged(k)') = 0 /\ Cardinality(FailedUnlogged(k)') = 0
    BY <2>1, FS_EmptySet
  <2>3. LogSizes(k)
    BY LogSize
  <2>4. /\ mails[k] \in Nat /\ failures[k] \in Nat /\ logSent[k] \in Nat /\ logFailed[k] \in Nat
    BY DEF IndInv, TypeOK
  <2>5. /\ logSent[k] + Cardinality(SentUnlogged(k)) <= mails[k]
        /\ logFailed[k] + Cardinality(FailedUnlogged(k)) <= failures[k]
    BY DEF IndInv, LogInv
  <2> QED BY <2>2, <2>3, <2>4, <2>5 DEF LogSizes
<1>11. MarkIsHandled'
  BY <1>1, <1>3 DEF MarkIsHandled
<1>12. OnlyWhenDue' /\ QueueInv'
  BY <1>5, <1>6 DEF IndInv, OnlyWhenDue, QueueInv
<1> QED BY <1>4, <1>9, <1>10, <1>11, <1>12 DEF IndInv

LEMMA StepInd == ASSUME NEW r \in Runs, IndInv, Step(r) PROVE IndInv'
<1>1. CASE Start(r)
  BY <1>1, StartInd
<1>2. CASE Check(r)
  BY <1>2, CheckInd
<1>3. CASE Mark(r)
  BY <1>3, MarkInd
<1>4. CASE Collected(r)
  BY <1>4, MovedInd DEF Collected
<1>5. CASE Send(r)
  <2>1. PICK i \in queue[r] : /\ queue' = [queue EXCEPT ![r] = @ \ {i}]
                              /\ cur' = [cur EXCEPT ![r] = i]
                              /\ mails' = Bump(mails, <<i, Day(r)>>)
    BY <1>5 DEF Send
  <2>2. /\ pc[r] = "send" /\ ok' = [ok EXCEPT ![r] = TRUE] /\ pc' = [pc EXCEPT ![r] = "log"]
        /\ UNCHANGED <<now, marked, saved, at, todo, failures, logSent, logFailed, calls, crashes>>
    BY <1>5 DEF Send
  <2> QED BY <2>1, <2>2, SendInd
<1>6. CASE SendFails(r)
  <2>1. PICK i \in queue[r] : /\ queue' = [queue EXCEPT ![r] = @ \ {i}]
                              /\ cur' = [cur EXCEPT ![r] = i]
                              /\ failures' = Bump(failures, <<i, Day(r)>>)
    BY <1>6 DEF SendFails
  <2>2. /\ pc[r] = "send" /\ ok' = [ok EXCEPT ![r] = FALSE] /\ pc' = [pc EXCEPT ![r] = "log"]
        /\ UNCHANGED <<now, marked, saved, at, todo, mails, logSent, logFailed, calls, crashes>>
    BY <1>6 DEF SendFails
  <2> QED BY <2>1, <2>2, SendInd
<1>7. CASE Log(r)
  BY <1>7, LogInd
<1>8. CASE RunReturns(r)
  BY <1>8, MovedInd DEF RunReturns
<1>9. CASE Record(r)
  BY <1>9, RecordInd
<1> QED BY <1>1, <1>2, <1>3, <1>4, <1>5, <1>6, <1>7, <1>8, <1>9 DEF Step

LEMMA NextInd == IndInv /\ [Next]_vars => IndInv'
<1> SUFFICES ASSUME IndInv, [Next]_vars PROVE IndInv'
  OBVIOUS
<1>1. CASE UNCHANGED vars
  BY <1>1, ZenonT(40)
  DEF vars, IndInv, TypeOK, ClaimInv, Hands, InQueue, Key, Day, Attempts, QueueInv, LogInv,
      SentUnlogged, FailedUnlogged, MarkIsHandled, OnlyWhenDue
<1> QED BY <1>1, StepInd, TickInd, CrashInd DEF Next

(* The inductive invariant holds in every reachable state.                   *)
THEOREM Invariance == Spec => []IndInv
BY InitInd, NextInd, PTL DEF Spec

(* Every variable keeps its type.                                            *)
THEOREM TypeCorrect == Spec => []TypeOK
<1>1. IndInv => TypeOK
  BY DEF IndInv
<1> QED BY <1>1, Invariance, PTL

(* One reminder is attempted at most once per Run and life of the process    *)
(* (Run, ReminderSent).                                                      *)
THEOREM Bounded == Spec => []AttemptsBounded
<1>1. IndInv => AttemptsBounded
  <2> SUFFICES ASSUME IndInv, NEW k \in Keys
               PROVE  Attempts(k) <= Cardinality(Runs) * (1 + crashes)
    BY DEF AttemptsBounded
  <2>1. Attempts(k) \in Nat /\ crashes \in Nat
    BY DEF IndInv, TypeOK, Attempts
  <2>2. /\ Cardinality(Runs) * crashes \in Nat /\ Cardinality(Runs) \in Nat
        /\ Cardinality(Runs) * (1 + crashes) \in Nat
        /\ Cardinality(Runs) * (1 + crashes) = Cardinality(Runs) * crashes + Cardinality(Runs)
    BY <2>1, Bounds, Sizes
  <2>3. Hands(k) \in SUBSET Runs
    BY DEF Hands
  <2>4. Cardinality(Hands(k)) \in Nat
    BY <2>3, Sizes
  <2>5. CASE k \in marked
    <3>1. Attempts(k) + Cardinality(Hands(k)) <= Cardinality(Runs) * (1 + crashes)
      BY <2>5 DEF IndInv, ClaimInv
    <3> QED BY <2>1, <2>2, <2>4, <3>1
  <2>6. CASE k \notin marked
    <3>1. Attempts(k) <= Cardinality(Runs) * crashes
      BY <2>6 DEF IndInv, ClaimInv
    <3> QED BY <2>1, <2>2, <3>1
  <2> QED BY <2>5, <2>6
<1> QED BY <1>1, Invariance, PTL

(* The audit log counts no mail that was not sent and no failure that was    *)
(* not one, and all of them when no Run is in progress and none was cut off. *)
THEOREM Logged == Spec => []LogsMatchMails
<1>1. IndInv => LogsMatchMails
  <2> SUFFICES ASSUME IndInv PROVE LogsMatchMails
    OBVIOUS
  <2>1. ASSUME NEW k \in Keys
        PROVE  /\ logSent[k] \in Nat /\ logFailed[k] \in Nat
               /\ mails[k] \in Nat /\ failures[k] \in Nat
    BY DEF IndInv, TypeOK
  <2>2. \A k \in Keys : logSent[k] <= mails[k] /\ logFailed[k] <= failures[k]
    BY <2>1, LogSize DEF IndInv, LogInv, LogSizes
  <2>3. ASSUME crashes = 0, \A r \in Runs : pc[r] = "idle"
        PROVE  logSent = mails /\ logFailed = failures
    <3>1. \A k : SentUnlogged(k) = {} /\ FailedUnlogged(k) = {}
      BY <2>3 DEF SentUnlogged, FailedUnlogged
    <3>2. \A k \in Keys : logSent[k] = mails[k] /\ logFailed[k] = failures[k]
      <4>1. \A k \in Keys : /\ logSent[k] + Cardinality(SentUnlogged(k)) = mails[k]
                            /\ logFailed[k] + Cardinality(FailedUnlogged(k)) = failures[k]
        BY <2>3 DEF IndInv, LogInv
      <4>2. \A k \in Keys : /\ Cardinality(SentUnlogged(k)) = 0
                            /\ Cardinality(FailedUnlogged(k)) = 0
        BY <3>1, FS_EmptySet
      <4> QED BY <2>1, <4>1, <4>2
    <3> QED BY <3>2 DEF IndInv, TypeOK
  <2> QED BY <2>2, <2>3 DEF LogsMatchMails
<1> QED BY <1>1, Invariance, PTL

(* Without crashes a mark stands for an attempt, or for a Run that will make *)
(* one (Run).                                                                *)
THEOREM Handled == Spec => []MarkIsHandled
<1>1. IndInv => MarkIsHandled
  BY DEF IndInv
<1> QED BY <1>1, Invariance, PTL

(* Reminders go out inside the reminder window only (Run).                   *)
THEOREM InWindow == Spec => []OnlyWhenDue
<1>1. IndInv => OnlyWhenDue
  BY DEF IndInv
<1> QED BY <1>1, Invariance, PTL

-----------------------------------------------------------------------------
(* What a single Run misses, and what it does twice: nothing.                *)

(* The half of DueIsAttempted without fairness: a Run that has collected has *)
(* seen to every item that was due when it started.  The reminder was        *)
(* attempted, or some Run has it in hand, whoever marked it first (Run).     *)
RunIsComplete ==
    crashes = 0 =>
        \A r \in Runs : pc[r] \in {"send", "log", "record"} =>
            \A i \in Items : Due(i, at[r]) =>
                \/ Attempts(<<i, Day(r)>>) > 0
                \/ \E q \in Runs : InQueue(q, <<i, Day(r)>>)

\* What a Run is past it has marked, or found marked.
LooksInv ==
    \A r \in Runs : pc[r] # "idle" =>
        \A i \in Items : Due(i, at[r]) =>
            \/ i \in todo[r] /\ pc[r] \in {"collect", "mark"}
            \/ i = cur[r] /\ pc[r] = "mark"
            \/ <<i, Day(r)>> \in marked

LEMMA LooksInit == Init => LooksInv
BY DEF Init, LooksInv, Each

\* The Run that steps, and the ones that do not: only marks are added.
LEMMA LooksStep == ASSUME NEW r \in Runs, IndInv, LooksInv, Step(r) PROVE LooksInv'
<1>0. /\ pc \in [Runs -> Pcs] /\ at \in [Runs -> Ticks] /\ todo \in [Runs -> SUBSET Items]
      /\ cur \in [Runs -> Items]
  BY DEF IndInv, TypeOK
<1>1. /\ marked \subseteq marked'
      /\ \A q \in Runs : q # r => /\ pc'[q] = pc[q] /\ at'[q] = at[q]
                                  /\ todo'[q] = todo[q] /\ cur'[q] = cur[q]
  <2>1. CASE Start(r) \/ Check(r) \/ Collected(r) \/ RunReturns(r)
    BY <1>0, <2>1 DEF Start, Check, Collected, RunReturns, local
  <2>2. CASE Mark(r) \/ Send(r) \/ SendFails(r) \/ Log(r) \/ Record(r)
    BY <1>0, <2>2 DEF Mark, Send, SendFails, Log, Record
  <2> QED BY <2>1, <2>2 DEF Step
<1> SUFFICES ASSUME NEW q \in Runs, pc'[q] # "idle", NEW i \in Items, Due(i, at'[q])
             PROVE  \/ i \in todo'[q] /\ pc'[q] \in {"collect", "mark"}
                    \/ i = cur'[q] /\ pc'[q] = "mark"
                    \/ <<i, DayOf(at'[q])>> \in marked'
  BY DEF LooksInv, Due, Day
<1>2. CASE q # r
  BY <1>1, <1>2 DEF LooksInv, Day
<1>3. CASE q = r /\ Start(r)
  BY <1>0, <1>3 DEF Start
<1>4. CASE q = r /\ Check(r)
  <2>1. PICK j \in todo[r] :
           /\ todo' = [todo EXCEPT ![r] = @ \ {j}]
           /\ cur' = [cur EXCEPT ![r] = j]
           /\ pc' = [pc EXCEPT ![r] =
                        IF Due(j, at[r]) /\ <<j, Day(r)>> \notin marked
                        THEN "mark" ELSE "collect"]
    BY <1>4 DEF Check
  <2>2. pc[r] = "collect" /\ at' = at /\ marked' = marked
    BY <1>4 DEF Check
  <2>3. CASE i = j
    BY <1>0, <1>4, <2>1, <2>2, <2>3 DEF Day
  <2>4. CASE i # j
    <3>1. i \in todo[r] \/ <<i, Day(r)>> \in marked
      BY <1>4, <2>2 DEF LooksInv
    <3> QED BY <1>0, <1>4, <2>1, <2>2, <2>4, <3>1 DEF Day
  <2> QED BY <2>3, <2>4
<1>5. CASE q = r /\ Mark(r)
  <2>1. /\ pc[r] = "mark" /\ pc'[r] = "collect" /\ marked' = marked \cup {<<cur[r], Day(r)>>}
        /\ UNCHANGED <<at, todo, cur>>
    BY <1>0, <1>5 DEF Mark, Key
  <2>2. i \in todo[r] \/ i = cur[r] \/ <<i, Day(r)>> \in marked
    BY <1>5, <2>1 DEF LooksInv
  <2> QED BY <1>5, <2>1, <2>2 DEF Day
<1>6. CASE q = r /\ Collected(r)
  <2>1. pc[r] = "collect" /\ todo[r] = {} /\ UNCHANGED <<at, marked>>
    BY <1>6 DEF Collected, local
  <2> QED BY <1>6, <2>1 DEF LooksInv, Day
<1>7. CASE q = r /\ (Send(r) \/ SendFails(r) \/ Log(r) \/ RunReturns(r))
  <2>1. pc[r] \in {"send", "log"} /\ UNCHANGED <<at, marked>>
    BY <1>7 DEF Send, SendFails, Log, RunReturns, local
  <2> QED BY <1>7, <2>1 DEF LooksInv, Day
<1>8. CASE q = r /\ Record(r)
  <2>1. pc'[r] = "idle"
    BY <1>0, <1>8 DEF Record
  <2> QED BY <1>8, <2>1
<1> QED BY <1>2, <1>3, <1>4, <1>5, <1>6, <1>7, <1>8 DEF Step

LEMMA LooksNext == IndInv /\ LooksInv /\ [Next]_vars => LooksInv'
<1> SUFFICES ASSUME IndInv, LooksInv, [Next]_vars PROVE LooksInv'
  OBVIOUS
<1>1. CASE UNCHANGED vars
  BY <1>1 DEF vars, LooksInv, Due, Day
<1>2. CASE Tick
  BY <1>2 DEF Tick, local, LooksInv, Due, Day
<1>3. CASE Crash
  BY <1>3 DEF Crash, Each, LooksInv
<1>4. ASSUME NEW r \in Runs, Step(r) PROVE LooksInv'
  BY <1>4, LooksStep
<1> QED BY <1>1, <1>2, <1>3, <1>4 DEF Next

(* A Run that comes to sending leaves no item aside that was due when it     *)
(* started, not even one that another Run marked (Run).                      *)
THEOREM Complete == Spec => []RunIsComplete
<1>1. IndInv /\ LooksInv => RunIsComplete
  <2> SUFFICES ASSUME IndInv, LooksInv, crashes = 0, NEW r \in Runs,
                      pc[r] \in {"send", "log", "record"}, NEW i \in Items, Due(i, at[r])
               PROVE  \/ Attempts(<<i, Day(r)>>) > 0
                      \/ \E q \in Runs : InQueue(q, <<i, Day(r)>>)
    BY DEF RunIsComplete
  <2>1. <<i, Day(r)>> \in marked
    BY DEF LooksInv
  <2> QED BY <2>1 DEF IndInv, MarkIsHandled
<1> QED BY LooksInit, LooksNext, <1>1, Invariance, PTL DEF Spec

-----------------------------------------------------------------------------
(* What DueIsAttempted needs beside fairness: a Run ends.                    *)

Phase(p) == [idle |-> 0, collect |-> 3, mark |-> 6, send |-> 2, log |-> 3, record |-> 1][p]

\* How many steps a Run still takes at most: two to look at an item and mark it, two
\* to mail it and log it.
StepsLeft(r) ==
    IF pc[r] = "idle" THEN 0
    ELSE 4 * Cardinality(todo[r]) + 2 * Cardinality(queue[r]) + Phase(pc[r])

(* A Run that has started only comes closer to its end, by its own steps and *)
(* by nobody else's: other Runs, whatever they mark or mail, add nothing to  *)
(* what it has to do (Run: one pass over the items, one over toSend).        *)
RunEnds ==
    [][\A r \in Runs : pc[r] # "idle" =>
          StepsLeft(r)' < StepsLeft(r) \/ UNCHANGED <<pc[r], todo[r], queue[r]>>]_vars

LEMMA Counts ==
  ASSUME TypeOK, NEW r \in Runs
  PROVE  /\ IsFiniteSet(todo[r]) /\ Cardinality(todo[r]) \in Nat
         /\ IsFiniteSet(queue[r]) /\ Cardinality(queue[r]) \in Nat
<1>1. todo[r] \subseteq Items /\ queue[r] \subseteq Items
  BY DEF TypeOK
<1>2. IsFiniteSet(todo[r]) /\ IsFiniteSet(queue[r])
  BY <1>1, FS_Subset, RemindersAssumption
<1> QED BY <1>2, FS_CardinalityType

\* A Run that ends has nothing left; it had at least its last step.
LEMMA EndShrinks ==
  ASSUME TypeOK, NEW r \in Runs, pc[r] # "idle", pc'[r] = "idle"
  PROVE  StepsLeft(r)' < StepsLeft(r)
<1> DEFINE n == Cardinality(todo[r])
           q == Cardinality(queue[r])
<1>1. n \in Nat /\ q \in Nat
  BY Counts
<1>2. Phase(pc[r]) \in 1..6
  BY DEF TypeOK, Pcs, Phase
<1>3. StepsLeft(r) = 4 * n + 2 * q + Phase(pc[r]) /\ StepsLeft(r)' = 0
  BY DEF StepsLeft
<1> HIDE DEF n, q
<1> QED BY <1>1, <1>2, <1>3

LEMMA StepShrinks ==
  ASSUME TypeOK, NEW r \in Runs, Step(r), pc[r] # "idle"
  PROVE  StepsLeft(r)' < StepsLeft(r)
<1> DEFINE n == Cardinality(todo[r])
           q == Cardinality(queue[r])
<1>0. /\ pc \in [Runs -> Pcs] /\ todo \in [Runs -> SUBSET Items]
      /\ queue \in [Runs -> SUBSET Items]
  BY DEF TypeOK
<1>1. /\ n \in Nat /\ q \in Nat /\ IsFiniteSet(todo[r]) /\ IsFiniteSet(queue[r])
  BY Counts
<1>2. ~Start(r)
  BY DEF Start
<1>3. CASE Check(r)
  <2>1. PICK i \in todo[r] : todo' = [todo EXCEPT ![r] = @ \ {i}]
    BY <1>3 DEF Check
  <2>2. /\ pc[r] = "collect" /\ pc'[r] \in {"mark", "collect"} /\ queue'[r] = queue[r]
        /\ todo'[r] = todo[r] \ {i}
    BY <1>0, <1>3, <2>1 DEF Check
  <2>3. Cardinality(todo'[r]) = n - 1
    BY <1>1, <2>2, FS_RemoveElement
  <2>4. /\ StepsLeft(r) = 4 * n + 2 * q + 3
        /\ StepsLeft(r)' \in {4 * (n - 1) + 2 * q + 6, 4 * (n - 1) + 2 * q + 3}
    BY <2>2, <2>3 DEF StepsLeft, Phase
  <2> HIDE DEF n, q
  <2> QED BY <1>1, <2>4
<1>4. CASE Mark(r)
  <2>1. /\ pc[r] = "mark" /\ pc'[r] = "collect" /\ todo'[r] = todo[r]
        /\ queue'[r] = queue[r] \cup {cur[r]}
    BY <1>0, <1>4 DEF Mark
  <2>2. Cardinality(queue'[r]) = IF cur[r] \in queue[r] THEN q ELSE q + 1
    BY <1>1, <2>1, FS_AddElement
  <2>3. /\ StepsLeft(r) = 4 * n + 2 * q + 6
        /\ StepsLeft(r)' = 4 * n + 2 * Cardinality(queue'[r]) + 3
    BY <2>1 DEF StepsLeft, Phase
  <2> HIDE DEF n, q
  <2>4. StepsLeft(r)' \in {4 * n + 2 * q + 3, 4 * n + 2 * (q + 1) + 3}
    BY <2>2, <2>3
  <2> QED BY <1>1, <2>3, <2>4
<1>5. CASE Send(r) \/ SendFails(r)
  <2>1. PICK i \in queue[r] : queue' = [queue EXCEPT ![r] = @ \ {i}]
    BY <1>5 DEF Send, SendFails
  <2>2. /\ pc[r] = "send" /\ pc'[r] = "log" /\ todo'[r] = todo[r]
        /\ queue'[r] = queue[r] \ {i}
    BY <1>0, <1>5, <2>1 DEF Send, SendFails
  <2>3. Cardinality(queue'[r]) = q - 1
    BY <1>1, <2>2, FS_RemoveElement
  <2>4. StepsLeft(r) = 4 * n + 2 * q + 2 /\ StepsLeft(r)' = 4 * n + 2 * (q - 1) + 3
    BY <2>2, <2>3 DEF StepsLeft, Phase
  <2> HIDE DEF n, q
  <2> QED BY <1>1, <2>4
<1>6. CASE Collected(r) \/ Log(r) \/ RunReturns(r)
  <2>1. /\ todo'[r] = todo[r] /\ queue'[r] = queue[r]
        /\ \/ pc[r] = "collect" /\ pc'[r] = "send"
           \/ pc[r] = "log" /\ pc'[r] = "send"
           \/ pc[r] = "send" /\ pc'[r] = "record"
    BY <1>0, <1>6 DEF Collected, Log, RunReturns, local
  <2> DEFINE m == 4 * n + 2 * q
  <2>2. \/ StepsLeft(r) = m + 3 /\ StepsLeft(r)' = m + 2
        \/ StepsLeft(r) = m + 2 /\ StepsLeft(r)' = m + 1
    BY <2>1 DEF StepsLeft, Phase
  <2> HIDE DEF n, q
  <2>3. m \in Nat
    BY <1>1
  <2> HIDE DEF m
  <2> QED BY <2>2, <2>3
<1>7. CASE Record(r)
  <2>1. pc'[r] = "idle"
    BY <1>0, <1>7 DEF Record
  <2> QED BY <2>1, EndShrinks
<1> QED BY <1>2, <1>3, <1>4, <1>5, <1>6, <1>7 DEF Step

(* A Run takes at most four steps for each item and three more, however many *)
(* other Runs it overlaps with.                                              *)
THEOREM RunIsBounded == Spec => RunEnds
<1> DEFINE Shrinks(r) == StepsLeft(r)' < StepsLeft(r) \/ UNCHANGED <<pc[r], todo[r], queue[r]>>
<1>1. ASSUME TypeOK, [Next]_vars, NEW r \in Runs, pc[r] # "idle" PROVE Shrinks(r)
  <2>0. /\ pc \in [Runs -> Pcs] /\ todo \in [Runs -> SUBSET Items]
        /\ queue \in [Runs -> SUBSET Items]
    BY <1>1 DEF TypeOK
  <2>1. CASE Step(r)
    BY <1>1, <2>1, StepShrinks
  <2>2. ASSUME NEW p \in Runs, Step(p), p # r PROVE UNCHANGED <<pc[r], todo[r], queue[r]>>
    <3>1. CASE Start(p) \/ Check(p) \/ Mark(p) \/ Collected(p)
      BY <2>0, <2>2, <3>1 DEF Start, Check, Mark, Collected, local
    <3>2. CASE Send(p) \/ SendFails(p) \/ Log(p) \/ RunReturns(p) \/ Record(p)
      BY <2>0, <2>2, <3>2 DEF Send, SendFails, Log, RunReturns, Record, local
    <3> QED BY <2>2, <3>1, <3>2 DEF Step
  <2>3. CASE Crash
    <3>1. pc'[r] = "idle"
      BY <2>3 DEF Crash, Each
    <3> QED BY <1>1, <3>1, EndShrinks
  <2>4. CASE Tick \/ UNCHANGED vars
    BY <2>4 DEF Tick, local, vars
  <2> QED BY <1>1, <2>1, <2>2, <2>3, <2>4 DEF Next
<1>2. TypeOK /\ [Next]_vars => [\A r \in Runs : pc[r] # "idle" => Shrinks(r)]_vars
  BY <1>1
<1> QED BY <1>2, TypeCorrect, PTL DEF Spec, RunEnds

(* What DEPLOYMENT.md says of the reminders is true where Runs never overlap *)
(* and the process does not end: one mail per item and day.                  *)
THEOREM OncePerDay == Spec => [](Cardinality(Runs) = 1 /\ crashes = 0 => Idempotent)
<1>1. TypeOK /\ AttemptsBounded => (Cardinality(Runs) = 1 /\ crashes = 0 => Idempotent)
  <2> SUFFICES ASSUME TypeOK, AttemptsBounded, Cardinality(Runs) = 1, crashes = 0,
                      NEW k \in Keys
               PROVE  mails[k] <= 1
    BY DEF Idempotent
  <2>1. mails[k] \in Nat /\ failures[k] \in Nat /\ mails[k] + failures[k] <= 1 * (1 + 0)
    BY DEF TypeOK, AttemptsBounded, Attempts
  <2> QED BY <2>1
<1> QED BY <1>1, TypeCorrect, Bounded, PTL
=============================================================================
