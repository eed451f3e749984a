----------------------- MODULE OperationalReview_proofs -----------------------
(* Proofs about OperationalReview for any groups of items, owners, steps of  *)
(* time and bounds: how the maturity stage moves, what a missed cadence does *)
(* to the streak, and, from what the sums over groups compute, its types and *)
(* what time does to the score.                                              *)
EXTENDS OperationalReview, FiniteSetTheorems, SequenceTheorems, WellFoundedInduction,
        TLAPS

\* What the arguments need of the reviews and of the milestones they reach.
Entries == 1 .. Len(reviews)

ReviewsInv == /\ now \in Nat
              /\ \E S : reviews \in Seq(S)
              /\ \A i \in Entries : reviews[i].at \in 0 .. now

ReachedInv == /\ reached \subseteq Milestone
              /\ Len(reviews) >= 1 => "review" \in reached
              /\ Len(reviews) >= 2 => "second" \in reached

SignalInv == ReviewsInv /\ ReachedInv

LEMMA InitSignal == Init => SignalInv
<1> SUFFICES ASSUME Init PROVE SignalInv
  OBVIOUS
<1>1. reviews \in Seq({}) /\ Len(reviews) = 0
  BY DEF Init
<1>2. ReviewsInv
  BY <1>1 DEF Init, ReviewsInv, Entries
<1> QED BY <1>1, <1>2 DEF Init, SignalInv, ReachedInv, Milestone

\* A request other than a review, or the clock, leaves the reviews alone and
\* loses no milestone.
LEMMA OtherSteps ==
  ASSUME SignalInv, reviews' = reviews, now' \in Nat, now' >= now,
         reached \subseteq reached', reached' \subseteq Milestone
  PROVE  SignalInv'
BY DEF SignalInv, ReviewsInv, ReachedInv, Entries

\* A review is put in front; the one before moves to the second place.
LEMMA ReviewSignal ==
  ASSUME SignalInv, Review
  PROVE  /\ SignalInv'
         /\ Len(reviews') = Len(reviews) + 1
         /\ reviews'[1].at = now
         /\ \A i \in Entries : reviews'[i + 1] = reviews[i]
<1>1. PICK S : reviews \in Seq(S)
  BY DEF SignalInv, ReviewsInv
<1>2. PICK snap : reviews' = <<snap>> \o reviews /\ snap.at = now
  BY SMTT(30) DEF Review
<1>3. <<snap>> \in Seq(S \cup {snap}) /\ reviews \in Seq(S \cup {snap})
  BY <1>1
<1>4. reviews' \in Seq(S \cup {snap}) /\ Len(reviews') = Len(reviews) + 1
  BY <1>2, <1>3
<1>5. reviews'[1] = snap /\ \A i \in Entries : reviews'[i + 1] = reviews[i]
  BY <1>2, <1>3 DEF Entries
<1>6. ASSUME NEW i \in 1 .. Len(reviews') PROVE reviews'[i].at \in 0 .. now
  <2>1. CASE i = 1
    BY <1>2, <1>5, <2>1 DEF SignalInv, ReviewsInv
  <2>2. CASE i # 1
    <3>1. i - 1 \in Entries /\ reviews'[(i - 1) + 1] = reviews[i - 1]
      BY <1>1, <1>4, <1>5, <2>2 DEF Entries
    <3> QED BY <3>1 DEF SignalInv, ReviewsInv
  <2> QED BY <2>1, <2>2
<1>7. ReviewsInv'
  BY <1>4, <1>6 DEF Review, SignalInv, ReviewsInv, Entries
<1>8. Len(reviews) \in Nat
  BY <1>1
<1>9. ReachedInv'
  BY <1>4, <1>8 DEF Review, SignalInv, ReachedInv, Milestone
<1> QED BY <1>2, <1>4, <1>5, <1>7, <1>9 DEF SignalInv

LEMMA NextSignal == SignalInv /\ [Next]_vars => SignalInv'
<1> SUFFICES ASSUME SignalInv, [Next]_vars PROVE SignalInv'
  OBVIOUS
<1> USE DEF Changed, Milestone
<1>1. CASE Pass
  <2>1. now' \in Nat /\ now' >= now
    BY <1>1, OperationalReviewAssumption DEF Pass, SignalInv, ReviewsInv
  <2> QED BY <1>1, <2>1, OtherSteps DEF Pass, SignalInv, ReachedInv
<1>2. CASE Create
  BY <1>2, OtherSteps DEF Create, SignalInv, ReviewsInv, ReachedInv
<1>3. CASE Update
  BY <1>3, OtherSteps DEF Update, SignalInv, ReviewsInv, ReachedInv
<1>4. CASE Upload
  BY <1>4, OtherSteps DEF Upload, SignalInv, ReviewsInv, ReachedInv
<1>5. CASE Export
  BY <1>5, OtherSteps DEF Export, SignalInv, ReviewsInv, ReachedInv
<1>6. CASE Review
  BY <1>6, ReviewSignal
<1>7. CASE UNCHANGED vars
  BY <1>7, OtherSteps DEF vars, SignalInv, ReviewsInv, ReachedInv
<1> QED BY <1>1, <1>2, <1>3, <1>4, <1>5, <1>6, <1>7 DEF Next

(* Every review lies in the past, the first reached its milestone and the    *)
(* second the next (GenerateReviewSnapshot, RecordEvent).                    *)
THEOREM Invariance == Spec => []SignalInv
BY InitSignal, NextSignal, PTL DEF Spec

-----------------------------------------------------------------------------
(* The streak.  Max takes the greatest of a set of numbers up to the length  *)
(* of the list, which has one because the naturals are well-founded.         *)
LEMMA MaxInside ==
  ASSUME NEW n \in Nat, NEW T \in SUBSET (0 .. n), T # {}
  PROVE  Max(T) \in T /\ \A y \in T : Max(T) >= y
<1> DEFINE U == {m \in Nat : n - m \in T}
           R == OpToRel(<, Nat)
<1>1. U \subseteq Nat /\ U # {}
  <2>1. PICK x \in T : TRUE
    OBVIOUS
  <2>2. n - x \in Nat /\ n - (n - x) = x
    BY <2>1
  <2> QED BY <2>1, <2>2
<1>2. \E x \in U : \A y \in U : ~ (<<y, x>> \in R)
  <2> HIDE DEF U, R
  <2>1. IsWellFoundedOn(R, Nat)
    BY NatLessThanWellFounded DEF R
  <2> QED BY <1>1, <2>1, WFMin
<1>3. PICK x \in U : \A y \in U : ~ (y < x)
  BY <1>1, <1>2 DEF OpToRel
<1>4. n - x \in T
  OBVIOUS
<1>5. \A y \in T : n - x >= y
  <2> SUFFICES ASSUME NEW y \in T PROVE n - x >= y
    OBVIOUS
  <2>1. y \in Nat /\ n - y \in U
    <3>1. y \in 0 .. n
      OBVIOUS
    <3>2. n - y \in Nat /\ n - (n - y) = y
      BY <3>1
    <3> QED BY <3>1, <3>2
  <2> QED BY <1>1, <1>3, <2>1
<1> QED BY <1>4, <1>5 DEF Max

LEMMA StreakInside ==
  ASSUME NEW arr, Len(arr) \in Nat
  PROVE  /\ reviewStreak(arr) \in 0 .. Len(arr)
         /\ \A i \in 2 .. reviewStreak(arr) : arr[i - 1].at - arr[i].at <= 9 * Day
<1> DEFINE T == {0} \cup {n \in 1 .. Len(arr) :
                            \A i \in 2 .. n : arr[i - 1].at - arr[i].at <= 9 * Day}
<1>1. T \in SUBSET (0 .. Len(arr)) /\ T # {}
  OBVIOUS
<1>2. Max(T) \in T
  BY <1>1, MaxInside
<1>3. reviewStreak(arr) = Max(T)
  BY DEF reviewStreak
<1> HIDE DEF T
<1>4. Max(T) \in 0 .. Len(arr)
  BY <1>1, <1>2
<1>5. \A i \in 2 .. Max(T) : arr[i - 1].at - arr[i].at <= 9 * Day
  BY <1>2 DEF T
<1> QED BY <1>3, <1>4, <1>5

\* One review is a streak.
LEMMA StreakStarts ==
  ASSUME NEW arr, Len(arr) \in Nat \ {0}
  PROVE  reviewStreak(arr) >= 1
<1> DEFINE T == {0} \cup {n \in 1 .. Len(arr) :
                            \A i \in 2 .. n : arr[i - 1].at - arr[i].at <= 9 * Day}
<1>1. T \in SUBSET (0 .. Len(arr)) /\ 1 \in T
  OBVIOUS
<1>2. Max(T) >= 1
  BY <1>1, MaxInside
<1> QED BY <1>2 DEF reviewStreak

-----------------------------------------------------------------------------
(* A missed cadence breaks the streak: ten whole days are more than nine.    *)
THEOREM MissedCadence == Spec => MissedBreaksStreak
<1>1. ASSUME SignalInv, [Next]_vars, reviews' # reviews, Summary.ritual.missed
      PROVE  reviewStreak(reviews') = 1
  <2>1. Review
    BY <1>1 DEF Next, vars, Pass, Create, Update, Upload, Export
  <2>2. /\ Len(reviews') = Len(reviews) + 1 /\ reviews'[1].at = now
        /\ \A i \in Entries : reviews'[i + 1] = reviews[i]
    BY <1>1, <2>1, ReviewSignal
  <2>3. Len(reviews) \in Nat /\ now \in Nat
    BY <1>1 DEF SignalInv, ReviewsInv
  <2>4. Len(reviews) > 0 /\ WholeDays(LastReviewAge) > 9
    BY <1>1 DEF Summary, buildPilotRitual
  <2>5. reviews[1].at \in 0 .. now
    BY <1>1, <2>3, <2>4 DEF SignalInv, ReviewsInv, Entries
  <2>6. now - reviews[1].at > 9 * Day
    BY <2>3, <2>4, <2>5 DEF WholeDays, LastReviewAge, Day
  <2>7. reviews'[2] = reviews[1]
    <3>1. 1 \in Entries
      BY <2>3, <2>4 DEF Entries
    <3> QED BY <2>2, <3>1
  <2>8. ~ (reviews'[2 - 1].at - reviews'[2].at <= 9 * Day)
    BY <2>2, <2>3, <2>5, <2>6, <2>7 DEF Day
  <2> DEFINE n == reviewStreak(reviews')
  <2>9. /\ n \in 0 .. Len(reviews') /\ n >= 1
        /\ \A i \in 2 .. n : reviews'[i - 1].at - reviews'[i].at <= 9 * Day
    <3>1. Len(reviews') \in Nat \ {0}
      BY <2>2, <2>3
    <3>2. /\ n \in 0 .. Len(reviews')
          /\ \A i \in 2 .. n : reviews'[i - 1].at - reviews'[i].at <= 9 * Day
      BY <3>1, StreakInside
    <3>3. n >= 1
      BY <3>1, StreakStarts
    <3> QED BY <3>2, <3>3
  <2> HIDE DEF n
  <2>10. ~ (n >= 2)
    BY <2>8, <2>9
  <2>11. n = 1
    BY <2>9, <2>10
  <2> QED BY <2>11 DEF n
<1>2. SignalInv /\ [Next]_vars
        => (reviews' # reviews /\ Summary.ritual.missed => reviewStreak(reviews') = 1)
  BY <1>1
<1> QED BY <1>2, Invariance, PTL DEF Spec, MissedBreaksStreak

-----------------------------------------------------------------------------
\* The stages that the milestones alone decide.
Base == IF "second" \in reached THEN "recurring"
        ELSE IF {"proofpack", "review"} \subseteq reached THEN "operational"
        ELSE IF {"evidence", "upload"} \subseteq reached THEN "activated"
        ELSE "exploring"

\* Whatever the score, expansion-ready asks for three reviews in a row, and
\* the second of them has reached its milestone.
LEMMA StageIs ==
  SignalInv => \/ Stage = Base
               \/ Stage = "expansion-ready" /\ Base = "recurring"
<1> SUFFICES ASSUME SignalInv
             PROVE  \/ Stage = Base
                    \/ Stage = "expansion-ready" /\ Base = "recurring"
  OBVIOUS
<1>1. CASE Populated.streak >= 3
  <2>1. Len(reviews) \in Nat
    BY DEF SignalInv, ReviewsInv
  <2>2. Populated.streak = reviewStreak(reviews)
    BY DEF Populated
  <2>3. reviewStreak(reviews) \in 0 .. Len(reviews)
    BY <2>1, StreakInside
  <2>4. Len(reviews) >= 2
    BY <1>1, <2>1, <2>2, <2>3
  <2>5. Base = "recurring"
    BY <2>4 DEF SignalInv, ReachedInv, Base
  <2> QED BY <2>5 DEF Stage, deriveStage, Base
<1>2. CASE ~ (Populated.streak >= 3)
  BY <1>2 DEF Stage, deriveStage, Base
<1> QED BY <1>1, <1>2

LEMMA MilestonesGrow == SignalInv /\ [Next]_vars => reached \subseteq reached'
BY DEF Next, vars, Pass, Create, Update, Upload, Export, Review

LEMMA BaseGrows ==
  ASSUME reached \subseteq reached'
  PROVE  Rank[Base'] >= Rank[Base] /\ (Base = "recurring" => Base' = "recurring")
BY DEF Base, Rank

(* A tenant's maturity stage never falls, but from expansion-ready, and then *)
(* to recurring, whatever happens to its evidence and its score.             *)
THEOREM StageStays == Spec => StageNeverFalls
<1>1. ASSUME SignalInv, SignalInv', [Next]_vars
      PROVE  \/ Rank[Stage'] >= Rank[Stage]
             \/ Stage = "expansion-ready" /\ Stage' = "recurring"
  <2>1. Rank[Base'] >= Rank[Base] /\ (Base = "recurring" => Base' = "recurring")
    BY <1>1, MilestonesGrow, BaseGrows
  <2>2. \/ Stage = Base
        \/ Stage = "expansion-ready" /\ Base = "recurring"
    BY <1>1, StageIs
  <2>3. \/ Stage' = Base'
        \/ Stage' = "expansion-ready" /\ Base' = "recurring"
    <3>1. (SignalInv => \/ Stage = Base
                        \/ Stage = "expansion-ready" /\ Base = "recurring")'
      BY StageIs, PTL
    <3> QED BY <1>1, <3>1
  <2>4. Rank["expansion-ready"] = 4 /\ Rank["recurring"] = 3
    BY DEF Rank
  <2>5. Rank[Base] \in 0 .. 3
    BY DEF Base, Rank
  <2> QED BY <2>1, <2>2, <2>3, <2>4, <2>5
<1>2. SignalInv /\ SignalInv' /\ [Next]_vars
        => \/ Rank[Stage'] >= Rank[Stage]
           \/ Stage = "expansion-ready" /\ Stage' = "recurring"
  BY <1>1
<1> QED BY <1>2, Invariance, PTL DEF Spec, StageNeverFalls

-----------------------------------------------------------------------------
(* Sums over groups.  Count is a recursive function that takes the groups in *)
(* an order nobody knows; what it computes is the number of the items that   *)
(* the groups stand for, whatever the order.                                 *)

\* Induction over finite sets: among sets of groups one is the least.
LEMMA LeastSubset ==
  ASSUME NEW S, IsFiniteSet(S), NEW U \in SUBSET SUBSET S, U # {}
  PROVE  \E m \in U : \A u \in U : ~ (u \subseteq m /\ u # m)
<1>1. IsWellFoundedOn(StrictSubsetOrdering(S), FiniteSubsetsOf(S))
  BY FS_StrictSubsetOrderingWellFounded
<1>2. FiniteSubsetsOf(S) = SUBSET S
  BY FS_FiniteSubsetsOfFinite
<1>3. PICK m \in U : \A u \in U : ~ (<<u, m>> \in StrictSubsetOrdering(S))
  BY <1>1, <1>2, WFMin
<1>4. \A u \in U : u \subseteq S
  OBVIOUS
<1> QED BY <1>3, <1>4 DEF StrictSubsetOrdering

\* The items of some groups, one by one.
ItemsOf(S) == UNION {{g} \X (1 .. Size[g]) : g \in S}

\* The equation of the recursive function behind Count.
Sums(f, S) ==
    f = [s \in SUBSET S |->
            IF s = {} THEN 0
            ELSE Size[CHOOSE x \in s : TRUE] + f[s \ {CHOOSE x \in s : TRUE}]]

LEMMA CountUnfolds == ASSUME NEW S PROVE Count(S) = (CHOOSE f : Sums(f, S))[S]
BY Zenon DEF Count, MapThenSumSet, MapThenFoldSet, Sums

LEMMA SizeFacts ==
  /\ IsFiniteSet(Groups)
  /\ \A g \in Groups : Size[g] \in Nat
BY OperationalReviewAssumption

LEMMA OneGroup ==
  ASSUME NEW g \in Groups
  PROVE  /\ IsFiniteSet({g} \X (1 .. Size[g]))
         /\ Cardinality({g} \X (1 .. Size[g])) = Size[g]
<1>1. Size[g] \in Nat
  BY SizeFacts
<1>2. IsFiniteSet(1 .. Size[g]) /\ Cardinality(1 .. Size[g]) = Size[g]
  <2> DEFINE n == Size[g]
  <2>1. n \in Int /\ 1 \in Int
    BY <1>1
  <2>2. IsFiniteSet(1 .. n) /\ Cardinality(1 .. n) = IF 1 > n THEN 0 ELSE n - 1 + 1
    <3> HIDE DEF n
    <3> QED BY <2>1, FS_Interval
  <2> QED BY <1>1, <2>2
<1> DEFINE f == [k \in 1 .. Size[g] |-> <<g, k>>]
<1>3. f \in Bijection(1 .. Size[g], {g} \X (1 .. Size[g]))
  BY DEF Bijection, Injection, Surjection, IsInjective
<1>4. ExistsBijection(1 .. Size[g], {g} \X (1 .. Size[g]))
  BY <1>3 DEF ExistsBijection
<1> QED BY <1>2, <1>4, FS_Bijection

\* One group more, and its items are added to the others'.
LEMMA ItemsAdd ==
  ASSUME NEW S \in SUBSET Groups, NEW g \in S, IsFiniteSet(ItemsOf(S))
  PROVE  /\ IsFiniteSet(ItemsOf(S \ {g}))
         /\ Cardinality(ItemsOf(S)) = Size[g] + Cardinality(ItemsOf(S \ {g}))
<1> DEFINE A == {g} \X (1 .. Size[g])
           B == ItemsOf(S \ {g})
<1>1. ItemsOf(S) = A \cup B /\ A \cap B = {}
  BY DEF ItemsOf
<1>2. IsFiniteSet(B)
  BY <1>1, FS_Subset
<1>3. IsFiniteSet(A) /\ Cardinality(A) = Size[g]
  BY OneGroup
<1>4. Cardinality(A \cap B) = 0
  BY <1>1, FS_EmptySet
<1> HIDE DEF A, B
<1>5. Cardinality(A \cup B) = Cardinality(A) + Cardinality(B) - Cardinality(A \cap B)
  BY <1>2, <1>3, FS_Union
<1>6. Size[g] \in Nat /\ Cardinality(B) \in Nat
  BY <1>2, SizeFacts, FS_CardinalityType
<1>7. Cardinality(A \cup B) = Size[g] + Cardinality(B)
  BY <1>3, <1>4, <1>5, <1>6
<1> QED BY <1>1, <1>2, <1>7 DEF B

LEMMA ItemsFinite == ASSUME NEW S \in SUBSET Groups PROVE IsFiniteSet(ItemsOf(S))
<1> DEFINE Bad == {s \in SUBSET Groups : ~ IsFiniteSet(ItemsOf(s))}
<1> SUFFICES ASSUME Bad # {} PROVE FALSE
  OBVIOUS
<1>1. Bad \in SUBSET SUBSET Groups
  OBVIOUS
<1>2. PICK m \in Bad : \A u \in Bad : ~ (u \subseteq m /\ u # m)
  <2> HIDE DEF Bad
  <2> QED BY <1>1, LeastSubset, SizeFacts
<1>3. m # {}
  <2>1. ItemsOf({}) = {}
    BY DEF ItemsOf
  <2> QED BY <2>1, FS_EmptySet
<1>4. PICK g \in m : TRUE
  BY <1>3
<1>5. IsFiniteSet(ItemsOf(m \ {g}))
  BY <1>2, <1>4
<1>6. ItemsOf(m) = ({g} \X (1 .. Size[g])) \cup ItemsOf(m \ {g})
  BY <1>4 DEF ItemsOf
<1>7. IsFiniteSet({g} \X (1 .. Size[g]))
  BY <1>4, OneGroup
<1>8. \A A, B : IsFiniteSet(A) /\ IsFiniteSet(B) => IsFiniteSet(A \cup B)
  BY Zenon, FS_Union
<1>9. IsFiniteSet(ItemsOf(m))
  <2> DEFINE A == {g} \X (1 .. Size[g])
             B == ItemsOf(m \ {g})
  <2>1. IsFiniteSet(A) /\ IsFiniteSet(B) /\ ItemsOf(m) = A \cup B
    BY <1>5, <1>6, <1>7
  <2> HIDE DEF A, B
  <2>2. IsFiniteSet(A \cup B)
    BY <1>8, <2>1
  <2> QED BY <2>1, <2>2
<1>10. m \in SUBSET Groups /\ ~ IsFiniteSet(ItemsOf(m))
  BY <1>2
<1> QED BY <1>9, <1>10

\* The numbers of items satisfy the equation ...
LEMMA SumsExists ==
  ASSUME NEW S \in SUBSET Groups
  PROVE  Sums([s \in SUBSET S |-> Cardinality(ItemsOf(s))], S)
<1> DEFINE h == [s \in SUBSET S |-> Cardinality(ItemsOf(s))]
<1>1. ASSUME NEW s \in SUBSET S
      PROVE  h[s] = IF s = {} THEN 0
                    ELSE Size[CHOOSE x \in s : TRUE] + h[s \ {CHOOSE x \in s : TRUE}]
  <2>1. CASE s = {}
    <3>1. ItemsOf({}) = {}
      BY DEF ItemsOf
    <3> QED BY <2>1, <3>1, FS_EmptySet
  <2>2. CASE s # {}
    <3> DEFINE x == CHOOSE x \in s : TRUE
    <3>1. x \in s
      BY <2>2
    <3> HIDE DEF x
    <3>2. s \in SUBSET Groups /\ s \ {x} \in SUBSET S
      OBVIOUS
    <3>3. Cardinality(ItemsOf(s)) = Size[x] + Cardinality(ItemsOf(s \ {x}))
      BY <3>1, <3>2, ItemsFinite, ItemsAdd
    <3>4. h[s] = Size[x] + h[s \ {x}]
      BY <3>2, <3>3
    <3> QED BY <2>2, <3>4 DEF x
  <2> QED BY <2>1, <2>2
<1> QED BY <1>1 DEF Sums

\* ... and nothing else does: a least set on which a solution differs would
\* have to differ on a smaller one.
LEMMA SumsUnique ==
  ASSUME NEW S \in SUBSET Groups, NEW f, NEW h, Sums(f, S), Sums(h, S)
  PROVE  f[S] = h[S]
<1> DEFINE Bad == {s \in SUBSET S : f[s] # h[s]}
<1> SUFFICES ASSUME Bad # {} PROVE FALSE
  OBVIOUS
<1>1. IsFiniteSet(S) /\ Bad \in SUBSET SUBSET S
  BY SizeFacts, FS_Subset
<1>2. PICK m \in Bad : \A u \in Bad : ~ (u \subseteq m /\ u # m)
  <2> HIDE DEF Bad
  <2> QED BY <1>1, LeastSubset
<1> DEFINE x == CHOOSE x \in m : TRUE
<1>3. \A s \in SUBSET S :
        /\ f[s] = IF s = {} THEN 0
                  ELSE Size[CHOOSE y \in s : TRUE] + f[s \ {CHOOSE y \in s : TRUE}]
        /\ h[s] = IF s = {} THEN 0
                  ELSE Size[CHOOSE y \in s : TRUE] + h[s \ {CHOOSE y \in s : TRUE}]
  BY Zenon DEF Sums
<1>4. m \in SUBSET S /\ m # {}
  BY <1>2, <1>3
<1>5. x \in m
  BY <1>4
<1>6. m \ {x} \in SUBSET S /\ m \ {x} # m
  BY <1>4, <1>5
<1>7. f[m \ {x}] = h[m \ {x}]
  BY <1>2, <1>6
<1>8. f[m] = Size[x] + f[m \ {x}] /\ h[m] = Size[x] + h[m \ {x}]
  BY <1>3, <1>4
<1> QED BY <1>2, <1>7, <1>8

\* Count counts.
LEMMA CountIs == ASSUME NEW S \in SUBSET Groups PROVE Count(S) = Cardinality(ItemsOf(S))
<1> DEFINE h == [s \in SUBSET S |-> Cardinality(ItemsOf(s))]
           f == CHOOSE f : Sums(f, S)
<1>1. Sums(h, S)
  BY SumsExists
<1>2. Sums(f, S)
  BY <1>1
<1>3. f[S] = h[S]
  <2> HIDE DEF f, h
  <2> QED BY <1>1, <1>2, SumsUnique
<1>4. h[S] = Cardinality(ItemsOf(S))
  OBVIOUS
<1> QED BY <1>3, <1>4, CountUnfolds

LEMMA CountGrows ==
  ASSUME NEW T \in SUBSET Groups, NEW S \in SUBSET T
  PROVE  Count(S) \in Nat /\ Count(T) \in Nat /\ Count(S) <= Count(T)
<1>1. S \in SUBSET Groups /\ ItemsOf(S) \in SUBSET ItemsOf(T)
  BY DEF ItemsOf
<1>2. IsFiniteSet(ItemsOf(S)) /\ IsFiniteSet(ItemsOf(T))
  BY <1>1, ItemsFinite
<1>3. /\ Cardinality(ItemsOf(S)) \in Nat /\ Cardinality(ItemsOf(T)) \in Nat
      /\ Cardinality(ItemsOf(S)) <= Cardinality(ItemsOf(T))
  BY <1>1, <1>2, FS_CardinalityType, FS_Subset
<1> QED BY <1>1, <1>3, CountIs
-----------------------------------------------------------------------------
LEMMA Clamped ==
  ASSUME NEW n \in Int
  PROVE  Clamp(n) \in 0 .. 100 /\ \A m \in Int : m <= n => Clamp(m) <= Clamp(n)
BY DEF Clamp

\* The groups that exist, for whatever state.
Existing == DOMAIN items \in SUBSET Groups

LEMMA Counted ==
  ASSUME Existing
  PROVE  /\ \A s : Count(With(s)) \in Nat
         /\ Count(Ownerless) \in Nat /\ Count(Stale) \in Nat
BY CountGrows DEF Existing, With, Ownerless, Stale

LEMMA Measured == Existing => Health \in 0 .. 100 /\ Unresolved \in Nat
<1> SUFFICES ASSUME Existing PROVE Health \in 0 .. 100 /\ Unresolved \in Nat
  OBVIOUS
<1> DEFINE n == 100 - 25 * Count(With("expired")) - 10 * Count(With("expiring"))
                    - 15 * Count(Ownerless) - 8 * Count(Stale) + Count(With("active"))
<1>1. n \in Int
  BY Counted
<1>2. Health = Clamp(n)
  BY DEF Health
<1> HIDE DEF n
<1>3. Unresolved \in Nat
  BY Counted DEF Unresolved
<1> QED BY <1>1, <1>2, <1>3, Clamped

ItemsOK == \E S \in SUBSET Groups : items \in [S -> Item]

(* Every variable keeps its type; a stored score lies between 0 and 100.     *)
LEMMA ItemsNext == TypeOK /\ Next => ItemsOK'
<1> SUFFICES ASSUME TypeOK, Next PROVE ItemsOK'
  OBVIOUS
<1>1. PICK S \in SUBSET Groups : items \in [S -> Item]
  BY DEF TypeOK
<1>2. now \in Nat
  BY DEF TypeOK, Ticks
<1>3. CASE Create
  <2>1. PICK g \in Groups \ DOMAIN items, s \in Statuses, o \in Owners \cup {NoOwner} :
           items' = [h \in DOMAIN items \cup {g} |-> IF h = g THEN Stamped(s, o) ELSE items[h]]
    BY <1>3 DEF Create
  <2>2. Stamped(s, o) \in Item
    BY <1>2 DEF Stamped, Item, Ticks
  <2>3. items' \in [S \cup {g} -> Item]
    BY <1>1, <2>1, <2>2
  <2>4. S \cup {g} \in SUBSET Groups
    OBVIOUS
  <2> QED BY <2>3, <2>4 DEF ItemsOK
<1>4. CASE Update
  <2>1. PICK g \in DOMAIN items, s \in Statuses :
           items' = [items EXCEPT ![g] = Stamped(s, @.owner)]
    BY <1>4 DEF Update
  <2>2. items[g].owner \in Owners \cup {NoOwner}
    BY <1>1 DEF Item
  <2>3. Stamped(s, items[g].owner) \in Item
    BY <1>2, <2>2 DEF Stamped, Item, Ticks
  <2>4. items' \in [S -> Item]
    BY <1>1, <2>1, <2>3
  <2> QED BY <2>4 DEF ItemsOK
<1>5. CASE Upload
  <2>1. PICK g \in DOMAIN items : items' = [items EXCEPT ![g].updated = now]
    BY <1>5 DEF Upload
  <2>2. items[g] \in Item
    BY <1>1
  <2>3. [items[g] EXCEPT !.updated = now] \in Item
    BY <1>2, <2>2 DEF Item, Ticks
  <2>4. items' = [items EXCEPT ![g] = [items[g] EXCEPT !.updated = now]]
    BY <1>1, <2>1
  <2>5. items' \in [S -> Item]
    BY <1>1, <2>3, <2>4
  <2> QED BY <2>5 DEF ItemsOK
<1>6. CASE Pass \/ Export \/ Review
  BY <1>1, <1>6 DEF Pass, Export, Review, ItemsOK
<1> QED BY <1>3, <1>4, <1>5, <1>6 DEF Next

LEMMA ExistingNow == TypeOK => Existing
BY DEF TypeOK, Existing

LEMMA ReviewsNext == TypeOK /\ Next => reviews' \in Seq(Snapshot)
<1> SUFFICES ASSUME TypeOK, Next PROVE reviews' \in Seq(Snapshot)
  OBVIOUS
<1>1. CASE Review
  <2>1. Existing /\ now \in Ticks /\ changes \in Nat /\ reviews \in Seq(Snapshot)
    BY ExistingNow DEF TypeOK
  <2>2. /\ Health \in 0 .. 100 /\ Unresolved \in Nat
        /\ Count(Stale) \in Nat /\ Count(With("expired")) \in Nat
    BY <2>1, Measured, Counted
  <2> DEFINE r == [at |-> now, health |-> Health, unresolved |-> Unresolved,
                   stale |-> Count(Stale), expired |-> Count(With("expired")),
                   version |-> changes]
  <2>3. r \in Snapshot
    BY <2>1, <2>2 DEF Snapshot
  <2>4. reviews' = <<r>> \o reviews
    BY <1>1 DEF Review
  <2> HIDE DEF r
  <2>5. <<r>> \in Seq(Snapshot)
    BY <2>3
  <2> QED BY <2>1, <2>4, <2>5
<1>2. CASE ~ Review
  BY <1>2 DEF Next, Pass, Create, Update, Upload, Export, TypeOK
<1> QED BY <1>1, <1>2

LEMMA TypeNext == TypeOK /\ [Next]_vars => TypeOK'
<1> SUFFICES ASSUME TypeOK, [Next]_vars PROVE TypeOK'
  OBVIOUS
<1>1. CASE UNCHANGED vars
  BY <1>1 DEF vars, TypeOK
<1>2. CASE Next
  <2>1. now' \in Ticks
    BY <1>2, OperationalReviewAssumption
    DEF Next, Pass, Create, Update, Upload, Export, Review, TypeOK, Ticks
  <2>2. reached' \subseteq Milestone
    BY <1>2 DEF Next, Pass, Create, Update, Upload, Export, Review, TypeOK, Milestone
  <2>3. packs' \in Nat /\ changes' \in Nat /\ passes' \in Nat
    BY <1>2 DEF Next, Changed, Pass, Create, Update, Upload, Export, Review, TypeOK
  <2> QED BY <1>2, <2>1, <2>2, <2>3, ItemsNext, ReviewsNext DEF TypeOK, ItemsOK
<1> QED BY <1>1, <1>2

(* Every variable keeps its type; in a snapshot, the score lies between 0    *)
(* and 100 and the counts are numbers, for any groups and sizes.             *)
THEOREM TypeCorrect == Spec => []TypeOK
<1>1. Init => TypeOK
  <2> SUFFICES ASSUME Init PROVE TypeOK
    OBVIOUS
  <2>1. items \in [{} -> Item] /\ {} \in SUBSET Groups
    BY DEF Init
  <2> QED BY <2>1 DEF Init, TypeOK, Ticks
<1> QED BY <1>1, TypeNext, PTL DEF Spec

-----------------------------------------------------------------------------
(* Time alone never improves the score: it only makes items stale.           *)

\* A review of the present evidence saw at least the present score; reviews
\* of the same evidence never saw it rise.
HealthInv ==
    /\ \A i \in 1 .. Len(reviews) :
          /\ reviews[i].version <= changes
          /\ reviews[i].version = changes => Health <= reviews[i].health
    /\ \A i, j \in 1 .. Len(reviews) :
          i < j /\ reviews[i].version = reviews[j].version
             => reviews[i].health <= reviews[j].health

LEMMA StaleGrows ==
  ASSUME TypeOK, items' = items, now' \in Nat, now' >= now
  PROVE  Stale \subseteq Stale'
<1>1. PICK S \in SUBSET Groups : items \in [S -> Item]
  BY DEF TypeOK
<1>2. \A g \in DOMAIN items : items[g].updated \in Nat
  BY <1>1 DEF Item, Ticks
<1>3. now \in Nat
  BY DEF TypeOK, Ticks
<1> QED BY <1>2, <1>3 DEF Stale, Day

LEMMA HealthFalls ==
  ASSUME TypeOK, items' = items, now' \in Nat, now' >= now
  PROVE  Health' <= Health
<1>1. Existing
  BY ExistingNow
<1>2. /\ Count(With("expired")) \in Nat /\ Count(With("expiring")) \in Nat
      /\ Count(With("active")) \in Nat /\ Count(Ownerless) \in Nat
      /\ Count(Stale) \in Nat
  BY <1>1, Counted
<1>3. /\ Count(With("expired"))' = Count(With("expired"))
      /\ Count(With("expiring"))' = Count(With("expiring"))
      /\ Count(With("active"))' = Count(With("active"))
      /\ Count(Ownerless)' = Count(Ownerless)
  BY DEF With, Ownerless
<1>4. Count(Stale)' \in Nat /\ Count(Stale) <= Count(Stale)'
  <2>1. Stale' \in SUBSET Groups /\ Stale \in SUBSET Stale'
    BY <1>1, StaleGrows DEF Existing, Stale
  <2>2. \A T \in SUBSET Groups : \A U \in SUBSET T :
           Count(T) \in Nat /\ Count(U) <= Count(T)
    BY CountGrows
  <2>3. Count(Stale') \in Nat /\ Count(Stale) <= Count(Stale')
    BY <2>1, <2>2
  <2> QED BY <2>3
<1> DEFINE b == 100 - 25 * Count(With("expired")) - 10 * Count(With("expiring"))
                    - 15 * Count(Ownerless) + Count(With("active"))
           n == b - 8 * Count(Stale)
           m == b - 8 * Count(Stale)'
<1>5. Health = Clamp(n)
  BY <1>2 DEF Health
<1>6. Health' = Clamp(m)
  BY <1>2, <1>3, <1>4 DEF Health
<1>7. n \in Int /\ m \in Int /\ m <= n
  BY <1>2, <1>4
<1> HIDE DEF b, n, m
<1> QED BY <1>5, <1>6, <1>7, Clamped

LEMMA HealthNext == TypeOK /\ TypeOK' /\ HealthInv /\ [Next]_vars => HealthInv'
<1> SUFFICES ASSUME TypeOK, TypeOK', HealthInv, [Next]_vars PROVE HealthInv'
  OBVIOUS
<1>1. reviews \in Seq(Snapshot) /\ changes \in Nat /\ now \in Nat
  BY DEF TypeOK, Ticks
<1>2. \A i \in 1 .. Len(reviews) : reviews[i].version \in Nat /\ reviews[i].health \in 0 .. 100
  <2>1. \A i \in 1 .. Len(reviews) : reviews[i] \in Snapshot
    BY <1>1, ElementOfSeq
  <2> QED BY <2>1 DEF Snapshot
<1>3. Health \in 0 .. 100 /\ Health' \in 0 .. 100
  <2>1. (TypeOK => Health \in 0 .. 100)'
    BY ExistingNow, Measured, PTL
  <2> QED BY <2>1, ExistingNow, Measured
<1>4. CASE Pass \/ Export \/ UNCHANGED vars
  <2>1. reviews' = reviews /\ changes' = changes /\ items' = items
    BY <1>4 DEF Pass, Export, vars
  <2>2. now' \in Nat /\ now' >= now
    BY <1>1, <1>4, OperationalReviewAssumption DEF Pass, Export, vars
  <2>3. Health' <= Health
    BY <2>1, <2>2, HealthFalls
  <2>4. ASSUME NEW i \in 1 .. Len(reviews), reviews[i].version = changes
        PROVE  Health' <= reviews[i].health
    <3>1. Health <= reviews[i].health
      BY <2>4 DEF HealthInv
    <3>2. reviews[i].health \in 0 .. 100
      BY <1>2
    <3> DEFINE a == Health
               b == Health'
               c == reviews[i].health
    <3>3. a \in 0 .. 100 /\ b \in 0 .. 100 /\ c \in 0 .. 100 /\ b <= a /\ a <= c
      BY <1>3, <2>3, <3>1, <3>2
    <3> HIDE DEF a, b, c
    <3>4. b <= c
      BY <3>3
    <3> QED BY <3>4 DEF b, c
  <2> QED BY <2>1, <2>4 DEF HealthInv
<1>5. CASE Create \/ Update \/ Upload
  <2>1. reviews' = reviews /\ changes' = changes + 1
    BY <1>5 DEF Create, Update, Upload, Changed
  <2> QED BY <1>1, <1>2, <2>1 DEF HealthInv
<1>6. CASE Review
  <2>1. PICK r : /\ reviews' = <<r>> \o reviews
                 /\ r.health = Health /\ r.version = changes
    BY <1>6, SMTT(30) DEF Review
  <2>2. <<r>> \in Seq(Snapshot \cup {r}) /\ reviews \in Seq(Snapshot \cup {r})
    BY <1>1
  <2>3. /\ Len(reviews') = Len(reviews) + 1 /\ reviews'[1] = r
        /\ \A i \in 2 .. Len(reviews') : i - 1 \in 1 .. Len(reviews) /\ reviews'[i] = reviews[i - 1]
    BY <2>1, <2>2
  <2>4. Health' = Health /\ changes' = changes
    BY <1>6 DEF Review, Health, With, Ownerless, Stale
  <2> HIDE DEF Health
  <2>5. ASSUME NEW i \in 1 .. Len(reviews')
        PROVE  /\ reviews'[i].version <= changes
               /\ reviews'[i].version = changes => Health <= reviews'[i].health
    BY <1>1, <1>3, <2>1, <2>3 DEF HealthInv
  <2>6. ASSUME NEW i \in 1 .. Len(reviews'), NEW j \in 1 .. Len(reviews'),
               i < j, reviews'[i].version = reviews'[j].version
        PROVE  reviews'[i].health <= reviews'[j].health
    <3>1. CASE i = 1
      BY <2>1, <2>3, <2>5, <2>6, <3>1
    <3>2. CASE i # 1
      <4>1. i \in 2 .. Len(reviews') /\ j \in 2 .. Len(reviews')
        BY <2>6, <3>2
      <4>2. /\ i - 1 \in 1 .. Len(reviews) /\ reviews'[i] = reviews[i - 1]
            /\ j - 1 \in 1 .. Len(reviews) /\ reviews'[j] = reviews[j - 1]
        BY <2>3, <4>1
      <4>3. i - 1 < j - 1
        BY <2>6
      <4> QED BY <2>6, <4>2, <4>3 DEF HealthInv
    <3> QED BY <3>1, <3>2
  <2> QED BY <2>4, <2>5, <2>6 DEF HealthInv
<1> QED BY <1>4, <1>5, <1>6 DEF Next

(* Without a change of evidence between two reviews the later one is never   *)
(* "improving", for any number of items, whatever time passes.               *)
THEOREM TimeOnlyWorsens == Spec => []UnchangedNeverImproves
<1>1. Init => HealthInv
  <2> SUFFICES ASSUME Init PROVE HealthInv
    OBVIOUS
  <2>1. Len(reviews) = 0
    BY DEF Init
  <2> QED BY <2>1 DEF HealthInv
<1>2. Spec => [](TypeOK /\ HealthInv)
  BY <1>1, HealthNext, TypeCorrect, PTL DEF Spec
<1>3. TypeOK /\ HealthInv => UnchangedNeverImproves
  <2> SUFFICES ASSUME TypeOK, HealthInv,
                      NEW i \in 1 .. Len(reviews), NEW j \in 1 .. Len(reviews),
                      i < j, reviews[i].version = reviews[j].version
               PROVE  CompareReviews(i, j).state # "improving"
    BY DEF UnchangedNeverImproves
  <2>1. reviews \in Seq(Snapshot)
    BY DEF TypeOK
  <2>2. reviews[i].health \in 0 .. 100 /\ reviews[j].health \in 0 .. 100
    <3>1. reviews[i] \in Snapshot /\ reviews[j] \in Snapshot
      BY <2>1, ElementOfSeq
    <3> QED BY <3>1 DEF Snapshot
  <2>3. reviews[i].health <= reviews[j].health
    BY DEF HealthInv
  <2> DEFINE a == reviews[i].health
             b == reviews[j].health
             bad == a - b < -2 \/ reviews[i].unresolved - reviews[j].unresolved > 0
  <2>4. CompareReviews(i, j).state
           = IF bad THEN "degrading" ELSE IF a - b > 2 THEN "improving" ELSE "stable"
    BY DEF CompareReviews
  <2>5. a \in 0 .. 100 /\ b \in 0 .. 100 /\ a <= b
    BY <2>2, <2>3
  <2> HIDE DEF a, b, bad
  <2>6. ~ (a - b > 2)
    BY <2>5
  <2>7. CompareReviews(i, j).state \in {"degrading", "stable"}
    BY <2>4, <2>6
  <2> QED BY <2>7
<1> QED BY <1>2, <1>3, PTL

-----------------------------------------------------------------------------
(* The warning that never fires.                                             *)

(* No summary has a signal that looks at the days since the last review, in  *)
(* no state, while the ritual calls a cadence missed exactly when the very   *)
(* summary gives more than nine days; with the days assigned before the      *)
(* signals the warning would be there in exactly these cases                 *)
(* (populateDerivedSignals).                                                 *)
WarningIsLate ==
    /\ "cadence degradation" \notin Summary.founder /\ "streak break" \notin Summary.friction
    /\ Summary.ritual.missed <=> Summary.daysSinceLastReview > 9
    /\ LET sum == [Populated EXCEPT !.daysSinceLastReview = Summary.daysSinceLastReview]
       IN  Summary.ritual.missed <=> "cadence degradation" \in founderSignals(sum)

(* The order of two assignments is all that is wrong with the warning.       *)
THEOREM WarningNeverFires == Spec => []WarningIsLate
<1>1. SignalInv => WarningIsLate
  <2> SUFFICES ASSUME SignalInv PROVE WarningIsLate
    OBVIOUS
  <2> DEFINE days == IF reviews = << >> THEN 0 ELSE WholeDays(LastReviewAge)
             sum == [Populated EXCEPT !.daysSinceLastReview = days]
  <2>1. /\ Summary.daysSinceLastReview = days /\ Summary.ritual = buildPilotRitual
        /\ Summary.founder = founderSignals(Populated)
        /\ Summary.friction = frictionIndicators(Populated)
    BY DEF Summary
  <2>2. Populated.daysSinceLastReview = 0 /\ sum.daysSinceLastReview = days
    BY DEF Populated
  <2>3. "cadence degradation" \notin founderSignals(Populated)
    BY <2>2 DEF founderSignals
  <2>4. "streak break" \notin frictionIndicators(Populated)
    BY <2>2 DEF frictionIndicators
  <2>5. buildPilotRitual.missed <=> days > 9
    <3>1. PICK S : reviews \in Seq(S)
      BY DEF SignalInv, ReviewsInv
    <3>2. buildPilotRitual.missed <=> Len(reviews) > 0 /\ WholeDays(LastReviewAge) > 9
      BY Zenon DEF buildPilotRitual
    <3>3. CASE reviews = << >>
      <4>1. Len(reviews) = 0 /\ days = 0
        BY <3>3
      <4>2. ~(Len(reviews) > 0) /\ ~(days > 9)
        BY <4>1
      <4> QED BY <3>2, <4>2
    <3>4. CASE reviews # << >>
      <4>1. Len(reviews) > 0 /\ days = WholeDays(LastReviewAge)
        BY <3>1, <3>4, EmptySeq, LenProperties
      <4> HIDE DEF days
      <4> QED BY <3>2, <4>1
    <3> QED BY <3>3, <3>4
  <2>6. "cadence degradation" \in founderSignals(sum) <=> days > 9
    <3> HIDE DEF sum, days
    <3> QED BY <2>2 DEF founderSignals
  <2> HIDE DEF days
  <2> QED BY <2>1, <2>3, <2>4, <2>5, <2>6 DEF WarningIsLate
<1> QED BY <1>1, Invariance, PTL
=============================================================================
