------------------------- MODULE EvidenceGraph_proofs -------------------------
(* Proofs about EvidenceGraph for any owners, statuses, mappings, cap and    *)
(* bounds: a graph that joins different states of the tenant has the ends of *)
(* its edges, its score agrees with its reasons, and a fix never costs       *)
(* points.                                                                   *)
EXTENDS EvidenceGraph, SequenceTheorems, FiniteSetTheorems, TLAPS

\* A tenant state as the operators on it take it.
Read == [items : Seq(Item), packs : Seq(SUBSET Nat), reviews : Seq(Review),
         events : [Entities -> Nat], now : Nat, narratives : Nat]

Typed == /\ now \in Nat
         /\ tenant \in Tenant
         /\ builder \in {"idle", "listed"}
         /\ listed \in [items : Seq(Item), now : Nat]
         /\ changes \in Nat /\ passes \in Nat
         /\ Len(tenant.items) <= MaxItems

LEMMA LiveIsRead == Typed => Live \in Read
BY DEF Typed, Live, Read, Tenant

LEMMA JoinedIsRead == ASSUME Typed, NEW n \in Nat PROVE Joined(n) \in Read
BY DEF Typed, Joined, Read, Tenant

\* The items with a gap are finitely many.
LEMMA FiniteGaps ==
  ASSUME NEW g \in Read, NEW S \in SUBSET Ids(g)
  PROVE  IsFiniteSet(S) /\ Cardinality(S) \in Nat
<1>1. Ids(g) = 1 .. Len(g.items) /\ Len(g.items) \in Nat
  BY DEF Ids, Read
<1>2. IsFiniteSet(1 .. Len(g.items))
  BY <1>1, FS_Interval
<1>3. IsFiniteSet(S)
  BY <1>1, <1>2, FS_Subset
<1> QED BY <1>3, FS_CardinalityType

LEMMA GapCounts ==
  ASSUME NEW g \in Read
  PROVE  /\ Cardinality(Expired(g)) \in Nat /\ Cardinality(Ownerless(g)) \in Nat
         /\ Cardinality(Stale(g)) \in Nat /\ Cardinality(Uncontrolled(g)) \in Nat
         /\ Cardinality(Vendorless(g)) \in Nat
<1>1. /\ Expired(g) \in SUBSET Ids(g) /\ Ownerless(g) \in SUBSET Ids(g)
      /\ Stale(g) \in SUBSET Ids(g) /\ Uncontrolled(g) \in SUBSET Ids(g)
      /\ Vendorless(g) \in SUBSET Ids(g)
  BY DEF Expired, Ownerless, Stale, Uncontrolled, Vendorless
<1> QED BY <1>1, FiniteGaps

\* Something that is wrong with the tenant and costs points.
Flaw(g) == \/ Cardinality(Expired(g)) # 0 \/ Cardinality(Ownerless(g)) # 0
           \/ Cardinality(Stale(g)) # 0 \/ Cardinality(Uncontrolled(g)) # 0
           \/ Cardinality(Vendorless(g)) # 0
           \/ g.items = << >> \/ g.reviews = << >> \/ g.packs = << >> \/ ~Comparable(g)

\* A sum of what ten penalties cost.
LEMMA TenCosts ==
  ASSUME NEW a \in Nat, NEW b \in Nat, NEW c \in Nat, NEW d \in Nat, NEW e \in Nat,
         NEW v \in Nat, NEW w \in Nat, NEW x \in Nat, NEW y \in Nat, NEW z \in Nat
  PROVE  LET sum == a + 14 * v + 10 * w + 8 * x + 4 * y + 2 * z + b + c + d + e
         IN  /\ sum \in Nat
             /\ \/ v # 0 \/ w # 0 \/ x # 0 \/ y # 0 \/ z # 0
                \/ a > 0 \/ b > 0 \/ d > 0 \/ e > 0
                => sum > 0
OBVIOUS

LEMMA PenaltiesType ==
  ASSUME NEW g \in Read
  PROVE  /\ Penalties(g) \in Nat
         /\ Flaw(g) => Penalties(g) > 0
<1> DEFINE a == When(g.items = << >>, 40)
           b == When(g.reviews = << >>, 12)
           c == When(Overdue(g), 10)
           d == When(g.packs = << >>, 8)
           e == When(~Comparable(g), 6)
           v == Cardinality(Expired(g))
           w == Cardinality(Ownerless(g))
           x == Cardinality(Stale(g))
           y == Cardinality(Uncontrolled(g))
           z == Cardinality(Vendorless(g))
<1>1. /\ a \in Nat /\ (g.items = << >> => a > 0)
      /\ b \in Nat /\ (g.reviews = << >> => b > 0)
      /\ c \in Nat
      /\ d \in Nat /\ (g.packs = << >> => d > 0)
      /\ e \in Nat /\ (~Comparable(g) => e > 0)
  BY DEF When
<1>2. v \in Nat /\ w \in Nat /\ x \in Nat /\ y \in Nat /\ z \in Nat
  BY GapCounts
<1>3. Penalties(g) = a + 14 * v + 10 * w + 8 * x + 4 * y + 2 * z + b + c + d + e
  BY DEF Penalties
<1>4. Flaw(g) => \/ v # 0 \/ w # 0 \/ x # 0 \/ y # 0 \/ z # 0
                 \/ a > 0 \/ b > 0 \/ d > 0 \/ e > 0
  BY <1>1 DEF Flaw
<1> HIDE DEF a, b, c, d, e, v, w, x, y, z
<1> QED BY <1>1, <1>2, <1>3, <1>4, TenCosts

LEMMA HealthRange == ASSUME NEW g \in Read PROVE graphHealth(g) \in 0 .. 100
BY PenaltiesType DEF graphHealth, Clamp

-----------------------------------------------------------------------------
LEMMA InitTyped == Init => Typed
BY EvidenceGraphAssumption
   DEF Init, Typed, Tenant, Fresh, NotListed, NoEvents, Entities

LEMMA RecordedType ==
  ASSUME Typed, NEW i \in Entities
  PROVE  Recorded(i) \in [Entities -> Nat]
BY DEF Typed, Tenant, Recorded

LEMMA NextTyped == Typed /\ [Next]_vars => Typed'
<1> SUFFICES ASSUME Typed, [Next]_vars PROVE Typed'
  OBVIOUS
<1> USE DEF Typed
<1>1. CASE List
  BY <1>1 DEF List, Tenant
<1>2. CASE Load
  BY <1>2 DEF Load, NotListed
<1>3. CASE Create
  <2>1. PICK s \in Statuses, o \in Owners \cup {NoOwner}, m \in Mappings :
          tenant' = [tenant EXCEPT
              !.items = Append(@, [status |-> s, owner |-> o, refs |-> m, updated |-> now]),
              !.events = Recorded(Len(tenant.items) + 1)]
    BY <1>3 DEF Create
  <2>2. [status |-> s, owner |-> o, refs |-> m, updated |-> now] \in Item
    BY DEF Item
  <2>3. Append(tenant.items, [status |-> s, owner |-> o, refs |-> m, updated |-> now]) \in Seq(Item)
    BY <2>2 DEF Tenant
  <2>4. Len(tenant.items) + 1 \in Entities
    <3>1. Len(tenant.items) < MaxItems
      BY <1>3 DEF Create
    <3>2. Len(tenant.items) \in Nat
      BY DEF Tenant
    <3> QED BY <3>1, <3>2, EvidenceGraphAssumption DEF Entities
  <2>5. tenant' \in Tenant
    BY <2>1, <2>3, <2>4, RecordedType DEF Tenant
  <2>6. Len(tenant'.items) = Len(tenant.items) + 1
    BY <2>1, <2>2 DEF Tenant
  <2>7. Len(tenant'.items) <= MaxItems
    <3>1. Len(tenant.items) < MaxItems
      BY <1>3 DEF Create
    <3>2. Len(tenant.items) \in Nat
      BY DEF Tenant
    <3> QED BY <2>6, <3>1, <3>2, EvidenceGraphAssumption
  <2> QED BY <1>3, <2>5, <2>7 DEF Create, Change
<1>4. CASE Update
  <2>1. PICK i \in DOMAIN tenant.items, s \in Statuses, m \in Mappings :
          \E o \in Owners \cup {tenant.items[i].owner} :
            tenant' = [tenant EXCEPT
              !.items[i] = [status |-> s, owner |-> o, refs |-> m, updated |-> now],
              !.events = Recorded(i)]
    BY <1>4 DEF Update
  <2>2. PICK o \in Owners \cup {tenant.items[i].owner} :
            tenant' = [tenant EXCEPT
              !.items[i] = [status |-> s, owner |-> o, refs |-> m, updated |-> now],
              !.events = Recorded(i)]
    BY <2>1
  <2>3. tenant.items[i] \in Item
    BY DEF Tenant
  <2>4. [status |-> s, owner |-> o, refs |-> m, updated |-> now] \in Item
    BY <2>3 DEF Item
  <2>5. [tenant.items EXCEPT ![i] =
           [status |-> s, owner |-> o, refs |-> m, updated |-> now]] \in Seq(Item)
    BY <2>4, ExceptSeq DEF Tenant
  <2>6. i \in Entities
    BY EvidenceGraphAssumption DEF Entities, Tenant
  <2>7. tenant' \in Tenant
    BY <2>2, <2>5, <2>6, RecordedType DEF Tenant
  <2>8. Len(tenant'.items) = Len(tenant.items)
    BY <2>2, <2>4, ExceptSeq DEF Tenant
  <2> QED BY <1>4, <2>7, <2>8 DEF Update, Change
<1>5. CASE Export
  <2>1. NoEntity \in Entities
    BY EvidenceGraphAssumption DEF Entities, NoEntity
  <2>2. <<DOMAIN tenant.items>> \o tenant.packs \in Seq(SUBSET Nat)
    BY DEF Tenant
  <2>3. tenant' \in Tenant /\ Len(tenant'.items) <= MaxItems
    BY <1>5, <2>1, <2>2, RecordedType DEF Export, Tenant
  <2> QED BY <1>5, <2>3 DEF Export, Change
<1>6. CASE TakeReview
  <2>1. NoEntity \in Entities
    BY EvidenceGraphAssumption DEF Entities, NoEntity
  <2> DEFINE expiring == {i \in Ids(Live) : tenant.items[i].status = "expiring"}
             unresolved == Cardinality(Expired(Live)) + Cardinality(expiring)
                             + Cardinality(Ownerless(Live)) + Cardinality(Stale(Live))
  <2>2. unresolved \in Nat
    <3>1. Live \in Read
      BY LiveIsRead
    <3>2. Cardinality(expiring) \in Nat
      <4>1. expiring \in SUBSET Ids(Live)
        OBVIOUS
      <4> QED BY <3>1, <4>1, FiniteGaps
    <3> HIDE DEF expiring
    <3> QED BY <3>1, <3>2, GapCounts
  <2>3. tenant' = [tenant EXCEPT !.reviews = <<[at |-> now, unresolved |-> unresolved]>> \o @,
                                 !.events = Recorded(NoEntity)]
    BY <1>6 DEF TakeReview
  <2> HIDE DEF unresolved
  <2>4. [at |-> now, unresolved |-> unresolved] \in Review
    BY <2>2 DEF Review
  <2>5. <<[at |-> now, unresolved |-> unresolved]>> \o tenant.reviews \in Seq(Review)
    BY <2>4 DEF Tenant
  <2>6. tenant' \in Tenant /\ Len(tenant'.items) <= MaxItems
    BY <2>1, <2>3, <2>5, RecordedType DEF Tenant
  <2> QED BY <1>6, <2>6 DEF TakeReview, Change
<1>7. CASE Pass
  <2>1. now' \in Nat
    BY <1>7, EvidenceGraphAssumption DEF Pass
  <2> QED BY <1>7, <2>1 DEF Pass
<1>8. CASE UNCHANGED vars
  BY <1>8 DEF vars
<1> QED BY <1>1, <1>2, <1>3, <1>4, <1>5, <1>6, <1>7, <1>8 DEF Next

LEMMA AlwaysTyped == Spec => []Typed
BY InitTyped, NextTyped, PTL DEF Spec

(* Every variable keeps its type, and the score lies between 0 and 100, for  *)
(* any number of items (graphHealth).                                        *)
THEOREM TypeCorrect == Spec => []TypeOK
<1>1. Typed => TypeOK
  BY LiveIsRead, HealthRange DEF Typed, TypeOK
<1> QED BY <1>1, AlwaysTyped, PTL

-----------------------------------------------------------------------------
(* The score and the reasons.                                                *)
LEMMA NoReasons ==
  ASSUME NEW g \in Read
  PROVE  degradedReasons(g) = {} <=>
            /\ g.items # << >> /\ g.reviews # << >> /\ g.packs # << >> /\ Comparable(g)
            /\ Ownerless(g) = {} /\ Expired(g) = {} /\ Stale(g) = {}
            /\ Uncontrolled(g) = {} /\ Vendorless(g) = {}
<1>1. "no evidence" \in degradedReasons(g) <=> g.items = << >>
  BY DEF degradedReasons
<1>2. "ownerless" \in degradedReasons(g) <=> Ownerless(g) # {}
  BY DEF degradedReasons
<1>3. "expired" \in degradedReasons(g) <=> Expired(g) # {}
  BY DEF degradedReasons
<1>4. "stale" \in degradedReasons(g) <=> Stale(g) # {}
  BY DEF degradedReasons
<1>5. "no reviews" \in degradedReasons(g) <=> g.reviews = << >>
  BY DEF degradedReasons
<1>6. "not comparable" \in degradedReasons(g) <=> ~Comparable(g)
  BY DEF degradedReasons
<1>7. "no proofpack" \in degradedReasons(g) <=> g.packs = << >>
  BY DEF degradedReasons
<1>8. "no control" \in degradedReasons(g) <=> Uncontrolled(g) # {}
  BY DEF degradedReasons
<1>9. "no vendor" \in degradedReasons(g) <=> Vendorless(g) # {}
  BY DEF degradedReasons
<1>10. degradedReasons(g) \subseteq
         {"no evidence", "ownerless", "expired", "stale", "no reviews", "not comparable",
          "no proofpack", "no control", "no vendor"}
  BY DEF degradedReasons
<1> QED BY <1>1, <1>2, <1>3, <1>4, <1>5, <1>6, <1>7, <1>8, <1>9, <1>10

\* A gap costs points exactly when some item has it.
LEMMA GapCosts ==
  ASSUME NEW g \in Read, NEW S \in SUBSET Ids(g)
  PROVE  Cardinality(S) = 0 <=> S = {}
BY FiniteGaps, FS_EmptySet

\* What the document takes off for unresolved issues.
LEMMA UnresolvedCostType == ASSUME NEW g \in Read PROVE UnresolvedCost(g) \in 0 .. 18
<1>1. CASE g.reviews = << >>
  BY <1>1 DEF UnresolvedCost
<1>2. CASE g.reviews # << >>
  <2>1. g.reviews[1] \in Review
    BY <1>2, EmptySeq, LenProperties, ElementOfSeq DEF Read
  <2> DEFINE n == g.reviews[1].unresolved
  <2>2. n \in Nat
    BY <2>1 DEF Review
  <2>3. UnresolvedCost(g) = IF 3 * n > 18 THEN 18 ELSE 3 * n
    BY <1>2 DEF UnresolvedCost
  <2> HIDE DEF n
  <2> QED BY <2>2, <2>3
<1> QED BY <1>1, <1>2

LEMMA ExplainedAlways == ASSUME NEW g \in Read PROVE Explained(g)
<1>1. /\ Expired(g) \in SUBSET Ids(g) /\ Ownerless(g) \in SUBSET Ids(g)
      /\ Stale(g) \in SUBSET Ids(g) /\ Uncontrolled(g) \in SUBSET Ids(g)
      /\ Vendorless(g) \in SUBSET Ids(g)
  BY DEF Expired, Ownerless, Stale, Uncontrolled, Vendorless
<1>2. /\ Cardinality(Expired(g)) = 0 <=> Expired(g) = {}
      /\ Cardinality(Ownerless(g)) = 0 <=> Ownerless(g) = {}
      /\ Cardinality(Stale(g)) = 0 <=> Stale(g) = {}
      /\ Cardinality(Uncontrolled(g)) = 0 <=> Uncontrolled(g) = {}
      /\ Cardinality(Vendorless(g)) = 0 <=> Vendorless(g) = {}
  BY <1>1, GapCosts
<1>3. CASE degradedReasons(g) = {}
  <2>1. Penalties(g) = When(Overdue(g), 10)
    BY <1>2, <1>3, NoReasons DEF Penalties, When
  <2>2. graphHealth(g) = 100 - When(Overdue(g), 10)
    BY <2>1 DEF graphHealth, Clamp, When
  <2>3. UnresolvedCost(g) \in Nat /\ When(Overdue(g), 10) \in Nat
    BY UnresolvedCostType DEF When
  <2>4. graphHealth(g) \in 100 - When(Overdue(g), 10) - UnresolvedCost(g) .. 100 - When(Overdue(g), 10)
    BY <2>2, <2>3
  <2> QED BY <1>3, <2>4 DEF Explained
<1>4. CASE degradedReasons(g) # {}
  <2>1. Penalties(g) >= 1
    <3>1. Flaw(g)
      BY <1>2, <1>4, NoReasons DEF Flaw
    <3> QED BY <3>1, PenaltiesType
  <2>2. graphHealth(g) < 100
    BY <2>1, PenaltiesType DEF graphHealth, Clamp
  <2> QED BY <1>4, <2>2 DEF Explained
<1> QED BY <1>3, <1>4

(* The score and the reasons of a graph tell the same story, whatever states *)
(* of the tenant the graph joins (graphHealth, degradedReasons).             *)
THEOREM Explains == Spec => HealthIsExplained
<1>1. Typed => \A n \in Narratives : Explained(Joined(n))
  BY JoinedIsRead, ExplainedAlways, EvidenceGraphAssumption
<1>2. Typed /\ [Next]_vars => (Answers => \A n \in Narratives : Explained(Joined(n)))
  BY <1>1
<1> QED BY <1>2, AlwaysTyped, PTL DEF Spec, HealthIsExplained

-----------------------------------------------------------------------------
(* The score of docs/evidence-graph.md.                                      *)
documentedHealth(g) == Clamp(100 - Penalties(g) - UnresolvedCost(g))

\* The penalty the code leaves out is seen unless there is nothing left to take off.
PenaltyMissing(read) ==
    /\ graphHealth(read) >= documentedHealth(read)
    /\ graphHealth(read) = documentedHealth(read)
          <=> UnresolvedCost(read) = 0 \/ graphHealth(read) = 0

LEMMA MissingAlways == ASSUME NEW g \in Read PROVE PenaltyMissing(g)
<1>1. Penalties(g) \in Nat /\ UnresolvedCost(g) \in 0 .. 18
  BY PenaltiesType, UnresolvedCostType
<1> QED BY <1>1 DEF PenaltyMissing, graphHealth, documentedHealth, Clamp

(* A graph is never scored below what docs/evidence-graph.md says, and above *)
(* it whenever the latest review left an issue unresolved and there are      *)
(* points to take off: graphHealth has every penalty of the document but     *)
(* that one.                                                                 *)
THEOREM ScoreOmitsIssues ==
  Spec => [][Answers => \A n \in Narratives : PenaltyMissing(Joined(n))]_vars
<1>1. Typed => \A n \in Narratives : PenaltyMissing(Joined(n))
  BY JoinedIsRead, MissingAlways, EvidenceGraphAssumption
<1>2. Typed /\ [Next]_vars => (Answers => \A n \in Narratives : PenaltyMissing(Joined(n)))
  BY <1>1
<1> QED BY <1>2, AlwaysTyped, PTL DEF Spec

-----------------------------------------------------------------------------
(* Fixes.  When no gap of h is a new one, h costs no more than g.            *)
NoNewGap(g, h) ==
    /\ Expired(h) \subseteq Expired(g) /\ Ownerless(h) \subseteq Ownerless(g)
    /\ Stale(h) \subseteq Stale(g) /\ Uncontrolled(h) \subseteq Uncontrolled(g)
    /\ Vendorless(h) \subseteq Vendorless(g)
    /\ h.items = << >> => g.items = << >>
    /\ h.reviews = << >> => g.reviews = << >>
    /\ Overdue(h) => Overdue(g)
    /\ h.packs = << >> => g.packs = << >>
    /\ Comparable(g) => Comparable(h)

LEMMA FewerGaps ==
  ASSUME NEW g \in Read, NEW S \in SUBSET Ids(g), NEW T \in SUBSET S
  PROVE  Cardinality(T) <= Cardinality(S)
BY FiniteGaps, FS_Subset

LEMMA SmallerSum ==
  ASSUME NEW a \in Nat, NEW b \in Nat, NEW c \in Nat, NEW d \in Nat, NEW e \in Nat,
         NEW v \in Nat, NEW w \in Nat, NEW x \in Nat, NEW y \in Nat, NEW z \in Nat,
         NEW aa \in 0 .. a, NEW bb \in 0 .. b, NEW cc \in 0 .. c, NEW dd \in 0 .. d,
         NEW ee \in 0 .. e, NEW vv \in 0 .. v, NEW ww \in 0 .. w, NEW xx \in 0 .. x,
         NEW yy \in 0 .. y, NEW zz \in 0 .. z
  PROVE  aa + 14 * vv + 10 * ww + 8 * xx + 4 * yy + 2 * zz + bb + cc + dd + ee
           <= a + 14 * v + 10 * w + 8 * x + 4 * y + 2 * z + b + c + d + e
OBVIOUS

LEMMA FewerPenalties ==
  ASSUME NEW g \in Read, NEW h \in Read, NoNewGap(g, h)
  PROVE  Penalties(h) <= Penalties(g)
<1> DEFINE a(k) == When(k.items = << >>, 40)
           b(k) == When(k.reviews = << >>, 12)
           c(k) == When(Overdue(k), 10)
           d(k) == When(k.packs = << >>, 8)
           e(k) == When(~Comparable(k), 6)
           v(k) == Cardinality(Expired(k))
           w(k) == Cardinality(Ownerless(k))
           x(k) == Cardinality(Stale(k))
           y(k) == Cardinality(Uncontrolled(k))
           z(k) == Cardinality(Vendorless(k))
<1>1. a(g) \in Nat /\ b(g) \in Nat /\ c(g) \in Nat /\ d(g) \in Nat /\ e(g) \in Nat
  BY DEF When
<1>2. /\ a(h) \in 0 .. a(g) /\ b(h) \in 0 .. b(g) /\ c(h) \in 0 .. c(g)
      /\ d(h) \in 0 .. d(g) /\ e(h) \in 0 .. e(g)
  BY DEF When, NoNewGap
<1>3. /\ v(g) \in Nat /\ w(g) \in Nat /\ x(g) \in Nat /\ y(g) \in Nat /\ z(g) \in Nat
      /\ v(h) \in Nat /\ w(h) \in Nat /\ x(h) \in Nat /\ y(h) \in Nat /\ z(h) \in Nat
  BY GapCounts
<1>4. /\ v(h) <= v(g) /\ w(h) <= w(g) /\ x(h) <= x(g) /\ y(h) <= y(g) /\ z(h) <= z(g)
  <2>1. /\ Expired(g) \in SUBSET Ids(g) /\ Ownerless(g) \in SUBSET Ids(g)
        /\ Stale(g) \in SUBSET Ids(g) /\ Uncontrolled(g) \in SUBSET Ids(g)
        /\ Vendorless(g) \in SUBSET Ids(g)
    BY DEF Expired, Ownerless, Stale, Uncontrolled, Vendorless
  <2> QED BY <2>1, FewerGaps DEF NoNewGap
<1>5. /\ Penalties(g) = a(g) + 14 * v(g) + 10 * w(g) + 8 * x(g) + 4 * y(g) + 2 * z(g)
                          + b(g) + c(g) + d(g) + e(g)
      /\ Penalties(h) = a(h) + 14 * v(h) + 10 * w(h) + 8 * x(h) + 4 * y(h) + 2 * z(h)
                          + b(h) + c(h) + d(h) + e(h)
  BY DEF Penalties
<1> HIDE DEF a, b, c, d, e, v, w, x, y, z
<1>6. /\ v(h) \in 0 .. v(g) /\ w(h) \in 0 .. w(g) /\ x(h) \in 0 .. x(g)
      /\ y(h) \in 0 .. y(g) /\ z(h) \in 0 .. z(g)
  BY <1>3, <1>4
<1> QED BY <1>1, <1>2, <1>3, <1>5, <1>6, SmallerSum

LEMMA LessCostsMore ==
  ASSUME NEW g \in Read, NEW h \in Read, Penalties(h) <= Penalties(g)
  PROVE  graphHealth(h) >= graphHealth(g)
BY PenaltiesType DEF graphHealth, Clamp

LEMMA EmptyIsNone ==
  ASSUME NEW S, NEW s \in Seq(S)
  PROVE  Len(s) \in Nat /\ (s = << >> <=> Len(s) = 0)
BY EmptySeq, LenProperties

\* In no step does an item get older: Update stamps the item it replaces.
LEMMA FixesMakeNoGap ==
  ASSUME Typed, Typed', [Next]_vars, Fixed
  PROVE  NoNewGap(Live, Live')
<1> USE DEF Typed
<1>1. /\ Ids(Live') = Ids(Live) /\ Ids(Live) = DOMAIN tenant.items
      /\ DOMAIN tenant'.items = DOMAIN tenant.items
  BY DEF Ids, Live, Fixed, Tenant
<1>2. /\ Expired(Live') \subseteq Expired(Live)
      /\ Ownerless(Live') \subseteq Ownerless(Live)
      /\ Uncontrolled(Live') \subseteq Uncontrolled(Live)
      /\ Vendorless(Live') \subseteq Vendorless(Live)
  BY <1>1 DEF Expired, Ownerless, Uncontrolled, Vendorless, Live, Fixed, NoWorse
<1>3. /\ \A i \in DOMAIN tenant.items :
            \/ tenant'.items[i].updated = tenant.items[i].updated
            \/ tenant'.items[i].updated = now
      /\ \/ tenant'.packs = tenant.packs
         \/ Len(tenant'.packs) = Len(tenant.packs) + 1
      /\ \/ tenant'.reviews = tenant.reviews
         \/ Len(tenant'.reviews) = Len(tenant.reviews) + 1 /\ tenant'.reviews[1].at = now
  <2>1. CASE List \/ Load \/ Pass \/ UNCHANGED vars
    BY <2>1 DEF List, Load, Pass, vars
  <2>2. CASE Create
    <3>1. Len(tenant'.items) = Len(tenant.items) + 1
      BY <2>2 DEF Create, Tenant
    <3> QED BY <3>1 DEF Fixed, Tenant
  <2>3. CASE Update
    BY <2>3 DEF Update, Tenant
  <2>4. CASE Export
    BY <2>4 DEF Export, Tenant
  <2>5. CASE TakeReview
    <3>1. \E u : tenant' = [tenant EXCEPT !.reviews = <<[at |-> now, unresolved |-> u]>> \o @,
                                          !.events = Recorded(NoEntity)]
      BY <2>5 DEF TakeReview
    <3> PICK u : tenant' = [tenant EXCEPT !.reviews = <<[at |-> now, unresolved |-> u]>> \o @,
                                          !.events = Recorded(NoEntity)]
      BY <3>1
    <3> DEFINE r == [at |-> now, unresolved |-> u]
    <3>2. /\ tenant'.items = tenant.items /\ tenant'.packs = tenant.packs
          /\ tenant'.reviews = <<r>> \o tenant.reviews
      BY DEF Tenant
    <3>3. <<r>> \in Seq(Review \cup {r}) /\ tenant.reviews \in Seq(Review \cup {r})
      BY DEF Tenant
    <3>4. Len(tenant'.reviews) = Len(tenant.reviews) + 1 /\ tenant'.reviews[1] = r
      BY <3>2, <3>3
    <3> QED BY <3>2, <3>4
  <2> QED BY <2>1, <2>2, <2>3, <2>4, <2>5 DEF Next
<1>4. Stale(Live') \subseteq Stale(Live)
  BY <1>1, <1>3, SMTT(30) DEF Stale, Live, Fixed
<1>5. /\ Live.items = tenant.items /\ Live'.items = tenant'.items
      /\ Live.packs = tenant.packs /\ Live'.packs = tenant'.packs
      /\ Live.reviews = tenant.reviews /\ Live'.reviews = tenant'.reviews
      /\ Live.now = now /\ Live'.now = now
  BY DEF Live, Fixed
<1>6. tenant \in Tenant /\ tenant' \in Tenant /\ now \in Nat
  OBVIOUS
<1> HIDE DEF Typed
<1>7. /\ Len(tenant.items) \in Nat /\ (tenant.items = << >> <=> Len(tenant.items) = 0)
      /\ Len(tenant.packs) \in Nat /\ (tenant.packs = << >> <=> Len(tenant.packs) = 0)
      /\ Len(tenant.reviews) \in Nat /\ (tenant.reviews = << >> <=> Len(tenant.reviews) = 0)
  BY <1>6, EmptyIsNone DEF Tenant
<1>8. /\ tenant'.items = << >> <=> Len(tenant'.items) = 0
      /\ tenant'.packs = << >> <=> Len(tenant'.packs) = 0
      /\ tenant'.reviews = << >> <=> Len(tenant'.reviews) = 0
  BY <1>6, EmptyIsNone DEF Tenant
<1>9. /\ Len(tenant'.items) = Len(tenant.items)
      /\ Len(tenant'.packs) = Len(tenant.packs) \/ Len(tenant'.packs) = Len(tenant.packs) + 1
      /\ \/ Len(tenant'.reviews) = Len(tenant.reviews)
         \/ Len(tenant'.reviews) = Len(tenant.reviews) + 1
  BY <1>3 DEF Fixed
<1>10. /\ Live'.items = << >> => Live.items = << >>
       /\ Live'.reviews = << >> => Live.reviews = << >>
       /\ Live'.packs = << >> => Live.packs = << >>
       /\ Comparable(Live) => Comparable(Live')
  BY <1>5, <1>7, <1>8, <1>9 DEF Comparable
<1>11. Overdue(Live') => Overdue(Live)
  <2>1. CASE tenant'.reviews = tenant.reviews
    BY <1>5, <2>1 DEF Overdue
  <2>2. CASE tenant'.reviews[1].at = now
    BY <1>5, <1>6, <2>2 DEF Overdue
  <2> QED BY <1>3, <2>1, <2>2
<1> QED BY <1>2, <1>4, <1>10, <1>11 DEF NoNewGap

(* Doing what the graph asks for never lowers the score, for any number of   *)
(* items and whatever is put right, unless a review finds more issues than   *)
(* the last (nextActions, graphHealth).                                      *)
THEOREM FixesHelp == Spec => FixNeverHurts
<1>1. ASSUME Typed, Typed', [Next]_vars, Fixed
      PROVE  graphHealth(Live') >= graphHealth(Live)
  <2>1. Live \in Read /\ Live' \in Read
    <3>1. (Typed => Live \in Read)'
      BY LiveIsRead, PTL
    <3> QED BY <1>1, <3>1, LiveIsRead DEF Read, Entities, Item, Review
  <2>2. NoNewGap(Live, Live')
    BY <1>1, FixesMakeNoGap
  <2>3. Penalties(Live') <= Penalties(Live)
    BY <2>1, <2>2, FewerPenalties
  <2> QED BY <2>1, <2>3, LessCostsMore
<1>2. Typed /\ Typed' /\ [Next]_vars => (Fixed => graphHealth(Live') >= graphHealth(Live))
  BY <1>1
<1> QED BY <1>2, AlwaysTyped, PTL DEF Spec, FixNeverHurts

-----------------------------------------------------------------------------
(* Ends.  A graph within the cap has every node and every edge of what was   *)
(* read; in one beyond it an edge is kept only with both its ends.           *)
LEMMA ActionsHaveTargets ==
  ASSUME NEW g \in Read, NEW a \in nextActions(g)
  PROVE  a.target \in Nodes(g)
<1>1. CASE \E i \in Ids(g) : a.target = Evidence(i)
  BY <1>1 DEF Nodes
<1>2. CASE a.target = Root \/ a.target = Pilot
  BY <1>2 DEF Nodes
<1>3. CASE ~Comparable(g) /\ a.target = NotComparable
  BY <1>3 DEF Nodes
<1>4. \/ \E i \in Ids(g) : a.target = Evidence(i)
      \/ a.target = Root \/ a.target = Pilot
      \/ ~Comparable(g) /\ a.target = NotComparable
  BY DEF nextActions, ActionsOn, If, Expired, Ownerless, Stale, Uncontrolled, Vendorless
<1> QED BY <1>1, <1>2, <1>3, <1>4

LEMMA EvidenceEnds ==
  ASSUME NEW g \in Read, NEW e \in EvidenceEdges(g)
  PROVE  e.source \in Nodes(g) /\ e.target \in Nodes(g)
<1>1. CASE \E i \in Ids(g) \ Ownerless(g) :
              e = Edge("OWNS", <<"owner", g.items[i].owner>>, Evidence(i))
  BY <1>1 DEF Edge, Nodes
<1>2. CASE \E t \in RefTypes, i \in Ids(g) : \E r \in g.items[i].refs[t] :
              e = Edge(EdgeTypeOf[t], Evidence(i), <<t, r>>)
  <2>1. PICK t \in RefTypes, i \in Ids(g) : \E r \in g.items[i].refs[t] :
              e = Edge(EdgeTypeOf[t], Evidence(i), <<t, r>>)
    BY <1>2
  <2>2. PICK r \in g.items[i].refs[t] : e = Edge(EdgeTypeOf[t], Evidence(i), <<t, r>>)
    BY <2>1
  <2>3. <<t, r>> \in UNION {{<<u, q>> : q \in g.items[j].refs[u]} : u \in RefTypes, j \in Ids(g)}
    <3> DEFINE Y == {<<t, q>> : q \in g.items[i].refs[t]}
               X == {{<<u, q>> : q \in g.items[j].refs[u]} : u \in RefTypes, j \in Ids(g)}
    <3>1. Y \in X /\ <<t, r>> \in Y
      OBVIOUS
    <3> HIDE DEF X, Y
    <3>2. <<t, r>> \in UNION X
      BY <3>1
    <3> QED BY <3>2 DEF X
  <2>4. <<t, r>> \in Nodes(g) /\ Evidence(i) \in Nodes(g)
    BY <2>3 DEF Nodes
  <2> QED BY <2>2, <2>4 DEF Edge
<1>3. CASE \E i \in Ids(g) : \E a \in nextActions(g) :
              e.source = Evidence(i) /\ e.target = ActionNode(a)
  BY <1>3 DEF Nodes
<1>4. ASSUME NEW type, NEW action, NEW S \in SUBSET Ids(g),
             ActionsOn(action, S) \subseteq nextActions(g), e \in Because(type, action, S)
      PROVE  \E i \in Ids(g) : \E a \in nextActions(g) :
                e.source = Evidence(i) /\ e.target = ActionNode(a)
  <2>1. PICK i \in S :
          e = Edge(type, Evidence(i), ActionNode([type |-> action, target |-> Evidence(i)]))
    BY <1>4 DEF Because
  <2>2. [type |-> action, target |-> Evidence(i)] \in nextActions(g)
    BY <1>4 DEF ActionsOn
  <2> QED BY <2>1, <2>2 DEF Edge
<1>5. /\ ActionsOn("replace_expired_evidence", Expired(g)) \subseteq nextActions(g)
      /\ ActionsOn("assign_owner", Ownerless(g)) \subseteq nextActions(g)
      /\ ActionsOn("refresh_stale_evidence", Stale(g)) \subseteq nextActions(g)
  BY DEF nextActions
<1>6. /\ Expired(g) \in SUBSET Ids(g) /\ Ownerless(g) \in SUBSET Ids(g)
      /\ Stale(g) \in SUBSET Ids(g)
  BY DEF Expired, Ownerless, Stale
<1>7. \/ e \in Because("EXPIRED_BECAUSE", "replace_expired_evidence", Expired(g))
      \/ e \in Because("OWNERLESS_BECAUSE", "assign_owner", Ownerless(g))
      \/ e \in Because("STALE_BECAUSE", "refresh_stale_evidence", Stale(g))
      => \E i \in Ids(g) : \E a \in nextActions(g) :
            e.source = Evidence(i) /\ e.target = ActionNode(a)
  BY <1>4, <1>5, <1>6
<1> QED BY <1>1, <1>2, <1>3, <1>7 DEF EvidenceEdges

LEMMA PackEnds ==
  ASSUME NEW g \in Read, NEW e \in PackEdges(g)
  PROVE  e.source \in Nodes(g) /\ e.target \in Nodes(g)
<1>1. PICK k \in DOMAIN g.packs : \E i \in Ids(g) :
          e = Edge("INCLUDED_IN_PROOFPACK", Evidence(i), Pack(g, k))
  BY DEF PackEdges
<1>2. k - 1 \in 0 .. Len(g.packs) - 1 /\ Pack(g, k) = <<"proofpack", Len(g.packs) - (k - 1)>>
  BY DEF Read, Pack
<1>3. Pack(g, k) \in Nodes(g)
  BY <1>2 DEF Nodes
<1> QED BY <1>1, <1>3 DEF Edge, Nodes

\* The edge of an event that names an item.
OfEvent(g, e) == /\ e.type = "GENERATED_EVENT"
                 /\ \E x \in EventsOf(g) : x[1] # NoEntity /\ e.source = Evidence(x[1])

LEMMA HistoryEnds ==
  ASSUME NEW g \in Read, NEW e \in HistoryEdges(g)
  PROVE  /\ e.target \in Nodes(g)
         /\ e.source \in Nodes(g) \/ OfEvent(g, e)
<1>1. CASE \E k \in DOMAIN g.reviews : e = Edge("APPEARS_IN_SNAPSHOT", Root, <<"snapshot", k>>)
  BY <1>1 DEF Edge, Nodes
<1>2. CASE \E x \in EventsOf(g) :
              e = Edge("GENERATED_EVENT",
                       IF x[1] = NoEntity THEN Root ELSE Evidence(x[1]), EventNode(x))
  BY <1>2 DEF Edge, Nodes, OfEvent
<1>3. CASE Comparable(g) /\ e = Edge("COMPARED_WITH", <<"snapshot", 1>>, <<"snapshot", 2>>)
  <2>1. 1 \in DOMAIN g.reviews /\ 2 \in DOMAIN g.reviews
    BY <1>3 DEF Comparable, Read
  <2> QED BY <1>3, <2>1 DEF Edge, Nodes
<1>4. CASE \E f \in {"markdown", "text", "json"} :
              e = Edge("READY_FOR_EXPORT", Root, <<"export", f>>)
  BY <1>4 DEF Edge, Nodes
<1>5. CASE \E k \in 1 .. g.narratives : e = Edge("PRODUCED_NARRATIVE", Root, <<"narrative", k>>)
  BY <1>5 DEF Edge, Nodes
<1> QED BY <1>1, <1>2, <1>3, <1>4, <1>5 DEF HistoryEdges

LEMMA EveryEnd ==
  ASSUME NEW g \in Read, NEW e \in Edges(g)
  PROVE  /\ e.target \in Nodes(g)
         /\ e.source \in Nodes(g) \/ OfEvent(g, e)
<1>1. CASE \E a \in nextActions(g) : e = Edge("REQUIRES_ACTION", a.target, ActionNode(a))
  <2>1. PICK a \in nextActions(g) : e = Edge("REQUIRES_ACTION", a.target, ActionNode(a))
    BY <1>1
  <2>2. ActionNode(a) \in Nodes(g)
    BY DEF Nodes
  <2> QED BY <2>1, <2>2, ActionsHaveTargets DEF Edge
<1>2. \/ e \in EvidenceEdges(g) \/ e \in PackEdges(g) \/ e \in HistoryEdges(g)
      \/ \E a \in nextActions(g) : e = Edge("REQUIRES_ACTION", a.target, ActionNode(a))
  BY DEF Edges
<1> QED BY <1>1, <1>2, EvidenceEnds, PackEnds, HistoryEnds

\* The note that nodes were left out is none of the nodes.
LEMMA NothingOmitted == ASSUME NEW g \in Read PROVE Omitted \notin Nodes(g)
BY DEF Nodes, Omitted, Root, Pilot, Evidence, EventNode, NotComparable, ActionNode, RefTypes

\* An event names an item that exists: items are never removed.
Named == \A i \in Entities : tenant.events[i] # 0 => i = NoEntity \/ i \in DOMAIN tenant.items

LEMMA InitNamed == Init => Named
BY DEF Init, Named, Fresh, NoEvents

LEMMA NextNamed == Typed /\ Named /\ [Next]_vars => Named'
<1> SUFFICES ASSUME Typed, Named, [Next]_vars PROVE Named'
  OBVIOUS
<1>1. ASSUME NEW i, tenant'.events = Recorded(i),
             i = NoEntity \/ i \in DOMAIN tenant'.items,
             DOMAIN tenant.items \subseteq DOMAIN tenant'.items
      PROVE  Named'
  BY <1>1 DEF Typed, Tenant, Named, Recorded
<1>2. CASE Create
  <2>1. tenant'.events = Recorded(Len(tenant.items) + 1)
    BY <1>2 DEF Create, Typed, Tenant
  <2>2. DOMAIN tenant.items = 1 .. Len(tenant.items)
        /\ DOMAIN tenant'.items = 1 .. Len(tenant.items) + 1 /\ Len(tenant.items) \in Nat
    BY <1>2 DEF Create, Typed, Tenant
  <2> QED BY <1>1, <2>1, <2>2
<1>3. CASE Update
  <2>1. \E i \in DOMAIN tenant.items :
          tenant'.events = Recorded(i) /\ DOMAIN tenant'.items = DOMAIN tenant.items
    BY <1>3 DEF Update, Typed, Tenant
  <2> QED BY <1>1, <2>1
<1>4. CASE Export \/ TakeReview
  <2>1. tenant'.events = Recorded(NoEntity) /\ tenant'.items = tenant.items
    BY <1>4 DEF Export, TakeReview, Typed, Tenant
  <2> QED BY <1>1, <2>1
<1>5. CASE List \/ Load \/ Pass \/ UNCHANGED vars
  BY <1>5 DEF List, Load, Pass, vars, Named
<1> QED BY <1>2, <1>3, <1>4, <1>5 DEF Next

LEMMA SoundAlways ==
  ASSUME Typed, Named, NEW n \in Nat
  PROVE  Sound(Joined(n))
<1> SUFFICES ASSUME NEW g, g = Joined(n) PROVE Sound(g)
  OBVIOUS
<1>1. g \in Read /\ g.events = tenant.events
  BY JoinedIsRead DEF Joined
<1>2. CASE Cardinality(Nodes(g)) > NodeCap
  <2>1. applyCaps(g) = capNodes(g)
    BY <1>2 DEF applyCaps
  <2>2. \A h \in capNodes(g) : \A e \in h.edges : e.source \in h.nodes /\ e.target \in h.nodes
    BY DEF capNodes
  <2> QED BY <2>1, <2>2 DEF Sound
<1>3. CASE ~ (Cardinality(Nodes(g)) > NodeCap)
  <2>1. applyCaps(g) = {[nodes |-> Nodes(g), edges |-> Edges(g)]}
    BY <1>3 DEF applyCaps
  <2>2. ASSUME NEW e \in Edges(g)
        PROVE  /\ e.target \in Nodes(g)
               /\ \/ e.source \in Nodes(g)
                  \/ /\ e.type = "GENERATED_EVENT"
                     /\ Omitted \notin Nodes(g)
                     /\ \E i \in DOMAIN tenant.items \ Ids(g) : e.source = Evidence(i)
    <3>1. e.target \in Nodes(g) /\ (e.source \in Nodes(g) \/ OfEvent(g, e))
      BY <1>1, EveryEnd
    <3>2. CASE OfEvent(g, e) /\ e.source \notin Nodes(g)
      <4>1. PICK x \in EventsOf(g) : x[1] # NoEntity /\ e.source = Evidence(x[1])
        BY <3>2 DEF OfEvent
      <4>2. x[1] \in Entities /\ g.events[x[1]] # 0
        BY <1>1 DEF EventsOf, Read
      <4>3. x[1] \in DOMAIN tenant.items
        BY <1>1, <4>1, <4>2 DEF Named
      <4>4. x[1] \notin Ids(g)
        BY <3>2, <4>1 DEF Nodes
      <4> QED BY <1>1, <3>1, <3>2, <4>1, <4>3, <4>4, NothingOmitted DEF OfEvent
    <3> QED BY <3>1, <3>2
  <2> QED BY <2>1, <2>2 DEF Sound
<1> QED BY <1>2, <1>3

(* Every edge of every graph has its ends, but for the event of an item      *)
(* created after the items were listed, and that only without the cap, for   *)
(* any states the graph joins (buildHistory, applyCaps).                     *)
THEOREM EdgesEnd == Spec => EndsExist
<1>1. Typed /\ Named => \A n \in Narratives : Sound(Joined(n))
  BY SoundAlways, EvidenceGraphAssumption
<1>2. Typed /\ Named /\ [Next]_vars => (Answers => \A n \in Narratives : Sound(Joined(n)))
  BY <1>1
<1>3. Spec => []Named
  BY InitNamed, NextNamed, AlwaysTyped, PTL DEF Spec
<1> QED BY <1>2, <1>3, AlwaysTyped, PTL DEF Spec, EndsExist

-----------------------------------------------------------------------------
(* The cap on nodes.                                                         *)

(* A graph made of what was read has every node, or, when there are more     *)
(* than NodeCap, exactly NodeCap of them and the note that some were left    *)
(* out; there is always such a graph (applyCaps).                            *)
Capped(read) ==
    /\ applyCaps(read) # {}
    /\ \A g \in applyCaps(read) :
          \/ g.nodes = Nodes(read) /\ Cardinality(g.nodes) <= NodeCap
          \/ /\ Cardinality(g.nodes \ {Omitted}) = NodeCap /\ Cardinality(Nodes(read)) > NodeCap
             /\ g.nodes \ {Omitted} \subseteq Nodes(read) /\ Omitted \in g.nodes

LEMMA FiniteImage ==
  ASSUME NEW S, IsFiniteSet(S), NEW f
  PROVE  IsFiniteSet({f[x] : x \in S})
<1> DEFINE T == {f[x] : x \in S}
           h == [x \in S |-> f[x]]
<1>1. h \in Surjection(S, T)
  BY DEF Surjection
<1> HIDE DEF h
<1>2. IsFiniteSet(T)
  BY <1>1, FS_Surjection
<1> QED BY <1>2

LEMMA SubsetOfSize ==
  ASSUME NEW S, IsFiniteSet(S), NEW n \in 0 .. Cardinality(S)
  PROVE  kSubset(n, S) # {}
<1>1. Cardinality(S) \in Nat /\ ExistsBijection(1 .. Cardinality(S), S)
  BY FS_CardinalityType
<1>2. PICK b \in Bijection(1 .. Cardinality(S), S) : TRUE
  BY <1>1 DEF ExistsBijection
<1>3. n \in Nat /\ 1 .. n \subseteq 1 .. Cardinality(S)
  BY <1>1
<1> DEFINE T == {b[i] : i \in 1 .. n}
           c == [i \in 1 .. n |-> b[i]]
<1>4. T \subseteq S /\ c \in Bijection(1 .. n, T)
  <2>1. /\ b \in [1 .. Cardinality(S) -> S]
        /\ \A i, k \in 1 .. Cardinality(S) : b[i] = b[k] => i = k
    BY <1>2, Zenon DEF Bijection, Injection, IsInjective
  <2>2. T \subseteq S
    BY <1>3, <2>1
  <2>3. c \in [1 .. n -> T]
    OBVIOUS
  <2>4. \A i, k \in 1 .. n : c[i] = c[k] => i = k
    BY <1>3, <2>1
  <2>5. \A y \in T : \E i \in 1 .. n : c[i] = y
    OBVIOUS
  <2> HIDE DEF c, T
  <2>6. DOMAIN c = 1 .. n
    BY <2>3
  <2> QED BY <2>2, <2>3, <2>4, <2>5, <2>6, Zenon DEF Bijection, Injection, Surjection, IsInjective
<1> HIDE DEF c
<1>5. ExistsBijection(1 .. n, T)
  BY <1>4 DEF ExistsBijection
<1> HIDE DEF T
<1>6. IsFiniteSet(1 .. n) /\ Cardinality(1 .. n) = n
  <2>1. IsFiniteSet(1 .. n) /\ Cardinality(1 .. n) = IF 1 > n THEN 0 ELSE n - 1 + 1
    BY <1>3, FS_Interval
  <2> QED BY <1>3, <2>1
<1>7. Cardinality(T) = n
  BY <1>5, <1>6, FS_Bijection
<1>8. T \in kSubset(n, S)
  BY <1>4, <1>7 DEF kSubset
<1> QED BY <1>8

\* Types are taken as long as they fit; of the first that does not, as many nodes as fit.
LEMMA FirstsFacts ==
  ASSUME NEW N, IsFiniteSet(N), Cardinality(N) > NodeCap,
         \A n \in N : \E t \in 1 .. 14 : n[1] = NodeOrder[t]
  PROVE  /\ Firsts(N) # {}
         /\ \A K \in Firsts(N) : K \subseteq N /\ Cardinality(K) = NodeCap
<1> DEFINE fit == {t \in 0 .. Len(NodeOrder) : Cardinality(Upto(N, t)) <= NodeCap}
<1>1. Len(NodeOrder) = 14 /\ NodeCap \in Nat
  BY EvidenceGraphAssumption DEF NodeOrder
<1>2. Upto(N, 0) = {} /\ Upto(N, 14) = N
  BY DEF Upto
<1>3. ASSUME NEW t PROVE /\ Upto(N, t) \subseteq N /\ IsFiniteSet(Upto(N, t))
                         /\ Cardinality(Upto(N, t)) \in Nat
  <2>1. Upto(N, t) \in SUBSET N
    BY DEF Upto
  <2> QED BY <2>1, FS_Subset, FS_CardinalityType
<1>4. ASSUME NEW s \in 0 .. 15, NEW t \in 0 .. 15, s <= t
      PROVE  Upto(N, s) \subseteq Upto(N, t) /\ Cardinality(Upto(N, s)) <= Cardinality(Upto(N, t))
  <2>1. 1 .. s \subseteq 1 .. t
    BY <1>4
  <2>2. Upto(N, s) \subseteq Upto(N, t)
    BY <2>1 DEF Upto
  <2> QED BY <1>3, <2>2, FS_Subset
<1>5. fit = {t \in 0 .. 14 : Cardinality(Upto(N, t)) <= NodeCap}
  BY <1>1
<1>6. 0 \in fit /\ 14 \notin fit
  <2>1. Cardinality(Upto(N, 0)) = 0
    BY <1>2, FS_EmptySet
  <2>2. Cardinality(Upto(N, 14)) > NodeCap /\ Cardinality(Upto(N, 14)) \in Nat
    BY <1>2, <1>3
  <2>3. ~ (Cardinality(Upto(N, 14)) <= NodeCap)
    BY <1>1, <2>2
  <2> QED BY <1>1, <1>5, <2>1, <2>3
<1>7. PICK j \in 0 .. 13 : j \in fit /\ j + 1 \notin fit
  <2> HIDE DEF fit
  <2>1. ASSUME \A i \in 0 .. 13 : i \in fit => i + 1 \in fit PROVE FALSE
    <3>1. 1 \in fit /\ 2 \in fit
      <4>1. 0 + 1 \in fit
        BY <1>6, <2>1
      <4>2. 1 + 1 \in fit
        BY <2>1, <4>1
      <4> QED BY <4>1, <4>2
    <3>2. 3 \in fit /\ 4 \in fit
      <4>1. 2 + 1 \in fit
        BY <2>1, <3>1
      <4>2. 3 + 1 \in fit
        BY <2>1, <4>1
      <4> QED BY <4>1, <4>2
    <3>3. 5 \in fit /\ 6 \in fit
      <4>1. 4 + 1 \in fit
        BY <2>1, <3>2
      <4>2. 5 + 1 \in fit
        BY <2>1, <4>1
      <4> QED BY <4>1, <4>2
    <3> QED BY <1>6, <2>1, <3>3
  <2> QED BY <2>1
<1>8. \A y \in fit : y <= j
  <2> SUFFICES ASSUME NEW y \in fit, y > j PROVE FALSE
    BY <1>5
  <2>0. y \in 0 .. 14
    BY <1>5
  <2>1. y \in 0 .. 14 /\ j + 1 \in 0 .. 14 /\ j + 1 <= y
    <3> HIDE DEF fit
    <3> QED BY <2>0
  <2>2. Cardinality(Upto(N, j + 1)) <= Cardinality(Upto(N, y))
    <3> HIDE DEF fit
    <3>1. j + 1 \in 0 .. 15 /\ y \in 0 .. 15 /\ j + 1 <= y
      BY <2>1
    <3> QED BY <1>4, <3>1
  <2>3. Cardinality(Upto(N, y)) <= NodeCap
    OBVIOUS
  <2>4. Cardinality(Upto(N, j + 1)) <= NodeCap
    BY <1>1, <1>3, <2>2, <2>3
  <2>5. j + 1 \in fit
    BY <1>5, <2>1, <2>4
  <2> QED BY <1>7, <2>5
<1>9. Max(fit) = j
  <2> HIDE DEF fit
  <2>1. \A y \in fit : y \in Int
    BY <1>5
  <2>2. \A x \in fit : (\A y \in fit : x >= y) => x = j
    BY <1>7, <1>8, <2>1
  <2>3. \A y \in fit : j >= y
    BY <1>8, <2>1
  <2> QED BY <1>7, <2>2, <2>3 DEF Max
<1> DEFINE whole == Upto(N, j)
           next  == Upto(N, j + 1) \ whole
           n     == NodeCap - Cardinality(whole)
<1>10. Firsts(N) = {whole \cup part : part \in kSubset(n, next)}
  BY <1>9 DEF Firsts
<1>11. /\ IsFiniteSet(whole) /\ whole \subseteq N /\ Cardinality(whole) \in Nat
       /\ IsFiniteSet(Upto(N, j + 1)) /\ Upto(N, j + 1) \subseteq N
       /\ whole \subseteq Upto(N, j + 1)
  BY <1>3, <1>4
<1>12. Cardinality(whole) <= NodeCap /\ Cardinality(Upto(N, j + 1)) > NodeCap
  <2>1. ~ (Cardinality(Upto(N, j + 1)) <= NodeCap)
    BY <1>5, <1>7
  <2> QED BY <1>1, <1>3, <1>7, <2>1
<1> HIDE DEF fit, whole
<1>13. IsFiniteSet(next) /\ n \in 0 .. Cardinality(next)
  <2>1. Upto(N, j + 1) \cap whole = whole
    BY <1>11
  <2>2. /\ IsFiniteSet(next)
        /\ Cardinality(next) = Cardinality(Upto(N, j + 1)) - Cardinality(whole)
    BY <1>11, <2>1, FS_Difference
  <2>3. Cardinality(Upto(N, j + 1)) \in Nat
    BY <1>3
  <2> QED BY <1>1, <1>11, <1>12, <2>2, <2>3
<1> HIDE DEF n
<1>14. kSubset(n, next) # {}
  BY <1>13, SubsetOfSize
<1>15. ASSUME NEW part \in kSubset(n, next)
       PROVE  whole \cup part \subseteq N /\ Cardinality(whole \cup part) = NodeCap
  <2>1. part \in SUBSET next /\ Cardinality(part) = n
    BY DEF kSubset
  <2>2. IsFiniteSet(part)
    BY <1>13, <2>1, FS_Subset
  <2>3. whole \cap part = {}
    BY <2>1
  <2>4. Cardinality(whole \cap part) = 0
    BY <2>3, FS_EmptySet
  <2>5. Cardinality(whole \cup part) = Cardinality(whole) + Cardinality(part) - 0
    BY <1>11, <2>2, <2>4, FS_Union
  <2>6. Cardinality(whole \cup part) = NodeCap
    BY <1>1, <1>11, <2>1, <2>5 DEF n
  <2>7. whole \cup part \subseteq N
    BY <1>11, <2>1
  <2> QED BY <2>6, <2>7
<1> HIDE DEF next
<1> QED BY <1>10, <1>14, <1>15

LEMMA FourFinite ==
  ASSUME NEW A, NEW B, NEW C, NEW D,
         IsFiniteSet(A), IsFiniteSet(B), IsFiniteSet(C), IsFiniteSet(D)
  PROVE  IsFiniteSet(((A \cup B) \cup C) \cup D)
<1>1. IsFiniteSet(A \cup B)
  BY FS_Union
<1>2. IsFiniteSet((A \cup B) \cup C)
  BY <1>1, FS_Union
<1> QED BY <1>2, FS_Union

LEMMA EvidenceFinite ==
  ASSUME NEW S, IsFiniteSet(S)
  PROVE  IsFiniteSet({Evidence(i) : i \in S})
<1> DEFINE f == [i \in S |-> Evidence(i)]
<1>1. {f[i] : i \in S} = {Evidence(i) : i \in S}
  OBVIOUS
<1> HIDE DEF f
<1>2. IsFiniteSet({f[i] : i \in S})
  BY FiniteImage
<1> QED BY <1>1, <1>2

LEMMA ActionsFinite ==
  ASSUME NEW g \in Read
  PROVE  IsFiniteSet(nextActions(g))
<1>1. ASSUME NEW type, NEW S \in SUBSET Ids(g) PROVE IsFiniteSet(ActionsOn(type, S))
  <2> DEFINE f == [i \in S |-> [type |-> type, target |-> Evidence(i)]]
  <2>1. {f[i] : i \in S} = ActionsOn(type, S)
    BY DEF ActionsOn
  <2>2. IsFiniteSet(S)
    BY FiniteGaps
  <2> HIDE DEF f
  <2>3. IsFiniteSet({f[i] : i \in S})
    BY <2>2, FiniteImage
  <2> QED BY <2>1, <2>3
<1>2. ASSUME NEW condition, NEW type, NEW target PROVE IsFiniteSet(If(condition, type, target))
  <2>1. If(condition, type, target) \in SUBSET {[type |-> type, target |-> target]}
    BY DEF If
  <2>2. IsFiniteSet({[type |-> type, target |-> target]})
    BY FS_Singleton
  <2> QED BY <2>1, <2>2, FS_Subset
<1> DEFINE A == ActionsOn("replace_expired_evidence", Expired(g))
           B == ActionsOn("assign_owner", Ownerless(g))
           C == ActionsOn("refresh_stale_evidence", Stale(g))
           D == ActionsOn("add_control_mapping", Uncontrolled(g))
           E == ActionsOn("add_vendor_mapping", Vendorless(g))
           F == If(g.packs = << >>, "create_proofpack", Root)
           G == If(g.reviews = << >>, "complete_review", Root)
           H == If(~Comparable(g), "compare_reviews", NotComparable)
           I == If(WeekFour(g), "generate_pilot_proof_bundle", Pilot)
           J == {[type |-> "export_graph", target |-> Root]}
<1>3. /\ Expired(g) \in SUBSET Ids(g) /\ Ownerless(g) \in SUBSET Ids(g)
      /\ Stale(g) \in SUBSET Ids(g) /\ Uncontrolled(g) \in SUBSET Ids(g)
      /\ Vendorless(g) \in SUBSET Ids(g)
  BY DEF Expired, Ownerless, Stale, Uncontrolled, Vendorless
<1>4. /\ IsFiniteSet(A) /\ IsFiniteSet(B) /\ IsFiniteSet(C) /\ IsFiniteSet(D)
      /\ IsFiniteSet(E)
  BY <1>1, <1>3
<1>5. IsFiniteSet(F) /\ IsFiniteSet(G) /\ IsFiniteSet(H) /\ IsFiniteSet(I)
  BY <1>2
<1>6. IsFiniteSet(J)
  BY FS_Singleton
<1>7. nextActions(g) = UNION {A, B, C, D, E, F, G, H, I, J}
  BY Zenon DEF nextActions
<1> HIDE DEF A, B, C, D, E, F, G, H, I, J
<1> DEFINE K == ((A \cup B) \cup C) \cup D
           L == ((E \cup F) \cup G) \cup H
<1>8. IsFiniteSet(K) /\ IsFiniteSet(L)
  BY <1>4, <1>5, FourFinite
<1>9. nextActions(g) = ((K \cup L) \cup I) \cup J
  BY <1>7
<1> HIDE DEF K, L
<1> QED BY <1>5, <1>6, <1>8, <1>9, FourFinite

LEMMA EventsFinite ==
  ASSUME NEW g \in Read
  PROVE  IsFiniteSet({EventNode(x) : x \in EventsOf(g)})
<1>1. ASSUME NEW i \in Entities PROVE IsFiniteSet({<<i, k>> : k \in 1 .. g.events[i]})
  <2> DEFINE S == 1 .. g.events[i]
             f == [k \in S |-> <<i, k>>]
  <2>1. {f[k] : k \in S} = {<<i, k>> : k \in S}
    OBVIOUS
  <2>2. g.events[i] \in Int
    BY DEF Read
  <2>3. IsFiniteSet(S)
    BY <2>2, FS_Interval
  <2> HIDE DEF f, S
  <2>4. IsFiniteSet({f[k] : k \in S})
    BY <2>3, FiniteImage
  <2> QED BY <2>1, <2>4 DEF S
<1> DEFINE f == [i \in Entities |-> {<<i, k>> : k \in 1 .. g.events[i]}]
           parts == {f[i] : i \in Entities}
<1>2. EventsOf(g) = UNION parts
  BY DEF EventsOf
<1>3. \A P \in parts : IsFiniteSet(P)
  BY <1>1
<1>4. IsFiniteSet(Entities)
  BY EvidenceGraphAssumption, FS_Interval DEF Entities
<1> HIDE DEF f
<1>5. IsFiniteSet(parts)
  BY <1>4, FiniteImage
<1> HIDE DEF parts
<1>6. IsFiniteSet(EventsOf(g))
  BY <1>2, <1>3, <1>5, FS_UNION
<1> DEFINE h == [x \in EventsOf(g) |-> EventNode(x)]
<1>7. {h[x] : x \in EventsOf(g)} = {EventNode(x) : x \in EventsOf(g)}
  OBVIOUS
<1> HIDE DEF h
<1>8. IsFiniteSet({h[x] : x \in EventsOf(g)})
  BY <1>6, FiniteImage
<1> QED BY <1>7, <1>8

RefNodes(g) == UNION {{<<t, r>> : r \in g.items[i].refs[t]} : t \in RefTypes, i \in Ids(g)}

LEMMA RefsFinite ==
  ASSUME NEW g \in Read
  PROVE  IsFiniteSet(RefNodes(g))
<1>1. ASSUME NEW t \in RefTypes, NEW i \in Ids(g)
      PROVE  IsFiniteSet({<<t, r>> : r \in g.items[i].refs[t]})
  <2>1. g.items[i] \in Item
    BY ElementOfSeq DEF Ids, Read
  <2>2. g.items[i].refs \in Mappings
    BY <2>1 DEF Item
  <2>3. IsFiniteSet(g.items[i].refs[t])
    BY <2>2, EvidenceGraphAssumption DEF RefTypes
  <2> DEFINE S == g.items[i].refs[t]
             f == [r \in S |-> <<t, r>>]
  <2>4. {f[r] : r \in S} = {<<t, r>> : r \in S}
    OBVIOUS
  <2> HIDE DEF f
  <2>5. IsFiniteSet({f[r] : r \in S})
    BY <2>3, FiniteImage
  <2> QED BY <2>4, <2>5
<1> DEFINE X == {{<<t, r>> : r \in g.items[i].refs[t]} : t \in RefTypes, i \in Ids(g)}
           f == [x \in RefTypes \X Ids(g) |-> {<<x[1], r>> : r \in g.items[x[2]].refs[x[1]]}]
           parts == {f[x] : x \in RefTypes \X Ids(g)}
<1>2. \A t \in RefTypes, i \in Ids(g) :
         <<t, i>> \in RefTypes \X Ids(g)
         /\ f[<<t, i>>] = {<<t, r>> : r \in g.items[i].refs[t]}
  OBVIOUS
<1>3. \A P \in X : \E t \in RefTypes, i \in Ids(g) : P = {<<t, r>> : r \in g.items[i].refs[t]}
  OBVIOUS
<1> HIDE DEF f, X
<1>4. \A P \in X : IsFiniteSet(P)
  BY <1>1, <1>3
<1>5. \A P \in X : P \in parts
  <2> SUFFICES ASSUME NEW P \in X PROVE P \in parts
    OBVIOUS
  <2>1. PICK t \in RefTypes, i \in Ids(g) : P = {<<t, r>> : r \in g.items[i].refs[t]}
    BY <1>3
  <2>2. <<t, i>> \in RefTypes \X Ids(g) /\ f[<<t, i>>] = P
    BY <1>2, <2>1
  <2> QED BY <2>2
<1>6. IsFiniteSet(RefTypes \X Ids(g))
  <2>1. IsFiniteSet({"control"}) /\ IsFiniteSet({"vendor"}) /\ IsFiniteSet({"risk"})
    BY FS_Singleton
  <2>2. IsFiniteSet({"control"} \cup {"vendor"})
    BY <2>1, FS_Union
  <2>3. IsFiniteSet(({"control"} \cup {"vendor"}) \cup {"risk"})
    BY <2>1, <2>2, FS_Union
  <2>4. RefTypes = ({"control"} \cup {"vendor"}) \cup {"risk"}
    BY DEF RefTypes
  <2>5. IsFiniteSet(RefTypes)
    BY <2>3, <2>4
  <2>6. IsFiniteSet(Ids(g))
    BY FiniteGaps
  <2> QED BY <2>5, <2>6, FS_Product
<1>7. IsFiniteSet(parts)
  BY <1>6, FiniteImage
<1> HIDE DEF parts
<1>8. IsFiniteSet(X)
  <2>1. X \in SUBSET parts
    BY <1>5
  <2> QED BY <1>7, <2>1, FS_Subset
<1>9. IsFiniteSet(UNION X)
  BY <1>4, <1>8, FS_UNION
<1> QED BY <1>9 DEF X, RefNodes

\* Numbered nodes of one type.
LEMMA NumberedFinite ==
  ASSUME NEW type, NEW n \in Nat
  PROVE  IsFiniteSet({<<type, k>> : k \in 1 .. n})
<1> DEFINE f == [k \in 1 .. n |-> <<type, k>>]
<1>1. {f[k] : k \in 1 .. n} = {<<type, k>> : k \in 1 .. n}
  OBVIOUS
<1>2. IsFiniteSet(1 .. n)
  BY FS_Interval
<1> HIDE DEF f
<1>3. IsFiniteSet({f[k] : k \in 1 .. n})
  BY <1>2, FiniteImage
<1> QED BY <1>1, <1>3

PackNodes(g) == {<<"proofpack", Len(g.packs) - k>> : k \in 0 .. Len(g.packs) - 1}

LEMMA PacksFinite ==
  ASSUME NEW g \in Read
  PROVE  IsFiniteSet(PackNodes(g))
<1> DEFINE S == 0 .. Len(g.packs) - 1
           f == [k \in S |-> <<"proofpack", Len(g.packs) - k>>]
<1>1. {f[k] : k \in S} = PackNodes(g)
  BY DEF PackNodes
<1>2. Len(g.packs) - 1 \in Int /\ 0 \in Int
  BY DEF Read
<1>3. IsFiniteSet(S)
  BY <1>2, FS_Interval
<1> HIDE DEF f, S
<1>4. IsFiniteSet({f[k] : k \in S})
  BY <1>3, FiniteImage
<1> QED BY <1>1, <1>4

LEMMA NodesFinite ==
  ASSUME NEW g \in Read
  PROVE  IsFiniteSet(Nodes(g))
<1> DEFINE A == {Root, Pilot}
           B == {Evidence(i) : i \in Ids(g)}
           C == {<<"owner", g.items[i].owner>> : i \in Ids(g) \ Ownerless(g)}
           D == RefNodes(g)
           E == PackNodes(g)
           F == {<<"snapshot", k>> : k \in DOMAIN g.reviews}
           G == {EventNode(x) : x \in EventsOf(g)}
           H == {IF Comparable(g) THEN <<"review_comparison", "latest_previous">>
                                  ELSE NotComparable}
           I == {<<"export", f>> : f \in {"markdown", "text", "json"}}
           J == {<<"narrative", k>> : k \in 1 .. g.narratives}
           K == {ActionNode(a) : a \in nextActions(g)}
<1>1. IsFiniteSet(A)
  <2>1. IsFiniteSet({Root}) /\ IsFiniteSet({Pilot})
    BY FS_Singleton
  <2>2. IsFiniteSet({Root} \cup {Pilot})
    BY <2>1, FS_Union
  <2>3. A = {Root} \cup {Pilot}
    OBVIOUS
  <2> QED BY <2>2, <2>3
<1>2. IsFiniteSet(B)
  <2>1. IsFiniteSet(Ids(g))
    BY FiniteGaps
  <2> QED BY <2>1, EvidenceFinite
<1>3. IsFiniteSet(C)
  <2> DEFINE S == Ids(g) \ Ownerless(g)
             f == [i \in S |-> <<"owner", g.items[i].owner>>]
  <2>1. {f[i] : i \in S} = C
    OBVIOUS
  <2>2. S \in SUBSET Ids(g)
    OBVIOUS
  <2> HIDE DEF f, S, C
  <2>3. IsFiniteSet(S)
    BY <2>2, FiniteGaps
  <2>4. IsFiniteSet({f[i] : i \in S})
    BY <2>3, FiniteImage
  <2> QED BY <2>1, <2>4
<1>4. IsFiniteSet(D)
  BY RefsFinite
<1>5. IsFiniteSet(E)
  BY PacksFinite
<1>6. IsFiniteSet(F)
  <2>1. DOMAIN g.reviews = 1 .. Len(g.reviews) /\ Len(g.reviews) \in Nat
    BY DEF Read
  <2>2. IsFiniteSet({<<"snapshot", k>> : k \in 1 .. Len(g.reviews)})
    BY <2>1, NumberedFinite
  <2> QED BY <2>1, <2>2
<1>7. IsFiniteSet(G)
  BY EventsFinite
<1>8. IsFiniteSet(H)
  BY FS_Singleton
<1>9. IsFiniteSet(I)
  <2>1. /\ IsFiniteSet({<<"export", "markdown">>}) /\ IsFiniteSet({<<"export", "text">>})
        /\ IsFiniteSet({<<"export", "json">>})
    BY FS_Singleton
  <2>2. IsFiniteSet({<<"export", "markdown">>} \cup {<<"export", "text">>})
    BY <2>1, FS_Union
  <2>3. IsFiniteSet(({<<"export", "markdown">>} \cup {<<"export", "text">>})
                      \cup {<<"export", "json">>})
    BY <2>1, <2>2, FS_Union
  <2>4. I = ({<<"export", "markdown">>} \cup {<<"export", "text">>}) \cup {<<"export", "json">>}
    OBVIOUS
  <2> QED BY <2>3, <2>4
<1>10. IsFiniteSet(J)
  <2>1. g.narratives \in Nat
    BY DEF Read
  <2> QED BY <2>1, NumberedFinite
<1>11. IsFiniteSet(K)
  <2> DEFINE S == nextActions(g)
             f == [a \in S |-> ActionNode(a)]
  <2>1. {f[a] : a \in S} = K
    OBVIOUS
  <2>2. IsFiniteSet(S)
    BY ActionsFinite
  <2> HIDE DEF f, S, K
  <2>3. IsFiniteSet({f[a] : a \in S})
    BY <2>2, FiniteImage
  <2> QED BY <2>1, <2>3
<1>12. Nodes(g) = UNION {A, B, C, D, E, F, G, H, I, J, K}
  BY DEF Nodes, RefNodes, PackNodes
<1> HIDE DEF A, B, C, D, E, F, G, H, I, J, K
<1> DEFINE L == ((A \cup B) \cup C) \cup D
           M == ((E \cup F) \cup G) \cup H
           N == ((L \cup M) \cup I) \cup J
<1>13. IsFiniteSet(L) /\ IsFiniteSet(M)
  BY <1>1, <1>2, <1>3, <1>4, <1>5, <1>6, <1>7, <1>8, FourFinite
<1>14. Nodes(g) = N \cup K
  BY <1>12
<1> HIDE DEF L, M
<1>15. IsFiniteSet(N)
  BY <1>9, <1>10, <1>13, FourFinite
<1> HIDE DEF N
<1> QED BY <1>11, <1>14, <1>15, FS_Union

\* Every node is of one of the types applyCaps goes through.
LEMMA NodeTypes ==
  ASSUME NEW g \in Read, NEW x \in Nodes(g)
  PROVE  \E t \in 1 .. 14 : x[1] = NodeOrder[t]
<1>1. /\ NodeOrder[1] = "action" /\ NodeOrder[2] = "control" /\ NodeOrder[3] = "evidence"
      /\ NodeOrder[4] = "export" /\ NodeOrder[5] = "narrative"
      /\ NodeOrder[6] = "operational_event" /\ NodeOrder[7] = "owner"
      /\ NodeOrder[8] = "pilot_readiness" /\ NodeOrder[9] = "proofpack"
      /\ NodeOrder[10] = "review_comparison" /\ NodeOrder[11] = "risk"
      /\ NodeOrder[12] = "snapshot" /\ NodeOrder[13] = "tenant" /\ NodeOrder[14] = "vendor"
  BY DEF NodeOrder
<1>2. x[1] \in {"action", "control", "evidence", "export", "narrative", "operational_event",
                "owner", "pilot_readiness", "proofpack", "review_comparison", "risk",
                "snapshot", "tenant", "vendor"}
  <2>1. \/ x \in {Root, Pilot}
        \/ \E i \in Ids(g) : x = Evidence(i)
        \/ \E i \in Ids(g) : x = <<"owner", g.items[i].owner>>
        \/ x \in RefNodes(g)
        \/ x \in PackNodes(g)
        \/ \E k \in DOMAIN g.reviews : x = <<"snapshot", k>>
        \/ \E y \in EventsOf(g) : x = EventNode(y)
        \/ x = <<"review_comparison", "latest_previous">> \/ x = NotComparable
        \/ \E f \in {"markdown", "text", "json"} : x = <<"export", f>>
        \/ \E k \in 1 .. g.narratives : x = <<"narrative", k>>
        \/ \E a \in nextActions(g) : x = ActionNode(a)
    BY DEF Nodes, RefNodes, PackNodes
  <2>2. CASE x \in RefNodes(g)
    <3> DEFINE X == {{<<t, r>> : r \in g.items[i].refs[t]} : t \in RefTypes, i \in Ids(g)}
    <3>1. \A P \in X : \E t \in RefTypes, i \in Ids(g) : P = {<<t, r>> : r \in g.items[i].refs[t]}
      OBVIOUS
    <3> HIDE DEF X
    <3>2. PICK P \in X : x \in P
      BY <2>2 DEF RefNodes, X
    <3>3. PICK t \in RefTypes, i \in Ids(g) : x \in {<<t, r>> : r \in g.items[i].refs[t]}
      BY <3>1, <3>2
    <3>4. x[1] = t
      BY <3>3
    <3> QED BY <3>4 DEF RefTypes
  <2>3. CASE x \in PackNodes(g)
    BY <2>3 DEF PackNodes
  <2>4. CASE x \notin RefNodes(g) /\ x \notin PackNodes(g)
    BY <2>1, <2>4 DEF Root, Pilot, Evidence, EventNode, NotComparable, ActionNode
  <2> QED BY <2>2, <2>3, <2>4
<1> QED BY <1>1, <1>2

LEMMA CappedAlways ==
  ASSUME NEW g \in Read
  PROVE  Capped(g)
<1> DEFINE N == Nodes(g)
<1>1. /\ IsFiniteSet(N) /\ Cardinality(N) \in Nat /\ NodeCap \in Nat /\ Omitted \notin N
      /\ \A x \in N : \E t \in 1 .. 14 : x[1] = NodeOrder[t]
  BY NodesFinite, FS_CardinalityType, EvidenceGraphAssumption, NothingOmitted, NodeTypes
<1>2. CASE Cardinality(N) > NodeCap
  <2>1. applyCaps(g) = capNodes(g)
    BY <1>2 DEF applyCaps
  <2> HIDE DEF N
  <2>2. Firsts(N) # {} /\ \A K \in Firsts(N) : K \subseteq N /\ Cardinality(K) = NodeCap
    BY <1>1, <1>2, FirstsFacts
  <2>3. capNodes(g) # {} /\ \A h \in capNodes(g) : \E K \in Firsts(N) : h.nodes = K \cup {Omitted}
    <3>1. \A h \in capNodes(g) : \E K \in Firsts(N) : h.nodes = K \cup {Omitted}
      BY DEF capNodes, N
    <3>2. PICK K \in Firsts(N) : TRUE
      BY <2>2
    <3> DEFINE h == [nodes |-> K \cup {Omitted},
                     edges |-> {e \in Edges(g) : e.source \in K /\ e.target \in K}]
    <3>3. h \in capNodes(g)
      BY DEF capNodes, N
    <3> QED BY <3>1, <3>3
  <2>4. ASSUME NEW h \in capNodes(g)
        PROVE  /\ Cardinality(h.nodes \ {Omitted}) = NodeCap
               /\ h.nodes \ {Omitted} \subseteq N /\ Omitted \in h.nodes
    <3>1. PICK K \in Firsts(N) : h.nodes = K \cup {Omitted}
      BY <2>3
    <3>2. Omitted \notin K
      BY <1>1, <2>2
    <3>3. h.nodes \ {Omitted} = K
      BY <3>1, <3>2
    <3> QED BY <2>2, <3>1, <3>3
  <2> QED BY <1>2, <2>1, <2>3, <2>4 DEF Capped, N
<1>3. CASE ~ (Cardinality(N) > NodeCap)
  <2>1. applyCaps(g) = {[nodes |-> N, edges |-> Edges(g)]}
    BY <1>3 DEF applyCaps
  <2>2. Cardinality(N) <= NodeCap
    BY <1>1, <1>3
  <2> QED BY <2>1, <2>2 DEF Capped
<1> QED BY <1>2, <1>3

\* A finished Build answers with a graph, and no graph it answers with is over the cap.
CapIsKept == [][Answers => \A n \in Narratives : Capped(Joined(n))]_vars

(* Build always has a graph to answer with, and cuts exactly what is over    *)
(* the cap: below it every node is there, above it NodeCap of them and the   *)
(* note, whatever was read and however large it is (applyCaps).              *)
THEOREM CapHolds == Spec => CapIsKept
<1>1. Typed => \A n \in Narratives : Capped(Joined(n))
  BY CappedAlways, JoinedIsRead, EvidenceGraphAssumption
<1>2. Typed /\ [Next]_vars => (Answers => \A n \in Narratives : Capped(Joined(n)))
  BY <1>1
<1> QED BY <1>2, AlwaysTyped, PTL DEF Spec, CapIsKept
=============================================================================
