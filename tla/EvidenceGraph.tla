----------------------------- MODULE EvidenceGraph -----------------------------
(* internal/evidencegraph: Builder.Build, which draws one tenant's evidence, *)
(* proofpacks, reviews and events as a graph, scores it and lists what to do *)
(* next.  It reads the store three times (Service.List, LoadTenantGraphData, *)
(* BuildSummary) while other requests change it, so the graph may join parts *)
(* of different states.  A request that changes the tenant is one step here: *)
(* its own Writes and how they overlap are the subject of EvidenceService    *)
(* and ReviewHistory.                                                        *)
EXTENDS Integers, Sequences, FiniteSets, FiniteSetsExt

CONSTANTS Owners,      \* the owners named on items
          Statuses,    \* the stored statuses that occur
          Mappings,    \* the references a client maps an item to
          Narratives,  \* how many narratives BuildSummary may yield
          Waits,       \* how many days may pass between two requests
          NodeCap,     \* Builder.MaxNodes
          PilotWeeks,  \* the reviews a pilot takes; the code says 4
          MaxItems,    \* bound: items created
          MaxPacks,    \* bound: proofpacks exported
          MaxReviews,  \* bound: reviews
          MaxChanges,  \* bound: requests that change the tenant
          MaxPasses    \* bound: how often time passes

NoOwner  == "no owner"
NoEntity == 0

ASSUME EvidenceGraphAssumption ==
    /\ NoOwner \notin Owners
    /\ Statuses \subseteq {"active", "expiring", "expired", "missing", "archived"}
    /\ \A m \in Mappings : /\ DOMAIN m = {"control", "vendor", "risk"}
                           /\ \A t \in DOMAIN m : IsFiniteSet(m[t])
    /\ Narratives \subseteq Nat /\ Waits \subseteq Nat \ {0}
    /\ NodeCap \in Nat \ {0} /\ PilotWeeks \in Nat \ {0}
    /\ MaxItems \in Nat /\ MaxPacks \in Nat /\ MaxReviews \in Nat
    /\ MaxChanges \in Nat /\ MaxPasses \in Nat

VARIABLES
    now,      \* the day of time.Now()
    tenant,   \* the tenant's part of State
    builder,  \* "idle" or "listed": whether a Build is between its reads
    listed,   \* the items and the day it has
    changes, passes  \* of the bounds

vars == <<now, tenant, builder, listed, changes, passes>>

Item   == [status : Statuses, owner : Owners \cup {NoOwner}, refs : Mappings,
           updated : Nat]
Review == [at : Nat, unresolved : Nat]

\* An item's ID is its place in items, counted from the oldest.  Proofpacks and
\* reviews are newest first; of the events only the item each names is kept, with
\* how many name it.  Nothing that runs in the server stores a review report.
Entities == 0 .. MaxItems

Tenant == [items : Seq(Item), packs : Seq(SUBSET Nat), reviews : Seq(Review),
           events : [Entities -> Nat]]

NoEvents == [i \in Entities |-> 0]

Fresh == [items |-> << >>, packs |-> << >>, reviews |-> << >>, events |-> NoEvents]

NotListed == [items |-> << >>, now |-> 0]

Init == /\ now = 0
        /\ tenant = Fresh
        /\ builder = "idle"
        /\ listed = NotListed
        /\ changes = 0 /\ passes = 0

-----------------------------------------------------------------------------
(* The gaps of an item, of a tenant state g read on day g.now.               *)

Ids(g)        == DOMAIN g.items
Expired(g)    == {i \in Ids(g) : g.items[i].status = "expired"}
Ownerless(g)  == {i \in Ids(g) : g.items[i].owner = NoOwner}
Stale(g)      == {i \in Ids(g) : g.items[i].updated < g.now - 180}
Uncontrolled(g) == {i \in Ids(g) : g.items[i].refs.control = {}}
Vendorless(g) == {i \in Ids(g) : g.items[i].refs.vendor = {}}

Comparable(g) == Len(g.reviews) >= 2
WeekFour(g)   == Len(g.reviews) >= PilotWeeks /\ g.packs # << >>
Overdue(g)    == g.reviews # << >> /\ g.now - g.reviews[1].at > 9

-----------------------------------------------------------------------------
(* nextActions: what to do (a type) and the node it is about.                *)

Evidence(i) == <<"evidence", i>>
Root        == <<"tenant">>
Pilot       == <<"pilot_readiness">>
NotComparable == <<"review_comparison", "not_comparable">>

ActionsOn(type, ids) == {[type |-> type, target |-> Evidence(i)] : i \in ids}

If(condition, type, target) == {a \in {[type |-> type, target |-> target]} : condition}

nextActions(g) ==
    UNION {ActionsOn("replace_expired_evidence", Expired(g)),
           ActionsOn("assign_owner", Ownerless(g)),
           ActionsOn("refresh_stale_evidence", Stale(g)),
           ActionsOn("add_control_mapping", Uncontrolled(g)),
           ActionsOn("add_vendor_mapping", Vendorless(g)),
           If(g.packs = << >>, "create_proofpack", Root),
           If(g.reviews = << >>, "complete_review", Root),
           If(~Comparable(g), "compare_reviews", NotComparable),
           If(WeekFour(g), "generate_pilot_proof_bundle", Pilot),
           {[type |-> "export_graph", target |-> Root]}}

ActionNode(a) == <<"action", a.type, a.target>>

-----------------------------------------------------------------------------
(* buildEvidence, buildProofpacks, buildHistory: the maps work.nodes and     *)
(* work.edges keep one entry for each ID.                                    *)

RefTypes == {"control", "vendor", "risk"}
EdgeTypeOf == [control |-> "SUPPORTS_CONTROL", vendor |-> "RELATES_TO_VENDOR",
               risk |-> "MITIGATES_RISK"]

Edge(type, source, target) == [type |-> type, source |-> source, target |-> target]

\* Each event has a node: <<the item it names, its place among those of the item>>.
EventsOf(g) == UNION {{<<i, k>> : k \in 1 .. g.events[i]} : i \in Entities}
EventNode(x) == <<"operational_event", x>>

Nodes(g) ==
    UNION {{Root, Pilot},
           {Evidence(i) : i \in Ids(g)},
           {<<"owner", g.items[i].owner>> : i \in Ids(g) \ Ownerless(g)},
           UNION {{<<t, r>> : r \in g.items[i].refs[t]} : t \in RefTypes, i \in Ids(g)},
           {<<"proofpack", Len(g.packs) - k>> : k \in 0 .. Len(g.packs) - 1},
           {<<"snapshot", k>> : k \in DOMAIN g.reviews},
           {EventNode(x) : x \in EventsOf(g)},
           {IF Comparable(g) THEN <<"review_comparison", "latest_previous">>
                             ELSE NotComparable},
           {<<"export", f>> : f \in {"markdown", "text", "json"}},
           {<<"narrative", k>> : k \in 1 .. g.narratives},
           {ActionNode(a) : a \in nextActions(g)}}

Because(type, action, ids) ==
    {Edge(type, Evidence(i), ActionNode([type |-> action, target |-> Evidence(i)])) : i \in ids}

EvidenceEdges(g) ==
    UNION {{Edge("OWNS", <<"owner", g.items[i].owner>>, Evidence(i)) :
               i \in Ids(g) \ Ownerless(g)},
           UNION {{Edge(EdgeTypeOf[t], Evidence(i), <<t, r>>) : r \in g.items[i].refs[t]} :
                     t \in RefTypes, i \in Ids(g)},
           Because("EXPIRED_BECAUSE", "replace_expired_evidence", Expired(g)),
           Because("OWNERLESS_BECAUSE", "assign_owner", Ownerless(g)),
           Because("STALE_BECAUSE", "refresh_stale_evidence", Stale(g))}

Pack(g, k) == <<"proofpack", Len(g.packs) - k + 1>>

PackEdges(g) ==
    UNION {{Edge("INCLUDED_IN_PROOFPACK", Evidence(i), Pack(g, k)) :
               i \in g.packs[k] \cap Ids(g)} : k \in DOMAIN g.packs}

\* An event's source is the evidence it names, whether List returned it or not.
HistoryEdges(g) ==
    UNION {{Edge("APPEARS_IN_SNAPSHOT", Root, <<"snapshot", k>>) : k \in DOMAIN g.reviews},
           {Edge("GENERATED_EVENT",
                 IF x[1] = NoEntity THEN Root ELSE Evidence(x[1]), EventNode(x)) :
                     x \in EventsOf(g)},
           {e \in {Edge("COMPARED_WITH", <<"snapshot", 1>>, <<"snapshot", 2>>)} : Comparable(g)},
           {Edge("READY_FOR_EXPORT", Root, <<"export", f>>) : f \in {"markdown", "text", "json"}},
           {Edge("PRODUCED_NARRATIVE", Root, <<"narrative", k>>) : k \in 1 .. g.narratives}}

Edges(g) == UNION {EvidenceEdges(g), PackEdges(g), HistoryEdges(g),
                   {Edge("REQUIRES_ACTION", a.target, ActionNode(a)) : a \in nextActions(g)}}

-----------------------------------------------------------------------------
(* applyCaps on the graph sortGraph has sorted by type; the order inside a   *)
(* type (status, label, ID) is left open.                                    *)

NodeOrder == <<"action", "control", "evidence", "export", "narrative", "operational_event",
               "owner", "pilot_readiness", "proofpack", "review_comparison", "risk",
               "snapshot", "tenant", "vendor">>

\* The nodes of N of the first k types.
Upto(N, k) == LET types == {NodeOrder[t] : t \in 1 .. k} IN {n \in N : n[1] \in types}

\* What may be the first NodeCap nodes of N: whole types, and a part of the next.
Firsts(N) ==
    LET k     == Max({t \in 0 .. Len(NodeOrder) : Cardinality(Upto(N, t)) <= NodeCap})
        whole == Upto(N, k)
        next  == Upto(N, k + 1) \ whole
    IN  {whole \cup part : part \in kSubset(NodeCap - Cardinality(whole), next)}

Omitted == <<"action", "omitted_nodes">>

\* Mutant of capNodes: an edge is kept by its source alone.
capNodesBySource(g) ==
    LET E == Edges(g)
    IN  {[nodes |-> K \cup {Omitted}, edges |-> {e \in E : e.source \in K}] :
            K \in Firsts(Nodes(g))}

\* The graph's nodes and edges after the cap on nodes, when it is exceeded.
capNodes(g) ==
    LET E == Edges(g)
    IN  {[nodes |-> K \cup {Omitted},
          edges |-> {e \in E : e.source \in K /\ e.target \in K}] : K \in Firsts(Nodes(g))}

\* The cap on edges (Builder.MaxEdges) drops edges and nothing else: left out.
applyCaps(g) ==
    LET N == Nodes(g)
    IN  IF Cardinality(N) > NodeCap THEN capNodes(g) ELSE {[nodes |-> N, edges |-> Edges(g)]}

-----------------------------------------------------------------------------
(* graphHealth and degradedReasons                                           *)

Clamp(n) == IF n < 0 THEN 0 ELSE IF n > 100 THEN 100 ELSE n

When(condition, penalty) == IF condition THEN penalty ELSE 0

Penalties(g) ==
      When(g.items = << >>, 40)
    + 14 * Cardinality(Expired(g)) + 10 * Cardinality(Ownerless(g))
    + 8 * Cardinality(Stale(g)) + 4 * Cardinality(Uncontrolled(g))
    + 2 * Cardinality(Vendorless(g))
    + When(g.reviews = << >>, 12) + When(Overdue(g), 10)
    + When(g.packs = << >>, 8) + When(~Comparable(g), 6)

\* Mutant of graphHealth: an expired item costs its 14 points and nothing more.
graphHealthFirstGap(g) ==
    LET also(S) == Cardinality(S \cap Expired(g))
    IN  Clamp(100 - Penalties(g) + 10 * also(Ownerless(g)) + 8 * also(Stale(g))
                + 4 * also(Uncontrolled(g)) + 2 * also(Vendorless(g)))

\* Mutant of graphHealth: the oldest review is taken for the latest.
graphHealthOldest(g) ==
    LET last == Len(g.reviews)
    IN  Clamp(100 - Penalties(g) + When(Overdue(g), 10)
                - When(last > 0 /\ g.now - g.reviews[last].at > 9, 10))

\* Mutant of graphHealth: the score is not bounded below.
graphHealthUnclamped(g) == 100 - Penalties(g)

graphHealth(g) == Clamp(100 - Penalties(g))

degradedReasons(g) ==
    {r \in {"no evidence", "ownerless", "expired", "stale", "no reviews", "not comparable",
            "no proofpack", "no control", "no vendor"} :
        CASE r = "no evidence"    -> g.items = << >>
          [] r = "ownerless"      -> Ownerless(g) # {}
          [] r = "expired"        -> Expired(g) # {}
          [] r = "stale"          -> Stale(g) # {}
          [] r = "no reviews"     -> g.reviews = << >>
          [] r = "not comparable" -> ~Comparable(g)
          [] r = "no proofpack"   -> g.packs = << >>
          [] r = "no control"     -> Uncontrolled(g) # {}
          [] r = "no vendor"      -> Vendorless(g) # {}}

-----------------------------------------------------------------------------
(* Builder.Build.                                                            *)

\* b.now() and Service.List.
List == /\ builder = "idle"
        /\ builder' = "listed"
        /\ listed' = [items |-> tenant.items, now |-> now]
        /\ UNCHANGED <<now, tenant, changes, passes>>

\* What Build has read in the end: the items it listed, the rest of the tenant from
\* StoreTenantSource.LoadTenantGraphData (what sortTenantData sorts is in that order
\* already unless reviews overlapped), and of operations.BuildSummary the narratives.
Joined(n) == [items |-> listed.items, now |-> listed.now, packs |-> tenant.packs,
              reviews |-> tenant.reviews, events |-> tenant.events, narratives |-> n]

\* Build reads the rest and answers with a graph of applyCaps(Joined(n)).
Load == /\ builder = "listed"
        /\ builder' = "idle"
        /\ listed' = NotListed
        /\ UNCHANGED <<now, tenant, changes, passes>>

-----------------------------------------------------------------------------
(* What other requests of the tenant do.                                     *)

Change == changes < MaxChanges /\ changes' = changes + 1

Recorded(entity) == [tenant.events EXCEPT ![entity] = @ + 1]

\* createEvidence and createEvidenceFromTemplate, below FREE_TIER_LIMIT.
Create == /\ Change
          /\ Len(tenant.items) < MaxItems
          /\ \E s \in Statuses, o \in Owners \cup {NoOwner}, m \in Mappings :
                tenant' = [tenant EXCEPT
                    !.items = Append(@, [status |-> s, owner |-> o, refs |-> m, updated |-> now]),
                    !.events = Recorded(Len(tenant.items) + 1)]
          /\ UNCHANGED <<now, builder, listed, passes>>

\* Service.Update with the status derived anew: new references by
\* updateEvidenceMappings, an owner too by internal/demo.  An uploaded file
\* (AttachFile) is, to the graph, an update that changes nothing else.
Update == /\ Change
          /\ \E i \in DOMAIN tenant.items, s \in Statuses, m \in Mappings :
                \E o \in Owners \cup {tenant.items[i].owner} :
                   tenant' = [tenant EXCEPT
                       !.items[i] = [status |-> s, owner |-> o, refs |-> m, updated |-> now],
                       !.events = Recorded(i)]
          /\ UNCHANGED <<now, builder, listed, passes>>

\* proofpack.Service.Export: the manifest names the items its own List returned.
Export == /\ Change
          /\ Len(tenant.packs) < MaxPacks
          /\ tenant' = [tenant EXCEPT !.packs = <<DOMAIN tenant.items>> \o @,
                                      !.events = Recorded(NoEntity)]
          /\ UNCHANGED <<now, builder, listed, passes>>

Live == [items |-> tenant.items, packs |-> tenant.packs, reviews |-> tenant.reviews,
         events |-> tenant.events, now |-> now, narratives |-> 0]

\* GenerateReviewSnapshot; an unresolved issue is anything expired, expiring,
\* ownerless or stale (operations.evaluate).
TakeReview ==
    /\ Change
    /\ Len(tenant.reviews) < MaxReviews
    /\ LET expiring   == {i \in Ids(Live) : tenant.items[i].status = "expiring"}
           unresolved == Cardinality(Expired(Live)) + Cardinality(expiring)
                           + Cardinality(Ownerless(Live)) + Cardinality(Stale(Live))
       IN  tenant' = [tenant EXCEPT
               !.reviews = <<[at |-> now, unresolved |-> unresolved]>> \o @,
               !.events = Recorded(NoEntity)]
    /\ UNCHANGED <<now, builder, listed, passes>>

Pass == /\ passes < MaxPasses
        /\ passes' = passes + 1
        /\ \E d \in Waits : now' = now + d
        /\ UNCHANGED <<tenant, builder, listed, changes>>

Next == \/ List \/ Load
        \/ Create \/ Update \/ Export \/ TakeReview \/ Pass

Spec == Init /\ [][Next]_vars

-----------------------------------------------------------------------------
(* The types, and the score bounded from 0 to 100 (graphHealth).             *)
TypeOK == /\ now \in Nat
          /\ tenant \in Tenant
          /\ builder \in {"idle", "listed"}
          /\ listed \in [items : Seq(Item), now : Nat]
          /\ changes \in Nat /\ passes \in Nat
          /\ graphHealth(Live) \in 0 .. 100

Answers == builder = "listed" /\ builder' = "idle"

\* Every edge of a graph made of what was read has its ends.
Sound(read) ==
    \A g \in applyCaps(read) : \A e \in g.edges :
        /\ e.target \in g.nodes
        /\ \/ e.source \in g.nodes
           \/ /\ e.type = "GENERATED_EVENT"
              /\ Omitted \notin g.nodes
              /\ \E i \in DOMAIN tenant.items \ Ids(read) : e.source = Evidence(i)

(* Every edge of a graph joins two of its nodes, whatever changed between    *)
(* the reads; a graph that was cut has none that lost an end.  The exception *)
(* is the event of an item created after List had returned (Build, applyCaps).*)
EndsExist == [][Answers => \A n \in Narratives : Sound(Joined(n))]_vars

\* What the unresolved issues of the latest review cost by docs/evidence-graph.md,
\* 3 points each and 18 at most.  graphHealth has no such penalty.
UnresolvedCost(g) ==
    LET cost == IF g.reviews = << >> THEN 0 ELSE 3 * g.reviews[1].unresolved
    IN  IF cost > 18 THEN 18 ELSE cost

\* The score and the degraded reasons of what was read fit.
Explained(read) ==
    LET top == 100 - When(Overdue(read), 10)
    IN  IF degradedReasons(read) = {}
        THEN graphHealth(read) \in top - UnresolvedCost(read) .. top
        ELSE graphHealth(read) < 100

(* The score and the reasons of a graph tell the same story: with a degraded *)
(* reason it scores less than 100; without one, which the export calls       *)
(* healthy, it scores 100, less 10 when the latest review is more than nine  *)
(* days old, and less at most what the document takes off for the issues     *)
(* that review left unresolved (graphHealth, degradedReasons,                *)
(* writeDegradedState).                                                      *)
HealthIsExplained == [][Answers => \A n \in Narratives : Explained(Joined(n))]_vars

\* Item j is in no way worse than item i.
NoWorse(i, j) ==
    /\ j.status = i.status \/ i.status = "expired"
    /\ j.owner # NoOwner \/ i.owner = NoOwner
    /\ j.refs.control # {} \/ i.refs.control = {}
    /\ j.refs.vendor # {} \/ i.refs.vendor = {}

\* No time passes, no item is created, none gets worse, and the latest review has
\* no more unresolved issues than the latest had before.
Fixed == /\ now' = now
         /\ UnresolvedCost(Live') <= UnresolvedCost(Live)
         /\ Len(tenant'.items) = Len(tenant.items)
         /\ \A i \in DOMAIN tenant.items : NoWorse(tenant.items[i], tenant'.items[i])

(* Doing what the graph asks for never lowers the score: replacing expired   *)
(* evidence, naming an owner, mapping, refreshing, exporting a proofpack, or *)
(* a review that finds no more issues than the last (nextActions,            *)
(* graphHealth).                                                             *)
FixNeverHurts == [][Fixed => graphHealth(Live') >= graphHealth(Live)]_vars
=============================================================================
