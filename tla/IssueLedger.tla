----------------------------- MODULE IssueLedger -----------------------------
(* What AdjudicationService (internal/operations/adjudication.go) promises   *)
(* its callers, with nothing of the store below it: no locks, transactions,  *)
(* connections or retries.  An issue is open from EnsureIssue to             *)
(* ResolveIssue, and the decision is recorded in the step that resolves it.  *)
EXTENDS Naturals

CONSTANTS Ids,    \* the issue IDs id.New() may give
          Keys    \* what an issue is about: an evidence item and a type

VARIABLES status,    \* [Ids -> {"none", "open", "resolved"}]
          key,       \* [Ids -> Keys]
          decisions  \* [Ids -> Nat] the adjudication events of each issue

lvars == <<status, key, decisions>>

OpenOn(k) == {i \in Ids : status[i] = "open" /\ key[i] = k}

LInit == /\ status = [i \in Ids |-> "none"]
         /\ key \in [Ids -> Keys]
         /\ decisions = [i \in Ids |-> 0]

\* EnsureIssue finds no open issue of this key and files one.
File(i, k) == /\ status[i] = "none"
              /\ OpenOn(k) = {}
              /\ status' = [status EXCEPT ![i] = "open"]
              /\ key' = [key EXCEPT ![i] = k]
              /\ UNCHANGED decisions

\* ResolveIssue: the issue and its event in one step, and only once.
Resolve(i) == /\ status[i] = "open"
              /\ status' = [status EXCEPT ![i] = "resolved"]
              /\ decisions' = [decisions EXCEPT ![i] = @ + 1]
              /\ UNCHANGED key

LNext == \E i \in Ids : Resolve(i) \/ \E k \in Keys : File(i, k)

LSpec == LInit /\ [][LNext]_lvars

(* There is at most one open issue of a key, and an issue has its decision   *)
(* exactly when it is resolved (EnsureIssue, ResolveIssue).                  *)
LInv == /\ status \in [Ids -> {"none", "open", "resolved"}]
        /\ key \in [Ids -> Keys]
        /\ decisions \in [Ids -> {0, 1}]
        /\ \A k \in Keys : \A i, j \in OpenOn(k) : i = j
        /\ \A i \in Ids : decisions[i] = 1 <=> status[i] = "resolved"
=============================================================================
