----------------------------- MODULE Adjudication -----------------------------
(* internal/operations/adjudication.go: the functions EnsureIssue and        *)
(* ResolveIssue hand to Store.Write.  A state st has the two maps they use,  *)
(* UnresolvedIssues (status and key of each issue ID) and AdjudicationEvents *)
(* (how many events name each issue), of one tenant.  What becomes of the    *)
(* new state is the store's business (PostgresStore).                        *)
EXTENDS Naturals

CONSTANTS Ids,    \* the issue IDs that occur, from id.New()
          Keys    \* an evidence item and the type of its issue

Issues == [status : [Ids -> {"none", "open", "resolved"}], key : [Ids -> Keys],
           decisions : [Ids -> Nat]]

\* The tenant's issues before the first EnsureIssue; an unused ID has any key.
NoIssues(k) == [status |-> [i \in Ids |-> "none"], key |-> [i \in Ids |-> k],
                decisions |-> [i \in Ids |-> 0]]

OpenIssues(st, k) == {i \in Ids : st.status[i] = "open" /\ st.key[i] = k}

\* Mutant of EnsureIssue: it files without a search.
EnsureIssueAlways(st, i, k) ==
    [st EXCEPT !.status[i] = "open", !.key[i] = k]

\* The state after EnsureIssue with the fresh ID i: an open issue is kept.
EnsureIssue(st, i, k) ==
    IF OpenIssues(st, k) # {} THEN st
    ELSE [st EXCEPT !.status[i] = "open", !.key[i] = k]

\* The ID it returns.
Ensured(st, i, k) ==
    IF OpenIssues(st, k) # {} THEN CHOOSE j \in OpenIssues(st, k) : TRUE ELSE i

\* "not found" and "already resolved" are errors, before anything changes.
Refused(st, i) == st.status[i] # "open"

\* Mutant of ResolveIssue: a new issue replaces the one that was resolved.
ResolveIssueReopens(st, i) ==
    [st EXCEPT !.status[i] = "open", !.decisions[i] = @ + 1]

\* The state after ResolveIssue of an open issue.
ResolveIssue(st, i) ==
    [st EXCEPT !.status[i] = "resolved", !.decisions[i] = @ + 1]
=============================================================================
