\* Requests and the clock are bounded: the system may stop.
CHECK_DEADLOCK FALSE
SPECIFICATION Spec
CONSTANTS
    policies = policies
    certificate = certificate
    ann = ann
    Groups = {policies, certificate}
    Size <- Sizes
    Owners = {ann}
    Statuses = {"active", "expired"}
    Steps <- Waits
    MaxPasses = 2
    MaxChanges = 1
    MaxReviews = 1
    MaxPacks = 0
INVARIANTS
    CadenceWarned
