\* Requests and the clock are bounded: the system may stop.
CHECK_DEADLOCK FALSE
SPECIFICATION Spec
CONSTANTS
    policies = policies
    certificate = certificate
    ann = ann
    Groups = {policies, certificate}
    Size <- Sizes
    Owners = {ann}
    Statuses = {"active", "expired"}
    Steps <- Waits
    MaxPasses = 2
    MaxChanges = 2
    MaxReviews = 3
    MaxPacks = 3
INVARIANTS
    UnchangedNeverImproves
PROPERTIES
    StageNeverFalls
    MissedBreaksStreak
