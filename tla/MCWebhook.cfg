SPECIFICATION FairSpec
CONSTANTS
    h1 = h1
    h2 = h2
    e1 = e1
    e2 = e2
    Events = {e1, e2}
    Handlers = {h1, h2}
    MaxErrors = 2
    MaxCrashes = 2
INVARIANTS
    ProcessedOnce
    AckedIsDurable
    GapsHaveCause
PROPERTIES
    EventuallyAcked
