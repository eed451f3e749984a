\* Requests and days are bounded: the system may stop.
CHECK_DEADLOCK FALSE
SPECIFICATION PSpec
CONSTANTS
    r1 = r1
    r2 = r2
    policy = policy
    report = report
    Requests = {r1, r2}
    Names = {policy, report}
    Bodies <- SomeBodies
    ReminderDays = 0
    FreeTierLimit = 2
    MaxItems = 2
    MaxEdits = 1
    MaxUploads = 2
    LastDay = 2
SYMMETRY Symmetry
INVARIANTS
    StatusNotAhead
    PathWasAttached
    AttachedIntact
    PackIsClosed
PROPERTIES
    TimesForward
