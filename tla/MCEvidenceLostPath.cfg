\* Requests and days are bounded: the system may stop.
CHECK_DEADLOCK FALSE
SPECIFICATION PSpec
CONSTANTS
    r1 = r1
    r2 = r2
    policy = policy
    report = report
    Requests = {r1, r2}
    Names = {policy, report}
    Bodies <- SomeBodies
    ReminderDays = 1
    FreeTierLimit = 1
    MaxItems = 1
    MaxEdits = 1
    MaxUploads = 1
    LastDay = 0
SYMMETRY Symmetry
INVARIANTS
    PathIsLastAttached
