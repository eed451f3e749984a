\* Requests and the clock are bounded: the system may stop.
CHECK_DEADLOCK FALSE
SPECIFICATION Spec
CONSTANTS
    acme = acme
    p1 = p1
    p2 = p2
    Tenants = {acme}
    Procs = {p1, p2}
    Kinds = {"review.snapshot.generated", "evidence.created", "reminders.run"}
    LastTick = 2
    MaxRequests = 3
    MaxFaults = 2
    MaxCrashes = 2
SYMMETRY Symmetry
INVARIANTS
    EventsInOrder
    SecondAfterFirst
    MilestonesMatchEvents
    AnsweredIsKept
PROPERTIES
    HistoryAppendOnly
    MilestonesStable
