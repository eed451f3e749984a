SPECIFICATION Spec
CONSTANTS
    h1 = h1
    h2 = h2
    e1 = e1
    e2 = e2
    Events = {e1}
    Handlers = {h1}
    MaxErrors = 0
    MaxCrashes = 1
INVARIANTS
    AckedIsAudited
