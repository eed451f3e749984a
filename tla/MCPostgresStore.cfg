\* Calls are bounded, and a store without connections waits for ever.
CHECK_DEADLOCK FALSE
SPECIFICATION FairSpec
CONSTANTS
    c1 = c1
    c2 = c2
    cert = cert
    policy = policy
    Callers = {c1, c2}
    Keys = {cert, policy}
    Ids <- CallNumbers
    PoolSize = 2
    MaxCalls = 3
    MaxErrors = 2
    MaxCrashes = 1
INVARIANTS
    ToldIsKept
    OneOpen
    DecidedOnce
    AuditOnce
PROPERTIES
    ImplementsLedger
    CallReturns
