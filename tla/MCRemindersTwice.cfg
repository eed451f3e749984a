\* The cron job may stop calling, and the bounds stop the clock: the system may stop.
CHECK_DEADLOCK FALSE
SPECIFICATION Spec
CONSTANTS
    r1 = r1
    r2 = r2
    certificate = certificate
    policy = policy
    Runs = {r1, r2}
    Items = {certificate, policy}
    Expiry <- Expiries
    RemindBefore = 2
    LastTick = 3
    MaxCalls = 2
    MaxCrashes = 0
    MaxFailures = 0
INVARIANTS
    Idempotent
