SPECIFICATION FairSpec
CONSTANTS
    evidence = evidence
    files = files
    sent = sent
    c1 = c1
    c2 = c2
    Files = {evidence, files, sent}
    Callers = {c1, c2}
    WriteSets <- AttachOrUpdate
    Marked = {sent}
    MaxChanges = 2
    MaxErrors = 1
    MaxCrashes = 2
    MaxPowerLosses = 1
INVARIANTS
    FilesWhole
    AckedDurable
    CleanWhenQuiet
PROPERTIES
    StableRead
    DiskForward
    Refinement
    CallReturns
