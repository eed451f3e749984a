SPECIFICATION Spec
CONSTANTS
    ann = ann
    Owners = {ann}
    Statuses = {"active", "expired"}
    Mappings <- SomeMappings
    Narratives = {1}
    Waits <- Days
    NodeCap = 17
    PilotWeeks = 2
    MaxItems = 2
    MaxPacks = 1
    MaxReviews = 2
    MaxChanges = 4
    MaxPasses = 1
INVARIANTS
    TypeOK
PROPERTIES
    EndsExist
    HealthIsExplained
    FixNeverHurts
