SPECIFICATION Spec
CONSTANTS
    max_flows = 2
    max_sessions = 1
    MaxCaptures = 2
    MaxFlowIds = 3
    MaxSessionIds = 2
    MaxRefs = 1
    MaxClock = 1
    Eventful = {1, 3}
INVARIANTS TypeOK EvidenceResolves EvictionIsClean HydrationIsWhole
PROPERTIES RetentionIsFair
