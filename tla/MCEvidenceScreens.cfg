SPECIFICATION EvidenceSpec
CONSTANTS
    Instants = {1, 2, 3}
    MaxFeed = 2
    MaxSamples = 2
    SeqModulus = 2
    Feeds <- PossibleFeeds
    EngineDiagnoses <- PossibleDiagnoses
    SearchWords = {"", "x"}
    MaxRetries = 1
    Counts = {0, 1, 3}
    MaxPoints = 3
    MaxKept = 4
    StripHops = {"device", "dns"}
    Quiet = {"device"}
    StripTargets = {"t"}
    MaxStripProbes = 2
    Screens = {"dashboard", "timeline", "journey", "apps"}
    Refs <- FollowedRefs
    EventPool <- PossibleEvents
    SearchTerms = {"", "dns"}
    StagesOf <- StageCounts
    ReadingDepths = {"basic", "expert"}
    MaxAsks = 2
    FlowDest <- Endpoints
    Owners <- NamedAlike
    NameInside <- InsideNames
    AppTerms = {"", "flow"}
    MaxVisible = 1
    Snapshots <- PossibleSnapshots
    Hops <- ChainHops
    Probeable = {"dns"}
    TypedTargets = {"", "bad", "t"}
    GoodTargets = {"t"}
    Processes = {"p", "q"}
    MaxHistory = 2
    PageSize = 1
    MaxMounts = 2
    Tiers = {"default"}
    Sources = {"live", "simulated"}
    MaxRuns = 4
    Targets = {"a", "bad"}
    ValidTargets = {"a"}
INVARIANTS
    EvidenceTypeOK
    WaitHasCause
    ShownBelongsTogether
    ConclusionsAreEvidenced
PROPERTY
    ReaderIsFollowed
\* An analysis that has concluded is over, and so is a screen whose bounds are used up.
CHECK_DEADLOCK FALSE
