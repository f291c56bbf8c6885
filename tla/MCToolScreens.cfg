SPECIFICATION ToolSpec
CONSTANTS
    UsedScreens = {"control", "explorer", "replay", "recordings", "fleet", "security",
                   "plugins", "compare", "assistant", "sandbox", "export", "learn"}
    Adapters = {"default", "wifi"}
    DefaultAdapter = "default"
    MaxReloads = 1
    RawTerms = {"", "a", "A "}
    Norm <- TermOf
    Categories = {"all"}
    MaxSearches = 1
    Total = 1
    Speeds = {100}
    MaxCalls = 2
    MaxRefused = 1
    Saved <- SavedRecordings
    MaxListings = 2
    Hosts <- ReportedHosts
    MaxSyncs = 3
    Findings <- ReportedFindings
    PluginNames = {"p", "q"}
    Incompatible = {"q"}
    FormPlugin = "p"
    Configs = {"c", "d"}
    BadTexts = {"x"}
    InBrowser = TRUE
    SessionIds = {0, 1, 2, 3}
    RawRtt <- EngineRtt
    RawTtfb <- EngineTtfb
    MaxTurns = 3
    Layers = {"IPv4", "TCP"}
    Presets <- OfferedStacks
    DefaultStack <- FirstStack
    MaxStack = 3
    MaxToasts = 2
    Formats = {"json", "csv"}
    PayloadLevels = {"metadata_only", "full_payload"}
    MaxPreviews = 2
    Lessons = {"a", "b"}
    Needs <- NeedsOf
    Steps <- StepsOf
    MaxLessonCalls = 2
INVARIANTS
    ToolTypeOK
    BusyHasCause
    ShownIsReal
PROPERTIES
    WorkIsKept
    ToolsSettle
\* A screen at rest whose bounds are used up has no step left.
CHECK_DEADLOCK FALSE
