SPECIFICATION Spec
CONSTANTS
    Ips = {1, 2, 3}
    HintedIps = {2}
    Names = {n}
    WireSources = {Dns}
    HintSources = {HostsFile, OsResolver}
    MAX_RESOLUTIONS = 2
    MaxCaptures = 2
    MaxWorkers = 2
INVARIANTS
    OneWorker
    NamesAreKept
\* The last capture of the bound is over.
CHECK_DEADLOCK FALSE
