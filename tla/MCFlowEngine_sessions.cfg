SPECIFICATION Spec
CONSTANTS
    TcpKeys = {}
    UdpKeys = {"dns", "quic"}
    Ips = {"other", "site"}
    Names = {"a", "b"}
    Lo <- LoOf
    Hi <- HiOf
    Segments <- OnlyData
    UdpIdle = 1
    LineageWindow = 0
    MaxTime = 1
    MaxFlows = 3
    MaxEvents = 0
INVARIANTS SessionsAreSound FinishKeepsAll
\* The capture ends.
CHECK_DEADLOCK FALSE
