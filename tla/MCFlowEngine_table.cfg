SPECIFICATION FairSpec
CONSTANTS
    TcpKeys = {"web"}
    UdpKeys = {"dns"}
    Ips = {"other", "site"}
    Names = {}
    Lo <- LoOf
    Hi <- HiOf
    Segments <- AllSegments
    UdpIdle = 1
    LineageWindow = 1
    MaxTime = 1
    MaxFlows = 2
    MaxEvents = 1
INVARIANTS TypeOK FlowIdentity DeliveredOnce
PROPERTIES EndIsFinal ClosedIsRecorded
\* The capture ends.
CHECK_DEADLOCK FALSE
