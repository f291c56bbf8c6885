\* The shell's use of the mirror: every call is made under the store mutex.
SPECIFICATION FairSpec
CONSTANTS
    Clients = {c1}
    Capacity = 2
    MaxRecords = 3
    MaxFlushes = 2
    MaxRefusals = 1
INVARIANTS IInv PromiseKept NoSilentLoss 
PROPERTIES ImplementsWriteBehind EverythingEnds
CHECK_DEADLOCK FALSE
