\* Any call may fail, but not forever, and a slider may move.
SPECIFICATION FairSpec
CONSTANTS
    Lags = {0, 1, 2}
    Faults = {"head", "logs", "block"}
    MaxBlock = 2
    MaxLogs = 3
    MaxFaults = 2
    MaxLagChanges = 1
INVARIANTS
    NoDuplicate
    ChannelsAgree
    ChainOrder
PROPERTIES
    QuietAfterStop
    EventuallyIndexed
CHECK_DEADLOCK FALSE
