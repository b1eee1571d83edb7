\* The timestamp of a block may fail to be read as well.
SPECIFICATION Spec
CONSTANTS
    Lags = {0}
    Faults = {"block"}
    MaxBlock = 1
    MaxLogs = 1
    MaxFaults = 1
    MaxLagChanges = 0
INVARIANTS
    NothingLost
CHECK_DEADLOCK FALSE
