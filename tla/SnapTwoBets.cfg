\* A bet that is placed while another one is being indexed.
SPECIFICATION Spec
CONSTANTS
    Requests = {1, 2}
    Orders = {TRUE}
    MaxSessions = 2
    MaxStep = 1
    MaxToggles = 0
PROPERTIES
    NeverBackToIdle
CHECK_DEADLOCK FALSE
