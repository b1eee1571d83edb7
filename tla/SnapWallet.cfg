\* A wallet that goes away in the middle of a round.
SPECIFICATION Spec
CONSTANTS
    Requests = {1}
    Orders = {TRUE}
    MaxSessions = 1
    MaxStep = 2
    MaxToggles = 1
PROPERTIES
    NeverEarlierPhase
CHECK_DEADLOCK FALSE
