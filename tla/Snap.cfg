\* A session of several steps on a chain that may have one already: its logs in
\* order, or, while the sliders move, overtaking each other, and then the
\* wallet may go away, too.
SPECIFICATION Spec
CONSTANTS
    Requests = {1}
    Orders = {TRUE, FALSE}
    MaxSessions = 1
    MaxStep = 3
    MaxToggles = 1
CONSTRAINT OneThingAtATime
INVARIANTS
    OneItemPerSession
    Converges
    RequestsMatch
PROPERTIES
    LiveBetNeverFails
    PublishedStays
    NoStepBack
CHECK_DEADLOCK FALSE
