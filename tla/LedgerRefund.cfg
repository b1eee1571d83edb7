SPECIFICATION Spec
CONSTANTS
    Rounds = {1, 2}
    History = {}
    Funds = 2
    ExtraStakes = {}
    EarlyPlay = FALSE
    LateActions = FALSE
    MaxBets = 2
    MaxTroubles = 1
INVARIANT EndedRoundsClose
CHECK_DEADLOCK FALSE
