\* A coin flip whose randomness is cancelled.
SPECIFICATION GamesSpec
CONSTANTS
    Parts = {"coin"}
    Bets = {1}
    QuickTiers = {"bloom"}
    GrandTiers = {"phoenix"}
    MaxUpsets = 0
    ShownTiers = {"Cascade", "PhoenixFinale"}
    Frames = {1, 5}
    Ascents = {42}
    MaxChanges = 1
INVARIANTS
    RefundIsNoWin
CHECK_DEADLOCK FALSE
