\* One show of the finale.
SPECIFICATION GamesSpec
CONSTANTS
    Parts = {"burst"}
    Bets = {1}
    QuickTiers = {"bloom"}
    GrandTiers = {"phoenix"}
    MaxUpsets = 0
    ShownTiers = {"Cascade", "PhoenixFinale"}
    Frames = {1, 5}
    Ascents = {42}
    MaxChanges = 1
PROPERTIES
    HesitationBeat
CHECK_DEADLOCK FALSE
