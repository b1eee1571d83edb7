\* Every part with its interesting cases: two bets with a reload or a click in
\* the frame, all tiers of the show with slow frames, both faces of a coin.
SPECIFICATION GamesSpec
CONSTANTS
    Parts = {"ember", "burst", "coin", "fairness", "numbers"}
    Bets = {1, 2}
    QuickTiers = {"bloom"}
    GrandTiers = {"phoenix"}
    MaxUpsets = 1
    ShownTiers = {"Fizzle", "Cascade", "PhoenixFinale"}
    Frames = {1, 5}
    Ascents = {42}
    MaxChanges = 2
INVARIANTS
    OneBetAtATime
    RevealedByTheAnimation
    FrameCatchesUp
    ShowIsWhole
    CoinsTellTheTruth
    NothingIsGivenAway
    VerdictsAreFair
    NumbersAgree
PROPERTIES
    WinHasItsCard
    ShowsEnd
CHECK_DEADLOCK FALSE
