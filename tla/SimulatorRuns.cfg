\* Every part with its interesting cases: three calls with one failure of the
\* node, two rounds in the ledger with two troubles, with calls that give up or
\* with a restart, two files edited twice, three boots.
SPECIFICATION AllSpec
CONSTANTS
    Parts = {"queue", "ledger", "lost", "restart", "node", "page"}
    Calls = {1, 2, 3}
    Wagers = {1, 2}
    Remembered = 2
    MaxSessions = 1
    MaxStep = 3
    MaxFaults = 1
    Revisions = {"edited", "broken", "pair"}
    MaxEdits = 2
    MaxDeployments = 3
    MaxBoots = 3
    MaxPolls = 2
    MaxStarts = 1
    Rounds = {1, 2}
    History = {1}
    Funds = 2
    ExtraStakes = {0, 1}
    MaxBets = 3
    MaxTroubles = 2
INVARIANTS
    OwnAllowance
    ReadYourWrites
    NeverOverstated
    PlayedRoundsClose
    DisplaysTheChain
    NodeIsUpToDate
    OneLiveRuntime
PROPERTIES
    LastGoodStays
    SimulatorSettles
CHECK_DEADLOCK FALSE
