\* Two sessions of two players at once, sharing the host's and the vault's
\* balance; the vault covers the reserved profit of one of them.
SPECIFICATION Spec
CONSTANTS
    Players = {p1, p2}
    Games = {g1}
    DeployedGames = {g1}
    Operators = {}
    Deployer = deployer
    NoCommitment = NoCommitment
    PlayerFunds = 2
    VaultFunds = 1
    Funding <- MCFunding
    Wagers = {1}
    Quotes <- SmallQuotes
    StepResults <- SmallStepResults
    ForfeitQuotes = {2}
    MintAmounts = {}
    ApproveAmounts = {7}
    TransferAmounts = {}
    ActionTimeout = 0
    RandomnessTimeout = 0
    MaxUint128 = 4
    MaxUint256 = 7
    MaxSessions = 2
    MaxSteps = 2
    MaxBlock = 1
    MaxMinted = 0
INVARIANTS
    HostSolvent
PROPERTIES
    EscrowRefinement
    OnlyThePlayerPays
