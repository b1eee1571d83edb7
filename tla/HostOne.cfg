\* One session, game answers of every shape, the malformed ones included, and
\* what others do to the registries and the token meanwhile.
SPECIFICATION Spec
CONSTANTS
    Players = {p1}
    Games = {g1, g2}
    DeployedGames = {g1}
    Operators = {o1}
    PlayerFunds = 2
    VaultFunds = 2
    Funding <- MCFunding
    Deployer = deployer
    NoCommitment = NoCommitment
    Wagers = {0, 1}
    Quotes <- MCQuotes
    StepResults <- MCStepResults
    ForfeitQuotes = {0, 2, 9}
    MintAmounts = {1}
    ApproveAmounts = {2}
    TransferAmounts = {1}
    ActionTimeout = 1
    RandomnessTimeout = 0
    MaxUint128 = 4
    MaxUint256 = 7
    MaxSessions = 1
    MaxSteps = 3
    MaxBlock = 2
    MaxMinted = 1
CONSTRAINT OthersAreSmall
INVARIANTS
    SessionConserves
    RiskWithinQuote
    ClosedOnce
    StepsWithoutGap
    RequestOfLastStep
    IndInv
PROPERTIES
    ClosedForever
