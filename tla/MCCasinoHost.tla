----------------------------- MODULE MCCasinoHost -----------------------------
(***************************************************************************)
(* Small instances of CasinoHost for TLC.                                  *)
(***************************************************************************)
EXTENDS CasinoHost, FiniteSetsExt

CONSTANTS
    PlayerFunds,    \* tokens each player is funded with
    VaultFunds      \* tokens the vault is funded with

MCFunding == [a \in Accounts |-> IF a \in Players THEN PlayerFunds
                                 ELSE IF a = Vault THEN VaultFunds ELSE 0]

Result(phase, request, deltas, payouts) ==
    [escrowDelta : deltas, reservedProfitDelta : deltas, nextPhase : {phase},
     requestRandomnessNow : {request}, payout : payouts]

\* Every shape of answer: steps that move the stake and the reserved profit
\* either way, settlements that pay nothing, the stake and more than the cap,
\* and the malformed answers the host has to refuse.
MCStepResults ==
    Result("WAITING_RANDOMNESS", TRUE, {-1, 0, 1}, {0})
      \cup Result("WAITING_PLAYER_ACTION", FALSE, {-1, 0, 1}, {0})
      \cup Result("SETTLED", FALSE, {-1, 0, 1}, 0..3)
      \cup Result("WAITING_RANDOMNESS", FALSE, {0}, {0})
      \cup Result("WAITING_PLAYER_ACTION", TRUE, {0}, {0})
      \cup Result("SETTLED", TRUE, {0}, {1})
      \cup Result("NONE", FALSE, {0}, {0})

\* The shapes real games use: reserve at the start, release by settling.
SmallStepResults ==
    [escrowDelta : {0}, reservedProfitDelta : {0, 1},
     nextPhase : {"WAITING_RANDOMNESS"}, requestRandomnessNow : {TRUE}, payout : {0}]
      \cup [escrowDelta : {0, 1}, reservedProfitDelta : {0, 1},
            nextPhase : {"WAITING_PLAYER_ACTION"}, requestRandomnessNow : {FALSE},
            payout : {0}]
      \cup Result("SETTLED", FALSE, {0}, {0, 2})

\* One cap above the stake, one the codec refuses to encode, one below the
\* wager and one with an impossible risk figure.
MCQuotes ==
    {[maxEscrowStake |-> 2, maxReservedProfit |-> 1, riskOk |-> TRUE],
     [maxEscrowStake |-> 9, maxReservedProfit |-> 1, riskOk |-> TRUE],
     [maxEscrowStake |-> 0, maxReservedProfit |-> 1, riskOk |-> TRUE],
     [maxEscrowStake |-> 2, maxReservedProfit |-> 1, riskOk |-> FALSE]}
SmallQuotes == {[maxEscrowStake |-> 2, maxReservedProfit |-> 1, riskOk |-> TRUE]}

\* Bound of a run: what others do to the registries and the token is combined
\* with the first step of a session, in the first blocks.
PlayersTokens(a) ==
    Funding[a] + MapThenSumSet(LAMBDA sid : flows[sid].toPlayer - flows[sid].fromPlayer,
                               SessionIds)
OthersAreSmall ==
    \/ /\ adminVars = <<DeployedGames, {}, Deployer>>
       /\ minted = 0
       /\ \A p \in Players : balance[p] = PlayersTokens(p)
    \/ /\ block <= 1
       /\ \A snapshot \in advanced : snapshot.step <= 1
       /\ Cardinality({v \in {"games", "operators", "default", "minted"} :
              CASE v = "games" -> gameNames # DeployedGames
                [] v = "operators" -> isOperator # {}
                [] v = "default" -> defaultOperator # Deployer
                [] v = "minted" -> minted > 0}) <= 1
=============================================================================
