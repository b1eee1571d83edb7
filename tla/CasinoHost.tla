------------------------------ MODULE CasinoHost ------------------------------
(***************************************************************************)
(* The on-chain half of the simulator: LocalCasinoHost.sol with its vault, *)
(* the chUSD token of LocalTestToken.sol, and two external parties, the    *)
(* Verify Network router and the game contract.                            *)
(*                                                                         *)
(* The host never stores a session.  It keeps the hash of the encoded      *)
(* snapshot, emits the snapshot, and takes it back as calldata from the    *)
(* player, the keeper or the router.  The hash is injective, so a          *)
(* commitment is modelled by the snapshot it commits to; what a caller can *)
(* hand back is any snapshot emitted so far, a stale one included.         *)
(*                                                                         *)
(* Every action is one successful transaction.  A transaction that reverts *)
(* changes nothing and is the absence of a step; the one revert with an    *)
(* effect, a randomness callback that fails inside the router's            *)
(* transaction, is the action RandomnessCallbackReverts.                   *)
(***************************************************************************)
EXTENDS Integers, Sequences, Functions

CONSTANTS
    Players,            \* externally owned accounts that open sessions
    Games,              \* addresses of game contracts
    Operators,          \* addresses that can be registered as operators
    Deployer,           \* the account that deploys the host
    Wagers,             \* wagers the players try
    Quotes,             \* what quoteCaps and quoteRiskParams may answer
    StepResults,        \* what a game callback may answer
    ForfeitQuotes,      \* what quoteForfeitPayout may answer, 0 for a failed call
    DeployedGames,      \* games the deployment script registers
    Funding,            \* balances minted by the deployment script
    MintAmounts,        \* amounts minted on the open faucet afterwards
    ApproveAmounts,     \* allowances the players grant the host
    TransferAmounts,    \* amounts of token transfers outside the host
    ActionTimeout,      \* ACTION_TIMEOUT_BLOCKS
    RandomnessTimeout,  \* RANDOMNESS_TIMEOUT_BLOCKS
    MaxUint128,         \* the widest amount the session codec encodes
    MaxUint256,         \* the unlimited allowance
    MaxSessions,        \* bound: sessions opened
    MaxSteps,           \* bound: steps of a session (uint32 in the code)
    MaxBlock,           \* bound: height of the chain
    MaxMinted,          \* bound: tokens minted after the deployment
    NoCommitment        \* bytes32(0)

Host == "host"
Vault == "vault"
Anyone == "anyone"
Accounts == Players \cup {Host, Vault}
SessionIds == 1..MaxSessions

Phases == {"NONE", "WAITING_RANDOMNESS", "WAITING_PLAYER_ACTION",
           "SETTLED", "FORFEITED", "CANCELLED"}
OpenPhases == {"WAITING_RANDOMNESS", "WAITING_PLAYER_ACTION"}
IsTerminalPhase(phase) == phase \in {"SETTLED", "FORFEITED", "CANCELLED"}

(***************************************************************************)
(* The snapshot.  The vault and the token are the host's own, gameData and *)
(* gameState are opaque to the host, the risk figures are only recorded.   *)
(***************************************************************************)
Session ==
    [sessionId : SessionIds, player : Players, game : Games,
     operator : Operators \cup {Deployer},
     escrowedStake : Nat, reservedProfit : Nat,
     maxEscrowStake : Nat, maxReservedProfit : Nat,
     deadlineBlock : Nat, step : Nat, phase : Phases]

StepResult ==
    [escrowDelta : Int, reservedProfitDelta : Int, nextPhase : Phases,
     requestRandomnessNow : BOOLEAN, payout : Nat]

Quote == [maxEscrowStake : Nat, maxReservedProfit : Nat, riskOk : BOOLEAN]

ASSUME PlayersAssumption ==
    /\ Host \notin Players
    /\ Vault \notin Players
    /\ Anyone \notin Players
ASSUME BoundsAssumption ==
    /\ MaxSessions \in Nat
    /\ MaxSteps \in Nat
    /\ MaxBlock \in Nat
    /\ MaxMinted \in Nat
    /\ MaxUint128 \in Nat
    /\ MaxUint256 \in Nat
    /\ ActionTimeout \in Nat
    /\ RandomnessTimeout \in Nat
ASSUME InputsAssumption ==
    /\ DeployedGames \subseteq Games
    /\ Funding \in [Accounts -> Nat]
    /\ Wagers \subseteq Nat
    /\ Quotes \subseteq Quote
    /\ StepResults \subseteq StepResult
    /\ ForfeitQuotes \subseteq Nat
    /\ MintAmounts \subseteq Nat
    /\ ApproveAmounts \subseteq 0..MaxUint256
    /\ TransferAmounts \subseteq Nat
ASSUME NoCommitmentAssumption == NoCommitment \notin Session

VARIABLES
    block,              \* block.number
    currentSessionId,   \* the last session id given out
    commitments,        \* sessionCommitments
    gameNames,          \* the games with a non-empty name
    isOperator,         \* the registered operators
    defaultOperator,
    minted,             \* tokens minted since the deployment
    balance,            \* balanceOf
    allowance,          \* allowance[owner][host]
    requests,           \* router: client data of unanswered requests
    advanced,           \* snapshots emitted by CasinoSessionAdvanced
    settlements,        \* CasinoSessionSettled events of each session
    flows,              \* history: tokens each session has moved
    caller              \* history: msg.sender of the last transaction; Anyone
                        \* stands for those whose code does not look at it

chainVars == <<block, currentSessionId>>
adminVars == <<gameNames, isOperator, defaultOperator>>
tokenVars == <<minted, balance, allowance>>
sessionVars == <<commitments, requests, advanced, settlements, flows>>
vars == <<chainVars, adminVars, tokenVars, sessionVars, caller>>

(***************************************************************************)
(* What a session has moved so far and the caps it was opened under.       *)
(***************************************************************************)
Flow == [fromPlayer : Nat, toPlayer : Nat, fromVault : Nat, toVault : Nat,
         maxEscrowStake : Nat, maxReservedProfit : Nat]
NoFlowUnder(maxEscrowStake, maxReservedProfit) ==
    [fromPlayer |-> 0, toPlayer |-> 0, fromVault |-> 0, toVault |-> 0,
     maxEscrowStake |-> maxEscrowStake, maxReservedProfit |-> maxReservedProfit]
NoFlow == NoFlowUnder(0, 0)

Init ==
    /\ block = 0
    /\ currentSessionId = 0
    /\ commitments = [sid \in SessionIds |-> NoCommitment]
    /\ gameNames = DeployedGames
    /\ isOperator = {}
    /\ defaultOperator = Deployer
    /\ minted = 0
    /\ balance = Funding
    /\ allowance = [a \in Players \cup {Vault} |->
                        IF a = Vault THEN MaxUint256 ELSE 0]
    /\ requests = {}
    /\ advanced = {}
    /\ settlements = [sid \in SessionIds |-> <<>>]
    /\ flows = [sid \in SessionIds |-> NoFlow]
    /\ caller = Anyone

-----------------------------------------------------------------------------
(***************************************************************************)
(* The token                                                               *)
(***************************************************************************)

\* _transfer: one balance falls by what the other gains.
Moved(b, from, to, amount) == [b EXCEPT ![from] = @ - amount, ![to] = @ + amount]

\* The two checks of transferFrom, and the allowance it leaves.
CanPull(b, al, owner, amount) == al[owner] >= amount /\ b[owner] >= amount
Spent(al, owner, amount) ==
    IF al[owner] = MaxUint256 THEN al ELSE [al EXCEPT ![owner] = @ - amount]

Mint(to, amount) ==
    /\ caller' = Anyone
    /\ minted + amount <= MaxMinted
    /\ minted' = minted + amount
    /\ balance' = [balance EXCEPT ![to] = @ + amount]
    /\ UNCHANGED <<allowance, chainVars, adminVars, sessionVars>>

Approve(player, amount) ==
    /\ caller' = player
    /\ allowance' = [allowance EXCEPT ![player] = amount]
    /\ UNCHANGED <<minted, balance, chainVars, adminVars, sessionVars>>

\* A transfer the host has no part in; anyone may also send it tokens.
Transfer(from, to, amount) ==
    /\ caller' = from
    /\ balance[from] >= amount
    /\ balance' = Moved(balance, from, to, amount)
    /\ UNCHANGED <<minted, allowance, chainVars, adminVars, sessionVars>>

-----------------------------------------------------------------------------
(***************************************************************************)
(* Registries, all permissionless in the harness.  An empty name takes a   *)
(* game off the list again.                                                *)
(***************************************************************************)

RegisterGame(game, named) ==
    /\ caller' = Anyone
    /\ gameNames' = IF named THEN gameNames \cup {game} ELSE gameNames \ {game}
    /\ UNCHANGED <<isOperator, defaultOperator, chainVars, tokenVars, sessionVars>>

SetOperator(operator, registered) ==
    /\ caller' = Anyone
    /\ isOperator' = IF registered THEN isOperator \cup {operator}
                                   ELSE isOperator \ {operator}
    /\ UNCHANGED <<gameNames, defaultOperator, chainVars, tokenVars, sessionVars>>

SetDefaultOperator(operator) ==
    /\ caller' = Anyone
    /\ defaultOperator' = operator
    /\ UNCHANGED <<gameNames, isOperator, chainVars, tokenVars, sessionVars>>

ResolveOperator(requested) ==
    IF requested \in isOperator THEN requested ELSE defaultOperator

-----------------------------------------------------------------------------
(***************************************************************************)
(* The money a transaction has moved so far: the token's balances and      *)
(* allowances and the flow of the session the transaction is about.        *)
(***************************************************************************)

Money(f) == [balance |-> balance, allowance |-> allowance, flow |-> f]

Added(f, fromPlayer, toPlayer, fromVault, toVault) ==
    [fromPlayer |-> f.fromPlayer + fromPlayer, toPlayer |-> f.toPlayer + toPlayer,
     fromVault |-> f.fromVault + fromVault, toVault |-> f.toVault + toVault,
     maxEscrowStake |-> f.maxEscrowStake, maxReservedProfit |-> f.maxReservedProfit]

\* transferFrom(player, host, amount)
Pulled(m, player, amount) ==
    [balance |-> Moved(m.balance, player, Host, amount),
     allowance |-> Spent(m.allowance, player, amount),
     flow |-> Added(m.flow, amount, 0, 0, 0)]

\* transfer(player, amount)
Refunded(m, player, amount) ==
    [balance |-> Moved(m.balance, Host, player, amount),
     allowance |-> m.allowance,
     flow |-> Added(m.flow, 0, amount, 0, 0)]

\* Mutant: winnings come out of the host's pooled balance.
PaidOutOfPool(m, player, payoutFromEscrow, payoutFromVault, escrowToVault) ==
    [balance |-> Moved(Moved(m.balance, Host, player, payoutFromEscrow + payoutFromVault),
                       Host, Vault, escrowToVault),
     allowance |-> m.allowance,
     flow |-> Added(m.flow, 0, payoutFromEscrow + payoutFromVault,
                   payoutFromVault, escrowToVault)]

\* The three transfers that close a session: stake and winnings to the
\* player, what is left of the stake to the vault.
PaidOut(m, player, payoutFromEscrow, payoutFromVault, escrowToVault) ==
    [balance |-> Moved(Moved(Moved(m.balance, Host, player, payoutFromEscrow),
                             Vault, player, payoutFromVault),
                       Host, Vault, escrowToVault),
     allowance |-> m.allowance,
     flow |-> Added(m.flow, 0, payoutFromEscrow + payoutFromVault,
                   payoutFromVault, escrowToVault)]

Book(sid, m) ==
    /\ balance' = m.balance
    /\ allowance' = m.allowance
    /\ flows' = [flows EXCEPT ![sid] = m.flow]

-----------------------------------------------------------------------------
(***************************************************************************)
(* The session machine                                                     *)
(***************************************************************************)

\* Mutant: the hash of the bytes is not compared with the commitment.
LoadsIssued(s) == s \in advanced

\* _loadSession: the bytes handed back must hash to the commitment.
Loads(s) ==
    /\ s \in advanced
    /\ commitments[s.sessionId] = s

\* The range checks of the codec that a session can fail.
Encodable(s) == s.maxEscrowStake <= MaxUint128 /\ s.maxReservedProfit <= MaxUint128

\* Encode the snapshot, commit to it and emit it.
Commit(s) ==
    /\ Encodable(s)
    /\ commitments' = [commitments EXCEPT ![s.sessionId] = s]
    /\ advanced' = advanced \cup {s}
    /\ UNCHANGED settlements

FinalizeSession(s, terminalPhase, payout, m) ==
    LET payoutFromEscrow == IF payout > s.escrowedStake THEN s.escrowedStake ELSE payout
        payoutFromVault == payout - payoutFromEscrow
        escrowToVault == s.escrowedStake - payoutFromEscrow
    IN  /\ payout <= s.escrowedStake + s.reservedProfit
        /\ s.escrowedStake <= m.balance[Host]
        /\ CanPull(m.balance, m.allowance, Vault, payoutFromVault)
        /\ commitments' = [commitments EXCEPT ![s.sessionId] = NoCommitment]
        /\ settlements' = [settlements EXCEPT ![s.sessionId] =
                              Append(@, [phase |-> terminalPhase, payout |-> payout])]
        /\ Book(s.sessionId, PaidOut(m, s.player, payoutFromEscrow,
                                     payoutFromVault, escrowToVault))
        /\ UNCHANGED advanced

\* The checks of _applyStepDeltas, the token's included.
CanApplyStepDeltas(s, r, allowEscrowIncrease, m) ==
    /\ r.escrowDelta > 0 =>
           /\ allowEscrowIncrease
           /\ CanPull(m.balance, m.allowance, s.player, r.escrowDelta)
    /\ r.escrowDelta < 0 =>
           /\ s.escrowedStake + r.escrowDelta >= 0
           /\ m.balance[Host] >= -r.escrowDelta
    /\ s.reservedProfit + r.reservedProfitDelta >= 0

\* Mutant: the step is not counted.
SteppedUncounted(s, r) ==
    [s EXCEPT !.escrowedStake = @ + r.escrowDelta,
              !.reservedProfit = @ + r.reservedProfitDelta]

\* The session after the deltas of r, one step further.
Stepped(s, r) ==
    [s EXCEPT !.escrowedStake = @ + r.escrowDelta,
              !.reservedProfit = @ + r.reservedProfitDelta,
              !.step = @ + 1]

StepMoney(s, r, m) ==
    IF r.escrowDelta > 0 THEN Pulled(m, s.player, r.escrowDelta)
                         ELSE Refunded(m, s.player, -r.escrowDelta)

\* Mutant: the cap on the reserved profit is not enforced.
WithinEscrowCap(s) == s.escrowedStake <= s.maxEscrowStake

WithinCaps(s) ==
    /\ s.escrowedStake <= s.maxEscrowStake
    /\ s.reservedProfit <= s.maxReservedProfit

\* The session waits in the given phase until the deadline.
Waiting(s, phase, deadline) ==
    [s EXCEPT !.phase = phase, !.deadlineBlock = deadline]

\* _processStepResult.  m is the money moved before the step; unanswered is
\* what the router still has open once this transaction is done with it.
ProcessStepResult(s, r, allowEscrowIncrease, m, unanswered) ==
    LET next == Stepped(s, r)
        paid == StepMoney(s, r, m)
        waiting(timeout) == Waiting(next, r.nextPhase, block + timeout)
    IN  /\ CanApplyStepDeltas(s, r, allowEscrowIncrease, m)
        /\ WithinCaps(next)
        /\ next.step <= MaxSteps
        /\ \/ /\ r.nextPhase = "WAITING_RANDOMNESS"
              /\ r.requestRandomnessNow
              /\ Commit(waiting(RandomnessTimeout))
              /\ requests' = unanswered \cup {waiting(RandomnessTimeout)}
              /\ Book(s.sessionId, paid)
           \/ /\ r.nextPhase = "WAITING_PLAYER_ACTION"
              /\ ~r.requestRandomnessNow
              /\ Commit(waiting(ActionTimeout))
              /\ requests' = unanswered
              /\ Book(s.sessionId, paid)
           \/ /\ IsTerminalPhase(r.nextPhase)
              /\ ~r.requestRandomnessNow
              /\ requests' = unanswered
              /\ FinalizeSession(next, r.nextPhase, r.payout, paid)

-----------------------------------------------------------------------------
(***************************************************************************)
(* Transactions                                                            *)
(***************************************************************************)

OpenSession(player, game, wager, quote, operator, r) ==
    LET session == [sessionId |-> currentSessionId + 1,
                    player |-> player, game |-> game,
                    operator |-> ResolveOperator(operator),
                    escrowedStake |-> wager, reservedProfit |-> 0,
                    maxEscrowStake |-> quote.maxEscrowStake,
                    maxReservedProfit |-> quote.maxReservedProfit,
                    deadlineBlock |-> 0, step |-> 0, phase |-> "NONE"]
        opened == Money(NoFlowUnder(quote.maxEscrowStake, quote.maxReservedProfit))
    IN  /\ caller' = player
        /\ currentSessionId < MaxSessions
        /\ wager > 0
        /\ game \in gameNames
        /\ quote.maxEscrowStake >= wager
        /\ quote.riskOk
        /\ CanPull(balance, allowance, player, wager)
        /\ currentSessionId' = currentSessionId + 1
        /\ ProcessStepResult(session, r, TRUE, Pulled(opened, player, wager), requests)
        /\ UNCHANGED <<block, minted, adminVars>>

\* Mutant: the caller is not compared with the player of the session.
SubmitActionOfAnyone(player, s, r) ==
    /\ caller' = player
    /\ Loads(s)
    /\ s.phase = "WAITING_PLAYER_ACTION"
    /\ block <= s.deadlineBlock
    /\ ProcessStepResult(s, r, TRUE, Money(flows[s.sessionId]), requests)
    /\ UNCHANGED <<chainVars, minted, adminVars>>

SubmitAction(player, s, r) ==
    /\ caller' = player
    /\ Loads(s)
    /\ s.phase = "WAITING_PLAYER_ACTION"
    /\ s.player = player
    /\ block <= s.deadlineBlock
    /\ ProcessStepResult(s, r, TRUE, Money(flows[s.sessionId]), requests)
    /\ UNCHANGED <<chainVars, minted, adminVars>>

\* The router answers the request made with snapshot s.  The host checks no
\* deadline here: a late answer and a cancellation race.
OnRandomnessFulfilled(s, r) ==
    /\ caller' = Anyone
    /\ s \in requests
    /\ Loads(s)
    /\ s.phase = "WAITING_RANDOMNESS"
    /\ ProcessStepResult(s, r, FALSE, Money(flows[s.sessionId]), requests \ {s})
    /\ UNCHANGED <<chainVars, minted, adminVars>>

\* The host or the game rejects the answer; the router has no answer left to
\* give and the host has not changed.
RandomnessCallbackReverts(s) ==
    /\ caller' = Anyone
    /\ s \in requests
    /\ requests' = requests \ {s}
    /\ UNCHANGED <<chainVars, adminVars, tokenVars,
                   commitments, advanced, settlements, flows>>

\* Nine tenths of the cash-out value, which counts no more than the session
\* can pay.
ForfeitPayout(s, quote) ==
    LET maxAllowedPayout == s.escrowedStake + s.reservedProfit
        capped == IF quote > maxAllowedPayout THEN maxAllowedPayout ELSE quote
    IN  (capped * 9000) \div 10000

\* forfeitExpiredSession(s): permissionless.  The batch is this transaction
\* repeated, all or nothing.
ForfeitExpiredSession(s, quote) ==
    /\ caller' = Anyone
    /\ Loads(s)
    /\ s.phase = "WAITING_PLAYER_ACTION"
    /\ block > s.deadlineBlock
    /\ FinalizeSession(s, "FORFEITED", ForfeitPayout(s, quote), Money(flows[s.sessionId]))
    /\ UNCHANGED <<chainVars, minted, adminVars, requests>>

CancelStuckRandomness(s) ==
    /\ caller' = Anyone
    /\ Loads(s)
    /\ s.phase = "WAITING_RANDOMNESS"
    /\ block > s.deadlineBlock
    /\ FinalizeSession(s, "CANCELLED", s.escrowedStake, Money(flows[s.sessionId]))
    /\ UNCHANGED <<chainVars, minted, adminVars, requests>>

Mine ==
    /\ caller' = Anyone
    /\ block < MaxBlock
    /\ block' = block + 1
    /\ UNCHANGED <<currentSessionId, adminVars, tokenVars, sessionVars>>

Next ==
    \/ \E to \in Accounts, amount \in MintAmounts : Mint(to, amount)
    \/ \E player \in Players, amount \in ApproveAmounts : Approve(player, amount)
    \/ \E from \in Players, to \in Accounts, amount \in TransferAmounts :
           Transfer(from, to, amount)
    \/ \E game \in Games, named \in BOOLEAN : RegisterGame(game, named)
    \/ \E operator \in Operators, registered \in BOOLEAN :
           SetOperator(operator, registered)
    \/ \E operator \in Operators : SetDefaultOperator(operator)
    \/ \E player \in Players, game \in Games, wager \in Wagers, quote \in Quotes,
          operator \in Operators \cup {Deployer}, r \in StepResults :
           OpenSession(player, game, wager, quote, operator, r)
    \/ \E player \in Players, s \in advanced, r \in StepResults :
           SubmitAction(player, s, r)
    \/ \E s \in requests, r \in StepResults : OnRandomnessFulfilled(s, r)
    \/ \E s \in requests : RandomnessCallbackReverts(s)
    \/ \E s \in advanced, quote \in ForfeitQuotes : ForfeitExpiredSession(s, quote)
    \/ \E s \in advanced : CancelStuckRandomness(s)
    \/ Mine

Spec == Init /\ [][Next]_vars

-----------------------------------------------------------------------------
(***************************************************************************)
(* Properties                                                              *)
(***************************************************************************)

Settlement == [phase : Phases, payout : Nat]

IsOpen(sid) == commitments[sid] # NoCommitment
IsClosed(sid) == settlements[sid] # <<>>

TypeOK ==
    /\ block \in 0..MaxBlock
    /\ currentSessionId \in 0..MaxSessions
    /\ commitments \in [SessionIds -> Session \cup {NoCommitment}]
    /\ gameNames \subseteq Games
    /\ isOperator \subseteq Operators
    /\ defaultOperator \in Operators \cup {Deployer}
    /\ minted \in 0..MaxMinted
    /\ balance \in [Accounts -> Nat]
    /\ allowance \in [Players \cup {Vault} -> Nat]
    /\ requests \subseteq Session
    /\ advanced \subseteq Session
    /\ settlements \in [SessionIds -> Seq(Settlement)]
    /\ flows \in [SessionIds -> Flow]
    /\ caller \in Players \cup {Anyone}

\* No token appears in or disappears from a session.  While it is open the
\* host holds exactly the player's net payments as its escrow and the vault
\* has not been touched; once it is closed every token that went in has come
\* out, to the player or to the vault.
\* Code: the transfers of _applyStepDeltas, _finalizeSession, _openSession.
SessionConserves ==
    \A sid \in SessionIds :
        LET f == flows[sid] IN
        /\ IsOpen(sid) =>
               /\ commitments[sid].escrowedStake = f.fromPlayer - f.toPlayer
               /\ f.fromVault = 0
               /\ f.toVault = 0
        /\ ~IsOpen(sid) => f.fromPlayer + f.fromVault = f.toPlayer + f.toVault

\* What the host holds covers the stakes of all open sessions together, so
\* that every open session can be cancelled or settled at its stake whatever
\* the others do.  Code: LocalCasinoHost keeps one pooled balance and no
\* per-session account.
HostSolvent ==
    balance[Host] >= SumFunction([sid \in SessionIds |->
                         IF IsOpen(sid) THEN commitments[sid].escrowedStake ELSE 0])

\* Whatever sequence of results the game returns, the vault never loses more
\* on a session than the profit reserved at its opening quote, and the player
\* never more than the quoted stake.  Code: the caps in _processStepResult,
\* the payout bound in _finalizeSession.
RiskWithinQuote ==
    \A sid \in SessionIds :
        LET f == flows[sid] IN
        /\ f.fromVault - f.toVault <= f.maxReservedProfit
        /\ f.fromPlayer - f.toPlayer <= f.maxEscrowStake

\* A session is open or closed, not both, it closes once, and none exists
\* beyond the last id.  A replayed snapshot, a late answer after a
\* cancellation and two closings racing would each break it.
\* Code: _loadSession and the delete in _finalizeSession.
ClosedOnce ==
    \A sid \in SessionIds :
        /\ Len(settlements[sid]) <= 1
        /\ IsOpen(sid) => ~IsClosed(sid)
        /\ (IsOpen(sid) \/ IsClosed(sid)) <=> sid <= currentSessionId

\* The snapshots emitted for a session carry the steps 1, 2, 3, ... without a
\* gap or a repetition, and the commitment is the last of them.  The session
\* store orders and discards events by this number.
\* Code: session.step += 1 before every emit.
StepsWithoutGap ==
    \A sid \in SessionIds :
        LET emitted == {s \in advanced : s.sessionId = sid} IN
        /\ \A s, t \in emitted : s.step = t.step => s = t
        /\ \A s \in emitted : \A k \in 1..s.step : \E t \in emitted : t.step = k
        /\ IsOpen(sid) => /\ commitments[sid] \in emitted
                          /\ \A s \in emitted : s.step <= commitments[sid].step

\* At most one unanswered request of a session can still be answered, and it
\* was made by the session's last step.  The store numbers requests by this.
\* Code: the phase check and the hash check of onRandomnessFulfilled.
RequestOfLastStep ==
    \A s \in requests :
        Loads(s) => \A t \in requests : t.sessionId = s.sessionId => t.step <= s.step

\* A closed session moves no more tokens and its result never changes.
ClosedForever ==
    [][\A sid \in SessionIds :
           IsClosed(sid) => /\ settlements'[sid] = settlements[sid]
                            /\ flows'[sid] = flows[sid]
                            /\ commitments'[sid] = commitments[sid]]_vars

\* A player's tokens leave only in a transaction the player sends: to bet, to
\* act or to transfer.  A session takes more from its player only by an action
\* of that player on it, in the player's turn and in time: not by somebody
\* else's action, the router's callback, a cancellation or a forfeit.
\* Code: the msg.sender checks of submitAction and openSession, allowIncrease
\* in onRandomnessFulfilled, the direction of the payouts.
OnlyThePlayerPays ==
    [][/\ \A p \in Players : balance'[p] < balance[p] => caller' = p
       /\ \A sid \in SessionIds :
             /\ flows'[sid].fromPlayer > flows[sid].fromPlayer
             /\ IsOpen(sid)
             => /\ commitments[sid].phase = "WAITING_PLAYER_ACTION"
                /\ block <= commitments[sid].deadlineBlock
                /\ caller' = commitments[sid].player]_vars

(***************************************************************************)
(* The inductive invariant.  SessionConserves, RiskWithinQuote and         *)
(* ClosedOnce are not inductive: they do not say that a commitment is to   *)
(* an emitted snapshot of that very session, under the caps it was opened  *)
(* with and within them, nor that an id not yet given out has no trace.    *)
(***************************************************************************)
\* s is a committed snapshot of session sid and f is what it has moved.
OpenInv(sid, s, f) ==
    /\ s \in Session
    /\ s.sessionId = sid
    /\ s.phase \in OpenPhases
    /\ WithinCaps(s)
    /\ s.maxEscrowStake = f.maxEscrowStake
    /\ s.maxReservedProfit = f.maxReservedProfit
    /\ s.escrowedStake = f.fromPlayer - f.toPlayer
    /\ f.fromVault = 0
    /\ f.toVault = 0

\* A session that moved f has been closed within its limits.
ClosedInv(f) ==
    /\ f.fromPlayer + f.fromVault = f.toPlayer + f.toVault
    /\ f.fromVault - f.toVault <= f.maxReservedProfit
    /\ f.fromPlayer - f.toPlayer <= f.maxEscrowStake

SessionInv(sid) ==
    /\ sid > currentSessionId => /\ commitments[sid] = NoCommitment
                                 /\ settlements[sid] = <<>>
                                 /\ flows[sid] = NoFlow
    /\ sid <= currentSessionId =>
           \/ /\ IsOpen(sid)
              /\ settlements[sid] = <<>>
              /\ commitments[sid] \in advanced
              /\ OpenInv(sid, commitments[sid], flows[sid])
           \/ /\ ~IsOpen(sid)
              /\ Len(settlements[sid]) = 1
              /\ ClosedInv(flows[sid])

IndInv == TypeOK /\ \A sid \in SessionIds : SessionInv(sid)

(***************************************************************************)
(* The host implements the abstract escrow: a session is a box, open while *)
(* there is a commitment to it and closed once it has a settlement.        *)
(***************************************************************************)
Box(sid) ==
    [status |-> IF IsOpen(sid) THEN "open"
                ELSE IF IsClosed(sid) THEN "closed" ELSE "unused",
     stake |-> IF IsOpen(sid) THEN commitments[sid].escrowedStake ELSE 0,
     gain |-> IF IsClosed(sid) THEN flows[sid].toPlayer - flows[sid].fromPlayer ELSE 0,
     stakeLimit |-> flows[sid].maxEscrowStake,
     profitLimit |-> flows[sid].maxReservedProfit]

Boxes == [sid \in SessionIds |-> Box(sid)]

Escrow == INSTANCE SessionEscrow WITH
              SessionIds <- SessionIds,
              box <- Boxes

\* The host implements SessionEscrow: sessions do not disturb each other, and
\* each keeps to the limits it was opened under.
EscrowRefinement == Escrow!Spec
=============================================================================
