# A verification of the casino simulator

TLA+ modules, TLC configurations and TLAPS proofs for the code of this repository: the
casino SDK with its local simulator (`casino-sdk/`) and the game built on it, Ember Festival
(`ember-festival/`). Source paths below are relative to `src/`; `simulator/` stands for
`casino-sdk/simulator/`.

1. [The system](#1-the-system)
2. [The modules and the code](#2-the-modules-and-the-code)
3. [The runs](#3-the-runs)
4. [Where the code and its comments disagree](#4-where-the-code-and-its-comments-disagree)
5. [The proofs](#5-the-proofs)
6. [Abstractions, and what is not modelled](#6-abstractions-and-what-is-not-modelled)
7. [Plan](#7-plan)
8. [Running it](#8-running-it)

## 1. The system

A player places bets in a game that runs in an iframe (the *guest*, the game *frame*). The
page around it (the *host page*) sends the bets to a host contract on a local chain, watches
the contract's events on two channels, and pushes a snapshot of the player's sessions into
the frame. A session is a round of several steps: the host contract asks the game contract
what to do, the game asks for randomness, a keeper answers, and in the end the session is
settled, cancelled or forfeited.

```
 game frame (guest)  <-- snapshot ---  useHostSnapshot  <--- session store  <-- indexed channel --+
   openSession       --- calls ----->  useGameHost      <--- flashblock     <-- flashblock ch. ---+ event feed
   submitAction                        (balance hold,        patches                              |
   revealOutcome                        round ledger)                                             |
                                            |  transaction queue (runtime.ts)                     |
                                            v                                                     |
                             LocalCasinoHost  <--> game contract        --- logs -----------------+
                             chUSD, vault     <--> Verify Network router and keeper
```

| component | state | operations | what is hard | what makes it correct |
|---|---|---|---|---|
| host contract, `simulator/contracts/LocalCasinoHost.sol` | the hash of each open session's snapshot, registered games, operators, block height | `openSession`, `submitAction`, `onRandomnessFulfilled`, `forfeitExpiredSession`, `cancelStuckRandomness`, registries | the state lives in calldata that callers hand back, stale copies included; a shared pool of tokens and a vault that does not limit the reserves; deadlines against late answers | a session is settled once, its money is conserved, the risk stays under the caps quoted at the opening, only the player's own transactions cost him |
| token, `LocalTestToken.sol` | balances, allowances | `mint`, `approve`, `transfer`, `transferFrom` | used by everything above | no token is lost or made in a session |
| router and keeper (outside the repository's Solidity) | unanswered requests | fulfil in any order, or never; a failing callback is swallowed | late and missing words | only the last request of a session can be answered |
| event feed, `simulator/src/session-events.ts` | next block, logs seen, timers, timestamp cache | `start`, `poll`, `stop` | every await may fail; delays that change while timers are pending | no log lost, twice or out of order |
| session store, `session-store.ts` | a row per session | `applyEvent` | late and replayed events | the row is the newest step and then the result; words sit with their requests |
| flashblock patches, `flashblock-session-patch.ts` | a patch per session | apply, merge into rows and items, prune | a patch is ahead of, level with or behind its row | the newer of the two wins; a patch goes only when it is no longer needed |
| optimistic sessions, `optimistic-casino-session.ts` | items of bets that are under way | create, confirm, remove, merge | two names (request, session) of one round | one item per round, never an idle flash |
| reconciler, `monotonic-session-items.ts` | items published as settled and as open | `reconcileMonotonicSessionItems` | layers that regress | a published round neither vanishes nor loses its result |
| host snapshot, `use-host-snapshot.ts`, `use-simulated-sessions.ts` | the last snapshot | one render | everything above at once | it converges to the chain |
| host methods, `use-game-host.ts` | correlation maps of bets by transaction hash, bytes of sessions from receipts | `openSession`, `submitAction`, `cancelStuckRandomness`, `revealOutcome`, `getRandomnessVerification` | transaction hash and opened log in either order; a send that fails after it was mined; which of three copies of a session to echo | a live bet is not reported as failed; a call sends the newest bytes the page knows |
| balance ledger, `balance-hold.ts`, `use-round-ledger.ts` | baseline, adjustment, active rounds, epoch, tracked rounds | bet, refund, reveal, close, reconcile | a read of the balance racing bets; results that must not be told early | never more than the player has, but for a stake given back by a call that gave up on it; the chain's balance in the end |
| runtime, `runtime.ts` | transaction queue, nonces | `sendActions`, auto-registration, reads | approve and open of several bets; a wait that gives up on a transaction that is executed later | a bet is executed against its own approval; a failed job blocks nobody |
| bridge, `use-game-bridge.ts`, and SDK connections, `guest.ts`, `host.ts` | connection, last snapshot pushed | handshake, push, calls | renders around the two sides of the handshake; a new document in the frame | a connected frame has the page's last snapshot |
| simulator shell, `App.tsx`, panel and viewport | detected contracts, applied configuration, runtime, sliders, overrides | polls of `deployed.json`, restart | answers out of order; a configuration that changes while a runtime is created; a node that reboots | one live runtime, of the newest chain in the end |
| local node, `simulator/local-node/` | deployed games per file, registered games, `deployed.json` | boot, scan, watch, deploy, register, mirror the host's list | edits between the awaits of a scan; two ways a game enters the list; a file that outlives its chain | no edit is missed; the list is the host's; a broken edit costs no game |
| randomness verification, `randomness-verification.ts`, `verify-network-router.ts`, `verify-network-ecvrf.ts` | none beyond one call | verify each word of a session against its request | reads that fail one by one; fulfilments in batches, relayed, or of another node; unfinished is not invalid | "valid" is earned, a genuine word that was not relayed is never called invalid, none is skipped |
| Ember Festival, `ember-festival/frontend/` | a round, a launch lock, an animation and a timer in the frame | launch, show, reveal, dismiss, preview | a lock released on four paths; an animation's end, a tap and a timer that belong to an earlier render | one bet at a time; a result is revealed by its own animation; no round is stranded |
| its show, `BurstReveal.tsx`, `audio.ts` | the phases of an animation, particles, sounds | frames, a change of tier or sound | two clocks, the real one and the capped step; things that are born later | the end comes after everything was seen and heard, and it comes |
| coin flip, `casino-sdk/examples/coinflip-public/` | a round, its coins, the win card, fast mode | bet, settle from a row, toss, reveal | rows that end before their state or payout is there | the coins show what the chain decided, and not before the toss is over |
| bet limits, `casino-sdk/src/bet-limits.ts`, and the coin flip's numbers, `coinflip.ts` | none | odds, payouts, `computeMaxWager` | rounding | a wager that is offered reserves no more than the casino allows |
| codec, manifest, canvas, layout, generated artifacts | | | | not modelled |

`PROJECT.json` lists every component with its files and its status, and every hazard at its
line with the properties that would catch it.

## 2. The modules and the code

### CasinoHost

The on-chain half. Variables follow the contract: `commitments` is `sessionCommitments`,
`currentSessionId`, `gameNames`, `isOperator` and `defaultOperator` are the registries,
`balance` and `allowance` the token. `requests` is the router's; `advanced` and
`settlements` are the logs. `flows` is a history variable: what each session moved between
the player, the host and the vault, and the caps it was opened under. `caller` is another:
the sender of the last transaction, where the code looks at him.

* The contract stores only the hash of a snapshot. A commitment is modelled by the snapshot
  it hashes, and every call takes *any* snapshot emitted so far (`\E s \in advanced`), so a
  stale or settled one is handed back at any time; `Loads` is `_loadSession`.
* An action is a whole successful transaction: `OpenSession`, `SubmitAction`,
  `OnRandomnessFulfilled`, `ForfeitExpiredSession`, `CancelStuckRandomness`, the registries
  and the token. `CanApplyStepDeltas`, `Stepped`, `WithinCaps`, `Encodable`, `Commit`,
  `FinalizeSession` and `PaidOut` are the parts of `_processStepResult` in their order. A
  revert is the absence of the step; the one with an effect, a callback that fails inside
  the router's transaction, is `RandomnessCallbackReverts`: the request is used up and the
  session waits for its deadline.
* A game is external: a callback answers any element of `StepResults`, malformed ones
  included, and a quote any element of `Quotes`.
* `forfeitExpiredSessions` runs the single forfeit for each of a batch and is its
  repetition.

### SessionEscrow

What a host promises about money: a set of isolated boxes, opened in order, each under two
limits fixed at its opening, adjusted within them, emptied once. `EscrowRefinement` in
`CasinoHost` is `SessionEscrow!Spec` under the mapping `Boxes`.

### MCCasinoHost and CasinoHostProofs

The sets of game answers TLC uses; `OthersAreSmall`, the bound on what others do to the
registries and the token; and the proofs (section 5). The other `*Proofs` modules each extend
the module they are about, and `FiniteTheorems` has the facts about sums that two of them
need.

### SessionFeed

`session-events.ts` between two awaits at a time; `pc` is the await that `start` or `poll`
is at. `ReadStartHead`, `ReadStartLogs`, `TakeLog`, `ReadTimestamp` and `FinishReplay` are
`start`; `Tick`, `ReadHead`, `ReadLogs`, `TakeLog`, `ReadTimestamp` and `FinishRange` are
`poll`; `Fail` is its `catch`, or `start` rejecting. A head that is read may be an older
one, since viem caches it. Timers fire in the order JavaScript gives them: an earlier timer
with no longer a delay goes first. `Stop` clears the timers and leaves a call that is under
way running.

### SessionRows

The pure functions behind the snapshot, one operator per function: `Evolve`
(`session-store.ts`), `Patched`, `MergedRow`, `MergedItem`, `CaughtUp`
(`flashblock-session-patch.ts`), `PendingItem`, `MergedItems`
(`optimistic-casino-session.ts`), `Reconciled` (`monotonic-session-items.ts`). Everything
that changes with a step is the number of the step that wrote it, and a word and a request
id are the number of the step that asked, so a value in the wrong place is seen as a wrong
number.

### HostSnapshot

The pipeline around them. The chain is the sequence `log` of opened, advanced and settled
events that the contract can emit; `flashed` and `indexed` say how far each channel is.
`OpenSession`, `Accept` (the callback with the hash), `Receipt` and `Fail` are the parts of
`openSession` between its awaits, with `pendingOpenTransactionsRef`,
`recentFlashblockOpensRef` and `confirmedOpensRef`; `Flash` and `Index` are the listeners;
`Render` is a render with its effects: the snapshot is pushed, and the patches are pruned
when the rows have changed. A render comes later than the changes it shows.

`inOrder`, chosen in the initial state among `Orders`, says whether the channels keep the
chain's order, which they do as long as no slider moves.

### RoundLedger

The balance display. `baseline`, `adjustment`, `activeRounds`, `epoch` and `reconcileTimer`
are the module-level state of `balance-hold.ts`; `tracked` and `pendingReveal` the refs of
`use-round-ledger.ts`. A read of the balance is a record that is started, answered by the
node and lands later (`FireTimer`, `Answer`, `Land`). `OpenSession`, `Opened`, `OpenFails`,
`SubmitAction`, `ActionMined`, `ActionReturns`, `ActionFails`, `Reveal` and
`SettleTrackedRounds` are the paths that place bets, give refunds and end rounds.

A rejected call gives its stake back whether its transaction is dead or not. `OpenFails` and
`ActionFails` are the dead ones. In `OpenGivesUp`, `MinedActionGivesUp` and `ActionGivesUp`
the send or the wait for the receipt gives up on a bet or an action that was mined already,
or is mined later (`OpenMinedLate`, `ActionMinedLate`, from the calls at `"lost"` and the
extra stakes in `loose`). The display then has a stake that left the chain. The history
variable `givenBack` counts these stakes: it grows when a mined one is given back and when a
given back one is mined, and falls to what the read has missed when a read is adopted
(`missed`, what slipped out after the node answered it). `givenBack` appears in no guard.

The guest reveals what it was shown, or
clears a cancelled round without revealing it, as Ember Festival does (`Clear`). `Unmount`
and `Mount` are a restart of the page: the viewport closes its tracked rounds and forgets
its rows, while the module-level hold, the calls and the reads under way live on; the new
runtime replays the results on the indexed channel, and the next viewport resumes a round
under another key.

### TransactionQueue

The calls of a game that send transactions and the one queue they share. A call encodes its
transactions at once, with the session bytes it finds (`LatestEncodedSession`: the newest of
the receipts remembered, of the row and of the patch), and its job waits for the jobs before
it (`sendQueue`). `SendTransaction` broadcasts the approval or the last transaction into
`mempool`, whose order the nonces fix; `Execute` is the chain, which moves the allowance and
the step of a session; `JobReturns`, `ReadsRevert`, `SendFails` and `WaitTimesOut` are the
ways a job ends. A send that fails may have reached the node, and a wait that gives up
leaves a transaction that is executed later. `Publish` is a channel that shows the page a
newer step, and `Prune` the patch that goes.

### LocalNode, SimulatorPage, LocalSimulator

`LocalNode` is the process `local-node/`. `Boot` brings up a chain and its host. A sync of
the games folder is taken one await at a time: `BeginSync` lists the files, `SkipFile` and
`CompileFile` look at one, `DeployGame` and `RegisterGame` are the two transactions of a
contract, `FailGame` is the `catch` around them, `EndSync` writes the list. `Edit` changes a
file at any moment, `Debounced` queues the next sync. `PollRegistered` mirrors the games the
host lists, those that other tools register (`RegisterElsewhere`) included. A source is its
revision and a revision is how many games it compiles to. `Stop` is a signal, a chain that
exits or an error nobody catches; `deployedJson` outlives it.

`SimulatorPage` is the harness page, `App.tsx`: `Poll` asks for `deployed.json` whether or
not the last request was answered, `Answer` takes an answer in any order, `Applied` is the
cleanup and the start of the effect that creates the runtime, `RuntimeCreated` and
`CreationFails` its ends, `Start` the button. By itself its specification lets the file and
the chain change in any way. `LocalSimulator` puts the two together over the shared file and
the shared chain.

### EmberFrame

The game's frame, `ember-festival/frontend/`, with the bridge that feeds it. On the page,
`HostConnects`, `HostRender` and `Reload` are the effects of `useGameBridge` and their
cleanup; messages to the frame keep their order. In the frame, `state` is what React's
updates amount to and `view` what the last render shows: handlers and effects go by the
render they belong to. A render comes some time after a message, a timer or an animation
frame, and before anything else after a click or a key (`due`). `Launch`, `LaunchReturns`,
`Tap`, `Preview`, `AnimationDone` and `FireDismissTimer` are the handlers of `App.tsx`;
`FrameRender` runs the effects of a render: `SettleFromSnapshot`, the start of an animation
(`SyncEngine`, `BurstReveal.tsx`) and the auto-dismiss timer (`SyncTimer`). A session is
what `HostSnapshot` shows of it: absent, open, then a prize's tier or cancelled. The page
for a frame without a host, the statistics and the checks of wager and wallet are left out:
they keep no state of the round. A prize without a tier does not occur ("should not happen
with a valid title", `types/game.ts:113`); with one the round would stay at `animating`.

### BurstShow

One firework frame by frame. Time is in units of 20 ms; a frame knows the real time since
its phase began and a step that is capped at 40 ms, and the two part when frames are slow.
Particles spawned together are a group that lives as long as the longest of them (`Spawned`,
`SecondWave`, `CometBurst`); sounds are cues with the length their oscillators are scheduled
for (`LengthOf`). `Frame` runs the blocks of the engine's frame in their order on one
record, so that a block sees what the block before it has set, and the time that was taken
before both. `SetTier` and `ToggleSound` set the engine up anew. `EmberFrame` abstracts a
show to its phases.

### CoinflipRound and CoinflipMath

`CoinflipMath` has the numbers of a bet: faces and outcome of a word, the outcome made up
when only the payout is known, binomial coefficients, the winning ways, the payout, and
`ComputeMaxWager` of the SDK. The multiplier reaches the SDK as a floating point number that
is rounded up to basis points; `drift` is the basis point more that this may come to.

`CoinflipRound` is the round of `App.tsx`: `flip` is the session on the host, `row` the last
one that was pushed, `coinRound` the round in the frame. A row that has ended may carry the
game state, only the word, or neither, and may come before its payout. `RunEffects` settles
a round that waits and reveals one that is done; `Finish` is the end of the toss;
`SetFastMode` may come at any time.

### FairnessCheck

`getRandomnessVerification`: `AskSession`, then for each request `Locate` and
`VerifyRequest`, then `AnswerSession`; each read may fail by itself. The router's address
may be unreadable, which is an error, or zero, which is answered as unsupported. A
fulfilment may be in one transaction with the others, and its manner is one of `Manners`: in
order, relayed by another contract (so that no request is echoed in the calldata), proved and
signed by another node than the assigned one with its own key, signed by another node, not
signed, with a malformed proof, or with another word in the log or in the row; the row may
also have no word at all. Hashes are injective, a proof is made with a key for an
alpha and determines the word, and a signature is made with a key over an id and a proof:
the elliptic curve behind them is abstracted.

### MCGames and MCSimulator

Components that do not interact share a run: a behaviour is one of one `part`, chosen in the
initial state, while the others rest. `MCGames` has what runs in a frame (`ember`, `burst`,
`coin`, `fairness`, `numbers`), `MCSimulator` what runs around one (`queue`, `ledger`,
`lost`, `restart`, `node`, `page`). The state spaces add up and do not multiply.

### How they compose

`CasinoHost` emits the logs that `HostSnapshot` generates (`OpeningLogs`, `StepLogs`): a
transaction opens a session with its step 1, or appends to the last log of one session the
next step, the answer to its request if it made one, or a forfeit or a cancel as the phase
demands, and nothing follows a settlement. That is `OneLogATime` of `CasinoHostProofs`, which
is proved of the host (`LogsComeOneByOne`). The one liberty of `HostSnapshot` is that its
games end in SETTLED; the host takes any of the three terminal phases from a game. `SessionFeed` delivers each log once
on each channel (`NoDuplicate`) and, as long as no slider moves, in the chain's order and
without a gap but for what the flashblock channel leaves to the replay (`ChainOrder`).
`HostSnapshot` assumes exactly that: a log arrives once, with `inOrder` after all earlier
ones, and the history of a page that is loaded counts as flashed. What `ChainOrder` has to
exclude, a log lost to a failed read of its timestamp (finding 1), is outside of
`HostSnapshot` as well. `HostSnapshot` EXTENDS `SessionRows`. What `RoundLedger` and the frames, `EmberFrame` and
`CoinflipRound`, assume of the layers below them is that a result comes on the flashblock
channel, the indexed channel or both, and stays (`PublishedStays`). `TransactionQueue` hands
the host at most one allowance at a time (`OwnAllowance`), which is why `CasinoHost` finds
the wager it pulls; the page's runtime, which has the feed and the queue, is the one
`SimulatorPage` keeps alone (`OneLiveRuntime`).

## 3. The runs

Every property is preceded in its module by what it says and the code it is about. State
counts and times are of one machine and two workers.

| run | question | bounds | distinct states |
|---|---|---|---|
| HostOne | Can a game, whatever it answers, or a caller with a stale snapshot, break a session while the registries and the token change around it? `SessionConserves`, `RiskWithinQuote`, `ClosedOnce`, `StepsWithoutGap`, `RequestOfLastStep`, `IndInv`, `ClosedForever` | 1 session, 3 steps, 3 block heights, malformed answers included; 2 games, 1 operator, 1 mint, combined with the first step (`OthersAreSmall`) | 519 k, 2 min |
| HostTwo | Do two sessions on one pool and one vault disturb each other, or one player spend the other's tokens? `HostSolvent`, `EscrowRefinement`, `OnlyThePlayerPays` | 2 players, 2 sessions, 2 steps, a vault that covers one profit | 416 k, 30 s |
| FeedFaulty | Does a failure at any await or a moving slider duplicate or reorder logs, or hold one back? `NoDuplicate`, `ChannelsAgree`, `ChainOrder`, `QuietAfterStop`, `EventuallyIndexed` | 2 blocks, 3 logs, 2 failures, 1 slider move, 3 delays | 281 k, 37 s |
| FeedLoses | The same when the read of a timestamp fails: `NothingLost` is violated | 1 block, 1 log, 1 failure | finding 1 |
| Snap | Is what the frame sees monotonic and right while the layers race? `OneItemPerSession`, `Converges`, `RequestsMatch`, `LiveBetNeverFails`, `PublishedStays`, `NoStepBack` | 1 bet, 1 session, with or without a history; 3 steps with the channels in order, 2 steps and a wallet that goes and comes out of order (`OneThingAtATime`) | 1.65 M, 49 s |
| SnapWallet | `NeverEarlierPhase` without a wallet is violated | 1 bet, 2 steps, 1 toggle | finding 2 |
| SnapTwoBets | `NeverBackToIdle` with a second bet is violated | 2 bets, 1 step | finding 3 |
| LedgerRefund | `EndedRoundsClose` is violated | 2 rounds, 2 bets | finding 4 |
| GamesPlay | Is a round in a frame stranded, doubled, revealed too early or by the wrong animation, shown or verified wrongly? `OneBetAtATime`, `RevealedByTheAnimation`, `FrameCatchesUp`, `ShowIsWhole`, `CoinsTellTheTruth`, `NothingIsGivenAway`, `VerdictsAreFair`, `NumbersAgree`, `WinHasItsCard`, `ShowsEnd` | 2 bets, 2 tiers, 1 upset (a reload, a preview or a change of the sound); 3 shown tiers, frames of 20 and 100 ms, 2 changes; 2 forms of a coin bet; 2 nodes, 2 requests, 9 manners of fulfilling each; all bets of up to 5 coins | 353 k, 51 s |
| SimulatorRuns | What goes wrong around a frame: pipelined calls on a failing node, reads of the balance racing rounds, calls that give up and a restart, edits racing deployments, a page behind a node that boots again? `OwnAllowance`, `ReadYourWrites`, `NeverOverstated`, `PlayedRoundsClose`, `DisplaysTheChain`, `NodeIsUpToDate`, `OneLiveRuntime`, `LastGoodStays`, `SimulatorSettles` | 3 calls, 1 session of 3 steps, 1 fault; 2 rounds, one of them possibly from an earlier page, 3 stakes, 2 troubles (a change of the wallet, a failed read); 2 rounds, 2 stakes, 2 troubles (a call that gives up, a failed read); 2 rounds, 2 stakes, 1 restart; 2 files, 3 revisions, 2 edits, 3 deployments; 3 boots, 2 polls at once, 1 Start | 2.40 M, 3.2 min |
| BurstBeat | `HesitationBeat` is violated | 1 show | finding 5 |
| CoinRefund | `RefundIsNoWin` is violated | 1 flip that is cancelled | finding 6 |

Why the bounds are enough. A session of three steps has a request, its answer, a second
request and a settlement, so that a stale snapshot, a superseded request and a late word all
exist; two sessions are what it takes for one to be paid from the other's escrow, and the
vault's funds are below the sum of their reserves. The widths `MaxUint128 = 4` and
`MaxUint256 = 7` are within reach of the amounts, so that the codec's overflow check and the
unlimited allowance happen. Two blocks and two failures let a range fail half-way, be read
again, and fail again; three delays let a later timer overtake an earlier one. One bet has
all orders of hash, receipt, failure and opened log on two channels; the second one is only
needed for finding 3. Two bets in the frame let the timer, the animation or the answer of
the first one come during the second, one of them after a reload. Two rounds are needed for
a reconcile that is blocked or made stale by another round or by a restart, and a
wallet that goes and comes back takes two troubles. Two calls that give up, or one and a read
that fails, let a stake given back be mined before, during and after the read that would
show it; these have a part of their own (`LostCalls`), and the part with the most stakes
(`OneViewport`) is without them. Two players are what it takes for one to act on the other's
session. Three calls let a job run before
and after one that failed, with a transaction of the failed one still on its way. A tier
without a beat or a second wave, one with secondary bursts and one with everything are the
kinds of a show, and frames of 20 and 100 ms let its two clocks part; the ascent, which only
delays the rest, has one length. Two requests can be fulfilled together and fail apart. Two
edits can hit one file twice or two files between the awaits of one scan, and three boots
let an answer that is two boots old arrive.

Deadlock is checked for the host, which can always make a transaction or a call, and not for
the others, where a page with nothing left to do stops.

**Fairness.** The feed assumes some in `FairSpec`; in the composed runs a liveness property
says for its part `part = ... => (fairness => ...)` (`ShowsEnd`, `SimulatorSettles`). In the
feed, `WF(Run)`: the node answers or rejects every call, and JavaScript runs the
continuation and the 150 ms poll timer. `SF(ReadHead(head))`: viem keeps a head for its
polling interval of 250 ms (`runtime.ts:73`), so one poll may read an old head but not all
of them; weak fairness would not do, since a poll passes through other awaits in between.
`WF` of the timers: `setTimeout` fires. Failures are finitely many (`MaxFaults`), as a node
that never answers delivers nothing. `EventuallyIndexed` excludes a feed that was stopped or
whose `start` was rejected, which the code gives up, and one whose read of a timestamp
failed, which is finding 1.

* Ember Festival: calls are answered, messages arrive, React renders, animation frames and
  timers come (`WF`, each kind as a whole), and an opened session is shown and ends: the
  keeper answers its request, or the player cancels it on the page. Nobody has to click; a
  grand result waits for a tap for good, and `RoundsEnd` says so.
* Its show: `requestAnimationFrame` calls back (`WF` of a frame of some length).
* Coin flip: a bet that is placed is mined and answered, its session ends, rows are pushed,
  effects and the timer run (`WF` of each). Nobody bets or clicks.
* Queue: the continuations of a job run, and the node executes what it has (`WF` of each).
  Failures are bounded.
* Page and node: a sync that has begun runs on, requests are answered and a creation ends
  (`WF`), and the page keeps asking (`SF(Poll)`: an interval timer that can be held up by
  the bound on polls again and again). Nobody boots the node or presses Start.
  `FollowsTheNode` is about a boot that stays.

**Assumptions made by constants.** `NoStepBack` and `RequestsMatch` say `inOrder =>`, as the
store and the patches rely on the order of their channel; in that order the wallet stays
(`OneThingAtATime`), for without it `NoStepBack` is false as well (finding 2). `EarlyPlay = FALSE` and
`LateActions = FALSE` in `RoundLedger` leave out two races, described in section 4, after
which the display is off until the next reconcile. `EditsInScan = FALSE` in `LocalNode`
leaves out an edit that is missed, described there, too.

## 4. Where the code and its comments disagree

Each is the counterexample of a run.

1. **FeedLoses / NothingLost.** `normalize` adds a log to `seen` (`session-events.ts:191`)
   and then awaits its block's timestamp. When that read fails the poll is abandoned and the
   range read again, but the log is skipped as seen: no channel ever carries it. The comment
   at line 234 says "Retry the same range on the next tick — nothing is lost."
2. **SnapWallet / NeverEarlierPhase.** Without a wallet the rows are dropped
   (`use-game-host.ts:66`) and the confirmed optimistic item is shown again, at the phase it
   was created with; the reconciler remembers only that an open round exists.
   `monotonic-session-items.ts:32-35` says "no later snapshot may regress it to an earlier
   phase".
3. **SnapTwoBets / NeverBackToIdle.** `openSession` forgets the optimistic item of every
   session with a row (`use-game-host.ts:232`), also of a row that is still at phase `NONE`,
   which is then shown. `optimistic-casino-session.ts:82-84` says "so the iframe never
   flashes back to an idle Bet state."
4. **LedgerRefund / EndedRoundsClose.** A cancelled round that pays the stake back stays
   tracked until it is revealed (`use-round-ledger.ts:73`); Ember Festival clears it without
   (`ember-festival/frontend/src/App.tsx:131-142`), so its key blocks every later reconcile.
   `balance-hold.ts:120` says `roundClosed` "Ends a round without a payout (loss, unmount,
   cancelled)".
5. **BurstBeat / HesitationBeat.** A frame takes the time since its phase began once, at its
   start. When the rocket of the finale arrives the frame sets the phase to `slowmo` and its
   start to now (`BurstReveal.tsx:1251`), and the next block of the same frame ends the beat
   by the time of the ascent, so no frame shows it. The header at line 12 says "Phoenix
   Finale: 260ms slow-mo hesitation beat with rising tone".
6. **CoinRefund / RefundIsNoWin.** The host keeps the game state of a session whose
   randomness was cancelled, so the guard at
   `casino-sdk/examples/coinflip-public/src/App.tsx:90` lets it pass; that state has no
   word, and the faces are made up from `payout > 0`, which is the refund. The player sees a
   win. Line 91 says "The round did not settle normally. Your wager handling follows
   on-chain rules."

Met while modelling, without a run of their own:

* A first balance that is read while a round is under way seeds the baseline when stakes and
  payouts cancel out (`balance-hold.ts:152`): `EarlyPlay = TRUE` shows it.
* A bet or an action whose call gives up is given back to the display though it was mined or
  is mined later (`use-game-host.ts:308`, `:348`). The comment at line 306 leaves it to "the
  post-round reconcile [to] settle any doubt", which it does unless its read fails or the
  transaction is mined after it was answered; the display then has the stake too much until
  the next reconcile. `NeverOverstated` and `DisplaysTheChain` allow for exactly that much.
* A genuine word whose fulfilment was relayed by another contract is called invalid, as its
  request cannot be decoded from the calldata (`randomness-verification.ts:188-189`).
  `GenuineIsNotAccused` says that it is called so for this check alone.
* A refund of an action whose round ended and was reconciled meanwhile raises the display
  above the chain until the next reconcile (`use-game-host.ts:348`): `LateActions = TRUE`
  shows it.
* A round of an earlier page that settled just before it is resumed is credited on a balance
  that contains it already, until the next reconcile; one that is never resumed is not
  displayed until then.
* A reconcile whose read fails is not tried again (`balance-hold.ts:75`), nor is one whose
  timer fires while no viewport is mounted (`balance-hold.ts:66-67`).
* A call of `openSession` that is under way when its viewport goes tracks its round in a ref
  that nobody reads (`use-round-ledger.ts:80`): once its bet is mined its key stays and
  blocks every later reconcile until the page is loaded again. `PlayedRoundsClose` leaves
  these keys out; the display is then never too high (`NeverOverstated`) but may stay low.
* On a channel out of order a settled log that overtakes the last advanced one files its
  word at the older step (`session-store.ts:142`).
* A pending bet and the session it opened are shown side by side when the session is indexed
  before the hash of the transaction is known.
* `settledAt` is the wall clock in a patch and the block's time in a row, so a settled item
  changes it once, which `snapshot-trace.ts:1-5` reports as a mutation.
* A game file that is edited during the first scan, after it was read, is not deployed until
  it is touched again: the watch begins when the scan is over (`game-contracts.ts:162-166`),
  while line 3 says "keeps watching the folder so new or edited files go live".
  `EditsInScan = TRUE` shows it.
* A file that is removed takes its games off the list ("dropping its games from the list",
  `game-contracts.ts:136`), but they stay registered on the host, and the mirror of its list
  brings them back.
* A deployment that fails for want of the node is remembered like a broken source and not
  tried again until the file changes (`game-contracts.ts:156`). A sync that throws
  elsewhere, such as in reading the folder, rejects the queue with no handler, which ends
  the process.
* `bootId` identifies a process; with a chain that was running already it is not "a fresh
  chain" (`config.ts:70`).
* A request that was closed with the sentinel, because no proof exists for it
  (`verify-network-ecvrf.ts:222-226`), would be shown as one whose word is invalid.
* `RANDOMNESS_TIMEOUT_BLOCKS` is 15 under the comment "Same defaults as the production
  facet" (`LocalCasinoHost.sol:42-44`); `CONTRACT_CONSTRAINTS.md:62` says 150.

## 5. The proofs

Each theorem holds for every value of the constants: any number of players, games, sessions,
steps, requests, calls, bets, rounds, logs, nodes and failures, under the assumptions its
module names. TLAPS checks every step of them.

| module | theorem | statement |
|---|---|---|
| CasinoHostProofs | HostInvariant | `Spec => []IndInv` |
| | TypeCorrect | `Spec => []TypeOK`; in particular no balance ever goes below zero |
| | Conservation | `Spec => []SessionConserves` |
| | RiskBound | `Spec => []RiskWithinQuote` |
| | SettledOnce | `Spec => []ClosedOnce` |
| | ResultIsFinal | `Spec => ClosedForever` |
| | PlayerConsents | `Spec => OnlyThePlayerPays`: a player's tokens leave only in a transaction the player sends |
| | EventsAreNumbered | `Spec => []StepsWithoutGap` |
| | AnswersAreCurrent | `Spec => []RequestOfLastStep` |
| | LogsComeOneByOne | `Spec => OneLogATime`: a transaction appends at most one step to the logs of one session, as `HostSnapshot` assumes |
| | HostImplementsEscrow | `Spec => EscrowRefinement` |
| | PoolCoversStakes | `Spec => []HostSolvent` |
| SessionFeedProofs | FeedInvariant, FeedTypes | `Spec => []FeedInv`, `Spec => []TypeOK` |
| | NoLogTwice | `Spec => []NoDuplicate` |
| | ChannelsCarryTheSame | `Spec => []ChannelsAgree` |
| | ChainOrderKept | `Spec => []ChainOrder`: in order, and without a gap as long as every timestamp could be read |
| | NothingAfterStop | `Spec => QuietAfterStop` |
| | OnlyTimestampsLose | `Spec => []NothingLost`, if reading a timestamp never fails |
| HostSnapshotProofs | LiveBetsNeverFail | `Spec => LiveBetNeverFails` |
| | SessionsAreShownOnce | `Spec => []OneItemPerSession` |
| | WhatWasPublishedStays | `Spec => PublishedStays` |
| | SnapshotConverges | `Spec => []Converges` |
| | EveryWordAnswersItsRequest | `Spec => []RequestsMatch` |
| | NeverAStepBack | `Spec /\ []Connected => NoStepBack`: while the channels are in order the wallet stays, as in the run |
| | SnapshotTypes | `Spec => []TypeOK` |
| LedgerNodeProofs | LedgerInvariant, LedgerTypeCorrect | `Spec => [](RoundsInv /\ GivenTypes /\ MoneyInv)`, `Spec => []TypeOK`, if `~EarlyPlay` and `~LateActions` |
| | DisplayIsCovered, PlayedRoundsAreClosed, DisplayIsExact | `NeverOverstated`, `PlayedRoundsClose`, `DisplaysTheChain` of `RoundLedger!Spec`, under the same |
| | NodeInvariant | `Node!NodeSpec => []NodeInv`, if `~EditsInScan` |
| | EditsAreSeen, GoodGamesStay | `NoEditMissed`, `ListsTheHostsGames` and `LastGoodStays` of `LocalNode!NodeSpec`, under the same |
| SimulatorProofs | DisplayIsCovered | `AllSpec => []NeverOverstated` |
| | PlayedRoundsAreClosed | `AllSpec => []PlayedRoundsClose` |
| | DisplayIsExact | `AllSpec => []DisplaysTheChain` |
| | ApprovalsAreNotShared | `AllSpec => []OwnAllowance` (`EachCallSpendsItsOwn`: of `QueueSpec`) |
| | WritesAreReadInARun | `AllSpec => []ReadYourWrites` (`WritesAreRead`: of `QueueSpec`) |
| | EditsAreSeen | `AllSpec => []NodeIsUpToDate` |
| | GoodGamesStay | `AllSpec => LastGoodStays` |
| | OneFeedAtATime | `AllSpec => []OneLiveRuntime` (`PageRunsOneFeed`: of the page by itself) |
| FrameProofs | FrameInvariant, FrameTypes | `Spec => []FrameInv`, `Spec => []TypeOK` |
| | FrameHasOneBet | `Spec => []OneBetAtATime` |
| | FrameRevealsWhatItShowed | `Spec => []RevealedByTheAnimation` |
| | FrameIsCaughtUp | `Spec => []FrameCatchesUp` |
| | TheTossKeepsItsSecret, TheCoinsAreHonest, EveryWinIsAnnounced | `NothingIsGivenAway`, `CoinsTellTheTruth`, `WinHasItsCard` of `CoinSpec` |
| | TheShowIsWhole | `Burst!Spec => [](Burst!ShowIsWhole /\ Burst!ScoreIsWhole /\ Burst!QuietAfterShow)` |
| | TheNumbersAgree | for every bet, every limit of a host and every wager up to the one offered: `WaysAreCounted`, `MadeUpFacesAgree`, `OfferedWagerFits` |
| | VerdictsAreEarned | `FairCheckSpec => [](ValidIsEarned /\ GenuineIsNotAccused /\ NothingIsSkipped)` |
| GamesProofs | TheTossIsKept, TheCoinsAreTrue, EveryCardIsShown | the same of the coin flip in `GamesSpec` |
| | EveryShowIsWhole | `GamesSpec => []ShowIsWhole` |
| | VerdictsAreSound | `GamesSpec => []VerdictsAreFair` |
| | EveryNumberAgrees | `GamesSpec => []NumbersAgree` |

**The host.** None of the safety properties is inductive: they do not say that the
commitment of a session is to a snapshot *of that session*, with the caps it was opened
under, nor that an id not yet given out has no trace. `IndInv` is `TypeOK` and, for every
id, `SessionInv`: beyond `currentSessionId` there is nothing; up to it a session is either
open, with a commitment that was emitted, is within its caps and escrows what the player
paid in less what was paid back (`OpenInv`), or closed with one settlement and its money
divided up (`ClosedInv`). TLC checks `IndInv` in HostOne.

Session by session, a transaction does one of three things: it is `Quiet` (registries,
tokens, blocks), it `Opens(s)` the next session, or it `Serves(s)` an open one. In the last
two cases `Handled(s)` says the session is left open or closed within its limits and every
other session untouched; `StepHandles` derives that once from `_processStepResult` for
opening, actions and words alike, on top of lemmas about the money (`StepMoneyBalanced`,
`FinalizeHandles`, `CommitHandles`). `NextHandles` splits the next-state relation;
invariance (`HandledKeepsIndInv`), finality and the refinement (`HandledBox`,
`HandledKeepsOthers`) each follow from the three cases without looking at the transactions
again. `OnlyThePlayerPays` needs to know whose transaction it was: `OwnActionPays` says that
an open session takes more from its player only by an action whose `caller` is the player of
the commitment, and `OwnTransactionPays` that no transaction lowers the balance of anybody
but its `caller`, the others moving tokens between the host, the vault and towards players.

For `EventsAreNumbered` and `AnswersAreCurrent` the invariant is joined by `EventInv`, for
`StepsWithoutGap` does not say that an id not yet given out has emitted nothing, nor that a
request was emitted with a step. `LogsComeOneByOne` needs both invariants: the snapshot a
caller hands in is the last log of its session because the commitment is to the last step
emitted, no settlement precedes because an open session has none, and an id that is given
out has no log yet. It is the guarantee of the host that `HostSnapshot` assumes, stated in
the proof module and not in a run, which would only repeat `StepsWithoutGap`,
`RequestOfLastStep` and `ClosedOnce` on the same states. The assumptions are those of `CasinoHost`: the host and the
vault are not players, bounds and timeouts are natural numbers, inputs have their types, and
`bytes32(0)` is not the hash of a session.

`PoolCoversStakes` adds up what the sessions hold. Each transaction changes the stake of at
most one session, by what it moves in or out of the host's balance, and the token has no
other way out of it: the host makes no call of its own. What a sum over a set that changes
at one place comes to is `SumChanges` of `FiniteTheorems`.

**Sums.** The library has no theorem about the community modules' folds, and an induction
whose claim is an operator is out of reach. `FiniteTheorems` takes the induction over finite
sets in the form of a least counterexample (`MinimalSubset`), shows that a fold exists and
is determined by its function (`FoldExists`, `FoldIsUnique`), and from there that
`SumFunctionOnSet` adds one value at a time in any order. In the same form it has the
induction over numbers (`NumbersInduction`), that a function is defined by recursion over
them (`RecursionExists`), and how many ways there are to pick some of n things
(`WaysToPick`, used by the numbers of a coin flip).

**The feed.** A stopped feed has no timer, and what `start` or a poll still does after its
await reaches no listener but in the replay, which is `QuietInv`. The others rest on
`FeedInv`. What goes out are logs that were seen, each once: a channel has one delivery or
one timer of it (`Carries`), and none of the log whose timestamp is being read (`awaiting`).
While no slider has moved the timers of a channel have one delay, so that they fire in the
order of their logs, all of which come after what was delivered (`InOrder`). `Polling` and
`Progress` place what is left of the range that is read after all that was seen of it. That
a log on the flashblock channel is on the indexed one, too, is the third part of `Outgoing`.
`OnlyTimestampsLose` is finding 1 from the other side: with no such failure whatever was
seen is on the indexed channel (`SeenIsOn`), also when a range is read a second time.

A channel that goes up may still leave something out, so the second half of `ChainOrder`
needs `NoGapInv`: what was handed over is still on both channels, or was replayed
(`Spread`), and what was delivered has nothing open before it (`Gapless`). A timer that
fires is then the first of its channel that is left (`FiredLeavesNone`), and a log that is
delivered at once finds no timer of its channel set, for the delay is zero
(`HandedOverLeavesNone`). A stop drops the timers, after which only the replay goes on. The
one way out is a timestamp that could not be read, and it is counted.

**The snapshot.** `OpenInv` follows a bet from its call to its session: what has been mined
(`LogInv`, `TxInv`), which of the three correlation maps knows of it at each point of the
call (`CallInv`), and which optimistic item stands for it (`ItemInv`). With it a live bet is
found by the `catch`, and an item has its session's id once both ends are known.
`PublishedStays` needs three more, one for each layer a result may come from. `EventInv`: a
session's settled log is its last, so that it has one settlement (`OneSettlement`).
`LayerInv`: each row and each patch tells the settlement of the chain or a phase in flight.
`PublishedInv`: every round the last render showed is remembered by the reconciler, and what
it showed or remembers as a result is the settlement; `RenderInv` says a session is
remembered once. Then a render keeps each id, since the memory still has it, and a result it
shows next is the settlement, as was the one before (`RenderKeepsPublished`). No order of
the channels is assumed, nor a wallet.

`Converges` and `RequestsMatch` need to know what the store has made of each event, and that
is a fact about the events that came, not about the last step. `StepInv` describes the log:
the events of a session continue each other, the opening first, then steps one apart, each
word the answer to the request before it (`Continues`). `ArriveInv` says which of them can
have come when the channels are in order: all those before the last one (`HeardGrows`). On
top of these, `RowsInv` and `PatchesInv` tell a row and a patch from the set of events it
has heard, in whatever order: its step is the highest, it has ended if the settlement is
among them (`RowSays`, `PatchSays`), and with the channels in order it has exactly the
requests and the words of them (`RowAsks`, `PatchAsks`). `RowSaysMore` and its like show this
for one event by the rules of `Evolve` and `Patched`, once, so that the actions of the two channels
only have to cite it. A row that has heard everything is then the chain's, whatever patch is
merged into it, for such a patch is old news (`MergedStays`); no optimistic item is left, and
the reconciler has nothing to add of its own, as it remembers only sessions that were opened
(`KeptInv`). `MatchInv` carries the pairing of requests and words through the merge of the
two layers and the reconciler's memory.

`NoStepBack` compares two renders that may have come from different layers, so it is about
what row and patch show together: the highest step of the two and the latest word of either
(`ShowsState`, `ShowsWord`). Neither falls in any step (`EveryStepShowsMore`), not even when
`Render` drops a patch that the row has caught up with, since then the row has its words
(`WordsInv`). The layers show exactly this much of every session (`LayersShow`), and the
reconciler shows a layer or what it remembers of a session (`ReconcilerShows`, `ShownInv`).
So whatever was published or is remembered is no further than row and patch (`BestInv`), and
the next render, which shows them, is no step back. This is where the wallet comes in: without
one the rows are gone and an optimistic item stands for its session at the phase it began
with (finding 2), so the property is false, and the theorem assumes `Connected`, that the
wallet is there while the channels are in order. The run has the same in its constraint, and
TLC refutes the property without it. The highest of a set of numbers is found as in
`FiniteTheorems`, by a least counterexample (`HighestOfBounded`).

**The ledger.** Nothing about the display is inductive by itself, for it is right only
together with what is on its way. `RoundsInv` says which rounds hold a key, and why
(`RoundOK`, `KeyOK`): a call under way, a round that is followed, or a call that lost its
viewport. `MoneyInv` is about the amounts: the display and all that is due, a sum over the
rounds of stakes under way and payouts not yet told (`Due`, `Owed`), is what the chain has,
or less where a payout went past the ledger. The stakes given back that left the chain are
taken off first: `Net` is the adjustment without them. A read of the balance that would still
count when it lands brings an amount of which the same is true, without what it missed
(`ReadOK`). A step then either keeps the balance it started from and changes display, dues
and chain alike (`Balanced`), or adopts a read that is as good. Giving back a dead stake
takes it from what is due; giving back a mined one, or mining one that was given back,
raises `givenBack` by as much as the display is too high or the chain falls
(`MoneyOfGivenUp`, `MoneyOfLate`). `DisplaysTheChain` is the case in which nothing is due
and nothing went past. The assumptions `~EarlyPlay` and `~LateActions` are those of the run; with
either the property is false (section 4). `SimulatorProofs` carries the theorems over to
`AllSpec`.

**The queue.** Only the head of the queue broadcasts (`HeadRuns`), and by the time it sends
its last transaction the approval it waited for was the last one in the mempool, whoever
else left transactions there (`LastIsOfTheHead`, `ApprovalStands`); so the transaction that
pulls a wager is next, with its own approval standing (`PullIsNext`).

For `ReadYourWrites` the map of receipts is what counts, since the feed may be late
(`WritesInv`). Its entries are of different sessions of the chain (`Distinct`, `ChainTypes`),
so that a map without an entry of some session is shorter than there are sessions
(`OneEntryEach`, by the cardinality of an injection): while these are no more than the map
holds, the entry that is dropped to make room is never needed, and each call that returned
finds its step or a later one (`ReceiptsKept`).

**The node.** A sync looks at one file after the other and is away while a contract is
deployed, so that nothing about a single moment is inductive. `SeenInv` says that each file
matches its entry, or the sync that runs will still look at it, or another is due: queued, or
about to be by the timer of the watch. `DeployingInv` is the half an edit behind the back of
a deployment needs: what is being deployed is the last revision unless a sync is due.
`ListsTheHostsGames` puts together what the node knows: all of it is on the host
(`KnownInv`), the mirror is of exactly the blocks read (`MirrorInv`), and the file names both
(`WrittenInv`). A step of a sync leaves a file with an entry or goes on with its contracts
(`LeavesFile`, `GoesOnDeploying`); the invariant and `LastGoodStays` follow from these two
without the steps. With `EditsInScan` an edit can be missed (section 6).

**The page.** `PageInv` adds to `OneLiveRuntime` that a creation under way is of a generation
so far, and one of this generation is of the applied configuration; the file and the chain
may change in any way between the page's steps.

**The frame.** `RevealedByTheAnimation` depends on which render an animation, a timer and an
answer belong to, and that is what `FrameInv` adds: the last render shows the round the
state is in unless it is about to show a new one (`ViewFollows`), the engine and the timer
are those of that render (`EngineFits`, `TimerFits`), an answer under way is that of the bet
the frame waits for, and there is no other (`RepliesFit`), and a result is the same in every
snapshot, however old (`ResultsAreFinal`). `FrameCatchesUp` rests on `PushesArrive`: what
was pushed last arrives last.

**The show.** `ShowIsWhole` speaks of the last frame of a show, so the invariant has to know
at every frame what has been and what is left. `ShowInv` says an engine is `Rising`,
`Burning` or `BurntOut`, each with the particles, comets and second wave its tier has at that
time; that the cues heard so far are those of the phase it is in (`CuesSoFar`); and that no
sound outlasts the last particles by more than a second (`Outlived`), which is what
`QuietAfterShow` says of the end. A frame is taken apart block by block (`RisesOn`, `BurstsNow`, `BurnsOn`)
as the code runs it. It holds for all tiers, any lengths of frames and any number of changes.

**The coin flip.** `CoinInv` says which rows and effects go with each status of the round. For
`CoinsTellTheTruth` it is joined by `CoinTruth`: the word of a session is one of its coins,
a row that has ended is the session's though its payout may be late, and a toss shows
whichever of the three sources its row carried. Coins thrown by a word show as many hits as
they are scored with (`ThrownCoinsAreScored`), those made up for a result show a win exactly
for a win (`MadeUpCoinsAreScored`). The module assumes `WinsPay`: the contract pays a win
more than nothing. It does not for one base unit on six coins of which one is needed, whose
payout is rounded down to zero, and a coin flip that must go by the payout would then show a
loss for a win.

**The numbers.** `winningWays` divides at every step of a product and adds up the results;
that the divisions have no remainder is what the code relies on without saying so. `nCk`
multiplies by n-k+i and divides by i, so that after i steps it should have the ways to pick
i of n-k+i things. `WaysAbsorb`, that i ways of n are n/i times those to pick i-1 of n-1,
makes every division exact, and follows by induction from picking the last thing or not
(`LastIsPickedOrNot`). So `NCk` counts (`NCkCounts`), by the shorter of two products since
picking and leaving are the same (`WaysMirror`), the sum counts the words with enough hits
(`WinningWaysCount`), and a bet on tails counts the complements (`WaysCount`). With that the
payout is never divided by zero. For `OfferedWagerFits` two roundings have to be held
against each other: the multiplier in basis points is rounded up (`CeilCovers`), the payout
and the wager down (`QuotientBounds`); `PayoutWithinMultiplier` is their product, and no
wager up to the one offered reserves more than the limit (`ReservedWithin`, `OfferFits`).

**The verdicts.** `FairInv` follows one request through its reads (`Course`) and says what
each read has established (`Judged`); it rests on `TheLogIsFound`, that among the logs of a
batch and the look-alikes of other contracts exactly the request's own is found. What the
four checks then say is worked out for each manner: a genuine word passes all of them, or all
but the fulfiller's when it was relayed (`ChecksOfGenuine`), and any other fails one
(`ChecksOfOthers`), another node's answer that of the fulfiller.

**Composed specifications.** `MCGames` and `MCSimulator` run instances of the modules, with
some constants fixed and every other one as it is. `GamesProofs` shows that these instances
have the initial states, steps and claims of the modules `FrameProofs` is about, definition
by definition (`SameCoinSteps`, `SameVerification`, `SameShow`, ...), and that the parts of
a game at rest keep their invariants (`GamesInv`). `SimulatorProofs` does the same for the
ledger and the node, and adds the queue and the page (`SimulatorInv`).

**Only model-checked.** Out of the prover's reach is liveness under fairness
(`EventuallyIndexed`, `ShowsEnd`, `SimulatorSettles`), which needs ENABLED. The library's
rules for induction over data are, too, as they take an operator; where a proof needs one
`FiniteTheorems` has it as a theorem about a set. Every other property of a passing run is
stated by a theorem.

Assumptions about constants are evaluated by the runs: `HostOne` and `HostTwo` those of
`CasinoHost`, `FeedFaulty` those of `SessionFeed`, `Snap` those of `HostSnapshot`. Modules
that are instantiated name theirs as definitions (`LedgerAssumption`, `CoinAssumption`,
`BurstAssumption`, ...), which `GamesAssumption` and `SimulatorAssumption` collect. `TypeOK`
of `HostSnapshot`, `RoundLedger` and `SessionFeed` documents their types and is in no run;
all three are proved. `HostSnapshot` assumes that a session is possible at all
(`MaxSessions` is not zero), as the log may begin with one of the past.

## 6. Abstractions, and what is not modelled

* Amounts are small numbers, addresses model values, game bytes the step that wrote them.
  Hashes are injective. Wall-clock times, deadlines in items, transaction hashes beyond the
  correlation they serve, and the order of the list of items are left out.
* The limit of 50 rows, the limits of 32 and 64 on the correlation maps of opens, the opt-in
  masking of waiting phases and the stuck-session query are left out; the limit on the
  receipts that are remembered is in `TransactionQueue` (`Remembered`).
* The ledger has one account and one boot: a change of account and a reboot of the node are
  left out of it. An action with extra stake is not under way when the page is restarted
  (`LateActions`); one that was given up on may be.
* Of the runtime, what start-up reads and the auto-registration of a game are part of the
  one step that creates it or fails to. Of the node, the deployment of the host and its
  keeper is one step of `Boot`; what it deploys is the initial state of `CasinoHost`.
* The router, the keeper, the game contracts and the chain itself are external, and modelled
  by what the code in this repository allows them to do.
* In `RoundLedger` one action of a round at a time may be given up on and still be on its way
  (`loose`), and a game does not act on a round again before the call of its last action has
  ended. The approval that goes before a bet or an action is in `TransactionQueue`.
* A prize without a tier does not occur in `EmberFrame`, and the statistics, the wager
  checks, the payout tables and the page for a frame without a host keep no state of the
  round.
* In `BurstShow` particles have a life and no place: where they fly, how they look, the sky
  behind them and the dock are left out. Sounds have a length and no pitch.
* Not modelled, for want of state or order worth a model: the TypeScript codec and ABI,
  which encode and decode one field after the other; the hooks of games that measure the DOM
  or fetch once; manifest validation and content size; URL parameters, fields of the setup
  panel and layout. Out of reach: the arithmetic of the elliptic curve. Generated: the ABI
  and bytecode files.

## 7. Plan

Done: the host with its escrow; the feed; the snapshot and its layers; the ledger; the
queue; the node and the page; the frame of Ember Festival and its show; the coin flip and
its numbers; the verification of words.

What would come next, in this order:

1. `RoundLedger` with a change of account and a reboot of the node, over the page of
   `SimulatorPage`: of these hazards of `PROJECT.json` the reboot has no property.
2. `TransactionQueue` composed with `CasinoHost`, whose allowance and steps it has in small.
3. The row limit of the store and the limits of the correlation maps, with more sessions
   than they hold.
4. One composed specification of `CasinoHost`, `SessionFeed` and `HostSnapshot`. The claims
   between them are proved on the side that makes them (`LogsComeOneByOne`, `ChainOrderKept`)
   and are guards on the side that relies on them; that the two forms agree is argued in
   "How they compose" and not by a refinement.

## 8. Running it

    tlc -config HostOne.cfg MCCasinoHost        # also HostTwo
    tlc -config FeedFaulty.cfg SessionFeed      # also FeedLoses
    tlc -config Snap.cfg HostSnapshot           # also SnapWallet, SnapTwoBets
    tlc -config LedgerRefund.cfg RoundLedger
    tlc -config GamesPlay.cfg MCGames           # also BurstBeat, CoinRefund
    tlc -config SimulatorRuns.cfg MCSimulator
    tlapm CasinoHostProofs.tla                  # and the seven other *Proofs.tla

Definitions commented as mutants (`LoadsIssued`, `TakeLogAgain`, ...) are used by no
specification: each is a plausible mistake in the definition that follows it, and the
property `PROJECT.json` lists with it is violated once it takes that definition's place.
