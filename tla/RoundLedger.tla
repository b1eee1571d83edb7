------------------------------ MODULE RoundLedger ------------------------------
(***************************************************************************)
(* The balance the game frame shows: balance-hold.ts, use-round-ledger.ts  *)
(* and the methods of use-game-host.ts that drive them.                    *)
(*                                                                         *)
(* The display is a baseline read from the chain plus the stakes and the   *)
(* payouts of the rounds since.  A round's stake is taken off when the bet *)
(* is sent and its payout is added when the game reveals it, so that a     *)
(* result is not told by the balance.  The chain is read again only after  *)
(* the last round has ended, and what was read is dropped when a bet was   *)
(* placed in the meantime.                                                 *)
(*                                                                         *)
(* The guest is a game with one step or several: it opens rounds, acts on  *)
(* open ones, and reveals a result it was shown once it was played.        *)
(* Restart takes the viewport down and brings up a new one on a new        *)
(* runtime, while the hold of balance-hold.ts and the calls under way live *)
(* on.  The page stays on one account and one game.                        *)
(*                                                                         *)
(* A call that fails gives its stake back.  Its transaction may be dead,   *)
(* but a call that only gave up waiting has one that was mined before or   *)
(* is mined later; givenBack counts what the display then has too much.    *)
(***************************************************************************)
EXTENDS Integers, FiniteSets, Functions

CONSTANTS
    Rounds,         \* sessions of the player and the game
    History,        \* rounds that may be open when the page is loaded
    Funds,          \* tokens of the player on the chain
    ExtraStakes,    \* what an action may add to the stake, 0 for nothing
    EarlyPlay,      \* whether the player can bet or act before a balance was read
    LateActions,    \* whether an action can be under way on a round that ended
    MaxBets,        \* bound: stakes taken off the display
    MaxTroubles     \* bound: changes of the wallet, failed reads, restarts and
                    \* calls that give up

\* What the constants are assumed to be.
LedgerAssumption ==
    /\ IsFiniteSet(Rounds)
    /\ History \subseteq Rounds
    /\ {Funds, MaxBets, MaxTroubles} \subseteq Nat
    /\ ExtraStakes \subseteq Nat
    /\ {EarlyPlay, LateActions} \subseteq BOOLEAN

NoBalance == -1
Stake == 1
Ended == {"settled", "cancelled"}
Keys == {"open", "resume"} \X Rounds

VARIABLES
    funds,          \* chain: the player's balance
    session,        \* chain: phase, stake and payout of each round
    call,           \* openSession: "idle", "sending", "opened", "failed", or
                    \* "lost" when it gave up on a bet that is not dead
    action,         \* submitAction: the extra stake under way, or NoBalance
    mined,          \* the extra stake of a mined action whose call still waits
    loose,          \* the extra stake of an action given up on and not yet mined
    patched,        \* rounds whose result a flashblock patch holds
    indexed,        \* rounds whose indexed row has the result
    ready,          \* walletStatus; no rows are visible without a wallet
    rowsChanged,    \* sessionRows differ from those of the last render
    raw,            \* rawBalance
    baseline,       \* the last balance adopted from the chain
    adjustment,     \* stakes and payouts since
    activeRounds,   \* keys of the rounds under way
    givenBack,      \* history: stakes given back that left the chain, as far as
                    \* no adopted read was late enough to show it
    epoch,          \* bets so far
    reconcileTimer, \* whether a reconcile is scheduled
    reads,          \* reads of the balance under way
    readFailed,     \* whether a read has failed
    tracked,        \* trackedRoundsRef: the kind of key of each round, or none
    pendingReveal,  \* pendingRevealRef
    following,      \* guest: rounds it shows
    credited,       \* guest: rounds whose payout the display has been given
    mounted,        \* whether there is a viewport
    orphans,        \* rounds whose call of openSession lost its viewport
    replayed,       \* rounds that had ended when the feed of the runtime began
    troubles        \* how many of the troubles there were

chainVars == <<funds, session>>
actionVars == <<action, mined, loose>>
callVars == <<call, action, mined, loose>>
rowVars == <<patched, indexed, ready, rowsChanged>>
holdVars == <<baseline, adjustment, activeRounds, givenBack, epoch, reconcileTimer>>
readVars == <<raw, reads, readFailed>>
trackVars == <<tracked, pendingReveal>>
guestVars == <<following, credited>>
viewVars == <<mounted, orphans, replayed>>
vars == <<chainVars, callVars, rowVars, holdVars, readVars, trackVars, guestVars,
          viewVars, troubles>>

NoSession == [phase |-> "none", stake |-> 0, payout |-> 0]
OpenAt(stake) == [phase |-> "open", stake |-> stake, payout |-> 0]

\* A read is the epoch it was started in, what it is for, what it got, and the
\* stakes given back that have left the chain since it got that.
Read(for) == [epoch |-> epoch, for |-> for, value |-> NoBalance, missed |-> 0]

Init ==
    /\ session \in [Rounds -> {NoSession, OpenAt(Stake)}]
    /\ \A r \in Rounds \ History : session[r] = NoSession
    /\ funds = Funds
    /\ call = [r \in Rounds |-> IF session[r] = NoSession THEN "idle" ELSE "opened"]
    /\ action = [r \in Rounds |-> NoBalance]
    /\ mined = [r \in Rounds |-> 0]
    /\ loose = [r \in Rounds |-> 0]
    /\ patched = {}
    /\ indexed = {}
    /\ ready = TRUE
    /\ rowsChanged = FALSE
    /\ raw = NoBalance
    /\ baseline = NoBalance
    /\ adjustment = 0
    /\ activeRounds = {}
    /\ givenBack = 0
    /\ epoch = 0
    /\ reconcileTimer = FALSE
    /\ reads = {[epoch |-> 0, for |-> "raw", value |-> NoBalance, missed |-> 0]}
    /\ readFailed = FALSE
    /\ tracked = [r \in Rounds |-> "none"]
    /\ pendingReveal = {}
    /\ following = {}
    /\ credited = {}
    /\ mounted = TRUE
    /\ orphans = {}
    /\ replayed = {}
    /\ troubles = 0

-----------------------------------------------------------------------------
(***************************************************************************)
(* The balance hold                                                        *)
(***************************************************************************)

\* Mutant: a bet does not void the reads that are under way.
BetPlacedQuietly(key, stake) ==
    /\ reconcileTimer' = FALSE
    /\ activeRounds' = activeRounds \cup {key}
    /\ adjustment' = adjustment - stake
    /\ UNCHANGED <<baseline, givenBack, epoch>>

BetPlaced(key, stake) ==
    /\ epoch' = epoch + 1
    /\ reconcileTimer' = FALSE
    /\ activeRounds' = activeRounds \cup {key}
    /\ adjustment' = adjustment - stake
    /\ UNCHANGED <<baseline, givenBack>>

\* useLedgeredBalance, rendered after every change: the raw read is adopted
\* as long as there is no sign of game activity.
Seeded(value) ==
    IF baseline = NoBalance /\ activeRounds' = {} /\ adjustment' = 0 THEN value ELSE baseline

\* roundRevealed and roundClosed for some keys, after adding back refund:
\* a round that ended before is left alone.
RoundsEnded(keys, payout, refund) ==
    LET ended == keys \cap activeRounds IN
    /\ activeRounds' = activeRounds \ ended
    /\ adjustment' = adjustment + refund + IF ended = {} THEN 0 ELSE payout
    /\ reconcileTimer' = (reconcileTimer \/ (ended # {} /\ activeRounds' = {}))
    /\ baseline' = Seeded(raw)
    /\ UNCHANGED epoch

\* The timer of scheduleReconcile; runReconcile up to its await.  Without a
\* viewport nobody has registered a fetcher.
FireTimer ==
    /\ reconcileTimer
    /\ reconcileTimer' = FALSE
    /\ reads' = IF activeRounds = {} /\ mounted
                THEN reads \cup {Read("baseline")} ELSE reads
    /\ UNCHANGED <<chainVars, callVars, rowVars, trackVars, guestVars, raw, readFailed,
                   baseline, adjustment, activeRounds, givenBack, epoch>>

\* The node answers a read, which is on its way back from then on.
Answer(read) ==
    /\ read.value = NoBalance
    /\ reads' = (reads \ {read}) \cup {[read EXCEPT !.value = funds]}
    /\ UNCHANGED <<chainVars, callVars, rowVars, holdVars, trackVars, guestVars,
                   raw, readFailed>>

FetchFails(read) ==
    /\ readFailed' = TRUE
    /\ reads' = reads \ {read}
    /\ UNCHANGED <<chainVars, callVars, rowVars, holdVars, trackVars, guestVars, raw>>

\* Mutant: a read is adopted whatever happened since it was started.
LandUnchecked(read) ==
    /\ read.value # NoBalance
    /\ reads' = reads \ {read}
    /\ IF read.for = "raw"
       THEN raw' = read.value /\ UNCHANGED <<baseline, adjustment, givenBack>>
       ELSE /\ baseline' = read.value /\ adjustment' = 0 /\ givenBack' = read.missed
            /\ UNCHANGED raw
    /\ UNCHANGED <<chainVars, callVars, rowVars, trackVars, guestVars, readFailed,
                   activeRounds, epoch, reconcileTimer>>

\* runReconcile after its await: a bet in the meantime makes the read stale.
\* The read of the mount only sets rawBalance.
Land(read) ==
    /\ read.value # NoBalance
    /\ UNCHANGED <<chainVars, callVars, rowVars, trackVars, guestVars, readFailed,
                   activeRounds, epoch, reconcileTimer>>
    /\ reads' = reads \ {read}
    /\ IF read.for = "raw"
       THEN /\ UNCHANGED <<adjustment, givenBack>>
            /\ raw' = read.value /\ baseline' = Seeded(raw')
       ELSE IF read.epoch = epoch /\ activeRounds = {}
       THEN /\ baseline' = read.value /\ adjustment' = 0 /\ givenBack' = read.missed
            /\ UNCHANGED raw
       ELSE UNCHANGED <<raw, baseline, adjustment, givenBack>>

-----------------------------------------------------------------------------
(***************************************************************************)
(* The chain                                                               *)
(***************************************************************************)

MineOpen(r) ==
    /\ session[r] = NoSession
    /\ call[r] = "sending"
    /\ funds >= Stake
    /\ funds' = funds - Stake
    /\ session' = [session EXCEPT ![r] = OpenAt(Stake)]
    /\ UNCHANGED <<callVars, rowVars, holdVars, readVars, trackVars, guestVars>>

\* A stake that was given back leaves the chain: the display has it too much, and
\* so has a balance that was read before.
Slips(stake) ==
    /\ funds >= stake
    /\ funds' = funds - stake
    /\ givenBack' = givenBack + stake
    /\ reads' = {IF read.value = NoBalance THEN read
                 ELSE [read EXCEPT !.missed = @ + stake] : read \in reads}
    /\ UNCHANGED <<baseline, adjustment, activeRounds, epoch, reconcileTimer, raw,
                   readFailed>>

\* A bet is mined after its call gave up.
OpenMinedLate(r) ==
    /\ session[r] = NoSession
    /\ call[r] = "lost"
    /\ Slips(Stake)
    /\ session' = [session EXCEPT ![r] = OpenAt(Stake)]
    /\ UNCHANGED <<callVars, rowVars, trackVars, guestVars>>

\* A loss, a win of twice the stake, or a cancelled or forfeited round that
\* pays the stake back.
Settle(r, phase, payout) ==
    /\ session[r].phase = "open"
    /\ LateActions \/ action[r] = NoBalance
    /\ session' = [session EXCEPT ![r] = [@ EXCEPT !.phase = phase, !.payout = payout]]
    /\ funds' = funds + payout
    /\ UNCHANGED <<callVars, rowVars, holdVars, readVars, trackVars, guestVars>>

\* The result comes on the flashblock channel, then on the indexed one, which
\* also replays what the runtime was too late for.
Flash(r) ==
    /\ mounted
    /\ r \notin replayed
    /\ session[r].phase \in Ended
    /\ r \notin patched \cup indexed
    /\ patched' = patched \cup {r}
    /\ UNCHANGED <<chainVars, callVars, indexed, ready, rowsChanged,
                   holdVars, readVars, trackVars, guestVars>>

Index(r) ==
    /\ mounted
    /\ session[r].phase \in Ended
    /\ r \notin indexed
    /\ indexed' = indexed \cup {r}
    /\ rowsChanged' = (rowsChanged \/ ready)
    /\ UNCHANGED <<chainVars, callVars, patched, ready,
                   holdVars, readVars, trackVars, guestVars>>

-----------------------------------------------------------------------------
(***************************************************************************)
(* The methods of the host and the effects of a render                     *)
(***************************************************************************)

Rows == IF ready THEN indexed ELSE {}
Shown == patched \cup indexed

\* A guest has a host that is ready, and as a rule a balance to play with.
CanPlay ==
    /\ mounted
    /\ ready
    /\ EarlyPlay \/ raw # NoBalance \/ baseline # NoBalance

OpenSession(r) ==
    /\ CanPlay
    /\ call[r] = "idle"
    /\ epoch < MaxBets
    /\ call' = [call EXCEPT ![r] = "sending"]
    /\ BetPlaced(<<"open", r>>, Stake)
    /\ UNCHANGED <<chainVars, actionVars, rowVars, readVars, trackVars, guestVars>>

\* The receipt, or a failed send whose session was seen on the flashblock
\* channel: either way the guest learns the session.  A call that lost its
\* viewport tracks the round in a ref that nobody reads any more.
Opened(r) ==
    /\ call[r] = "sending"
    /\ session[r] # NoSession
    /\ call' = [call EXCEPT ![r] = "opened"]
    /\ IF r \in orphans
       THEN UNCHANGED <<tracked, following>>
       ELSE /\ tracked' = [tracked EXCEPT ![r] = "open"]
            /\ following' = following \cup {r}
    /\ UNCHANGED <<chainVars, actionVars, rowVars, holdVars, readVars, pendingReveal,
                   credited>>

\* refundStake and roundClosed in the catch of openSession: the bet reverted or
\* was never sent.
OpenFails(r) ==
    /\ call[r] = "sending"
    /\ session[r] = NoSession
    /\ call' = [call EXCEPT ![r] = "failed"]
    /\ RoundsEnded({<<"open", r>>}, 0, Stake)
    /\ UNCHANGED <<chainVars, actionVars, rowVars, readVars, givenBack, trackVars, guestVars>>

\* The same when the send or the wait gave up on a bet that was mined, with no
\* flashblock event seen to prove it, or that may be mined later.
OpenGivesUp(r) ==
    /\ call[r] = "sending"
    /\ call' = [call EXCEPT ![r] = "lost"]
    /\ RoundsEnded({<<"open", r>>}, 0, Stake)
    /\ givenBack' = givenBack + IF session[r] = NoSession THEN 0 ELSE Stake
    /\ UNCHANGED <<chainVars, actionVars, rowVars, readVars, trackVars, guestVars>>

\* A round that is not tracked, from an earlier page or of a call that gave up,
\* is resumed.  A game waits for its call before it acts on the round again.
SubmitAction(r, extra) ==
    /\ CanPlay
    /\ call[r] \in {"opened", "lost"}
    /\ r \notin Shown
    /\ session[r].phase = "open" \/ (LateActions /\ session[r] # NoSession)
    /\ action[r] = NoBalance
    /\ mined[r] = 0
    /\ action' = [action EXCEPT ![r] = extra]
    /\ tracked' = [tracked EXCEPT ![r] = IF @ = "none" THEN "resume" ELSE @]
    /\ following' = following \cup {r}
    /\ IF tracked[r] # "none" /\ extra = 0
       THEN UNCHANGED holdVars
       ELSE epoch < MaxBets /\ BetPlaced(<<tracked'[r], r>>, extra)
    /\ UNCHANGED <<chainVars, call, mined, loose, rowVars, readVars, pendingReveal,
                   credited>>

ActionMined(r) ==
    /\ action[r] # NoBalance
    /\ session[r].phase = "open"
    /\ funds >= action[r]
    /\ funds' = funds - action[r]
    /\ session' = [session EXCEPT ![r].stake = @ + action[r]]
    /\ action' = [action EXCEPT ![r] = NoBalance]
    /\ mined' = [mined EXCEPT ![r] = action[r]]
    /\ UNCHANGED <<call, loose, rowVars, holdVars, readVars, trackVars, guestVars>>

\* Its receipt reaches the call.
ActionReturns(r) ==
    /\ mined[r] > 0
    /\ mined' = [mined EXCEPT ![r] = 0]
    /\ UNCHANGED <<chainVars, call, action, loose, rowVars, holdVars, readVars, trackVars,
                   guestVars>>

\* The action reverts or is not sent: refundStake in the catch.
ActionFails(r) ==
    /\ action[r] # NoBalance
    /\ action' = [action EXCEPT ![r] = NoBalance]
    /\ RoundsEnded({}, 0, action[r])
    /\ UNCHANGED <<chainVars, call, mined, loose, givenBack, rowVars, readVars, trackVars,
                   guestVars>>

\* The same when the wait gave up on an action that may be mined later, or on
\* one that was mined.  Bound: one action of a round at a time is given up on.
ActionGivesUp(r) ==
    /\ action[r] # NoBalance
    /\ loose[r] = 0
    /\ action' = [action EXCEPT ![r] = NoBalance]
    /\ loose' = [loose EXCEPT ![r] = action[r]]
    /\ RoundsEnded({}, 0, action[r])
    /\ UNCHANGED <<chainVars, call, mined, givenBack, rowVars, readVars, trackVars, guestVars>>

MinedActionGivesUp(r) ==
    /\ mined[r] > 0
    /\ mined' = [mined EXCEPT ![r] = 0]
    /\ RoundsEnded({}, 0, mined[r])
    /\ givenBack' = givenBack + mined[r]
    /\ UNCHANGED <<chainVars, call, action, loose, rowVars, readVars, trackVars, guestVars>>

ActionMinedLate(r) ==
    /\ loose[r] > 0
    /\ session[r].phase = "open"
    /\ Slips(loose[r])
    /\ session' = [session EXCEPT ![r].stake = @ + loose[r]]
    /\ loose' = [loose EXCEPT ![r] = 0]
    /\ UNCHANGED <<call, action, mined, rowVars, trackVars, guestVars>>

\* endRound for some tracked rounds, with what they pay.
EndRounds(rs) ==
    /\ tracked' = [r \in Rounds |-> IF r \in rs THEN "none" ELSE tracked[r]]
    /\ RoundsEnded({<<tracked[r], r>> : r \in rs},
                   SumFunctionOnSet([r \in Rounds |-> session[r].payout], rs), 0)
    /\ credited' = credited \cup rs
    /\ UNCHANGED givenBack

\* revealOutcome: the result of the visible row or of the patch, or none yet.
Reveal(r) ==
    /\ r \in following \cap Shown
    /\ following' = following \ {r}
    /\ IF tracked[r] = "none"
       THEN UNCHANGED <<holdVars, trackVars, credited>>
       ELSE IF r \in Rows \cup patched
       THEN EndRounds({r}) /\ pendingReveal' = pendingReveal \ {r}
       ELSE /\ pendingReveal' = pendingReveal \cup {r}
            /\ UNCHANGED <<holdVars, tracked, credited>>
    /\ UNCHANGED <<chainVars, callVars, rowVars, readVars>>

\* A game may reveal a cancelled round (the coin flip) or clear it (Ember).
Clear(r) ==
    /\ r \in following \cap Shown
    /\ session[r].phase = "cancelled"
    /\ following' = following \ {r}
    /\ UNCHANGED <<chainVars, callVars, rowVars, holdVars, readVars, trackVars, credited>>

ToggleWallet ==
    /\ mounted
    /\ ready' = ~ready
    /\ rowsChanged' = TRUE
    /\ UNCHANGED <<chainVars, callVars, patched, indexed, holdVars, readVars, trackVars,
                   guestVars>>

\* Mutant: a reveal that came before its row is forgotten.
SettleLosses ==
    /\ rowsChanged
    /\ rowsChanged' = FALSE
    /\ patched' = patched \ Rows
    /\ LET done == {r \in Rows : tracked[r] # "none" /\ session[r].payout = 0}
       IN  EndRounds(done) /\ pendingReveal' = pendingReveal \ done
    /\ UNCHANGED <<chainVars, callVars, indexed, ready, readVars, following>>

\* The effects of changed rows: the patches they caught up with are pruned,
\* losses end, and so do the rounds whose reveal came before their row.
SettleTrackedRounds ==
    /\ rowsChanged
    /\ rowsChanged' = FALSE
    /\ patched' = patched \ Rows
    /\ LET done == {r \in Rows : /\ tracked[r] # "none"
                                 /\ r \in pendingReveal \/ session[r].payout = 0}
       IN  EndRounds(done) /\ pendingReveal' = pendingReveal \ done
    /\ UNCHANGED <<chainVars, callVars, indexed, ready, readVars, following>>

\* Restart stops the runtime and the viewport goes: its tracked rounds are
\* closed, its fetcher is unregistered, its rows, patches and first read are
\* gone.  What was revealed is forgotten with the guest, and a call under way
\* runs on.
Unmount ==
    /\ mounted
    /\ LateActions \/ \A r \in Rounds : action[r] <= 0
    /\ mounted' = FALSE
    /\ orphans' = orphans \cup {r \in Rounds : call[r] = "sending"}
    /\ activeRounds' = activeRounds \ {<<tracked[r], r>> : r \in Rounds}
    /\ reconcileTimer' = (reconcileTimer \/ (activeRounds # {} /\ activeRounds' = {}))
    /\ tracked' = [r \in Rounds |-> "none"]
    /\ raw' = NoBalance
    /\ reads' = {read \in reads : read.for # "raw"}
    /\ rowsChanged' = FALSE
    /\ pendingReveal' = {}
    /\ following' = {}
    /\ patched' = {}
    /\ indexed' = {}
    /\ UNCHANGED <<chainVars, callVars, ready, baseline, adjustment, givenBack, epoch,
                   readFailed, credited, replayed>>

\* A new runtime replays the chain's logs, and a new viewport reads the
\* balance.
Mount ==
    /\ ~mounted
    /\ mounted' = TRUE
    /\ reads' = reads \cup {Read("raw")}
    /\ replayed' = {r \in Rounds : session[r].phase \in Ended}
    /\ UNCHANGED <<chainVars, callVars, rowVars, holdVars, trackVars, guestVars, raw,
                   readFailed, orphans>>

\* The steps of a viewport, of the chain, and of the calls and reads under way.
PlayNext ==
    \/ FireTimer
    \/ \E read \in reads : Answer(read)
    \/ \E read \in reads : Land(read)
    \/ \E r \in Rounds : MineOpen(r) \/ OpenMinedLate(r)
    \/ \E r \in Rounds : Settle(r, "settled", 0)
    \/ \E r \in Rounds : Settle(r, "settled", 2 * session[r].stake)
    \/ \E r \in Rounds : Settle(r, "cancelled", session[r].stake)
    \/ \E r \in Rounds : Flash(r)
    \/ \E r \in Rounds : Index(r)
    \/ \E r \in Rounds : OpenSession(r)
    \/ \E r \in Rounds : Opened(r)
    \/ \E r \in Rounds : OpenFails(r)
    \/ \E r \in Rounds, extra \in ExtraStakes : SubmitAction(r, extra)
    \/ \E r \in Rounds : ActionMined(r) \/ ActionMinedLate(r)
    \/ \E r \in Rounds : ActionReturns(r) \/ ActionFails(r)
    \/ \E r \in Rounds : Reveal(r)
    \/ \E r \in Rounds : Clear(r)
    \/ SettleTrackedRounds

Trouble ==
    \/ \E read \in reads : FetchFails(read) /\ UNCHANGED viewVars
    \/ \E r \in Rounds : OpenGivesUp(r) /\ UNCHANGED viewVars
    \/ \E r \in Rounds : (ActionGivesUp(r) \/ MinedActionGivesUp(r)) /\ UNCHANGED viewVars
    \/ ToggleWallet /\ UNCHANGED viewVars
    \/ Unmount

Next ==
    \/ PlayNext /\ UNCHANGED <<viewVars, troubles>>
    \/ troubles < MaxTroubles /\ troubles' = troubles + 1 /\ Trouble
    \/ Mount /\ UNCHANGED troubles

Spec == Init /\ [][Next]_vars

-----------------------------------------------------------------------------
(***************************************************************************)
(* Properties                                                              *)
(***************************************************************************)

TypeOK ==
    /\ funds \in Nat
    /\ call \in [Rounds -> {"idle", "sending", "opened", "failed", "lost"}]
    /\ action \in [Rounds -> {NoBalance} \cup ExtraStakes]
    /\ {mined, loose} \subseteq [Rounds -> {0} \cup ExtraStakes]
    /\ givenBack \in Nat
    /\ activeRounds \subseteq Keys
    /\ {baseline, raw} \subseteq {NoBalance} \cup Nat
    /\ tracked \in [Rounds -> {"none", "open", "resume"}]
    /\ \A r \in Rounds : tracked[r] # "none" => <<tracked[r], r>> \in activeRounds
    /\ \A read \in reads : read.epoch \in 0..epoch
    /\ mounted \in BOOLEAN
    /\ orphans \cup replayed \subseteq Rounds

\* Stakes that were taken off the display and not off the chain yet.
Outstanding(r) ==
    (IF call[r] = "sending" /\ session[r] = NoSession THEN Stake ELSE 0)
      + (IF action[r] = NoBalance THEN 0 ELSE action[r])

\* Payouts on the chain that the game has not revealed yet.
Hidden(r) == IF tracked[r] # "none" \/ call[r] = "sending" THEN session[r].payout ELSE 0

\* The display never tells a result before the game does, and never counts a
\* stake or a payout twice: what it shows, the payouts it hides and the stakes
\* under way are no more than what the player has.  Only a stake that a call
\* gave back and that left the chain all the same is shown on top, until a read
\* that was answered after both is adopted.
\* Code: the epoch and the activeRounds guard of runReconcile, refundStake,
\* and the tracking that ends a round once.
NeverOverstated ==
    baseline # NoBalance =>
        baseline + adjustment
          + SumFunction([r \in Rounds |-> Outstanding(r) + Hidden(r)]) <= funds + givenBack

\* There is a viewport, and no call, result, reveal or read is under way.
Quiet ==
    /\ mounted
    /\ \A r \in Rounds :
          /\ call[r] # "sending"
          /\ action[r] = NoBalance /\ mined[r] = 0
          /\ session[r].phase \in Ended => r \in indexed
    /\ following \cap Shown = {}
    /\ ready
    /\ ~rowsChanged
    /\ ~reconcileTimer
    /\ reads = {}

\* Once everything has arrived and the game is through with every result, no
\* ended round blocks the reconcile.  Code: every path on which a round must
\* leave activeRounds.
EndedRoundsClose ==
    Quiet => \A key \in activeRounds : session[key[2]].phase \notin Ended

\* The same for the rounds that were played to the end: a win is revealed by
\* every game and a loss ends by itself.  The key of a call that lost its
\* viewport stays when its bet is mined.
PlayedRoundsClose ==
    Quiet => \A key \in activeRounds :
                 \/ session[key[2]].phase # "settled"
                 \/ key[1] = "open" /\ key[2] \in orphans

\* When, besides, no round is under way and every ended round was followed by
\* the ledger, the display is the balance on the chain, also when reads of it
\* have failed, but for the stakes given back that left the chain since the
\* balance it builds on was read.  Code: the reconcile after the last round, and
\* the adjustments it replaces.
DisplaysTheChain ==
    /\ Quiet /\ activeRounds = {}
    /\ \A r \in Rounds : session[r].phase \in Ended => r \in credited
    /\ \E r \in Rounds : call[r] \in {"failed", "lost"} \/ r \in credited
    =>
    baseline + adjustment = funds + givenBack
=============================================================================
