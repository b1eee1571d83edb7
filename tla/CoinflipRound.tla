----------------------------- MODULE CoinflipRound -----------------------------
(***************************************************************************)
(* The coin flip example: one round from the bet to the reveal (App.tsx of *)
(* coinflip-public), its coins and its win card.                           *)
(*                                                                         *)
(* The host is seen as the SDK shows it: the answer of openSession, and    *)
(* pushes of the sessions in which a row that has ended may lack its game  *)
(* state or come before its payout, as the frame is ready to see it.  A    *)
(* push finds the sessions as they are when it arrives; pushes that are    *)
(* late are pushes that find less.                                         *)
(***************************************************************************)
EXTENDS CoinflipMath, Sequences

CONSTANTS
    CoinBets,       \* the bets of the form
    CoinWager       \* the wager

\* A win pays.  The wager is positive (App.tsx:188); of a single unit, on six
\* coins or more of which one has to hit, nothing would be left after the house's
\* share, and a win known by its payout alone would look like a loss.
WinsPay == \A bet \in CoinBets : MaxPayout(CoinWager, bet.coins, bet.need) > 0

\* What the constants are assumed to be.
CoinAssumption ==
    /\ \A bet \in CoinBets : bet.coins \in Nat /\ bet.need \in 1..bet.coins
    /\ CoinWager \in Nat
    /\ WinsPay

NoWord == {-1}
NoCoins == [status |-> "none"]
NoFlip == [state |-> "none"]

VARIABLES
    flip,           \* the session of the last bet
    row,            \* frame: its row in the last push
    coinRound,      \* frame: the round
    fastMode,       \* frame: the setting
    effectDue,      \* frame: an effect of the last change is due
    winDismissed,   \* frame: whether the win card was clicked away
    shown           \* history: whether the session was given to revealOutcome

frameSide == <<row, coinRound, fastMode, effectDue, winDismissed, shown>>
coinVars == <<flip, frameSide>>

CoinInit ==
    /\ flip = NoFlip
    /\ row = NoFlip
    /\ coinRound = NoCoins
    /\ fastMode \in BOOLEAN         \* kept in the storage of the browser
    /\ effectDue = FALSE
    /\ winDismissed = FALSE
    /\ shown = FALSE

-----------------------------------------------------------------------------
(***************************************************************************)
(* The host: a session opens, gets its word, settles or is cancelled.      *)
(***************************************************************************)

Ended(f) == f.state \in {"settled", "cancelled"}

\* The bet is mined, before or after its call is answered, or never.
SessionOpens ==
    /\ flip.state = "sent"
    /\ flip' = [state |-> "waiting", bet |-> flip.bet, word |-> NoWord,
                 carries |-> "state", paid |-> FALSE]
    /\ UNCHANGED frameSide

\* The keeper fulfils the request; the word is known before the row ends.
WordArrives ==
    /\ flip.state = "waiting"
    /\ \E word \in SUBSET (1..flip.bet.coins) :
         flip' = [flip EXCEPT !.state = "fulfilled", !.word = word]
    /\ UNCHANGED frameSide

\* The row has ended.  It carries the game state, or only the word, or neither.
SessionSettles(carries, paid) ==
    /\ flip.state = "fulfilled"
    /\ flip' = [flip EXCEPT !.state = "settled", !.carries = carries, !.paid = paid]
    /\ UNCHANGED frameSide

\* cancelStuckRandomness: the wager is paid back.  The host keeps the game
\* state of the step before, which has no word yet; a row may lack it.
SessionCancelled(carries) ==
    /\ flip.state = "waiting"
    /\ flip' = [flip EXCEPT !.state = "cancelled", !.carries = carries, !.paid = TRUE]
    /\ UNCHANGED frameSide

PayoutArrives ==
    /\ Ended(flip)
    /\ ~flip.paid
    /\ flip' = [flip EXCEPT !.paid = TRUE]
    /\ UNCHANGED frameSide

\* What the chain pays for a session that ended.
Won(f) == f.state = "settled" /\ OutcomeFromRandomness(f.bet, f.word).won
Payout(f) ==
    IF f.state = "cancelled" THEN CoinWager
    ELSE IF Won(f) THEN MaxPayout(CoinWager, f.bet.coins, f.bet.need) ELSE 0

-----------------------------------------------------------------------------
(***************************************************************************)
(* The frame: bet, answer, pushes and effects                              *)
(***************************************************************************)

Push ==
    /\ row # flip
    /\ row' = flip
    /\ effectDue' = (effectDue \/ coinRound.status = "waiting")
    /\ UNCHANGED <<flip, coinRound, fastMode, winDismissed, shown>>

InFlight == coinRound.status \in {"opening", "waiting", "landing"}

\* Mutant: a new round does not bring the win card back.
OpenRoundDismissed(bet) ==
    /\ ~InFlight /\ ~effectDue
    /\ coinRound' = [status |-> "opening", bet |-> bet]
    /\ flip' = [state |-> "sent", bet |-> bet]
    /\ row' = NoFlip
    /\ shown' = FALSE
    /\ effectDue' = TRUE
    /\ UNCHANGED <<fastMode, winDismissed>>

\* A click on Bet while no round is in flight.  Effects that are due run before
\* a click.
OpenRound(bet) ==
    /\ ~InFlight /\ ~effectDue
    /\ winDismissed' = FALSE
    /\ coinRound' = [status |-> "opening", bet |-> bet]
    /\ flip' = [state |-> "sent", bet |-> bet]
    /\ row' = NoFlip
    /\ shown' = FALSE
    /\ effectDue' = TRUE
    /\ UNCHANGED fastMode

\* The answer of openSession: the key of the session.
Answered ==
    /\ coinRound.status = "opening"
    /\ flip.state # "sent"
    /\ coinRound' = [coinRound EXCEPT !.status = "waiting"]
    /\ effectDue' = TRUE
    /\ UNCHANGED <<flip, row, fastMode, winDismissed, shown>>

\* Or a failure, whatever becomes of the session.
OpenFailed ==
    /\ coinRound.status = "opening"
    /\ coinRound' = NoCoins
    /\ effectDue' = TRUE
    /\ UNCHANGED <<flip, row, fastMode, winDismissed, shown>>

NoOutcome == [won |-> "unknown"]

\* Mutant: a row without a game state waits for one.
OutcomeOfStateOnly(round, r) ==
    IF r.carries = "state" /\ r.word # NoWord
    THEN OutcomeFromRandomness(round.bet, r.word)
    ELSE NoOutcome

\* Mutant: a payout that is not in the row yet is none.
OutcomeOfUnpaid(round, r) ==
    IF r.carries \in {"state", "word"} /\ r.word # NoWord
    THEN OutcomeFromRandomness(round.bet, r.word)
    ELSE OutcomeFromResult(round.bet, r.paid /\ Payout(r) > 0)

\* The faces of a row that ended, from the richest source it has: the settled
\* game state, else the word, else the payout alone.
OutcomeOf(round, r) ==
    IF r.carries \in {"state", "word"} /\ r.word # NoWord
    THEN OutcomeFromRandomness(round.bet, r.word)
    ELSE IF r.paid THEN OutcomeFromResult(round.bet, Payout(r) > 0)
    ELSE NoOutcome

PayoutShown(r, outcome) ==
    IF r.paid /\ Payout(r) > 0 THEN Payout(r)
    ELSE IF outcome.won THEN MaxPayout(CoinWager, r.bet.coins, r.bet.need) ELSE 0

\* The effect of the snapshot: the round that waits for its row.
SettleFromRow ==
    IF row.state = "cancelled" /\ row.carries = "nothing"
    THEN coinRound' = NoCoins /\ effectDue' = TRUE
    ELSE LET outcome == OutcomeOf(coinRound, row)
         IN  IF outcome = NoOutcome
             THEN effectDue' = FALSE /\ UNCHANGED coinRound
             ELSE /\ coinRound' = [status |-> IF fastMode THEN "done" ELSE "landing",
                                   bet |-> coinRound.bet, outcome |-> outcome,
                                   payout |-> PayoutShown(row, outcome)]
                  /\ effectDue' = TRUE

\* Mutant: the reveal goes with the toss.
RunEffectsEarly ==
    /\ effectDue
    /\ IF coinRound.status = "waiting" /\ Ended(row)
       THEN SettleFromRow /\ shown' = TRUE
       ELSE /\ effectDue' = FALSE
            /\ UNCHANGED <<coinRound, shown>>
    /\ UNCHANGED <<flip, row, fastMode, winDismissed>>

\* The effects after a render: settle a round that waits, reveal one that is
\* done.  For a round that lands the timer is set.
RunEffects ==
    /\ effectDue
    /\ IF coinRound.status = "waiting" /\ Ended(row)
       THEN SettleFromRow /\ UNCHANGED shown
       ELSE /\ effectDue' = FALSE
            /\ shown' = (shown \/ coinRound.status = "done")
            /\ UNCHANGED coinRound
    /\ UNCHANGED <<flip, row, fastMode, winDismissed>>

\* The toss is over.
Finish ==
    /\ coinRound.status = "landing"
    /\ ~effectDue
    /\ coinRound' = [coinRound EXCEPT !.status = "done"]
    /\ shown' = TRUE
    /\ effectDue' = TRUE
    /\ UNCHANGED <<flip, row, fastMode, winDismissed>>

WinVisible == coinRound.status = "done" /\ coinRound.outcome.won /\ ~winDismissed

\* A click anywhere.
DismissWin ==
    /\ WinVisible /\ ~effectDue
    /\ winDismissed' = TRUE
    /\ UNCHANGED <<flip, row, coinRound, fastMode, effectDue, shown>>

SetFastMode ==
    /\ fastMode' = ~fastMode
    /\ effectDue' = (effectDue \/ coinRound.status = "waiting")
    /\ UNCHANGED <<flip, row, coinRound, winDismissed, shown>>

HostStep ==
    \/ SessionOpens
    \/ WordArrives
    \/ \E carries \in {"state", "word", "nothing"}, paid \in BOOLEAN :
           SessionSettles(carries, paid)
    \/ \E carries \in {"state", "nothing"} : SessionCancelled(carries)
    \/ PayoutArrives

CoinNext ==
    \/ HostStep
    \/ Push
    \/ \E bet \in CoinBets : OpenRound(bet)
    \/ Answered
    \/ OpenFailed
    \/ RunEffects
    \/ Finish
    \/ DismissWin
    \/ SetFastMode

CoinSpec == CoinInit /\ [][CoinNext]_coinVars

\* A bet that is placed is mined and answered, its session ends, rows are
\* pushed, effects and timers run.  Nobody has to bet or to click.
CoinFairness ==
    /\ WF_coinVars(HostStep)
    /\ WF_coinVars(Push)
    /\ WF_coinVars(Answered \/ OpenFailed)
    /\ WF_coinVars(RunEffects)
    /\ WF_coinVars(Finish)

CoinFairSpec == CoinSpec /\ CoinFairness

-----------------------------------------------------------------------------
(***************************************************************************)
(* Properties                                                              *)
(***************************************************************************)

Tossed == coinRound.status \in {"landing", "done"}

\* What the coins and the card show of a session that settled is what the chain
\* decided and pays, from whichever source the faces came and before the payout
\* is in the row as well as after.
CoinsTellTheTruth ==
    Tossed /\ flip.state = "settled" =>
        LET hits == {i \in 1..flip.bet.coins :
                         coinRound.outcome.faces[i] = PickedSide(flip.bet)}
        IN  /\ Won(flip) <=> Cardinality(hits) >= flip.bet.need
            /\ Won(flip) <=> coinRound.outcome.won
            /\ coinRound.payout = Payout(flip)

\* The host is told to release a payout only when the round was seen to its end:
\* the balance must not give the result away during the toss.
NothingIsGivenAway ==
    shown => Ended(flip) /\ coinRound.status \in {"done", "none"}

\* A win that was seen has its card, whatever was clicked away before.
WinHasItsCard ==
    [][coinRound.status # "done" /\ coinRound'.status = "done" /\ coinRound'.outcome.won
           => ~winDismissed']_coinVars

\* A round never stays in the flipping state: with the payout in its row it
\* lands, is over and revealed, or is given up (App.tsx:96).
FlippingEnds ==
    coinRound.status \in {"waiting", "landing"} ~> coinRound = NoCoins \/ shown

\* A round that did not settle normally is no win: App.tsx:92 gives it up and
\* leaves its wager to the rules of the chain.
RefundIsNoWin ==
    Tossed /\ flip.state = "cancelled" => ~coinRound.outcome.won

=============================================================================
