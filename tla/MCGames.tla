-------------------------------- MODULE MCGames --------------------------------
(***************************************************************************)
(* Small instances of what runs in a frame, for TLC: Ember Festival and    *)
(* its show, the coin flip and its numbers, and the verification a game    *)
(* asks for.  A behaviour is one of one part; the others stay at rest.     *)
(***************************************************************************)
EXTENDS EmberFrame, FiniteSets

CONSTANTS
    Parts,          \* the parts of a run
    ShownTiers, Frames, Ascents, MaxChanges

VARIABLES
    part,
    tierProp, soundEnabled, anim, heard, audible, changes,
    flip, row, coinRound, fastMode, effectDue, winDismissed, shown,
    fulfilment, batched, hashKnown, sessionKnown, enquiry, stage, verdict,
    sample          \* a bet and the limits of a host

MCBets == {[heads |-> TRUE, coins |-> 2, need |-> 1],
           [heads |-> FALSE, coins |-> 1, need |-> 1]}

MCManners == {"in order", "word not recorded", "relayed", "other node", "other signer",
              "no signature", "malformed proof", "other word in the row",
              "other word in the log"}

Burst == INSTANCE BurstShow
Coin == INSTANCE CoinflipRound WITH CoinBets <- MCBets, CoinWager <- 100
Fair == INSTANCE FairnessCheck WITH VrfNodes <- {"n1", "n2"}, Asked <- {1, 2},
            Manners <- MCManners
Math == INSTANCE CoinflipMath

burstVars == <<tierProp, soundEnabled, anim, heard, audible, changes>>
coinVars == <<flip, row, coinRound, fastMode, effectDue, winDismissed, shown>>
fairVars == <<fulfilment, batched, hashKnown, sessionKnown, enquiry, stage, verdict>>
gamesVars == <<part, vars, burstVars, coinVars, fairVars, sample>>

ASSUME GamesAssumption ==
    /\ Burst!BurstAssumption
    /\ Coin!CoinAssumption
    /\ Fair!FairnessAssumption

AllBets == {bet \in [heads : BOOLEAN, coins : 1..5, need : 1..5] : bet.need <= bet.coins}
Limits == [maxBet : {0, 1, 40}, maxProfit : {-1, 0, 7, 20, 6000}]
\* The largest limit is for bets whose products TLC's integers hold.
Samples == {s \in [bet : AllBets, casino : Limits, drift : {0, 1}] :
                s.casino.maxProfit <= 20 \/ s.bet.coins <= 2}
OneSample == CHOOSE s \in Samples : TRUE

\* A part at rest is in one of its initial states.
Enquiries(r) == [r -> [node : {"n1", "n2"}, how : MCManners \cup {"pending"}]]
AtRest ==
    /\ part # "burst" => soundEnabled
    /\ part # "coin" => ~fastMode
    /\ part # "fairness" => ~batched /\ ~hashKnown /\ ~sessionKnown

GamesInit ==
    /\ part \in Parts
    /\ Init
    /\ Burst!Init
    /\ Coin!CoinInit
    /\ sample \in IF part = "numbers" THEN Samples ELSE {OneSample}
    /\ fulfilment \in IF part = "fairness" THEN Enquiries({1, 2})
                      ELSE {[r \in {1, 2} |-> [node |-> "n1", how |-> "pending"]]}
    /\ Fair!FairInit
    /\ AtRest

EmberSteps == part = "ember" /\ Next /\ UNCHANGED <<burstVars, coinVars, fairVars>>
BurstSteps == part = "burst" /\ Burst!Next /\ UNCHANGED <<vars, coinVars, fairVars>>
CoinSteps == part = "coin" /\ Coin!CoinNext /\ UNCHANGED <<vars, burstVars, fairVars>>
FairSteps == part = "fairness" /\ Fair!FairNext /\ UNCHANGED <<vars, burstVars, coinVars>>

GamesNext ==
    /\ EmberSteps \/ BurstSteps \/ CoinSteps \/ FairSteps
    /\ UNCHANGED <<part, sample>>

GamesSpec == GamesInit /\ [][GamesNext]_gamesVars

-----------------------------------------------------------------------------
\* See BurstShow, CoinflipRound, FairnessCheck and CoinflipMath.

\* Each show is seen and heard whole, and its sounds end with it.
\* Code: BurstReveal.tsx, audio.ts against the spawners.
ShowIsWhole == Burst!ShowIsWhole /\ Burst!ScoreIsWhole /\ Burst!QuietAfterShow

\* The coins show what the chain decided.  Code: coinflip-public App.tsx.
CoinsTellTheTruth == Coin!CoinsTellTheTruth

\* No result is revealed during the toss.  Code: coinflip-public App.tsx.
NothingIsGivenAway == Coin!NothingIsGivenAway

\* A verdict is valid only of a genuine word, invalid only of one that is not or
\* that was relayed, and an answer leaves no request out.
\* Code: randomness-verification.ts.
VerdictsAreFair ==
    /\ Fair!ValidIsEarned
    /\ Fair!GenuineIsNotAccused
    /\ Fair!NothingIsSkipped

\* The numbers of a bet: the odds it is paid by, the coins it shows without a
\* word, and the wager it is offered.  Code: coinflip.ts, bet-limits.ts.
NumbersAgree ==
    /\ Math!WaysAreCounted(sample.bet)
    /\ Math!MadeUpFacesAgree(sample.bet)
    /\ Math!OfferedWagerFits(sample.bet, sample.casino, sample.drift)

\* A win that was seen has its card.  Code: coinflip-public App.tsx.
WinHasItsCard == Coin!WinHasItsCard

\* What is shown to the player comes to its end: the round of Ember Festival,
\* its show, and the flipping of the coins, each under its own fairness.
ShowsEnd ==
    /\ part = "ember" => (Fairness => RoundsEnd)
    /\ part = "burst" => (Burst!Fairness => Burst!ShowEnds)
    /\ part = "coin" => (Coin!CoinFairness => Coin!FlippingEnds)

\* What the sources say, against what they do.
HesitationBeat == Burst!HesitationBeat
RefundIsNoWin == Coin!RefundIsNoWin

=============================================================================
