----------------------------- MODULE CoinflipMath -----------------------------
(***************************************************************************)
(* The numbers of a coin flip bet (coinflip.ts) and the largest wager the  *)
(* SDK offers for it (bet-limits.ts).  Amounts are integers as in the      *)
(* code, divisions round down.                                             *)
(*                                                                         *)
(* A bet is a side, a number of coins and the hits it needs.  A random     *)
(* word is the set of the coins whose bit is set.                          *)
(***************************************************************************)
EXTENDS Integers, FiniteSets

BasisPoints == 10000
RtpBps == 9800

Faces(bet, word) ==
    [i \in 1..bet.coins |-> IF i \in word THEN "heads" ELSE "tails"]

PickedSide(bet) == IF bet.heads THEN "heads" ELSE "tails"
OtherSide(bet) == IF bet.heads THEN "tails" ELSE "heads"

Outcome(bet, faces, hits) ==
    [faces |-> faces, hits |-> hits, won |-> hits >= bet.need]

\* outcomeFromRandomness: the picked side counts.
OutcomeFromRandomness(bet, word) ==
    LET heads == Cardinality(word \cap 1..bet.coins)
    IN  Outcome(bet, Faces(bet, word), IF bet.heads THEN heads ELSE bet.coins - heads)

\* outcomeFromResult: faces for a result without a word, one hit short of a win
\* for a loss.
OutcomeFromResult(bet, won) ==
    LET hits == IF won THEN bet.need ELSE IF bet.need > 1 THEN bet.need - 1 ELSE 0
    IN  [faces |-> [i \in 1..bet.coins |-> IF i <= hits THEN PickedSide(bet)
                                           ELSE OtherSide(bet)],
         hits |-> hits, won |-> won]

\* nCk, by the shorter of the two products.
NCk(n, k) ==
    LET short == IF k < n - k THEN k ELSE n - k
        product[i \in 0..n] ==
            IF i = 0 THEN 1 ELSE (product[i - 1] * (n - short + i)) \div i
    IN  IF k > n THEN 0 ELSE product[short]

\* winningWays: so many words of that many coins win.
WinningWays(coins, need) ==
    LET sum[w \in 0..coins] ==
            IF w < need THEN 0 ELSE NCk(coins, w) + (IF w = 0 THEN 0 ELSE sum[w - 1])
    IN  sum[coins]

MaxPayout(wager, coins, need) ==
    (wager * RtpBps * 2 ^ coins) \div (BasisPoints * WinningWays(coins, need))

MaxReservedProfit(wager, coins, need) ==
    LET payout == MaxPayout(wager, coins, need)
    IN  IF payout > wager THEN payout - wager ELSE 0

-----------------------------------------------------------------------------
(***************************************************************************)
(* computeMaxWager.  A limit the host does not publish is None.  The       *)
(* multiplier reaches the SDK as a floating point number, which may exceed *)
(* the ratio it stands for: `drift' basis points more after rounding up.   *)
(***************************************************************************)

None == -1
NoLimit == [kind |-> "no-limit"]
Unknown == [kind |-> "unknown"]
Limit(wager) == [kind |-> "limit", wager |-> wager]

CeilDiv(a, b) == (a + b - 1) \div b

\* payoutMultiplier in basis points, rounded up.
MultiplierBps(coins, need, drift) ==
    CeilDiv(RtpBps * 2 ^ coins, WinningWays(coins, need)) + drift

\* Mutant: the multiplier is rounded down.
ComputeMaxWagerFloor(casino, bps) ==
    LET profitBps == bps - 1 - BasisPoints
        ceiling == casino.maxBet > 0
    IN  IF profitBps <= 0 THEN (IF ceiling THEN Limit(casino.maxBet) ELSE NoLimit)
        ELSE IF casino.maxProfit = None
        THEN (IF ceiling THEN Limit(casino.maxBet) ELSE Unknown)
        ELSE LET risk == (casino.maxProfit * BasisPoints) \div profitBps
             IN  Limit(IF ceiling /\ casino.maxBet < risk THEN casino.maxBet ELSE risk)

ComputeMaxWager(casino, bps) ==
    LET profitBps == bps - BasisPoints
        ceiling == casino.maxBet > 0
    IN  IF profitBps <= 0 THEN (IF ceiling THEN Limit(casino.maxBet) ELSE NoLimit)
        ELSE IF casino.maxProfit = None
        THEN (IF ceiling THEN Limit(casino.maxBet) ELSE Unknown)
        ELSE LET risk == (casino.maxProfit * BasisPoints) \div profitBps
             IN  Limit(IF ceiling /\ casino.maxBet < risk THEN casino.maxBet ELSE risk)

-----------------------------------------------------------------------------
(***************************************************************************)
(* Properties of one bet and the limits of one host                        *)
(***************************************************************************)

\* The number of winning words by which the payout is divided is the number of
\* words that win, for every bet the form allows: the product formula divides
\* at every step, and the sum runs over hits.
WaysAreCounted(bet) ==
    WinningWays(bet.coins, bet.need) =
        Cardinality({word \in SUBSET (1..bet.coins) :
                         OutcomeFromRandomness(bet, word).won})

\* The faces made up for a result without a word show that result.
MadeUpFacesAgree(bet) ==
    \A won \in BOOLEAN :
        LET outcome == OutcomeFromResult(bet, won)
            hits == {i \in 1..bet.coins : outcome.faces[i] = PickedSide(bet)}
        IN  /\ Cardinality(hits) = outcome.hits
            /\ won <=> outcome.hits >= bet.need

\* No wager up to the one computeMaxWager offers is rejected by the host: the
\* profit the game reserves for it, rounded down from the exact payout, stays
\* under the limit though the SDK only knows a rounded multiplier.
OfferedWagerFits(bet, casino, drift) ==
    LET offer == ComputeMaxWager(casino, MultiplierBps(bet.coins, bet.need, drift))
        Reserved(wager) == MaxReservedProfit(wager, bet.coins, bet.need)
    IN  /\ offer.kind = "limit" =>
            /\ casino.maxBet > 0 => offer.wager <= casino.maxBet
            /\ casino.maxProfit # None => Reserved(offer.wager) <= casino.maxProfit
        /\ offer.kind = "no-limit" => casino.maxBet <= 0 /\ Reserved(500) = 0

=============================================================================
