------------------------------ MODULE GamesProofs ------------------------------
(***************************************************************************)
(* Proofs about the games of MCGames side by side: what FrameProofs shows  *)
(* of the coin flip and its numbers, of the verification and of the show    *)
(* holds of every run of them, whatever tiers, times and changes the show  *)
(* has.                                                                    *)
(***************************************************************************)
EXTENDS MCGames, TLAPS

FP == INSTANCE FrameProofs WITH CoinBets <- MCBets, CoinWager <- 100,
          VrfNodes <- {"n1", "n2"}, Asked <- {1, 2}, Manners <- MCManners

-----------------------------------------------------------------------------
(***************************************************************************)
(* The instances of MCGames have the steps of those of FrameProofs,        *)
(* definition by definition.                                               *)
(***************************************************************************)

\* The numbers of a coin flip.
LEMMA SameNumbers ==
    ASSUME NEW bet, NEW word, NEW won, NEW wager, NEW coins, NEW need
    PROVE  /\ Coin!Faces(bet, word) = FP!Faces(bet, word)
           /\ Coin!OutcomeFromRandomness(bet, word) = FP!OutcomeFromRandomness(bet, word)
           /\ Coin!OutcomeFromResult(bet, won) = FP!OutcomeFromResult(bet, won)
           /\ Coin!MaxPayout(wager, coins, need) = FP!MaxPayout(wager, coins, need)
  <1>1. Coin!Faces(bet, word) = FP!Faces(bet, word)
    BY DEF Coin!Faces, FP!Faces
  <1>2. Coin!OutcomeFromRandomness(bet, word) = FP!OutcomeFromRandomness(bet, word)
    BY DEF Coin!OutcomeFromRandomness, FP!OutcomeFromRandomness, Coin!Faces, FP!Faces,
           Coin!Outcome, FP!Outcome, Coin!Cardinality, FP!Cardinality
  <1>3. Coin!OutcomeFromResult(bet, won) = FP!OutcomeFromResult(bet, won)
    BY DEF Coin!OutcomeFromResult, FP!OutcomeFromResult, Coin!PickedSide, FP!PickedSide,
           Coin!OtherSide, FP!OtherSide
  <1>4. Coin!MaxPayout(wager, coins, need) = FP!MaxPayout(wager, coins, need)
    BY DEF Coin!MaxPayout, FP!MaxPayout, Coin!WinningWays, FP!WinningWays, Coin!NCk,
           FP!NCk, Coin!RtpBps, FP!RtpBps, Coin!BasisPoints, FP!BasisPoints
  <1> QED
    BY <1>1, <1>2, <1>3, <1>4

\* What is claimed of the numbers of a bet.
LEMMA SameNumberClaims ==
    ASSUME NEW bet, NEW casino, NEW drift
    PROVE  /\ FP!WaysAreCounted(bet) => Math!WaysAreCounted(bet)
           /\ FP!MadeUpFacesAgree(bet) => Math!MadeUpFacesAgree(bet)
           /\ FP!OfferedWagerFits(bet, casino, drift)
                  => Math!OfferedWagerFits(bet, casino, drift)
  <1>1. /\ \A coins, need : Math!WinningWays(coins, need) = FP!WinningWays(coins, need)
        /\ \A word : Math!OutcomeFromRandomness(bet, word) = FP!OutcomeFromRandomness(bet, word)
        /\ \A won : Math!OutcomeFromResult(bet, won) = FP!OutcomeFromResult(bet, won)
        /\ \A S : Math!Cardinality(S) = FP!Cardinality(S)
    <2>1. ASSUME NEW coins, NEW need
          PROVE  Math!WinningWays(coins, need) = FP!WinningWays(coins, need)
      BY DEF Math!WinningWays, FP!WinningWays, Math!NCk, FP!NCk
    <2>2. ASSUME NEW word
          PROVE  Math!OutcomeFromRandomness(bet, word) = FP!OutcomeFromRandomness(bet, word)
      BY DEF Math!OutcomeFromRandomness, FP!OutcomeFromRandomness, Math!Faces, FP!Faces,
             Math!Outcome, FP!Outcome, Math!Cardinality, FP!Cardinality
    <2>3. ASSUME NEW won
          PROVE  Math!OutcomeFromResult(bet, won) = FP!OutcomeFromResult(bet, won)
      BY DEF Math!OutcomeFromResult, FP!OutcomeFromResult, Math!PickedSide, FP!PickedSide,
             Math!OtherSide, FP!OtherSide
    <2>4. \A S : Math!Cardinality(S) = FP!Cardinality(S)
      BY DEF Math!Cardinality, FP!Cardinality
    <2> QED
      BY <2>1, <2>2, <2>3, <2>4
  <1>2. FP!WaysAreCounted(bet) => Math!WaysAreCounted(bet)
    <2> DEFINE Counted == {word \in SUBSET (1..bet.coins) :
                              Math!OutcomeFromRandomness(bet, word).won}
               Winning == {word \in SUBSET (1..bet.coins) :
                              FP!OutcomeFromRandomness(bet, word).won}
    <2>1. Counted = Winning
      BY <1>1
    <2>2. Math!WaysAreCounted(bet)
            <=> Math!WinningWays(bet.coins, bet.need) = Math!Cardinality(Counted)
      BY DEF Math!WaysAreCounted
    <2>3. FP!WaysAreCounted(bet)
            <=> FP!WinningWays(bet.coins, bet.need) = FP!Cardinality(Winning)
      BY DEF FP!WaysAreCounted
    <2> HIDE DEF Counted, Winning
    <2> QED
      BY <1>1, <2>1, <2>2, <2>3
  <1>3. FP!MadeUpFacesAgree(bet) => Math!MadeUpFacesAgree(bet)
    <2> DEFINE Here(won) == {i \in 1..bet.coins :
                   Math!OutcomeFromResult(bet, won).faces[i] = Math!PickedSide(bet)}
               There(won) == {i \in 1..bet.coins :
                   FP!OutcomeFromResult(bet, won).faces[i] = FP!PickedSide(bet)}
    <2>1. \A won : Here(won) = There(won)
      BY <1>1 DEF Math!PickedSide, FP!PickedSide
    <2>2. FP!MadeUpFacesAgree(bet) <=>
            \A won \in BOOLEAN :
                /\ FP!Cardinality(There(won)) = FP!OutcomeFromResult(bet, won).hits
                /\ won <=> FP!OutcomeFromResult(bet, won).hits >= bet.need
      BY DEF FP!MadeUpFacesAgree
    <2>3. Math!MadeUpFacesAgree(bet) <=>
            \A won \in BOOLEAN :
                /\ Math!Cardinality(Here(won)) = Math!OutcomeFromResult(bet, won).hits
                /\ won <=> Math!OutcomeFromResult(bet, won).hits >= bet.need
      BY DEF Math!MadeUpFacesAgree
    <2> HIDE DEF Here, There
    <2> QED
      BY <1>1, <2>1, <2>2, <2>3
  <1>4. /\ \A d : Math!MultiplierBps(bet.coins, bet.need, d)
                  = FP!MultiplierBps(bet.coins, bet.need, d)
        /\ \A w : Math!MaxReservedProfit(w, bet.coins, bet.need)
                  = FP!MaxReservedProfit(w, bet.coins, bet.need)
    BY <1>1 DEF Math!MultiplierBps, FP!MultiplierBps, Math!CeilDiv, FP!CeilDiv,
           Math!RtpBps, FP!RtpBps, Math!BasisPoints, FP!BasisPoints, Math!MaxPayout,
           FP!MaxPayout, Math!MaxReservedProfit, FP!MaxReservedProfit
  <1>5. \A bps : Math!ComputeMaxWager(casino, bps) = FP!ComputeMaxWager(casino, bps)
    BY DEF Math!ComputeMaxWager, FP!ComputeMaxWager, Math!BasisPoints, FP!BasisPoints,
           Math!Limit, FP!Limit, Math!NoLimit, FP!NoLimit, Math!Unknown, FP!Unknown,
           Math!None, FP!None
  <1>6. FP!OfferedWagerFits(bet, casino, drift) => Math!OfferedWagerFits(bet, casino, drift)
    BY <1>4, <1>5 DEF Math!OfferedWagerFits, FP!OfferedWagerFits, Math!None, FP!None
  <1> QED
    BY <1>2, <1>3, <1>6

\* The steps of a round.
LEMMA SameCoinSteps ==
    /\ Coin!CoinInit = FP!CoinInit
    /\ Coin!CoinNext = FP!CoinNext
    /\ Coin!coinVars = FP!coinVars
    /\ Coin!CoinAssumption => FP!CoinAssumption
  <1> USE DEF Coin!frameSide, FP!frameSide, Coin!NoFlip, FP!NoFlip, Coin!NoCoins,
          FP!NoCoins, Coin!NoWord, FP!NoWord, Coin!NoOutcome, FP!NoOutcome,
          Coin!Ended, FP!Ended
  <1>1. Coin!HostStep = FP!HostStep
    BY DEF Coin!HostStep, FP!HostStep, Coin!SessionOpens, FP!SessionOpens,
           Coin!WordArrives, FP!WordArrives, Coin!SessionSettles, FP!SessionSettles,
           Coin!SessionCancelled, FP!SessionCancelled, Coin!PayoutArrives,
           FP!PayoutArrives
  <1>2. \A f : Coin!Won(f) = FP!Won(f) /\ Coin!Payout(f) = FP!Payout(f)
    BY SameNumbers DEF Coin!Won, FP!Won, Coin!Payout, FP!Payout
  <1>3. \A r, c : /\ Coin!OutcomeOf(r, c) = FP!OutcomeOf(r, c)
                  /\ Coin!PayoutShown(r, c) = FP!PayoutShown(r, c)
    BY <1>2, SameNumbers DEF Coin!OutcomeOf, FP!OutcomeOf, Coin!PayoutShown,
       FP!PayoutShown
  <1>4. Coin!RunEffects = FP!RunEffects
    BY <1>3 DEF Coin!RunEffects, FP!RunEffects, Coin!SettleFromRow, FP!SettleFromRow
  <1>5. /\ Coin!Push = FP!Push /\ Coin!Answered = FP!Answered
        /\ Coin!OpenFailed = FP!OpenFailed /\ Coin!Finish = FP!Finish
        /\ Coin!DismissWin = FP!DismissWin /\ Coin!SetFastMode = FP!SetFastMode
    BY DEF Coin!Push, FP!Push, Coin!Answered, FP!Answered, Coin!OpenFailed,
           FP!OpenFailed, Coin!Finish, FP!Finish, Coin!DismissWin, FP!DismissWin,
           Coin!WinVisible, FP!WinVisible, Coin!SetFastMode, FP!SetFastMode
  <1>6. \A bet : Coin!OpenRound(bet) = FP!OpenRound(bet)
    BY DEF Coin!OpenRound, FP!OpenRound, Coin!InFlight, FP!InFlight
  <1>7. Coin!CoinNext = FP!CoinNext
    BY <1>1, <1>4, <1>5, <1>6 DEF Coin!CoinNext, FP!CoinNext
  <1>8. Coin!CoinInit = FP!CoinInit /\ Coin!coinVars = FP!coinVars
    BY DEF Coin!CoinInit, FP!CoinInit, Coin!coinVars, FP!coinVars
  <1>9. Coin!CoinAssumption => FP!CoinAssumption
    BY SameNumbers DEF Coin!CoinAssumption, FP!CoinAssumption, Coin!WinsPay, FP!WinsPay
  <1> QED
    BY <1>7, <1>8, <1>9

\* What is claimed of a round.
LEMMA SameCoinClaims ==
    /\ FP!NothingIsGivenAway => NothingIsGivenAway
    /\ FP!CoinsTellTheTruth => CoinsTellTheTruth
  <1>1. FP!NothingIsGivenAway => NothingIsGivenAway
    BY DEF NothingIsGivenAway, FP!NothingIsGivenAway, Coin!NothingIsGivenAway,
           Coin!Ended, FP!Ended
  <1>2. \A f : Coin!Won(f) = FP!Won(f) /\ Coin!Payout(f) = FP!Payout(f)
    BY SameNumbers DEF Coin!Won, FP!Won, Coin!Payout, FP!Payout
  <1>3. \A S : Coin!Cardinality(S) = FP!Cardinality(S)
    BY DEF Coin!Cardinality, FP!Cardinality
  <1>4. FP!CoinsTellTheTruth => CoinsTellTheTruth
    BY <1>2, <1>3 DEF CoinsTellTheTruth, FP!CoinsTellTheTruth, Coin!CoinsTellTheTruth,
       Coin!Tossed, FP!Tossed, Coin!PickedSide, FP!PickedSide
  <1> QED
    BY <1>1, <1>4

-----------------------------------------------------------------------------
\* The verification: the log of a fulfilment and the checks on it.
LEMMA SameLogs ==
    ASSUME NEW r
    PROVE  /\ Fair!IdOf(r) = FP!IdOf(r)
           /\ Fair!Fulfilled(r) = FP!Fulfilled(r)
           /\ Fair!RecordedWord(r) = FP!RecordedWord(r)
           /\ Fair!FoundLogs(r) = FP!FoundLogs(r)
           /\ \A log : Fair!Judgement(r, log) = FP!Judgement(r, log)
           /\ Fair!Genuine(r) = FP!Genuine(r)
           /\ Fair!Relayed(r) = FP!Relayed(r)
  <1>1. /\ \A k, a : Fair!Prove(k, a) = FP!Prove(k, a)
        /\ \A k, p, a : Fair!VerifyEcvrf(k, p, a) = FP!VerifyEcvrf(k, p, a)
        /\ \A p : Fair!DeriveRandomness(p) = FP!DeriveRandomness(p)
        /\ \A k, i, p : Fair!Sign(k, i, p) = FP!Sign(k, i, p)
        /\ \A i, p, s : Fair!RecoverFulfillmentSigner(i, p, s)
                        = FP!RecoverFulfillmentSigner(i, p, s)
        /\ \A s, n : Fair!Request(s, n) = FP!Request(s, n)
        /\ \A q : Fair!ComputeRequestId(q) = FP!ComputeRequestId(q)
        /\ Fair!NoSignature = FP!NoSignature /\ Fair!OtherWord = FP!OtherWord
        /\ Fair!NoRecord = FP!NoRecord /\ Fair!CheckNames = FP!CheckNames
        /\ \A n : Fair!OtherNode(n) = FP!OtherNode(n)
    BY DEF Fair!Prove, FP!Prove, Fair!VerifyEcvrf, FP!VerifyEcvrf,
           Fair!DeriveRandomness, FP!DeriveRandomness, Fair!Sign, FP!Sign, Fair!Digest,
           FP!Digest, Fair!RecoverFulfillmentSigner, FP!RecoverFulfillmentSigner,
           Fair!Request, FP!Request, Fair!ComputeRequestId, FP!ComputeRequestId,
           Fair!NoSignature, FP!NoSignature, Fair!OtherWord, FP!OtherWord,
           Fair!OtherNode, FP!OtherNode, Fair!NoRecord, FP!NoRecord,
           Fair!CheckNames, FP!CheckNames
  <1>2. \A q : Fair!IdOf(q) = FP!IdOf(q) /\ Fair!Fulfilled(q) = FP!Fulfilled(q)
    BY <1>1 DEF Fair!IdOf, FP!IdOf, Fair!Fulfilled, FP!Fulfilled
  <1>a. \A q : Fair!ProverOf(q) = FP!ProverOf(q)
    BY <1>1 DEF Fair!ProverOf, FP!ProverOf
  <1>3. \A q : Fair!ProofOf(q) = FP!ProofOf(q)
    BY <1>1, <1>2, <1>a DEF Fair!ProofOf, FP!ProofOf
  <1>4. \A q : Fair!SignatureOf(q) = FP!SignatureOf(q)
    BY <1>1, <1>2, <1>3, <1>a DEF Fair!SignatureOf, FP!SignatureOf
  <1>5. \A q : Fair!LogOf(q) = FP!LogOf(q)
    BY <1>1, <1>2, <1>3, <1>4 DEF Fair!LogOf, FP!LogOf
  <1>6. \A q : Fair!StrayLog(q) = FP!StrayLog(q) /\ Fair!RecordedWord(q) = FP!RecordedWord(q)
    BY <1>1, <1>5 DEF Fair!StrayLog, FP!StrayLog, Fair!RecordedWord, FP!RecordedWord
  <1>7. Fair!Together(r) = FP!Together(r)
    BY <1>2 DEF Fair!Together, FP!Together
  <1>8. Fair!FoundLogs(r) = FP!FoundLogs(r)
    <2>1. Fair!Logs(r) = FP!Logs(r)
      BY <1>5, <1>6, <1>7 DEF Fair!Logs, FP!Logs
    <2> QED
      BY <1>2, <2>1 DEF Fair!FoundLogs, FP!FoundLogs
  <1>b. Fair!Relayed(r) = FP!Relayed(r)
    BY <1>7 DEF Fair!Relayed, FP!Relayed
  <1>9. Fair!FoundEcho(r) = FP!FoundEcho(r)
    BY <1>1, <1>2, <1>7, <1>b DEF Fair!FoundEcho, FP!FoundEcho, Fair!Echoes, FP!Echoes
  <1>10. \A log : Fair!Checks(r, log) = FP!Checks(r, log)
    BY <1>1, <1>2, <1>6, <1>9 DEF Fair!Checks, FP!Checks
  <1>11. \A log : Fair!Judgement(r, log) = FP!Judgement(r, log)
    BY <1>1, <1>6, <1>10 DEF Fair!Judgement, FP!Judgement
  <1>12. Fair!Genuine(r) = FP!Genuine(r)
    BY <1>1, <1>2, <1>5, <1>6 DEF Fair!Genuine, FP!Genuine
  <1> QED
    BY <1>2, <1>6, <1>8, <1>11, <1>12, <1>b

\* Its steps and what is claimed of its verdicts.
LEMMA SameVerification ==
    /\ Fair!FairInit = FP!FairInit
    /\ Fair!FairNext = FP!FairNext
    /\ Fair!fairVars = FP!fairVars
    /\ Fair!FairnessAssumption => FP!FairnessAssumption
    /\ FP!ValidIsEarned /\ FP!GenuineIsNotAccused /\ FP!NothingIsSkipped => VerdictsAreFair
  <1>1. Fair!FairInit = FP!FairInit /\ Fair!fairVars = FP!fairVars
    BY DEF Fair!FairInit, FP!FairInit, Fair!NoVerdict, FP!NoVerdict, Fair!fairVars,
           FP!fairVars
  <1>2. \A r : Fair!GiveUp(r) = FP!GiveUp(r)
    BY DEF Fair!GiveUp, FP!GiveUp, Fair!Unverified, FP!Unverified
  <1>3. \A router : Fair!AskSession(router) = FP!AskSession(router)
    BY SameLogs DEF Fair!AskSession, FP!AskSession, Fair!SessionVerification,
           FP!SessionVerification, Fair!scene, FP!scene
  <1>4. \A r, ok : Fair!Locate(r, ok) = FP!Locate(r, ok)
    BY <1>2 DEF Fair!Locate, FP!Locate, Fair!scene, FP!scene
  <1>5. \A r, ok : Fair!VerifyRequest(r, ok) = FP!VerifyRequest(r, ok)
    BY <1>2, SameLogs DEF Fair!VerifyRequest, FP!VerifyRequest, Fair!scene, FP!scene
  <1>6. Fair!AnswerSession = FP!AnswerSession /\ Fair!Retry = FP!Retry
    BY DEF Fair!AnswerSession, FP!AnswerSession, Fair!Retry, FP!Retry, Fair!scene,
           FP!scene, Fair!NoVerdict, FP!NoVerdict
  <1>7. Fair!FairNext = FP!FairNext
    BY <1>3, <1>4, <1>5, <1>6 DEF Fair!FairNext, FP!FairNext
  <1>8. Fair!FairnessAssumption => FP!FairnessAssumption
    BY DEF Fair!FairnessAssumption, FP!FairnessAssumption
  <1>9. FP!ValidIsEarned /\ FP!GenuineIsNotAccused /\ FP!NothingIsSkipped => VerdictsAreFair
    BY SameLogs DEF VerdictsAreFair, Fair!ValidIsEarned, FP!ValidIsEarned,
           Fair!GenuineIsNotAccused, FP!GenuineIsNotAccused, Fair!NothingIsSkipped,
           FP!NothingIsSkipped, Fair!Prove, FP!Prove, Fair!DeriveRandomness,
           FP!DeriveRandomness, Fair!NoVerdict, FP!NoVerdict, Fair!CheckNames,
           FP!CheckNames
  <1> QED
    BY <1>1, <1>7, <1>8, <1>9

\* The show: what its blocks make of an engine.
LEMMA SameBlocks ==
    ASSUME NEW e, NEW elapsed, NEW dt, NEW long
    PROVE  /\ Burst!Launch(e, dt, long) = FP!Burst!Launch(e, dt, long)
           /\ Burst!SlowMoBlock(e, elapsed, long) = FP!Burst!SlowMoBlock(e, elapsed, long)
           /\ Burst!BurstBlock(e, elapsed, dt, long)
              = FP!Burst!BurstBlock(e, elapsed, dt, long)
  <1>1. /\ \A a, l, h : Burst!Group(a, l, h, long) = FP!Burst!Group(a, l, h, long)
        /\ \A tier : Burst!SlowMo(tier) = FP!Burst!SlowMo(tier)
        /\ \A a, b : /\ Burst!Larger(a, b) = FP!Burst!Larger(a, b)
                     /\ Burst!Smaller(a, b) = FP!Burst!Smaller(a, b)
        /\ Burst!CometLife = FP!Burst!CometLife
        /\ Burst!SecondWaveAt = FP!Burst!SecondWaveAt
    BY DEF Burst!Group, FP!Burst!Group, Burst!SlowMo, FP!Burst!SlowMo, Burst!Larger,
           FP!Burst!Larger, Burst!Smaller, FP!Burst!Smaller, Burst!CometLife,
           FP!Burst!CometLife, Burst!SecondWaveAt, FP!Burst!SecondWaveAt
  <1>2. /\ Burst!Fizzle(long) = FP!Burst!Fizzle(long)
        /\ Burst!SmallBloom(long) = FP!Burst!SmallBloom(long)
        /\ Burst!BrightBurst(long) = FP!Burst!BrightBurst(long)
        /\ Burst!Cascade(long) = FP!Burst!Cascade(long)
        /\ Burst!GoldenWillow(long) = FP!Burst!GoldenWillow(long)
        /\ Burst!PhoenixFinale(long) = FP!Burst!PhoenixFinale(long)
        /\ Burst!SecondWave(long) = FP!Burst!SecondWave(long)
        /\ Burst!CometBurst(long) = FP!Burst!CometBurst(long)
    BY <1>1 DEF Burst!Fizzle, FP!Burst!Fizzle, Burst!SmallBloom, FP!Burst!SmallBloom,
           Burst!BrightBurst, FP!Burst!BrightBurst, Burst!Cascade, FP!Burst!Cascade,
           Burst!GoldenWillow, FP!Burst!GoldenWillow, Burst!PhoenixFinale,
           FP!Burst!PhoenixFinale, Burst!SecondWave, FP!Burst!SecondWave,
           Burst!CometBurst, FP!Burst!CometBurst
  <1>3. \A tier : Burst!Spawned(tier, long) = FP!Burst!Spawned(tier, long)
    BY <1>2 DEF Burst!Spawned, FP!Burst!Spawned
  <1>4. \A f : Burst!TriggerBurst(f, long) = FP!Burst!TriggerBurst(f, long)
    BY <1>1, <1>3 DEF Burst!TriggerBurst, FP!Burst!TriggerBurst
  <1>5. Burst!Launch(e, dt, long) = FP!Burst!Launch(e, dt, long)
    BY <1>1, <1>4 DEF Burst!Launch, FP!Burst!Launch
  <1>6. Burst!SlowMoBlock(e, elapsed, long) = FP!Burst!SlowMoBlock(e, elapsed, long)
    BY <1>1, <1>4 DEF Burst!SlowMoBlock, FP!Burst!SlowMoBlock
  <1>7. \A f : /\ Burst!FireWave(f, elapsed, long) = FP!Burst!FireWave(f, elapsed, long)
               /\ Burst!FlyComets(f, dt, long) = FP!Burst!FlyComets(f, dt, long)
    BY <1>1, <1>2 DEF Burst!FireWave, FP!Burst!FireWave, Burst!FlyComets,
           FP!Burst!FlyComets
  <1>8. \A f : /\ Burst!AgeGroups(f, dt) = FP!Burst!AgeGroups(f, dt)
               /\ Burst!Completes(f, elapsed) = FP!Burst!Completes(f, elapsed)
    BY DEF Burst!AgeGroups, FP!Burst!AgeGroups, Burst!Completes, FP!Burst!Completes,
           Burst!Alive, FP!Burst!Alive
  <1>9. Burst!BurstBlock(e, elapsed, dt, long) = FP!Burst!BurstBlock(e, elapsed, dt, long)
    BY <1>7, <1>8 DEF Burst!BurstBlock, FP!Burst!BurstBlock
  <1> QED
    BY <1>5, <1>6, <1>9

\* Its steps and what is claimed of its end.
LEMMA SameShow ==
    /\ Burst!Init = FP!Burst!Init
    /\ Burst!Next = FP!Burst!Next
    /\ Burst!vars = FP!Burst!vars
    /\ Burst!BurstAssumption => FP!Burst!BurstAssumption
    /\ FP!Burst!ShowIsWhole /\ FP!Burst!ScoreIsWhole /\ FP!Burst!QuietAfterShow
           => ShowIsWhole
  <1>1. Burst!Init = FP!Burst!Init /\ Burst!vars = FP!Burst!vars
    BY DEF Burst!Init, FP!Burst!Init, Burst!NoShow, FP!Burst!NoShow, Burst!vars,
           FP!Burst!vars
  <1>2. \A cues, tier : Burst!LongestOf(cues, tier) = FP!Burst!LongestOf(cues, tier)
    <2>1. \A tier : Burst!TierSound(tier) = FP!Burst!TierSound(tier)
      BY DEF Burst!TierSound, FP!Burst!TierSound, Burst!FizzleSound,
             FP!Burst!FizzleSound, Burst!SmallBloomSound, FP!Burst!SmallBloomSound,
             Burst!BrightBurstSound, FP!Burst!BrightBurstSound, Burst!CascadeSound,
             FP!Burst!CascadeSound, Burst!GoldenWillowSound, FP!Burst!GoldenWillowSound,
             Burst!PhoenixDetonation, FP!Burst!PhoenixDetonation
    <2>2. \A cue, tier : Burst!LengthOf(cue, tier) = FP!Burst!LengthOf(cue, tier)
      BY <2>1 DEF Burst!LengthOf, FP!Burst!LengthOf, Burst!LaunchWhoosh,
             FP!Burst!LaunchWhoosh, Burst!PhoenixSlowMo, FP!Burst!PhoenixSlowMo,
             Burst!PhoenixSecondWave, FP!Burst!PhoenixSecondWave
    <2> SUFFICES ASSUME NEW cues, NEW tier
                 PROVE  Burst!LongestOf(cues, tier) = FP!Burst!LongestOf(cues, tier)
      OBVIOUS
    <2> DEFINE L == {Burst!LengthOf(cues[i], tier) : i \in DOMAIN cues}
               M == {FP!Burst!LengthOf(cues[i], tier) : i \in DOMAIN cues}
    <2>3. L = M
      BY <2>2
    <2>4. Burst!LongestOf(cues, tier)
              = IF L = {} THEN 0 ELSE CHOOSE n \in L : \A k \in L : k <= n
      BY DEF Burst!LongestOf
    <2>5. FP!Burst!LongestOf(cues, tier)
              = IF M = {} THEN 0 ELSE CHOOSE n \in M : \A k \in M : k <= n
      BY DEF FP!Burst!LongestOf
    <2> HIDE DEF L, M
    <2> QED
      BY <2>3, <2>4, <2>5
  <1>3. \A new : Burst!Cues(new) = FP!Burst!Cues(new)
    BY DEF Burst!Cues, FP!Burst!Cues
  <1>4. \A old, mid, new : Burst!FrameCues(old, mid, new) = FP!Burst!FrameCues(old, mid, new)
    BY DEF Burst!FrameCues, FP!Burst!FrameCues
  <1>5. \A a, b : Burst!Larger(a, b) = FP!Burst!Larger(a, b)
                  /\ Burst!Smaller(a, b) = FP!Burst!Smaller(a, b)
    BY DEF Burst!Larger, FP!Burst!Larger, Burst!Smaller, FP!Burst!Smaller
  <1>6. \A d : Burst!Frame(d) = FP!Burst!Frame(d)
    <2> SUFFICES ASSUME NEW d
                 PROVE  Burst!Frame(d) = FP!Burst!Frame(d)
      OBVIOUS
    <2> DEFINE dt == Burst!Smaller(d, Burst!Cap)
               elapsed == Burst!Smaller(Burst!Settle, anim.elapsed + d)
               launched(long) == Burst!Launch([anim EXCEPT !.elapsed = elapsed], dt, long)
               new(long) == Burst!BurstBlock(Burst!SlowMoBlock(launched(long), elapsed, long),
                                             elapsed, dt, long)
               cues(long) == Burst!Cues(Burst!FrameCues(anim, launched(long), new(long)))
               dt2 == FP!Burst!Smaller(d, FP!Burst!Cap)
               elapsed2 == FP!Burst!Smaller(FP!Burst!Settle, anim.elapsed + d)
               launched2(long) ==
                   FP!Burst!Launch([anim EXCEPT !.elapsed = elapsed2], dt2, long)
               new2(long) ==
                   FP!Burst!BurstBlock(FP!Burst!SlowMoBlock(launched2(long), elapsed2, long),
                                       elapsed2, dt2, long)
               cues2(long) ==
                   FP!Burst!Cues(FP!Burst!FrameCues(anim, launched2(long), new2(long)))
    <2>1. dt = dt2 /\ elapsed = elapsed2
      BY <1>5 DEF Burst!Cap, FP!Burst!Cap, Burst!Settle, FP!Burst!Settle
    <2> HIDE DEF dt, elapsed, dt2, elapsed2
    <2>2. \A long : launched(long) = launched2(long)
      BY <2>1, SameBlocks
    <2> HIDE DEF launched, launched2
    <2>3. \A long : new(long) = new2(long)
      BY <2>1, <2>2, SameBlocks
    <2> HIDE DEF new, new2
    <2>4. \A long : cues(long) = cues2(long)
      BY <1>3, <1>4, <2>2, <2>3
    <2> HIDE DEF cues, cues2
    <2> DEFINE next(long) ==
                   /\ anim' = new(long)
                   /\ heard' = heard \o cues(long)
                   /\ audible' = Burst!Larger(Burst!Larger(0, audible - d),
                                              Burst!LongestOf(cues(long), anim.tier))
               next2(long) ==
                   /\ anim' = new2(long)
                   /\ heard' = heard \o cues2(long)
                   /\ audible' = FP!Burst!Larger(FP!Burst!Larger(0, audible - d),
                                      FP!Burst!LongestOf(cues2(long), anim.tier))
    <2>5. \A long : next(long) = next2(long)
      BY <1>2, <1>5, <2>3, <2>4
    <2>6. Burst!Frame(d) = (/\ anim.phase \notin {"none", "done"}
                            /\ \E long \in BOOLEAN : next(long)
                            /\ UNCHANGED <<tierProp, soundEnabled, changes>>)
      BY DEF Burst!Frame, cues, new, launched, elapsed, dt
    <2>7. FP!Burst!Frame(d) = (/\ anim.phase \notin {"none", "done"}
                               /\ \E long \in BOOLEAN : next2(long)
                               /\ UNCHANGED <<tierProp, soundEnabled, changes>>)
      BY DEF FP!Burst!Frame, cues2, new2, launched2, elapsed2, dt2
    <2> HIDE DEF next, next2
    <2> QED
      BY <2>5, <2>6, <2>7
  <1>7. \A d : Burst!IdleFrame(d) = FP!Burst!IdleFrame(d)
    BY <1>5 DEF Burst!IdleFrame, FP!Burst!IdleFrame
  <1>8. \A tier, sound : Burst!Initiate(tier, sound) = FP!Burst!Initiate(tier, sound)
    BY DEF Burst!Initiate, FP!Burst!Initiate, Burst!NoShow, FP!Burst!NoShow,
           Burst!Started, FP!Burst!Started, Burst!CometLife, FP!Burst!CometLife,
           Burst!LaunchWhoosh, FP!Burst!LaunchWhoosh
  <1>9. Burst!Next = FP!Burst!Next
    BY <1>6, <1>7, <1>8 DEF Burst!Next, FP!Burst!Next, Burst!SetTier, FP!Burst!SetTier,
           Burst!ToggleSound, FP!Burst!ToggleSound
  <1>10. Burst!BurstAssumption => FP!Burst!BurstAssumption
    BY DEF Burst!BurstAssumption, FP!Burst!BurstAssumption, Burst!AllTiers,
           FP!Burst!AllTiers
  <1>11. FP!Burst!ShowIsWhole /\ FP!Burst!ScoreIsWhole /\ FP!Burst!QuietAfterShow
             => ShowIsWhole
    BY DEF ShowIsWhole, Burst!ShowIsWhole, FP!Burst!ShowIsWhole, Burst!ScoreIsWhole,
           FP!Burst!ScoreIsWhole, Burst!QuietAfterShow, FP!Burst!QuietAfterShow,
           Burst!Score, FP!Burst!Score, Burst!CometLife, FP!Burst!CometLife
  <1> QED
    BY <1>1, <1>9, <1>10, <1>11

-----------------------------------------------------------------------------
(***************************************************************************)
(* The parts of a run keep what is known of the round, the verdicts and    *)
(* the show.                                                               *)
(***************************************************************************)
GamesInv == FP!CoinTruth /\ FP!FairInv /\ FP!ShowInv

\* They begin with it.
LEMMA GamesAtFirst == GamesInit => GamesInv
  <1> SUFFICES ASSUME GamesInit PROVE GamesInv
    OBVIOUS
  <1>1. FP!CoinInit /\ FP!FairInit /\ FP!Burst!Init
    BY SameCoinSteps, SameVerification, SameShow DEF GamesInit
  <1> QED
    BY FrameAssumption, <1>1, FP!CoinTruthAtFirst, FP!FairInitInv, FP!ShowInitInv DEF GamesInv

\* A step is one of the round, of the verification, of the show or of none.
LEMMA GamesSteps ==
    ASSUME [GamesNext]_gamesVars
    PROVE  /\ [FP!CoinNext]_(FP!coinVars)
           /\ [FP!FairNext]_(FP!fairVars)
           /\ [FP!Burst!Next]_(FP!Burst!vars)
  <1>1. \/ FP!CoinNext
        \/ UNCHANGED coinVars
    BY SameCoinSteps DEF GamesNext, gamesVars, EmberSteps, BurstSteps, CoinSteps, FairSteps
  <1>2. \/ FP!FairNext
        \/ UNCHANGED fairVars
    BY SameVerification DEF GamesNext, gamesVars, EmberSteps, BurstSteps, CoinSteps,
       FairSteps
  <1>3. \/ FP!Burst!Next
        \/ UNCHANGED burstVars
    BY SameShow DEF GamesNext, gamesVars, EmberSteps, BurstSteps, CoinSteps, FairSteps
  <1> QED
    BY <1>1, <1>2, <1>3 DEF coinVars, FP!coinVars, FP!frameSide, fairVars, FP!fairVars,
       burstVars, FP!Burst!vars

\* The constants of the runs are what the proofs assume of them.
LEMMA GamesFit ==
    FP!CoinAssumption /\ FP!FairnessAssumption /\ FP!Burst!BurstAssumption
  BY GamesAssumption, SameCoinSteps, SameVerification, SameShow

\* Every step keeps it.
LEMMA GamesStep ==
    ASSUME GamesInv, [GamesNext]_gamesVars
    PROVE  GamesInv'
  <1>1. FP!CoinTruth'
    BY FrameAssumption, GamesSteps, GamesFit, FP!CoinTruthStays DEF GamesInv
  <1>2. FP!FairInv'
    BY FrameAssumption, GamesSteps, GamesFit, FP!FairNextInv DEF GamesInv
  <1>3. FP!ShowInv'
    BY FrameAssumption, GamesSteps, GamesFit, FP!ShowNextInv DEF GamesInv
  <1> QED
    BY <1>1, <1>2, <1>3 DEF GamesInv

\* What is known of the parts always holds.
THEOREM GamesInvariant == GamesSpec => []GamesInv
  <1>1. GamesInv /\ [GamesNext]_gamesVars => GamesInv'
    BY GamesStep
  <1> QED
    BY <1>1, GamesAtFirst, PTL DEF GamesSpec

\* No result is revealed during the toss, in the runs of the games.
\* Code: coinflip-public App.tsx.
THEOREM TheTossIsKept == GamesSpec => []NothingIsGivenAway
  <1>1. GamesInv => NothingIsGivenAway
    BY FrameAssumption, FP!CoinInvMeans, SameCoinClaims DEF GamesInv, FP!CoinTruth
  <1> QED
    BY <1>1, GamesInvariant, PTL

\* The coins show what the chain decided and the card what it pays, in the runs
\* of the games.  Code: coinflip-public App.tsx.
THEOREM TheCoinsAreTrue == GamesSpec => []CoinsTellTheTruth
  <1>1. GamesInv => CoinsTellTheTruth
    BY FrameAssumption, GamesFit, FP!TrueTossesTell, SameCoinClaims DEF GamesInv
  <1> QED
    BY <1>1, GamesInvariant, PTL

\* A win that was seen has its card, in the runs of the games.
\* Code: coinflip-public App.tsx.
THEOREM EveryCardIsShown == GamesSpec => WinHasItsCard
  <1>1. GamesInv /\ [GamesNext]_gamesVars =>
            [coinRound.status # "done" /\ coinRound'.status = "done" /\ coinRound'.outcome.won
                 => ~winDismissed']_(Coin!coinVars)
    BY FrameAssumption, GamesSteps, FP!WinKeepsItsCard DEF GamesInv, FP!CoinTruth
  <1> QED
    BY <1>1, GamesInvariant, PTL DEF GamesSpec, WinHasItsCard, Coin!WinHasItsCard

\* A verdict is earned, in the runs of the games.
\* Code: randomness-verification.ts.
THEOREM VerdictsAreSound == GamesSpec => []VerdictsAreFair
  <1>1. GamesInv => VerdictsAreFair
    BY FrameAssumption, GamesFit, FP!VerdictsFollow, SameVerification DEF GamesInv
  <1> QED
    BY <1>1, GamesInvariant, PTL

\* The show is seen and heard whole, in the runs of the games and for every set
\* of tiers, any times between frames and any changes of the tier and the sound.
\* Code: BurstReveal.tsx, audio.ts against the spawners.
THEOREM EveryShowIsWhole == GamesSpec => []ShowIsWhole
  <1>1. GamesInv => ShowIsWhole
    BY FrameAssumption, FP!ShowInvMeans, SameShow DEF GamesInv
  <1> QED
    BY <1>1, GamesInvariant, PTL

\* Every run has a bet the form allows and limits a host may publish.
LEMMA SamplesAreBets ==
    ASSUME NEW s \in Samples
    PROVE  FP!IsBet(s.bet) /\ FP!IsCasino(s.casino) /\ s.drift \in Nat
  <1>1. s.bet \in AllBets /\ s.casino \in Limits /\ s.drift \in {0, 1}
    BY DEF Samples
  <1>2. FP!IsBet(s.bet)
    BY <1>1 DEF AllBets, FP!IsBet
  <1>3. FP!IsCasino(s.casino)
    BY <1>1 DEF Limits, FP!IsCasino, FP!None
  <1> QED
    BY <1>1, <1>2, <1>3

LEMMA SampleStays == GamesSpec => [](sample \in Samples)
  <1>1. GamesInit => sample \in Samples
    <2>1. [bet |-> [heads |-> TRUE, coins |-> 1, need |-> 1],
           casino |-> [maxBet |-> 0, maxProfit |-> 0], drift |-> 0] \in Samples
      BY DEF Samples, AllBets, Limits
    <2>2. OneSample \in Samples
      BY <2>1 DEF OneSample
    <2> QED
      BY <2>2 DEF GamesInit
  <1>2. sample \in Samples /\ [GamesNext]_gamesVars => (sample \in Samples)'
    BY DEF GamesNext, gamesVars
  <1> QED
    BY <1>1, <1>2, PTL DEF GamesSpec

\* The numbers of a bet agree, in the runs of the games: the odds it is paid by,
\* the coins it shows without a word, and the wager it is offered.
\* Code: coinflip.ts, bet-limits.ts.
THEOREM EveryNumberAgrees == GamesSpec => []NumbersAgree
  <1>1. sample \in Samples => NumbersAgree
    BY FrameAssumption, SamplesAreBets, SameNumberClaims, FP!WaysCount, FP!MadeUpCount,
       FP!OfferFits DEF NumbersAgree
  <1> QED
    BY <1>1, SampleStays, PTL

=============================================================================
