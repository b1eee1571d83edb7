---------------------------- MODULE LedgerNodeProofs ----------------------------
(***************************************************************************)
(* Proofs about two parts of the simulator: RoundLedger, for any number of *)
(* rounds, bets and restarts, a player who waits for his balance and       *)
(* actions that return before their round ends; and LocalNode, for any     *)
(* files, revisions, boots and deployments, and a folder that is left      *)
(* alone during the first scan.                                            *)
(***************************************************************************)
EXTENDS RoundLedger, FiniteTheorems, Sequences, SequenceTheorems

-----------------------------------------------------------------------------
(***************************************************************************)
(* What is known of a round                                                *)
(*                                                                         *)
(* The keys of activeRounds decide whether a read of the balance counts,   *)
(* so the invariant says which rounds have one: those whose call is under  *)
(* way and those that are tracked.  The others are left by a call that     *)
(* lost its viewport.                                                      *)
(***************************************************************************)
Phases == {"none", "open"} \cup Ended
Balances == {NoBalance} \cup Nat
ReadsOfBalance == [epoch : Nat, for : {"raw", "baseline"}, value : Balances, missed : Nat]

LedgerTypes ==
    /\ funds \in Nat
    /\ session \in [Rounds -> [phase : Phases, stake : Nat, payout : Nat]]
    /\ call \in [Rounds -> {"idle", "sending", "opened", "failed", "lost"}]
    /\ action \in [Rounds -> {NoBalance} \cup ExtraStakes]
    /\ activeRounds \subseteq Keys
    /\ baseline \in Balances
    /\ raw \in Balances
    /\ adjustment \in Int
    /\ epoch \in Nat
    /\ tracked \in [Rounds -> {"none", "open", "resume"}]
    /\ reads \subseteq ReadsOfBalance
    /\ mounted \in BOOLEAN /\ ready \in BOOLEAN
    /\ rowsChanged \in BOOLEAN /\ reconcileTimer \in BOOLEAN
    /\ patched \cup indexed \cup pendingReveal \cup following \subseteq Rounds
    /\ credited \cup orphans \cup replayed \subseteq Rounds

RoundOK(r) ==
    /\ session[r].phase = "none" => session[r] = NoSession
    /\ session[r].phase \notin Ended => session[r].payout = 0
    /\ call[r] \in {"idle", "failed"} => session[r].phase = "none"
    /\ call[r] = "opened" => session[r].phase # "none"
    /\ call[r] = "sending" => <<"open", r>> \in activeRounds
    /\ call[r] \notin {"opened", "lost"} => tracked[r] = "none" /\ action[r] = NoBalance
    /\ tracked[r] # "none" => <<tracked[r], r>> \in activeRounds
    /\ action[r] # NoBalance => session[r].phase = "open"
    /\ action[r] \notin {NoBalance, 0} => tracked[r] # "none"
    /\ r \in patched \cup indexed \cup credited => session[r].phase \in Ended
    /\ r \in credited => tracked[r] = "none" /\ call[r] \in {"opened", "lost"}
    /\ r \in pendingReveal => tracked[r] # "none"
    /\ tracked[r] # "none" /\ session[r].phase # "cancelled"
          => r \in following \cup pendingReveal

KeyOK(key) ==
    \/ key[1] = "open" /\ (call[key[2]] = "sending" \/ key[2] \in orphans)
    \/ tracked[key[2]] = key[1]

RoundsInv ==
    /\ LedgerTypes
    /\ \A r \in Rounds : RoundOK(r)
    /\ \A key \in activeRounds : KeyOK(key)
    /\ pendingReveal \cap Rows # {} => rowsChanged

\* RoundsInv holds at first.
LEMMA RoundsInvAtFirst ==
    ASSUME LedgerAssumption, Init
    PROVE  RoundsInv
  <1>1. /\ session \in [Rounds -> [phase : Phases, stake : Nat, payout : Nat]]
        /\ \A r \in Rounds :
              /\ session[r].phase \in {"none", "open"}
              /\ session[r].payout = 0
              /\ session[r].phase = "none" <=> session[r] = NoSession
    <2>1. {NoSession, OpenAt(Stake)} \subseteq [phase : Phases, stake : Nat, payout : Nat]
      BY DEF NoSession, OpenAt, Stake, Phases
    <2>2. \A s \in {NoSession, OpenAt(Stake)} :
              /\ s.phase \in {"none", "open"}
              /\ s.payout = 0
              /\ s.phase = "none" <=> s = NoSession
      BY DEF NoSession, OpenAt, Stake
    <2>3. session \in [Rounds -> {NoSession, OpenAt(Stake)}]
      BY DEF Init
    <2> QED
      BY <2>1, <2>2, <2>3
  <1>2. reads \subseteq ReadsOfBalance
    BY DEF Init, Balances, ReadsOfBalance
  <1>3. LedgerTypes
    <2>1. call \in [Rounds -> {"idle", "sending", "opened", "failed", "lost"}]
      BY DEF Init
    <2>2. /\ action \in [Rounds -> {NoBalance} \cup ExtraStakes]
          /\ tracked \in [Rounds -> {"none", "open", "resume"}]
      BY DEF Init
    <2>3. funds \in Nat
      BY DEF Init, LedgerAssumption
    <2>4. baseline \in Balances /\ raw \in Balances /\ adjustment \in Int /\ epoch \in Nat
      BY DEF Init, Balances
    <2>5. /\ mounted \in BOOLEAN /\ ready \in BOOLEAN
          /\ rowsChanged \in BOOLEAN /\ reconcileTimer \in BOOLEAN
      BY DEF Init
    <2>6. /\ activeRounds = {}
          /\ patched \cup indexed \cup pendingReveal \cup following \subseteq Rounds
          /\ credited \cup orphans \cup replayed \subseteq Rounds
      BY DEF Init
    <2> QED
      BY <1>1, <1>2, <2>1, <2>2, <2>3, <2>4, <2>5, <2>6 DEF LedgerTypes
  <1>4. \A r \in Rounds : RoundOK(r)
    BY <1>1 DEF Init, RoundOK, Ended
  <1> QED
    BY <1>3, <1>4 DEF Init, RoundsInv, Rows

\* The timer and the reads of the balance keep RoundsInv.
LEMMA HoldStep ==
    ASSUME LedgerAssumption, RoundsInv,
           \/ FireTimer
           \/ \E read \in reads : Answer(read) \/ Land(read) \/ FetchFails(read),
           UNCHANGED viewVars
    PROVE  RoundsInv'
  <1>1. UNCHANGED <<funds, session, call, action, patched, indexed, ready, rowsChanged,
                    tracked, pendingReveal, following, credited, mounted, orphans, replayed,
                    activeRounds, epoch>>
    BY DEF FireTimer, Answer, Land, FetchFails, viewVars, chainVars, callVars, rowVars,
           trackVars, guestVars, holdVars
  <1> DEFINE P == 
        /\ baseline' \in Balances /\ raw' \in Balances /\ adjustment' \in Int
        /\ reconcileTimer' \in BOOLEAN
        /\ reads' \subseteq ReadsOfBalance
  <1>2. P
    <2>1. CASE FireTimer
      <3>1. Read("baseline") \in ReadsOfBalance
        BY DEF Read, RoundsInv, LedgerTypes, Balances, ReadsOfBalance
      <3> QED
        BY <2>1, <3>1 DEF FireTimer, RoundsInv, LedgerTypes
    <2>2. ASSUME NEW read \in reads, Answer(read)
          PROVE  P
      BY <2>2 DEF Answer, RoundsInv, LedgerTypes, Balances, ReadsOfBalance, holdVars
    <2>3. ASSUME NEW read \in reads, Land(read)
          PROVE  P
      BY <2>3 DEF Land, RoundsInv, LedgerTypes, Balances, ReadsOfBalance, Seeded
    <2>4. ASSUME NEW read \in reads, FetchFails(read)
          PROVE  P
      BY <2>4 DEF FetchFails, RoundsInv, LedgerTypes, Balances, holdVars
    <2> QED
      BY <2>1, <2>2, <2>3, <2>4
  <1> QED
    BY <1>1, <1>2 DEF RoundsInv, LedgerTypes, RoundOK, KeyOK, Rows

-----------------------------------------------------------------------------
(***************************************************************************)
(* The stakes that calls gave back                                         *)
(***************************************************************************)
GivenTypes ==
    /\ mined \in [Rounds -> {0} \cup ExtraStakes]
    /\ loose \in [Rounds -> {0} \cup ExtraStakes]
    /\ givenBack \in Nat

\* What is mined or loose is an amount.
LEMMA LooseIsNat ==
    ASSUME LedgerAssumption, GivenTypes, NEW r \in Rounds
    PROVE  mined[r] \in Nat /\ loose[r] \in Nat
  <1>1. \A x \in {0} \cup ExtraStakes : x \in Nat
    BY DEF LedgerAssumption
  <1>2. mined[r] \in {0} \cup ExtraStakes /\ loose[r] \in {0} \cup ExtraStakes
    BY DEF GivenTypes
  <1> QED
    BY <1>1, <1>2

\* The reads after a stake that was given back has left the chain.
LEMMA SlippedReads ==
    ASSUME NEW stake \in Nat, reads \subseteq ReadsOfBalance, Slips(stake)
    PROVE  /\ reads' \subseteq ReadsOfBalance
           /\ \A read \in reads' :
                 \/ read \in reads /\ read.value = NoBalance
                 \/ \E old \in reads :
                       /\ old.value # NoBalance
                       /\ read.epoch = old.epoch /\ read.for = old.for
                       /\ read.value = old.value /\ read.missed = old.missed + stake
  <1>1. reads' = {IF old.value = NoBalance THEN old
                  ELSE [old EXCEPT !.missed = @ + stake] : old \in reads}
    BY DEF Slips
  <1>2. ASSUME NEW old \in reads
        PROVE  LET new == [old EXCEPT !.missed = @ + stake] IN
               /\ new \in ReadsOfBalance
               /\ new.epoch = old.epoch /\ new.for = old.for
               /\ new.value = old.value /\ new.missed = old.missed + stake
    BY DEF ReadsOfBalance
  <1>3. ASSUME NEW read \in reads'
        PROVE  /\ read \in ReadsOfBalance
               /\ \/ read \in reads /\ read.value = NoBalance
                  \/ \E old \in reads :
                        /\ old.value # NoBalance
                        /\ read.epoch = old.epoch /\ read.for = old.for
                        /\ read.value = old.value /\ read.missed = old.missed + stake
    <2>1. PICK old \in reads : read = IF old.value = NoBalance THEN old
                                       ELSE [old EXCEPT !.missed = @ + stake]
      BY <1>1, <1>3
    <2>2. CASE old.value = NoBalance
      BY <2>1, <2>2
    <2>3. CASE old.value # NoBalance
      BY <1>2, <2>1, <2>3
    <2> QED
      BY <2>2, <2>3
  <1> QED
    BY <1>3

\* Every step keeps the amounts that were given back.
LEMMA GivenStep ==
    ASSUME LedgerAssumption, RoundsInv, GivenTypes, [Next]_vars
    PROVE  GivenTypes'
  <1>1. /\ Stake \in Nat
        /\ action \in [Rounds -> {NoBalance} \cup ExtraStakes]
        /\ \A r \in Rounds : mined[r] \in Nat /\ loose[r] \in Nat
        /\ \A read \in reads : read.missed \in Nat
    <2>1. \A read \in reads : read.missed \in Nat
      BY DEF RoundsInv, LedgerTypes, ReadsOfBalance
    <2>2. Stake \in Nat /\ action \in [Rounds -> {NoBalance} \cup ExtraStakes]
      BY DEF Stake, RoundsInv, LedgerTypes
    <2> QED
      BY <2>1, <2>2, LooseIsNat
  <1>2. ASSUME UNCHANGED <<mined, loose, givenBack>>
        PROVE  GivenTypes'
    BY <1>2 DEF GivenTypes
  <1>3. CASE UNCHANGED vars
    BY <1>2, <1>3 DEF vars, callVars, holdVars
  <1>4. ASSUME NEW read \in reads, Land(read)
        PROVE  GivenTypes'
    BY <1>1, <1>4 DEF Land, callVars, GivenTypes
  <1>5. ASSUME NEW r \in Rounds, OpenMinedLate(r) \/ ActionMinedLate(r)
        PROVE  GivenTypes'
    BY <1>1, <1>5 DEF OpenMinedLate, ActionMinedLate, Slips, callVars, GivenTypes
  <1>6. ASSUME NEW r \in Rounds,
               OpenGivesUp(r) \/ ActionGivesUp(r) \/ MinedActionGivesUp(r) \/ ActionMined(r)
                  \/ ActionReturns(r)
        PROVE  GivenTypes'
    BY <1>1, <1>6 DEF OpenGivesUp, ActionGivesUp, MinedActionGivesUp, ActionMined, ActionReturns,
                      actionVars, holdVars, GivenTypes
  <1>7. ASSUME \/ FireTimer \/ Unmount \/ Mount \/ ToggleWallet \/ SettleTrackedRounds
               \/ \E read \in reads : Answer(read) \/ FetchFails(read)
               \/ \E r \in Rounds : \/ MineOpen(r) \/ Flash(r) \/ Index(r) \/ Clear(r)
                                    \/ OpenSession(r) \/ Opened(r) \/ OpenFails(r)
                                    \/ ActionFails(r) \/ Reveal(r)
                                    \/ \E extra \in ExtraStakes : SubmitAction(r, extra)
                                    \/ \E phase, payout : Settle(r, phase, payout)
        PROVE  UNCHANGED <<mined, loose, givenBack>>
    <2>1. CASE \/ FireTimer \/ Unmount \/ Mount \/ ToggleWallet
               \/ \E read \in reads : Answer(read) \/ FetchFails(read)
      BY <2>1 DEF FireTimer, Unmount, Mount, ToggleWallet, Answer, FetchFails, callVars, holdVars
    <2>2. CASE SettleTrackedRounds
      BY <2>2 DEF SettleTrackedRounds, EndRounds, callVars
    <2>3. ASSUME NEW r \in Rounds,
                 \/ MineOpen(r) \/ Flash(r) \/ Index(r) \/ Clear(r) \/ Opened(r)
                 \/ OpenFails(r) \/ ActionFails(r) \/ OpenSession(r)
                 \/ \E phase, payout : Settle(r, phase, payout)
          PROVE  UNCHANGED <<mined, loose, givenBack>>
      BY <2>3 DEF MineOpen, Flash, Index, Clear, Opened, OpenFails, ActionFails, OpenSession,
                  Settle, BetPlaced, actionVars, callVars, holdVars
    <2>4. ASSUME NEW r \in Rounds, Reveal(r)
          PROVE  UNCHANGED <<mined, loose, givenBack>>
      BY <2>4 DEF Reveal, EndRounds, callVars, holdVars
    <2>5. ASSUME NEW r \in Rounds, NEW extra \in ExtraStakes, SubmitAction(r, extra)
          PROVE  UNCHANGED <<mined, loose, givenBack>>
      BY <2>5 DEF SubmitAction, BetPlaced, holdVars
    <2> QED
      BY <1>7, <2>1, <2>2, <2>3, <2>4, <2>5
  <1>8. CASE PlayNext
    BY <1>2, <1>4, <1>5, <1>6, <1>7, <1>8 DEF PlayNext
  <1>9. CASE Trouble
    BY <1>2, <1>6, <1>7, <1>9 DEF Trouble
  <1>10. CASE Mount
    BY <1>2, <1>7, <1>10
  <1> QED
    BY <1>3, <1>8, <1>9, <1>10 DEF Next

\* A step of the chain in one round.
LEMMA ChainStep ==
    ASSUME LedgerAssumption, ~LateActions, RoundsInv, GivenTypes, NEW r \in Rounds,
           \/ MineOpen(r) \/ OpenMinedLate(r)
           \/ Settle(r, "settled", 0)
           \/ Settle(r, "settled", 2 * session[r].stake)
           \/ Settle(r, "cancelled", session[r].stake)
           \/ ActionMined(r) \/ ActionMinedLate(r),
           UNCHANGED viewVars
    PROVE  RoundsInv'
  <1> DEFINE T == [phase : Phases, stake : Nat, payout : Nat]
  <1>1. /\ UNCHANGED <<call, patched, indexed, ready, rowsChanged, tracked, pendingReveal,
                       following, credited, mounted, orphans, replayed, activeRounds, epoch>>
        /\ UNCHANGED <<baseline, raw, adjustment, reconcileTimer>>
        /\ action' \in [Rounds -> {NoBalance} \cup ExtraStakes]
        /\ \A x \in Rounds \ {r} : action'[x] = action[x]
        /\ action'[r] \in {action[r], NoBalance}
    BY DEF MineOpen, OpenMinedLate, Settle, ActionMined, ActionMinedLate, Slips, viewVars,
           callVars, rowVars, trackVars, guestVars, holdVars, readVars, RoundsInv, LedgerTypes
  <1>1a. reads' \subseteq ReadsOfBalance
    <2>1. reads \subseteq ReadsOfBalance
      BY DEF RoundsInv, LedgerTypes
    <2>2. ASSUME NEW stake \in Nat, Slips(stake)
          PROVE  reads' \subseteq ReadsOfBalance
      BY <2>1, <2>2, SlippedReads
    <2>3. Stake \in Nat /\ loose[r] \in Nat
      BY LooseIsNat DEF Stake
    <2>4. CASE OpenMinedLate(r)
      BY <2>2, <2>3, <2>4 DEF OpenMinedLate
    <2>5. CASE ActionMinedLate(r)
      BY <2>2, <2>3, <2>5 DEF ActionMinedLate
    <2>6. CASE ~OpenMinedLate(r) /\ ~ActionMinedLate(r)
      BY <2>1, <2>6 DEF MineOpen, Settle, ActionMined, readVars
    <2> QED
      BY <2>4, <2>5, <2>6
  <1>2. /\ session[r] \in T /\ session \in [Rounds -> T]
        /\ action[r] \in {NoBalance} \cup Nat /\ funds \in Nat
        /\ RoundOK(r)
    BY DEF RoundsInv, LedgerTypes, LedgerAssumption
  <1>3. \E s \in T :
           /\ session' = [session EXCEPT ![r] = s]
           /\ s.phase # "none"
           /\ s.phase = "open" => s.payout = 0
           /\ s.phase # "open" => action[r] = NoBalance
           /\ call[r] \in {"sending", "opened", "lost"}
           /\ session[r].phase \notin Ended
           /\ session[r].phase = "open"
              \/ (call[r] \in {"sending", "lost"} /\ s.phase = "open")
           /\ funds' \in Nat
    <2>1. CASE MineOpen(r) \/ OpenMinedLate(r)
      <3>1. OpenAt(Stake) \in T /\ OpenAt(Stake).phase = "open" /\ OpenAt(Stake).payout = 0
        BY DEF OpenAt, Stake, Phases
      <3>2. session[r].phase = "none"
        BY <2>1 DEF MineOpen, OpenMinedLate, NoSession
      <3>3. /\ session' = [session EXCEPT ![r] = OpenAt(Stake)]
            /\ call[r] \in {"sending", "lost"}
            /\ funds' \in Nat
        BY <1>2, <2>1 DEF MineOpen, OpenMinedLate, Slips, Stake
      <3> QED
        BY <3>1, <3>2, <3>3 DEF Ended
    <2>2. ASSUME NEW phase \in Ended, NEW payout \in Nat, Settle(r, phase, payout)
          PROVE  <1>3
      <3> DEFINE s == [session[r] EXCEPT !.phase = phase, !.payout = payout]
      <3>1. s \in T /\ s.phase = phase
        BY <1>2, <2>2 DEF Phases
      <3>2. session' = [session EXCEPT ![r] = s] /\ session[r].phase = "open"
            /\ action[r] = NoBalance
        BY <2>2 DEF Settle
      <3>3. call[r] \in {"sending", "opened", "lost"}
        BY <1>2, <3>2 DEF RoundOK, RoundsInv, LedgerTypes
      <3>4. funds' \in Nat
        BY <1>2, <2>2 DEF Settle
      <3> HIDE DEF s
      <3> QED
        BY <3>1, <3>2, <3>3, <3>4 DEF Ended
    <2>3. CASE ActionMined(r) \/ ActionMinedLate(r)
      <3> DEFINE extra == IF ActionMined(r) THEN action[r] ELSE loose[r]
                 s == [session[r] EXCEPT !.stake = @ + extra]
      <3>0. loose[r] \in Nat
        BY LooseIsNat
      <3>1. session' = [session EXCEPT ![r] = s] /\ session[r].phase = "open"
            /\ extra \in Nat /\ funds' \in Nat
        BY <1>2, <2>3, <3>0 DEF ActionMined, ActionMinedLate, Slips
      <3>2. s \in T /\ s.phase = "open" /\ s.payout = session[r].payout
        BY <1>2, <3>1 DEF Phases
      <3>3. session[r].payout = 0
        BY <1>2, <3>1 DEF RoundOK, Ended
      <3>4. call[r] \in {"sending", "opened", "lost"}
        BY <1>2, <3>1 DEF RoundOK, RoundsInv, LedgerTypes
      <3> HIDE DEF s
      <3> QED
        BY <3>1, <3>2, <3>3, <3>4 DEF Ended
    <2>4. session[r].stake \in Nat /\ 2 * session[r].stake \in Nat
      BY <1>2
    <2> QED
      BY <2>1, <2>2, <2>3, <2>4 DEF Ended
  <1>4. PICK s \in T :
           /\ session' = [session EXCEPT ![r] = s]
           /\ s.phase # "none"
           /\ s.phase = "open" => s.payout = 0
           /\ s.phase # "open" => action[r] = NoBalance
           /\ call[r] \in {"sending", "opened", "lost"}
           /\ session[r].phase \notin Ended
           /\ session[r].phase = "open"
              \/ (call[r] \in {"sending", "lost"} /\ s.phase = "open")
           /\ funds' \in Nat
    BY <1>3
  <1>5. /\ session' \in [Rounds -> T] /\ session'[r] = s
        /\ \A x \in Rounds \ {r} : session'[x] = session[x]
    BY <1>2, <1>4
  <1> HIDE DEF T
  <1>6. LedgerTypes'
    BY <1>1, <1>1a, <1>4, <1>5 DEF RoundsInv, LedgerTypes, T
  <1>7. ASSUME NEW x \in Rounds
        PROVE  RoundOK(x)'
    <2>1. CASE x # r
      BY <1>1, <1>5, <2>1 DEF RoundsInv, RoundOK
    <2>2. CASE x = r
      <3>1. s.phase \in Phases
        BY <1>4 DEF T
      <3> QED
        BY <1>1, <1>2, <1>4, <1>5, <2>2, <3>1 DEF RoundOK, Phases, Ended, NoSession
    <2> QED
      BY <2>1, <2>2
  <1>8. (\A key \in activeRounds : KeyOK(key))' /\ (pendingReveal \cap Rows # {} => rowsChanged)'
    BY <1>1 DEF RoundsInv, KeyOK, Rows
  <1> QED
    BY <1>6, <1>7, <1>8 DEF RoundsInv

\* The steps of the guest and of the calls.
LEMMA BetStep ==
    ASSUME LedgerAssumption, ~LateActions, RoundsInv, GivenTypes, NEW r \in Rounds,
           \/ OpenSession(r)
           \/ Opened(r)
           \/ OpenFails(r) \/ OpenGivesUp(r)
           \/ \E extra \in ExtraStakes : SubmitAction(r, extra)
           \/ ActionReturns(r) \/ ActionFails(r) \/ ActionGivesUp(r) \/ MinedActionGivesUp(r),
           UNCHANGED viewVars
    PROVE  RoundsInv'
  <1>1. /\ UNCHANGED <<session, patched, indexed, ready, rowsChanged, pendingReveal,
                       credited, mounted, orphans, replayed, funds, raw, reads>>
    BY DEF OpenSession, Opened, OpenFails, OpenGivesUp, SubmitAction, ActionReturns,
           ActionFails, ActionGivesUp, MinedActionGivesUp, viewVars, rowVars, chainVars,
           readVars, trackVars, guestVars
  <1>2. /\ RoundsInv /\ LedgerTypes /\ RoundOK(r)
        /\ session[r].phase \in Phases
        /\ NoSession.phase = "none"
        /\ <<"open", r>> \in Keys /\ <<"resume", r>> \in Keys
        /\ \A x \in ExtraStakes : x \in Nat
    BY DEF RoundsInv, LedgerTypes, NoSession, Keys, LedgerAssumption
  <1>3. CASE OpenSession(r)
    <2>1. /\ call' = [call EXCEPT ![r] = "sending"]
          /\ epoch' = epoch + 1 /\ reconcileTimer' = FALSE
          /\ activeRounds' = activeRounds \cup {<<"open", r>>}
          /\ adjustment' = adjustment - 1
          /\ UNCHANGED <<baseline, action, tracked, following>>
          /\ call[r] = "idle"
      BY <1>3 DEF OpenSession, BetPlaced, Stake, actionVars, trackVars, guestVars
    <2>2. LedgerTypes'
      <3>1. call' \in [Rounds -> {"idle", "sending", "opened", "failed", "lost"}]
        BY <1>2, <2>1 DEF LedgerTypes
      <3>2. epoch' \in Nat /\ adjustment' \in Int
        BY <1>2, <2>1 DEF LedgerTypes
      <3>3. activeRounds' \subseteq Keys
        BY <1>2, <2>1 DEF LedgerTypes
      <3>4. reconcileTimer' \in BOOLEAN
        BY <2>1
      <3> QED
        BY <1>1, <1>2, <2>1, <3>1, <3>2, <3>3, <3>4 DEF LedgerTypes
    <2>3. \A x \in Rounds : RoundOK(x)'
      BY ZenonT(60), <1>1, <1>2, <2>1 DEF RoundsInv, LedgerTypes, RoundOK, Ended
    <2>4. (\A key \in activeRounds : KeyOK(key))'
      BY <1>1, <1>2, <2>1 DEF RoundsInv, LedgerTypes, KeyOK, Keys
    <2> QED
      BY <1>1, <2>2, <2>3, <2>4 DEF RoundsInv, Rows
  <1>4. CASE Opened(r)
    <2>1. /\ call' = [call EXCEPT ![r] = "opened"]
          /\ call[r] = "sending" /\ session[r] # NoSession
          /\ UNCHANGED <<baseline, adjustment, activeRounds, epoch, reconcileTimer, action>>
          /\ IF r \in orphans
             THEN UNCHANGED <<tracked, following>>
             ELSE /\ tracked' = [tracked EXCEPT ![r] = "open"]
                  /\ following' = following \cup {r}
      BY <1>4 DEF Opened, actionVars, holdVars
    <2>2. LedgerTypes'
      BY <1>1, <1>2, <2>1 DEF LedgerTypes
    <2>3. \A x \in Rounds : RoundOK(x)'
      <3>1. ASSUME NEW x \in Rounds \ {r}
            PROVE  RoundOK(x)'
        <4>1. /\ call'[x] = call[x] /\ tracked'[x] = tracked[x]
              /\ x \in following' <=> x \in following
          BY <1>2, <2>1 DEF LedgerTypes
        <4> QED
          BY <1>1, <2>1, <4>1 DEF RoundsInv, RoundOK
      <3>2. RoundOK(r)'
        <4>1. call'[r] = "opened" /\ session[r].phase # "none"
          BY <1>2, <2>1 DEF LedgerTypes, RoundOK
        <4>2. \/ tracked'[r] = "none" /\ r \in orphans
              \/ tracked'[r] = "open" /\ r \in following'
          BY <1>2, <2>1 DEF LedgerTypes, RoundOK
        <4> QED
          BY <1>1, <1>2, <2>1, <4>1, <4>2 DEF RoundOK
      <3> QED
        BY <3>1, <3>2
    <2>4. (\A key \in activeRounds : KeyOK(key))'
      BY <1>1, <1>2, <2>1 DEF RoundsInv, LedgerTypes, RoundOK, KeyOK, Keys
    <2> QED
      BY <1>1, <2>2, <2>3, <2>4 DEF RoundsInv, Rows
  <1>5. CASE OpenFails(r) \/ OpenGivesUp(r)
    <2> DEFINE outcome == IF OpenFails(r) THEN "failed" ELSE "lost"
    <2>1. /\ call' = [call EXCEPT ![r] = outcome]
          /\ call[r] = "sending" /\ (outcome = "failed" => session[r] = NoSession)
          /\ activeRounds' = activeRounds \ {<<"open", r>>}
          /\ adjustment' \in Int /\ baseline' \in {baseline, raw}
          /\ reconcileTimer' \in BOOLEAN
          /\ UNCHANGED <<action, tracked, following, epoch>>
      <3>1. /\ call' = [call EXCEPT ![r] = outcome]
            /\ call[r] = "sending" /\ (outcome = "failed" => session[r] = NoSession)
            /\ RoundsEnded({<<"open", r>>}, 0, Stake)
            /\ UNCHANGED <<action, tracked, following>>
        BY <1>5 DEF OpenFails, OpenGivesUp, actionVars, trackVars, guestVars
      <3> HIDE DEF outcome
      <3>2. adjustment \in Int /\ Stake \in Int
        BY <1>2 DEF LedgerTypes, Stake
      <3>3. /\ activeRounds' = activeRounds \ {<<"open", r>>}
            /\ adjustment' \in Int /\ baseline' \in {baseline, raw}
            /\ reconcileTimer' \in BOOLEAN /\ epoch' = epoch
        <4>1. /\ activeRounds' = activeRounds \ ({<<"open", r>>} \cap activeRounds)
              /\ adjustment' = adjustment + Stake + 0 /\ baseline' = Seeded(raw)
              /\ reconcileTimer' \in BOOLEAN /\ epoch' = epoch
          BY <3>1 DEF RoundsEnded
        <4>2. baseline' \in {baseline, raw}
          BY <4>1 DEF Seeded
        <4> QED
          BY <3>2, <4>1, <4>2
      <3> QED
        BY <3>1, <3>3
    <2>1a. outcome \in {"failed", "lost"}
      OBVIOUS
    <2> HIDE DEF outcome
    <2>2. LedgerTypes'
      BY <1>1, <1>2, <2>1, <2>1a DEF LedgerTypes
    <2>3. \A x \in Rounds : RoundOK(x)'
      BY ZenonT(60), <1>1, <1>2, <2>1, <2>1a DEF RoundsInv, LedgerTypes, RoundOK, Ended
    <2>4. (\A key \in activeRounds : KeyOK(key))'
      BY <1>1, <1>2, <2>1, <2>1a DEF RoundsInv, LedgerTypes, RoundOK, KeyOK, Keys
    <2> QED
      BY <1>1, <2>2, <2>3, <2>4 DEF RoundsInv, Rows
  <1>6. ASSUME NEW extra \in ExtraStakes, SubmitAction(r, extra)
        PROVE  RoundsInv'
    <2> DEFINE kind == IF tracked[r] = "none" THEN "resume" ELSE tracked[r]
    <2>1. /\ action' = [action EXCEPT ![r] = extra]
          /\ tracked' = [tracked EXCEPT ![r] = kind]
          /\ following' = following \cup {r}
          /\ call[r] \in {"opened", "lost"} /\ session[r].phase = "open"
          /\ UNCHANGED call
          /\ \/ tracked[r] # "none" /\ UNCHANGED holdVars
             \/ BetPlaced(<<tracked'[r], r>>, extra)
      BY <1>6 DEF SubmitAction
    <2>1a. kind \in {"open", "resume"} /\ tracked'[r] = kind
      BY <1>2, <2>1 DEF LedgerTypes
    <2>1b. /\ activeRounds' = activeRounds \/ activeRounds' = activeRounds \cup {<<kind, r>>}
           /\ tracked[r] # "none" \/ activeRounds' = activeRounds \cup {<<kind, r>>}
           /\ epoch' \in Nat /\ adjustment' \in Int /\ baseline' = baseline
           /\ reconcileTimer' \in BOOLEAN
      <3> HIDE DEF kind
      <3>1. CASE tracked[r] # "none" /\ UNCHANGED holdVars
        BY <1>2, <3>1 DEF LedgerTypes, holdVars
      <3>2. CASE BetPlaced(<<tracked'[r], r>>, extra)
        <4>1. /\ activeRounds' = activeRounds \cup {<<kind, r>>}
              /\ epoch' = epoch + 1 /\ adjustment' = adjustment - extra
              /\ baseline' = baseline /\ reconcileTimer' = FALSE
          BY <2>1a, <3>2 DEF BetPlaced
        <4>2. extra \in Nat /\ epoch \in Nat /\ adjustment \in Int
          BY <1>2 DEF LedgerTypes
        <4>3. epoch' \in Nat /\ adjustment' \in Int
          BY <4>1, <4>2
        <4>4. reconcileTimer' \in BOOLEAN
          BY <4>1
        <4> QED
          BY <4>1, <4>3, <4>4
      <3> QED
        BY <2>1, <3>1, <3>2
    <2> HIDE DEF kind
    <2>2. LedgerTypes'
      BY <1>1, <1>2, <2>1, <2>1a, <2>1b DEF LedgerTypes
    <2>3. \A x \in Rounds : RoundOK(x)'
      BY ZenonT(60), <1>1, <1>2, <2>1, <2>1a, <2>1b DEF RoundsInv, LedgerTypes, RoundOK, Ended, kind
    <2>4. (\A key \in activeRounds : KeyOK(key))'
      BY <1>1, <1>2, <2>1, <2>1a, <2>1b DEF RoundsInv, LedgerTypes, RoundOK, KeyOK, Keys, kind
    <2> QED
      BY <1>1, <2>2, <2>3, <2>4 DEF RoundsInv, Rows
  <1>7. ASSUME /\ action' \in [Rounds -> {NoBalance} \cup ExtraStakes]
               /\ \A x \in Rounds : action'[x] \in {action[x], NoBalance}
               /\ adjustment' \in Int /\ baseline' \in {baseline, raw}
               /\ reconcileTimer' \in BOOLEAN
               /\ UNCHANGED <<call, activeRounds, tracked, following, epoch>>
        PROVE  RoundsInv'
    <2>2. LedgerTypes'
      BY <1>1, <1>2, <1>7 DEF LedgerTypes
    <2>3. ASSUME NEW x \in Rounds PROVE RoundOK(x)'
      <3>1. RoundOK(x) /\ action'[x] \in {action[x], NoBalance}
        BY <1>7 DEF RoundsInv
      <3> QED
        BY <1>1, <1>7, <3>1 DEF RoundOK
    <2>4. (\A key \in activeRounds : KeyOK(key))'
      BY <1>1, <1>7 DEF RoundsInv, KeyOK
    <2> QED
      BY <1>1, <2>2, <2>3, <2>4 DEF RoundsInv, Rows
  <1>8. CASE ActionFails(r) \/ ActionGivesUp(r)
    <2>1. /\ action' = [action EXCEPT ![r] = NoBalance]
          /\ adjustment' \in Int /\ baseline' \in {baseline, raw}
          /\ reconcileTimer' \in BOOLEAN
          /\ UNCHANGED <<call, activeRounds, tracked, following, epoch>>
      BY <1>2, <1>8 DEF ActionFails, ActionGivesUp, RoundsEnded, Seeded, trackVars, guestVars,
         LedgerTypes, NoBalance
    <2>2. /\ action' \in [Rounds -> {NoBalance} \cup ExtraStakes]
          /\ \A x \in Rounds : action'[x] \in {action[x], NoBalance}
      BY <1>2, <2>1 DEF LedgerTypes
    <2> QED
      BY <1>7, <2>1, <2>2
  <1>9. CASE MinedActionGivesUp(r)
    <2>1. /\ action' = action
          /\ adjustment' = adjustment + mined[r] + 0 /\ baseline' \in {baseline, raw}
          /\ reconcileTimer' \in BOOLEAN
          /\ UNCHANGED <<call, activeRounds, tracked, following, epoch>>
      BY <1>2, <1>9 DEF MinedActionGivesUp, RoundsEnded, Seeded, trackVars, guestVars,
         LedgerTypes
    <2>2. adjustment' \in Int
      <3>1. mined[r] \in Nat /\ adjustment \in Int
        BY <1>2, LooseIsNat DEF LedgerTypes
      <3> QED
        BY <2>1, <3>1
    <2>3. action' \in [Rounds -> {NoBalance} \cup ExtraStakes]
      BY <1>2, <2>1 DEF LedgerTypes
    <2> QED
      BY <1>7, <2>1, <2>2, <2>3
  <1>10. CASE ActionReturns(r)
    <2>1. UNCHANGED <<call, action, activeRounds, tracked, following, epoch, adjustment, baseline,
                      reconcileTimer>>
      BY <1>10 DEF ActionReturns, holdVars, trackVars, guestVars
    <2>2. /\ action' \in [Rounds -> {NoBalance} \cup ExtraStakes]
          /\ adjustment' \in Int /\ reconcileTimer' \in BOOLEAN
      BY <1>2, <2>1 DEF LedgerTypes
    <2> QED
      BY <1>7, <2>1, <2>2
  <1> QED
    BY <1>3, <1>4, <1>5, <1>6, <1>8, <1>9, <1>10

\* Wallet, flashblocks and rows.
LEMMA RowStep ==
    ASSUME LedgerAssumption, RoundsInv,
           \/ \E r \in Rounds : Flash(r) \/ Index(r) \/ Clear(r)
           \/ ToggleWallet,
           UNCHANGED viewVars
    PROVE  RoundsInv'
  <1>1. /\ UNCHANGED <<session, call, action, credited, mounted, orphans, replayed, funds, raw,
                       reads, readFailed, baseline, adjustment, activeRounds, epoch,
                       reconcileTimer, tracked, pendingReveal>>
    BY DEF Flash, Index, Clear, ToggleWallet, viewVars, chainVars, callVars, holdVars, readVars,
           trackVars, guestVars
  <1>2. LedgerTypes /\ \A r \in Rounds : RoundOK(r)
    BY DEF RoundsInv
  <1>3. (\A key \in activeRounds : KeyOK(key))'
    BY <1>1 DEF RoundsInv, KeyOK
  <1>4. ASSUME NEW r \in Rounds, Flash(r)
        PROVE  RoundsInv'
    <2>1. /\ patched' = patched \cup {r} /\ session[r].phase \in Ended
          /\ UNCHANGED <<indexed, ready, rowsChanged, following>>
      BY <1>4 DEF Flash, guestVars
    <2>2. LedgerTypes'
      BY <1>1, <1>2, <2>1 DEF LedgerTypes
    <2>3. \A x \in Rounds : RoundOK(x)'
      BY <1>1, <1>2, <2>1 DEF RoundOK
    <2> QED
      BY <1>1, <1>3, <2>1, <2>2, <2>3 DEF RoundsInv, Rows
  <1>5. ASSUME NEW r \in Rounds, Index(r)
        PROVE  RoundsInv'
    <2>1. /\ indexed' = indexed \cup {r} /\ session[r].phase \in Ended
          /\ rowsChanged' = (rowsChanged \/ ready)
          /\ UNCHANGED <<patched, ready, following>>
      BY <1>5 DEF Index, guestVars
    <2>2. LedgerTypes'
      BY <1>1, <1>2, <2>1 DEF LedgerTypes
    <2>3. \A x \in Rounds : RoundOK(x)'
      BY <1>1, <1>2, <2>1 DEF RoundOK
    <2>4. (pendingReveal \cap Rows # {} => rowsChanged)'
      BY <1>1, <2>1 DEF RoundsInv, Rows
    <2> QED
      BY <1>1, <1>3, <2>1, <2>2, <2>3, <2>4 DEF RoundsInv
  <1>6. ASSUME NEW r \in Rounds, Clear(r)
        PROVE  RoundsInv'
    <2>1. /\ following' = following \ {r} /\ session[r].phase = "cancelled"
          /\ UNCHANGED <<patched, indexed, ready, rowsChanged>>
      BY <1>6 DEF Clear, rowVars
    <2>2. LedgerTypes'
      BY <1>1, <1>2, <2>1 DEF LedgerTypes
    <2>3. \A x \in Rounds : RoundOK(x)'
      BY <1>1, <1>2, <2>1 DEF RoundOK
    <2> QED
      BY <1>1, <1>3, <2>1, <2>2, <2>3 DEF RoundsInv, Rows
  <1>7. CASE ToggleWallet
    <2>1. /\ ready' = ~ready /\ rowsChanged' = TRUE
          /\ UNCHANGED <<patched, indexed, following>>
      BY <1>7 DEF ToggleWallet, guestVars
    <2>2. LedgerTypes'
      BY <1>1, <1>2, <2>1 DEF LedgerTypes
    <2>3. \A x \in Rounds : RoundOK(x)'
      BY <1>1, <1>2, <2>1 DEF RoundOK
    <2> QED
      BY <1>1, <1>3, <2>1, <2>2, <2>3 DEF RoundsInv, Rows
  <1> QED
    BY <1>4, <1>5, <1>6, <1>7

\* endRound for rounds whose result is known.
LEMMA EndedRounds ==
    ASSUME LedgerAssumption, RoundsInv, NEW rs \in SUBSET Rounds, EndRounds(rs),
           \A r \in rs : tracked[r] # "none" /\ session[r].phase \in Ended
    PROVE  /\ activeRounds' = activeRounds \ {<<tracked[r], r>> : r \in rs}
           /\ tracked' \in [Rounds -> {"none", "open", "resume"}]
           /\ \A r \in Rounds : tracked'[r] = IF r \in rs THEN "none" ELSE tracked[r]
           /\ adjustment' = adjustment + SumFunctionOnSet([r \in Rounds |-> session[r].payout], rs)
           /\ SumFunctionOnSet([r \in Rounds |-> session[r].payout], rs) \in Nat
           /\ baseline' = Seeded(raw)
           /\ reconcileTimer' \in BOOLEAN
           /\ credited' = credited \cup rs
           /\ epoch' = epoch
  <1> DEFINE p == [r \in Rounds |-> session[r].payout]
             paid == SumFunctionOnSet(p, rs)
             keys == {<<tracked[r], r>> : r \in rs}
  <1>1. /\ tracked' = [r \in Rounds |-> IF r \in rs THEN "none" ELSE tracked[r]]
        /\ RoundsEnded(keys, paid, 0) /\ credited' = credited \cup rs
    BY DEF EndRounds
  <1>2. tracked \in [Rounds -> {"none", "open", "resume"}] /\ adjustment \in Int
        /\ IsFiniteSet(Rounds) /\ IsFiniteSet(rs)
        /\ session \in [Rounds -> [phase : Phases, stake : Nat, payout : Nat]]
    BY FS_Subset DEF RoundsInv, LedgerTypes, LedgerAssumption
  <1>3. paid \in Nat /\ (rs = {} => paid = 0)
    <2>1. \A r \in rs : p[r] \in Nat
      BY <1>2
    <2> HIDE DEF p
    <2> QED
      BY <1>2, <2>1, SumNat, SumOfNone
  <1>4. keys \subseteq activeRounds /\ (keys = {} <=> rs = {})
    BY ZenonT(60) DEF RoundsInv, RoundOK
  <1> HIDE DEF paid, keys
  <1>5. keys \cap activeRounds = keys
    BY <1>4
  <1>6. /\ activeRounds' = activeRounds \ keys
        /\ adjustment' = adjustment + 0 + IF keys = {} THEN 0 ELSE paid
        /\ baseline' = Seeded(raw) /\ epoch' = epoch
    BY <1>1, <1>5 DEF RoundsEnded
  <1>7. adjustment' = adjustment + paid
    BY <1>2, <1>3, <1>4, <1>6
  <1>8. reconcileTimer' \in BOOLEAN
    BY <1>1 DEF RoundsEnded
  <1> QED
    BY <1>1, <1>2, <1>3, <1>6, <1>7, <1>8 DEF paid, keys

\* A reveal, and what changed rows bring about.
LEMMA RevealStep ==
    ASSUME LedgerAssumption, RoundsInv,
           SettleTrackedRounds \/ \E r \in Rounds : Reveal(r),
           UNCHANGED viewVars
    PROVE  RoundsInv'
  <1>1. UNCHANGED <<session, call, action, funds, raw, reads, readFailed, mounted, orphans,
                    replayed, indexed, ready>>
    BY DEF SettleTrackedRounds, Reveal, viewVars, chainVars, callVars, rowVars, readVars
  <1>2. LedgerTypes /\ \A r \in Rounds : RoundOK(r)
    BY DEF RoundsInv
  <1>3. ASSUME NEW rs \in SUBSET Rounds, EndRounds(rs),
               \A r \in rs : tracked[r] # "none" /\ session[r].phase \in Ended,
               NEW gone \in SUBSET rs, following' = following \ gone,
               pendingReveal' = pendingReveal \ rs, patched' \subseteq patched,
               rowsChanged' \in BOOLEAN,
               (pendingReveal \cap Rows # {} => rowsChanged)'
        PROVE  RoundsInv'
    <2>1. /\ activeRounds' = activeRounds \ {<<tracked[r], r>> : r \in rs}
          /\ tracked' \in [Rounds -> {"none", "open", "resume"}]
          /\ \A r \in Rounds : tracked'[r] = IF r \in rs THEN "none" ELSE tracked[r]
          /\ adjustment' \in Int
          /\ baseline' \in {baseline, raw}
          /\ reconcileTimer' \in BOOLEAN
          /\ credited' = credited \cup rs
          /\ epoch' = epoch
      <3> DEFINE paid == SumFunctionOnSet([r \in Rounds |-> session[r].payout], rs)
      <3>1. /\ activeRounds' = activeRounds \ {<<tracked[r], r>> : r \in rs}
            /\ tracked' \in [Rounds -> {"none", "open", "resume"}]
            /\ \A r \in Rounds : tracked'[r] = IF r \in rs THEN "none" ELSE tracked[r]
            /\ adjustment' = adjustment + paid /\ paid \in Nat
            /\ baseline' = Seeded(raw)
            /\ reconcileTimer' \in BOOLEAN
            /\ credited' = credited \cup rs
            /\ epoch' = epoch
        BY <1>3, EndedRounds
      <3> HIDE DEF paid
      <3>2. adjustment' \in Int
        BY <1>2, <3>1 DEF LedgerTypes
      <3>3. baseline' \in {baseline, raw}
        BY <3>1 DEF Seeded
      <3> QED
        BY <3>1, <3>2, <3>3
    <2>2. LedgerTypes'
      BY <1>1, <1>2, <1>3, <2>1 DEF LedgerTypes
    <2>3. ASSUME NEW r \in Rounds
          PROVE  RoundOK(r)'
      <3>1. CASE r \in rs
        BY <1>1, <1>2, <1>3, <2>1, <3>1 DEF RoundOK, Ended
      <3>2. CASE r \notin rs
        BY <1>1, <1>2, <1>3, <2>1, <3>2 DEF RoundOK
      <3> QED
        BY <3>1, <3>2
    <2>4. ASSUME NEW key \in activeRounds'
          PROVE  KeyOK(key)'
      <3>1. key \in activeRounds /\ KeyOK(key) /\ key \in Keys
        BY <1>2, <2>1 DEF RoundsInv, LedgerTypes
      <3> QED
        BY <1>1, <2>1, <3>1 DEF KeyOK, Keys
    <2> QED
      BY <1>3, <2>2, <2>3, <2>4 DEF RoundsInv
  <1>4. CASE SettleTrackedRounds
    <2> DEFINE done == {r \in Rows : /\ tracked[r] # "none"
                                     /\ r \in pendingReveal \/ session[r].payout = 0}
    <2>1. /\ EndRounds(done) /\ pendingReveal' = pendingReveal \ done
          /\ rowsChanged' = FALSE /\ patched' \subseteq patched /\ following' = following
      BY <1>4 DEF SettleTrackedRounds
    <2>2. /\ done \in SUBSET Rounds
          /\ \A r \in done : tracked[r] # "none" /\ session[r].phase \in Ended
      BY <1>2 DEF LedgerTypes, Rows, RoundOK
    <2>3. (pendingReveal \cap Rows # {} => rowsChanged)'
      <3>1. Rows' = Rows
        BY <1>1 DEF Rows
      <3>2. \A r \in pendingReveal \cap Rows : r \in done
        BY <1>2 DEF LedgerTypes, RoundOK
      <3> QED
        BY <2>1, <3>1, <3>2
    <2> HIDE DEF done
    <2>4. {} \in SUBSET done /\ following' = following \ {} /\ rowsChanged' \in BOOLEAN
      BY <2>1
    <2> QED
      BY <1>3, <2>1, <2>2, <2>3, <2>4
  <1>5. ASSUME NEW r \in Rounds, Reveal(r)
        PROVE  RoundsInv'
    <2>1. /\ r \in following \cap Shown /\ following' = following \ {r}
          /\ patched' = patched /\ rowsChanged' = rowsChanged
          /\ session[r].phase \in Ended
      BY <1>2, <1>5 DEF Reveal, rowVars, Shown, RoundOK
    <2>2. CASE tracked[r] = "none"
      <3>1. UNCHANGED <<holdVars, trackVars, credited>>
        BY <1>5, <2>2 DEF Reveal
      <3> QED
        BY <1>1, <2>1, <2>2, <3>1 DEF RoundsInv, LedgerTypes, RoundOK, KeyOK, Rows, holdVars,
           trackVars
    <2>3. CASE tracked[r] # "none" /\ r \in Rows \cup patched
      <3>1. EndRounds({r}) /\ pendingReveal' = pendingReveal \ {r}
        BY <1>5, <2>3 DEF Reveal
      <3>2. (pendingReveal \cap Rows # {} => rowsChanged)'
        BY <1>1, <2>1, <3>1 DEF RoundsInv, Rows
      <3>3. rowsChanged' \in BOOLEAN
        BY <1>2, <2>1 DEF LedgerTypes
      <3> QED
        BY <1>3, <2>1, <2>3, <3>1, <3>2, <3>3
    <2>4. CASE tracked[r] # "none" /\ r \notin Rows \cup patched
      <3>1. /\ pendingReveal' = pendingReveal \cup {r}
            /\ UNCHANGED <<holdVars, tracked, credited>>
        BY <1>5, <2>4 DEF Reveal
      <3> QED
        BY <1>1, <2>1, <2>4, <3>1 DEF RoundsInv, LedgerTypes, RoundOK, KeyOK, Rows, holdVars
    <2> QED
      BY <2>2, <2>3, <2>4
  <1> QED
    BY <1>4, <1>5

\* The viewport comes and goes.
LEMMA ViewStep ==
    ASSUME LedgerAssumption, ~LateActions, RoundsInv, Unmount \/ Mount
    PROVE  RoundsInv'
  <1>1. UNCHANGED <<session, call, action, funds, ready, baseline, adjustment, epoch,
                    readFailed, credited>>
    BY DEF Unmount, Mount, chainVars, callVars, rowVars, holdVars, guestVars
  <1>2. LedgerTypes /\ \A r \in Rounds : RoundOK(r)
    BY DEF RoundsInv
  <1>3. CASE Unmount
    <2>1. /\ orphans' = orphans \cup {r \in Rounds : call[r] = "sending"}
          /\ activeRounds' = activeRounds \ {<<tracked[r], r>> : r \in Rounds}
          /\ tracked' = [r \in Rounds |-> "none"]
          /\ raw' = NoBalance
          /\ reads' \subseteq reads
          /\ pendingReveal' = {} /\ following' = {} /\ patched' = {} /\ indexed' = {}
          /\ \A r \in Rounds : action[r] <= 0
          /\ UNCHANGED replayed
      BY <1>3 DEF Unmount
    <2>2. mounted' \in BOOLEAN /\ rowsChanged' \in BOOLEAN /\ reconcileTimer' \in BOOLEAN
      BY <1>3 DEF Unmount
    <2>3. LedgerTypes'
      BY <1>1, <1>2, <2>1, <2>2 DEF LedgerTypes, Balances
    <2>4. ASSUME NEW r \in Rounds
          PROVE  RoundOK(r)'
      <3>1. call[r] = "sending" => <<"open", r>> \in activeRounds'
        BY <1>2, <2>1 DEF RoundOK
      <3>2. action[r] \in {NoBalance, 0}
        <4>1. action[r] \in {NoBalance} \cup Nat /\ action[r] <= 0
          BY <1>2, <2>1 DEF LedgerTypes, LedgerAssumption
        <4> QED
          BY <4>1
      <3> QED
        BY <1>1, <1>2, <2>1, <3>1, <3>2 DEF RoundOK
    <2>5. ASSUME NEW key \in activeRounds'
          PROVE  KeyOK(key)'
      <3>1. key \in activeRounds /\ KeyOK(key) /\ key \in Keys
        BY <1>2, <2>1 DEF RoundsInv, LedgerTypes
      <3> QED
        BY <1>1, <2>1, <3>1 DEF KeyOK, Keys
    <2> QED
      BY <2>1, <2>3, <2>4, <2>5 DEF RoundsInv
  <1>4. CASE Mount
    <2>1. /\ UNCHANGED <<activeRounds, tracked, raw, orphans, rowVars, pendingReveal,
                         following, reconcileTimer>>
          /\ reads' = reads \cup {Read("raw")}
          /\ replayed' \subseteq Rounds /\ mounted' = TRUE
      BY <1>4 DEF Mount, holdVars, trackVars, guestVars
    <2>2. Read("raw") \in ReadsOfBalance
      BY <1>2 DEF Read, LedgerTypes, Balances, ReadsOfBalance
    <2>3. LedgerTypes'
      BY <1>1, <1>2, <2>1, <2>2 DEF LedgerTypes, rowVars
    <2> QED
      BY <1>1, <2>1, <2>3 DEF RoundsInv, RoundOK, KeyOK, Rows, rowVars
  <1> QED
    BY <1>3, <1>4

\* Every step keeps what is known of the rounds.
LEMMA RoundsInvStep ==
    ASSUME LedgerAssumption, ~LateActions, RoundsInv, GivenTypes, [Next]_vars
    PROVE  RoundsInv'
  <1>1. CASE UNCHANGED vars
    BY <1>1 DEF vars, chainVars, callVars, rowVars, holdVars, readVars, trackVars, guestVars,
       viewVars, RoundsInv, LedgerTypes, RoundOK, KeyOK, Rows
  <1>2. CASE PlayNext /\ UNCHANGED <<viewVars, troubles>>
    BY <1>2, HoldStep, ChainStep, BetStep, RowStep, RevealStep DEF PlayNext
  <1>3. CASE Trouble
    BY <1>3, HoldStep, BetStep, RowStep, ViewStep DEF Trouble
  <1>4. CASE Mount
    BY <1>4, ViewStep
  <1> QED
    BY <1>1, <1>2, <1>3, <1>4 DEF Next

\* At rest, a key that is left belongs to a round that has not been played to
\* its end or to a call that lost its viewport.
LEMMA RoundsClose ==
    ASSUME RoundsInv
    PROVE  PlayedRoundsClose
  <1> SUFFICES ASSUME Quiet, NEW key \in activeRounds, session[key[2]].phase = "settled",
                      ~(key[1] = "open" /\ key[2] \in orphans)
               PROVE  FALSE
    BY DEF PlayedRoundsClose
  <1> DEFINE r == key[2]
  <1>1. r \in Rounds /\ KeyOK(key) /\ RoundOK(r) /\ key[1] # "none"
    BY DEF RoundsInv, LedgerTypes, Keys
  <1>2. r \in indexed /\ r \in Rows /\ r \in Shown /\ call[r] # "sending"
    BY <1>1 DEF Quiet, Ended, Rows, Shown
  <1>3. tracked[r] # "none" /\ r \notin following
    BY <1>1, <1>2 DEF KeyOK, Quiet
  <1>4. r \in pendingReveal
    BY <1>1, <1>3 DEF RoundOK
  <1> QED
    BY <1>2, <1>4 DEF RoundsInv, Quiet

-----------------------------------------------------------------------------
(***************************************************************************)
(* What the display leaves out                                             *)
(***************************************************************************)
Due(r) == Outstanding(r) + Hidden(r)
Owed == SumFunctionOnSet([r \in Rounds |-> Due(r)], Rounds)

\* What a round is owed, has under way or hides is an amount.
LEMMA DueIsNat ==
    ASSUME LedgerAssumption, RoundsInv, NEW r \in Rounds
    PROVE  Due(r) \in Nat /\ Outstanding(r) \in Nat /\ Hidden(r) \in Nat
  <1>1. /\ session[r].payout \in Nat
        /\ action[r] = NoBalance \/ action[r] \in Nat
    BY DEF RoundsInv, LedgerTypes, LedgerAssumption
  <1> QED
    BY <1>1 DEF Due, Outstanding, Hidden, Stake, NoBalance

\* What a round is owed is an amount after a step, too.
LEMMA DueNext ==
    ASSUME LedgerAssumption, RoundsInv', NEW r \in Rounds
    PROVE  Due(r)' \in Nat
  <1>1. /\ session'[r].payout \in Nat
        /\ action'[r] = NoBalance \/ action'[r] \in Nat
    BY DEF RoundsInv, LedgerTypes, LedgerAssumption
  <1> QED
    BY <1>1 DEF Due, Outstanding, Hidden, Stake, NoBalance

\* A step that changes what is due for one round.
LEMMA OwedChanges ==
    ASSUME LedgerAssumption, RoundsInv, RoundsInv', NEW r \in Rounds,
           \A x \in Rounds \ {r} : Due(x)' = Due(x)
    PROVE  Owed' = Owed + (Due(r)' - Due(r)) /\ Owed \in Int
  <1> DEFINE f == [x \in Rounds |-> Due(x)]
             g == [x \in Rounds |-> Due(x)']
  <1>1. IsFiniteSet(Rounds)
    BY DEF LedgerAssumption
  <1>2. \A x \in Rounds : f[x] \in Int /\ g[x] \in Int
    BY DueIsNat, DueNext
  <1>3. \A x \in Rounds \ {r} : g[x] = f[x]
    OBVIOUS
  <1>4. g[r] = Due(r)' /\ f[r] = Due(r)
    OBVIOUS
  <1>5. Owed = SumFunctionOnSet(f, Rounds) /\ Owed' = SumFunctionOnSet(g, Rounds)
    BY DEF Owed
  <1> HIDE DEF f, g
  <1>6. SumFunctionOnSet(g, Rounds) = SumFunctionOnSet(f, Rounds) + (g[r] - f[r])
    BY <1>1, <1>2, <1>3, SumChanges
  <1>7. SumFunctionOnSet(f, Rounds) \in Int
    BY <1>1, <1>2, SumInt
  <1> QED
    BY <1>4, <1>5, <1>6, <1>7

\* A step after which no round is due more.
LEMMA OwedShrinks ==
    ASSUME LedgerAssumption, RoundsInv, RoundsInv', \A x \in Rounds : Due(x)' <= Due(x)
    PROVE  /\ Owed' <= Owed /\ Owed \in Int /\ Owed' \in Int
           /\ (\A x \in Rounds : Due(x)' = Due(x)) => Owed' = Owed
  <1> DEFINE f == [x \in Rounds |-> Due(x)]
             g == [x \in Rounds |-> Due(x)']
  <1>1. IsFiniteSet(Rounds)
    BY DEF LedgerAssumption
  <1>2. \A x \in Rounds : f[x] \in Int /\ g[x] \in Int /\ g[x] <= f[x]
    BY DueIsNat, DueNext
  <1>3. Owed = SumFunctionOnSet(f, Rounds) /\ Owed' = SumFunctionOnSet(g, Rounds)
    BY DEF Owed
  <1>4. (\A x \in Rounds : Due(x)' = Due(x)) => \A x \in Rounds : g[x] = f[x]
    OBVIOUS
  <1> HIDE DEF f, g
  <1>5. SumFunctionOnSet(g, Rounds) <= SumFunctionOnSet(f, Rounds)
    BY <1>1, <1>2, SumGrows
  <1>6. SumFunctionOnSet(f, Rounds) \in Int /\ SumFunctionOnSet(g, Rounds) \in Int
    BY <1>1, <1>2, SumInt
  <1>7. (\A x \in Rounds : g[x] = f[x]) => SumFunctionOnSet(g, Rounds) = SumFunctionOnSet(f, Rounds)
    BY <1>1, SumEqual
  <1> QED
    BY <1>3, <1>4, <1>5, <1>6, <1>7

\* Rounds that end are not due their payouts any more.
LEMMA OwedPaid ==
    ASSUME LedgerAssumption, RoundsInv, RoundsInv', NEW rs \in SUBSET Rounds,
           \A x \in Rounds : Due(x) = Due(x)' + IF x \in rs THEN session[x].payout ELSE 0
    PROVE  /\ Owed = Owed' + SumFunctionOnSet([r \in Rounds |-> session[r].payout], rs)
           /\ Owed \in Int /\ Owed' \in Int
  <1> DEFINE f == [x \in Rounds |-> Due(x)]
             g == [x \in Rounds |-> Due(x)']
             p == [x \in Rounds |-> session[x].payout]
             q == [x \in Rounds |-> IF x \in rs THEN p[x] ELSE 0]
  <1>1. IsFiniteSet(Rounds)
    BY DEF LedgerAssumption
  <1>2. \A x \in Rounds : p[x] \in Nat
    BY DEF RoundsInv, LedgerTypes
  <1>3. \A x \in Rounds : f[x] \in Int /\ g[x] \in Int /\ q[x] \in Int /\ f[x] = g[x] + q[x]
    <2>1. \A x \in Rounds : q[x] = IF x \in rs THEN p[x] ELSE 0
      OBVIOUS
    <2>2. \A x \in Rounds : f[x] = g[x] + IF x \in rs THEN p[x] ELSE 0
      OBVIOUS
    <2>3. \A x \in Rounds : f[x] \in Int /\ g[x] \in Int
      BY DueIsNat, DueNext
    <2> QED
      BY <1>2, <2>1, <2>2, <2>3
  <1>4. Owed = SumFunctionOnSet(f, Rounds) /\ Owed' = SumFunctionOnSet(g, Rounds)
    BY DEF Owed
  <1>5. \A x \in Rounds : q[x] = IF x \in rs THEN p[x] ELSE 0
    OBVIOUS
  <1> HIDE DEF f, g, p, q
  <1>6. SumFunctionOnSet(f, Rounds) = SumFunctionOnSet(g, Rounds) + SumFunctionOnSet(q, Rounds)
    BY <1>1, <1>3, SumAdds
  <1>7. SumFunctionOnSet(q, Rounds) = SumFunctionOnSet(p, rs)
    BY <1>1, <1>2, <1>5, SumOfPart
  <1>8. SumFunctionOnSet(f, Rounds) \in Int /\ SumFunctionOnSet(g, Rounds) \in Int
    BY <1>1, <1>3, SumInt
  <1> QED
    BY <1>4, <1>6, <1>7, <1>8 DEF p

\* While no round is under way, nothing is due.
LEMMA OwedNone ==
    ASSUME LedgerAssumption, RoundsInv, activeRounds = {}
    PROVE  Owed = 0
  <1> DEFINE f == [x \in Rounds |-> Due(x)]
  <1>1. IsFiniteSet(Rounds)
    BY DEF LedgerAssumption
  <1>2. \A x \in Rounds : f[x] = 0
    <2> SUFFICES ASSUME NEW x \in Rounds PROVE Due(x) = 0
      OBVIOUS
    <2>1. call[x] # "sending" /\ tracked[x] = "none" /\ action[x] \in {NoBalance, 0}
      BY DEF RoundsInv, RoundOK
    <2> QED
      BY <2>1 DEF Due, Outstanding, Hidden
  <1>3. Owed = SumFunctionOnSet(f, Rounds)
    BY DEF Owed
  <1> HIDE DEF f
  <1> QED
    BY <1>1, <1>2, <1>3, SumNat

\* Without a round under way nothing is owed.
LEMMA OwedNext ==
    ASSUME LedgerAssumption, RoundsInv', activeRounds' = {}
    PROVE  Owed' = 0
  <1> DEFINE f == [x \in Rounds |-> Due(x)']
  <1>1. IsFiniteSet(Rounds)
    BY DEF LedgerAssumption
  <1>2. \A x \in Rounds : f[x] = 0
    <2> SUFFICES ASSUME NEW x \in Rounds PROVE Due(x)' = 0
      OBVIOUS
    <2>1. call'[x] # "sending" /\ tracked'[x] = "none" /\ action'[x] \in {NoBalance, 0}
      BY DEF RoundsInv, RoundOK
    <2> QED
      BY <2>1 DEF Due, Outstanding, Hidden
  <1>3. Owed' = SumFunctionOnSet(f, Rounds)
    BY DEF Owed
  <1> HIDE DEF f
  <1> QED
    BY <1>1, <1>2, <1>3, SumNat

-----------------------------------------------------------------------------
(***************************************************************************)
(* What the display shows                                                  *)
(*                                                                         *)
(* NeverOverstated is not inductive: a read that was started before a bet  *)
(* and is adopted after it would break it, and so would a first balance    *)
(* that is read late.  A read that can still be adopted has the current    *)
(* epoch, so no round was under way since it began.  The balance is exact  *)
(* as long as no payout went past the ledger.  Net leaves out the stakes   *)
(* that were given back although they left the chain, and so does a read   *)
(* from before they left it.                                               *)
(***************************************************************************)
AllFollowed ==
    \A r \in Rounds : session[r].phase \in Ended =>
        r \in credited \/ tracked[r] # "none" \/ call[r] = "sending"

Net == adjustment - givenBack

Fits(x) ==
    /\ x <= funds
    /\ AllFollowed => funds <= x

ReadOK(read) ==
    /\ read.epoch <= epoch
    /\ read.for = "baseline" /\ read.epoch = epoch =>
           activeRounds = {} /\ (read.value # NoBalance => Fits(read.value - read.missed))
    /\ read.value = NoBalance => read.missed = 0

\* Nothing was played to its end, and no bet was refused or lost.
Unplayed ==
    /\ credited = {}
    /\ \A r \in Rounds : call[r] \notin {"failed", "lost"} /\ mined[r] = 0 /\ loose[r] = 0

MoneyInv ==
    /\ baseline # NoBalance => Fits(baseline + Net + Owed)
    /\ \A read \in reads : ReadOK(read)
    /\ baseline = NoBalance =>
           /\ raw = NoBalance
           /\ activeRounds = {}
           /\ adjustment = 0 /\ givenBack = 0
           /\ Unplayed
           /\ \A read \in reads : /\ read.missed = 0
                                  /\ read.value # NoBalance => Fits(read.value)

\* A step takes from the display and from what is due what it takes from the
\* chain, or more when a payout goes past the ledger.
Balanced ==
    /\ Net' + Owed' - funds' <= Net + Owed - funds
    /\ AllFollowed' =>
           AllFollowed /\ Net + Owed - funds <= Net' + Owed' - funds'

\* A step that adopts no balance.
Keeps ==
    /\ baseline' = baseline
    /\ baseline = NoBalance =>
           /\ raw' = NoBalance /\ epoch' = epoch /\ (Unplayed => Unplayed')
           /\ adjustment' = adjustment /\ givenBack' = givenBack
    /\ epoch' = epoch /\ activeRounds = {} => activeRounds' = {} /\ Net' = Net
    /\ epoch' \in Nat /\ epoch <= epoch'

\* The arithmetic of a balanced step, for a display b and dues d.
LEMMA BalancedStep ==
    ASSUME NEW b \in Int, NEW a \in Int, NEW c \in Int, NEW d \in Int, NEW e \in Int,
           NEW f \in Int, NEW g \in Int, c + e - g <= a + d - f, b + a + d <= f
    PROVE  b + c + e <= g
  OBVIOUS

\* The same for a step that takes no more from the display than from the chain.
LEMMA ExactStep ==
    ASSUME NEW b \in Int, NEW a \in Int, NEW c \in Int, NEW d \in Int, NEW e \in Int,
           NEW f \in Int, NEW g \in Int, a + d - f <= c + e - g, f <= b + a + d
    PROVE  g <= b + c + e
  OBVIOUS

\* The same while no round is under way.
LEMMA BalancedAtRest ==
    ASSUME NEW a \in Int, NEW f \in Int, NEW g \in Int, a + 0 - g <= a + 0 - f
    PROVE  f <= g
  OBVIOUS

\* A balanced step that adopts no balance keeps what is known of the display.
LEMMA MoneyKept ==
    ASSUME LedgerAssumption, RoundsInv, RoundsInv', GivenTypes, GivenTypes', MoneyInv, Balanced, Keeps,
           reads' \subseteq reads, Owed \in Int, Owed' \in Int
    PROVE  MoneyInv'
  <1>1. /\ funds \in Nat /\ funds' \in Nat /\ Net \in Int /\ Net' \in Int
        /\ epoch \in Nat /\ epoch' \in Nat /\ baseline \in Int
        /\ \A read \in reads :
              /\ read.epoch \in Nat /\ read.value \in Int
              /\ read.missed \in Nat /\ read.value - read.missed \in Int
    <2>1. /\ funds \in Nat /\ funds' \in Nat /\ adjustment \in Int /\ adjustment' \in Int
          /\ epoch \in Nat /\ epoch' \in Nat /\ baseline \in Int
      BY DEF RoundsInv, LedgerTypes, Balances, NoBalance
    <2>2. \A read \in reads : read.epoch \in Nat /\ read.value \in Int /\ read.missed \in Nat
      BY DEF RoundsInv, LedgerTypes, Balances, NoBalance, ReadsOfBalance
    <2>3. Net \in Int /\ Net' \in Int
      BY <2>1 DEF GivenTypes, Net
    <2> QED
      BY <2>1, <2>2, <2>3
  <1>2. ASSUME epoch' = epoch, activeRounds = {}, NEW x \in Int, Fits(x)
        PROVE  Fits(x)'
    <2>1. Owed = 0 /\ activeRounds' = {} /\ Net' = Net
      BY <1>2, OwedNone DEF Keeps
    <2>2. Owed' = 0
      BY <2>1, OwedNext
    <2>3. funds <= funds' /\ (AllFollowed' => AllFollowed /\ funds' <= funds)
      <3>1. /\ Net + 0 - funds' <= Net + 0 - funds
            /\ AllFollowed' => AllFollowed /\ Net + 0 - funds <= Net + 0 - funds'
        BY <2>1, <2>2 DEF Balanced
      <3>2. Net \in Int /\ funds \in Int /\ funds' \in Int
        BY <1>1
      <3> QED
        BY <3>1, <3>2, BalancedAtRest
    <2>4. x <= funds'
      BY <1>1, <1>2, <2>3 DEF Fits
    <2>5. AllFollowed' => funds' <= x
      BY <1>1, <1>2, <2>3 DEF Fits
    <2> QED
      BY <2>4, <2>5 DEF Fits
  <1>3. baseline' # NoBalance => Fits(baseline + Net + Owed)'
    <2> SUFFICES ASSUME baseline' # NoBalance
                 PROVE  Fits(baseline + Net + Owed)'
      OBVIOUS
    <2>1. Fits(baseline + Net + Owed) /\ baseline' = baseline
      BY DEF MoneyInv, Keeps
    <2>2. baseline' + Net' + Owed' <= funds'
      <3>1. baseline + Net + Owed <= funds
        BY <2>1 DEF Fits
      <3>2. Net' + Owed' - funds' <= Net + Owed - funds
        BY DEF Balanced
      <3>3. funds \in Int /\ funds' \in Int
        BY <1>1
      <3> QED
        BY <1>1, <2>1, <3>1, <3>2, <3>3, BalancedStep
    <2>3. ASSUME AllFollowed'
          PROVE  funds' <= baseline' + Net' + Owed'
      <3>1. funds <= baseline + Net + Owed
        BY <2>1, <2>3 DEF Fits, Balanced
      <3>2. Net + Owed - funds <= Net' + Owed' - funds'
        BY <2>3 DEF Balanced
      <3>3. /\ funds \in Int /\ funds' \in Int /\ baseline \in Int
            /\ Net \in Int /\ Net' \in Int
        BY <1>1
      <3>4. funds' <= baseline + Net' + Owed'
        BY <3>1, <3>2, <3>3, ExactStep
      <3> QED
        BY <2>1, <3>4
    <2> QED
      BY <2>2, <2>3 DEF Fits
  <1>4. ASSUME NEW read \in reads'
        PROVE  ReadOK(read)'
    <2>1. ReadOK(read) /\ read.epoch \in Nat /\ read.value \in Int
      BY <1>1 DEF MoneyInv
    <2> QED
      BY <1>1, <1>2, <2>1 DEF ReadOK, Keeps
  <1>5. ASSUME baseline' = NoBalance
        PROVE  /\ raw' = NoBalance
               /\ activeRounds' = {}
               /\ adjustment' = 0 /\ givenBack' = 0
               /\ Unplayed'
               /\ \A read \in reads' : /\ read.missed = 0
                                       /\ read.value # NoBalance => Fits(read.value)'
    BY <1>1, <1>2, <1>5 DEF MoneyInv, Keeps
  <1> QED
    BY <1>3, <1>4, <1>5 DEF MoneyInv

\* A step that leaves the chain, the calls and the display alone.
LEMMA MoneyAtRest ==
    ASSUME LedgerAssumption, RoundsInv, MoneyInv,
           UNCHANGED <<funds, session, call, action, tracked, credited, activeRounds, baseline,
                       adjustment, givenBack, epoch>>,
           Unplayed => Unplayed',
           raw' \in {raw, NoBalance},
           \A read \in reads' :
               \/ read \in reads
               \/ /\ read.epoch <= epoch /\ read.missed = 0
                  /\ read.for = "baseline" /\ read.epoch = epoch => activeRounds = {}
                  /\ read.value # NoBalance => read.value = funds
    PROVE  MoneyInv'
  <1>1. Owed' = Owed /\ Net' = Net /\ (AllFollowed' <=> AllFollowed)
    BY DEF Owed, Due, Outstanding, Hidden, AllFollowed, Net
  <1>2. \A x : Fits(x)' <=> Fits(x)
    BY <1>1 DEF Fits
  <1>3. Fits(funds) /\ Fits(funds - 0)
    BY DEF Fits, RoundsInv, LedgerTypes
  <1>4. ASSUME NEW read \in reads'
        PROVE  ReadOK(read)'
    BY <1>2, <1>3, <1>4 DEF MoneyInv, ReadOK
  <1>5. ASSUME baseline = NoBalance, NEW read \in reads'
        PROVE  read.missed = 0 /\ (read.value # NoBalance => Fits(read.value)')
    <2>1. CASE read \in reads
      <3>1. \A old \in reads : old.missed = 0 /\ (old.value # NoBalance => Fits(old.value))
        BY <1>5 DEF MoneyInv
      <3>2. read.missed = 0 /\ (read.value # NoBalance => Fits(read.value))
        BY <2>1, <3>1
      <3> QED
        BY <1>2, <3>2
    <2>2. CASE read \notin reads
      <3>1. read.missed = 0 /\ (read.value # NoBalance => read.value = funds)
        BY <1>5, <2>2
      <3>2. Fits(funds)'
        BY <1>2, <1>3
      <3> QED
        BY <1>3, <3>1, <3>2 DEF Fits
    <2> QED
      BY <2>1, <2>2
  <1> QED
    BY <1>1, <1>2, <1>4, <1>5 DEF MoneyInv

\* The arithmetic of a step that changes what is due for one round.
LEMMA OneDue ==
    ASSUME NEW a \in Int, NEW c \in Int, NEW d \in Int, NEW e \in Int, NEW f \in Int,
           NEW g \in Int, NEW o \in Int, c + e - g <= a + d - f
    PROVE  c + (o + (e - d)) - g <= a + o - f
  OBVIOUS

\* The same the other way round.
LEMMA OneDueBack ==
    ASSUME NEW a \in Int, NEW c \in Int, NEW d \in Int, NEW e \in Int, NEW f \in Int,
           NEW g \in Int, NEW o \in Int, a + d - f <= c + e - g
    PROVE  a + o - f <= c + (o + (e - d)) - g
  OBVIOUS

\* A step of one round that is balanced for that round.
LEMMA MoneyOfOneNet ==
    ASSUME LedgerAssumption, RoundsInv, RoundsInv', GivenTypes, GivenTypes', MoneyInv, Keeps,
           reads' \subseteq reads,
           NEW r \in Rounds, \A x \in Rounds \ {r} : Due(x)' = Due(x),
           Net' + Due(r)' - funds' <= Net + Due(r) - funds,
           AllFollowed' => /\ AllFollowed
                           /\ Net + Due(r) - funds <= Net' + Due(r)' - funds'
    PROVE  MoneyInv'
  <1>1. /\ funds \in Int /\ funds' \in Int /\ Net \in Int /\ Net' \in Int
    BY DEF RoundsInv, LedgerTypes, GivenTypes, Net
  <1>2. Due(r) \in Int /\ Due(r)' \in Int
    BY DueIsNat, DueNext
  <1>3. Owed' = Owed + (Due(r)' - Due(r)) /\ Owed \in Int
    BY OwedChanges
  <1>4. Owed' \in Int
    <2> HIDE DEF Owed, Due
    <2> QED
      BY <1>2, <1>3
  <1>5. Balanced
    <2>1. Net' + Owed' - funds' <= Net + Owed - funds
      BY <1>1, <1>2, <1>3, OneDue
    <2>2. ASSUME AllFollowed'
          PROVE  Net + Owed - funds <= Net' + Owed' - funds'
      BY <1>1, <1>2, <1>3, <2>2, OneDueBack
    <2> QED
      BY <2>1, <2>2 DEF Balanced
  <1> QED
    BY <1>3, <1>4, <1>5, MoneyKept

\* The arithmetic of a step that gives no stake back that has left.
LEMMA NetLess ==
    ASSUME NEW a \in Int, NEW c \in Int, NEW d \in Int, NEW e \in Int, NEW f \in Int,
           NEW g \in Int, NEW b \in Int, c + e - g <= a + d - f
    PROVE  (c - b) + e - g <= (a - b) + d - f
  OBVIOUS

\* The same for a step that gives back no stake that has left the chain.
LEMMA MoneyOfOne ==
    ASSUME LedgerAssumption, RoundsInv, RoundsInv', GivenTypes, GivenTypes', MoneyInv, Keeps,
           reads' \subseteq reads, givenBack' = givenBack,
           NEW r \in Rounds, \A x \in Rounds \ {r} : Due(x)' = Due(x),
           adjustment' + Due(r)' - funds' <= adjustment + Due(r) - funds,
           AllFollowed' => /\ AllFollowed
                           /\ adjustment + Due(r) - funds <= adjustment' + Due(r)' - funds'
    PROVE  MoneyInv'
  <1>1. /\ funds \in Int /\ funds' \in Int /\ adjustment \in Int /\ adjustment' \in Int
        /\ givenBack \in Int
    BY DEF RoundsInv, LedgerTypes, GivenTypes
  <1>2. Due(r) \in Int /\ Due(r)' \in Int
    BY DueIsNat, DueNext
  <1>3. Net = adjustment - givenBack /\ Net' = adjustment' - givenBack
    BY DEF Net
  <1>4. Net' + Due(r)' - funds' <= Net + Due(r) - funds
    BY <1>1, <1>2, <1>3, NetLess
  <1>5. AllFollowed' => AllFollowed /\ Net + Due(r) - funds <= Net' + Due(r)' - funds'
    BY <1>1, <1>2, <1>3, NetLess
  <1> QED
    BY <1>4, <1>5, MoneyOfOneNet

\* A step of several rounds that gives back no stake that has left the chain.
LEMMA BalancedWithout ==
    ASSUME RoundsInv, RoundsInv', GivenTypes, givenBack' = givenBack, Owed \in Int,
           Owed' \in Int,
           adjustment' + Owed' - funds' <= adjustment + Owed - funds,
           AllFollowed' => /\ AllFollowed
                           /\ adjustment + Owed - funds <= adjustment' + Owed' - funds'
    PROVE  Balanced
  <1>1. /\ funds \in Int /\ funds' \in Int /\ adjustment \in Int /\ adjustment' \in Int
        /\ givenBack \in Int
    BY DEF RoundsInv, LedgerTypes, GivenTypes
  <1>2. Net = adjustment - givenBack /\ Net' = adjustment' - givenBack
    BY DEF Net
  <1>3. Net' + Owed' - funds' <= Net + Owed - funds
    BY <1>1, <1>2, NetLess
  <1>4. AllFollowed' => AllFollowed /\ Net + Owed - funds <= Net' + Owed' - funds'
    BY <1>1, <1>2, NetLess
  <1> QED
    BY <1>3, <1>4 DEF Balanced

\* What the chain does for a round.
LEMMA MoneyOfChain ==
    ASSUME LedgerAssumption, RoundsInv, RoundsInv', GivenTypes, GivenTypes', MoneyInv,
           NEW r \in Rounds,
           \/ MineOpen(r)
           \/ ActionMined(r)
           \/ Settle(r, "settled", 0)
           \/ Settle(r, "settled", 2 * session[r].stake)
           \/ Settle(r, "cancelled", session[r].stake)
    PROVE  MoneyInv'
  <1>1. /\ LedgerTypes /\ RoundOK(r) /\ funds \in Int /\ adjustment \in Int
        /\ session[r] \in [phase : Phases, stake : Nat, payout : Nat]
        /\ NoSession.payout = 0 /\ NoSession.phase = "none"
        /\ action[r] # NoBalance => action[r] \in Nat
    <2>1. LedgerTypes /\ RoundOK(r) /\ NoSession.payout = 0 /\ NoSession.phase = "none"
      BY DEF RoundsInv, NoSession
    <2>2. session[r] \in [phase : Phases, stake : Nat, payout : Nat]
      BY <2>1 DEF LedgerTypes
    <2>3. action[r] # NoBalance => action[r] \in Nat
      BY <2>1 DEF LedgerTypes, LedgerAssumption
    <2>4. funds \in Int /\ adjustment \in Int
      BY <2>1 DEF LedgerTypes
    <2> QED
      BY <2>1, <2>2, <2>3, <2>4
  <1>2. /\ UNCHANGED <<baseline, adjustment, givenBack, epoch, activeRounds, raw, reads, tracked,
                       credited, call>>
        /\ Keeps /\ reads' \subseteq reads
    <2>1. UNCHANGED <<baseline, adjustment, givenBack, epoch, activeRounds, raw, reads, tracked,
                      credited, call, loose>>
      BY DEF MineOpen, ActionMined, Settle, callVars, holdVars, readVars, trackVars, guestVars
    <2>2. epoch \in Nat /\ (baseline = NoBalance => raw = NoBalance)
      BY <1>1 DEF MoneyInv, LedgerTypes
    <2>3. baseline = NoBalance /\ Unplayed => Unplayed'
      <3>1. CASE ActionMined(r)
        <4>1. mined' = [mined EXCEPT ![r] = action[r]] /\ action[r] # NoBalance
          BY <3>1 DEF ActionMined
        <4>2. baseline = NoBalance => action[r] = 0
          BY <1>1, <4>1 DEF MoneyInv, RoundOK
        <4>3. baseline = NoBalance /\ Unplayed => \A x \in Rounds : mined'[x] = 0
          BY <4>1, <4>2 DEF GivenTypes, Unplayed
        <4> QED
          BY <2>1, <4>3 DEF Unplayed
      <3>2. CASE ~ActionMined(r)
        <4>1. UNCHANGED mined
          BY <3>2 DEF MineOpen, Settle, callVars
        <4> QED
          BY <2>1, <4>1 DEF Unplayed
      <3> QED
        BY <3>1, <3>2
    <2>4. epoch <= epoch
      BY <2>2
    <2>5. Net' = Net
      BY <2>1 DEF Net
    <2> QED
      BY <2>1, <2>2, <2>3, <2>4, <2>5 DEF Keeps
  <1>3. CASE MineOpen(r)
    <2>1. /\ session[r] = NoSession /\ call[r] = "sending" /\ funds' = funds - 1
          /\ session' = [session EXCEPT ![r] = OpenAt(Stake)]
          /\ UNCHANGED action
      BY <1>3 DEF MineOpen, Stake, callVars
    <2>2. \A x \in Rounds : x # r => session'[x] = session[x]
      BY <1>1, <2>1 DEF LedgerTypes
    <2>3. session'[r].payout = 0 /\ session'[r].phase = "open" /\ session'[r] # NoSession
      BY <1>1, <2>1 DEF LedgerTypes, OpenAt, NoSession
    <2>4. action[r] = NoBalance
      BY <1>1, <2>1 DEF RoundOK
    <2>5. Due(r) = 1 /\ Due(r)' = 0
      BY <1>1, <1>2, <2>1, <2>3, <2>4 DEF Due, Outstanding, Hidden, Stake
    <2>6. \A x \in Rounds \ {r} : Due(x)' = Due(x)
      BY <1>2, <2>1, <2>2 DEF Due, Outstanding, Hidden
    <2>7. AllFollowed' => AllFollowed
      BY <1>1, <1>2, <2>1, <2>2 DEF AllFollowed, Ended
    <2>8. adjustment' + Due(r)' - funds' = adjustment + Due(r) - funds
      BY <1>1, <1>2, <2>1, <2>5
    <2>9. adjustment + Due(r) - funds \in Int
      BY <1>1, <2>5
    <2> HIDE DEF Due, AllFollowed
    <2>10. adjustment + Due(r) - funds <= adjustment + Due(r) - funds
      BY <2>9
    <2> QED
      BY <1>2, <2>6, <2>7, <2>8, <2>10, MoneyOfOne
  <1>4. CASE ActionMined(r)
    <2>1. /\ action[r] \in Nat /\ action[r] # NoBalance /\ funds' = funds - action[r]
          /\ session[r].phase = "open"
          /\ session' = [session EXCEPT ![r].stake = @ + action[r]]
          /\ action' = [action EXCEPT ![r] = NoBalance]
      BY <1>1, <1>4 DEF ActionMined
    <2>2. \A x \in Rounds : x # r => session'[x] = session[x] /\ action'[x] = action[x]
      BY <1>1, <2>1 DEF LedgerTypes
    <2>3. session'[r].payout = session[r].payout /\ session'[r].phase = "open"
      BY <1>1, <2>1 DEF LedgerTypes
    <2>4. action'[r] = NoBalance /\ session[r] # NoSession /\ session'[r] # NoSession
      BY <1>1, <2>1, <2>3 DEF LedgerTypes
    <2>5. Due(r) = action[r] + Hidden(r) /\ Due(r)' = Hidden(r) /\ Hidden(r) \in Int
      BY <1>1, <1>2, <2>1, <2>3, <2>4 DEF Due, Outstanding, Hidden
    <2>6. \A x \in Rounds \ {r} : Due(x)' = Due(x)
      BY <1>2, <2>1, <2>2 DEF Due, Outstanding, Hidden
    <2>7. AllFollowed' => AllFollowed
      BY <1>1, <1>2, <2>1, <2>2 DEF AllFollowed, Ended
    <2> HIDE DEF Due, AllFollowed, Hidden
    <2>8. adjustment' + Due(r)' - funds' = adjustment + Due(r) - funds
      <3> DEFINE h == Hidden(r)
                 a == action[r]
      <3>1. a \in Int /\ h \in Int /\ Due(r) = a + h /\ Due(r)' = h /\ funds' = funds - a
        BY <2>1, <2>5
      <3> HIDE DEF a, h
      <3> QED
        BY <1>1, <1>2, <3>1
    <2>9. adjustment + Due(r) - funds \in Int
      BY <1>1, <2>1, <2>5
    <2>10. adjustment + Due(r) - funds <= adjustment + Due(r) - funds
      BY <2>9
    <2> QED
      BY <1>2, <2>6, <2>7, <2>8, <2>10, MoneyOfOne
  <1>5. ASSUME NEW phase \in Ended, NEW payout \in Nat, Settle(r, phase, payout)
        PROVE  MoneyInv'
    <2>1. /\ funds' = funds + payout
          /\ session[r].phase = "open"
          /\ session' = [session EXCEPT ![r] = [@ EXCEPT !.phase = phase, !.payout = payout]]
          /\ UNCHANGED action
      BY <1>5 DEF Settle, callVars
    <2>2. \A x \in Rounds : x # r => session'[x] = session[x]
      BY <1>1, <2>1 DEF LedgerTypes
    <2>3. session'[r].payout = payout /\ session'[r].phase = phase
      BY <1>1, <2>1 DEF LedgerTypes
    <2>4. /\ session[r].payout = 0 /\ r \notin credited
          /\ session[r] # NoSession /\ session'[r] # NoSession
      BY <1>1, <1>5, <2>1, <2>3 DEF RoundOK, Ended
    <2>5. /\ Due(r) = Outstanding(r) /\ Outstanding(r) \in Int
          /\ Due(r)' = Outstanding(r) + Hidden(r)'
          /\ Hidden(r)' = IF tracked[r] # "none" \/ call[r] = "sending" THEN payout ELSE 0
      <3>1. Outstanding(r)' = Outstanding(r)
        BY <1>2, <2>1, <2>4 DEF Outstanding
      <3>2. Hidden(r)' = IF tracked[r] # "none" \/ call[r] = "sending" THEN payout ELSE 0
        BY <1>2, <2>3 DEF Hidden
      <3>3. Hidden(r) = 0 /\ Outstanding(r) \in Int
        BY <2>4, DueIsNat DEF Hidden
      <3> HIDE DEF Outstanding, Hidden
      <3>4. Due(r) = Outstanding(r)
        BY <3>3 DEF Due
      <3> QED
        BY <3>1, <3>2, <3>3, <3>4 DEF Due
    <2>6. \A x \in Rounds \ {r} : Due(x)' = Due(x)
      BY <1>2, <2>1, <2>2 DEF Due, Outstanding, Hidden
    <2>7. AllFollowed' => AllFollowed /\ Hidden(r)' = payout
      <3>1. AllFollowed' => AllFollowed
        BY <1>1, <1>2, <2>1, <2>2 DEF AllFollowed, Ended
      <3>2. AllFollowed' => tracked[r] # "none" \/ call[r] = "sending"
        BY <1>2, <1>5, <2>3, <2>4 DEF AllFollowed
      <3> QED
        BY <2>5, <3>1, <3>2
    <2>8. Hidden(r)' \in Int /\ Hidden(r)' <= payout
      BY <1>5, <2>5
    <2> HIDE DEF Due, AllFollowed, Hidden, Outstanding
    <2>9. /\ adjustment' + Due(r)' - funds' <= adjustment + Due(r) - funds
          /\ Hidden(r)' = payout =>
                 adjustment + Due(r) - funds <= adjustment' + Due(r)' - funds'
      <3> DEFINE h == Hidden(r)'
                 o == Outstanding(r)
      <3>1. /\ o \in Int /\ h \in Int /\ h <= payout /\ payout \in Int
            /\ Due(r) = o /\ Due(r)' = o + h
        BY <1>5, <2>5, <2>8
      <3>2. adjustment' = adjustment /\ funds' = funds + payout
        BY <1>2, <2>1
      <3> HIDE DEF h, o
      <3>3. adjustment' + Due(r)' - funds' <= adjustment + Due(r) - funds
        BY <1>1, <3>1, <3>2
      <3>4. h = payout => adjustment + Due(r) - funds <= adjustment' + Due(r)' - funds'
        BY <1>1, <3>1, <3>2
      <3> QED
        BY <3>3, <3>4 DEF h
    <2> QED
      BY <1>2, <2>6, <2>7, <2>9, MoneyOfOne
  <1>6. 2 * session[r].stake \in Nat /\ session[r].stake \in Nat /\ 0 \in Nat
    BY <1>1
  <1> QED
    BY <1>3, <1>4, <1>5, <1>6 DEF Ended

\* The arithmetic of a stake that leaves the chain and was given back.
LEMMA SlipFits ==
    ASSUME NEW f \in Int, NEW k \in Int, NEW x \in Int
    PROVE  /\ x <= f => x - k <= f - k
           /\ f <= x => f - k <= x - k
  OBVIOUS

\* A stake that was given back leaves the chain.
LEMMA MoneyOfLate ==
    ASSUME LedgerAssumption, RoundsInv, RoundsInv', GivenTypes, GivenTypes', MoneyInv,
           NEW r \in Rounds, OpenMinedLate(r) \/ ActionMinedLate(r)
    PROVE  MoneyInv'
  <1> DEFINE k == IF call[r] = "lost" /\ OpenMinedLate(r) THEN Stake ELSE loose[r]
  <1>1. /\ LedgerTypes /\ RoundOK(r) /\ Stake \in Nat /\ Stake # 0
        /\ NoSession.payout = 0 /\ NoSession.phase = "none"
        /\ loose[r] \in Nat
    BY LooseIsNat DEF RoundsInv, NoSession, Stake
  <1>2. /\ Slips(k) /\ k \in Nat
        /\ UNCHANGED <<call, action, mined, tracked, credited>>
    <2>1. CASE OpenMinedLate(r)
      BY <1>1, <2>1 DEF OpenMinedLate, callVars, trackVars, guestVars
    <2>2. CASE ~OpenMinedLate(r)
      BY <1>1, <2>2 DEF ActionMinedLate, trackVars, guestVars
    <2> QED
      BY <2>1, <2>2
  <1>3. ~Unplayed /\ baseline # NoBalance
    <2>1. call[r] = "lost" \/ loose[r] # 0
      BY <1>1 DEF OpenMinedLate, ActionMinedLate
    <2> QED
      BY <2>1 DEF Unplayed, MoneyInv
  <1>4. /\ \A x \in Rounds : session'[x].payout = session[x].payout
        /\ \A x \in Rounds : session'[x].phase \in Ended <=> session[x].phase \in Ended
        /\ \A x \in Rounds : call[x] = "sending" =>
               (session'[x] = NoSession <=> session[x] = NoSession)
    <2>1. CASE OpenMinedLate(r)
      <3>1. /\ session[r] = NoSession /\ call[r] = "lost"
            /\ session' = [session EXCEPT ![r] = OpenAt(Stake)]
        BY <2>1 DEF OpenMinedLate
      <3>2. OpenAt(Stake).payout = 0 /\ OpenAt(Stake).phase = "open"
        BY DEF OpenAt
      <3> QED
        BY <1>1, <3>1, <3>2 DEF LedgerTypes, Ended
    <2>2. CASE ActionMinedLate(r)
      <3>1. /\ session[r].phase = "open"
            /\ session' = [session EXCEPT ![r].stake = @ + loose[r]]
        BY <2>2 DEF ActionMinedLate
      <3>2. session'[r].payout = session[r].payout /\ session'[r].phase = "open"
        BY <1>1, <3>1 DEF LedgerTypes
      <3> QED
        BY <1>1, <3>1, <3>2 DEF LedgerTypes
    <2> QED
      BY <2>1, <2>2
  <1> HIDE DEF k
  <1>5. /\ funds' = funds - k /\ givenBack' = givenBack + k
        /\ UNCHANGED <<baseline, adjustment, activeRounds, epoch, raw>>
    BY <1>2 DEF Slips
  <1>6. Owed' = Owed /\ Owed \in Int
    <2>1. \A x \in Rounds : Due(x)' = Due(x)
      BY <1>2, <1>4 DEF Due, Outstanding, Hidden
    <2>2. \A x \in Rounds : Due(x)' <= Due(x)
      <3>1. \A x \in Rounds : Due(x) \in Nat
        BY DueIsNat
      <3> HIDE DEF Due
      <3> QED
        BY <2>1, <3>1
    <2> HIDE DEF Owed, Due
    <2> QED
      BY <2>1, <2>2, OwedShrinks
  <1>7. AllFollowed' <=> AllFollowed
    BY <1>2, <1>4 DEF AllFollowed
  <1>8. /\ funds \in Int /\ k \in Int /\ baseline \in Int /\ adjustment \in Int
        /\ givenBack \in Int /\ Net = adjustment - givenBack /\ Net' = adjustment - (givenBack + k)
    BY <1>1, <1>2, <1>5 DEF LedgerTypes, Balances, NoBalance, GivenTypes, Net
  <1>9. ASSUME NEW x \in Int, Fits(x)
        PROVE  x - k <= funds' /\ (AllFollowed' => funds' <= x - k)
    BY <1>5, <1>7, <1>8, <1>9, SlipFits DEF Fits
  <1>10. Fits(baseline + Net + Owed)'
    <2> HIDE DEF Owed, AllFollowed
    <2>1. /\ Fits(baseline + Net + Owed) /\ baseline + Net + Owed \in Int
      BY <1>3, <1>6, <1>8 DEF MoneyInv
    <2>2. baseline' + Net' + Owed' = (baseline + Net + Owed) - k
      BY <1>5, <1>6, <1>8
    <2> QED
      BY <1>9, <2>1, <2>2 DEF Fits
  <1>11. ASSUME NEW read \in reads'
         PROVE  ReadOK(read)'
    <2>1. CASE read \in reads /\ read.value = NoBalance
      <3>1. ReadOK(read)
        BY <2>1 DEF MoneyInv
      <3> QED
        BY <1>5, <2>1, <3>1 DEF ReadOK
    <2>2. ASSUME NEW old \in reads, old.value # NoBalance,
                 read.epoch = old.epoch, read.for = old.for,
                 read.value = old.value, read.missed = old.missed + k
          PROVE  ReadOK(read)'
      <3>1. ReadOK(old) /\ old.value \in Int /\ old.missed \in Int
        BY <1>1, <2>2 DEF MoneyInv, LedgerTypes, ReadsOfBalance, Balances, NoBalance
      <3>2. old.value - old.missed \in Int /\ read.value - read.missed = (old.value - old.missed) - k
        BY <1>8, <2>2, <3>1
      <3>3. Fits(old.value - old.missed) => Fits(read.value - read.missed)'
        BY <1>9, <3>2 DEF Fits
      <3> QED
        BY <1>5, <2>2, <3>1, <3>3 DEF ReadOK
    <2>3. \/ read \in reads /\ read.value = NoBalance
          \/ \E old \in reads :
                /\ old.value # NoBalance
                /\ read.epoch = old.epoch /\ read.for = old.for
                /\ read.value = old.value /\ read.missed = old.missed + k
      BY <1>1, <1>2, SlippedReads DEF LedgerTypes
    <2> QED
      BY <2>1, <2>2, <2>3
  <1> QED
    BY <1>3, <1>5, <1>10, <1>11 DEF MoneyInv

\* Who plays has a balance.
LEMMA PlayersHaveRead ==
    ASSUME ~EarlyPlay, MoneyInv, CanPlay
    PROVE  baseline # NoBalance
  BY DEF MoneyInv, CanPlay

\* A bet is taken off the display while it is due.
LEMMA MoneyOfBet ==
    ASSUME LedgerAssumption, ~EarlyPlay, ~LateActions, RoundsInv, RoundsInv', GivenTypes,
           GivenTypes', MoneyInv, NEW r \in Rounds,
           OpenSession(r) \/ \E extra \in ExtraStakes : SubmitAction(r, extra)
    PROVE  MoneyInv'
  <1>1. /\ LedgerTypes /\ RoundOK(r) /\ funds \in Int /\ adjustment \in Int /\ epoch \in Nat
        /\ NoSession.payout = 0 /\ NoSession.phase = "none"
    BY DEF RoundsInv, LedgerTypes, NoSession
  <1>2. /\ baseline # NoBalance
        /\ UNCHANGED <<funds, session, raw, reads, readFailed, credited, baseline, givenBack>>
    <2>1. CanPlay /\ UNCHANGED <<funds, session, raw, reads, readFailed, credited, baseline, givenBack>>
      BY DEF OpenSession, SubmitAction, BetPlaced, chainVars, readVars, guestVars, holdVars
    <2> QED
      BY <2>1, PlayersHaveRead
  <1>3. CASE OpenSession(r)
    <2>1. /\ call[r] = "idle" /\ call' = [call EXCEPT ![r] = "sending"]
          /\ epoch' = epoch + 1 /\ adjustment' = adjustment - 1
          /\ UNCHANGED <<action, tracked>>
      BY <1>3 DEF OpenSession, BetPlaced, Stake, actionVars, trackVars
    <2>2. /\ session[r] = NoSession /\ session[r].payout = 0
          /\ tracked[r] = "none" /\ action[r] = NoBalance
          /\ \A x \in Rounds \ {r} : call'[x] = call[x]
          /\ call'[r] = "sending"
      BY <1>1, <2>1 DEF RoundOK, LedgerTypes
    <2>3. Due(r) = 0 /\ Due(r)' = 1
      BY <1>2, <2>1, <2>2 DEF Due, Outstanding, Hidden, Stake
    <2>4. \A x \in Rounds \ {r} : Due(x)' = Due(x)
      BY <1>2, <2>1, <2>2 DEF Due, Outstanding, Hidden
    <2>5. AllFollowed' => AllFollowed
      <3>1. session[r].phase \notin Ended
        BY <1>1, <2>2 DEF Ended
      <3> QED
        BY <1>2, <2>1, <2>2, <3>1 DEF AllFollowed
    <2>6. epoch' \in Nat /\ epoch <= epoch' /\ epoch' # epoch
      BY <1>1, <2>1
    <2>7. Keeps /\ reads' \subseteq reads
      BY <1>2, <2>6 DEF Keeps
    <2> HIDE DEF Due, AllFollowed
    <2>8. /\ adjustment' + Due(r)' - funds' <= adjustment + Due(r) - funds
          /\ adjustment + Due(r) - funds <= adjustment' + Due(r)' - funds'
      <3>1. adjustment' = adjustment - 1 /\ funds' = funds
        BY <1>2, <2>1
      <3> QED
        BY <1>1, <2>3, <3>1
    <2> QED
      BY <1>2, <2>4, <2>5, <2>7, <2>8, MoneyOfOne
  <1>4. ASSUME NEW extra \in ExtraStakes, SubmitAction(r, extra)
        PROVE  MoneyInv'
    <2>1. /\ action[r] = NoBalance /\ action' = [action EXCEPT ![r] = extra]
          /\ session[r].phase = "open" /\ call[r] # "sending"
          /\ tracked' = [tracked EXCEPT ![r] = IF @ = "none" THEN "resume" ELSE @]
          /\ call' = call
      BY <1>4 DEF SubmitAction
    <2>2. extra \in Nat /\ extra # NoBalance
      BY <1>4 DEF LedgerAssumption, NoBalance
    <2>3. /\ session[r].payout = 0 /\ session[r] # NoSession
          /\ action'[r] = extra
          /\ \A x \in Rounds \ {r} : action'[x] = action[x] /\ tracked'[x] = tracked[x]
      BY <1>1, <2>1 DEF RoundOK, LedgerTypes, Ended
    <2>4. Due(r) = 0 /\ Due(r)' = extra
      BY <1>2, <2>1, <2>2, <2>3 DEF Due, Outstanding, Hidden
    <2>5. \A x \in Rounds \ {r} : Due(x)' = Due(x)
      BY <1>2, <2>1, <2>3 DEF Due, Outstanding, Hidden
    <2>6. AllFollowed' => AllFollowed
      <3>1. session[r].phase \notin Ended
        BY <2>1 DEF Ended
      <3> QED
        BY <1>2, <2>1, <2>3, <3>1 DEF AllFollowed
    <2>7. /\ adjustment' = adjustment - extra
          /\ epoch' = epoch => activeRounds' = activeRounds /\ adjustment' = adjustment
          /\ epoch' \in Nat /\ epoch <= epoch'
      <3>1. CASE tracked[r] # "none" /\ extra = 0
        <4>1. UNCHANGED holdVars
          BY <1>4, <3>1 DEF SubmitAction
        <4> QED
          BY <1>1, <3>1, <4>1 DEF holdVars
      <3>2. CASE ~(tracked[r] # "none" /\ extra = 0)
        <4>1. epoch' = epoch + 1 /\ adjustment' = adjustment - extra
          BY <1>4, <3>2 DEF SubmitAction, BetPlaced
        <4> QED
          BY <1>1, <4>1
      <3> QED
        BY <3>1, <3>2
    <2>8. Keeps /\ reads' \subseteq reads
      BY <1>2, <2>7 DEF Keeps, Net
    <2> HIDE DEF Due, AllFollowed
    <2>9. /\ adjustment' + Due(r)' - funds' <= adjustment + Due(r) - funds
          /\ adjustment + Due(r) - funds <= adjustment' + Due(r)' - funds'
      <3>1. adjustment' = adjustment - extra /\ funds' = funds /\ extra \in Int
        BY <1>2, <2>2, <2>7
      <3> QED
        BY <1>1, <2>4, <3>1
    <2> QED
      BY <1>2, <2>5, <2>6, <2>8, <2>9, MoneyOfOne
  <1> QED
    BY <1>3, <1>4

\* What becomes of a bet: the guest learns its round, or the stake is added
\* back.
LEMMA MoneyOfAnswer ==
    ASSUME LedgerAssumption, RoundsInv, RoundsInv', GivenTypes, GivenTypes', MoneyInv,
           NEW r \in Rounds, Opened(r) \/ OpenFails(r) \/ ActionFails(r) \/ ActionGivesUp(r)
    PROVE  MoneyInv'
  <1>1. /\ LedgerTypes /\ RoundOK(r) /\ funds \in Int /\ adjustment \in Int /\ epoch \in Nat
        /\ NoSession.payout = 0 /\ NoSession.phase = "none"
    BY DEF RoundsInv, LedgerTypes, NoSession
  <1>2. UNCHANGED <<funds, session, raw, reads, readFailed, credited, epoch, givenBack>>
    BY DEF Opened, OpenFails, ActionFails, ActionGivesUp, RoundsEnded, chainVars, readVars,
           guestVars, holdVars
  <1>3. CASE Opened(r)
    <2>1. /\ call[r] = "sending" /\ session[r] # NoSession
          /\ call' = [call EXCEPT ![r] = "opened"]
          /\ tracked' = tracked \/ tracked' = [tracked EXCEPT ![r] = "open"]
          /\ r \notin orphans => tracked' = [tracked EXCEPT ![r] = "open"]
          /\ UNCHANGED <<action, baseline, adjustment, activeRounds>>
      BY <1>3 DEF Opened, actionVars, holdVars
    <2>2. /\ call'[r] = "opened" /\ action[r] = NoBalance /\ tracked[r] = "none"
          /\ <<"open", r>> \in activeRounds /\ session[r].payout \in Nat
          /\ tracked'[r] \in {"none", "open"}
          /\ tracked'[r] = "open" \/ r \in orphans
          /\ \A x \in Rounds \ {r} : call'[x] = call[x] /\ tracked'[x] = tracked[x]
      BY <1>1, <2>1 DEF RoundOK, LedgerTypes
    <2>3. /\ Due(r) = session[r].payout
          /\ Due(r)' = IF tracked'[r] = "open" THEN session[r].payout ELSE 0
      BY <1>2, <2>1, <2>2 DEF Due, Outstanding, Hidden
    <2>4. \A x \in Rounds \ {r} : Due(x)' = Due(x)
      BY <1>2, <2>1, <2>2 DEF Due, Outstanding, Hidden
    <2>5. AllFollowed' => AllFollowed /\ Due(r)' = Due(r)
      <3>1. AllFollowed' => AllFollowed
        BY <1>2, <2>1, <2>2 DEF AllFollowed
      <3>2. AllFollowed' => r \in credited \/ tracked'[r] # "none" \/ session[r].phase \notin Ended
        BY <1>2, <2>2 DEF AllFollowed
      <3>3. r \notin credited /\ (session[r].phase \notin Ended => session[r].payout = 0)
        BY <1>1, <2>1 DEF RoundOK
      <3> QED
        BY <2>2, <2>3, <3>1, <3>2, <3>3
    <2>6. baseline # NoBalance
      BY <2>2 DEF MoneyInv
    <2>7. epoch \in Nat /\ epoch <= epoch
      BY <1>1
    <2>8. Keeps /\ reads' \subseteq reads
      BY <1>2, <2>1, <2>6, <2>7 DEF Keeps, Net
    <2>9. Due(r) \in Int /\ Due(r)' \in Int /\ Due(r)' <= Due(r)
      BY <2>2, <2>3
    <2> HIDE DEF Due, AllFollowed
    <2>10. /\ adjustment' + Due(r)' - funds' <= adjustment + Due(r) - funds
           /\ Due(r)' = Due(r) => adjustment + Due(r) - funds <= adjustment' + Due(r)' - funds'
      <3> DEFINE d == Due(r)
                 e == Due(r)'
      <3>1. adjustment' = adjustment /\ funds' = funds /\ d \in Int /\ e \in Int /\ e <= d
        BY <1>2, <2>1, <2>9
      <3> HIDE DEF d, e
      <3>2. adjustment' + e - funds' <= adjustment + d - funds
        BY <1>1, <3>1
      <3>3. e = d => adjustment + d - funds <= adjustment' + e - funds'
        BY <1>1, <3>1
      <3> QED
        BY <3>2, <3>3 DEF d, e
    <2> QED
      BY <1>2, <2>4, <2>5, <2>8, <2>10, MoneyOfOne
  <1>4. CASE OpenFails(r)
    <2>1. /\ call[r] = "sending" /\ session[r] = NoSession
          /\ call' = [call EXCEPT ![r] = "failed"]
          /\ RoundsEnded({<<"open", r>>}, 0, Stake)
          /\ UNCHANGED <<action, tracked>>
      BY <1>4 DEF OpenFails, actionVars, trackVars
    <2>2. /\ call'[r] = "failed" /\ action[r] = NoBalance /\ tracked[r] = "none"
          /\ <<"open", r>> \in activeRounds /\ session[r].payout = 0
          /\ \A x \in Rounds \ {r} : call'[x] = call[x]
      BY <1>1, <2>1 DEF RoundOK, LedgerTypes
    <2>3. baseline # NoBalance
      BY <2>2 DEF MoneyInv
    <2>4. adjustment' = adjustment + 1 /\ baseline' = baseline
      <3>1. adjustment' = adjustment + Stake + 0 /\ baseline' = baseline
        BY <2>1, <2>3 DEF RoundsEnded, Seeded
      <3> QED
        BY <1>1, <3>1 DEF Stake
    <2>5. Due(r) = 1 /\ Due(r)' = 0
      BY <1>2, <2>1, <2>2 DEF Due, Outstanding, Hidden, Stake
    <2>6. \A x \in Rounds \ {r} : Due(x)' = Due(x)
      BY <1>2, <2>1, <2>2 DEF Due, Outstanding, Hidden
    <2>7. AllFollowed' => AllFollowed
      <3>1. session[r].phase \notin Ended
        BY <1>1, <2>1 DEF Ended
      <3> QED
        BY <1>2, <2>1, <2>2, <3>1 DEF AllFollowed
    <2>8. epoch \in Nat /\ epoch <= epoch
      BY <1>1
    <2>9. Keeps /\ reads' \subseteq reads
      BY <1>2, <2>2, <2>3, <2>4, <2>8 DEF Keeps, Net
    <2> HIDE DEF Due, AllFollowed
    <2>10. /\ adjustment' + Due(r)' - funds' <= adjustment + Due(r) - funds
           /\ adjustment + Due(r) - funds <= adjustment' + Due(r)' - funds'
      <3>1. adjustment' = adjustment + 1 /\ funds' = funds
        BY <1>2, <2>4
      <3> QED
        BY <1>1, <2>5, <3>1
    <2> QED
      BY <1>2, <2>6, <2>7, <2>9, <2>10, MoneyOfOne
  <1>5. CASE ActionFails(r) \/ ActionGivesUp(r)
    <2>1. /\ action[r] # NoBalance /\ action' = [action EXCEPT ![r] = NoBalance]
          /\ RoundsEnded({}, 0, action[r])
          /\ UNCHANGED <<call, tracked>>
      BY <1>5 DEF ActionFails, ActionGivesUp, trackVars
    <2>2. /\ action[r] \in Nat /\ action'[r] = NoBalance
          /\ \A x \in Rounds \ {r} : action'[x] = action[x]
      BY <1>1, <2>1 DEF LedgerTypes, LedgerAssumption
    <2>3. /\ adjustment' = adjustment + action[r] /\ activeRounds' = activeRounds
          /\ baseline' \in {baseline, raw} /\ (baseline # NoBalance => baseline' = baseline)
      <3>1. /\ adjustment' = adjustment + action[r] + 0 /\ activeRounds' = activeRounds
            /\ baseline' = Seeded(raw)
        BY <2>1 DEF RoundsEnded
      <3>2. baseline' \in {baseline, raw} /\ (baseline # NoBalance => baseline' = baseline)
        BY <3>1 DEF Seeded
      <3> QED
        BY <1>1, <2>2, <3>1, <3>2
    <2>4. baseline' = baseline /\ (baseline = NoBalance => raw = NoBalance)
      BY <2>3 DEF MoneyInv
    <2>5. /\ Due(r) = action[r] + Hidden(r) /\ Due(r)' = Hidden(r) /\ Hidden(r) \in Int
      <3>1. call[r] # "sending" /\ session[r].payout \in Nat
        BY <1>1, <2>1 DEF RoundOK, LedgerTypes
      <3> QED
        BY <1>2, <2>1, <2>2, <3>1 DEF Due, Outstanding, Hidden
    <2>6. \A x \in Rounds \ {r} : Due(x)' = Due(x)
      BY <1>2, <2>1, <2>2 DEF Due, Outstanding, Hidden
    <2>7. AllFollowed' => AllFollowed
      BY <1>2, <2>1 DEF AllFollowed
    <2>8. activeRounds = {} => action[r] = 0 /\ adjustment' = adjustment /\ Net' = Net
      <3>1. activeRounds = {} => action[r] = 0
        BY <1>1, <2>1 DEF RoundOK
      <3>2. activeRounds = {} => adjustment' = adjustment
        BY <1>1, <2>3, <3>1
      <3> QED
        BY <1>2, <3>1, <3>2 DEF Net
    <2>9. baseline = NoBalance => activeRounds = {} /\ (Unplayed => Unplayed')
      <3>1. /\ mined' = mined
            /\ loose' = loose \/ loose' = [loose EXCEPT ![r] = action[r]]
        BY <1>5 DEF ActionFails, ActionGivesUp
      <3>2. baseline = NoBalance => activeRounds = {}
        BY DEF MoneyInv
      <3>3. ASSUME baseline = NoBalance, Unplayed, NEW x \in Rounds
            PROVE  loose'[x] = 0
        BY <2>8, <3>1, <3>2, <3>3 DEF GivenTypes, Unplayed
      <3> QED
        BY <1>2, <2>1, <3>1, <3>2, <3>3 DEF Unplayed
    <2>10. epoch \in Nat /\ epoch <= epoch
      BY <1>1
    <2>11. Keeps /\ reads' \subseteq reads
      BY <1>2, <2>3, <2>4, <2>8, <2>9, <2>10 DEF Keeps
    <2> HIDE DEF Due, AllFollowed, Hidden
    <2>12. /\ adjustment' + Due(r)' - funds' <= adjustment + Due(r) - funds
           /\ adjustment + Due(r) - funds <= adjustment' + Due(r)' - funds'
      <3> DEFINE h == Hidden(r)
                 a == action[r]
      <3>1. /\ a \in Int /\ h \in Int /\ Due(r) = a + h /\ Due(r)' = h /\ funds' = funds
            /\ adjustment' = adjustment + a
        BY <1>2, <2>2, <2>3, <2>5
      <3> HIDE DEF a, h
      <3> QED
        BY <1>1, <3>1
    <2> QED
      BY <1>2, <2>6, <2>7, <2>11, <2>12, MoneyOfOne
  <1> QED
    BY <1>3, <1>4, <1>5

\* What becomes of a call that gives up, or whose action was mined: a stake is
\* added back although it left the chain, or its receipt comes.
LEMMA MoneyOfGivenUp ==
    ASSUME LedgerAssumption, RoundsInv, RoundsInv', GivenTypes, GivenTypes', MoneyInv,
           NEW r \in Rounds, OpenGivesUp(r) \/ MinedActionGivesUp(r)
    PROVE  MoneyInv'
  <1>1. /\ LedgerTypes /\ RoundOK(r) /\ funds \in Int /\ adjustment \in Int /\ epoch \in Nat
        /\ NoSession.payout = 0 /\ NoSession.phase = "none"
        /\ givenBack \in Int /\ mined[r] \in Nat /\ Stake = 1
    BY LooseIsNat DEF RoundsInv, LedgerTypes, NoSession, GivenTypes, Stake
  <1>2. /\ UNCHANGED <<funds, session, action, raw, reads, readFailed, credited, epoch, tracked>>
        /\ epoch <= epoch
    BY <1>1 DEF OpenGivesUp, MinedActionGivesUp, RoundsEnded, actionVars, chainVars, readVars,
           guestVars, trackVars
  <1>3. CASE OpenGivesUp(r)
    <2>1. /\ call[r] = "sending"
          /\ call' = [call EXCEPT ![r] = "lost"]
          /\ RoundsEnded({<<"open", r>>}, 0, Stake)
          /\ givenBack' = givenBack + IF session[r] = NoSession THEN 0 ELSE Stake
      BY <1>3 DEF OpenGivesUp
    <2>2. /\ call'[r] = "lost" /\ action[r] = NoBalance /\ tracked[r] = "none"
          /\ <<"open", r>> \in activeRounds /\ session[r].payout \in Nat
          /\ session[r].phase \notin Ended => session[r].payout = 0
          /\ r \notin credited
          /\ \A x \in Rounds \ {r} : call'[x] = call[x]
      BY <1>1, <2>1 DEF RoundOK, LedgerTypes
    <2>3. baseline # NoBalance
      BY <2>2 DEF MoneyInv
    <2>4. adjustment' = adjustment + 1 /\ baseline' = baseline
      <3>1. adjustment' = adjustment + Stake + 0 /\ baseline' = baseline
        BY <2>1, <2>3 DEF RoundsEnded, Seeded
      <3> QED
        BY <1>1, <3>1
    <2>5. /\ Due(r) = (IF session[r] = NoSession THEN 1 ELSE 0) + session[r].payout
          /\ Due(r)' = 0
      BY <1>1, <1>2, <2>1, <2>2 DEF Due, Outstanding, Hidden
    <2>6. \A x \in Rounds \ {r} : Due(x)' = Due(x)
      BY <1>2, <2>1, <2>2 DEF Due, Outstanding, Hidden
    <2>7. AllFollowed' => AllFollowed /\ session[r].payout = 0
      BY <1>2, <2>1, <2>2 DEF AllFollowed
    <2>8. Net' = Net + (IF session[r] = NoSession THEN 1 ELSE 0) /\ Net \in Int
      BY <1>1, <2>1, <2>4 DEF Net
    <2>9. Keeps /\ reads' \subseteq reads
      BY <1>1, <1>2, <2>2, <2>3, <2>4 DEF Keeps
    <2> HIDE DEF Due, AllFollowed, Net
    <2>10. /\ Net' + Due(r)' - funds' <= Net + Due(r) - funds
           /\ session[r].payout = 0 => Net + Due(r) - funds <= Net' + Due(r)' - funds'
      <3> DEFINE n == Net
                 p == session[r].payout
                 i == IF session[r] = NoSession THEN 1 ELSE 0
      <3>1. /\ i \in Int /\ n \in Int /\ p \in Nat /\ Net' = n + i
            /\ Due(r) = i + p /\ Due(r)' = 0 /\ funds' = funds
        BY <1>2, <2>2, <2>5, <2>8
      <3>2. (n + i) + 0 - funds <= n + (i + p) - funds
        <4> HIDE DEF n, i, p
        <4> QED
          BY <1>1, <3>1
      <3>3. p = 0 => n + (i + p) - funds <= (n + i) + 0 - funds
        <4> HIDE DEF n, i, p
        <4> QED
          BY <1>1, <3>1
      <3> QED
        BY <3>1, <3>2, <3>3
    <2> QED
      BY <2>6, <2>7, <2>9, <2>10, MoneyOfOneNet
  <1>4. CASE MinedActionGivesUp(r)
    <2>1. /\ mined[r] > 0 /\ UNCHANGED call
          /\ RoundsEnded({}, 0, mined[r])
          /\ givenBack' = givenBack + mined[r]
      BY <1>4 DEF MinedActionGivesUp
    <2>2. baseline # NoBalance
      BY <1>1, <2>1 DEF MoneyInv, Unplayed
    <2>3. /\ adjustment' = adjustment + mined[r] /\ activeRounds' = activeRounds
          /\ baseline' = baseline
      <3>1. /\ adjustment' = adjustment + mined[r] + 0 /\ activeRounds' = activeRounds
            /\ baseline' = Seeded(raw)
        BY <2>1 DEF RoundsEnded
      <3> QED
        BY <1>1, <2>2, <3>1 DEF Seeded
    <2>4. \A x \in Rounds : Due(x)' = Due(x)
      BY <1>2, <2>1 DEF Due, Outstanding, Hidden
    <2>5. AllFollowed' => AllFollowed
      BY <1>2, <2>1 DEF AllFollowed
    <2>6. Net' = Net /\ Net \in Int
      BY <1>1, <2>1, <2>3 DEF Net
    <2>7. Keeps /\ reads' \subseteq reads
      BY <1>1, <1>2, <2>2, <2>3, <2>6 DEF Keeps
    <2>8. Due(r) \in Int
      BY DueIsNat
    <2> HIDE DEF Due, AllFollowed, Net
    <2>9. Net + Due(r) - funds \in Int /\ Net' + Due(r)' - funds' = Net + Due(r) - funds
      BY <1>1, <1>2, <2>4, <2>6, <2>8
    <2>10. Net + Due(r) - funds <= Net + Due(r) - funds
      BY <2>9
    <2> QED
      BY <2>4, <2>5, <2>7, <2>9, <2>10, MoneyOfOneNet
  <1> QED
    BY <1>3, <1>4

\* The receipt of an action changes nothing on the display.
LEMMA MoneyOfReceipt ==
    ASSUME LedgerAssumption, RoundsInv, GivenTypes, MoneyInv, NEW r \in Rounds,
           ActionReturns(r)
    PROVE  MoneyInv'
  <1>1. /\ UNCHANGED <<funds, session, call, action, tracked, credited, activeRounds, baseline,
                       adjustment, givenBack, epoch>>
        /\ raw' = raw /\ reads' = reads /\ loose' = loose
        /\ mined' = [mined EXCEPT ![r] = 0]
    BY DEF ActionReturns, chainVars, holdVars, readVars, trackVars, guestVars
  <1>2. Unplayed => Unplayed'
    BY <1>1 DEF GivenTypes, Unplayed
  <1> QED
    BY <1>1, <1>2, MoneyAtRest

\* What ended rounds pay moves from what is due to the display.
LEMMA MoneyOfEnd ==
    ASSUME LedgerAssumption, RoundsInv, RoundsInv', GivenTypes, GivenTypes', MoneyInv,
           NEW rs \in SUBSET Rounds, EndRounds(rs),
           \A r \in rs : tracked[r] # "none" /\ session[r].phase \in Ended,
           UNCHANGED <<funds, session, call, action, mined, loose, raw, reads>>
    PROVE  MoneyInv'
  <1> DEFINE paid == SumFunctionOnSet([r \in Rounds |-> session[r].payout], rs)
  <1>1. /\ activeRounds' = activeRounds \ {<<tracked[r], r>> : r \in rs}
        /\ \A r \in Rounds : tracked'[r] = IF r \in rs THEN "none" ELSE tracked[r]
        /\ adjustment' = adjustment + paid /\ paid \in Nat
        /\ baseline' = Seeded(raw)
        /\ credited' = credited \cup rs
        /\ epoch' = epoch /\ givenBack' = givenBack
    BY EndedRounds DEF EndRounds
  <1>2. /\ funds \in Int /\ adjustment \in Int /\ epoch \in Nat
        /\ \A r \in Rounds : RoundOK(r) /\ session[r].payout \in Nat
    BY DEF RoundsInv, LedgerTypes
  <1>3. rs # {} => activeRounds # {} /\ baseline # NoBalance
    BY <1>2 DEF RoundOK, MoneyInv
  <1>4. rs = {} => paid = 0
    <2> DEFINE p == [r \in Rounds |-> session[r].payout]
    <2>1. rs = {} => SumFunctionOnSet(p, rs) = 0
      <3> HIDE DEF p
      <3> QED
        BY SumOfNone
    <2> QED
      BY <2>1
  <1> HIDE DEF paid
  <1>5. \A x \in Rounds : Due(x) = Due(x)' + IF x \in rs THEN session[x].payout ELSE 0
    <2> SUFFICES ASSUME NEW x \in Rounds
                 PROVE  Due(x) = Due(x)' + IF x \in rs THEN session[x].payout ELSE 0
      OBVIOUS
    <2>1. Outstanding(x)' = Outstanding(x) /\ Outstanding(x) \in Int
      BY DueIsNat DEF Outstanding
    <2>2. Hidden(x) = Hidden(x)' + IF x \in rs THEN session[x].payout ELSE 0
      <3>1. session[x].payout \in Nat /\ (x \in rs => call[x] # "sending")
        BY <1>2 DEF RoundOK
      <3> QED
        BY <1>1, <3>1 DEF Hidden
    <2>3. Hidden(x)' \in Int /\ (IF x \in rs THEN session[x].payout ELSE 0) \in Int
      <3>1. session'[x].payout \in Nat /\ session[x].payout \in Nat
        BY <1>2
      <3> QED
        BY <3>1 DEF Hidden
    <2> HIDE DEF Outstanding, Hidden
    <2> DEFINE o == Outstanding(x)
               h == Hidden(x)'
               p == IF x \in rs THEN session[x].payout ELSE 0
    <2>4. o \in Int /\ h \in Int /\ p \in Int /\ Due(x) = o + (h + p) /\ Due(x)' = o + h
      BY <2>1, <2>2, <2>3 DEF Due
    <2>5. Due(x) = Due(x)' + p
      <3> HIDE DEF o, h, p
      <3> QED
        BY <2>4
    <2> QED
      BY <2>5
  <1>6. Owed = Owed' + paid /\ Owed \in Int /\ Owed' \in Int
    BY <1>5, OwedPaid DEF paid
  <1>7. AllFollowed' => AllFollowed
    BY <1>1 DEF AllFollowed
  <1>8. Balanced
    <2> HIDE DEF Owed, AllFollowed
    <2>1. /\ adjustment' + Owed' - funds' <= adjustment + Owed - funds
          /\ adjustment + Owed - funds <= adjustment' + Owed' - funds'
      <3> DEFINE o == Owed
                 e == Owed'
      <3>1. /\ o \in Int /\ e \in Int /\ paid \in Int /\ o = e + paid
            /\ funds' = funds /\ adjustment' = adjustment + paid
        BY <1>1, <1>6
      <3> HIDE DEF o, e
      <3>2. adjustment' + e - funds' <= adjustment + o - funds
        BY <1>2, <3>1
      <3>3. adjustment + o - funds <= adjustment' + e - funds'
        BY <1>2, <3>1
      <3> QED
        BY <3>2, <3>3 DEF o, e
    <2> QED
      BY <1>1, <1>6, <1>7, <2>1, BalancedWithout
  <1>9. Keeps
    <2>1. baseline' = baseline
      BY <1>1 DEF Seeded, MoneyInv
    <2>2. rs = {} => adjustment' = adjustment /\ credited' = credited
      BY <1>1, <1>2, <1>4
    <2>3. baseline = NoBalance => raw = NoBalance /\ (Unplayed => Unplayed')
      BY <1>3, <2>2 DEF MoneyInv, Unplayed
    <2>4. /\ activeRounds = {} => activeRounds' = {} /\ Net' = Net
          /\ baseline = NoBalance => adjustment' = adjustment
      BY <1>1, <1>3, <2>2 DEF Net
    <2>5. epoch' \in Nat /\ epoch <= epoch' /\ epoch' = epoch
      BY <1>1, <1>2
    <2> QED
      BY <1>1, <2>1, <2>3, <2>4, <2>5 DEF Keeps
  <1> QED
    BY <1>6, <1>8, <1>9, MoneyKept

\* The steps that end rounds, or forget them with the viewport.
LEMMA MoneyOfReveal ==
    ASSUME LedgerAssumption, RoundsInv, RoundsInv', GivenTypes, GivenTypes', MoneyInv,
           SettleTrackedRounds \/ \E r \in Rounds : Reveal(r)
    PROVE  MoneyInv'
  <1>1. /\ UNCHANGED <<funds, session, call, action, mined, loose, raw, reads, readFailed>>
        /\ LedgerTypes /\ \A r \in Rounds : RoundOK(r)
    BY DEF SettleTrackedRounds, Reveal, chainVars, callVars, readVars, RoundsInv
  <1>2. CASE SettleTrackedRounds
    <2> DEFINE done == {r \in Rows : /\ tracked[r] # "none"
                                     /\ r \in pendingReveal \/ session[r].payout = 0}
    <2>1. EndRounds(done)
      BY <1>2 DEF SettleTrackedRounds
    <2>2. /\ done \in SUBSET Rounds
          /\ \A r \in done : tracked[r] # "none" /\ session[r].phase \in Ended
      BY <1>1 DEF LedgerTypes, Rows, RoundOK
    <2> HIDE DEF done
    <2> QED
      BY <1>1, <2>1, <2>2, MoneyOfEnd
  <1>3. ASSUME NEW r \in Rounds, Reveal(r)
        PROVE  MoneyInv'
    <2>1. r \in Shown /\ session[r].phase \in Ended
      BY <1>1, <1>3 DEF Reveal, Shown, RoundOK
    <2>2. CASE tracked[r] # "none" /\ r \in Rows \cup patched
      <3>1. EndRounds({r}) /\ {r} \in SUBSET Rounds
        BY <1>3, <2>2 DEF Reveal
      <3>2. \A x \in {r} : tracked[x] # "none" /\ session[x].phase \in Ended
        BY <2>1, <2>2
      <3> QED
        BY <1>1, <3>1, <3>2, MoneyOfEnd
    <2>3. CASE ~(tracked[r] # "none" /\ r \in Rows \cup patched)
      <3>1. UNCHANGED <<holdVars, tracked, credited>>
        BY <1>3, <2>3 DEF Reveal, trackVars
      <3>2. UNCHANGED <<tracked, credited, activeRounds, baseline, adjustment, givenBack, epoch>>
        BY <3>1 DEF holdVars
      <3>3. Unplayed => Unplayed'
        BY <1>1, <3>2 DEF Unplayed
      <3> QED
        BY <1>1, <3>2, <3>3, MoneyAtRest
    <2> QED
      BY <2>2, <2>3
  <1> QED
    BY <1>2, <1>3

\* What the ledger followed is due no more when the viewport is gone.
LEMMA MoneyOfUnmount ==
    ASSUME LedgerAssumption, RoundsInv, RoundsInv', GivenTypes, GivenTypes', MoneyInv, Unmount
    PROVE  MoneyInv'
  <1>1. /\ UNCHANGED <<funds, session, call, action, mined, loose, baseline, adjustment, givenBack,
                       epoch, credited>>
        /\ activeRounds' \subseteq activeRounds
        /\ tracked' = [r \in Rounds |-> "none"]
        /\ raw' = NoBalance
        /\ reads' \subseteq reads
    BY DEF Unmount, chainVars, callVars
  <1>2. funds \in Int /\ adjustment \in Int /\ epoch \in Nat
    BY DEF RoundsInv, LedgerTypes
  <1>3. ASSUME NEW x \in Rounds
        PROVE  /\ Due(x)' <= Due(x)
               /\ tracked[x] = "none" \/ session[x].phase \notin Ended => Due(x)' = Due(x)
    <2>1. Outstanding(x)' = Outstanding(x) /\ Outstanding(x) \in Int
      BY <1>1, DueIsNat DEF Outstanding
    <2>2. /\ Hidden(x) \in Nat
          /\ Hidden(x)' \in {Hidden(x), 0}
          /\ tracked[x] = "none" \/ session[x].phase \notin Ended => Hidden(x)' = Hidden(x)
      <3>1. /\ session[x].payout \in Nat
            /\ session[x].phase \notin Ended => session[x].payout = 0
        BY DEF RoundsInv, LedgerTypes, RoundOK
      <3> QED
        BY <1>1, <3>1 DEF Hidden
    <2> HIDE DEF Outstanding, Hidden
    <2>3. Due(x) = Outstanding(x) + Hidden(x) /\ Due(x)' = Outstanding(x) + Hidden(x)'
      BY <2>1 DEF Due
    <2> DEFINE o == Outstanding(x)
               h == Hidden(x)
               k == Hidden(x)'
    <2>4. o \in Int /\ h \in Int /\ k \in Int /\ k <= h /\ Due(x) = o + h /\ Due(x)' = o + k
      BY <2>1, <2>2, <2>3
    <2>5. Due(x)' <= Due(x)
      <3> HIDE DEF o, h, k
      <3> QED
        BY <2>4
    <2> QED
      BY <2>2, <2>3, <2>5
  <1>4. /\ Owed' <= Owed /\ Owed \in Int /\ Owed' \in Int
        /\ (\A x \in Rounds : Due(x)' = Due(x)) => Owed' = Owed
    BY <1>3, OwedShrinks
  <1>5. AllFollowed' => AllFollowed /\ Owed' = Owed
    <2> SUFFICES ASSUME AllFollowed'
                 PROVE  AllFollowed /\ Owed' = Owed
      OBVIOUS
    <2>1. \A x \in Rounds : session[x].phase \in Ended => x \in credited \/ call[x] = "sending"
      BY <1>1 DEF AllFollowed
    <2>2. \A x \in Rounds : session[x].phase \in Ended => tracked[x] = "none"
      BY <2>1 DEF RoundsInv, RoundOK
    <2>3. AllFollowed
      BY <2>1 DEF AllFollowed
    <2>4. \A x \in Rounds : Due(x)' = Due(x)
      BY <1>3, <2>2
    <2> HIDE DEF Due, Owed, AllFollowed
    <2> QED
      BY <1>4, <2>3, <2>4
  <1>6. Balanced
    <2> HIDE DEF Owed, AllFollowed
    <2> DEFINE o == Owed
               e == Owed'
    <2>1. o \in Int /\ e \in Int /\ e <= o /\ funds' = funds /\ adjustment' = adjustment
      BY <1>1, <1>4
    <2>2. adjustment' + e - funds' <= adjustment + o - funds
      <3> HIDE DEF o, e
      <3> QED
        BY <1>2, <2>1
    <2>3. e = o => adjustment + o - funds <= adjustment' + e - funds'
      <3> HIDE DEF o, e
      <3> QED
        BY <1>2, <2>1
    <2> QED
      BY <1>1, <1>4, <1>5, <2>2, <2>3, BalancedWithout
  <1>7. Keeps
    <2>1. Unplayed' <=> Unplayed
      BY <1>1 DEF Unplayed
    <2>2. epoch' \in Nat /\ epoch <= epoch' /\ epoch' = epoch
      BY <1>1, <1>2
    <2> QED
      BY <1>1, <2>1, <2>2 DEF Keeps, Net, MoneyInv
  <1> QED
    BY <1>1, <1>4, <1>6, <1>7, MoneyKept

\* A balance that is adopted fits: it was read in the current epoch with no
\* round under way, or it is the first one.
LEMMA MoneyOfLand ==
    ASSUME LedgerAssumption, RoundsInv, RoundsInv', GivenTypes, MoneyInv, NEW read \in reads,
           Land(read)
    PROVE  MoneyInv'
  <1>1. /\ UNCHANGED <<funds, session, call, action, mined, loose, tracked, credited, activeRounds,
                       epoch>>
        /\ reads' \subseteq reads /\ read.value # NoBalance
    BY DEF Land, chainVars, callVars, trackVars, guestVars
  <1>2. Owed' = Owed /\ (AllFollowed' <=> AllFollowed) /\ (Unplayed' <=> Unplayed)
    BY <1>1 DEF Owed, Due, Outstanding, Hidden, AllFollowed, Unplayed
  <1>3. \A x : Fits(x)' <=> Fits(x)
    BY <1>1, <1>2 DEF Fits
  <1>4. \A other \in reads' : ReadOK(other)'
    BY <1>1, <1>3 DEF MoneyInv, ReadOK
  <1>5. read.value \in Int /\ read.missed \in Int /\ adjustment \in Int
    BY DEF RoundsInv, LedgerTypes, ReadsOfBalance, Balances, NoBalance
  <1>6. ASSUME UNCHANGED <<baseline, adjustment, givenBack>>, baseline = NoBalance => raw' = raw
        PROVE  MoneyInv'
    <2>1. Net' = Net
      BY <1>6 DEF Net
    <2> QED
      BY <1>1, <1>2, <1>3, <1>4, <1>6, <2>1 DEF MoneyInv
  <1>7. ASSUME activeRounds = {}, baseline' = read.value, adjustment' = 0,
               givenBack' = read.missed, Fits(read.value - read.missed)
        PROVE  MoneyInv'
    <2>1. Owed' = 0
      BY <1>1, <1>2, <1>7, OwedNone
    <2>2. baseline' + Net' + Owed' = read.value - read.missed
      <3>1. Net' = 0 - read.missed
        BY <1>7 DEF Net
      <3> QED
        BY <1>5, <1>7, <2>1, <3>1
    <2>3. Fits(baseline + Net + Owed)'
      BY <1>3, <1>7, <2>2
    <2> QED
      BY <1>1, <1>4, <1>7, <2>3 DEF MoneyInv
  <1>8. CASE read.for = "raw" /\ baseline # NoBalance
    <2>1. UNCHANGED <<baseline, adjustment, givenBack>>
      BY <1>8 DEF Land, Seeded
    <2> QED
      BY <1>6, <1>8, <2>1
  <1>9. CASE read.for = "raw" /\ baseline = NoBalance
    <2>1. /\ activeRounds = {} /\ adjustment = 0 /\ givenBack = 0 /\ read.missed = 0
          /\ Fits(read.value - read.missed)
      <3>1. /\ activeRounds = {} /\ adjustment = 0 /\ givenBack = 0 /\ read.missed = 0
            /\ Fits(read.value)
        BY <1>1, <1>9 DEF MoneyInv
      <3>2. read.value - read.missed = read.value
        BY <1>5, <3>1
      <3> QED
        BY <3>1, <3>2
    <2>2. adjustment' = 0 /\ baseline' = read.value /\ givenBack' = read.missed
      BY <1>1, <1>9, <2>1 DEF Land, Seeded
    <2> QED
      BY <1>7, <2>1, <2>2
  <1>10. CASE read.for # "raw" /\ read.epoch = epoch /\ activeRounds = {}
    <2>1. read.for = "baseline"
      BY <1>10 DEF RoundsInv, LedgerTypes, ReadsOfBalance
    <2>2. Fits(read.value - read.missed)
      BY <1>1, <1>10, <2>1 DEF MoneyInv, ReadOK
    <2>3. adjustment' = 0 /\ baseline' = read.value /\ givenBack' = read.missed
      BY <1>10 DEF Land
    <2> QED
      BY <1>7, <1>10, <2>2, <2>3
  <1>11. CASE read.for # "raw" /\ ~(read.epoch = epoch /\ activeRounds = {})
    <2>1. UNCHANGED <<raw, baseline, adjustment, givenBack>>
      BY <1>11 DEF Land
    <2> QED
      BY <1>6, <2>1
  <1> QED
    BY <1>8, <1>9, <1>10, <1>11

\* The reads that begin or are answered, and what the rows and the wallet do.
LEMMA MoneyOfRest ==
    ASSUME LedgerAssumption, RoundsInv, MoneyInv,
           \/ FireTimer
           \/ \E read \in reads : Answer(read) \/ FetchFails(read)
           \/ \E r \in Rounds : Flash(r) \/ Index(r) \/ Clear(r)
           \/ ToggleWallet
           \/ Mount
    PROVE  MoneyInv'
  <1>1. /\ UNCHANGED <<funds, session, call, action, tracked, credited, activeRounds, baseline,
                       adjustment, givenBack, epoch, raw, mined, loose>>
    BY DEF FireTimer, Answer, FetchFails, Flash, Index, Clear, ToggleWallet, Mount, chainVars,
           callVars, holdVars, readVars, trackVars, guestVars
  <1>2. epoch \in Nat /\ reads \subseteq ReadsOfBalance
    BY DEF RoundsInv, LedgerTypes
  <1>3. ASSUME NEW read \in reads'
        PROVE  \/ read \in reads
               \/ /\ read.epoch <= epoch /\ read.missed = 0
                  /\ read.for = "baseline" /\ read.epoch = epoch => activeRounds = {}
                  /\ read.value # NoBalance => read.value = funds
    <2>1. ASSUME NEW for \in {"raw", "baseline"}, read = Read(for)
          PROVE  /\ read.epoch = epoch /\ read.for = for /\ read.value = NoBalance
                 /\ read.missed = 0
      BY <2>1 DEF Read
    <2>2. CASE FireTimer
      <3>1. read \in reads \/ (activeRounds = {} /\ read = Read("baseline"))
        BY <1>3, <2>2 DEF FireTimer
      <3> QED
        BY <1>2, <2>1, <3>1
    <2>3. CASE Mount
      <3>1. read \in reads \/ read = Read("raw")
        BY <1>3, <2>3 DEF Mount
      <3> QED
        BY <1>2, <2>1, <3>1
    <2>4. ASSUME NEW old \in reads, Answer(old)
          PROVE  \/ read \in reads
                 \/ /\ read.epoch <= epoch /\ read.missed = 0
                    /\ read.for = "baseline" /\ read.epoch = epoch => activeRounds = {}
                    /\ read.value # NoBalance => read.value = funds
      <3>1. read \in reads \/ read = [old EXCEPT !.value = funds]
        BY <1>3, <2>4 DEF Answer
      <3>2. ASSUME read = [old EXCEPT !.value = funds]
            PROVE  /\ read.epoch = old.epoch /\ read.for = old.for /\ read.value = funds
                   /\ read.missed = old.missed
        BY <1>2, <3>2 DEF ReadsOfBalance
      <3> QED
        BY <1>2, <2>4, <3>1, <3>2 DEF Answer, MoneyInv, ReadOK
    <2>5. CASE ~FireTimer /\ ~Mount /\ ~\E old \in reads : Answer(old)
      BY <1>3, <2>5 DEF FetchFails, Flash, Index, Clear, ToggleWallet, readVars
    <2> QED
      BY <2>2, <2>3, <2>4, <2>5
  <1>4. Unplayed => Unplayed'
    BY <1>1 DEF Unplayed
  <1> QED
    BY <1>1, <1>3, <1>4, MoneyAtRest

\* At first nothing was read and nothing was bet.
LEMMA MoneyInvAtFirst ==
    ASSUME LedgerAssumption, Init
    PROVE  GivenTypes /\ MoneyInv
  BY DEF Init, GivenTypes, MoneyInv, ReadOK, Unplayed, LedgerAssumption

\* Every step keeps what is known of the display.
LEMMA MoneyInvStep ==
    ASSUME LedgerAssumption, ~EarlyPlay, ~LateActions, RoundsInv, GivenTypes, MoneyInv,
           [Next]_vars
    PROVE  MoneyInv'
  <1>1. RoundsInv' /\ GivenTypes'
    BY RoundsInvStep, GivenStep
  <1>2. CASE UNCHANGED vars
    <2>1. /\ UNCHANGED <<funds, session, call, action, tracked, credited, activeRounds, baseline,
                       adjustment, givenBack, epoch>>
          /\ raw' = raw /\ reads' = reads /\ UNCHANGED <<mined, loose>>
      BY <1>2 DEF vars, chainVars, callVars, holdVars, readVars, trackVars, guestVars
    <2>2. Unplayed => Unplayed'
      BY <2>1 DEF Unplayed
    <2> QED
      BY <2>1, <2>2, MoneyAtRest
  <1>3. CASE PlayNext
    BY <1>1, <1>3, MoneyOfRest, MoneyOfLand, MoneyOfChain, MoneyOfLate, MoneyOfBet, MoneyOfAnswer,
       MoneyOfReceipt, MoneyOfReveal DEF PlayNext
  <1>4. CASE Trouble
    BY <1>1, <1>4, MoneyOfRest, MoneyOfAnswer, MoneyOfGivenUp, MoneyOfUnmount DEF Trouble
  <1>5. CASE Mount
    BY <1>5, MoneyOfRest
  <1> QED
    BY <1>2, <1>3, <1>4, <1>5 DEF Next

\* What the display shows and what is due are no more than the player has, but
\* for the stakes that were given back and left the chain.
LEMMA MoneyFits ==
    ASSUME LedgerAssumption, RoundsInv, GivenTypes, MoneyInv
    PROVE  NeverOverstated
  <1> DEFINE f == [r \in Rounds |-> Due(r)]
             g == [r \in Rounds |-> Outstanding(r) + Hidden(r)]
  <1>1. f = g /\ DOMAIN g = Rounds
    BY DEF Due
  <1>2. Owed = SumFunctionOnSet(f, Rounds)
    BY DEF Owed
  <1>3. SumFunction(g) = SumFunctionOnSet(g, DOMAIN g)
    BY DEF SumFunction
  <1> HIDE DEF f, g, Owed
  <1>4. Owed = SumFunction(g)
    BY <1>1, <1>2, <1>3
  <1>5. baseline # NoBalance => baseline + adjustment + Owed <= funds + givenBack
    <2>1. baseline # NoBalance => baseline + (adjustment - givenBack) + Owed <= funds
      BY DEF MoneyInv, Fits, Net
    <2>2. Owed \in Int
      <3>1. \A x \in Rounds : Due(x) <= Due(x) /\ Due(x) \in Nat
        <4>1. \A x \in Rounds : Due(x) \in Nat
          BY DueIsNat
        <4> HIDE DEF Due
        <4> QED
          BY <4>1
      <3> QED
        BY <1>2, <3>1, SumInt DEF LedgerAssumption, f
    <2>3. /\ baseline \in Int /\ adjustment \in Int /\ givenBack \in Int /\ funds \in Int
      BY DEF RoundsInv, LedgerTypes, Balances, NoBalance, GivenTypes
    <2> QED
      BY <2>1, <2>2, <2>3
  <1> QED
    BY <1>4, <1>5 DEF NeverOverstated, g

\* At rest with every result followed, the display is the chain's balance.
LEMMA MoneyShown ==
    ASSUME LedgerAssumption, RoundsInv, GivenTypes, MoneyInv
    PROVE  DisplaysTheChain
  <1> SUFFICES ASSUME Quiet, activeRounds = {},
                      \A r \in Rounds : session[r].phase \in Ended => r \in credited,
                      \E r \in Rounds : call[r] \in {"failed", "lost"} \/ r \in credited
               PROVE  baseline + adjustment = funds + givenBack
    BY DEF DisplaysTheChain
  <1>1. Owed = 0 /\ AllFollowed
    BY OwedNone DEF AllFollowed
  <1>2. baseline # NoBalance
    BY DEF MoneyInv, Unplayed
  <1>3. Fits(baseline + (adjustment - givenBack) + 0)
    BY <1>1, <1>2 DEF MoneyInv, Net
  <1>4. baseline \in Int /\ adjustment \in Int /\ funds \in Int /\ givenBack \in Int
    BY DEF RoundsInv, LedgerTypes, Balances, NoBalance, GivenTypes
  <1>5. /\ baseline + (adjustment - givenBack) + 0 <= funds
        /\ funds <= baseline + (adjustment - givenBack) + 0
    BY <1>1, <1>3 DEF Fits
  <1> QED
    BY <1>4, <1>5

-----------------------------------------------------------------------------
(***************************************************************************)
(* The theorems                                                            *)
(***************************************************************************)

\* What is known of the rounds and of the display always holds, when players
\* wait for their balance and actions return before their round ends.
THEOREM LedgerInvariant ==
    ASSUME LedgerAssumption, ~EarlyPlay, ~LateActions
    PROVE  Spec => [](RoundsInv /\ GivenTypes /\ MoneyInv)
  <1>1. Init => RoundsInv /\ GivenTypes /\ MoneyInv
    BY RoundsInvAtFirst, MoneyInvAtFirst
  <1>2. RoundsInv /\ GivenTypes /\ MoneyInv /\ [Next]_vars => (RoundsInv /\ GivenTypes /\ MoneyInv)'
    BY RoundsInvStep, GivenStep, MoneyInvStep
  <1> QED
    BY <1>1, <1>2, PTL DEF Spec

\* Each variable keeps its type: a round that is followed holds a key, and no
\* read of the balance is of an epoch to come.  Code: balance-hold.ts.
THEOREM LedgerTypeCorrect ==
    ASSUME LedgerAssumption, ~EarlyPlay, ~LateActions
    PROVE  Spec => []TypeOK
  <1>1. RoundsInv /\ GivenTypes /\ MoneyInv => TypeOK
    <2> SUFFICES ASSUME RoundsInv, GivenTypes, MoneyInv PROVE TypeOK
      OBVIOUS
    <2>1. LedgerTypes /\ \A r \in Rounds : RoundOK(r)
      BY DEF RoundsInv
    <2>2. \A r \in Rounds : tracked[r] # "none" => <<tracked[r], r>> \in activeRounds
      BY <2>1 DEF RoundOK
    <2>3. \A read \in reads : read.epoch \in 0..epoch
      <3> SUFFICES ASSUME NEW read \in reads PROVE read.epoch \in 0..epoch
        OBVIOUS
      <3>1. read.epoch \in Nat /\ epoch \in Nat
        BY <2>1 DEF LedgerTypes, ReadsOfBalance
      <3>2. read.epoch <= epoch
        BY DEF MoneyInv, ReadOK
      <3> QED
        BY <3>1, <3>2
    <2> QED
      BY <2>1, <2>2, <2>3 DEF TypeOK, LedgerTypes, Balances, GivenTypes
  <1> QED
    BY <1>1, LedgerInvariant, PTL

\* The display never promises more than the chain will give, but for the stakes
\* that a call gave back and that left the chain all the same.
\* Code: balance-hold.ts.
THEOREM DisplayIsCovered ==
    ASSUME LedgerAssumption, ~EarlyPlay, ~LateActions
    PROVE  Spec => []NeverOverstated
  <1>1. RoundsInv /\ GivenTypes /\ MoneyInv => NeverOverstated
    BY MoneyFits
  <1> QED
    BY <1>1, LedgerInvariant, PTL

\* A round that was played to its end leaves nothing held.
\* Code: use-round-ledger.ts.
THEOREM PlayedRoundsAreClosed ==
    ASSUME LedgerAssumption, ~EarlyPlay, ~LateActions
    PROVE  Spec => []PlayedRoundsClose
  <1>1. RoundsInv /\ GivenTypes /\ MoneyInv => PlayedRoundsClose
    BY RoundsClose
  <1> QED
    BY <1>1, LedgerInvariant, PTL

\* A display at rest is the chain's balance, but for the stakes that were given
\* back and left the chain since it was read.  Code: balance-hold.ts.
THEOREM DisplayIsExact ==
    ASSUME LedgerAssumption, ~EarlyPlay, ~LateActions
    PROVE  Spec => []DisplaysTheChain
  <1>1. RoundsInv /\ GivenTypes /\ MoneyInv => DisplaysTheChain
    BY MoneyShown
  <1> QED
    BY <1>1, LedgerInvariant, PTL

-----------------------------------------------------------------------------
(***************************************************************************)
(* The local node                                                          *)
(*                                                                         *)
(* Whatever happens to a file, the entry of the file matches it, or a sync *)
(* will look at it again: the one that runs, one that is queued or one the *)
(* watch will queue.  A contract under way may be of an older revision     *)
(* only when such a sync is due.                                           *)
(***************************************************************************)
CONSTANTS Files, Revisions, EditsInScan, MaxBoots, MaxEdits, MaxDeployments
VARIABLES folder, edits, node, registrations, deployedJson
Node == INSTANCE LocalNode

\* Something will make a sync begin after the one that runs.
SyncDue == node.debounce \/ node.queued > 0

\* The node has dealt with what the file holds.
DealtWith(f) ==
    node.deployed[f].hash = IF folder[f] = "absent" THEN "none" ELSE folder[f]

\* The sync that runs will look at the file.
WaitsForSync(f) == f \in node.sync.left /\ folder[f] # "absent"

Deploying == node.sync.at \in {"deploy", "register"}

NodeFields ==
    /\ DOMAIN folder = Files
    /\ DOMAIN node = {"pc", "boot", "deployed", "sync", "debounce", "queued", "addresses",
                      "dynamicGames", "registeredGames", "nextBlock"}
    /\ DOMAIN node.deployed = Files
    /\ DOMAIN node.sync = DOMAIN Node!NoSync

NodeTypes ==
    /\ node.pc \in {"down", "scanning", "up"}
    /\ node.boot \in Nat /\ node.queued \in Nat /\ node.addresses \in Nat
    /\ node.sync.fresh \in Nat
    /\ node.sync.left \subseteq Files
    /\ registrations \in Seq(Nat)

\* A node that is down does nothing.
DownIsStill == node.pc = "down" => node.queued = 0 /\ ~node.debounce /\ node.sync = Node!NoSync

NodeShape == NodeFields /\ NodeTypes /\ DownIsStill

\* A contract under way is of a good revision, and of the last one unless a
\* sync is due.
DeployingInv ==
    Deploying =>
        /\ node.sync.file \in node.sync.left
        /\ Node!Compiles(node.sync.hash) /\ node.sync.hash # "absent"
        /\ SyncDue \/ node.sync.hash = folder[node.sync.file]

\* No file is forgotten.
SeenInv == node.pc # "down" => \A f \in Files : SyncDue \/ WaitsForSync(f) \/ DealtWith(f)

\* Of the games the node knows, the host knows all.
KnownGames == Node!ToSet(registrations)
KnownInv ==
    /\ \A f \in Files : node.deployed[f].games \subseteq KnownGames
    /\ node.sync.games \subseteq KnownGames
    /\ node.dynamicGames \subseteq KnownGames
    /\ node.pc # "down" => Node!Coinflip \in KnownGames

\* The mirror is of the blocks that were read.
MirrorInv ==
    /\ node.nextBlock \in 1..(Len(registrations) + 1)
    /\ node.registeredGames = {registrations[b] : b \in 1..(node.nextBlock - 1)}

\* The file names what the node knows.
WrittenInv ==
    node.pc = "up" => deployedJson = [boot |-> node.boot,
                          games |-> Node!ListGames(node.dynamicGames, node.registeredGames)]

NodeInv ==
    /\ NodeShape /\ DeployingInv /\ SeenInv /\ KnownInv /\ MirrorInv /\ WrittenInv

\* A list with one more.
LEMMA ToSetAppend ==
    ASSUME NEW s \in Seq(Nat), NEW x \in Nat
    PROVE  /\ Node!ToSet(Append(s, x)) = Node!ToSet(s) \cup {x}
           /\ Append(s, x) \in Seq(Nat) /\ Len(Append(s, x)) = Len(s) + 1
           /\ \A i \in 1..Len(s) : Append(s, x)[i] = s[i]
  <1>1. /\ Append(s, x) \in Seq(Nat) /\ Len(Append(s, x)) = Len(s) + 1
        /\ \A i \in 1..Len(s) : Append(s, x)[i] = s[i]
        /\ Append(s, x)[Len(s) + 1] = x
    BY AppendProperties
  <1>2. DOMAIN s = 1..Len(s) /\ DOMAIN Append(s, x) = 1..(Len(s) + 1) /\ Len(s) \in Nat
    BY <1>1
  <1>3. 1..(Len(s) + 1) = (1..Len(s)) \cup {Len(s) + 1}
    BY <1>2
  <1> QED
    BY <1>1, <1>2, <1>3 DEF Node!ToSet

\* NodeInv holds at first.
LEMMA NodeInvAtFirst == Node!NodeAssumption /\ Node!NodeInit => NodeInv
  <1> SUFFICES ASSUME Node!NodeAssumption, Node!NodeInit PROVE NodeInv
    OBVIOUS
  <1>1. NodeShape
    BY EmptySeq DEF Node!NodeInit, NodeShape, NodeFields, NodeTypes, DownIsStill, Node!NoSync
  <1>2. DeployingInv /\ SeenInv /\ WrittenInv
    BY DEF Node!NodeInit, DeployingInv, Deploying, SeenInv, WrittenInv, Node!NoSync
  <1>3. KnownInv
    BY DEF Node!NodeInit, KnownInv, Node!NoSync, Node!NoEntry
  <1>4. MirrorInv
    BY DEF Node!NodeInit, MirrorInv
  <1> QED
    BY <1>1, <1>2, <1>3, <1>4 DEF NodeInv

\* What no step of a sync changes.
SyncOnly ==
    /\ UNCHANGED folder
    /\ DOMAIN node' = DOMAIN node /\ DOMAIN node'.sync = DOMAIN node.sync
    /\ node'.pc = node.pc /\ node'.boot = node.boot /\ node'.debounce = node.debounce
    /\ node'.dynamicGames = node.dynamicGames /\ node'.nextBlock = node.nextBlock
    /\ node'.registeredGames = node.registeredGames
    /\ node'.addresses \in Nat /\ node'.sync.fresh \in Nat

\* The chain goes on.
MoreRegistered ==
    /\ registrations' \in Seq(Nat) /\ Len(registrations) <= Len(registrations')
    /\ \A i \in 1..Len(registrations) : registrations'[i] = registrations[i]

\* A sync is done with a file, which leaves an entry.
LeavesFile(f, entry) ==
    /\ SyncOnly /\ MoreRegistered /\ UNCHANGED deployedJson
    /\ node'.queued = node.queued
    /\ node.sync.at # "none" /\ node'.sync.at = "files"
    /\ f \in node.sync.left /\ node'.sync.left = node.sync.left \ {f}
    /\ node'.sync.games \subseteq Node!ToSet(registrations')
    /\ DOMAIN node'.deployed = Files /\ node'.deployed[f] = entry
    /\ \A g \in Files \ {f} : node'.deployed[g] = node.deployed[g]
    /\ entry.games \subseteq Node!ToSet(registrations')
    /\ SyncDue \/ entry.hash = IF folder[f] = "absent" THEN "none" ELSE folder[f]
    /\ \/ entry.games = node.deployed[f].games
       \/ Node!Compiles(entry.hash) /\ Node!Cardinality(entry.games) = Node!GamesOf(entry.hash)

\* A sync goes on with the contracts of a file.
GoesOnDeploying ==
    /\ SyncOnly /\ MoreRegistered /\ UNCHANGED deployedJson
    /\ node'.queued = node.queued
    /\ node.sync.at # "none" /\ node'.sync.at \in {"deploy", "register"}
    /\ node'.sync.left = node.sync.left
    /\ node'.deployed = node.deployed
    /\ node'.sync.games \subseteq Node!ToSet(registrations')
    /\ node'.sync.file \in node.sync.left
    /\ Node!Compiles(node'.sync.hash) /\ node'.sync.hash # "absent"
    /\ SyncDue \/ node'.sync.hash = folder[node'.sync.file]

\* The sizes of an instance are those of the library.
LEMMA SameCardinality ==
    ASSUME NEW S
    PROVE  Node!Cardinality(S) = Cardinality(S)
  BY DEF Node!Cardinality, Cardinality, Node!IsFiniteSet, IsFiniteSet

\* Without a registration the host knows the same games.
LEMMA NothingRegistered ==
    ASSUME NodeShape, UNCHANGED registrations
    PROVE  MoreRegistered /\ KnownGames' = KnownGames
  BY DEF NodeShape, NodeTypes, MoreRegistered, KnownGames

\* A registration is one more.
LEMMA OneRegistered ==
    ASSUME NodeShape, NEW x \in Nat, registrations' = Append(registrations, x)
    PROVE  MoreRegistered /\ Node!ToSet(registrations') = KnownGames \cup {x}
  BY ToSetAppend DEF NodeShape, NodeTypes, MoreRegistered, KnownGames

\* A file skipped is done with, and keeps its entry.
LEMMA SkipLeaves ==
    ASSUME NodeInv, NEW f \in Files, Node!SkipFile(f)
    PROVE  LeavesFile(f, node.deployed[f])
  <1> USE DEF NodeInv, NodeShape
  <1>1. MoreRegistered /\ KnownGames' = KnownGames
    BY NothingRegistered DEF Node!SkipFile
  <1>2. node' = [node EXCEPT !.sync.left = @ \ {f}]
    BY DEF Node!SkipFile
  <1>3. SyncOnly /\ node'.queued = node.queued
    BY <1>2 DEF Node!SkipFile, NodeFields, NodeTypes, SyncOnly, Node!NoSync
  <1>4. /\ node'.sync.at = node.sync.at /\ node'.sync.left = node.sync.left \ {f}
        /\ node'.sync.games = node.sync.games /\ node'.deployed = node.deployed
    BY <1>2 DEF NodeFields, Node!NoSync
  <1>5. node.sync.at = "files" /\ f \in node.sync.left
        /\ folder[f] \in {"absent", node.deployed[f].hash} /\ UNCHANGED deployedJson
    BY DEF Node!SkipFile, Node!AtFile
  <1>6. SyncDue \/ node.deployed[f].hash = IF folder[f] = "absent" THEN "none" ELSE folder[f]
    <2>1. node.pc # "down"
      BY <1>5 DEF DownIsStill, Node!NoSync
    <2> QED
      BY <1>5, <2>1 DEF SeenInv, WaitsForSync, DealtWith
  <1>7. DOMAIN node'.deployed = Files
    BY <1>4 DEF NodeFields
  <1>8. node.deployed[f].games \subseteq Node!ToSet(registrations')
        /\ node'.sync.games \subseteq Node!ToSet(registrations')
    BY <1>1, <1>4 DEF KnownInv, KnownGames
  <1> QED
    BY <1>1, <1>3, <1>4, <1>5, <1>6, <1>7, <1>8 DEF LeavesFile

\* A revision that is compiled is deployed next, or the file is done with.
LEMMA CompileMoves ==
    ASSUME NodeInv, NEW f \in Files, Node!CompileFile(f)
    PROVE  GoesOnDeploying \/ \E entry : LeavesFile(f, entry)
  <1> USE DEF NodeInv, NodeShape
  <1>1. MoreRegistered /\ KnownGames' = KnownGames /\ UNCHANGED <<folder, deployedJson>>
    BY NothingRegistered DEF Node!CompileFile
  <1>2. /\ node.sync.at = "files" /\ f \in node.sync.left
        /\ folder[f] # "absent" /\ folder[f] # node.deployed[f].hash
    BY DEF Node!CompileFile, Node!AtFile
  <1>3. CASE Node!Compiles(folder[f]) /\ Node!GamesOf(folder[f]) > 0
    <2>1. node' = [node EXCEPT !.sync.at = "deploy", !.sync.file = f, !.sync.hash = folder[f],
                               !.sync.games = {}]
      BY <1>3 DEF Node!CompileFile
    <2>2. SyncOnly /\ node'.queued = node.queued /\ node'.deployed = node.deployed
      BY <1>1, <2>1 DEF NodeFields, NodeTypes, SyncOnly, Node!NoSync
    <2>3. /\ node'.sync.at = "deploy" /\ node'.sync.file = f /\ node'.sync.hash = folder[f]
          /\ node'.sync.games = {} /\ node'.sync.left = node.sync.left
      BY <2>1 DEF NodeFields, Node!NoSync
    <2>4. GoesOnDeploying
      BY <1>1, <1>2, <1>3, <2>2, <2>3 DEF GoesOnDeploying
    <2> QED
      BY <2>4
  <1>4. CASE ~(Node!Compiles(folder[f]) /\ Node!GamesOf(folder[f]) > 0)
    <2> DEFINE good == Node!Compiles(folder[f])
               entry == [hash |-> folder[f],
                         games |-> IF good THEN {} ELSE node.deployed[f].games]
    <2>1. node' = [node EXCEPT !.sync.left = @ \ {f}, !.sync.changed = @ \/ good,
                               !.deployed[f] = entry]
      BY <1>4 DEF Node!CompileFile, Node!Broken
    <2>2. entry.hash = folder[f] /\ entry.games = IF good THEN {} ELSE node.deployed[f].games
      OBVIOUS
    <2> HIDE DEF entry, good
    <2>3. SyncOnly /\ node'.queued = node.queued
          /\ DOMAIN node'.deployed = Files /\ node'.deployed[f] = entry
          /\ \A g \in Files \ {f} : node'.deployed[g] = node.deployed[g]
      BY <1>1, <2>1 DEF NodeFields, NodeTypes, SyncOnly, Node!NoSync
    <2>4. /\ node'.sync.at = "files" /\ node'.sync.left = node.sync.left \ {f}
          /\ node'.sync.games = node.sync.games
      BY <1>2, <2>1 DEF NodeFields, Node!NoSync
    <2>5. \/ entry.games = node.deployed[f].games
          \/ Node!Compiles(entry.hash) /\ Node!Cardinality(entry.games) = Node!GamesOf(entry.hash)
      <3>1. Node!Cardinality({}) = 0
        BY FS_EmptySet, SameCardinality
      <3>2. Node!GamesOf(folder[f]) \in {0, 1, 2}
        BY DEF Node!GamesOf
      <3>3. good => Node!GamesOf(folder[f]) = 0
        BY <1>4, <3>2 DEF good
      <3>4. CASE good
        BY <2>2, <3>1, <3>3, <3>4 DEF good
      <3>5. CASE ~good
        BY <2>2, <3>5
      <3> QED
        BY <3>4, <3>5
    <2>6. entry.games \subseteq Node!ToSet(registrations')
          /\ node'.sync.games \subseteq Node!ToSet(registrations')
      BY <1>1, <2>2, <2>4 DEF KnownInv, KnownGames
    <2>7. LeavesFile(f, entry)
      BY <1>1, <1>2, <2>2, <2>3, <2>4, <2>5, <2>6 DEF LeavesFile
    <2> QED
      BY <2>7
  <1> QED
    BY <1>3, <1>4

\* A contract deployed is registered next.
LEMMA DeployGoesOn ==
    ASSUME NodeInv, Node!DeployGame
    PROVE  GoesOnDeploying
  <1> USE DEF NodeInv, NodeShape
  <1>1. MoreRegistered /\ KnownGames' = KnownGames /\ UNCHANGED <<folder, deployedJson>>
    BY NothingRegistered DEF Node!DeployGame
  <1>2. node' = [node EXCEPT !.sync.at = "register", !.addresses = @ + 1,
                             !.sync.fresh = node.addresses + 1]
    BY DEF Node!DeployGame
  <1> DEFINE next == node.addresses + 1
  <1>3. next \in Nat
    BY DEF NodeTypes
  <1>4. node' = [node EXCEPT !.sync.at = "register", !.addresses = next, !.sync.fresh = next]
    BY <1>2 DEF NodeFields
  <1> HIDE DEF next
  <1>5. SyncOnly /\ node'.queued = node.queued /\ node'.deployed = node.deployed
    BY <1>1, <1>3, <1>4 DEF NodeFields, SyncOnly, Node!NoSync
  <1>6. /\ node'.sync.at = "register" /\ node'.sync.file = node.sync.file
        /\ node'.sync.hash = node.sync.hash /\ node'.sync.games = node.sync.games
        /\ node'.sync.left = node.sync.left
    BY <1>4 DEF NodeFields, Node!NoSync
  <1>7. node.sync.at = "deploy"
    BY DEF Node!DeployGame
  <1>8. node'.sync.games \subseteq Node!ToSet(registrations')
    BY <1>1, <1>6 DEF KnownInv, KnownGames
  <1> QED
    BY <1>1, <1>5, <1>6, <1>7, <1>8 DEF GoesOnDeploying, DeployingInv, Deploying

\* After the last contract of a file the sync is done with it.
LEMMA RegisterMoves ==
    ASSUME NodeInv, Node!RegisterGame
    PROVE  GoesOnDeploying \/ \E f \in Files : \E entry : LeavesFile(f, entry)
  <1> USE DEF NodeInv, NodeShape
  <1> DEFINE f == node.sync.file
             fresh == node.sync.fresh
             games == node.sync.games \cup {fresh}
             hash == node.sync.hash
  <1>1. MoreRegistered /\ Node!ToSet(registrations') = KnownGames \cup {fresh}
        /\ UNCHANGED <<folder, deployedJson>>
    BY OneRegistered DEF Node!RegisterGame, NodeTypes
  <1>2. /\ node.sync.at = "register" /\ f \in node.sync.left /\ f \in Files
        /\ Node!Compiles(hash) /\ hash # "absent"
        /\ SyncDue \/ hash = folder[f]
    BY DEF Node!RegisterGame, DeployingInv, Deploying, NodeTypes
  <1>3. games \subseteq Node!ToSet(registrations') /\ node.sync.games \subseteq Node!ToSet(registrations')
    BY <1>1 DEF KnownInv
  <1>4. CASE Node!Cardinality(games) = Node!GamesOf(hash)
    <2> DEFINE entry == [hash |-> hash, games |-> games]
    <2>1. node' = [node EXCEPT
                      !.sync.at = "files", !.sync.left = @ \ {f}, !.sync.changed = TRUE,
                      !.deployed[f] = entry]
      BY <1>4 DEF Node!RegisterGame
    <2>2. entry.hash = hash /\ entry.games = games
      OBVIOUS
    <2> HIDE DEF entry, games, hash, f
    <2>3. SyncOnly /\ node'.queued = node.queued
          /\ DOMAIN node'.deployed = Files /\ node'.deployed[f] = entry
          /\ \A g \in Files \ {f} : node'.deployed[g] = node.deployed[g]
      BY <1>1, <1>2, <2>1 DEF NodeFields, NodeTypes, SyncOnly, Node!NoSync
    <2>4. /\ node'.sync.at = "files" /\ node'.sync.left = node.sync.left \ {f}
          /\ node'.sync.games = node.sync.games
      BY <1>2, <2>1 DEF NodeFields, Node!NoSync
    <2>5. folder[f] # "absent" \/ SyncDue
      BY <1>2
    <2>6. LeavesFile(f, entry)
      BY <1>1, <1>2, <1>3, <1>4, <2>2, <2>3, <2>4, <2>5 DEF LeavesFile
    <2> QED
      BY <1>2, <2>6
  <1>5. CASE Node!Cardinality(games) # Node!GamesOf(hash)
    <2>1. node' = [node EXCEPT !.sync.at = "deploy", !.sync.games = games]
      BY <1>5 DEF Node!RegisterGame
    <2> HIDE DEF games
    <2>2. SyncOnly /\ node'.queued = node.queued /\ node'.deployed = node.deployed
      BY <1>1, <2>1 DEF NodeFields, NodeTypes, SyncOnly, Node!NoSync
    <2>3. /\ node'.sync.at = "deploy" /\ node'.sync.file = f /\ node'.sync.hash = hash
          /\ node'.sync.games = games /\ node'.sync.left = node.sync.left
      BY <2>1 DEF NodeFields, Node!NoSync
    <2>4. GoesOnDeploying
      BY <1>1, <1>2, <1>3, <2>2, <2>3 DEF GoesOnDeploying
    <2> QED
      BY <2>4
  <1> QED
    BY <1>4, <1>5

\* So it is when one fails.
LEMMA FailLeaves ==
    ASSUME NodeInv, Node!FailGame
    PROVE  \E f \in Files : \E entry : LeavesFile(f, entry)
  <1> USE DEF NodeInv, NodeShape
  <1> DEFINE f == node.sync.file
             hash == node.sync.hash
             entry == [hash |-> hash, games |-> node.deployed[f].games]
  <1>1. MoreRegistered /\ KnownGames' = KnownGames /\ UNCHANGED <<folder, deployedJson>>
    BY NothingRegistered DEF Node!FailGame
  <1>2. /\ node.sync.at \in {"deploy", "register"} /\ f \in node.sync.left /\ f \in Files
        /\ hash # "absent"
        /\ SyncDue \/ hash = folder[f]
    BY DEF Node!FailGame, DeployingInv, Deploying, NodeTypes
  <1>3. node' = [node EXCEPT !.sync.at = "files", !.sync.left = @ \ {f},
                             !.deployed[f] = entry]
    BY DEF Node!FailGame, Node!Broken
  <1>4. entry.hash = hash /\ entry.games = node.deployed[f].games
    OBVIOUS
  <1> HIDE DEF entry, hash, f
  <1>5. SyncOnly /\ node'.queued = node.queued
        /\ DOMAIN node'.deployed = Files /\ node'.deployed[f] = entry
        /\ \A g \in Files \ {f} : node'.deployed[g] = node.deployed[g]
    BY <1>1, <1>2, <1>3 DEF NodeFields, NodeTypes, SyncOnly, Node!NoSync
  <1>6. /\ node'.sync.at = "files" /\ node'.sync.left = node.sync.left \ {f}
        /\ node'.sync.games = node.sync.games
    BY <1>2, <1>3 DEF NodeFields, Node!NoSync
  <1>7. entry.games \subseteq Node!ToSet(registrations')
        /\ node'.sync.games \subseteq Node!ToSet(registrations')
    BY <1>1, <1>2, <1>4, <1>6 DEF KnownInv, KnownGames
  <1>8. folder[f] # "absent" \/ SyncDue
    BY <1>2
  <1>9. LeavesFile(f, entry)
    BY <1>1, <1>2, <1>4, <1>5, <1>6, <1>7, <1>8 DEF LeavesFile
  <1> QED
    BY <1>2, <1>9

\* A game once registered stays, and the blocks read hold what they held.
LEMMA LongerKnows ==
    ASSUME NodeShape, MoreRegistered
    PROVE  /\ KnownGames \subseteq KnownGames'
           /\ MirrorInv /\ UNCHANGED <<node.nextBlock, node.registeredGames>> => MirrorInv'
  <1>1. Len(registrations) \in Nat /\ DOMAIN registrations = 1..Len(registrations)
        /\ Len(registrations') \in Nat /\ DOMAIN registrations' = 1..Len(registrations')
    BY DEF NodeShape, NodeTypes, MoreRegistered
  <1>2. KnownGames \subseteq KnownGames'
    BY <1>1 DEF MoreRegistered, KnownGames, Node!ToSet
  <1>3. ASSUME MirrorInv, UNCHANGED <<node.nextBlock, node.registeredGames>> PROVE MirrorInv'
    <2>1. \A b \in 1..(node.nextBlock - 1) : registrations'[b] = registrations[b]
      BY <1>1, <1>3 DEF MirrorInv, MoreRegistered
    <2>2. node'.nextBlock = node.nextBlock /\ node'.registeredGames = node.registeredGames
      BY <1>3
    <2>3. node.nextBlock \in 1..(Len(registrations') + 1)
      BY <1>1, <1>3 DEF MirrorInv, MoreRegistered
    <2>4. node.registeredGames = {registrations'[b] : b \in 1..(node.nextBlock - 1)}
      BY <1>3, <2>1 DEF MirrorInv
    <2> QED
      BY <2>2, <2>3, <2>4 DEF MirrorInv
  <1> QED
    BY <1>2, <1>3

\* NodeInv, step by step: the sync is done with a file,
LEMMA LeavesKeeps ==
    ASSUME NodeInv, NEW f \in Files, NEW entry, LeavesFile(f, entry)
    PROVE  NodeInv'
  <1> USE DEF NodeInv, NodeShape
  <1>1. NodeFields' /\ DownIsStill'
    BY DEF LeavesFile, SyncOnly, NodeFields, DownIsStill, Node!NoSync
  <1>2. NodeTypes'
    BY DEF LeavesFile, SyncOnly, MoreRegistered, NodeTypes
  <1>3. DeployingInv'
    BY DEF LeavesFile, DeployingInv, Deploying
  <1>4. SeenInv'
    BY DEF LeavesFile, SyncOnly, SeenInv, SyncDue, WaitsForSync, DealtWith
  <1>5. KnownGames \subseteq KnownGames' /\ MirrorInv'
    BY LongerKnows DEF LeavesFile, SyncOnly
  <1>6. KnownInv'
    BY <1>5 DEF LeavesFile, SyncOnly, KnownInv, KnownGames
  <1>7. WrittenInv'
    BY DEF LeavesFile, SyncOnly, WrittenInv
  <1> QED
    BY <1>1, <1>2, <1>3, <1>4, <1>5, <1>6, <1>7

\* or goes on with it;
LEMMA GoesOnKeeps ==
    ASSUME NodeInv, GoesOnDeploying
    PROVE  NodeInv'
  <1> USE DEF NodeInv, NodeShape
  <1>1. NodeFields' /\ DownIsStill'
    BY DEF GoesOnDeploying, SyncOnly, NodeFields, DownIsStill, Node!NoSync
  <1>2. NodeTypes'
    BY DEF GoesOnDeploying, SyncOnly, MoreRegistered, NodeTypes
  <1>3. DeployingInv'
    BY DEF GoesOnDeploying, SyncOnly, DeployingInv, Deploying, SyncDue
  <1>4. SeenInv'
    BY DEF GoesOnDeploying, SyncOnly, SeenInv, SyncDue, WaitsForSync, DealtWith
  <1>5. KnownGames \subseteq KnownGames' /\ MirrorInv'
    BY LongerKnows DEF GoesOnDeploying, SyncOnly
  <1>6. KnownInv'
    BY <1>5 DEF GoesOnDeploying, SyncOnly, KnownInv, KnownGames
  <1>7. WrittenInv'
    BY DEF GoesOnDeploying, SyncOnly, WrittenInv
  <1> QED
    BY <1>1, <1>2, <1>3, <1>4, <1>5, <1>6, <1>7

\* a boot,
LEMMA BootKeeps ==
    ASSUME NodeInv, Node!Boot
    PROVE  NodeInv'
  <1> USE DEF NodeInv, NodeShape
  <1>1. /\ node'.pc = "scanning" /\ node'.boot = node.boot + 1 /\ node'.queued = 1
        /\ node'.addresses = 0 /\ node'.dynamicGames = {} /\ node'.registeredGames = {}
        /\ node'.nextBlock = 1
    BY DEF Node!Boot, NodeFields
  <1>2. node'.sync = Node!NoSync /\ node'.deployed = [f \in Files |-> Node!NoEntry]
    BY DEF Node!Boot, NodeFields
  <1>3. DOMAIN node' = DOMAIN node /\ UNCHANGED folder
    BY DEF Node!Boot
  <1>4. /\ registrations' \in Seq(Nat) /\ Len(registrations') = 1 /\ registrations'[1] = Node!Coinflip
    BY DEF Node!Boot, Node!Coinflip
  <1>5. NodeFields' /\ DownIsStill'
    BY <1>1, <1>2, <1>3 DEF NodeFields, DownIsStill
  <1>6. NodeTypes'
    BY <1>1, <1>2, <1>4 DEF NodeTypes, Node!NoSync
  <1>7. DeployingInv' /\ SeenInv' /\ WrittenInv'
    BY <1>1, <1>2 DEF DeployingInv, Deploying, SeenInv, SyncDue, WrittenInv, Node!NoSync
  <1>8. KnownInv'
    <2>1. Node!Coinflip \in KnownGames'
      BY <1>4 DEF KnownGames, Node!ToSet
    <2> QED
      BY <1>1, <1>2, <2>1 DEF KnownInv, Node!NoSync, Node!NoEntry
  <1>9. MirrorInv'
    BY <1>1, <1>4 DEF MirrorInv
  <1> QED
    BY <1>5, <1>6, <1>7, <1>8, <1>9

\* a stop,
LEMMA StopKeeps ==
    ASSUME NodeInv, Node!Stop
    PROVE  NodeInv'
  <1> USE DEF NodeInv, NodeShape
  <1>1. /\ node'.pc = "down" /\ node'.queued = 0 /\ ~node'.debounce /\ node'.sync = Node!NoSync
        /\ node'.boot = node.boot /\ node'.addresses = node.addresses
        /\ node'.dynamicGames = node.dynamicGames /\ node'.nextBlock = node.nextBlock
        /\ node'.registeredGames = node.registeredGames /\ node'.deployed = node.deployed
        /\ DOMAIN node' = DOMAIN node
        /\ UNCHANGED <<folder, registrations>>
    BY DEF Node!Stop, NodeFields
  <1>2. NodeFields' /\ DownIsStill'
    BY <1>1 DEF NodeFields, DownIsStill
  <1>3. NodeTypes'
    BY <1>1 DEF NodeTypes, Node!NoSync
  <1>4. DeployingInv' /\ SeenInv' /\ WrittenInv'
    BY <1>1 DEF DeployingInv, Deploying, SeenInv, WrittenInv, Node!NoSync
  <1>5. KnownInv' /\ MirrorInv'
    BY <1>1 DEF KnownInv, MirrorInv, KnownGames, Node!NoSync
  <1> QED
    BY <1>2, <1>3, <1>4, <1>5

\* the begin of a sync,
LEMMA BeginSyncKeeps ==
    ASSUME NodeInv, Node!BeginSync
    PROVE  NodeInv'
  <1> USE DEF NodeInv, NodeShape
  <1> DEFINE stale == {f \in Files : node.deployed[f] # Node!NoEntry /\ folder[f] = "absent"}
             entries == [f \in Files |-> IF f \in stale THEN Node!NoEntry ELSE node.deployed[f]]
             begun == [Node!NoSync EXCEPT !.at = "files", !.left = Node!Sources,
                                       !.changed = stale # {}]
  <1>1. /\ node' = [node EXCEPT !.queued = @ - 1, !.deployed = entries, !.sync = begun]
        /\ node.queued > 0 /\ node.sync = Node!NoSync
        /\ UNCHANGED <<folder, registrations, deployedJson>>
    BY DEF Node!BeginSync, NodeFields
  <1>2. /\ begun.at = "files" /\ begun.left = Node!Sources /\ begun.fresh = 0 /\ begun.games = {}
        /\ DOMAIN begun = DOMAIN Node!NoSync
    BY DEF Node!NoSync
  <1>3. /\ DOMAIN entries = Files
        /\ \A f \in Files : entries[f] \in {Node!NoEntry, node.deployed[f]}
        /\ \A f \in Files : folder[f] = "absent" => entries[f] = Node!NoEntry
    OBVIOUS
  <1>4. /\ \A f \in Files : folder[f] = "absent" => entries[f].hash = "none"
        /\ \A f \in Files : entries[f].games \in {{}, node.deployed[f].games}
    BY <1>3 DEF Node!NoEntry
  <1> HIDE DEF entries, begun, stale
  <1>5. /\ node'.queued = node.queued - 1 /\ node'.deployed = entries /\ node'.sync = begun
        /\ node'.pc = node.pc /\ node'.debounce = node.debounce
        /\ node'.boot = node.boot /\ node'.addresses = node.addresses
        /\ node'.dynamicGames = node.dynamicGames /\ node'.nextBlock = node.nextBlock
        /\ node'.registeredGames = node.registeredGames
        /\ DOMAIN node' = DOMAIN node
    BY <1>1 DEF NodeFields
  <1>6. node.pc # "down"
    BY <1>1 DEF DownIsStill, NodeTypes
  <1>7. NodeFields' /\ DownIsStill'
    BY <1>1, <1>2, <1>3, <1>5, <1>6 DEF NodeFields, DownIsStill
  <1>8. NodeTypes'
    BY <1>1, <1>2, <1>5 DEF NodeTypes, Node!Sources
  <1>9. DeployingInv' /\ WrittenInv'
    BY <1>1, <1>2, <1>5 DEF DeployingInv, Deploying, WrittenInv
  <1>10. SeenInv'
    BY <1>1, <1>2, <1>4, <1>5 DEF SeenInv, WaitsForSync, DealtWith, Node!Sources
  <1>11. KnownInv' /\ MirrorInv'
    BY <1>1, <1>2, <1>4, <1>5 DEF KnownInv, MirrorInv, KnownGames
  <1> QED
    BY <1>7, <1>8, <1>9, <1>10, <1>11

\* its end,
LEMMA EndSyncKeeps ==
    ASSUME NodeInv, Node!EndSync
    PROVE  NodeInv'
  <1> USE DEF NodeInv, NodeShape
  <1> DEFINE dynamic == IF node.sync.changed THEN Node!CurrentGames ELSE node.dynamicGames
  <1>1. /\ node' = [node EXCEPT !.pc = "up", !.sync = Node!NoSync, !.dynamicGames = dynamic]
        /\ node.sync.at = "files" /\ node.sync.left = {}
        /\ IF node.pc = "scanning" \/ node.sync.changed
           THEN Node!WriteDeployed(dynamic, node.registeredGames)
           ELSE UNCHANGED deployedJson
        /\ UNCHANGED <<folder, registrations>>
    BY DEF Node!EndSync
  <1>2. dynamic \subseteq KnownGames
    BY DEF KnownInv, Node!CurrentGames
  <1>3. ~node.sync.changed => dynamic = node.dynamicGames
    OBVIOUS
  <1> HIDE DEF dynamic
  <1>4. /\ node'.pc = "up" /\ node'.sync = Node!NoSync /\ node'.dynamicGames = dynamic
        /\ node'.queued = node.queued /\ node'.debounce = node.debounce
        /\ node'.boot = node.boot /\ node'.addresses = node.addresses
        /\ node'.nextBlock = node.nextBlock /\ node'.deployed = node.deployed
        /\ node'.registeredGames = node.registeredGames
        /\ DOMAIN node' = DOMAIN node
    BY <1>1 DEF NodeFields
  <1>5. node.pc \in {"scanning", "up"}
    BY <1>1 DEF DownIsStill, NodeTypes, Node!NoSync
  <1>6. NodeFields' /\ DownIsStill'
    BY <1>1, <1>4 DEF NodeFields, DownIsStill
  <1>7. NodeTypes'
    BY <1>1, <1>4 DEF NodeTypes, Node!NoSync
  <1>8. DeployingInv'
    BY <1>1, <1>4 DEF DeployingInv, Deploying, Node!NoSync
  <1>9. SeenInv'
    BY <1>1, <1>4, <1>5 DEF SeenInv, SyncDue, WaitsForSync, DealtWith
  <1>10. KnownInv' /\ MirrorInv'
    BY <1>1, <1>2, <1>4, <1>5 DEF KnownInv, MirrorInv, KnownGames, Node!NoSync
  <1>11. WrittenInv'
    BY <1>1, <1>3, <1>4, <1>5 DEF WrittenInv, Node!WriteDeployed
  <1> QED
    BY <1>6, <1>7, <1>8, <1>9, <1>10, <1>11

\* the timer of the watch,
LEMMA DebouncedKeeps ==
    ASSUME NodeInv, Node!Debounced
    PROVE  NodeInv'
  <1> USE DEF NodeInv, NodeShape
  <1>1. /\ node'.queued = node.queued + 1 /\ ~node'.debounce /\ node.debounce
        /\ node'.sync = node.sync /\ node'.pc = node.pc
        /\ node'.boot = node.boot /\ node'.addresses = node.addresses
        /\ node'.dynamicGames = node.dynamicGames /\ node'.nextBlock = node.nextBlock
        /\ node'.registeredGames = node.registeredGames /\ node'.deployed = node.deployed
        /\ DOMAIN node' = DOMAIN node
        /\ UNCHANGED <<folder, registrations, deployedJson>>
    BY DEF Node!Debounced, Node!QueueSync, NodeFields
  <1>2. node.pc # "down" /\ node'.queued > 0
    BY <1>1 DEF DownIsStill, NodeTypes
  <1>3. NodeFields' /\ DownIsStill'
    BY <1>1, <1>2 DEF NodeFields, DownIsStill
  <1>4. NodeTypes'
    BY <1>1 DEF NodeTypes
  <1>5. SyncDue'
    BY <1>2 DEF SyncDue
  <1>6. DeployingInv' /\ SeenInv' /\ WrittenInv'
    BY <1>1, <1>5 DEF DeployingInv, Deploying, SeenInv, WrittenInv
  <1>7. KnownInv' /\ MirrorInv'
    BY <1>1 DEF KnownInv, MirrorInv, KnownGames
  <1> QED
    BY <1>3, <1>4, <1>6, <1>7

\* a poll of the host,
LEMMA PollKeeps ==
    ASSUME NodeInv, Node!PollRegistered
    PROVE  NodeInv'
  <1> USE DEF NodeInv, NodeShape
  <1>1. PICK latest \in node.nextBlock..Len(registrations) :
            LET found == {registrations[b] : b \in node.nextBlock..latest}
            IN  /\ node' = [node EXCEPT !.nextBlock = Node!NextBlock(latest),
                                        !.registeredGames = @ \cup found]
                /\ Node!WriteDeployed(node.dynamicGames, node.registeredGames \cup found)
    BY DEF Node!PollRegistered
  <1> DEFINE found == {registrations[b] : b \in node.nextBlock..latest}
             mirrored == node.registeredGames \cup found
  <1>2. mirrored = {registrations[b] : b \in 1..latest} /\ latest \in 1..Len(registrations)
    <2>1. 1..latest = (1..(node.nextBlock - 1)) \cup (node.nextBlock..latest)
          /\ latest \in 1..Len(registrations)
      BY DEF MirrorInv
    <2> QED
      BY <2>1 DEF MirrorInv
  <1>3. /\ node' = [node EXCEPT !.nextBlock = latest + 1, !.registeredGames = mirrored]
        /\ Node!WriteDeployed(node.dynamicGames, mirrored)
        /\ UNCHANGED <<folder, registrations>>
    BY <1>1 DEF Node!NextBlock, Node!PollRegistered, NodeFields
  <1> HIDE DEF mirrored, found
  <1>4. /\ node'.nextBlock = latest + 1 /\ node'.registeredGames = mirrored
        /\ node'.queued = node.queued /\ node'.debounce = node.debounce
        /\ node'.sync = node.sync /\ node'.pc = node.pc
        /\ node'.boot = node.boot /\ node'.addresses = node.addresses
        /\ node'.dynamicGames = node.dynamicGames /\ node'.deployed = node.deployed
        /\ DOMAIN node' = DOMAIN node
    BY <1>3 DEF NodeFields
  <1>5. NodeFields' /\ DownIsStill'
    BY <1>3, <1>4 DEF NodeFields, DownIsStill
  <1>6. NodeTypes'
    BY <1>3, <1>4 DEF NodeTypes
  <1>7. DeployingInv' /\ SeenInv'
    BY <1>3, <1>4 DEF DeployingInv, Deploying, SeenInv, SyncDue, WaitsForSync, DealtWith
  <1>8. KnownInv'
    BY <1>3, <1>4 DEF KnownInv, KnownGames
  <1>9. MirrorInv'
    <2>1. Len(registrations) \in Nat /\ latest \in Nat /\ (latest + 1) - 1 = latest
          /\ latest + 1 \in 1..(Len(registrations) + 1)
      BY <1>2
    <2> QED
      BY <1>2, <1>3, <1>4, <2>1 DEF MirrorInv
  <1>10. WrittenInv'
    BY <1>3, <1>4 DEF WrittenInv, Node!WriteDeployed
  <1> QED
    BY <1>5, <1>6, <1>7, <1>8, <1>9, <1>10

\* a registration by another tool,
LEMMA RegisterElsewhereKeeps ==
    ASSUME NodeInv, Node!RegisterElsewhere
    PROVE  NodeInv'
  <1> USE DEF NodeInv, NodeShape
  <1>1. /\ node'.addresses = node.addresses + 1
        /\ node'.queued = node.queued /\ node'.debounce = node.debounce
        /\ node'.sync = node.sync /\ node'.pc = node.pc /\ node'.boot = node.boot
        /\ node'.dynamicGames = node.dynamicGames /\ node'.nextBlock = node.nextBlock
        /\ node'.registeredGames = node.registeredGames /\ node'.deployed = node.deployed
        /\ DOMAIN node' = DOMAIN node
        /\ UNCHANGED <<folder, deployedJson>>
    BY DEF Node!RegisterElsewhere, NodeFields
  <1>2. MoreRegistered
    BY OneRegistered DEF Node!RegisterElsewhere, NodeTypes
  <1>3. KnownGames \subseteq KnownGames' /\ MirrorInv'
    BY <1>1, <1>2, LongerKnows
  <1>4. NodeFields' /\ DownIsStill'
    BY <1>1 DEF NodeFields, DownIsStill
  <1>5. NodeTypes'
    BY <1>1, <1>2 DEF NodeTypes, MoreRegistered
  <1>6. DeployingInv' /\ SeenInv' /\ WrittenInv'
    BY <1>1 DEF DeployingInv, Deploying, SeenInv, SyncDue, WaitsForSync, DealtWith, WrittenInv
  <1>7. KnownInv'
    BY <1>1, <1>3 DEF KnownInv
  <1> QED
    BY <1>3, <1>4, <1>5, <1>6, <1>7

\* and an edit.
LEMMA EditKeeps ==
    ASSUME NodeInv, ~EditsInScan, NEW f \in Files, Node!Edit(f)
    PROVE  NodeInv'
  <1> USE DEF NodeInv, NodeShape
  <1>1. /\ node'.queued = node.queued
        /\ node'.sync = node.sync /\ node'.pc = node.pc
        /\ node'.boot = node.boot /\ node'.addresses = node.addresses
        /\ node'.dynamicGames = node.dynamicGames /\ node'.nextBlock = node.nextBlock
        /\ node'.registeredGames = node.registeredGames /\ node'.deployed = node.deployed
        /\ DOMAIN node' = DOMAIN node /\ DOMAIN folder' = DOMAIN folder
        /\ UNCHANGED <<registrations, deployedJson>>
    BY DEF Node!Edit, NodeFields
  <1>2. node.pc # "scanning" /\ (node'.debounce <=> node.debounce \/ node.pc = "up")
    BY DEF Node!Edit, NodeFields
  <1>3. node.pc = "up" => SyncDue'
    BY <1>2 DEF SyncDue
  <1>4. NodeFields' /\ DownIsStill'
    BY <1>1, <1>2 DEF NodeFields, DownIsStill
  <1>5. NodeTypes'
    BY <1>1 DEF NodeTypes
  <1>6. DeployingInv'
    <2>1. node.pc = "down" => ~Deploying
      BY DEF DownIsStill, Deploying, Node!NoSync
    <2> QED
      BY <1>1, <1>2, <1>3, <2>1 DEF DeployingInv, Deploying, NodeTypes
  <1>7. SeenInv' /\ WrittenInv'
    BY <1>1, <1>2, <1>3 DEF SeenInv, WrittenInv, NodeTypes
  <1>8. KnownInv' /\ MirrorInv'
    BY <1>1 DEF KnownInv, MirrorInv, KnownGames
  <1> QED
    BY <1>4, <1>5, <1>6, <1>7, <1>8

\* NodeInv is inductive.
LEMMA NodeInvStep ==
    ASSUME ~EditsInScan, NodeInv, [Node!NodeNext]_(Node!nodeVars)
    PROVE  NodeInv'
  <1>1. CASE Node!RegisterGame
    BY <1>1, RegisterMoves, LeavesKeeps, GoesOnKeeps
  <1>2. ASSUME NEW f \in Files, Node!SkipFile(f) \/ Node!CompileFile(f) PROVE NodeInv'
    BY <1>2, SkipLeaves, CompileMoves, LeavesKeeps, GoesOnKeeps
  <1>3. CASE Node!FailGame
    BY <1>3, FailLeaves, LeavesKeeps
  <1>4. CASE Node!DeployGame
    BY <1>4, DeployGoesOn, GoesOnKeeps
  <1>5. CASE UNCHANGED Node!nodeVars
    <2>1. UNCHANGED <<folder, node, registrations, deployedJson>>
      BY <1>5 DEF Node!nodeVars
    <2>2. NodeShape' /\ DeployingInv'
      BY <2>1 DEF NodeInv, NodeShape, NodeFields, NodeTypes, DownIsStill, DeployingInv,
         Deploying, SyncDue
    <2>3. SeenInv' /\ KnownInv' /\ MirrorInv' /\ WrittenInv'
      BY <2>1 DEF NodeInv, SeenInv, SyncDue, WaitsForSync, DealtWith, KnownInv, KnownGames,
         MirrorInv, WrittenInv
    <2> QED
      BY <2>2, <2>3 DEF NodeInv
  <1> QED
    BY <1>1, <1>2, <1>3, <1>4, <1>5, BootKeeps, StopKeeps, BeginSyncKeeps, EndSyncKeeps,
       DebouncedKeeps, PollKeeps, RegisterElsewhereKeeps, EditKeeps
       DEF Node!NodeNext, Node!SyncStep

\* A node at rest is up to date.
LEMMA NodeInvMeans ==
    ASSUME NodeInv
    PROVE  Node!NoEditMissed /\ Node!ListsTheHostsGames
  <1> USE DEF NodeInv, NodeShape
  <1>1. Node!NoEditMissed
    <2> SUFFICES ASSUME Node!Quiet, NEW f \in Files PROVE DealtWith(f)
      BY DEF Node!NoEditMissed, DealtWith
    <2> QED
      BY DEF Node!Quiet, SeenInv, SyncDue, WaitsForSync, NodeTypes, Node!NoSync
  <1>2. Node!ListsTheHostsGames
    <2> SUFFICES ASSUME node.pc = "up", node.nextBlock > Len(registrations)
                 PROVE  deployedJson = [boot |-> node.boot, games |-> KnownGames]
      BY DEF Node!ListsTheHostsGames, KnownGames
    <2>1. Len(registrations) \in Nat /\ DOMAIN registrations = 1..Len(registrations)
      BY DEF NodeTypes
    <2>2. node.nextBlock - 1 = Len(registrations)
      BY <2>1 DEF MirrorInv
    <2>3. node.registeredGames = KnownGames
      BY <2>1, <2>2 DEF MirrorInv, KnownGames, Node!ToSet
    <2>4. Node!ListGames(node.dynamicGames, node.registeredGames) = KnownGames
      BY <2>3 DEF Node!ListGames, KnownInv
    <2> QED
      BY <2>4 DEF WrittenInv
  <1> QED
    BY <1>1, <1>2

\* No step costs a game that worked.
LEMMA NodeKeepsTheGood ==
    ASSUME NodeInv, [Node!NodeNext]_(Node!nodeVars)
    PROVE  Node!KeepsTheGood
  <1> USE DEF NodeInv, NodeShape
  <1> SUFFICES ASSUME NEW g \in Files, node'.boot = node.boot, folder[g] # "absent",
                      node'.deployed[g].games # node.deployed[g].games
               PROVE  LET entry == node'.deployed[g]
                      IN  /\ Node!Compiles(entry.hash)
                          /\ Node!Cardinality(entry.games) = Node!GamesOf(entry.hash)
    BY DEF Node!KeepsTheGood
  <1>1. ASSUME NEW f \in Files, NEW entry, LeavesFile(f, entry)
        PROVE  /\ Node!Compiles(node'.deployed[g].hash)
               /\ Node!Cardinality(node'.deployed[g].games) = Node!GamesOf(node'.deployed[g].hash)
    BY <1>1 DEF LeavesFile
  <1>2. ~GoesOnDeploying
    BY DEF GoesOnDeploying
  <1>3. ~UNCHANGED node.deployed
    OBVIOUS
  <1>4. ASSUME NEW f \in Files, Node!SkipFile(f) \/ Node!CompileFile(f)
        PROVE  \E entry : LeavesFile(f, entry)
    BY <1>2, <1>4, SkipLeaves, CompileMoves
  <1>5. ~Node!Boot
    <2>1. Node!Boot => node'.boot = node.boot + 1
      BY DEF Node!Boot, NodeFields
    <2> QED
      BY <2>1 DEF NodeTypes
  <1>6. ~Node!BeginSync
    <2> SUFFICES ASSUME Node!BeginSync PROVE FALSE
      OBVIOUS
    <2>1. node'.deployed[g] = node.deployed[g]
      BY DEF Node!BeginSync, NodeFields
    <2> QED
      BY <2>1
  <1>7. ~Node!DeployGame
    BY <1>2, DeployGoesOn
  <1>8. (Node!Stop \/ Node!EndSync \/ Node!Debounced \/ Node!PollRegistered \/ Node!RegisterElsewhere
           \/ (\E f \in Files : Node!Edit(f)) \/ UNCHANGED Node!nodeVars)
        => UNCHANGED node.deployed
    BY DEF Node!Stop, Node!EndSync, Node!Debounced, Node!PollRegistered, Node!RegisterElsewhere, Node!Edit,
       Node!nodeVars, NodeFields
  <1>9. \E f \in Files : \E entry : LeavesFile(f, entry)
    BY <1>2, <1>3, <1>4, <1>5, <1>6, <1>7, <1>8, RegisterMoves, FailLeaves
       DEF Node!NodeNext, Node!SyncStep
  <1> QED
    BY <1>1, <1>9

\* What is known of the node always holds, if the folder is left alone during
\* the first scan.
THEOREM NodeInvariant ==
    ASSUME Node!NodeAssumption, ~EditsInScan
    PROVE  Node!NodeSpec => []NodeInv
  <1>1. Node!NodeInit => NodeInv
    BY NodeInvAtFirst
  <1>2. NodeInv /\ [Node!NodeNext]_(Node!nodeVars) => NodeInv'
    BY NodeInvStep
  <1> QED
    BY <1>1, <1>2, PTL DEF Node!NodeSpec

\* No edit is missed, and the list is the host's.
\* Code: game-contracts.ts, registered-games.ts, local-node/index.ts.
THEOREM EditsAreSeen ==
    ASSUME Node!NodeAssumption, ~EditsInScan
    PROVE  Node!NodeSpec => [](Node!NoEditMissed /\ Node!ListsTheHostsGames)
  <1>1. NodeInv => Node!NoEditMissed /\ Node!ListsTheHostsGames
    BY NodeInvMeans
  <1> QED
    BY <1>1, NodeInvariant, PTL

\* A broken edit or a failed deployment costs no game that worked.
\* Code: game-contracts.ts.
THEOREM GoodGamesStay ==
    ASSUME Node!NodeAssumption, ~EditsInScan
    PROVE  Node!NodeSpec => Node!LastGoodStays
  <1>1. NodeInv /\ [Node!NodeNext]_(Node!nodeVars) => [Node!KeepsTheGood]_(Node!nodeVars)
    BY NodeKeepsTheGood
  <1> QED
    BY <1>1, NodeInvariant, PTL DEF Node!NodeSpec, Node!LastGoodStays

=============================================================================
