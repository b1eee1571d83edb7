--------------------------- MODULE CasinoHostProofs ---------------------------
(***************************************************************************)
(* Proofs about CasinoHost, for every number of sessions, every set of     *)
(* players and games and every answer a game can give.                     *)
(***************************************************************************)
EXTENDS CasinoHost, FiniteTheorems

\* The types of the money a transaction carries.
MoneyType == [balance : [Accounts -> Nat],
              allowance : [Players \cup {Vault} -> Nat],
              flow : Flow]

\* A covered transfer keeps every balance a natural number.
LEMMA MovedType ==
    ASSUME NEW b \in [Accounts -> Nat], NEW from \in Accounts, NEW to \in Accounts,
           NEW amount \in Nat, amount <= b[from]
    PROVE  Moved(b, from, to, amount) \in [Accounts -> Nat]
  BY DEF Moved

\* A transfer lowers no balance but the payer's, and that one by the amount.
LEMMA MovedBalance ==
    ASSUME NEW b \in [Accounts -> Nat], NEW from \in Accounts, NEW to \in Accounts,
           NEW amount \in Nat, amount <= b[from], NEW a \in Accounts
    PROVE  /\ a # from => Moved(b, from, to, amount)[a] >= b[a]
           /\ Moved(b, from, to, amount)[a] >= b[a] - amount
  BY DEF Moved

\* An allowance that covers the amount stays a natural number.
LEMMA SpentType ==
    ASSUME NEW al \in [Players \cup {Vault} -> Nat], NEW owner \in Players,
           NEW amount \in Nat, amount <= al[owner]
    PROVE  Spent(al, owner, amount) \in [Players \cup {Vault} -> Nat]
  BY DEF Spent

\* Natural numbers added to a flow leave a flow.
LEMMA AddedType ==
    ASSUME NEW f \in Flow, NEW w \in Nat, NEW x \in Nat, NEW y \in Nat, NEW z \in Nat
    PROVE  Added(f, w, x, y, z) \in Flow
  BY DEF Added, Flow

\* Pulling an amount the player can pay.
LEMMA PulledType ==
    ASSUME NEW m \in MoneyType, NEW player \in Players, NEW amount \in Nat,
           CanPull(m.balance, m.allowance, player, amount)
    PROVE  /\ Pulled(m, player, amount) \in MoneyType
           /\ Pulled(m, player, amount).flow =
                Added(m.flow, amount, 0, 0, 0)
  <1>1. /\ player \in Accounts
        /\ Host \in Accounts
        /\ amount <= m.balance[player]
        /\ amount <= m.allowance[player]
    BY DEF Accounts, CanPull, MoneyType
  <1>2. Moved(m.balance, player, Host, amount) \in [Accounts -> Nat]
    BY <1>1, MovedType DEF MoneyType
  <1>3. Spent(m.allowance, player, amount) \in [Players \cup {Vault} -> Nat]
    BY <1>1, SpentType DEF MoneyType
  <1>4. Added(m.flow, amount, 0, 0, 0) \in Flow
    BY AddedType DEF MoneyType
  <1> QED
    BY <1>2, <1>3, <1>4 DEF Pulled, MoneyType

\* Refunding an amount the host holds.
LEMMA RefundedType ==
    ASSUME NEW m \in MoneyType, NEW player \in Players, NEW amount \in Nat,
           amount <= m.balance[Host]
    PROVE  /\ Refunded(m, player, amount) \in MoneyType
           /\ Refunded(m, player, amount).flow =
                Added(m.flow, 0, amount, 0, 0)
  <1>1. Moved(m.balance, Host, player, amount) \in [Accounts -> Nat]
    BY MovedType DEF MoneyType, Accounts
  <1>2. Added(m.flow, 0, amount, 0, 0) \in Flow
    BY AddedType DEF MoneyType
  <1> QED
    BY <1>1, <1>2 DEF Refunded, MoneyType

\* Paying a session out: the host covers the stake, the vault the winnings.
LEMMA PaidOutType ==
    ASSUME NEW m \in MoneyType, NEW player \in Players,
           NEW x \in Nat, NEW y \in Nat, NEW z \in Nat,
           x + z <= m.balance[Host], y <= m.balance[Vault]
    PROVE  /\ PaidOut(m, player, x, y, z) \in MoneyType
           /\ PaidOut(m, player, x, y, z).flow = Added(m.flow, 0, x + y, y, z)
  <1> DEFINE b1 == Moved(m.balance, Host, player, x)
             b2 == Moved(b1, Vault, player, y)
             b3 == Moved(b2, Host, Vault, z)
  <1>1. /\ m.balance \in [Accounts -> Nat]
        /\ {Host, Vault, player} \subseteq Accounts
        /\ Host # player /\ Vault # player /\ Host # Vault
    BY PlayersAssumption DEF MoneyType, Accounts, Host, Vault
  <1>2. b1 \in [Accounts -> Nat] /\ b1[Vault] >= y /\ b1[Host] >= z
    BY <1>1 DEF Moved
  <1>3. b2 \in [Accounts -> Nat] /\ b2[Host] >= z
    <2> HIDE DEF b1
    <2> QED BY <1>1, <1>2 DEF Moved
  <1>4. b3 \in [Accounts -> Nat]
    <2> HIDE DEF b2
    <2> QED BY <1>1, <1>3, MovedType
  <1>5. Added(m.flow, 0, x + y, y, z) \in Flow
    <2>1. m.flow \in Flow /\ x + y \in Nat /\ 0 \in Nat
      BY DEF MoneyType
    <2> QED
      BY <2>1, AddedType
  <1>6. PaidOut(m, player, x, y, z) =
          [balance |-> b3, allowance |-> m.allowance,
           flow |-> Added(m.flow, 0, x + y, y, z)]
    BY DEF PaidOut
  <1> HIDE DEF b3
  <1> QED
    BY <1>4, <1>5, <1>6 DEF MoneyType

-----------------------------------------------------------------------------
(***************************************************************************)
(* The session of a step                                                   *)
(***************************************************************************)

\* s and m agree on what the session holds and on its limits; nothing has
\* gone to or come from the vault.
Balanced(s, m) ==
    /\ m \in MoneyType
    /\ s.maxEscrowStake = m.flow.maxEscrowStake
    /\ s.maxReservedProfit = m.flow.maxReservedProfit
    /\ s.escrowedStake = m.flow.fromPlayer - m.flow.toPlayer
    /\ m.flow.fromVault = 0
    /\ m.flow.toVault = 0

\* The session after the deltas of an accepted answer.
LEMMA SteppedType ==
    ASSUME NEW s \in Session, NEW r \in StepResult, NEW allow, NEW m,
           CanApplyStepDeltas(s, r, allow, m)
    PROVE  /\ Stepped(s, r) \in Session
           /\ Stepped(s, r).escrowedStake = s.escrowedStake + r.escrowDelta
           /\ Stepped(s, r).sessionId = s.sessionId
           /\ Stepped(s, r).player = s.player
           /\ Stepped(s, r).maxEscrowStake = s.maxEscrowStake
           /\ Stepped(s, r).maxReservedProfit = s.maxReservedProfit
  <1> DEFINE e == s.escrowedStake + r.escrowDelta
             p == s.reservedProfit + r.reservedProfitDelta
             k == s.step + 1
             t == Stepped(s, r)
  <1>1. e \in Nat /\ p \in Nat /\ k \in Nat
    BY DEF CanApplyStepDeltas, Session, StepResult
  <1>2. t = [s EXCEPT !.escrowedStake = e, !.reservedProfit = p, !.step = k]
    BY DEF Stepped
  <1>3. e = s.escrowedStake + r.escrowDelta
    OBVIOUS
  <1> HIDE DEF e, p, k, t
  <1>4. /\ t \in Session
        /\ t.escrowedStake = e
        /\ t.sessionId = s.sessionId /\ t.player = s.player
        /\ t.maxEscrowStake = s.maxEscrowStake
        /\ t.maxReservedProfit = s.maxReservedProfit
    BY <1>1, <1>2 DEF Session
  <1> QED
    BY <1>3, <1>4 DEF t

\* The money of an accepted answer still agrees with the session.
LEMMA StepMoneyBalanced ==
    ASSUME NEW s \in Session, NEW r \in StepResult, NEW allow, NEW m,
           Balanced(s, m), CanApplyStepDeltas(s, r, allow, m)
    PROVE  /\ Balanced(Stepped(s, r), StepMoney(s, r, m))
           /\ allow = FALSE =>
                StepMoney(s, r, m).flow.fromPlayer = m.flow.fromPlayer
  <1> DEFINE t == Stepped(s, r)
             n == StepMoney(s, r, m)
  <1>1. /\ t.escrowedStake = s.escrowedStake + r.escrowDelta
        /\ t.maxEscrowStake = s.maxEscrowStake
        /\ t.maxReservedProfit = s.maxReservedProfit
    BY SteppedType
  <1>2. m \in MoneyType /\ s.player \in Players /\ r.escrowDelta \in Int
        /\ m.flow \in Flow /\ s.escrowedStake \in Nat
    BY DEF Balanced, Session, StepResult, MoneyType
  <1>3. CASE r.escrowDelta > 0
    <2>1. r.escrowDelta \in Nat
          /\ CanPull(m.balance, m.allowance, s.player, r.escrowDelta)
          /\ allow
      BY <1>2, <1>3 DEF CanApplyStepDeltas
    <2>2. n \in MoneyType /\ n.flow = Added(m.flow, r.escrowDelta, 0, 0, 0)
      BY <1>2, <1>3, <2>1, PulledType DEF StepMoney
    <2> QED
      BY <1>1, <1>2, <2>1, <2>2 DEF Balanced, Added, Flow
  <1>4. CASE ~(r.escrowDelta > 0)
    <2>1. -r.escrowDelta \in Nat /\ -r.escrowDelta <= m.balance[Host]
      <3>1. m.balance[Host] \in Nat
        BY <1>2 DEF MoneyType, Accounts
      <3>2. r.escrowDelta < 0 => m.balance[Host] >= -r.escrowDelta
        BY DEF CanApplyStepDeltas
      <3> QED
        BY <1>2, <1>4, <3>1, <3>2
    <2>2. n \in MoneyType /\ n.flow = Added(m.flow, 0, -r.escrowDelta, 0, 0)
      BY <1>2, <1>4, <2>1, RefundedType DEF StepMoney
    <2> QED
      BY <1>1, <1>2, <2>1, <2>2 DEF Balanced, Added, Flow
  <1> QED
    BY <1>3, <1>4

-----------------------------------------------------------------------------
(***************************************************************************)
(* What a transaction about session sid does                               *)
(***************************************************************************)

SessionsTyped ==
    /\ commitments \in [SessionIds -> Session \cup {NoCommitment}]
    /\ balance \in [Accounts -> Nat]
    /\ allowance \in [Players \cup {Vault} -> Nat]
    /\ advanced \subseteq Session
    /\ settlements \in [SessionIds -> Seq(Settlement)]
    /\ flows \in [SessionIds -> Flow]

Untouched(sid) ==
    /\ commitments'[sid] = commitments[sid]
    /\ settlements'[sid] = settlements[sid]
    /\ flows'[sid] = flows[sid]

\* f has the limits of the session's quote.
Limits(s, f) ==
    /\ f.maxEscrowStake = s.maxEscrowStake
    /\ f.maxReservedProfit = s.maxReservedProfit

\* The transaction commits to a new snapshot.
LeftOpen(s) ==
    LET sid == s.sessionId IN
    /\ commitments'[sid] \in Session
    /\ commitments'[sid] \in advanced'
    /\ OpenInv(sid, commitments'[sid], flows'[sid])
    /\ settlements'[sid] = settlements[sid]

\* The transaction settles the session.
LeftClosed(s) ==
    LET sid == s.sessionId IN
    /\ commitments'[sid] = NoCommitment
    /\ Len(settlements'[sid]) = 1
    /\ ClosedInv(flows'[sid])

Handled(s) ==
    /\ SessionsTyped'
    /\ advanced \subseteq advanced'
    /\ \A other \in SessionIds \ {s.sessionId} : Untouched(other)
    /\ Limits(s, flows'[s.sessionId])
    /\ LeftOpen(s) \/ LeftClosed(s)

\* A session within its caps is finalized within its limits.
LEMMA FinalizeHandles ==
    ASSUME SessionsTyped,
           NEW s \in Session, NEW ph \in Phases, NEW payout \in Nat, NEW m,
           Balanced(s, m), WithinCaps(s), settlements[s.sessionId] = <<>>,
           FinalizeSession(s, ph, payout, m)
    PROVE  /\ Handled(s)
           /\ LeftClosed(s)
           /\ flows'[s.sessionId].fromPlayer = m.flow.fromPlayer
  <1> DEFINE sid == s.sessionId
             x == IF payout > s.escrowedStake THEN s.escrowedStake ELSE payout
             y == payout - x
             z == s.escrowedStake - x
             n == PaidOut(m, s.player, x, y, z)
  <1>1. /\ sid \in SessionIds /\ s.player \in Players
        /\ s.escrowedStake \in Nat /\ s.reservedProfit \in Nat
        /\ s.maxEscrowStake \in Nat /\ s.maxReservedProfit \in Nat
    BY DEF Session
  <1>2. /\ m \in MoneyType /\ m.flow \in Flow
        /\ m.flow.fromVault = 0 /\ m.flow.toVault = 0
        /\ s.escrowedStake = m.flow.fromPlayer - m.flow.toPlayer
        /\ Limits(s, m.flow)
    BY DEF Balanced, MoneyType, Limits
  <1>3. /\ payout <= s.escrowedStake + s.reservedProfit
        /\ s.escrowedStake <= m.balance[Host]
        /\ y <= m.balance[Vault]
        /\ commitments' = [commitments EXCEPT ![sid] = NoCommitment]
        /\ settlements' = [settlements EXCEPT ![sid] =
                              Append(@, [phase |-> ph, payout |-> payout])]
        /\ balance' = n.balance
        /\ allowance' = n.allowance
        /\ flows' = [flows EXCEPT ![sid] = n.flow]
        /\ advanced' = advanced
    BY DEF FinalizeSession, Book, CanPull
  <1>4. /\ x \in Nat /\ y \in Nat /\ z \in Nat
        /\ x + z = s.escrowedStake /\ x + y = payout
        /\ y <= s.reservedProfit
    BY <1>1, <1>3
  <1> HIDE DEF x, y, z
  <1>5. n \in MoneyType /\ n.flow = Added(m.flow, 0, x + y, y, z)
    BY <1>1, <1>2, <1>3, <1>4, PaidOutType
  <1> HIDE DEF n
  <1>6. /\ n.flow \in Flow
        /\ n.flow.fromPlayer = m.flow.fromPlayer
        /\ Limits(s, n.flow)
        /\ ClosedInv(n.flow)
    <2>1. n.flow \in Flow
      BY <1>5 DEF MoneyType
    <2>2. /\ n.flow.fromPlayer = m.flow.fromPlayer
          /\ n.flow.toPlayer = m.flow.toPlayer + payout
          /\ n.flow.fromVault = y
          /\ n.flow.toVault = z
          /\ Limits(s, n.flow)
      BY <1>2, <1>4, <1>5 DEF Added, Limits, Flow
    <2>3. s.reservedProfit <= s.maxReservedProfit /\ s.escrowedStake <= s.maxEscrowStake
      BY DEF WithinCaps
    <2>4. m.flow.fromPlayer \in Nat /\ m.flow.toPlayer \in Nat
      BY <1>2 DEF Flow
    <2>5. /\ n.flow.fromPlayer + n.flow.fromVault = n.flow.toPlayer + n.flow.toVault
          /\ n.flow.fromVault - n.flow.toVault <= s.maxReservedProfit
          /\ n.flow.fromPlayer - n.flow.toPlayer <= s.maxEscrowStake
      <3> DEFINE a == m.flow.fromPlayer
                 b == m.flow.toPlayer
                 e == s.escrowedStake
                 E == s.maxEscrowStake
                 p == s.reservedProfit
                 P == s.maxReservedProfit
      <3>1. /\ a \in Nat /\ b \in Nat /\ e \in Nat /\ E \in Nat /\ p \in Nat /\ P \in Nat
        BY <1>1, <2>4
      <3>2. e = a - b /\ e <= E /\ p <= P
        BY <1>2, <2>3
      <3>3. y <= p /\ x + z = e /\ x + y = payout
        BY <1>4
      <3> HIDE DEF a, b, e, E, p, P
      <3>4. x \in Nat /\ y \in Nat /\ z \in Nat
        BY <1>4
      <3>5. /\ a + y = (b + payout) + z
            /\ y - z <= P
            /\ a - (b + payout) <= E
        BY <3>1, <3>2, <3>3, <3>4
      <3> QED
        BY <2>2, <3>5 DEF a, b, E, P
    <2>6. ClosedInv(n.flow)
      BY <2>2, <2>5 DEF ClosedInv, Limits
    <2> QED
      BY <2>1, <2>2, <2>6
  <1>7. settlements'[sid] = <<[phase |-> ph, payout |-> payout]>>
    BY <1>1, <1>3 DEF SessionsTyped
  <1>8. SessionsTyped'
    <2>1. [phase |-> ph, payout |-> payout] \in Settlement
      BY DEF Settlement
    <2>2. settlements' \in [SessionIds -> Seq(Settlement)]
      BY <1>1, <1>3, <2>1 DEF SessionsTyped
    <2>3. flows' \in [SessionIds -> Flow]
      BY <1>1, <1>3, <1>6 DEF SessionsTyped
    <2>4. commitments' \in [SessionIds -> Session \cup {NoCommitment}]
      BY <1>1, <1>3 DEF SessionsTyped
    <2>5. balance' \in [Accounts -> Nat] /\ allowance' \in [Players \cup {Vault} -> Nat]
      BY <1>3, <1>5 DEF MoneyType
    <2> QED
      BY <1>3, <2>2, <2>3, <2>4, <2>5 DEF SessionsTyped
  <1>9. flows'[sid] = n.flow /\ commitments'[sid] = NoCommitment
    BY <1>1, <1>3 DEF SessionsTyped
  <1>10. LeftClosed(s)
    BY <1>6, <1>7, <1>9 DEF LeftClosed
  <1>11. \A other \in SessionIds \ {sid} : Untouched(other)
    BY <1>1, <1>3 DEF Untouched, SessionsTyped
  <1> QED
    BY <1>3, <1>6, <1>8, <1>9, <1>10, <1>11 DEF Handled

\* A step within the caps that commits to the next snapshot.
LEMMA CommitHandles ==
    ASSUME SessionsTyped,
           NEW s \in Session, NEW ph \in OpenPhases, NEW d \in Nat, NEW m,
           Balanced(s, m), WithinCaps(s),
           Commit(Waiting(s, ph, d)), Book(s.sessionId, m)
    PROVE  /\ Waiting(s, ph, d) \in Session
           /\ Handled(s)
           /\ LeftOpen(s)
           /\ flows'[s.sessionId].fromPlayer = m.flow.fromPlayer
  <1> DEFINE sid == s.sessionId
             t == Waiting(s, ph, d)
  <1>1. /\ t \in Session
        /\ t.phase = ph
        /\ t.escrowedStake = s.escrowedStake /\ t.reservedProfit = s.reservedProfit
        /\ t.maxEscrowStake = s.maxEscrowStake
        /\ t.maxReservedProfit = s.maxReservedProfit
        /\ t.sessionId = sid
        /\ sid \in SessionIds
    BY DEF Waiting, Session, OpenPhases, Phases
  <1> HIDE DEF t
  <1>2. /\ commitments' = [commitments EXCEPT ![sid] = t]
        /\ advanced' = advanced \cup {t}
        /\ settlements' = settlements
        /\ balance' = m.balance
        /\ allowance' = m.allowance
        /\ flows' = [flows EXCEPT ![sid] = m.flow]
    BY <1>1 DEF Commit, Book, t
  <1>3. m.balance \in [Accounts -> Nat] /\ m.flow \in Flow
        /\ m.allowance \in [Players \cup {Vault} -> Nat]
    BY DEF Balanced, MoneyType
  <1>4. flows'[sid] = m.flow /\ commitments'[sid] = t
    BY <1>1, <1>2 DEF SessionsTyped
  <1>5. SessionsTyped'
    BY <1>1, <1>2, <1>3 DEF SessionsTyped
  <1>6. \A other \in SessionIds \ {sid} : Untouched(other)
    BY <1>1, <1>2 DEF Untouched, SessionsTyped
  <1>7. OpenInv(sid, t, m.flow)
    BY <1>1 DEF OpenInv, Balanced, WithinCaps
  <1>8. LeftOpen(s)
    BY <1>1, <1>2, <1>4, <1>7 DEF LeftOpen
  <1>9. Limits(s, m.flow)
    BY DEF Balanced, Limits
  <1> QED
    BY <1>1, <1>2, <1>4, <1>5, <1>6, <1>8, <1>9 DEF Handled, t

\* Every accepted answer leaves the session open or closed as it should be,
\* and without the player's consent takes nothing from the player.
LEMMA StepHandles ==
    ASSUME SessionsTyped, block \in Nat, requests \subseteq Session,
           NEW s \in Session, NEW r \in StepResult, NEW allow \in BOOLEAN, NEW m,
           NEW unanswered \in SUBSET Session,
           Balanced(s, m), settlements[s.sessionId] = <<>>,
           ProcessStepResult(s, r, allow, m, unanswered)
    PROVE  /\ Handled(s)
           /\ requests' \subseteq Session
           /\ allow = FALSE => flows'[s.sessionId].fromPlayer = m.flow.fromPlayer
  <1> DEFINE next == Stepped(s, r)
             paid == StepMoney(s, r, m)
             waiting(timeout) == Waiting(next, r.nextPhase, block + timeout)
  <1>1. CanApplyStepDeltas(s, r, allow, m) /\ WithinCaps(next)
    BY DEF ProcessStepResult
  <1>2. /\ next \in Session
        /\ next.sessionId = s.sessionId
        /\ next.maxEscrowStake = s.maxEscrowStake
        /\ next.maxReservedProfit = s.maxReservedProfit
    BY <1>1, SteppedType
  <1>3. /\ Balanced(next, paid)
        /\ allow = FALSE => paid.flow.fromPlayer = m.flow.fromPlayer
    BY <1>1, StepMoneyBalanced
  <1>4. r.nextPhase \in Phases /\ r.payout \in Nat
    BY DEF StepResult
  <1>5. /\ block + RandomnessTimeout \in Nat
        /\ block + ActionTimeout \in Nat
    BY BoundsAssumption
  <1> HIDE DEF next, paid
  <1>6. CASE /\ r.nextPhase = "WAITING_RANDOMNESS"
             /\ Commit(waiting(RandomnessTimeout))
             /\ requests' = unanswered \cup {waiting(RandomnessTimeout)}
             /\ Book(s.sessionId, paid)
    <2>1. r.nextPhase \in OpenPhases
      BY <1>6 DEF OpenPhases
    <2>2. /\ Handled(next) /\ waiting(RandomnessTimeout) \in Session
          /\ flows'[s.sessionId].fromPlayer = paid.flow.fromPlayer
      BY <1>1, <1>2, <1>3, <1>5, <1>6, <2>1, CommitHandles
    <2> QED
      BY <1>2, <1>3, <1>6, <2>2 DEF Handled, Limits, LeftOpen, LeftClosed
  <1>7. CASE /\ r.nextPhase = "WAITING_PLAYER_ACTION"
             /\ Commit(waiting(ActionTimeout))
             /\ requests' = unanswered
             /\ Book(s.sessionId, paid)
    <2>1. r.nextPhase \in OpenPhases
      BY <1>7 DEF OpenPhases
    <2>2. /\ Handled(next)
          /\ flows'[s.sessionId].fromPlayer = paid.flow.fromPlayer
      BY <1>1, <1>2, <1>3, <1>5, <1>7, <2>1, CommitHandles
    <2> QED
      BY <1>2, <1>3, <1>7, <2>2 DEF Handled, Limits, LeftOpen, LeftClosed
  <1>8. CASE /\ requests' = unanswered
             /\ FinalizeSession(next, r.nextPhase, r.payout, paid)
    <2>1. /\ Handled(next)
          /\ flows'[s.sessionId].fromPlayer = paid.flow.fromPlayer
      BY <1>1, <1>2, <1>3, <1>4, <1>8, FinalizeHandles
    <2> QED
      BY <1>2, <1>3, <1>8, <2>1 DEF Handled, Limits, LeftOpen, LeftClosed
  <1> QED
    BY <1>6, <1>7, <1>8 DEF ProcessStepResult, next, paid

-----------------------------------------------------------------------------
(***************************************************************************)
(* The three kinds of step                                                 *)
(***************************************************************************)

\* What every step keeps of the variables that are not about sessions.
Framed ==
    /\ block' \in 0..MaxBlock
    /\ gameNames' \subseteq Games
    /\ isOperator' \subseteq Operators
    /\ defaultOperator' \in Operators \cup {Deployer}
    /\ minted' \in 0..MaxMinted
    /\ requests' \subseteq Session
    /\ caller' \in Players \cup {Anyone}

\* A step about no session.
Quiet ==
    /\ Framed
    /\ balance' \in [Accounts -> Nat]
    /\ allowance' \in [Players \cup {Vault} -> Nat]
    /\ UNCHANGED <<currentSessionId, commitments, advanced, settlements, flows>>

\* A step that opens the session of which s is the first, unemitted snapshot.
Opens(s) ==
    /\ Framed
    /\ Handled(s)
    /\ currentSessionId' = currentSessionId + 1
    /\ currentSessionId < MaxSessions
    /\ s.sessionId = currentSessionId + 1

\* A step of the open session committed to by s.  Only the player, in time,
\* pays in.
Serves(s) ==
    /\ Framed
    /\ Handled(s)
    /\ Loads(s)
    /\ UNCHANGED currentSessionId
    /\ flows'[s.sessionId].fromPlayer > flows[s.sessionId].fromPlayer
       => /\ s.phase = "WAITING_PLAYER_ACTION"
          /\ block <= s.deadlineBlock
          /\ caller' = s.player

\* A snapshot that loads is the one its session is committed to.
LEMMA LoadedSession ==
    ASSUME IndInv, NEW s, Loads(s)
    PROVE  /\ s \in Session
           /\ s.sessionId \in SessionIds
           /\ s.sessionId <= currentSessionId
           /\ s.phase \in OpenPhases
           /\ WithinCaps(s)
           /\ Balanced(s, Money(flows[s.sessionId]))
           /\ settlements[s.sessionId] = <<>>
           /\ SessionsTyped
  <1>1. s \in Session /\ commitments[s.sessionId] = s
    BY DEF IndInv, TypeOK, Loads
  <1>2. s.sessionId \in SessionIds /\ s # NoCommitment
    BY <1>1, NoCommitmentAssumption DEF Session
  <1>3. SessionInv(s.sessionId) /\ s.sessionId \in Int /\ currentSessionId \in Int
    BY <1>2, BoundsAssumption DEF IndInv, SessionIds, TypeOK
  <1>4. /\ s.sessionId <= currentSessionId
        /\ settlements[s.sessionId] = <<>>
        /\ OpenInv(s.sessionId, s, flows[s.sessionId])
    BY <1>1, <1>2, <1>3 DEF SessionInv, IsOpen
  <1>5. SessionsTyped
    BY DEF IndInv, TypeOK, SessionsTyped
  <1>6. Money(flows[s.sessionId]) \in MoneyType
    BY <1>2, <1>5 DEF SessionsTyped, Money, MoneyType
  <1>7. Balanced(s, Money(flows[s.sessionId]))
    BY <1>4, <1>6 DEF OpenInv, Balanced, Money
  <1> QED
    BY <1>1, <1>2, <1>4, <1>5, <1>7 DEF OpenInv

\* openSession opens one session, which had not been.
LEMMA OpenSessionOpens ==
    ASSUME IndInv, NEW player \in Players, NEW game \in Games, NEW wager \in Wagers,
           NEW quote \in Quotes, NEW operator \in Operators \cup {Deployer},
           NEW r \in StepResults,
           OpenSession(player, game, wager, quote, operator, r)
    PROVE  \E s \in Session : Opens(s)
  <1> DEFINE op == ResolveOperator(operator)
             s == [sessionId |-> currentSessionId + 1,
                   player |-> player, game |-> game,
                   operator |-> op,
                   escrowedStake |-> wager, reservedProfit |-> 0,
                   maxEscrowStake |-> quote.maxEscrowStake,
                   maxReservedProfit |-> quote.maxReservedProfit,
                   deadlineBlock |-> 0, step |-> 0, phase |-> "NONE"]
             f == NoFlowUnder(quote.maxEscrowStake, quote.maxReservedProfit)
             m == Pulled(Money(f), player, wager)
  <1>1. /\ currentSessionId < MaxSessions
        /\ currentSessionId' = currentSessionId + 1
        /\ CanPull(balance, allowance, player, wager)
        /\ ProcessStepResult(s, r, TRUE, m, requests)
        /\ UNCHANGED <<block, minted, adminVars>>
        /\ caller' = player
    BY DEF OpenSession
  <1>2. /\ r \in StepResult /\ wager \in Nat
        /\ quote.maxEscrowStake \in Nat /\ quote.maxReservedProfit \in Nat
    BY InputsAssumption DEF Quote
  <1>3. /\ currentSessionId \in Nat
        /\ currentSessionId + 1 \in SessionIds
        /\ block \in Nat /\ requests \subseteq Session
        /\ SessionsTyped
    BY <1>1, BoundsAssumption DEF IndInv, TypeOK, SessionIds, SessionsTyped
  <1>4. s \in Session
    <2>1. op \in Operators \cup {Deployer}
      BY DEF IndInv, TypeOK, ResolveOperator
    <2> HIDE DEF op
    <2> QED
      BY <1>2, <1>3, <2>1 DEF Session, Phases
  <1>5. settlements[s.sessionId] = <<>>
    BY <1>3 DEF IndInv, SessionInv
  <1>6. f \in Flow /\ f = [fromPlayer |-> 0, toPlayer |-> 0, fromVault |-> 0,
                           toVault |-> 0, maxEscrowStake |-> quote.maxEscrowStake,
                           maxReservedProfit |-> quote.maxReservedProfit]
    BY <1>2 DEF NoFlowUnder, Flow
  <1>7. Money(f) \in MoneyType /\ Money(f).flow = f
    BY <1>3, <1>6 DEF Money, MoneyType, SessionsTyped
  <1>8. m \in MoneyType /\ m.flow = Added(f, wager, 0, 0, 0)
    <2>1. CanPull(Money(f).balance, Money(f).allowance, player, wager)
      BY <1>1 DEF Money
    <2> HIDE DEF f
    <2> QED
      BY <1>2, <1>7, <2>1, PulledType
  <1>9. Balanced(s, m)
    BY <1>2, <1>6, <1>8 DEF Balanced, Added
  <1>10. s.sessionId = currentSessionId + 1
    OBVIOUS
  <1> HIDE DEF s, m
  <1>11. Handled(s) /\ requests' \subseteq Session
    BY <1>1, <1>2, <1>3, <1>4, <1>5, <1>9, StepHandles
  <1>12. Framed
    BY <1>1, <1>11 DEF Framed, IndInv, TypeOK, adminVars
  <1> QED
    BY <1>1, <1>4, <1>10, <1>11, <1>12 DEF Opens

\* submitAction serves one session: it takes it a step on, or settles it.
LEMMA SubmitActionServes ==
    ASSUME IndInv, NEW player \in Players, NEW s \in advanced, NEW r \in StepResults,
           SubmitAction(player, s, r)
    PROVE  Serves(s)
  <1>1. /\ Loads(s)
        /\ s.phase = "WAITING_PLAYER_ACTION"
        /\ block <= s.deadlineBlock
        /\ ProcessStepResult(s, r, TRUE, Money(flows[s.sessionId]), requests)
        /\ UNCHANGED <<chainVars, minted, adminVars>>
        /\ caller' = player /\ s.player = player
    BY DEF SubmitAction
  <1>2. /\ block \in Nat /\ requests \subseteq Session /\ r \in StepResult
    BY InputsAssumption, BoundsAssumption DEF IndInv, TypeOK
  <1>3. Handled(s) /\ requests' \subseteq Session
    <2> DEFINE m == Money(flows[s.sessionId])
    <2>1. ProcessStepResult(s, r, TRUE, m, requests) /\ Balanced(s, m)
      BY <1>1, LoadedSession
    <2> HIDE DEF m
    <2> QED
      BY <1>1, <1>2, <2>1, LoadedSession, StepHandles
  <1>4. Framed
    BY <1>1, <1>3 DEF Framed, IndInv, TypeOK, adminVars, chainVars
  <1> QED
    BY <1>1, <1>3, <1>4 DEF Serves, chainVars

\* onRandomnessFulfilled serves one session.
LEMMA OnRandomnessFulfilledServes ==
    ASSUME IndInv, NEW s \in requests, NEW r \in StepResults,
           OnRandomnessFulfilled(s, r)
    PROVE  Serves(s)
  <1>1. /\ Loads(s)
        /\ ProcessStepResult(s, r, FALSE, Money(flows[s.sessionId]), requests \ {s})
        /\ UNCHANGED <<chainVars, minted, adminVars>>
        /\ caller' = Anyone
    BY DEF OnRandomnessFulfilled
  <1>2. /\ block \in Nat /\ requests \subseteq Session /\ r \in StepResult
    BY InputsAssumption, BoundsAssumption DEF IndInv, TypeOK
  <1>3. /\ Handled(s) /\ requests' \subseteq Session
        /\ flows'[s.sessionId].fromPlayer = flows[s.sessionId].fromPlayer
    <2> DEFINE m == Money(flows[s.sessionId])
               u == requests \ {s}
    <2>1. /\ ProcessStepResult(s, r, FALSE, m, u) /\ Balanced(s, m)
          /\ u \in SUBSET Session
          /\ m.flow = flows[s.sessionId]
      BY <1>1, <1>2, LoadedSession DEF Money
    <2> HIDE DEF m, u
    <2> QED
      BY <1>1, <1>2, <2>1, LoadedSession, StepHandles
  <1>4. Framed
    BY <1>1, <1>3 DEF Framed, IndInv, TypeOK, adminVars, chainVars
  <1>5. flows[s.sessionId].fromPlayer \in Nat
    BY <1>1, LoadedSession DEF SessionsTyped, Flow
  <1> QED
    BY <1>1, <1>3, <1>4, <1>5 DEF Serves, chainVars

\* A closing transaction of an open session, whatever it pays.
LEMMA FinalizeServes ==
    ASSUME IndInv, NEW s, NEW ph \in Phases, NEW payout \in Nat, Loads(s),
           FinalizeSession(s, ph, payout, Money(flows[s.sessionId])),
           UNCHANGED <<chainVars, minted, adminVars, requests>>, caller' = Anyone
    PROVE  Serves(s)
  <1> DEFINE m == Money(flows[s.sessionId])
  <1>1. m.flow = flows[s.sessionId]
    BY DEF Money
  <1>2. Balanced(s, m) /\ FinalizeSession(s, ph, payout, m)
    BY LoadedSession
  <1> HIDE DEF m
  <1>3. /\ Handled(s)
        /\ flows'[s.sessionId].fromPlayer = flows[s.sessionId].fromPlayer
    BY <1>1, <1>2, LoadedSession, FinalizeHandles
  <1>4. Framed
    BY DEF Framed, IndInv, TypeOK, adminVars, chainVars
  <1>5. flows[s.sessionId].fromPlayer \in Nat
    BY LoadedSession DEF SessionsTyped, Flow
  <1> QED
    BY <1>3, <1>4, <1>5 DEF Serves, chainVars

\* forfeitExpiredSession serves one session.
LEMMA ForfeitServes ==
    ASSUME IndInv, NEW s \in advanced, NEW quote \in ForfeitQuotes,
           ForfeitExpiredSession(s, quote)
    PROVE  Serves(s)
  <1> DEFINE payout == ForfeitPayout(s, quote)
  <1>1. /\ Loads(s)
        /\ FinalizeSession(s, "FORFEITED", payout, Money(flows[s.sessionId]))
        /\ UNCHANGED <<chainVars, minted, adminVars, requests>>
        /\ caller' = Anyone
    BY DEF ForfeitExpiredSession
  <1>2. payout \in Nat
    <2>1. quote \in Nat /\ s.escrowedStake \in Nat /\ s.reservedProfit \in Nat
      BY <1>1, LoadedSession, InputsAssumption DEF Session
    <2> QED
      BY <2>1 DEF ForfeitPayout
  <1> HIDE DEF payout
  <1> QED
    BY <1>1, <1>2, FinalizeServes DEF Phases

\* cancelStuckRandomness serves one session.
LEMMA CancelServes ==
    ASSUME IndInv, NEW s \in advanced, CancelStuckRandomness(s)
    PROVE  Serves(s)
  <1>1. /\ Loads(s)
        /\ FinalizeSession(s, "CANCELLED", s.escrowedStake, Money(flows[s.sessionId]))
        /\ UNCHANGED <<chainVars, minted, adminVars, requests>>
        /\ caller' = Anyone
    BY DEF CancelStuckRandomness
  <1>2. s.escrowedStake \in Nat
    BY <1>1, LoadedSession DEF Session
  <1> QED
    BY <1>1, <1>2, FinalizeServes DEF Phases

\* Every step is about no session, about a new one or about an open one.
LEMMA NextHandles ==
    ASSUME IndInv, [Next]_vars
    PROVE  Quiet \/ \E s \in Session : Opens(s) \/ Serves(s)
  <1> USE DEF Quiet, Framed, IndInv, TypeOK, chainVars, adminVars, tokenVars, sessionVars
  <1>1. ASSUME NEW to \in Accounts, NEW amount \in MintAmounts, Mint(to, amount)
        PROVE  Quiet
    <2>1. amount \in Nat /\ minted + amount \in 0..MaxMinted
      BY <1>1, InputsAssumption, BoundsAssumption DEF Mint
    <2>2. balance' \in [Accounts -> Nat]
      BY <1>1, <2>1 DEF Mint
    <2> QED
      BY <1>1, <2>1, <2>2 DEF Mint
  <1>2. ASSUME NEW player \in Players, NEW amount \in ApproveAmounts, Approve(player, amount)
        PROVE  Quiet
    <2>1. amount \in Nat
      BY InputsAssumption, BoundsAssumption
    <2> QED
      BY <1>2, <2>1 DEF Approve
  <1>3. ASSUME NEW from \in Players, NEW to \in Accounts, NEW amount \in TransferAmounts,
               Transfer(from, to, amount)
        PROVE  Quiet
    <2>1. amount \in Nat /\ from \in Accounts /\ amount <= balance[from]
      BY <1>3, InputsAssumption DEF Transfer, Accounts
    <2>2. Moved(balance, from, to, amount) \in [Accounts -> Nat]
      BY <2>1, MovedType
    <2> QED
      BY <1>3, <2>2 DEF Transfer
  <1>4. ASSUME NEW game \in Games, NEW named \in BOOLEAN, RegisterGame(game, named)
        PROVE  Quiet
    BY <1>4 DEF RegisterGame
  <1>5. ASSUME NEW operator \in Operators, NEW registered \in BOOLEAN,
               SetOperator(operator, registered)
        PROVE  Quiet
    BY <1>5 DEF SetOperator
  <1>6. ASSUME NEW operator \in Operators, SetDefaultOperator(operator)
        PROVE  Quiet
    BY <1>6 DEF SetDefaultOperator
  <1>7. ASSUME NEW s \in requests, RandomnessCallbackReverts(s)
        PROVE  Quiet
    BY <1>7 DEF RandomnessCallbackReverts
  <1>8. CASE Mine
    BY <1>8, BoundsAssumption DEF Mine
  <1>9. CASE UNCHANGED vars
    BY <1>9 DEF vars
  <1>10. ASSUME NEW s, Serves(s)
         PROVE  s \in Session
    BY <1>10, LoadedSession DEF Serves
  <1> QED
    BY <1>1, <1>2, <1>3, <1>4, <1>5, <1>6, <1>7, <1>8, <1>9, <1>10,
       OpenSessionOpens, SubmitActionServes, OnRandomnessFulfilledServes,
       ForfeitServes, CancelServes DEF Next

-----------------------------------------------------------------------------
(***************************************************************************)
(* The theorems                                                            *)
(***************************************************************************)

\* Between deployment and the first transaction no session has a trace.
LEMMA InitIndInv == Init => IndInv
  <1> SUFFICES ASSUME Init PROVE IndInv
    OBVIOUS
  <1>1. NoFlow \in Flow
    BY DEF NoFlow, NoFlowUnder, Flow
  <1>2. TypeOK
    <2>1. /\ block \in 0..MaxBlock /\ currentSessionId \in 0..MaxSessions
          /\ minted \in 0..MaxMinted
      BY BoundsAssumption DEF Init
    <2>2. /\ commitments \in [SessionIds -> Session \cup {NoCommitment}]
          /\ settlements \in [SessionIds -> Seq(Settlement)]
          /\ flows \in [SessionIds -> Flow]
      BY <1>1 DEF Init
    <2>3. /\ gameNames \subseteq Games /\ isOperator \subseteq Operators
          /\ defaultOperator \in Operators \cup {Deployer}
          /\ balance \in [Accounts -> Nat]
          /\ allowance \in [Players \cup {Vault} -> Nat]
          /\ requests \subseteq Session /\ advanced \subseteq Session
      BY InputsAssumption, BoundsAssumption DEF Init
    <2>4. caller \in Players \cup {Anyone}
      BY DEF Init
    <2> QED
      BY <2>1, <2>2, <2>3, <2>4 DEF TypeOK
  <1>3. ASSUME NEW sid \in SessionIds PROVE SessionInv(sid)
    <2>1. sid > currentSessionId /\ ~(sid <= currentSessionId)
      BY BoundsAssumption DEF Init, SessionIds
    <2>2. /\ commitments[sid] = NoCommitment
          /\ settlements[sid] = <<>>
          /\ flows[sid] = NoFlow
      BY DEF Init
    <2> QED
      BY <2>1, <2>2 DEF SessionInv
  <1> QED
    BY <1>2, <1>3 DEF IndInv

\* A step about session s keeps the invariant of every session.
LEMMA HandledKeepsIndInv ==
    ASSUME IndInv, NEW s \in Session, Opens(s) \/ Serves(s)
    PROVE  IndInv'
  <1>1. Framed /\ Handled(s) /\ s.sessionId \in SessionIds
    BY DEF Opens, Serves, Session
  <1>2. /\ currentSessionId \in 0..MaxSessions
        /\ currentSessionId' \in 0..MaxSessions
        /\ s.sessionId <= currentSessionId'
        /\ \A sid \in SessionIds \ {s.sessionId} :
               /\ sid <= currentSessionId' => sid <= currentSessionId
               /\ sid > currentSessionId' => sid > currentSessionId
    <2>1. currentSessionId \in 0..MaxSessions
      BY DEF IndInv, TypeOK
    <2>2. CASE Opens(s)
      BY <2>1, <2>2, BoundsAssumption DEF Opens, SessionIds
    <2>3. CASE Serves(s)
      BY <2>1, <2>3, LoadedSession DEF Serves
    <2> QED
      BY <2>2, <2>3
  <1>3. TypeOK'
    BY <1>1, <1>2 DEF Framed, Handled, SessionsTyped, TypeOK
  <1>4. ASSUME NEW sid \in SessionIds PROVE SessionInv(sid)'
    <2>1. CASE sid = s.sessionId
      <3>1. /\ sid <= currentSessionId' /\ ~(sid > currentSessionId')
        BY <1>2, <2>1, BoundsAssumption DEF SessionIds
      <3>2. settlements[sid] = <<>>
        <4>1. CASE Opens(s)
          BY <1>2, <2>1, <4>1 DEF Opens, IndInv, SessionInv
        <4>2. CASE Serves(s)
          BY <2>1, <4>2, LoadedSession DEF Serves
        <4> QED
          BY <4>1, <4>2
      <3>3. CASE LeftOpen(s)
        BY <2>1, <3>1, <3>2, <3>3, NoCommitmentAssumption
           DEF LeftOpen, SessionInv, IsOpen
      <3>4. CASE LeftClosed(s)
        BY <2>1, <3>1, <3>4 DEF LeftClosed, SessionInv, IsOpen
      <3> QED
        BY <1>1, <3>3, <3>4 DEF Handled
    <2>2. CASE sid # s.sessionId
      <3>1. /\ commitments'[sid] = commitments[sid]
            /\ settlements'[sid] = settlements[sid]
            /\ flows'[sid] = flows[sid]
            /\ advanced \subseteq advanced'
        BY <1>1, <2>2 DEF Handled, Untouched
      <3>2. SessionInv(sid)
        BY DEF IndInv
      <3>3. /\ sid <= currentSessionId' => sid <= currentSessionId
            /\ sid > currentSessionId' => sid > currentSessionId
        BY <1>2, <2>2
      <3> QED
        BY <3>1, <3>2, <3>3 DEF SessionInv, IsOpen
    <2> QED
      BY <2>1, <2>2
  <1> QED
    BY <1>3, <1>4 DEF IndInv

\* Every step of the host keeps the inductive invariant.
LEMMA NextKeepsIndInv == IndInv /\ [Next]_vars => IndInv'
  <1> SUFFICES ASSUME IndInv, [Next]_vars PROVE IndInv'
    OBVIOUS
  <1>1. CASE Quiet
    <2>1. TypeOK'
      BY <1>1 DEF Quiet, Framed, IndInv, TypeOK
    <2>2. ASSUME NEW sid \in SessionIds PROVE SessionInv(sid)'
      <3>1. SessionInv(sid)
        BY DEF IndInv
      <3> QED
        BY <1>1, <3>1 DEF Quiet, SessionInv, IsOpen
    <2> QED
      BY <2>1, <2>2 DEF IndInv
  <1>2. ASSUME NEW s \in Session, Opens(s) \/ Serves(s) PROVE IndInv'
    BY <1>2, HandledKeepsIndInv
  <1> QED
    BY <1>1, <1>2, NextHandles

\* The inductive invariant holds of every reachable state of the host.
THEOREM HostInvariant == Spec => []IndInv
  <1> QED
    BY InitIndInv, NextKeepsIndInv, PTL DEF Spec

\* Type correctness of the host, its token and its registries: no balance,
\* allowance, escrow or reserve of the contract ever goes below zero.
THEOREM TypeCorrect == Spec => []TypeOK
  <1>1. IndInv => TypeOK
    BY DEF IndInv
  <1> QED
    BY <1>1, HostInvariant, PTL

\* Every token a session takes in is held as its escrow while it is open and
\* has left the host when it is closed, for every game and every history.
THEOREM Conservation == Spec => []SessionConserves
  <1>1. IndInv => SessionConserves
    <2> SUFFICES ASSUME IndInv, NEW sid \in SessionIds
                 PROVE  LET f == flows[sid] IN
                        /\ IsOpen(sid) =>
                               /\ commitments[sid].escrowedStake = f.fromPlayer - f.toPlayer
                               /\ f.fromVault = 0
                               /\ f.toVault = 0
                        /\ ~IsOpen(sid) =>
                               f.fromPlayer + f.fromVault = f.toPlayer + f.toVault
      BY DEF SessionConserves
    <2>1. SessionInv(sid) /\ (sid <= currentSessionId \/ sid > currentSessionId)
      BY BoundsAssumption DEF IndInv, TypeOK, SessionIds
    <2>2. NoFlow.fromPlayer + NoFlow.fromVault = NoFlow.toPlayer + NoFlow.toVault
      BY DEF NoFlow, NoFlowUnder
    <2> QED
      BY <2>1, <2>2 DEF SessionInv, IsOpen, OpenInv, ClosedInv
  <1> QED
    BY <1>1, HostInvariant, PTL

\* The vault never loses more on a session than the profit quoted at its
\* opening, nor the player more than the quoted stake, whatever the game
\* contract answers.
THEOREM RiskBound == Spec => []RiskWithinQuote
  <1>1. IndInv => RiskWithinQuote
    <2> SUFFICES ASSUME IndInv, NEW sid \in SessionIds
                 PROVE  LET f == flows[sid] IN
                        /\ f.fromVault - f.toVault <= f.maxReservedProfit
                        /\ f.fromPlayer - f.toPlayer <= f.maxEscrowStake
      BY DEF RiskWithinQuote
    <2>1. /\ SessionInv(sid)
          /\ sid <= currentSessionId \/ sid > currentSessionId
          /\ flows[sid] \in Flow
      BY BoundsAssumption DEF IndInv, TypeOK, SessionIds
    <2>2. CASE sid > currentSessionId
      BY <2>1, <2>2 DEF SessionInv, NoFlow, NoFlowUnder
    <2>3. CASE sid <= currentSessionId /\ IsOpen(sid)
      <3>1. OpenInv(sid, commitments[sid], flows[sid])
        BY <2>1, <2>3 DEF SessionInv
      <3>2. flows[sid].maxReservedProfit \in Nat
        BY <2>1 DEF Flow
      <3> QED
        BY <3>1, <3>2 DEF OpenInv, WithinCaps
    <2>4. CASE sid <= currentSessionId /\ ~IsOpen(sid)
      BY <2>1, <2>4 DEF SessionInv, ClosedInv
    <2> QED
      BY <2>1, <2>2, <2>3, <2>4
  <1> QED
    BY <1>1, HostInvariant, PTL

\* A session is never both open and closed, is closed at most once, and
\* exists only once its id has been given out.
THEOREM SettledOnce == Spec => []ClosedOnce
  <1>1. IndInv => ClosedOnce
    <2> SUFFICES ASSUME IndInv, NEW sid \in SessionIds
                 PROVE  /\ Len(settlements[sid]) <= 1
                        /\ IsOpen(sid) => ~IsClosed(sid)
                        /\ (IsOpen(sid) \/ IsClosed(sid)) <=> sid <= currentSessionId
      BY DEF ClosedOnce
    <2>1. /\ SessionInv(sid)
          /\ sid \in Int /\ currentSessionId \in Int
          /\ settlements[sid] \in Seq(Settlement)
      BY BoundsAssumption DEF IndInv, TypeOK, SessionIds
    <2>2. /\ settlements[sid] = <<>> => Len(settlements[sid]) = 0
          /\ Len(settlements[sid]) = 1 => settlements[sid] # <<>>
      OBVIOUS
    <2>3. CASE sid > currentSessionId
      BY <2>1, <2>2, <2>3 DEF SessionInv, IsOpen, IsClosed
    <2>4. CASE sid <= currentSessionId
      <3>1. ~(sid > currentSessionId)
        BY <2>1, <2>4
      <3>2. CASE IsOpen(sid) /\ settlements[sid] = <<>>
        BY <2>2, <2>4, <3>2 DEF IsClosed
      <3>3. CASE ~IsOpen(sid) /\ Len(settlements[sid]) = 1
        BY <2>2, <2>4, <3>3 DEF IsClosed
      <3> QED
        BY <2>1, <2>4, <3>2, <3>3 DEF SessionInv
    <2> QED
      BY <2>1, <2>3, <2>4
  <1> QED
    BY <1>1, HostInvariant, PTL

\* A step about session s is about no session that is closed already.
LEMMA HandledNotClosed ==
    ASSUME IndInv, NEW s \in Session, Opens(s) \/ Serves(s),
           NEW sid \in SessionIds, IsClosed(sid)
    PROVE  Untouched(sid)
  <1>1. settlements[s.sessionId] = <<>>
    <2>1. CASE Opens(s)
      <3>1. s.sessionId > currentSessionId /\ s.sessionId \in SessionIds
        BY <2>1 DEF Opens, IndInv, TypeOK, Session
      <3> QED
        BY <3>1 DEF IndInv, SessionInv
    <2>2. CASE Serves(s)
      BY <2>2, LoadedSession DEF Serves
    <2> QED
      BY <2>1, <2>2
  <1>2. sid # s.sessionId
    BY <1>1 DEF IsClosed
  <1> QED
    BY <1>2 DEF Opens, Serves, Handled

\* A closed session moves no more tokens and keeps its result, whatever stale
\* snapshot or late randomness is handed to the host.
THEOREM ResultIsFinal == Spec => ClosedForever
  <1>1. IndInv /\ [Next]_vars =>
            [\A sid \in SessionIds :
                 IsClosed(sid) => /\ settlements'[sid] = settlements[sid]
                                  /\ flows'[sid] = flows[sid]
                                  /\ commitments'[sid] = commitments[sid]]_vars
    <2> SUFFICES ASSUME IndInv, [Next]_vars, NEW sid \in SessionIds, IsClosed(sid)
                 PROVE  Untouched(sid)
      BY DEF Untouched
    <2>1. CASE Quiet
      BY <2>1 DEF Quiet, Untouched
    <2>2. ASSUME NEW s \in Session, Opens(s) \/ Serves(s) PROVE Untouched(sid)
      BY <2>2, HandledNotClosed
    <2> QED
      BY <2>1, <2>2, NextHandles
  <1> QED
    BY <1>1, HostInvariant, PTL DEF Spec, ClosedForever

\* From m to n no player has lost tokens, those in payers aside.
Spares(m, n, payers) ==
    /\ n \in MoneyType
    /\ \A p \in Players \ payers : n.balance[p] >= m.balance[p]

\* Pulling takes from the player it names.
LEMMA PulledSpares ==
    ASSUME NEW m \in MoneyType, NEW player \in Players, NEW amount \in Nat,
           CanPull(m.balance, m.allowance, player, amount)
    PROVE  Spares(m, Pulled(m, player, amount), {player})
  <1> DEFINE n == Pulled(m, player, amount)
  <1>1. n \in MoneyType
    BY PulledType
  <1>2. /\ m.balance \in [Accounts -> Nat] /\ player \in Accounts /\ Host \in Accounts
        /\ amount <= m.balance[player] /\ Players \subseteq Accounts
        /\ n.balance = Moved(m.balance, player, Host, amount)
    BY DEF Pulled, MoneyType, Accounts, CanPull
  <1> HIDE DEF n
  <1>3. \A p \in Players \ {player} : n.balance[p] >= m.balance[p]
    BY <1>2, MovedBalance
  <1> QED
    BY <1>1, <1>3 DEF Spares, n

\* A refund takes from the host, which is not a player.
LEMMA RefundedSpares ==
    ASSUME NEW m \in MoneyType, NEW player \in Players, NEW amount \in Nat,
           amount <= m.balance[Host]
    PROVE  Spares(m, Refunded(m, player, amount), {})
  <1> DEFINE n == Refunded(m, player, amount)
  <1>1. n \in MoneyType
    BY RefundedType
  <1>2. /\ m.balance \in [Accounts -> Nat] /\ player \in Accounts /\ Host \in Accounts
        /\ Players \subseteq Accounts /\ Host \notin Players
        /\ n.balance = Moved(m.balance, Host, player, amount)
    BY PlayersAssumption DEF Refunded, MoneyType, Accounts
  <1> HIDE DEF n
  <1>3. \A p \in Players : n.balance[p] >= m.balance[p]
    BY <1>2, MovedBalance
  <1> QED
    BY <1>1, <1>3 DEF Spares, n

\* A payout takes from the host and the vault.
LEMMA PaidOutSpares ==
    ASSUME NEW m \in MoneyType, NEW player \in Players,
           NEW x \in Nat, NEW y \in Nat, NEW z \in Nat,
           x + z <= m.balance[Host], y <= m.balance[Vault]
    PROVE  Spares(m, PaidOut(m, player, x, y, z), {})
  <1> DEFINE n == PaidOut(m, player, x, y, z)
  <1>1. n \in MoneyType
    BY PaidOutType
  <1>2. n.balance = Moved(Moved(Moved(m.balance, Host, player, x), Vault, player, y),
                          Host, Vault, z)
    BY DEF PaidOut
  <1>3. ASSUME NEW p \in Players PROVE n.balance[p] >= m.balance[p]
    <2>1. /\ m.balance \in [Accounts -> Nat] /\ m.balance[p] \in Nat
          /\ p \in Accounts /\ {Host, Vault, player} \subseteq Accounts
          /\ p # Host /\ p # Vault
      BY PlayersAssumption DEF MoneyType, Accounts
    <2> HIDE DEF n
    <2> QED
      BY <1>2, <2>1 DEF Moved
  <1> QED
    BY <1>1, <1>3 DEF Spares

\* The deltas of a step take from the player of the session, and only where
\* the stake may be raised.
LEMMA StepMoneySpares ==
    ASSUME NEW s \in Session, NEW r \in StepResult, NEW allow \in BOOLEAN, NEW m \in MoneyType,
           CanApplyStepDeltas(s, r, allow, m)
    PROVE  Spares(m, StepMoney(s, r, m), IF allow THEN {s.player} ELSE {})
  <1>1. s.player \in Players /\ r.escrowDelta \in Int /\ m.balance[Host] \in Nat
    BY DEF Session, StepResult, MoneyType, Accounts
  <1>2. CASE r.escrowDelta > 0
    <2>1. r.escrowDelta \in Nat /\ allow
          /\ CanPull(m.balance, m.allowance, s.player, r.escrowDelta)
      BY <1>1, <1>2 DEF CanApplyStepDeltas
    <2> QED
      BY <1>1, <1>2, <2>1, PulledSpares DEF StepMoney
  <1>3. CASE ~(r.escrowDelta > 0)
    <2>1. r.escrowDelta < 0 => m.balance[Host] >= -r.escrowDelta
      BY DEF CanApplyStepDeltas
    <2>2. -r.escrowDelta \in Nat /\ -r.escrowDelta <= m.balance[Host]
      BY <1>1, <1>3, <2>1
    <2>3. Spares(m, StepMoney(s, r, m), {})
      BY <1>1, <1>3, <2>2, RefundedSpares DEF StepMoney
    <2> QED
      BY <2>3 DEF Spares
  <1> QED
    BY <1>2, <1>3

\* A closing takes from no player.
LEMMA FinalizeSpares ==
    ASSUME NEW s \in Session, NEW ph, NEW payout \in Nat, NEW m \in MoneyType,
           FinalizeSession(s, ph, payout, m)
    PROVE  /\ \A p \in Players : balance'[p] >= m.balance[p]
           /\ balance' \in [Accounts -> Nat]
  <1> DEFINE x == IF payout > s.escrowedStake THEN s.escrowedStake ELSE payout
             y == payout - x
             z == s.escrowedStake - x
             n == PaidOut(m, s.player, x, y, z)
  <1>1. s.player \in Players /\ s.escrowedStake \in Nat
    BY DEF Session
  <1>2. /\ s.escrowedStake <= m.balance[Host]
        /\ y <= m.balance[Vault]
        /\ balance' = n.balance
    BY DEF FinalizeSession, CanPull, Book
  <1>3. x \in Nat /\ y \in Nat /\ z \in Nat /\ x + z = s.escrowedStake
    BY <1>1
  <1> HIDE DEF x, y, z
  <1>4. Spares(m, n, {})
    BY <1>1, <1>2, <1>3, PaidOutSpares
  <1> QED
    BY <1>2, <1>4 DEF Spares, MoneyType

\* An accepted answer takes from the player of the session at most.
LEMMA StepSpares ==
    ASSUME NEW s \in Session, NEW r \in StepResult, NEW allow \in BOOLEAN, NEW m \in MoneyType,
           NEW unanswered, ProcessStepResult(s, r, allow, m, unanswered)
    PROVE  \A p \in Players \ (IF allow THEN {s.player} ELSE {}) : balance'[p] >= m.balance[p]
  <1> DEFINE next == Stepped(s, r)
             paid == StepMoney(s, r, m)
  <1>1. CanApplyStepDeltas(s, r, allow, m)
    BY DEF ProcessStepResult
  <1>2. Spares(m, paid, IF allow THEN {s.player} ELSE {}) /\ paid \in MoneyType
    BY <1>1, StepMoneySpares DEF Spares
  <1>3. next \in Session /\ r.payout \in Nat
    BY <1>1, SteppedType DEF StepResult
  <1>4. \/ balance' = paid.balance
        \/ FinalizeSession(next, r.nextPhase, r.payout, paid)
    BY DEF ProcessStepResult, Book
  <1> HIDE DEF next, paid
  <1> SUFFICES ASSUME NEW p \in Players \ (IF allow THEN {s.player} ELSE {})
               PROVE  balance'[p] >= m.balance[p]
    OBVIOUS
  <1>5. paid.balance[p] >= m.balance[p]
    BY <1>2 DEF Spares
  <1>6. CASE balance' = paid.balance
    BY <1>5, <1>6
  <1>7. CASE FinalizeSession(next, r.nextPhase, r.payout, paid)
    <2>1. balance'[p] >= paid.balance[p] /\ balance'[p] \in Nat
      BY <1>2, <1>3, <1>7, FinalizeSpares DEF Accounts
    <2>2. paid.balance[p] \in Nat /\ m.balance[p] \in Nat
      BY <1>2 DEF MoneyType, Accounts
    <2> QED
      BY <1>5, <2>1, <2>2
  <1> QED
    BY <1>4, <1>6, <1>7

\* A session takes more from its player only by that player's action, in time.
LEMMA OwnActionPays ==
    ASSUME IndInv, [Next]_vars, NEW sid \in SessionIds,
           flows'[sid].fromPlayer > flows[sid].fromPlayer, IsOpen(sid)
    PROVE  /\ commitments[sid].phase = "WAITING_PLAYER_ACTION"
           /\ block <= commitments[sid].deadlineBlock
           /\ caller' = commitments[sid].player
  <1>1. flows'[sid] # flows[sid]
    <2>1. flows[sid].fromPlayer \in Nat
      BY DEF IndInv, TypeOK, Flow
    <2> QED
      BY <2>1
  <1>2. CASE Quiet
    BY <1>1, <1>2 DEF Quiet
  <1>3. ASSUME NEW s \in Session, Opens(s) PROVE FALSE
    <2>1. sid <= currentSessionId
      <3>1. /\ SessionInv(sid)
            /\ sid <= currentSessionId \/ sid > currentSessionId
        BY BoundsAssumption DEF IndInv, TypeOK, SessionIds
      <3> QED
        BY <3>1 DEF SessionInv, IsOpen
    <2>2. sid # s.sessionId
      BY <1>3, <2>1 DEF Opens, IndInv, TypeOK
    <2> QED
      BY <1>1, <1>3, <2>2 DEF Opens, Handled, Untouched
  <1>4. ASSUME NEW s \in Session, Serves(s)
        PROVE  /\ commitments[sid].phase = "WAITING_PLAYER_ACTION"
               /\ block <= commitments[sid].deadlineBlock
             /\ caller' = commitments[sid].player
    <2>1. sid = s.sessionId
      BY <1>1, <1>4 DEF Serves, Handled, Untouched
    <2> QED
      BY <1>4, <2>1 DEF Serves, Loads
  <1> QED
    BY <1>2, <1>3, <1>4, NextHandles

\* A player's balance falls only in a transaction of that player.
LEMMA OwnTransactionPays ==
    ASSUME IndInv, [Next]_vars, NEW p \in Players, balance'[p] < balance[p]
    PROVE  caller' = p
  <1>1. /\ TypeOK /\ balance \in [Accounts -> Nat] /\ p \in Accounts
        /\ balance[p] \in Nat /\ balance'[p] \in Nat /\ ~(balance'[p] >= balance[p])
    <2>1. IndInv'
      BY NextKeepsIndInv
    <2>2. TypeOK /\ balance \in [Accounts -> Nat] /\ balance' \in [Accounts -> Nat]
      BY <2>1 DEF IndInv, TypeOK
    <2>3. p \in Accounts
      BY DEF Accounts
    <2>4. balance[p] \in Nat /\ balance'[p] \in Nat
      BY <2>2, <2>3
    <2> QED
      BY <2>2, <2>3, <2>4
  <1>2. CASE UNCHANGED balance
    BY <1>1, <1>2
  <1>3. ASSUME NEW to \in Accounts, NEW amount \in MintAmounts, Mint(to, amount)
        PROVE  FALSE
    <2>1. amount \in Nat /\ balance' = [balance EXCEPT ![to] = @ + amount]
      BY <1>3, InputsAssumption DEF Mint
    <2> QED
      BY <1>1, <2>1
  <1>4. ASSUME NEW from \in Players, NEW to \in Accounts, NEW amount \in TransferAmounts,
               Transfer(from, to, amount)
        PROVE  caller' = p
    <2>1. amount \in Nat /\ from \in Accounts /\ amount <= balance[from]
          /\ balance' = Moved(balance, from, to, amount) /\ caller' = from
      BY <1>4, InputsAssumption DEF Transfer, Accounts
    <2> QED
      BY <1>1, <2>1, MovedBalance
  <1>5. ASSUME NEW s, Loads(s)
        PROVE  /\ Money(flows[s.sessionId]) \in MoneyType
               /\ Money(flows[s.sessionId]).balance = balance
               /\ s \in Session
    BY <1>5, LoadedSession DEF Balanced, Money
  <1>6. ASSUME NEW s, NEW ph, NEW payout \in Nat, Loads(s),
               FinalizeSession(s, ph, payout, Money(flows[s.sessionId]))
        PROVE  FALSE
    BY <1>1, <1>5, <1>6, FinalizeSpares
  <1>7. ASSUME NEW player \in Players, NEW s \in advanced, NEW r \in StepResults,
               SubmitAction(player, s, r)
        PROVE  caller' = p
    <2>1. /\ Loads(s) /\ s.player = player /\ caller' = player
          /\ ProcessStepResult(s, r, TRUE, Money(flows[s.sessionId]), requests)
      BY <1>7 DEF SubmitAction
    <2>2. \A q \in Players \ {player} : balance'[q] >= balance[q]
      BY <1>5, <2>1, StepSpares, InputsAssumption
    <2> QED
      BY <1>1, <2>1, <2>2
  <1>8. ASSUME NEW s \in requests, NEW r \in StepResults, OnRandomnessFulfilled(s, r)
        PROVE  FALSE
    <2>1. /\ Loads(s)
          /\ ProcessStepResult(s, r, FALSE, Money(flows[s.sessionId]), requests \ {s})
      BY <1>8 DEF OnRandomnessFulfilled
    <2>2. \A q \in Players \ {} : balance'[q] >= balance[q]
      BY <1>5, <2>1, StepSpares, InputsAssumption
    <2> QED
      BY <1>1, <2>2
  <1>9. ASSUME NEW player \in Players, NEW game \in Games, NEW wager \in Wagers,
               NEW quote \in Quotes, NEW operator \in Operators \cup {Deployer},
               NEW r \in StepResults,
               OpenSession(player, game, wager, quote, operator, r)
        PROVE  caller' = p
    <2> DEFINE op == ResolveOperator(operator)
               s == [sessionId |-> currentSessionId + 1,
                     player |-> player, game |-> game,
                     operator |-> op,
                     escrowedStake |-> wager, reservedProfit |-> 0,
                     maxEscrowStake |-> quote.maxEscrowStake,
                     maxReservedProfit |-> quote.maxReservedProfit,
                     deadlineBlock |-> 0, step |-> 0, phase |-> "NONE"]
               f == NoFlowUnder(quote.maxEscrowStake, quote.maxReservedProfit)
               m == Pulled(Money(f), player, wager)
    <2>1. /\ currentSessionId < MaxSessions
          /\ CanPull(balance, allowance, player, wager)
          /\ ProcessStepResult(s, r, TRUE, m, requests)
          /\ caller' = player
      BY <1>9 DEF OpenSession
    <2>2. /\ r \in StepResult /\ wager \in Nat
          /\ quote.maxEscrowStake \in Nat /\ quote.maxReservedProfit \in Nat
      BY InputsAssumption DEF Quote
    <2>3. currentSessionId + 1 \in SessionIds /\ currentSessionId \in Nat
      BY <1>1, <2>1, BoundsAssumption DEF TypeOK, SessionIds
    <2>4. s \in Session /\ s.player = player
      <3>1. op \in Operators \cup {Deployer}
        BY <1>1 DEF TypeOK, ResolveOperator
      <3> HIDE DEF op
      <3> QED
        BY <2>2, <2>3, <3>1 DEF Session, Phases
    <2>5. f \in Flow
      BY <2>2 DEF NoFlowUnder, Flow
    <2>6. Money(f) \in MoneyType /\ Money(f).balance = balance
          /\ CanPull(Money(f).balance, Money(f).allowance, player, wager)
      BY <1>1, <2>1, <2>5 DEF Money, MoneyType, TypeOK
    <2>7. Spares(Money(f), m, {player})
      <3> HIDE DEF f
      <3> QED
        BY <2>2, <2>6, PulledSpares
    <2> HIDE DEF s, m, f
    <2>8. m \in MoneyType /\ \A q \in Players \ {player} : m.balance[q] >= balance[q]
      BY <2>6, <2>7 DEF Spares
    <2>9. \A q \in Players \ {player} : balance'[q] >= m.balance[q]
      BY <2>1, <2>2, <2>4, <2>8, StepSpares
    <2>10. CASE p # player
      <3>1. m.balance[p] >= balance[p] /\ balance'[p] >= m.balance[p]
        BY <2>8, <2>9, <2>10
      <3>2. m.balance[p] \in Nat
        BY <1>1, <2>8 DEF MoneyType
      <3> QED
        BY <1>1, <3>1, <3>2
    <2> QED
      BY <2>1, <2>10
  <1>10. ASSUME NEW s \in advanced, NEW quote \in ForfeitQuotes, ForfeitExpiredSession(s, quote)
         PROVE  FALSE
    <2> DEFINE payout == ForfeitPayout(s, quote)
    <2>1. Loads(s) /\ FinalizeSession(s, "FORFEITED", payout, Money(flows[s.sessionId]))
      BY <1>10 DEF ForfeitExpiredSession
    <2>2. payout \in Nat
      <3>1. quote \in Nat /\ s.escrowedStake \in Nat /\ s.reservedProfit \in Nat
        BY <2>1, LoadedSession, InputsAssumption DEF Session
      <3> QED
        BY <3>1 DEF ForfeitPayout
    <2> HIDE DEF payout
    <2> QED
      BY <1>6, <2>1, <2>2
  <1>11. ASSUME NEW s \in advanced, CancelStuckRandomness(s)
         PROVE  FALSE
    <2>1. Loads(s)
          /\ FinalizeSession(s, "CANCELLED", s.escrowedStake, Money(flows[s.sessionId]))
      BY <1>11 DEF CancelStuckRandomness
    <2>2. s.escrowedStake \in Nat
      BY <2>1, LoadedSession DEF Session
    <2> QED
      BY <1>6, <2>1, <2>2
  <1>12. \/ UNCHANGED balance
         \/ \E to \in Accounts, amount \in MintAmounts : Mint(to, amount)
         \/ \E from \in Players, to \in Accounts, amount \in TransferAmounts :
                Transfer(from, to, amount)
         \/ \E player \in Players, game \in Games, wager \in Wagers, quote \in Quotes,
                operator \in Operators \cup {Deployer}, r \in StepResults :
                OpenSession(player, game, wager, quote, operator, r)
         \/ \E player \in Players, s \in advanced, r \in StepResults :
                SubmitAction(player, s, r)
         \/ \E s \in requests, r \in StepResults : OnRandomnessFulfilled(s, r)
         \/ \E s \in advanced, quote \in ForfeitQuotes : ForfeitExpiredSession(s, quote)
         \/ \E s \in advanced : CancelStuckRandomness(s)
    BY DEF Next, vars, tokenVars, Approve, RegisterGame, SetOperator, SetDefaultOperator,
           RandomnessCallbackReverts, Mine
  <1> QED
    BY <1>2, <1>3, <1>4, <1>7, <1>8, <1>9, <1>10, <1>11, <1>12

\* A player's tokens leave only in the player's own transactions, and an open
\* session takes more of them only by the player's own action in time.
THEOREM PlayerConsents == Spec => OnlyThePlayerPays
  <1>1. IndInv /\ [Next]_vars =>
            [/\ \A p \in Players : balance'[p] < balance[p] => caller' = p
             /\ \A sid \in SessionIds :
                   /\ flows'[sid].fromPlayer > flows[sid].fromPlayer
                   /\ IsOpen(sid)
                   => /\ commitments[sid].phase = "WAITING_PLAYER_ACTION"
                      /\ block <= commitments[sid].deadlineBlock
                      /\ caller' = commitments[sid].player]_vars
    BY OwnActionPays, OwnTransactionPays
  <1> QED
    BY <1>1, HostInvariant, PTL DEF Spec, OnlyThePlayerPays

-----------------------------------------------------------------------------
(***************************************************************************)
(* The events of a session                                                 *)
(***************************************************************************)

\* A step of session s that goes on: t is its next snapshot, and the only one
\* that is new.
Emits(s, t) ==
    /\ t.sessionId = s.sessionId
    /\ t.step = s.step + 1
    /\ commitments' = [commitments EXCEPT ![s.sessionId] = t]
    /\ advanced' = advanced \cup {t}
    /\ requests' \subseteq requests \cup {t}

\* A step of session sid that ends it, or one that is about no session.
Closes(sid) ==
    /\ commitments' = [commitments EXCEPT ![sid] = NoCommitment]
    /\ advanced' = advanced
    /\ requests' \subseteq requests
NoEvent ==
    /\ commitments' = commitments
    /\ advanced' = advanced
    /\ requests' \subseteq requests

\* _processStepResult emits one snapshot, one step further, or closes.
LEMMA StepEmits ==
    ASSUME NEW s \in [sessionId : SessionIds, player : Players, game : Games,
                      operator : Operators \cup {Deployer},
                      escrowedStake : Nat, reservedProfit : Nat,
                      maxEscrowStake : Nat, maxReservedProfit : Nat,
                      deadlineBlock : Nat, step : Nat, phase : Phases],
           NEW r, NEW allow, NEW m, NEW unanswered, unanswered \subseteq requests,
           ProcessStepResult(s, r, allow, m, unanswered)
    PROVE  Closes(s.sessionId) \/ \E t : Emits(s, t)
  <1> DEFINE next == Stepped(s, r)
             waiting(timeout) == Waiting(next, r.nextPhase, block + timeout)
  <1>1. next.sessionId = s.sessionId /\ next.step = s.step + 1
    BY DEF Stepped
  <1>2. ASSUME NEW timeout
        PROVE  /\ waiting(timeout).sessionId = s.sessionId
               /\ waiting(timeout).step = s.step + 1
    BY DEF Stepped, Waiting
  <1>3. \/ \E timeout : /\ Commit(waiting(timeout))
                        /\ requests' \subseteq unanswered \cup {waiting(timeout)}
        \/ /\ FinalizeSession(next, r.nextPhase, r.payout, StepMoney(s, r, m))
           /\ requests' = unanswered
    BY DEF ProcessStepResult
  <1> HIDE DEF next, waiting
  <1>4. ASSUME NEW timeout, Commit(waiting(timeout)),
               requests' \subseteq unanswered \cup {waiting(timeout)}
        PROVE  Emits(s, waiting(timeout))
    BY <1>2, <1>4 DEF Commit, Emits
  <1>5. ASSUME FinalizeSession(next, r.nextPhase, r.payout, StepMoney(s, r, m)),
               requests' = unanswered
        PROVE  Closes(s.sessionId)
    BY <1>1, <1>5 DEF FinalizeSession, Closes
  <1> QED
    BY <1>3, <1>4, <1>5

\* What a transaction does to the events.
LEMMA NextEmits ==
    ASSUME IndInv, [Next]_vars
    PROVE  \/ NoEvent /\ currentSessionId' = currentSessionId
           \/ \E s \in Session :
                /\ \/ s.sessionId = currentSessionId + 1 /\ s.step = 0
                      /\ currentSessionId' = currentSessionId + 1
                   \/ commitments[s.sessionId] = s /\ s \in advanced
                      /\ currentSessionId' = currentSessionId
                /\ Closes(s.sessionId) \/ \E t : Emits(s, t)
  <1>1. CASE UNCHANGED <<commitments, advanced, requests, currentSessionId>>
    BY <1>1 DEF NoEvent
  <1>2. ASSUME NEW player \in Players, NEW game \in Games, NEW wager \in Wagers,
               NEW quote \in Quotes, NEW operator \in Operators \cup {Deployer},
               NEW r \in StepResults, OpenSession(player, game, wager, quote, operator, r)
        PROVE  \E s \in Session :
                /\ s.sessionId = currentSessionId + 1 /\ s.step = 0
                /\ currentSessionId' = currentSessionId + 1
                /\ Closes(s.sessionId) \/ \E t : Emits(s, t)
    <2> DEFINE session == [sessionId |-> currentSessionId + 1,
                           player |-> player, game |-> game,
                           operator |-> ResolveOperator(operator),
                           escrowedStake |-> wager, reservedProfit |-> 0,
                           maxEscrowStake |-> quote.maxEscrowStake,
                           maxReservedProfit |-> quote.maxReservedProfit,
                           deadlineBlock |-> 0, step |-> 0, phase |-> "NONE"]
    <2>1. /\ currentSessionId < MaxSessions
          /\ currentSessionId' = currentSessionId + 1
          /\ \E m : ProcessStepResult(session, r, TRUE, m, requests)
      BY <1>2 DEF OpenSession
    <2>2. session \in Session
      <3>1. currentSessionId + 1 \in SessionIds
        BY <2>1, BoundsAssumption DEF IndInv, TypeOK, SessionIds
      <3>2. ResolveOperator(operator) \in Operators \cup {Deployer}
        BY DEF ResolveOperator, IndInv, TypeOK
      <3>3. wager \in Nat /\ quote.maxEscrowStake \in Nat /\ quote.maxReservedProfit \in Nat
        BY InputsAssumption DEF Quote
      <3> QED
        BY <3>1, <3>2, <3>3 DEF Session, Phases
    <2>3. session.sessionId = currentSessionId + 1 /\ session.step = 0
      OBVIOUS
    <2> HIDE DEF session
    <2>4. Closes(session.sessionId) \/ \E t : Emits(session, t)
      BY <2>1, <2>2, StepEmits DEF Session
    <2> QED
      BY <2>1, <2>2, <2>3, <2>4
  <1>3. ASSUME NEW s \in advanced, Loads(s), currentSessionId' = currentSessionId,
               NEW r, NEW allow, NEW m, NEW unanswered, unanswered \subseteq requests,
               ProcessStepResult(s, r, allow, m, unanswered)
        PROVE  /\ s \in Session /\ commitments[s.sessionId] = s /\ s \in advanced
               /\ currentSessionId' = currentSessionId
               /\ Closes(s.sessionId) \/ \E t : Emits(s, t)
    <2>1. s \in Session
      BY DEF IndInv, TypeOK
    <2> QED
      BY <1>3, <2>1, StepEmits DEF Session, Loads
  <1>4. ASSUME NEW s \in advanced, Loads(s), currentSessionId' = currentSessionId,
               requests' = requests, NEW phase, NEW payout, NEW m,
               FinalizeSession(s, phase, payout, m)
        PROVE  /\ s \in Session /\ commitments[s.sessionId] = s /\ s \in advanced
               /\ currentSessionId' = currentSessionId
               /\ Closes(s.sessionId)
    BY <1>4 DEF FinalizeSession, Closes, Loads, IndInv, TypeOK
  <1>5. ASSUME NEW player \in Players, NEW s \in advanced, NEW r \in StepResults,
               SubmitAction(player, s, r)
        PROVE  /\ s \in Session /\ commitments[s.sessionId] = s /\ s \in advanced
               /\ currentSessionId' = currentSessionId
               /\ Closes(s.sessionId) \/ \E t : Emits(s, t)
    BY <1>3, <1>5 DEF SubmitAction, chainVars
  <1>6. ASSUME NEW s \in requests, NEW r \in StepResults, OnRandomnessFulfilled(s, r)
        PROVE  /\ s \in Session /\ commitments[s.sessionId] = s /\ s \in advanced
               /\ currentSessionId' = currentSessionId
               /\ Closes(s.sessionId) \/ \E t : Emits(s, t)
    <2>1. requests \ {s} \subseteq requests
      OBVIOUS
    <2> QED
      BY <1>3, <1>6, <2>1 DEF OnRandomnessFulfilled, chainVars, Loads
  <1>7. ASSUME NEW s \in requests, RandomnessCallbackReverts(s)
        PROVE  NoEvent /\ currentSessionId' = currentSessionId
    BY <1>7 DEF RandomnessCallbackReverts, NoEvent, chainVars
  <1>8. ASSUME NEW s \in advanced, NEW quote \in ForfeitQuotes, ForfeitExpiredSession(s, quote)
        PROVE  /\ s \in Session /\ commitments[s.sessionId] = s /\ s \in advanced
               /\ currentSessionId' = currentSessionId
               /\ Closes(s.sessionId)
    BY <1>4, <1>8 DEF ForfeitExpiredSession, chainVars
  <1>9. ASSUME NEW s \in advanced, CancelStuckRandomness(s)
        PROVE  /\ s \in Session /\ commitments[s.sessionId] = s /\ s \in advanced
               /\ currentSessionId' = currentSessionId
               /\ Closes(s.sessionId)
    BY <1>4, <1>9 DEF CancelStuckRandomness, chainVars
  <1>10. CASE UNCHANGED vars
    BY <1>1, <1>10 DEF vars, chainVars, sessionVars
  <1>11. ASSUME \/ \E to \in Accounts, amount \in MintAmounts : Mint(to, amount)
                \/ \E player \in Players, amount \in ApproveAmounts : Approve(player, amount)
                \/ \E from \in Players, to \in Accounts, amount \in TransferAmounts :
                       Transfer(from, to, amount)
                \/ \E game \in Games, named \in BOOLEAN : RegisterGame(game, named)
                \/ \E operator \in Operators, registered \in BOOLEAN :
                       SetOperator(operator, registered)
                \/ \E operator \in Operators : SetDefaultOperator(operator)
                \/ Mine
         PROVE  UNCHANGED <<commitments, advanced, requests, currentSessionId>>
    BY <1>11 DEF Mint, Approve, Transfer, RegisterGame, SetOperator, SetDefaultOperator, Mine,
                 chainVars, sessionVars
  <1> QED
    BY <1>1, <1>2, <1>5, <1>6, <1>7, <1>8, <1>9, <1>10, <1>11 DEF Next

\* StepsWithoutGap is not inductive: it does not say that a session that is
\* yet to be opened has emitted nothing, nor where requests come from.
EventInv ==
    /\ StepsWithoutGap
    /\ \A s \in advanced : s.sessionId <= currentSessionId
    /\ requests \subseteq advanced

\* Every step keeps what is known of the events.
LEMMA EventInvKept ==
    ASSUME IndInv, IndInv', EventInv, [Next]_vars
    PROVE  EventInv'
  <1>1. /\ advanced \subseteq Session /\ advanced' \subseteq Session
        /\ currentSessionId \in Nat /\ currentSessionId' \in Nat
        /\ DOMAIN commitments = SessionIds
        /\ \A s \in Session : s.step \in Nat /\ s.sessionId \in SessionIds
        /\ SessionIds \subseteq Nat
    BY SMTT(60), BoundsAssumption DEF IndInv, TypeOK, Session, SessionIds
  <1>2. CASE NoEvent /\ currentSessionId' = currentSessionId
    BY <1>2 DEF NoEvent, EventInv, StepsWithoutGap, IsOpen
  <1>3. ASSUME NEW s \in Session, Closes(s.sessionId), currentSessionId' >= currentSessionId
        PROVE  EventInv'
    <2>1. StepsWithoutGap'
      BY <1>1, <1>3 DEF Closes, EventInv, StepsWithoutGap, IsOpen
    <2>2. \A t \in advanced' : t.sessionId <= currentSessionId'
      <3> SUFFICES ASSUME NEW t \in advanced' PROVE t.sessionId <= currentSessionId'
        OBVIOUS
      <3>1. t \in advanced /\ t.sessionId \in Nat /\ t.sessionId <= currentSessionId
        BY <1>1, <1>3 DEF Closes, EventInv
      <3> QED
        BY <1>1, <1>3, <3>1
    <2>3. (requests \subseteq advanced)'
      BY <1>3 DEF Closes, EventInv
    <2> QED
      BY <2>1, <2>2, <2>3 DEF EventInv
  <1>4. ASSUME NEW s \in Session, NEW t, Emits(s, t),
               \/ s.sessionId = currentSessionId + 1 /\ s.step = 0
                  /\ currentSessionId' = currentSessionId + 1
               \/ commitments[s.sessionId] = s /\ s \in advanced
                  /\ currentSessionId' = currentSessionId
        PROVE  EventInv'
    <2>1. /\ t \in advanced' /\ t \in Session
          /\ t.sessionId = s.sessionId /\ t.step = s.step + 1
          /\ commitments' = [commitments EXCEPT ![s.sessionId] = t]
          /\ advanced' = advanced \cup {t} /\ requests' \subseteq requests \cup {t}
      BY <1>1, <1>4 DEF Emits
    \* The last step of the session so far is that of s.
    <2>2. \A u \in advanced : u.sessionId = s.sessionId => u.step <= s.step
      <3>1. CASE s.sessionId = currentSessionId + 1
        BY <1>1, <3>1 DEF EventInv
      <3>2. CASE commitments[s.sessionId] = s /\ s \in advanced
        <4>1. IsOpen(s.sessionId)
          BY <3>2, NoCommitmentAssumption DEF IsOpen
        <4> QED
          BY <1>1, <3>2, <4>1 DEF EventInv, StepsWithoutGap
      <3> QED
        BY <1>4, <3>1, <3>2
    \* All steps up to it were emitted.
    <2>3. \A k \in 1..s.step : \E u \in advanced : u.sessionId = s.sessionId /\ u.step = k
      <3>1. CASE s.step = 0
        BY <3>1
      <3>2. CASE s \in advanced
        BY <1>1, <3>2 DEF EventInv, StepsWithoutGap
      <3> QED
        BY <1>4, <3>1, <3>2
    <2>4. StepsWithoutGap'
      <3> SUFFICES ASSUME NEW sid \in SessionIds
                   PROVE  LET emitted == {u \in advanced' : u.sessionId = sid} IN
                          /\ \A u, v \in emitted : u.step = v.step => u = v
                          /\ \A u \in emitted : \A k \in 1..u.step :
                               \E v \in emitted : v.step = k
                          /\ IsOpen(sid)' =>
                               /\ commitments'[sid] \in emitted
                               /\ \A u \in emitted : u.step <= commitments'[sid].step
        BY DEF StepsWithoutGap
      <3>1. CASE sid # s.sessionId
        <4>1. {u \in advanced' : u.sessionId = sid} = {u \in advanced : u.sessionId = sid}
          BY <2>1, <3>1
        <4>2. commitments'[sid] = commitments[sid]
          BY <1>1, <2>1, <3>1
        <4>3. IsOpen(sid)' <=> IsOpen(sid)
          BY <4>2 DEF IsOpen
        <4> QED
          BY <4>1, <4>2, <4>3 DEF EventInv, StepsWithoutGap
      <3>2. CASE sid = s.sessionId
        <4>1. ASSUME NEW u \in advanced', u.sessionId = sid,
                     NEW v \in advanced', v.sessionId = sid, u.step = v.step
              PROVE  u = v
          <5>1. u \in advanced => u.step < t.step
            BY <1>1, <2>1, <2>2, <3>2, <4>1
          <5>2. v \in advanced => v.step < t.step
            BY <1>1, <2>1, <2>2, <3>2, <4>1
          <5>3. CASE u = t \/ v = t
            BY <1>1, <2>1, <4>1, <5>1, <5>2, <5>3
          <5>4. CASE u \in advanced /\ v \in advanced
            BY <4>1, <5>4 DEF EventInv, StepsWithoutGap
          <5> QED
            BY <2>1, <5>3, <5>4
        <4>2. ASSUME NEW u \in advanced', u.sessionId = sid, NEW k \in 1..u.step
              PROVE  \E v \in advanced' : v.sessionId = sid /\ v.step = k
          <5>1. CASE u \in advanced
            BY <2>1, <4>2, <5>1 DEF EventInv, StepsWithoutGap
          <5>2. CASE u = t /\ k = t.step
            BY <2>1, <3>2, <5>2
          <5>3. CASE u = t /\ k # t.step
            <6>1. k \in 1..s.step
              BY <1>1, <2>1, <4>2, <5>3
            <6> QED
              BY <2>1, <2>3, <3>2, <6>1
          <5> QED
            BY <2>1, <5>1, <5>2, <5>3
        <4>3. commitments'[sid] = t
          BY <1>1, <2>1, <3>2
        <4>4. \A u \in advanced' : u.sessionId = sid => u.step <= t.step
          BY <1>1, <2>1, <2>2, <3>2
        <4> QED
          BY <2>1, <3>2, <4>1, <4>2, <4>3, <4>4
      <3> QED
        BY <3>1, <3>2
    <2>5. \A u \in advanced' : u.sessionId <= currentSessionId'
      <3> SUFFICES ASSUME NEW u \in advanced' PROVE u.sessionId <= currentSessionId'
        OBVIOUS
      <3>1. CASE u \in advanced
        <4>1. u.sessionId \in Nat /\ u.sessionId <= currentSessionId
          BY <1>1, <3>1 DEF EventInv
        <4> QED
          BY <1>1, <1>4, <4>1
      <3>2. CASE u = t
        BY <1>1, <1>4, <2>1, <3>2 DEF EventInv
      <3> QED
        BY <2>1, <3>1, <3>2
    <2>6. (requests \subseteq advanced)'
      BY <2>1 DEF EventInv
    <2> QED
      BY <2>4, <2>5, <2>6 DEF EventInv
  <1> QED
    BY <1>1, <1>2, <1>3, <1>4, NextEmits

\* What is known of the events always holds.
LEMMA EventInvariant == Spec => []EventInv
  <1>1. Init => EventInv
    BY DEF Init, EventInv, StepsWithoutGap, IsOpen
  <1>2. IndInv /\ IndInv' /\ EventInv /\ [Next]_vars => EventInv'
    BY EventInvKept
  <1> QED
    BY <1>1, <1>2, HostInvariant, PTL DEF Spec

\* The snapshots of a session are numbered 1, 2, 3, ... and the commitment is
\* to the last of them.
THEOREM EventsAreNumbered == Spec => []StepsWithoutGap
  BY EventInvariant, PTL DEF EventInv

\* A request that can still be answered was made by the session's last step.
THEOREM AnswersAreCurrent == Spec => []RequestOfLastStep
  <1>1. IndInv /\ EventInv => RequestOfLastStep
    <2> SUFFICES ASSUME IndInv, EventInv, NEW s \in requests, Loads(s),
                        NEW t \in requests, t.sessionId = s.sessionId
                 PROVE  t.step <= s.step
      BY DEF RequestOfLastStep
    <2>1. /\ s \in Session /\ t \in advanced /\ s.sessionId \in SessionIds
          /\ commitments[s.sessionId] = s
      BY DEF EventInv, IndInv, TypeOK, Session, Loads
    <2>2. IsOpen(s.sessionId)
      BY <2>1, NoCommitmentAssumption DEF IsOpen
    <2> QED
      BY <2>1, <2>2 DEF EventInv, StepsWithoutGap
  <1> QED
    BY <1>1, HostInvariant, EventInvariant, PTL

-----------------------------------------------------------------------------
(***************************************************************************)
(* What the host logs in one transaction: the chain HostSnapshot assumes   *)
(***************************************************************************)

\* A step of session sid that leaves it waiting: one snapshot is logged, and a
\* request if it waits for a word.  `left` are the requests still unanswered.
LogsAdvance(sid, step, left) ==
    \E t \in advanced' :
        /\ t.sessionId = sid
        /\ t.step = step
        /\ t.phase \in OpenPhases
        /\ advanced' = advanced \cup {t}
        /\ settlements' = settlements
        /\ requests' = IF t.phase = "WAITING_RANDOMNESS" THEN left \cup {t} ELSE left

\* The first and only settlement of session sid is logged.
LogsEnd(sid, phase, left) ==
    /\ settlements' = [settlements EXCEPT ![sid] = settlements'[sid]]
    /\ Len(settlements'[sid]) = 1
    /\ settlements'[sid][1].phase = phase
    /\ advanced' = advanced
    /\ requests' = left

LogsStep(sid, step, left) ==
    \/ LogsAdvance(sid, step, left)
    \/ \E phase \in Phases : IsTerminalPhase(phase) /\ LogsEnd(sid, phase, left)

\* openSession takes a new id, that has no log, and its step is the first one.
LogsOpening(sid) ==
    /\ sid = currentSessionId + 1
    /\ settlements[sid] = <<>>
    /\ \A t \in advanced : t.sessionId # sid
    /\ LogsStep(sid, 1, requests)

\* s is the last log of its session.
LastLog(s) ==
    /\ s \in advanced
    /\ \A t \in advanced : t.sessionId = s.sessionId => t.step <= s.step
    /\ settlements[s.sessionId] = <<>>

\* An action of the player, or the end of a player who let the time run out.
LogsTurn(s) ==
    /\ LastLog(s)
    /\ s.phase = "WAITING_PLAYER_ACTION"
    /\ \/ LogsStep(s.sessionId, s.step + 1, requests)
       \/ LogsEnd(s.sessionId, "FORFEITED", requests)

\* The answer to the request of the session's last step, or the end of a
\* session whose word has not come in time.
LogsWord(s) ==
    /\ LastLog(s)
    /\ s.phase = "WAITING_RANDOMNESS"
    /\ \/ s \in requests /\ LogsStep(s.sessionId, s.step + 1, requests \ {s})
       \/ LogsEnd(s.sessionId, "CANCELLED", requests)

\* A transaction logs nothing, or it opens a session and logs its first step,
\* or it appends one log to the session of its last snapshot: the step after
\* it, which answers its request if it made one, or a forfeit or a cancel.
\* A settlement is the last log of a session.  HostSnapshot's chain does just
\* this (OpeningLogs, StepLogs), with games that end in SETTLED.
\* Code: the emits of _processStepResult and _finalizeSession, and the phase
\* checks of the five functions that lead to them.
OneLogATime ==
    [][\/ UNCHANGED <<advanced, settlements>>
       \/ \E sid \in SessionIds : LogsOpening(sid)
       \/ \E s \in advanced : LogsTurn(s) \/ LogsWord(s)]_vars

\* _finalizeSession logs one settlement.
LEMMA FinalizeLogsEnd ==
    ASSUME DOMAIN settlements = SessionIds,
           NEW s, s.sessionId \in SessionIds, settlements[s.sessionId] = <<>>,
           NEW phase, NEW payout, NEW m, NEW left,
           FinalizeSession(s, phase, payout, m), requests' = left
    PROVE  LogsEnd(s.sessionId, phase, left)
  <1>1. /\ settlements' = [settlements EXCEPT ![s.sessionId] =
                              Append(@, [phase |-> phase, payout |-> payout])]
        /\ advanced' = advanced
    BY DEF FinalizeSession
  <1>2. settlements'[s.sessionId] = <<[phase |-> phase, payout |-> payout]>>
    <2>1. Append(<<>>, [phase |-> phase, payout |-> payout])
              = <<[phase |-> phase, payout |-> payout]>>
      OBVIOUS
    <2> QED
      BY <1>1, <2>1
  <1>3. /\ Len(settlements'[s.sessionId]) = 1
        /\ settlements'[s.sessionId][1].phase = phase
    BY <1>2
  <1>4. settlements' = [settlements EXCEPT ![s.sessionId] = settlements'[s.sessionId]]
    BY <1>1
  <1> QED
    BY <1>1, <1>3, <1>4 DEF LogsEnd

\* _processStepResult logs one step.
LEMMA ResultLogsStep ==
    ASSUME DOMAIN settlements = SessionIds,
           NEW s \in Session, settlements[s.sessionId] = <<>>,
           NEW r \in StepResults, NEW allow, NEW m, NEW left,
           ProcessStepResult(s, r, allow, m, left)
    PROVE  LogsStep(s.sessionId, s.step + 1, left)
  <1> DEFINE next == Stepped(s, r)
             waiting(timeout) == Waiting(next, r.nextPhase, block + timeout)
  <1>1. next.sessionId = s.sessionId /\ next.step = s.step + 1
    BY DEF Stepped, Session
  <1>2. ASSUME NEW timeout
        PROVE  /\ waiting(timeout).sessionId = s.sessionId
               /\ waiting(timeout).step = s.step + 1
               /\ waiting(timeout).phase = r.nextPhase
    BY DEF Stepped, Waiting, Session
  <1>3. s.sessionId \in SessionIds /\ r.nextPhase \in Phases
    BY InputsAssumption DEF Session, StepResult
  <1>4. \/ /\ r.nextPhase = "WAITING_RANDOMNESS"
           /\ Commit(waiting(RandomnessTimeout))
           /\ requests' = left \cup {waiting(RandomnessTimeout)}
        \/ /\ r.nextPhase = "WAITING_PLAYER_ACTION"
           /\ Commit(waiting(ActionTimeout))
           /\ requests' = left
        \/ /\ IsTerminalPhase(r.nextPhase)
           /\ requests' = left
           /\ FinalizeSession(next, r.nextPhase, r.payout, StepMoney(s, r, m))
    BY DEF ProcessStepResult
  <1> HIDE DEF next, waiting
  <1>5. ASSUME NEW timeout, Commit(waiting(timeout)), r.nextPhase \in OpenPhases,
               requests' = IF r.nextPhase = "WAITING_RANDOMNESS"
                           THEN left \cup {waiting(timeout)} ELSE left
        PROVE  LogsAdvance(s.sessionId, s.step + 1, left)
    <2>1. /\ advanced' = advanced \cup {waiting(timeout)}
          /\ settlements' = settlements
      BY <1>5 DEF Commit
    <2> QED
      BY <1>2, <1>5, <2>1 DEF LogsAdvance
  <1>6. CASE r.nextPhase = "WAITING_RANDOMNESS"
    BY <1>4, <1>5, <1>6 DEF OpenPhases, IsTerminalPhase, LogsStep
  <1>7. CASE r.nextPhase = "WAITING_PLAYER_ACTION"
    BY <1>4, <1>5, <1>7 DEF OpenPhases, IsTerminalPhase, LogsStep
  <1>8. CASE /\ IsTerminalPhase(r.nextPhase)
             /\ requests' = left
             /\ FinalizeSession(next, r.nextPhase, r.payout, StepMoney(s, r, m))
    BY <1>1, <1>3, <1>8, FinalizeLogsEnd DEF LogsStep
  <1> QED
    BY <1>4, <1>6, <1>7, <1>8

\* The snapshot the host has a commitment to is the last log of its session.
LEMMA LoadedIsLast ==
    ASSUME IndInv, EventInv, NEW s, Loads(s)
    PROVE  s \in Session /\ LastLog(s)
  <1>1. /\ s \in Session /\ s.sessionId \in SessionIds
        /\ commitments[s.sessionId] = s /\ s \in advanced
    BY DEF IndInv, TypeOK, Session, Loads
  <1>2. IsOpen(s.sessionId)
    BY <1>1, NoCommitmentAssumption DEF IsOpen
  <1>3. settlements[s.sessionId] = <<>>
    BY <1>1, LoadedSession
  <1> QED
    BY <1>1, <1>2, <1>3 DEF EventInv, StepsWithoutGap, LastLog

\* An id not given out yet has no log.
LEMMA NewIdHasNoLog ==
    ASSUME IndInv, EventInv, currentSessionId < MaxSessions
    PROVE  /\ currentSessionId + 1 \in SessionIds
           /\ settlements[currentSessionId + 1] = <<>>
           /\ \A t \in advanced : t.sessionId # currentSessionId + 1
  <1>1. /\ currentSessionId \in Nat
        /\ currentSessionId + 1 \in SessionIds
    BY BoundsAssumption DEF IndInv, TypeOK, SessionIds
  <1>2. settlements[currentSessionId + 1] = <<>>
    BY <1>1 DEF IndInv, SessionInv
  <1>3. ASSUME NEW t \in advanced
        PROVE  t.sessionId # currentSessionId + 1
    BY <1>1, <1>3 DEF EventInv
  <1> QED
    BY <1>1, <1>2, <1>3

\* No transaction logs more than one step, nor any other.
THEOREM LogsComeOneByOne == Spec => OneLogATime
  <1> DEFINE OneLog == \/ UNCHANGED <<advanced, settlements>>
                       \/ \E sid \in SessionIds : LogsOpening(sid)
                       \/ \E s \in advanced : LogsTurn(s) \/ LogsWord(s)
  <1>1. ASSUME IndInv, IndInv', EventInv, [Next]_vars
        PROVE  OneLog
    <2>1. DOMAIN settlements = SessionIds
      BY <1>1 DEF IndInv, TypeOK
    <2>2. ASSUME NEW s, Loads(s)
          PROVE  /\ s \in Session /\ s.sessionId \in SessionIds /\ s \in advanced
                 /\ LastLog(s) /\ settlements[s.sessionId] = <<>>
      BY <1>1, <2>2, LoadedIsLast DEF LastLog, Session
    <2>3. ASSUME NEW player \in Players, NEW game \in Games, NEW wager \in Wagers,
                 NEW quote \in Quotes, NEW operator \in Operators \cup {Deployer},
                 NEW r \in StepResults, OpenSession(player, game, wager, quote, operator, r)
          PROVE  LogsOpening(currentSessionId + 1) /\ currentSessionId + 1 \in SessionIds
      <3> DEFINE session == [sessionId |-> currentSessionId + 1,
                             player |-> player, game |-> game,
                             operator |-> ResolveOperator(operator),
                             escrowedStake |-> wager, reservedProfit |-> 0,
                             maxEscrowStake |-> quote.maxEscrowStake,
                             maxReservedProfit |-> quote.maxReservedProfit,
                             deadlineBlock |-> 0, step |-> 0, phase |-> "NONE"]
      <3>1. /\ currentSessionId < MaxSessions
            /\ \E m : ProcessStepResult(session, r, TRUE, m, requests)
        BY <2>3 DEF OpenSession
      <3>2. /\ currentSessionId + 1 \in SessionIds
            /\ settlements[currentSessionId + 1] = <<>>
            /\ \A t \in advanced : t.sessionId # currentSessionId + 1
        BY <1>1, <3>1, NewIdHasNoLog
      <3>3. session \in Session
        <4>1. ResolveOperator(operator) \in Operators \cup {Deployer}
          BY <1>1 DEF ResolveOperator, IndInv, TypeOK
        <4>2. wager \in Nat /\ quote.maxEscrowStake \in Nat /\ quote.maxReservedProfit \in Nat
          BY InputsAssumption DEF Quote
        <4> QED
          BY <3>2, <4>1, <4>2 DEF Session, Phases
      <3>4. session.sessionId = currentSessionId + 1 /\ session.step + 1 = 1
        OBVIOUS
      <3> HIDE DEF session
      <3>5. LogsStep(session.sessionId, session.step + 1, requests)
        BY <2>1, <3>1, <3>2, <3>3, <3>4, ResultLogsStep
      <3> QED
        BY <3>2, <3>4, <3>5 DEF LogsOpening
    <2>4. ASSUME NEW player \in Players, NEW s \in advanced, NEW r \in StepResults,
                 SubmitAction(player, s, r)
          PROVE  s \in advanced /\ LogsTurn(s)
      <3>1. /\ Loads(s) /\ s.phase = "WAITING_PLAYER_ACTION"
            /\ ProcessStepResult(s, r, TRUE, Money(flows[s.sessionId]), requests)
        BY <2>4 DEF SubmitAction
      <3>2. LogsStep(s.sessionId, s.step + 1, requests)
        BY <2>1, <2>2, <3>1, ResultLogsStep
      <3> QED
        BY <2>2, <3>1, <3>2 DEF LogsTurn
    <2>5. ASSUME NEW s \in requests, NEW r \in StepResults, OnRandomnessFulfilled(s, r)
          PROVE  s \in advanced /\ LogsWord(s)
      <3>1. /\ Loads(s) /\ s.phase = "WAITING_RANDOMNESS"
            /\ ProcessStepResult(s, r, FALSE, Money(flows[s.sessionId]), requests \ {s})
        BY <2>5 DEF OnRandomnessFulfilled
      <3>2. LogsStep(s.sessionId, s.step + 1, requests \ {s})
        BY <2>1, <2>2, <3>1, ResultLogsStep
      <3> QED
        BY <2>2, <3>1, <3>2 DEF LogsWord
    <2>6. ASSUME NEW s \in advanced, NEW quote \in ForfeitQuotes, ForfeitExpiredSession(s, quote)
          PROVE  s \in advanced /\ LogsTurn(s)
      <3>1. /\ Loads(s) /\ s.phase = "WAITING_PLAYER_ACTION" /\ requests' = requests
            /\ FinalizeSession(s, "FORFEITED", ForfeitPayout(s, quote),
                               Money(flows[s.sessionId]))
        BY <2>6 DEF ForfeitExpiredSession
      <3>2. LogsEnd(s.sessionId, "FORFEITED", requests)
        BY <2>1, <2>2, <3>1, FinalizeLogsEnd
      <3> QED
        BY <2>2, <3>1, <3>2 DEF LogsTurn
    <2>7. ASSUME NEW s \in advanced, CancelStuckRandomness(s)
          PROVE  s \in advanced /\ LogsWord(s)
      <3>1. /\ Loads(s) /\ s.phase = "WAITING_RANDOMNESS" /\ requests' = requests
            /\ FinalizeSession(s, "CANCELLED", s.escrowedStake, Money(flows[s.sessionId]))
        BY <2>7 DEF CancelStuckRandomness
      <3>2. LogsEnd(s.sessionId, "CANCELLED", requests)
        BY <2>1, <2>2, <3>1, FinalizeLogsEnd
      <3> QED
        BY <2>2, <3>1, <3>2 DEF LogsWord
    <2>8. ASSUME NEW s \in requests, RandomnessCallbackReverts(s)
          PROVE  UNCHANGED <<advanced, settlements>>
      BY <2>8 DEF RandomnessCallbackReverts
    <2>9. CASE UNCHANGED vars
      BY <2>9 DEF vars, sessionVars
    <2>10. ASSUME \/ \E to \in Accounts, amount \in MintAmounts : Mint(to, amount)
                  \/ \E player \in Players, amount \in ApproveAmounts : Approve(player, amount)
                  \/ \E from \in Players, to \in Accounts, amount \in TransferAmounts :
                         Transfer(from, to, amount)
                  \/ \E game \in Games, named \in BOOLEAN : RegisterGame(game, named)
                  \/ \E operator \in Operators, registered \in BOOLEAN :
                         SetOperator(operator, registered)
                  \/ \E operator \in Operators : SetDefaultOperator(operator)
                  \/ Mine
           PROVE  UNCHANGED <<advanced, settlements>>
      BY <2>10 DEF Mint, Approve, Transfer, RegisterGame, SetOperator, SetDefaultOperator,
                   Mine, sessionVars
    <2> QED
      BY <1>1, <2>3, <2>4, <2>5, <2>6, <2>7, <2>8, <2>9, <2>10 DEF Next
  <1> QED
    BY <1>1, HostInvariant, EventInvariant, PTL DEF Spec, OneLogATime

-----------------------------------------------------------------------------
(***************************************************************************)
(* The host implements the abstract escrow.                                *)
(***************************************************************************)

\* A session whose commitment, settlements and flow stay has the same box.
LEMMA UntouchedBox ==
    ASSUME NEW sid, Untouched(sid)
    PROVE  Box(sid)' = Box(sid)
  BY DEF Untouched, Box, IsOpen, IsClosed

\* A box's status, by the session's id.
LEMMA BoxStatus ==
    ASSUME IndInv, NEW sid \in SessionIds
    PROVE  /\ sid > currentSessionId => Box(sid).status = "unused"
           /\ sid <= currentSessionId => Box(sid).status \in {"open", "closed"}
  <1>1. SessionInv(sid)
    BY DEF IndInv
  <1>2. CASE sid > currentSessionId
    BY <1>1, <1>2, BoundsAssumption
       DEF SessionInv, Box, IsOpen, IsClosed, IndInv, TypeOK, SessionIds
  <1>3. CASE sid <= currentSessionId
    <2>1. IsOpen(sid) \/ IsClosed(sid)
      BY <1>1, <1>3 DEF SessionInv, IsClosed
    <2>2. ~(sid > currentSessionId)
      BY <1>3, BoundsAssumption DEF IndInv, TypeOK, SessionIds
    <2> QED
      BY <2>1, <2>2 DEF Box
  <1> QED
    BY <1>2, <1>3, BoundsAssumption DEF IndInv, TypeOK, SessionIds

\* After a step about session s its box is within its limits.
LEMMA HandledBox ==
    ASSUME NEW s \in Session, Handled(s)
    PROVE  /\ Escrow!Holding(s.sessionId) \/ Escrow!Emptied(s.sessionId)
           /\ Box(s.sessionId)'.stakeLimit = s.maxEscrowStake
           /\ Box(s.sessionId)'.profitLimit = s.maxReservedProfit
  <1> DEFINE sid == s.sessionId
             c == commitments'[sid]
             f == flows'[sid]
             b == Box(sid)'
  <1>1. sid \in SessionIds /\ f \in Flow
    BY DEF Handled, SessionsTyped, Session
  <1>2. b = [status |-> IF c # NoCommitment THEN "open"
                        ELSE IF settlements'[sid] # <<>> THEN "closed" ELSE "unused",
             stake |-> IF c # NoCommitment THEN c.escrowedStake ELSE 0,
             gain |-> IF settlements'[sid] # <<>> THEN f.toPlayer - f.fromPlayer ELSE 0,
             stakeLimit |-> f.maxEscrowStake,
             profitLimit |-> f.maxReservedProfit]
    BY DEF Box, IsOpen, IsClosed
  <1>3. Boxes'[sid] = b
    BY <1>1 DEF Boxes
  <1>4. /\ f.maxEscrowStake = s.maxEscrowStake
        /\ f.maxReservedProfit = s.maxReservedProfit
    BY DEF Handled, Limits
  <1> HIDE DEF b, f, c
  <1>5. CASE LeftOpen(s)
    <2>1. c \in Session /\ c # NoCommitment /\ OpenInv(sid, c, f)
      BY <1>5, NoCommitmentAssumption DEF LeftOpen, c, f
    <2>2. c.escrowedStake \in 0..f.maxEscrowStake
      BY <1>1, <2>1 DEF OpenInv, WithinCaps, Session, Flow
    <2>3. Escrow!Holding(sid)
      BY <1>2, <1>3, <2>1, <2>2 DEF Escrow!Holding
    <2> QED
      BY <1>2, <1>4, <2>3 DEF b
  <1>6. CASE LeftClosed(s)
    <2>1. /\ c = NoCommitment
          /\ settlements'[sid] # <<>>
          /\ ClosedInv(f)
      BY SMTT(60), <1>6 DEF LeftClosed, c, f
    <2>2. /\ -f.maxEscrowStake <= f.toPlayer - f.fromPlayer
          /\ f.toPlayer - f.fromPlayer <= f.maxReservedProfit
      BY <1>1, <2>1 DEF ClosedInv, Flow
    <2>3. Escrow!Emptied(sid)
      BY <1>2, <1>3, <2>1, <2>2 DEF Escrow!Emptied
    <2> QED
      BY <1>2, <1>4, <2>3 DEF b
  <1> QED
    BY <1>5, <1>6 DEF Handled

\* The other Boxes keep their contents.
LEMMA HandledKeepsOthers ==
    ASSUME NEW s \in Session, Handled(s)
    PROVE  Escrow!OthersKept(s.sessionId)
  <1>1. ASSUME NEW other \in SessionIds \ {s.sessionId}
        PROVE  Boxes'[other] = Boxes[other]
    <2>1. Box(other)' = Box(other)
      BY UntouchedBox DEF Handled
    <2> QED
      BY <2>1 DEF Boxes
  <1> QED
    BY <1>1 DEF Escrow!OthersKept

\* The host refines SessionEscrow: every step of it opens, adjusts or closes
\* one box within the limits of its opening, or touches none.
THEOREM HostImplementsEscrow == Spec => EscrowRefinement
  <1>1. Init => Escrow!Init
    <2> SUFFICES ASSUME Init, NEW sid \in SessionIds
                 PROVE  Boxes[sid].status = "unused"
      BY DEF Escrow!Init
    <2>1. IndInv /\ sid > currentSessionId
      BY InitIndInv, BoundsAssumption DEF Init, SessionIds
    <2> QED
      BY <2>1, BoxStatus DEF Boxes
  <1>2. IndInv /\ IndInv' /\ [Next]_vars => [Escrow!Next]_Boxes
    <2> SUFFICES ASSUME IndInv, IndInv', [Next]_vars
                 PROVE  Escrow!Next \/ Boxes' = Boxes
      OBVIOUS
    <2>1. CASE Quiet
      <3>1. \A sid \in SessionIds : Box(sid)' = Box(sid)
        BY <2>1, UntouchedBox DEF Quiet, Untouched
      <3> QED
        BY <3>1 DEF Boxes
    <2>2. ASSUME NEW s \in Session, Opens(s)
          PROVE  Escrow!Next
      <3> DEFINE sid == s.sessionId
      <3>1. sid \in SessionIds /\ Handled(s)
        BY <2>2 DEF Session, Opens
      <3>2. /\ sid > currentSessionId
            /\ \A other \in SessionIds : other < sid => other <= currentSessionId
        BY <2>2, <3>1, BoundsAssumption DEF Opens, SessionIds, IndInv, TypeOK
      <3>3. /\ Boxes[sid].status = "unused"
            /\ \A other \in SessionIds : other < sid => Boxes[other].status # "unused"
        BY <3>1, <3>2, BoxStatus DEF Boxes
      <3>4. Escrow!Open(sid)
        BY <3>1, <3>3, HandledBox DEF Escrow!Open, Boxes
      <3> QED
        BY <3>1, <3>4, HandledKeepsOthers DEF Escrow!Next
    <2>3. ASSUME NEW s \in Session, Serves(s)
          PROVE  Escrow!Next
      <3> DEFINE sid == s.sessionId
      <3>1. /\ sid \in SessionIds /\ Handled(s)
            /\ commitments[sid] = s /\ s # NoCommitment
        BY <2>3, NoCommitmentAssumption DEF Session, Serves, Loads
      <3>2. Balanced(s, Money(flows[sid]))
        BY <2>3, LoadedSession DEF Serves
      <3>3. /\ Boxes[sid].status = "open"
            /\ Boxes[sid].stakeLimit = s.maxEscrowStake
            /\ Boxes[sid].profitLimit = s.maxReservedProfit
        BY <3>1, <3>2 DEF Boxes, Box, IsOpen, Balanced, Money
      <3>4. Escrow!SameLimits(sid)
        BY <3>1, <3>3, HandledBox DEF Escrow!SameLimits, Boxes
      <3>5. Escrow!Adjust(sid) \/ Escrow!Close(sid)
        BY <3>1, <3>3, <3>4, HandledBox DEF Escrow!Adjust, Escrow!Close
      <3> QED
        BY <3>1, <3>5, HandledKeepsOthers DEF Escrow!Next
    <2> QED
      BY <2>1, <2>2, <2>3, NextHandles
  <1> QED
    BY <1>1, <1>2, HostInvariant, PTL DEF Spec, EscrowRefinement, Escrow!Spec

-----------------------------------------------------------------------------
(***************************************************************************)
(* The pool                                                                *)
(*                                                                         *)
(* The host has one balance for all sessions.  What a transaction takes    *)
(* from it or adds to it is what the flow of the transaction's session     *)
(* records, so the balance is at least the sum of what the flows say the   *)
(* sessions still hold.                                                    *)
(***************************************************************************)

\* What a session that moved f still holds.
Holds(f) == f.fromPlayer + f.fromVault - f.toPlayer - f.toVault

\* From m to n the host's balance changes by what the flow records.
Accounted(m, n) ==
    /\ n \in MoneyType
    /\ n.balance[Host] - Holds(n.flow) = m.balance[Host] - Holds(m.flow)

\* The host's balance after a transfer.
LEMMA MovedHost ==
    ASSUME NEW b \in [Accounts -> Nat], NEW from \in Accounts, NEW to \in Accounts,
           NEW amount \in Nat, from # to
    PROVE  Moved(b, from, to, amount)[Host] =
               IF from = Host THEN b[Host] - amount
               ELSE IF to = Host THEN b[Host] + amount ELSE b[Host]
  BY DEF Moved, Accounts

\* What is pulled from the player is held.
LEMMA PulledAccounted ==
    ASSUME NEW m \in MoneyType, NEW player \in Players, NEW amount \in Nat,
           CanPull(m.balance, m.allowance, player, amount)
    PROVE  Accounted(m, Pulled(m, player, amount))
  <1> DEFINE n == Pulled(m, player, amount)
  <1>1. n \in MoneyType /\ n.flow = Added(m.flow, amount, 0, 0, 0)
    BY PulledType
  <1>2. n.balance[Host] = m.balance[Host] + amount
    <2>1. m.balance \in [Accounts -> Nat] /\ player \in Accounts /\ Host \in Accounts
          /\ player # Host /\ n.balance = Moved(m.balance, player, Host, amount)
      BY PlayersAssumption DEF Pulled, MoneyType, Accounts
    <2> HIDE DEF n
    <2> QED
      BY <2>1, MovedHost
  <1>3. m.balance[Host] \in Nat /\ m.flow \in Flow
    BY DEF MoneyType, Accounts
  <1> HIDE DEF n
  <1>4. Holds(n.flow) = Holds(m.flow) + amount
    BY <1>1, <1>3 DEF Holds, Added, Flow
  <1>5. Holds(m.flow) \in Int
    BY <1>3 DEF Holds, Flow
  <1> QED
    BY <1>1, <1>2, <1>3, <1>4, <1>5 DEF Accounted, n

\* What is refunded to the player was held.
LEMMA RefundedAccounted ==
    ASSUME NEW m \in MoneyType, NEW player \in Players, NEW amount \in Nat,
           amount <= m.balance[Host]
    PROVE  Accounted(m, Refunded(m, player, amount))
  <1> DEFINE n == Refunded(m, player, amount)
  <1>1. n \in MoneyType /\ n.flow = Added(m.flow, 0, amount, 0, 0)
    BY RefundedType
  <1>2. n.balance[Host] = m.balance[Host] - amount
    <2>1. m.balance \in [Accounts -> Nat] /\ player \in Accounts /\ Host \in Accounts
          /\ player # Host /\ n.balance = Moved(m.balance, Host, player, amount)
      BY PlayersAssumption DEF Refunded, MoneyType, Accounts
    <2> HIDE DEF n
    <2> QED
      BY <2>1, MovedHost
  <1>3. m.balance[Host] \in Nat /\ m.flow \in Flow
    BY DEF MoneyType, Accounts
  <1> HIDE DEF n
  <1>4. Holds(n.flow) = Holds(m.flow) - amount
    BY <1>1, <1>3 DEF Holds, Added, Flow
  <1>5. Holds(m.flow) \in Int
    BY <1>3 DEF Holds, Flow
  <1> QED
    BY <1>1, <1>2, <1>3, <1>4, <1>5 DEF Accounted, n

\* A payout takes the stake out of the pool, the winnings come from the vault.
LEMMA PaidOutAccounted ==
    ASSUME NEW m \in MoneyType, NEW player \in Players,
           NEW x \in Nat, NEW y \in Nat, NEW z \in Nat,
           x + z <= m.balance[Host], y <= m.balance[Vault]
    PROVE  Accounted(m, PaidOut(m, player, x, y, z))
  <1> DEFINE n == PaidOut(m, player, x, y, z)
             b1 == Moved(m.balance, Host, player, x)
             b2 == Moved(b1, Vault, player, y)
             b3 == Moved(b2, Host, Vault, z)
  <1>1. n \in MoneyType /\ n.flow = Added(m.flow, 0, x + y, y, z)
    BY PaidOutType
  <1>2. /\ m.balance \in [Accounts -> Nat] /\ m.balance[Host] \in Nat /\ m.flow \in Flow
        /\ {Host, Vault, player} \subseteq Accounts
        /\ Host # player /\ Vault # player /\ Host # Vault
    BY PlayersAssumption DEF MoneyType, Accounts, Host, Vault
  <1>3. b1 \in [Accounts -> Nat] /\ b1[Host] = m.balance[Host] - x /\ b1[Vault] >= y
    <2>1. x <= m.balance[Host]
      BY <1>2
    <2> QED
      BY <1>2, <2>1 DEF Moved
  <1>4. b2 \in [Accounts -> Nat] /\ b2[Host] = b1[Host]
    <2> HIDE DEF b1
    <2> QED
      BY <1>2, <1>3, MovedType, MovedHost
  <1>5. b3[Host] = b2[Host] - z
    <2> HIDE DEF b2
    <2> QED
      BY <1>2, <1>4, MovedHost
  <1>6. n.balance = b3
    BY DEF PaidOut
  <1> HIDE DEF n, b1, b2, b3
  <1>7. Holds(n.flow) = Holds(m.flow) - x - z
    BY <1>1, <1>2 DEF Holds, Added, Flow
  <1>8. Holds(m.flow) \in Int
    BY <1>2 DEF Holds, Flow
  <1> QED
    BY <1>1, <1>2, <1>3, <1>4, <1>5, <1>6, <1>7, <1>8 DEF Accounted, n

\* Two accounted transfers in a row are accounted.
LEMMA AccountedTwice ==
    ASSUME NEW m \in MoneyType, NEW n, NEW k, Accounted(m, n), Accounted(n, k)
    PROVE  Accounted(m, k)
  BY DEF Accounted

\* The deltas of an accepted answer.
LEMMA StepMoneyAccounted ==
    ASSUME NEW s \in Session, NEW r \in StepResult, NEW allow, NEW m \in MoneyType,
           CanApplyStepDeltas(s, r, allow, m)
    PROVE  Accounted(m, StepMoney(s, r, m))
  <1>1. s.player \in Players /\ r.escrowDelta \in Int /\ m.balance[Host] \in Nat
    BY DEF Session, StepResult, MoneyType, Accounts
  <1>2. CASE r.escrowDelta > 0
    <2>1. r.escrowDelta \in Nat
          /\ CanPull(m.balance, m.allowance, s.player, r.escrowDelta)
      BY <1>1, <1>2 DEF CanApplyStepDeltas
    <2> QED
      BY <1>1, <1>2, <2>1, PulledAccounted DEF StepMoney
  <1>3. CASE ~(r.escrowDelta > 0)
    <2>1. r.escrowDelta < 0 => m.balance[Host] >= -r.escrowDelta
      BY DEF CanApplyStepDeltas
    <2>2. -r.escrowDelta \in Nat /\ -r.escrowDelta <= m.balance[Host]
      BY <1>1, <1>3, <2>1
    <2> QED
      BY <1>1, <1>3, <2>2, RefundedAccounted DEF StepMoney
  <1> QED
    BY <1>2, <1>3

\* The transaction about session sid books the money n, accounted from m.
Books(sid, m) == \E n : Accounted(m, n) /\ Book(sid, n)

\* A closing books what it pays out.
LEMMA FinalizeBooks ==
    ASSUME NEW s \in Session, NEW ph, NEW payout \in Nat, NEW m \in MoneyType,
           FinalizeSession(s, ph, payout, m)
    PROVE  Books(s.sessionId, m)
  <1> DEFINE x == IF payout > s.escrowedStake THEN s.escrowedStake ELSE payout
             y == payout - x
             z == s.escrowedStake - x
             n == PaidOut(m, s.player, x, y, z)
  <1>1. s.player \in Players /\ s.escrowedStake \in Nat
    BY DEF Session
  <1>2. /\ s.escrowedStake <= m.balance[Host]
        /\ y <= m.balance[Vault]
        /\ Book(s.sessionId, n)
    BY DEF FinalizeSession, CanPull
  <1>3. x \in Nat /\ y \in Nat /\ z \in Nat /\ x + z = s.escrowedStake
    BY <1>1
  <1> HIDE DEF x, y, z
  <1>4. Accounted(m, n)
    BY <1>1, <1>2, <1>3, PaidOutAccounted
  <1> QED
    BY <1>2, <1>4 DEF Books

\* So does every accepted answer of a game.
LEMMA StepBooks ==
    ASSUME NEW s \in Session, NEW r \in StepResult, NEW allow, NEW m \in MoneyType,
           NEW unanswered, ProcessStepResult(s, r, allow, m, unanswered)
    PROVE  Books(s.sessionId, m)
  <1> DEFINE next == Stepped(s, r)
             paid == StepMoney(s, r, m)
  <1>1. CanApplyStepDeltas(s, r, allow, m)
    BY DEF ProcessStepResult
  <1>2. Accounted(m, paid) /\ paid \in MoneyType
    BY <1>1, StepMoneyAccounted DEF Accounted
  <1>3. next \in Session /\ next.sessionId = s.sessionId /\ r.payout \in Nat
    BY <1>1, SteppedType DEF StepResult
  <1>4. \/ Book(s.sessionId, paid)
        \/ FinalizeSession(next, r.nextPhase, r.payout, paid)
    BY DEF ProcessStepResult
  <1> HIDE DEF next, paid
  <1>5. CASE Book(s.sessionId, paid)
    BY <1>2, <1>5 DEF Books
  <1>6. CASE FinalizeSession(next, r.nextPhase, r.payout, paid)
    <2>1. PICK n : Accounted(paid, n) /\ Book(s.sessionId, n)
      BY <1>2, <1>3, <1>6, FinalizeBooks DEF Books
    <2> QED
      BY <1>2, <2>1, AccountedTwice DEF Books
  <1> QED
    BY <1>4, <1>5, <1>6

\* What every step does to the pool: the balance of the host falls by no more
\* than the holdings of one session do, and no other session's flow changes.
PoolStep ==
    \/ flows' = flows /\ balance'[Host] >= balance[Host]
    \/ \E sid \in SessionIds :
           /\ \A other \in SessionIds \ {sid} : flows'[other] = flows[other]
           /\ flows'[sid] \in Flow
           /\ balance'[Host] - Holds(flows'[sid]) = balance[Host] - Holds(flows[sid])

\* Money booked for a session, accounted from what it held before.
LEMMA BooksPool ==
    ASSUME TypeOK, NEW sid \in SessionIds, NEW m \in MoneyType, Books(sid, m),
           m.balance[Host] - Holds(m.flow) = balance[Host] - Holds(flows[sid])
    PROVE  PoolStep
  <1>1. PICK n : Accounted(m, n) /\ Book(sid, n)
    BY DEF Books
  <1>2. balance' = n.balance /\ flows' = [flows EXCEPT ![sid] = n.flow]
        /\ flows \in [SessionIds -> Flow] /\ n.flow \in Flow
    BY <1>1 DEF Book, TypeOK, Accounted, MoneyType
  <1>3. flows'[sid] = n.flow /\ \A other \in SessionIds \ {sid} : flows'[other] = flows[other]
    BY <1>2
  <1> QED
    BY <1>1, <1>2, <1>3 DEF PoolStep, Accounted

\* Every step of the host moves the pool as PoolStep says.
LEMMA NextPool ==
    ASSUME IndInv, [Next]_vars
    PROVE  PoolStep
  <1>1. /\ TypeOK /\ balance \in [Accounts -> Nat] /\ Host \in Accounts
        /\ balance[Host] \in Nat /\ flows \in [SessionIds -> Flow]
    BY DEF IndInv, TypeOK, Accounts
  <1>2. CASE UNCHANGED <<balance, flows>>
    BY <1>1, <1>2 DEF PoolStep
  <1>3. ASSUME NEW to \in Accounts, NEW amount \in MintAmounts, Mint(to, amount)
        PROVE  PoolStep
    <2>1. amount \in Nat /\ balance' = [balance EXCEPT ![to] = @ + amount] /\ flows' = flows
      BY <1>3, InputsAssumption DEF Mint, sessionVars
    <2>2. balance'[Host] >= balance[Host]
      BY <1>1, <2>1
    <2> QED
      BY <2>1, <2>2 DEF PoolStep
  <1>4. ASSUME NEW from \in Players, NEW to \in Accounts, NEW amount \in TransferAmounts,
               Transfer(from, to, amount)
        PROVE  PoolStep
    <2>1. amount \in Nat /\ from \in Accounts /\ from # Host /\ amount <= balance[from]
          /\ balance' = Moved(balance, from, to, amount) /\ flows' = flows
      BY <1>4, InputsAssumption, PlayersAssumption DEF Transfer, Accounts, sessionVars
    <2>2. balance'[Host] >= balance[Host]
      BY <1>1, <2>1, MovedBalance
    <2> QED
      BY <2>1, <2>2 DEF PoolStep
  <1>5. ASSUME NEW s, Loads(s)
        PROVE  /\ Money(flows[s.sessionId]) \in MoneyType
               /\ Money(flows[s.sessionId]).balance[Host] - Holds(Money(flows[s.sessionId]).flow)
                    = balance[Host] - Holds(flows[s.sessionId])
               /\ s \in Session /\ s.sessionId \in SessionIds
    BY <1>5, LoadedSession DEF Balanced, Money
  <1>6. ASSUME NEW s, Loads(s), Books(s.sessionId, Money(flows[s.sessionId]))
        PROVE  PoolStep
    <2> DEFINE m == Money(flows[s.sessionId])
    <2>1. m \in MoneyType /\ s.sessionId \in SessionIds /\ Books(s.sessionId, m)
          /\ m.balance[Host] - Holds(m.flow) = balance[Host] - Holds(flows[s.sessionId])
      BY <1>5, <1>6
    <2> HIDE DEF m
    <2> QED
      BY <1>1, <2>1, BooksPool
  <1>7. ASSUME NEW s, NEW ph, NEW payout \in Nat, Loads(s),
               FinalizeSession(s, ph, payout, Money(flows[s.sessionId]))
        PROVE  PoolStep
    BY <1>5, <1>6, <1>7, FinalizeBooks
  <1>8. ASSUME NEW s, NEW r \in StepResults, NEW allow, NEW unanswered, Loads(s),
               ProcessStepResult(s, r, allow, Money(flows[s.sessionId]), unanswered)
        PROVE  PoolStep
    BY <1>5, <1>6, <1>8, StepBooks, InputsAssumption
  <1>9. ASSUME NEW player \in Players, NEW game \in Games, NEW wager \in Wagers,
               NEW quote \in Quotes, NEW operator \in Operators \cup {Deployer},
               NEW r \in StepResults,
               OpenSession(player, game, wager, quote, operator, r)
        PROVE  PoolStep
    <2> DEFINE op == ResolveOperator(operator)
               s == [sessionId |-> currentSessionId + 1,
                     player |-> player, game |-> game,
                     operator |-> op,
                     escrowedStake |-> wager, reservedProfit |-> 0,
                     maxEscrowStake |-> quote.maxEscrowStake,
                     maxReservedProfit |-> quote.maxReservedProfit,
                     deadlineBlock |-> 0, step |-> 0, phase |-> "NONE"]
               f == NoFlowUnder(quote.maxEscrowStake, quote.maxReservedProfit)
               m == Pulled(Money(f), player, wager)
    <2>1. /\ currentSessionId < MaxSessions
          /\ CanPull(balance, allowance, player, wager)
          /\ ProcessStepResult(s, r, TRUE, m, requests)
      BY <1>9 DEF OpenSession
    <2>2. /\ r \in StepResult /\ wager \in Nat
          /\ quote.maxEscrowStake \in Nat /\ quote.maxReservedProfit \in Nat
      BY InputsAssumption DEF Quote
    <2>3. currentSessionId + 1 \in SessionIds /\ currentSessionId \in Nat
      BY <1>1, <2>1, BoundsAssumption DEF TypeOK, SessionIds
    <2>4. s \in Session
      <3>1. op \in Operators \cup {Deployer}
        BY <1>1 DEF TypeOK, ResolveOperator
      <3> HIDE DEF op
      <3> QED
        BY <2>2, <2>3, <3>1 DEF Session, Phases
    <2>5. f \in Flow /\ Holds(f) = 0
      BY <2>2 DEF NoFlowUnder, Flow, Holds
    <2>6. Money(f) \in MoneyType /\ Money(f).flow = f /\ Money(f).balance = balance
          /\ CanPull(Money(f).balance, Money(f).allowance, player, wager)
      BY <1>1, <2>1, <2>5 DEF Money, MoneyType, TypeOK
    <2>7. Accounted(Money(f), m)
      <3> HIDE DEF f
      <3> QED
        BY <2>2, <2>6, PulledAccounted
    <2>8. flows[currentSessionId + 1] = NoFlow
      BY <2>3 DEF IndInv, SessionInv
    <2>9. Holds(NoFlow) = 0
      BY DEF NoFlow, NoFlowUnder, Holds
    <2>10. s.sessionId = currentSessionId + 1
      OBVIOUS
    <2> HIDE DEF s, m, f
    <2>11. m \in MoneyType
           /\ m.balance[Host] - Holds(m.flow) = balance[Host] - Holds(flows[s.sessionId])
      BY <2>5, <2>6, <2>7, <2>8, <2>9, <2>10 DEF Accounted
    <2>12. Books(s.sessionId, m)
      BY <2>1, <2>2, <2>4, <2>11, StepBooks
    <2> QED
      BY <1>1, <2>3, <2>10, <2>11, <2>12, BooksPool
  <1>10. ASSUME NEW s \in advanced, NEW quote \in ForfeitQuotes, ForfeitExpiredSession(s, quote)
         PROVE  PoolStep
    <2> DEFINE payout == ForfeitPayout(s, quote)
    <2>1. Loads(s) /\ FinalizeSession(s, "FORFEITED", payout, Money(flows[s.sessionId]))
      BY <1>10 DEF ForfeitExpiredSession
    <2>2. payout \in Nat
      <3>1. quote \in Nat /\ s.escrowedStake \in Nat /\ s.reservedProfit \in Nat
        BY <2>1, LoadedSession, InputsAssumption DEF Session
      <3> QED
        BY <3>1 DEF ForfeitPayout
    <2> HIDE DEF payout
    <2> QED
      BY <1>7, <2>1, <2>2
  <1>11. ASSUME NEW s \in advanced, CancelStuckRandomness(s)
         PROVE  PoolStep
    <2>1. Loads(s)
          /\ FinalizeSession(s, "CANCELLED", s.escrowedStake, Money(flows[s.sessionId]))
      BY <1>11 DEF CancelStuckRandomness
    <2>2. s.escrowedStake \in Nat
      BY <2>1, LoadedSession DEF Session
    <2> QED
      BY <1>7, <2>1, <2>2
  <1>12. ASSUME NEW player \in Players, NEW s \in advanced, NEW r \in StepResults,
                SubmitAction(player, s, r)
         PROVE  PoolStep
    BY <1>8, <1>12 DEF SubmitAction
  <1>13. ASSUME NEW s \in requests, NEW r \in StepResults, OnRandomnessFulfilled(s, r)
         PROVE  PoolStep
    BY <1>8, <1>13 DEF OnRandomnessFulfilled
  <1>14. ASSUME NEW player \in Players, NEW amount \in ApproveAmounts, Approve(player, amount)
         PROVE  PoolStep
    BY <1>2, <1>14 DEF Approve, sessionVars
  <1>15. ASSUME NEW game \in Games, NEW named \in BOOLEAN, RegisterGame(game, named)
         PROVE  PoolStep
    BY <1>2, <1>15 DEF RegisterGame, sessionVars, tokenVars
  <1>16. ASSUME NEW operator \in Operators, NEW registered \in BOOLEAN,
                SetOperator(operator, registered)
         PROVE  PoolStep
    BY <1>2, <1>16 DEF SetOperator, sessionVars, tokenVars
  <1>17. ASSUME NEW operator \in Operators, SetDefaultOperator(operator)
         PROVE  PoolStep
    BY <1>2, <1>17 DEF SetDefaultOperator, sessionVars, tokenVars
  <1>18. ASSUME NEW s \in requests, RandomnessCallbackReverts(s)
         PROVE  PoolStep
    BY <1>2, <1>18 DEF RandomnessCallbackReverts, tokenVars
  <1>19. ASSUME Mine
         PROVE  PoolStep
    BY <1>2, <1>19 DEF Mine, sessionVars, tokenVars
  <1>20. ASSUME UNCHANGED vars
         PROVE  PoolStep
    BY <1>2, <1>20 DEF vars, sessionVars, tokenVars
  <1> QED
    BY <1>3, <1>4, <1>9, <1>10, <1>11, <1>12, <1>13, <1>14, <1>15, <1>16,
       <1>17, <1>18, <1>19, <1>20 DEF Next

\* What all sessions still hold.
Held == SumFunctionOnSet([sid \in SessionIds |-> Holds(flows[sid])], SessionIds)

\* There is a bound to the sessions, so that their stakes have a sum.
LEMMA SessionIdsFinite == IsFiniteSet(SessionIds)
  BY BoundsAssumption, FS_Interval DEF SessionIds

\* The pool covers what the flows say the sessions hold.
LEMMA PoolKept ==
    ASSUME IndInv, balance[Host] >= Held, [Next]_vars
    PROVE  (balance[Host] >= Held)'
  <1> DEFINE f == [sid \in SessionIds |-> Holds(flows[sid])]
             g == [sid \in SessionIds |-> Holds(flows'[sid])]
  <1>1. /\ flows \in [SessionIds -> Flow] /\ flows' \in [SessionIds -> Flow]
        /\ balance[Host] \in Nat /\ balance'[Host] \in Nat
    <2>1. TypeOK /\ TypeOK'
      BY NextKeepsIndInv DEF IndInv
    <2> QED
      BY <2>1 DEF TypeOK, Accounts
  <1>2. \A sid \in SessionIds : f[sid] \in Int /\ g[sid] \in Int
    BY <1>1 DEF Holds, Flow
  <1>3. SumFunctionOnSet(f, SessionIds) \in Int
    <2> HIDE DEF f, g
    <2> QED
      BY <1>2, SessionIdsFinite, SumInt
  <1>4. CASE flows' = flows /\ balance'[Host] >= balance[Host]
    <2>1. g = f
      BY <1>4
    <2> HIDE DEF f, g
    <2>2. SumFunctionOnSet(g, SessionIds) = SumFunctionOnSet(f, SessionIds)
      BY <2>1
    <2> QED
      BY <1>1, <1>3, <1>4, <2>2 DEF Held, f, g
  <1>5. ASSUME NEW sid \in SessionIds,
               \A other \in SessionIds \ {sid} : flows'[other] = flows[other],
               balance'[Host] - Holds(flows'[sid]) = balance[Host] - Holds(flows[sid])
        PROVE  (balance[Host] >= Held)'
    <2>1. \A other \in SessionIds \ {sid} : g[other] = f[other]
      BY <1>5
    <2>2. SumFunctionOnSet(g, SessionIds) = SumFunctionOnSet(f, SessionIds) + (g[sid] - f[sid])
      <3> HIDE DEF f, g
      <3> QED
        BY <1>2, <1>5, <2>1, SessionIdsFinite, SumChanges
    <2>3. balance'[Host] - g[sid] = balance[Host] - f[sid]
      BY <1>5
    <2>4. balance[Host] >= SumFunctionOnSet(f, SessionIds)
      BY DEF Held
    <2>5. f[sid] \in Int /\ g[sid] \in Int
      BY <1>2
    <2> HIDE DEF f, g
    <2>6. balance'[Host] >= SumFunctionOnSet(g, SessionIds)
      BY <1>1, <1>3, <2>2, <2>3, <2>4, <2>5
    <2> QED
      BY <2>6 DEF Held, g
  <1> QED
    BY <1>4, <1>5, NextPool DEF PoolStep

\* Nothing is held when the host is deployed.
LEMMA PoolStarts == Init => balance[Host] >= Held
  <1> SUFFICES ASSUME Init
               PROVE  balance[Host] >= Held
    OBVIOUS
  <1> DEFINE f == [sid \in SessionIds |-> Holds(flows[sid])]
  <1>1. \A sid \in SessionIds : f[sid] = 0
    BY DEF Init, NoFlow, NoFlowUnder, Holds
  <1>2. balance[Host] \in Nat
    BY InputsAssumption DEF Init, Accounts
  <1>3. SumFunctionOnSet(f, SessionIds) = 0
    <2> HIDE DEF f
    <2> QED
      BY <1>1, SessionIdsFinite, SumNat
  <1> QED
    BY <1>2, <1>3 DEF Held

\* An open session still holds its stake, any other one nothing.
LEMMA HoldsItsStake ==
    ASSUME IndInv, NEW sid \in SessionIds
    PROVE  Holds(flows[sid]) = IF IsOpen(sid) THEN commitments[sid].escrowedStake ELSE 0
  <1>1. /\ SessionInv(sid) /\ flows[sid] \in Flow
        /\ sid <= currentSessionId \/ sid > currentSessionId
    BY BoundsAssumption DEF IndInv, TypeOK, SessionIds
  <1>2. Holds(NoFlow) = 0
    BY DEF NoFlow, NoFlowUnder, Holds
  <1>3. CASE sid > currentSessionId
    BY <1>1, <1>2, <1>3 DEF SessionInv, IsOpen
  <1>4. ASSUME IsOpen(sid), OpenInv(sid, commitments[sid], flows[sid])
        PROVE  Holds(flows[sid]) = commitments[sid].escrowedStake
    BY <1>1, <1>4 DEF OpenInv, Holds, Flow
  <1>5. ASSUME ClosedInv(flows[sid])
        PROVE  Holds(flows[sid]) = 0
    BY <1>1, <1>5 DEF ClosedInv, Holds, Flow
  <1> QED
    BY <1>1, <1>3, <1>4, <1>5 DEF SessionInv

\* The host can pay every open session its stake at any time, all of them
\* together, whatever the games answer and whatever is sent where: the stake
\* of one player is never spent on another.
THEOREM PoolCoversStakes == Spec => []HostSolvent
  <1>1. IndInv /\ balance[Host] >= Held => HostSolvent
    <2> SUFFICES ASSUME IndInv, balance[Host] >= Held
                 PROVE  HostSolvent
      OBVIOUS
    <2> DEFINE f == [sid \in SessionIds |-> Holds(flows[sid])]
               g == [sid \in SessionIds |->
                        IF IsOpen(sid) THEN commitments[sid].escrowedStake ELSE 0]
    <2>1. \A sid \in SessionIds : f[sid] = g[sid]
      BY HoldsItsStake
    <2>2. SumFunction(g) = SumFunctionOnSet(g, SessionIds)
      BY DEF SumFunction
    <2>3. SumFunctionOnSet(f, SessionIds) = SumFunctionOnSet(g, SessionIds)
      <3> HIDE DEF f, g
      <3> QED
        BY <2>1, SessionIdsFinite, SumEqual
    <2>4. HostSolvent <=> balance[Host] >= SumFunction(g)
      BY DEF HostSolvent
    <2>5. balance[Host] >= SumFunctionOnSet(f, SessionIds)
      BY DEF Held
    <2> HIDE DEF f, g
    <2> QED
      BY <2>2, <2>3, <2>4, <2>5
  <1>2. Init => balance[Host] >= Held
    BY PoolStarts
  <1>3. IndInv /\ balance[Host] >= Held /\ [Next]_vars => (balance[Host] >= Held)'
    BY PoolKept
  <1> QED
    BY <1>1, <1>2, <1>3, HostInvariant, PTL DEF Spec
=============================================================================
