------------------------------ MODULE FrameProofs ------------------------------
(***************************************************************************)
(* Proofs about what runs in a frame: Ember Festival and its show, the     *)
(* coin flip, and the verification of random words a game asks for.  Every *)
(* theorem is for all values of the constants of its part.                 *)
(***************************************************************************)
EXTENDS EmberFrame, CoinflipRound, FairnessCheck, FiniteTheorems, SequenceTheorems,
        TLAPS

CONSTANTS ShownTiers, Frames, Ascents, MaxChanges
VARIABLES tierProp, soundEnabled, anim, heard, audible, changes
Burst == INSTANCE BurstShow

-----------------------------------------------------------------------------
(***************************************************************************)
(* Ember Festival: for every number of bets, every set of tiers and any    *)
(* number of reloads, previews and changes of the sound.                   *)
(***************************************************************************)

(***************************************************************************)
(* The inductive invariant                                                 *)
(***************************************************************************)

Statuses == {"none", "opening", "waiting", "animating", "settled"}
Views == [round : Rounds, ready : BOOLEAN, preview : Tiers \cup {NoTier}, sound : BOOLEAN]
States == [round : Rounds, snapshot : Snapshots \cup {NoSnapshot}, hostApi : BOOLEAN,
           preview : Tiers \cup {NoTier}, sound : BOOLEAN]
StateMessages == [kind : {"state"}, items : Snapshots \cup {NoSnapshot}]
Replies == [kind : {"reply"}, bet : Bets, ok : BOOLEAN]
Engines == [for : Bets \cup {0}, tier : Tiers \cup {NoTier},
            phase : {"idle", "launch", "slowmo", "burst", "done"}]

Types ==
    /\ call \in [Bets -> {"idle", "calling", "opened", "failed"}]
    /\ sessions \in Snapshots
    /\ snapshot \in Snapshots \cup {NoSnapshot}
    /\ lastPushed \in Snapshots \cup {NoSnapshot}
    /\ toFrame \in Seq(StateMessages \cup Replies)
    /\ state \in States
    /\ view \in Views
    /\ due \in {"no", "later", "now"}
    /\ engine \in Engines
    /\ asked \in SUBSET Bets /\ finished \in SUBSET Bets /\ revealed \in SUBSET Bets
    /\ guestApi \in BOOLEAN /\ launchLock \in BOOLEAN /\ dismissTimer \in BOOLEAN

\* A message is a snapshot or an answer.
IsState(m) == m.kind = "state"
IsReply(m) == m.kind = "reply"

\* An answer under way is that of the bet the frame waits for, and there is
\* no other.
RepliesFit ==
    /\ \A i \in 1..Len(toFrame) : IsReply(toFrame[i]) =>
         /\ toFrame[i].bet \in asked
         /\ call[toFrame[i].bet] = IF toFrame[i].ok THEN "opened" ELSE "failed"
    /\ \A i, j \in 1..Len(toFrame) : IsReply(toFrame[i]) /\ IsReply(toFrame[j]) => i = j

PastOpening == state.round.status \in {"waiting", "animating", "settled"}

\* Only an answered call gets past "opening".
CallsAnswered == PastOpening => call[state.round.bet] = "opened"

\* The last render shows the round the state is in, unless it is about to show
\* a new one.
ViewFollows ==
    /\ PastOpening => view.round.bet = state.round.bet
    /\ state.round.status = "opening" /\ due # "now" =>
           view.round.bet = state.round.bet /\ view.round.status = "opening"

\* There is no preview beside a round.
PreviewApart ==
    /\ state.round # NoRound => state.preview = NoTier
    /\ view.round # NoRound => view.preview = NoTier
    /\ state.preview # NoTier => view.round = NoRound

\* The timer belongs to the result the last render shows.
TimerFits == dismissTimer => view.round.status = "settled"

\* The animation is that of the last render.
EngineFits ==
    IF BurstTier(view) = NoTier
    THEN engine = NoEngine
    ELSE engine.for = IF view.round.status = "animating" THEN view.round.bet ELSE 0

\* What was pushed last arrives last.
PushesArrive ==
    /\ lastPushed = IF guestApi THEN snapshot ELSE NoSnapshot
    /\ \A i \in 1..Len(toFrame) :
         IsState(toFrame[i]) /\ (\A j \in (i + 1)..Len(toFrame) : ~IsState(toFrame[j])) =>
             toFrame[i].items = lastPushed
    /\ (\A i \in 1..Len(toFrame) : ~IsState(toFrame[i])) => state.snapshot = lastPushed

\* The result of a session in a snapshot, however old, is its result.
Agrees(s) == s # NoSnapshot => \A b \in Bets : s[b] \in Results => sessions[b] = s[b]
ResultsAreFinal ==
    /\ Agrees(snapshot) /\ Agrees(lastPushed) /\ Agrees(state.snapshot)
    /\ \A i \in 1..Len(toFrame) : IsState(toFrame[i]) => Agrees(toFrame[i].items)
    /\ state.round.status \in {"animating", "settled"} =>
           sessions[state.round.bet] = state.round.tier

FrameInv ==
    /\ Types
    /\ RepliesFit
    /\ CallsAnswered
    /\ OneBetAtATime
    /\ ViewFollows
    /\ PreviewApart
    /\ TimerFits
    /\ EngineFits
    /\ PushesArrive
    /\ ResultsAreFinal
    /\ RevealedByTheAnimation

-----------------------------------------------------------------------------
(***************************************************************************)
(* Rounds and messages                                                     *)
(***************************************************************************)

\* A round from its parts, and which of them go together.
LEMMA RoundShape ==
    ASSUME NEW r \in Rounds
    PROVE  /\ r = [bet |-> r.bet, status |-> r.status, tier |-> r.tier]
           /\ r.status \in Statuses
           /\ r.status = "none" <=> r = NoRound
           /\ r.bet = 0 <=> r = NoRound
           /\ r # NoRound => r.bet \in Bets
           /\ r.status \in {"animating", "settled"} <=> r.tier # NoTier
           /\ r.status \in {"animating", "settled"} => r.tier \in Tiers
           /\ r.tier \in Tiers \cup {NoTier}
  BY FrameAssumption DEF Rounds, NoRound, NoTier, Statuses, Tiers

\* No tier has the name of another state of a session.
LEMMA TierNames == NoTier \notin Tiers /\ "cancelled" \notin Tiers /\ "open" \notin Tiers
                   /\ "absent" \notin Tiers
  BY FrameAssumption DEF NoTier, Tiers

\* A message that is sent goes behind those under way.
LEMMA Sent ==
    ASSUME NEW S, NEW s \in Seq(S), NEW m \in S
    PROVE  /\ Append(s, m) \in Seq(S)
           /\ Len(s) \in Nat /\ Len(Append(s, m)) = Len(s) + 1
           /\ \A i \in 1..Len(s) : Append(s, m)[i] = s[i]
           /\ Append(s, m)[Len(s) + 1] = m
  BY AppendProperties, LenProperties

\* A message that arrives was the first of them.
LEMMA Arrived ==
    ASSUME NEW S, NEW s \in Seq(S), s # <<>>
    PROVE  /\ Tail(s) \in Seq(S)
           /\ Len(s) \in Nat \ {0} /\ Len(Tail(s)) = Len(s) - 1
           /\ \A i \in 1..Len(Tail(s)) : Tail(s)[i] = s[i + 1]
           /\ Head(s) = s[1] /\ s[1] \in S
  BY HeadTailProperties, LenProperties, EmptySeq, ElementOfSeq

\* The same without the sequences: what the messages under way are.
LEMMA MessageShape ==
    ASSUME Types
    PROVE  /\ Len(toFrame) \in Nat
           /\ \A i \in 1..Len(toFrame) :
                /\ toFrame[i] \in StateMessages \cup Replies
                /\ IsReply(toFrame[i]) <=> ~IsState(toFrame[i])
                /\ IsReply(toFrame[i]) => toFrame[i] \in Replies
                /\ IsState(toFrame[i]) => toFrame[i] \in StateMessages
  <1>1. toFrame \in Seq(StateMessages \cup Replies)
    BY DEF Types
  <1>2. Len(toFrame) \in Nat
    BY <1>1, LenProperties
  <1>3. \A i \in 1..Len(toFrame) : toFrame[i] \in StateMessages \cup Replies
    BY <1>1, ElementOfSeq
  <1> QED
    BY <1>2, <1>3 DEF StateMessages, Replies, IsState, IsReply

-----------------------------------------------------------------------------
\* FrameInv holds at first.
LEMMA FrameInitInv == Init => FrameInv
  <1> SUFFICES ASSUME Init PROVE FrameInv
    OBVIOUS
  <1> USE DEF Init, Blank, NoRound, NoEngine, NoTier
  <1>1. Types
    <2>1. Blank \in States /\ Shown(Blank) \in Views
      BY DEF States, Views, Shown, Rounds
    <2>2. engine \in Engines
      BY DEF Engines
    <2>3. sessions \in Snapshots /\ toFrame \in Seq(StateMessages \cup Replies)
      BY DEF Snapshots
    <2> QED
      BY <2>1, <2>2, <2>3 DEF Types
  <1>2. Len(toFrame) = 0
    OBVIOUS
  <1>3. RepliesFit /\ CallsAnswered /\ OneBetAtATime
    BY <1>2 DEF RepliesFit, CallsAnswered, OneBetAtATime, PastOpening
  <1>5. ViewFollows /\ PreviewApart /\ TimerFits
    BY DEF ViewFollows, PreviewApart, TimerFits, PastOpening, Shown
  <1>6. EngineFits
    BY DEF EngineFits, BurstTier, Shown
  <1>4. PushesArrive /\ ResultsAreFinal /\ RevealedByTheAnimation
    BY <1>2 DEF PushesArrive, ResultsAreFinal, RevealedByTheAnimation, Agrees
  <1> QED
    BY <1>1, <1>3, <1>4, <1>5, <1>6 DEF FrameInv

-----------------------------------------------------------------------------
(***************************************************************************)
(* Every action keeps the types.                                           *)
(***************************************************************************)

\* The state after an update of its round.
LEMMA StateWithRound ==
    ASSUME NEW s \in States, NEW r \in Rounds
    PROVE  /\ [s EXCEPT !.round = r] \in States
           /\ [s EXCEPT !.round = r].round = r
           /\ [s EXCEPT !.round = r].snapshot = s.snapshot
           /\ [s EXCEPT !.round = r].preview = s.preview
           /\ [s EXCEPT !.round = r].hostApi = s.hostApi
           /\ [s EXCEPT !.round = r].sound = s.sound
  BY DEF States

\* What a render shows of a state.
LEMMA ShownType ==
    ASSUME NEW s \in States
    PROVE  /\ Shown(s) \in Views
           /\ Shown(s).round = s.round /\ Shown(s).preview = s.preview
           /\ Shown(s).sound = s.sound
  BY DEF Shown, States, Views

\* What a document starts from.
LEMMA BlankType ==
    Blank \in States /\ Blank.round = NoRound /\ Blank.preview = NoTier
    /\ Blank.snapshot = NoSnapshot
  BY DEF Blank, States, Rounds


-----------------------------------------------------------------------------
(***************************************************************************)
(* The page                                                                *)
(***************************************************************************)

\* A session may end, but an ended one does not change.
LEMMA SessionsKeepInv ==
    ASSUME FrameInv, NEW b \in Bets, NEW to \in {"open"} \cup Results,
           sessions[b] \in {"absent", "open"},
           sessions' = [sessions EXCEPT ![b] = to],
           UNCHANGED <<call, snapshot, bridgeVars, roundVars, view, due, showVars>>
    PROVE  FrameInv'
  <1>1. UNCHANGED <<call, snapshot, guestApi, lastPushed, toFrame, state, launchLock, asked,
                    view, due, engine, dismissTimer, finished, revealed>>
    BY DEF bridgeVars, roundVars, showVars
  <1>2. Types'
    BY <1>1 DEF FrameInv, Types, Snapshots
  <1>3. RepliesFit' /\ CallsAnswered' /\ OneBetAtATime' /\ ViewFollows' /\ PreviewApart'
        /\ TimerFits' /\ EngineFits' /\ PushesArrive'
    BY <1>1 DEF FrameInv, RepliesFit, CallsAnswered, OneBetAtATime, ViewFollows, PreviewApart,
                TimerFits, EngineFits, BurstTier, PushesArrive, PastOpening, IsState, IsReply
  <1>4. sessions[b] \notin Results
    BY TierNames DEF Results
  <1>5. \A s : Agrees(s) => Agrees(s)'
    BY <1>4 DEF Agrees, FrameInv, Types, Snapshots
  <1>6. state.round.status \in {"animating", "settled"} =>
            state.round.bet \in Bets /\ state.round.tier \in Results
    BY RoundShape DEF FrameInv, Types, States, Results
  <1>7. ResultsAreFinal'
    BY <1>1, <1>4, <1>5, <1>6 DEF FrameInv, Types, Snapshots, ResultsAreFinal, IsState, Agrees
  <1>8. RevealedByTheAnimation'
    BY <1>1, <1>4 DEF FrameInv, Types, Snapshots, RevealedByTheAnimation, Results
  <1> QED
    BY <1>2, <1>3, <1>7, <1>8 DEF FrameInv

\* The answer of a call is sent if somebody waits for it.
LEMMA AnswerKeepsInv ==
    ASSUME FrameInv, NEW b \in Bets, NEW ok \in BOOLEAN, Answer(b, ok)
    PROVE  FrameInv'
  <1>1. /\ call[b] = "calling"
        /\ call' = [call EXCEPT ![b] = IF ok THEN "opened" ELSE "failed"]
        /\ toFrame' = IF b \in asked THEN Append(toFrame, ReplyMessage(b, ok)) ELSE toFrame
        /\ UNCHANGED <<sessions, snapshot, guestApi, lastPushed, state, launchLock, asked,
                       view, due, engine, dismissTimer, finished, revealed>>
    BY DEF Answer, roundVars, showVars
  <1>2. ReplyMessage(b, ok) \in Replies /\ ReplyMessage(b, ok).kind # "state"
    BY DEF ReplyMessage, Replies
  <1>3. /\ toFrame' \in Seq(StateMessages \cup Replies)
        /\ Len(toFrame) \in Nat
        /\ b \in asked =>
             /\ Len(toFrame') = Len(toFrame) + 1
             /\ \A i \in 1..Len(toFrame) : toFrame'[i] = toFrame[i]
             /\ toFrame'[Len(toFrame) + 1] = ReplyMessage(b, ok)
    BY <1>1, <1>2, Sent, LenProperties DEF FrameInv, Types
  <1>4. Types'
    BY <1>1, <1>3 DEF FrameInv, Types
  <1>5. asked \subseteq {b} \/ b \notin asked
    BY DEF FrameInv, OneBetAtATime
  <1>6. \A i \in 1..Len(toFrame) : IsReply(toFrame[i]) => toFrame[i].bet # b /\ b \notin asked
    BY <1>1, <1>5 DEF FrameInv, RepliesFit
  <1>7. RepliesFit'
    <2>1. CASE b \notin asked
      BY <1>1, <1>6, <2>1 DEF FrameInv, Types, RepliesFit, IsReply
    <2>2. CASE b \in asked
      <3>1. \A i \in 1..Len(toFrame) : ~IsReply(toFrame'[i])
        BY <1>3, <1>6, <2>2 DEF IsReply
      <3>2. \A i \in 1..Len(toFrame') : IsReply(toFrame'[i]) => i = Len(toFrame) + 1
        BY <1>3, <2>2, <3>1
      <3> QED
        BY <1>1, <1>3, <2>2, <3>2 DEF RepliesFit, ReplyMessage, FrameInv, Types
    <2> QED
      BY <2>1, <2>2
  <1>8. CallsAnswered'
    BY <1>1 DEF FrameInv, Types, CallsAnswered, PastOpening
  <1>9. OneBetAtATime' /\ ViewFollows' /\ PreviewApart' /\ TimerFits' /\ EngineFits'
    BY <1>1 DEF FrameInv, OneBetAtATime, ViewFollows, PreviewApart,
                TimerFits, EngineFits, BurstTier, PastOpening
  <1>10. \A i \in 1..Len(toFrame') : IsState(toFrame'[i]) => i \in 1..Len(toFrame) /\ IsState(toFrame[i])
    BY <1>1, <1>2, <1>3 DEF IsState
  <1>11. \A i \in 1..Len(toFrame) : toFrame'[i] = toFrame[i] /\ i \in 1..Len(toFrame')
    BY <1>1, <1>3
  <1>12. PushesArrive'
    BY <1>1, <1>3, <1>10, <1>11 DEF FrameInv, PushesArrive, IsState
  <1>13. ResultsAreFinal' /\ RevealedByTheAnimation'
    BY <1>1, <1>10, <1>11 DEF FrameInv, ResultsAreFinal, RevealedByTheAnimation, Agrees
  <1> QED
    BY <1>4, <1>7, <1>8, <1>9, <1>12, <1>13 DEF FrameInv

\* A push is the page's last snapshot, and the last message.
LEMMA PushKeepsInv ==
    ASSUME FrameInv, NEW s \in Snapshots \cup {NoSnapshot}, Agrees(s),
           guestApi', snapshot' = s, lastPushed' = s,
           toFrame' = Append(toFrame, StateMessage(s)),
           UNCHANGED <<call, sessions, roundVars, view, due, showVars>>
    PROVE  FrameInv'
  <1>1. UNCHANGED <<call, sessions, state, launchLock, asked,
                    view, due, engine, dismissTimer, finished, revealed>>
    BY DEF roundVars, showVars
  <1>2. StateMessage(s) \in StateMessages /\ StateMessage(s).kind = "state"
        /\ StateMessage(s).items = s
    BY DEF StateMessage, StateMessages
  <1>3. /\ toFrame' \in Seq(StateMessages \cup Replies)
        /\ Len(toFrame) \in Nat
        /\ Len(toFrame') = Len(toFrame) + 1
        /\ \A i \in 1..Len(toFrame) : toFrame'[i] = toFrame[i]
        /\ toFrame'[Len(toFrame) + 1] = StateMessage(s)
    BY <1>2, Sent DEF FrameInv, Types
  <1>4. Types'
    <2>1. guestApi' \in BOOLEAN
      OBVIOUS
    <2> QED
      BY <1>1, <1>3, <2>1 DEF FrameInv, Types
  <1>5. IsState(toFrame'[Len(toFrame) + 1]) /\ ~IsReply(toFrame'[Len(toFrame) + 1])
    BY <1>2, <1>3 DEF IsState, IsReply
  <1>6. RepliesFit'
    <2>1. \A i \in 1..Len(toFrame') : IsReply(toFrame'[i]) => i \in 1..Len(toFrame) /\ IsReply(toFrame[i])
      BY <1>3, <1>5 DEF IsReply
    <2> QED
      BY <1>1, <1>3, <2>1 DEF FrameInv, RepliesFit
  <1>7. CallsAnswered' /\ OneBetAtATime' /\ ViewFollows' /\ PreviewApart' /\ TimerFits'
        /\ EngineFits' /\ RevealedByTheAnimation'
    BY <1>1 DEF FrameInv, CallsAnswered, OneBetAtATime, ViewFollows, PreviewApart,
                TimerFits, EngineFits, BurstTier, PastOpening, RevealedByTheAnimation
  <1>8. PushesArrive'
    <2>1. Len(toFrame') \in 1..Len(toFrame') /\ IsState(toFrame'[Len(toFrame')])
      BY <1>3, <1>5
    <2>2. \A i \in 1..Len(toFrame') :
             (\A j \in (i + 1)..Len(toFrame') : ~IsState(toFrame'[j])) => i = Len(toFrame')
      BY <1>3, <2>1
    <2>3. toFrame'[Len(toFrame')].items = s
      BY <1>2, <1>3
    <2> QED
      BY <2>1, <2>2, <2>3 DEF PushesArrive
  <1>9. ResultsAreFinal'
    <2>1. \A i \in 1..Len(toFrame') : IsState(toFrame'[i]) =>
             \/ i \in 1..Len(toFrame) /\ IsState(toFrame[i])
             \/ toFrame'[i].items = s
      BY <1>2, <1>3 DEF IsState
    <2>2. \A t : Agrees(t) => Agrees(t)'
      BY <1>1 DEF Agrees
    <2> QED
      BY <1>1, <1>3, <2>1, <2>2 DEF FrameInv, ResultsAreFinal, Agrees
  <1> QED
    BY <1>4, <1>6, <1>7, <1>8, <1>9 DEF FrameInv

\* The page renders, and pushes a change if it is connected.
LEMMA HostRenderKeepsInv ==
    ASSUME FrameInv, HostRender
    PROVE  FrameInv'
  <1>1. /\ snapshot' = sessions
        /\ UNCHANGED <<call, sessions, guestApi, roundVars, view, due, showVars>>
    BY DEF HostRender
  <1>2. sessions \in Snapshots /\ Agrees(sessions)
    BY DEF FrameInv, Types, Agrees
  <1>3. CASE guestApi /\ lastPushed # sessions
    <2>1. lastPushed' = sessions /\ toFrame' = Append(toFrame, StateMessage(sessions))
      BY <1>3 DEF HostRender
    <2> QED
      BY <1>1, <1>2, <1>3, <2>1, PushKeepsInv
  <1>4. CASE ~(guestApi /\ lastPushed # sessions)
    <2>1. UNCHANGED <<lastPushed, toFrame, call, sessions, guestApi, state, launchLock, asked,
                      view, due, engine, dismissTimer, finished, revealed>>
      BY <1>1, <1>4 DEF HostRender, roundVars, showVars
    <2>2. Types'
      BY <1>1, <1>2, <2>1 DEF FrameInv, Types
    <2>3. RepliesFit' /\ CallsAnswered' /\ OneBetAtATime' /\ ViewFollows' /\ PreviewApart'
          /\ TimerFits' /\ EngineFits' /\ RevealedByTheAnimation'
      BY <2>1 DEF FrameInv, RepliesFit, CallsAnswered, OneBetAtATime, ViewFollows, PreviewApart,
                  TimerFits, EngineFits, BurstTier, PastOpening, RevealedByTheAnimation
    <2>4. PushesArrive'
      BY <1>1, <1>4, <2>1 DEF FrameInv, PushesArrive
    <2>5. ResultsAreFinal'
      BY <1>1, <1>2, <2>1 DEF FrameInv, ResultsAreFinal, Agrees
    <2> QED
      BY <2>2, <2>3, <2>4, <2>5 DEF FrameInv
  <1> QED
    BY <1>3, <1>4

\* The page's side of the handshake.
LEMMA HostConnectsKeepsInv ==
    ASSUME FrameInv, HostConnects
    PROVE  FrameInv'
  <1>1. /\ ~guestApi /\ guestApi'
        /\ UNCHANGED <<call, sessions, snapshot, roundVars, view, due, showVars>>
    BY DEF HostConnects, hostVars
  <1>2. CASE snapshot # NoSnapshot
    <2>1. lastPushed' = snapshot /\ toFrame' = Append(toFrame, StateMessage(snapshot))
      BY <1>2 DEF HostConnects
    <2>2. Agrees(snapshot) /\ snapshot \in Snapshots \cup {NoSnapshot}
      BY DEF FrameInv, Types, ResultsAreFinal
    <2>3. guestApi' /\ snapshot' = snapshot
      BY <1>1
    <2> QED
      BY <1>1, <2>1, <2>2, <2>3, PushKeepsInv
  <1>3. CASE snapshot = NoSnapshot
    <2>1. UNCHANGED <<lastPushed, toFrame, call, sessions, snapshot, state, launchLock, asked,
                      view, due, engine, dismissTimer, finished, revealed>>
      BY <1>1, <1>3 DEF HostConnects, roundVars, showVars
    <2>2. Types'
      <3>1. guestApi' \in BOOLEAN
        BY DEF HostConnects
      <3> QED
        BY <2>1, <3>1 DEF FrameInv, Types
    <2>3. RepliesFit' /\ CallsAnswered' /\ OneBetAtATime' /\ ViewFollows' /\ PreviewApart'
          /\ TimerFits' /\ EngineFits' /\ RevealedByTheAnimation'
      BY <2>1 DEF FrameInv, RepliesFit, CallsAnswered, OneBetAtATime, ViewFollows, PreviewApart,
                  TimerFits, EngineFits, BurstTier, PastOpening, RevealedByTheAnimation
    <2>4. PushesArrive'
      BY <1>1, <1>3, <2>1 DEF FrameInv, PushesArrive
    <2>5. ResultsAreFinal'
      BY <2>1 DEF FrameInv, ResultsAreFinal, Agrees
    <2> QED
      BY <2>2, <2>3, <2>4, <2>5 DEF FrameInv
  <1> QED
    BY <1>2, <1>3

\* A new document knows nothing, and the page knows that it does not.
LEMMA ReloadKeepsInv ==
    ASSUME FrameInv, Reload
    PROVE  FrameInv'
  <1>1. /\ guestApi' = FALSE /\ lastPushed' = NoSnapshot /\ toFrame' = <<>>
        /\ state' = Blank /\ view' = Shown(Blank) /\ due' = "no"
        /\ launchLock' = FALSE /\ asked' = {} /\ engine' = NoEngine /\ dismissTimer' = FALSE
        /\ UNCHANGED <<call, sessions, snapshot, finished, revealed>>
    BY DEF Reload, hostVars
  <1>2. /\ Blank \in States /\ Blank.round = NoRound /\ Blank.preview = NoTier
        /\ Blank.snapshot = NoSnapshot
        /\ Shown(Blank) \in Views /\ Shown(Blank).round = NoRound
        /\ Shown(Blank).preview = NoTier
    BY BlankType, ShownType
  <1>3. NoEngine \in Engines /\ NoRound.status = "none"
    BY DEF NoEngine, Engines, NoRound
  <1>4. Len(toFrame') = 0 /\ toFrame' \in Seq(StateMessages \cup Replies)
    BY <1>1
  <1>5. Types'
    BY <1>1, <1>2, <1>3, <1>4 DEF FrameInv, Types
  <1>6. RepliesFit' /\ CallsAnswered' /\ OneBetAtATime'
    BY <1>1, <1>2, <1>3, <1>4 DEF RepliesFit, CallsAnswered, OneBetAtATime, PastOpening
  <1>7. ViewFollows' /\ PreviewApart' /\ TimerFits'
    BY <1>1, <1>2, <1>3 DEF ViewFollows, PreviewApart, TimerFits, PastOpening
  <1>8. EngineFits'
    BY <1>1, <1>2, <1>3 DEF EngineFits, BurstTier
  <1>9. PushesArrive' /\ ResultsAreFinal'
    BY <1>1, <1>2, <1>3, <1>4 DEF FrameInv, PushesArrive, ResultsAreFinal, Agrees
  <1>10. RevealedByTheAnimation'
    BY <1>1, <1>2, <1>3 DEF FrameInv, RevealedByTheAnimation
  <1> QED
    BY <1>5, <1>6, <1>7, <1>8, <1>9, <1>10 DEF FrameInv

-----------------------------------------------------------------------------
(***************************************************************************)
(* Messages to the frame                                                   *)
(***************************************************************************)

\* The frame's side of the handshake.
LEMMA FrameConnectsKeepsInv ==
    ASSUME FrameInv, FrameConnects
    PROVE  FrameInv'
  <1>1. /\ state' = [state EXCEPT !.hostApi = TRUE]
        /\ due # "now" /\ due' \in {"later", due}
        /\ UNCHANGED <<call, sessions, snapshot, guestApi, lastPushed, toFrame, launchLock,
                       asked, view, engine, dismissTimer, finished, revealed>>
    BY DEF FrameConnects, Free, RendersLater, hostVars, bridgeVars, showVars
  <1>2. /\ state' \in States /\ state'.round = state.round
        /\ state'.preview = state.preview /\ state'.snapshot = state.snapshot
    BY <1>1 DEF FrameInv, Types, States
  <1>3. Types'
    BY <1>1, <1>2 DEF FrameInv, Types
  <1>4. RepliesFit' /\ CallsAnswered' /\ OneBetAtATime' /\ ViewFollows' /\ PreviewApart'
        /\ TimerFits' /\ EngineFits' /\ PushesArrive' /\ ResultsAreFinal'
        /\ RevealedByTheAnimation'
    BY <1>1, <1>2 DEF FrameInv, RepliesFit, CallsAnswered, OneBetAtATime, ViewFollows,
         PreviewApart, TimerFits, EngineFits, BurstTier, PastOpening, PushesArrive,
         ResultsAreFinal, Agrees, RevealedByTheAnimation
  <1> QED
    BY <1>3, <1>4 DEF FrameInv

\* What a message leaves behind is what was sent after it.
LEMMA MessageTaken ==
    ASSUME FrameInv, toFrame # <<>>, toFrame' = Tail(toFrame)
    PROVE  /\ toFrame' \in Seq(StateMessages \cup Replies)
           /\ Len(toFrame) \in Nat \ {0} /\ Len(toFrame') = Len(toFrame) - 1
           /\ \A i \in 1..Len(toFrame') :
                i \in Nat /\ i + 1 \in 1..Len(toFrame) /\ toFrame'[i] = toFrame[i + 1]
           /\ Head(toFrame) = toFrame[1] /\ 1 \in 1..Len(toFrame)
  <1>1. toFrame \in Seq(StateMessages \cup Replies)
    BY DEF FrameInv, Types
  <1>2. /\ toFrame' \in Seq(StateMessages \cup Replies)
        /\ Len(toFrame) \in Nat \ {0} /\ Len(toFrame') = Len(toFrame) - 1
        /\ \A i \in 1..Len(toFrame') : toFrame'[i] = toFrame[i + 1]
        /\ Head(toFrame) = toFrame[1]
    BY <1>1, Arrived
  <1> QED
    BY <1>2

\* A snapshot arrives: if it is the last one under way, the frame is up to date.
LEMMA SetStateKeepsInv ==
    ASSUME FrameInv, SetState
    PROVE  FrameInv'
  <1>1. /\ toFrame # <<>> /\ Head(toFrame).kind = "state"
        /\ toFrame' = Tail(toFrame)
        /\ state' = [state EXCEPT !.snapshot = Head(toFrame).items]
        /\ due # "now" /\ due' \in {"later", due}
        /\ UNCHANGED <<call, sessions, snapshot, guestApi, lastPushed, launchLock,
                       asked, view, engine, dismissTimer, finished, revealed>>
    BY DEF SetState, Free, RendersLater, hostVars, showVars
  <1>2. /\ toFrame' \in Seq(StateMessages \cup Replies)
        /\ Len(toFrame) \in Nat \ {0} /\ Len(toFrame') = Len(toFrame) - 1
        /\ \A i \in 1..Len(toFrame') :
             i \in Nat /\ i + 1 \in 1..Len(toFrame) /\ toFrame'[i] = toFrame[i + 1]
        /\ Head(toFrame) = toFrame[1] /\ 1 \in 1..Len(toFrame)
    BY <1>1, MessageTaken
  <1>3. IsState(toFrame[1]) /\ toFrame[1] \in StateMessages
    BY <1>1, <1>2, MessageShape DEF FrameInv, IsState
  <1>4. /\ state' \in States /\ state'.round = state.round
        /\ state'.preview = state.preview /\ state'.snapshot = toFrame[1].items
    BY <1>1, <1>2, <1>3 DEF FrameInv, Types, States, StateMessages
  <1>5. Types'
    BY <1>1, <1>2, <1>4 DEF FrameInv, Types
  <1>6. RepliesFit'
    BY <1>1, <1>2 DEF FrameInv, RepliesFit
  <1>7. CallsAnswered' /\ OneBetAtATime' /\ ViewFollows' /\ PreviewApart'
        /\ TimerFits' /\ EngineFits' /\ RevealedByTheAnimation'
    BY <1>1, <1>4 DEF FrameInv, CallsAnswered, OneBetAtATime, ViewFollows,
         PreviewApart, TimerFits, EngineFits, BurstTier, PastOpening, RevealedByTheAnimation
  <1>8. \A i \in 1..Len(toFrame) : i = 1 \/ i - 1 \in 1..Len(toFrame')
    BY <1>2
  <1>9. PushesArrive'
    <2>1. ASSUME NEW i \in 1..Len(toFrame'), IsState(toFrame'[i]),
                 \A j \in (i + 1)..Len(toFrame') : ~IsState(toFrame'[j])
          PROVE  toFrame'[i].items = lastPushed
      <3>1. i + 1 \in 1..Len(toFrame) /\ IsState(toFrame[i + 1])
            /\ toFrame'[i].items = toFrame[i + 1].items
        BY <1>2, <2>1
      <3>2. ASSUME NEW j \in ((i + 1) + 1)..Len(toFrame) PROVE ~IsState(toFrame[j])
        <4>1. j - 1 \in (i + 1)..Len(toFrame') /\ j - 1 \in 1..Len(toFrame')
              /\ (j - 1) + 1 = j
          BY <1>2
        <4> QED
          BY <1>2, <2>1, <4>1
      <3> QED
        BY <3>1, <3>2 DEF FrameInv, PushesArrive
    <2>2. ASSUME \A i \in 1..Len(toFrame') : ~IsState(toFrame'[i])
          PROVE  state'.snapshot = lastPushed
      <3>1. ASSUME NEW j \in (1 + 1)..Len(toFrame) PROVE ~IsState(toFrame[j])
        <4>1. j - 1 \in 1..Len(toFrame') /\ (j - 1) + 1 = j
          BY <1>2
        <4> QED
          BY <1>2, <2>2, <4>1
      <3> QED
        BY <1>2, <1>3, <1>4, <3>1 DEF FrameInv, PushesArrive
    <2> QED
      BY <1>1, <2>1, <2>2 DEF FrameInv, PushesArrive
  <1>10. ResultsAreFinal'
    BY <1>1, <1>2, <1>3, <1>4 DEF FrameInv, ResultsAreFinal, Agrees
  <1> QED
    BY <1>5, <1>6, <1>7, <1>9, <1>10 DEF FrameInv

\* An answer arrives: it is that of the round, if there is one.
LEMMA LaunchReturnsKeepsInv ==
    ASSUME FrameInv, LaunchReturns
    PROVE  FrameInv'
  <1> DEFINE m == Head(toFrame)
  <1>1. /\ toFrame # <<>> /\ m.kind = "reply"
        /\ toFrame' = Tail(toFrame)
        /\ asked' = asked \ {m.bet}
        /\ Replied(m.bet, m.ok)
        /\ due # "now" /\ due' \in {"later", due}
        /\ UNCHANGED <<call, sessions, snapshot, guestApi, lastPushed,
                       view, engine, dismissTimer, finished, revealed>>
    BY DEF LaunchReturns, Free, RendersLater, hostVars, showVars
  <1>2. /\ toFrame' \in Seq(StateMessages \cup Replies)
        /\ Len(toFrame) \in Nat \ {0} /\ Len(toFrame') = Len(toFrame) - 1
        /\ \A i \in 1..Len(toFrame') :
             i \in Nat /\ i + 1 \in 1..Len(toFrame) /\ toFrame'[i] = toFrame[i + 1]
        /\ m = toFrame[1] /\ 1 \in 1..Len(toFrame)
    BY <1>1, MessageTaken
  <1>3. IsReply(toFrame[1]) /\ ~IsState(toFrame[1]) /\ toFrame[1] \in Replies
    BY <1>1, <1>2, MessageShape DEF FrameInv, IsReply
  <1>4. m.bet \in asked /\ call[m.bet] = (IF m.ok THEN "opened" ELSE "failed")
        /\ m.ok \in BOOLEAN
    BY <1>2, <1>3 DEF FrameInv, RepliesFit, Replies
  <1> HIDE DEF m
  <1>5. /\ state.round.status = "opening" /\ state.round.bet = m.bet /\ asked = {m.bet}
        /\ launchLock /\ state.round # NoRound /\ asked' = {}
    BY <1>1, <1>4 DEF FrameInv, OneBetAtATime, NoRound
  <1> DEFINE r == IF m.ok THEN [state.round EXCEPT !.status = "waiting"] ELSE NoRound
  <1>6. /\ state' = [state EXCEPT !.round = r]
        /\ launchLock' = m.ok
    BY <1>1, <1>4, <1>5 DEF Replied, FrameInv, Types, States
  <1>7. /\ r \in Rounds /\ r.status = IF m.ok THEN "waiting" ELSE "none"
        /\ m.ok => r.bet = m.bet
        /\ r = NoRound <=> ~m.ok
    BY <1>5 DEF FrameInv, Types, States, Rounds, NoRound, NoTier
  <1> HIDE DEF r
  <1>8. /\ state' \in States /\ state'.round = r
        /\ state'.preview = state.preview /\ state'.snapshot = state.snapshot
    BY <1>6, <1>7, StateWithRound DEF FrameInv, Types
  <1>9. Types'
    BY <1>1, <1>2, <1>4, <1>6, <1>8 DEF FrameInv, Types
  <1>10. RepliesFit'
    <2>1. \A i \in 1..Len(toFrame') : ~IsReply(toFrame'[i])
      <3> SUFFICES ASSUME NEW i \in 1..Len(toFrame'), IsReply(toFrame'[i])
                   PROVE  FALSE
        OBVIOUS
      <3>1. i + 1 \in 1..Len(toFrame) /\ IsReply(toFrame[i + 1]) /\ i + 1 # 1
        BY <1>2
      <3> QED
        BY <1>2, <1>3, <3>1 DEF FrameInv, RepliesFit
    <2> QED
      BY <2>1 DEF RepliesFit
  <1>11. CallsAnswered' /\ OneBetAtATime' /\ ViewFollows' /\ PreviewApart'
    BY <1>1, <1>4, <1>5, <1>6, <1>7, <1>8 DEF FrameInv, CallsAnswered, OneBetAtATime,
         ViewFollows, PreviewApart, PastOpening
  <1>12. TimerFits' /\ EngineFits'
    BY <1>1 DEF FrameInv, TimerFits, EngineFits, BurstTier
  <1>13. PushesArrive'
    <2>1. ASSUME NEW i \in 1..Len(toFrame'), IsState(toFrame'[i]),
                 \A j \in (i + 1)..Len(toFrame') : ~IsState(toFrame'[j])
          PROVE  toFrame'[i].items = lastPushed
      <3>1. i + 1 \in 1..Len(toFrame) /\ IsState(toFrame[i + 1])
            /\ toFrame'[i].items = toFrame[i + 1].items
        BY <1>2, <2>1
      <3>2. ASSUME NEW j \in ((i + 1) + 1)..Len(toFrame) PROVE ~IsState(toFrame[j])
        <4>1. j - 1 \in (i + 1)..Len(toFrame') /\ j - 1 \in 1..Len(toFrame')
              /\ (j - 1) + 1 = j
          BY <1>2
        <4> QED
          BY <1>2, <2>1, <4>1
      <3> QED
        BY <3>1, <3>2 DEF FrameInv, PushesArrive
    <2>2. ASSUME \A i \in 1..Len(toFrame') : ~IsState(toFrame'[i])
          PROVE  state'.snapshot = lastPushed
      <3>1. ASSUME NEW j \in 1..Len(toFrame) PROVE ~IsState(toFrame[j])
        <4>1. CASE j = 1
          BY <1>3, <4>1
        <4>2. CASE j # 1
          <5>1. j - 1 \in 1..Len(toFrame') /\ (j - 1) + 1 = j
            BY <1>2, <4>2
          <5> QED
            BY <1>2, <2>2, <5>1
        <4> QED
          BY <4>1, <4>2
      <3> QED
        BY <1>8, <3>1 DEF FrameInv, PushesArrive
    <2> QED
      BY <1>1, <2>1, <2>2 DEF FrameInv, PushesArrive
  <1>14. ResultsAreFinal'
    BY <1>1, <1>2, <1>7, <1>8 DEF FrameInv, ResultsAreFinal, Agrees
  <1>15. RevealedByTheAnimation'
    BY <1>1, <1>7, <1>8 DEF FrameInv, RevealedByTheAnimation
  <1> QED
    BY <1>9, <1>10, <1>11, <1>12, <1>13, <1>14, <1>15 DEF FrameInv

-----------------------------------------------------------------------------
(***************************************************************************)
(* The player                                                              *)
(***************************************************************************)

\* A bet: there was no round, and nothing is on its way.
LEMMA LaunchKeepsInv ==
    ASSUME FrameInv, NEW b \in Bets, Launch(b)
    PROVE  FrameInv'
  <1> DEFINE r == [bet |-> b, status |-> "opening", tier |-> NoTier]
  <1>1. /\ ~launchLock /\ call[b] = "idle"
        /\ launchLock' = TRUE
        /\ state' = [state EXCEPT !.round = r, !.preview = NoTier]
        /\ call' = [call EXCEPT ![b] = "calling"]
        /\ asked' = asked \cup {b}
        /\ due' = "now"
        /\ UNCHANGED <<sessions, snapshot, guestApi, lastPushed, toFrame, view,
                       engine, dismissTimer, finished, revealed>>
    BY DEF Launch, CanLaunch, IsNext, bridgeVars, showVars
  <1>2. state.round = NoRound /\ asked = {}
    BY <1>1 DEF FrameInv, OneBetAtATime, NoRound
  <1>3. r \in Rounds /\ r # NoRound /\ r.bet = b /\ r.status = "opening"
    BY DEF Rounds, NoRound
  <1> HIDE DEF r
  <1>4. /\ state' \in States /\ state'.round = r
        /\ state'.preview = NoTier /\ state'.snapshot = state.snapshot
    BY <1>1, <1>3 DEF FrameInv, Types, States
  <1>5. Types'
    BY <1>1, <1>4 DEF FrameInv, Types
  <1>6. RepliesFit'
    BY <1>1, <1>2 DEF FrameInv, RepliesFit
  <1>7. CallsAnswered' /\ OneBetAtATime' /\ ViewFollows' /\ PreviewApart'
    BY <1>1, <1>2, <1>3, <1>4 DEF FrameInv, CallsAnswered, OneBetAtATime,
         ViewFollows, PreviewApart, PastOpening
  <1>8. TimerFits' /\ EngineFits'
    BY <1>1 DEF FrameInv, TimerFits, EngineFits, BurstTier
  <1>9. PushesArrive'
    BY <1>1, <1>4 DEF FrameInv, PushesArrive
  <1>10. ResultsAreFinal' /\ RevealedByTheAnimation'
    BY <1>1, <1>3, <1>4 DEF FrameInv, ResultsAreFinal, Agrees, RevealedByTheAnimation
  <1> QED
    BY <1>5, <1>6, <1>7, <1>8, <1>9, <1>10 DEF FrameInv

\* The end of a round that nobody waits for.
LEMMA DismissedKeepsInv ==
    ASSUME FrameInv, view.round.status = "settled", due # "now", Dismissed,
           dismissTimer' \in {dismissTimer, FALSE}, due' \in {"no", "later", "now"},
           UNCHANGED <<hostVars, bridgeVars, asked, view, engine, finished, revealed>>
    PROVE  FrameInv'
  <1>1. /\ state' = [state EXCEPT !.round = NoRound] /\ launchLock' = FALSE
        /\ UNCHANGED <<call, sessions, snapshot, guestApi, lastPushed, toFrame, asked, view,
                       engine, finished, revealed>>
    BY DEF Dismissed, hostVars, bridgeVars
  <1>2. state.round.status # "opening" /\ asked = {}
    BY DEF FrameInv, ViewFollows, OneBetAtATime
  <1>3. NoRound \in Rounds /\ NoRound.status = "none"
    BY DEF Rounds, NoRound
  <1>4. /\ state' \in States /\ state'.round = NoRound
        /\ state'.preview = state.preview /\ state'.snapshot = state.snapshot
    BY <1>1, <1>3, StateWithRound DEF FrameInv, Types
  <1>5. Types'
    BY <1>1, <1>4 DEF FrameInv, Types
  <1>6. RepliesFit' /\ PushesArrive'
    BY <1>1, <1>4 DEF FrameInv, RepliesFit, PushesArrive
  <1>7. CallsAnswered' /\ OneBetAtATime' /\ ViewFollows' /\ PreviewApart'
    BY <1>1, <1>2, <1>3, <1>4 DEF FrameInv, CallsAnswered, OneBetAtATime,
         ViewFollows, PreviewApart, PastOpening
  <1>8. TimerFits' /\ EngineFits'
    BY <1>1 DEF FrameInv, TimerFits, EngineFits, BurstTier
  <1>9. ResultsAreFinal' /\ RevealedByTheAnimation'
    BY <1>1, <1>3, <1>4 DEF FrameInv, ResultsAreFinal, Agrees, RevealedByTheAnimation
  <1> QED
    BY <1>5, <1>6, <1>7, <1>8, <1>9 DEF FrameInv

\* A preview, without a round, or another setting of the sound.
LEMMA ClickKeepsInv ==
    ASSUME FrameInv, (\E tier \in Tiers : Preview(tier)) \/ ToggleSound
    PROVE  FrameInv'
  <1>1. /\ due # "now" /\ due' = "now"
        /\ UNCHANGED <<call, sessions, snapshot, guestApi, lastPushed, toFrame, asked, view,
                       launchLock, engine, dismissTimer, finished, revealed>>
    BY DEF Preview, ToggleSound, Click, Free, hostVars, bridgeVars, showVars
  <1>2. /\ state' \in States /\ state'.round = state.round /\ state'.snapshot = state.snapshot
        /\ state'.preview = state.preview \/ view.round = NoRound
    <2>1. CASE ToggleSound
      BY <2>1 DEF ToggleSound, FrameInv, Types, States
    <2>2. CASE \E tier \in Tiers : Preview(tier)
      BY <2>2 DEF Preview, FrameInv, Types, States
    <2> QED
      BY <2>1, <2>2
  <1>3. view.round = NoRound => state.round = NoRound
    <2>1. view.round = NoRound => view.round.bet = 0 /\ view.round.status = "none"
      BY DEF NoRound
    <2>2. state.round.status \in Statuses /\ (state.round # NoRound => state.round.bet # 0)
          /\ (state.round.status = "none" <=> state.round = NoRound)
      BY RoundShape DEF FrameInv, Types, States
    <2> QED
      BY <1>1, <2>1, <2>2 DEF FrameInv, ViewFollows, PastOpening, Statuses
  <1>4. Types'
    BY <1>1, <1>2 DEF FrameInv, Types
  <1>5. RepliesFit' /\ PushesArrive' /\ CallsAnswered' /\ OneBetAtATime' /\ ViewFollows'
        /\ TimerFits' /\ EngineFits' /\ ResultsAreFinal' /\ RevealedByTheAnimation'
    BY <1>1, <1>2 DEF FrameInv, RepliesFit, PushesArrive, CallsAnswered, OneBetAtATime,
         ViewFollows, TimerFits, EngineFits, BurstTier, PastOpening, ResultsAreFinal, Agrees,
         RevealedByTheAnimation
  <1>6. PreviewApart'
    BY <1>1, <1>2, <1>3 DEF FrameInv, PreviewApart
  <1> QED
    BY <1>4, <1>5, <1>6 DEF FrameInv

-----------------------------------------------------------------------------
(***************************************************************************)
(* The renders and the animation                                           *)
(***************************************************************************)

\* A round that waited, once its result is known.
LEMMA RoundAnimates ==
    ASSUME NEW b, NEW tier
    PROVE  [[bet |-> b, status |-> "waiting", tier |-> NoTier]
               EXCEPT !.status = "animating", !.tier = tier]
             = [bet |-> b, status |-> "animating", tier |-> tier]
  <1> DEFINE r == [[bet |-> b, status |-> "waiting", tier |-> NoTier]
                      EXCEPT !.status = "animating", !.tier = tier]
  <1>1. r \in [bet : {b}, status : {"animating"}, tier : {tier}]
    OBVIOUS
  <1> HIDE DEF r
  <1>2. r = [bet |-> b, status |-> "animating", tier |-> tier]
    BY <1>1
  <1> QED
    BY <1>2 DEF r

\* What settleFromSnapshot may make of the round.
LEMMA SettleOutcome ==
    ASSUME FrameInv, SettleFromSnapshot
    PROVE  /\ state' \in States
           /\ state'.preview = state.preview /\ state'.snapshot = state.snapshot
           /\ \/ state'.round = state.round /\ launchLock' = launchLock
              \/ /\ state.round.status = "waiting"
                 /\ state'.round = NoRound /\ launchLock' = FALSE
              \/ /\ state.round.status = "waiting"
                 /\ \E tier \in Tiers :
                      /\ state'.round =
                           [bet |-> state.round.bet, status |-> "animating", tier |-> tier]
                      /\ sessions[state.round.bet] = tier
                 /\ launchLock' = launchLock
  <1> DEFINE round == state.round
             waits == round.status = "waiting" /\ state.snapshot # NoSnapshot
             item == IF waits THEN state.snapshot[round.bet] ELSE "absent"
  <1>1. /\ state' = CASE item = "cancelled" -> [state EXCEPT !.round = NoRound]
                       [] item \in Tiers ->
                            [state EXCEPT !.round.status = "animating", !.round.tier = item]
                       [] OTHER -> state
        /\ launchLock' = IF item = "cancelled" THEN FALSE ELSE launchLock
    BY DEF SettleFromSnapshot
  <1>2. state \in States /\ round \in Rounds /\ NoRound \in Rounds
    BY DEF FrameInv, Types, States, Rounds
  <1>3. "cancelled" \notin Tiers /\ "absent" \notin Tiers
    BY TierNames
  <1>4. CASE item = "cancelled"
    <2>1. waits
      BY <1>4
    <2>2. state' = [state EXCEPT !.round = NoRound] /\ launchLock' = FALSE
      BY <1>1, <1>3, <1>4
    <2>3. state' \in States /\ state'.round = NoRound /\ state'.preview = state.preview
          /\ state'.snapshot = state.snapshot
      BY <1>2, <2>2, StateWithRound
    <2> QED
      BY <2>1, <2>2, <2>3
  <1>5. CASE item \in Tiers
    <2>1. waits
      BY <1>3, <1>5
    <2>2. round = [bet |-> round.bet, status |-> "waiting", tier |-> NoTier]
          /\ round.bet \in Bets
      <3>1. round = [bet |-> round.bet, status |-> round.status, tier |-> round.tier]
        BY <1>2, RoundShape
      <3>2. round # NoRound /\ round.bet \in Bets
        BY <1>2, <2>1, RoundShape DEF NoRound
      <3>3. round.tier = NoTier
        BY <1>2, <2>1, RoundShape
      <3> QED
        BY <2>1, <3>1, <3>2, <3>3
    <2> DEFINE r == [bet |-> round.bet, status |-> "animating", tier |-> item]
    <2>3. r \in Rounds
      BY <1>5, <2>2 DEF Rounds
    <2>4. [state EXCEPT !.round.status = "animating", !.round.tier = item]
            = [state EXCEPT !.round = r]
      <3>1. [round EXCEPT !.status = "animating", !.tier = item] = r
        <4> HIDE DEF item
        <4>1. \A q, b, t : q = [bet |-> b, status |-> "waiting", tier |-> NoTier] =>
                [q EXCEPT !.status = "animating", !.tier = t]
                  = [bet |-> b, status |-> "animating", tier |-> t]
          BY RoundAnimates, Zenon
        <4> HIDE DEF round
        <4>2. round = [bet |-> round.bet, status |-> "waiting", tier |-> NoTier]
          BY <2>2
        <4> QED
          BY <4>1, <4>2, Zenon
      <3> HIDE DEF r
      <3> QED
        BY <1>2, <3>1 DEF States
    <2>5. state' = [state EXCEPT !.round = r] /\ launchLock' = launchLock
      BY <1>1, <1>3, <1>5, <2>4
    <2>6. item \in Results /\ sessions[round.bet] = item
      BY <1>5, <2>1, <2>2 DEF FrameInv, ResultsAreFinal, Agrees, Results
    <2> HIDE DEF item
    <2>7. state' \in States /\ state'.round = r
          /\ state'.preview = state.preview /\ state'.snapshot = state.snapshot
      BY <1>2, <2>3, <2>5, StateWithRound
    <2> QED
      BY <1>5, <2>1, <2>5, <2>6, <2>7
  <1>6. CASE item # "cancelled" /\ item \notin Tiers
    BY <1>1, <1>2, <1>6
  <1> QED
    BY <1>4, <1>5, <1>6

\* A render of the frame, with its effects, keeps FrameInv.
LEMMA FrameRenderKeepsInv ==
    ASSUME FrameInv, FrameRender
    PROVE  FrameInv'
  <1>1. /\ view' = Shown(state) /\ due' \in {"later", "no"}
        /\ SettleFromSnapshot /\ SyncEngine /\ SyncTimer
        /\ UNCHANGED <<call, sessions, snapshot, guestApi, lastPushed, toFrame, asked,
                       finished, revealed>>
    BY DEF FrameRender, hostVars, bridgeVars
  <1>2. /\ state' \in States
        /\ state'.preview = state.preview /\ state'.snapshot = state.snapshot
        /\ \/ state'.round = state.round /\ launchLock' = launchLock
           \/ /\ state.round.status = "waiting"
              /\ state'.round = NoRound /\ launchLock' = FALSE
           \/ /\ state.round.status = "waiting"
              /\ \E tier \in Tiers :
                   /\ state'.round =
                        [bet |-> state.round.bet, status |-> "animating", tier |-> tier]
                   /\ sessions[state.round.bet] = tier
              /\ launchLock' = launchLock
    BY <1>1, SettleOutcome
  <1>3. view' \in Views /\ view'.round = state.round /\ view'.preview = state.preview
        /\ state.round \in Rounds
    BY <1>1, ShownType DEF FrameInv, Types, States
  <1>4. NoRound.status = "none" /\ NoRound.bet = 0
    BY DEF NoRound
  <1>5. \/ state'.round = state.round /\ launchLock' = launchLock
        \/ /\ state.round.status = "waiting" /\ state.round # NoRound
           /\ state'.round = NoRound /\ launchLock' = FALSE
        \/ /\ state.round.status = "waiting" /\ state.round # NoRound
           /\ state'.round.status = "animating" /\ state'.round # NoRound
           /\ state'.round.bet = state.round.bet
           /\ state'.round.tier = sessions[state.round.bet]
           /\ launchLock' = launchLock
    <2>1. CASE state.round.status = "waiting" /\ launchLock' = launchLock /\
               \E tier \in Tiers :
                   /\ state'.round =
                        [bet |-> state.round.bet, status |-> "animating", tier |-> tier]
                   /\ sessions[state.round.bet] = tier
      <3>1. PICK tier \in Tiers :
                   /\ state'.round =
                        [bet |-> state.round.bet, status |-> "animating", tier |-> tier]
                   /\ sessions[state.round.bet] = tier
        BY <2>1
      <3>2. state'.round.status = "animating" /\ state'.round.bet = state.round.bet
            /\ state'.round.tier = tier
        BY <3>1
      <3> QED
        BY <1>4, <2>1, <3>1, <3>2
    <2> QED
      BY <1>2, <1>4, <2>1
  <1>6. launchLock' \in BOOLEAN /\ dismissTimer' \in BOOLEAN
    BY <1>1, <1>2 DEF SyncTimer, FrameInv, Types
  <1>7. engine' \in Engines
    <2>1. Started \in Engines
      <3>1. BurstTier(Shown(state)) \in Tiers \cup {NoTier}
        BY <1>1, <1>3, RoundShape DEF BurstTier, Views
      <3>2. state.round.status = "animating" => state.round.bet \in Bets
        BY <1>3, <1>4, RoundShape
      <3> QED
        BY <3>1, <3>2 DEF Started, Engines
    <2>2. NoEngine \in Engines
      BY DEF NoEngine, Engines
    <2> QED
      BY <1>1, <2>1, <2>2 DEF SyncEngine, FrameInv, Types
  <1>8. Types'
    BY <1>1, <1>2, <1>3, <1>6, <1>7 DEF FrameInv, Types
  <1>9. RepliesFit' /\ PushesArrive'
    BY <1>1, <1>2 DEF FrameInv, RepliesFit, PushesArrive
  <1>10. CallsAnswered' /\ OneBetAtATime' /\ RevealedByTheAnimation'
    BY <1>1, <1>4, <1>5 DEF FrameInv, CallsAnswered, OneBetAtATime, PastOpening,
                                  RevealedByTheAnimation
  <1>11. ViewFollows' /\ PreviewApart'
    BY <1>1, <1>2, <1>3, <1>4, <1>5 DEF FrameInv, ViewFollows, PreviewApart, PastOpening
  <1>12. TimerFits'
    BY <1>1, <1>3 DEF FrameInv, TimerFits, SyncTimer
  <1>13. EngineFits'
    <2>1. CASE BurstTier(Shown(state)) = NoTier
      BY <1>1, <2>1 DEF SyncEngine, FrameInv, EngineFits
    <2>2. CASE BurstTier(Shown(state)) # NoTier /\ engine' = Started
      BY <1>1, <1>3, <2>2 DEF EngineFits, Started
    <2>3. CASE BurstTier(Shown(state)) # NoTier /\ engine' # Started
      <3>1. BurstTier(view) = BurstTier(Shown(state)) /\ engine' = engine
        BY <1>1, <2>3 DEF SyncEngine
      <3>2. engine.for = IF view.round.status = "animating" THEN view.round.bet ELSE 0
        BY <2>3, <3>1 DEF FrameInv, EngineFits
      <3>3. CASE state.round.status = "animating" /\ view.round.status = "animating"
        BY <1>1, <1>3, <2>3, <3>1, <3>2, <3>3 DEF EngineFits, FrameInv, ViewFollows, PastOpening
      <3>4. CASE state.round.status = "animating" /\ view.round.status # "animating"
        <4>1. view.preview # NoTier
          BY <2>3, <3>1, <3>4 DEF BurstTier
        <4>2. view.round = NoRound /\ view.round.bet = state.round.bet
          BY <3>4, <4>1 DEF FrameInv, PreviewApart, ViewFollows, PastOpening
        <4> QED
          BY <1>3, <1>4, <3>4, <4>2, RoundShape
      <3>5. CASE state.round.status # "animating"
        <4>1. state.preview # NoTier
          BY <1>1, <1>3, <2>3, <3>5 DEF BurstTier
        <4>2. view.round = NoRound
          BY <4>1 DEF FrameInv, PreviewApart
        <4> QED
          BY <1>1, <1>3, <1>4, <2>3, <3>1, <3>2, <3>5, <4>2 DEF EngineFits
      <3> QED
        BY <3>3, <3>4, <3>5
    <2> QED
      BY <2>1, <2>2, <2>3
  <1>14. ResultsAreFinal'
    BY <1>1, <1>2, <1>4, <1>5 DEF FrameInv, ResultsAreFinal, Agrees
  <1> QED
    BY <1>8, <1>9, <1>10, <1>11, <1>12, <1>13, <1>14 DEF FrameInv

\* The animation goes on; at its end the round is settled and revealed.
LEMMA AnimationKeepsInv ==
    ASSUME FrameInv, AnimationFrame \/ AnimationDone
    PROVE  FrameInv'
  <1>1. /\ due # "now" /\ due' \in {"later", due}
        /\ engine' \in Engines /\ engine'.for = engine.for
        /\ engine.phase \in {"launch", "slowmo", "burst"}
        /\ UNCHANGED <<call, sessions, snapshot, guestApi, lastPushed, toFrame, launchLock,
                       asked, view, dismissTimer>>
    BY DEF AnimationFrame, AnimationDone, Free, RendersLater, hostVars, bridgeVars, roundVars,
           FrameInv, Types, Engines
  <1>2. BurstTier(view) # NoTier
        /\ engine.for = IF view.round.status = "animating" THEN view.round.bet ELSE 0
    BY <1>1 DEF FrameInv, EngineFits, NoEngine
  <1>3. EngineFits' /\ TimerFits' /\ RepliesFit'
    BY <1>1, <1>2 DEF EngineFits, BurstTier, TimerFits, RepliesFit, FrameInv
  <1>4. CASE UNCHANGED <<state, revealed>> /\ finished' \in {finished, finished \cup ({engine.for} \ {0})}
    <2>1. finished' \in SUBSET Bets /\ finished \subseteq finished'
      BY <1>4 DEF FrameInv, Types, Engines
    <2>2. Types'
      BY <1>1, <1>4, <2>1 DEF FrameInv, Types
    <2>3. CallsAnswered' /\ OneBetAtATime' /\ ViewFollows' /\ PreviewApart' /\ PushesArrive'
          /\ ResultsAreFinal'
      BY <1>1, <1>4 DEF FrameInv, CallsAnswered, OneBetAtATime, ViewFollows, PreviewApart,
           PushesArrive, ResultsAreFinal, Agrees, PastOpening
    <2>4. RevealedByTheAnimation'
      BY <1>1, <1>4, <2>1 DEF FrameInv, RevealedByTheAnimation
    <2> QED
      BY <1>3, <2>2, <2>3, <2>4 DEF FrameInv
  <1>5. CASE /\ view.preview # NoTier
             /\ state' = [state EXCEPT !.preview = NoTier] /\ UNCHANGED revealed
             /\ finished' = finished \cup ({engine.for} \ {0})
    <2>1. finished' \in SUBSET Bets /\ finished \subseteq finished'
      BY <1>5 DEF FrameInv, Types, Engines
    <2>2. state' \in States /\ state'.round = state.round /\ state'.preview = NoTier
          /\ state'.snapshot = state.snapshot
      BY <1>5 DEF FrameInv, Types, States
    <2>3. Types'
      BY <1>1, <1>5, <2>1, <2>2 DEF FrameInv, Types
    <2>4. CallsAnswered' /\ OneBetAtATime' /\ ViewFollows' /\ PreviewApart' /\ PushesArrive'
          /\ ResultsAreFinal'
      BY <1>1, <2>2 DEF FrameInv, CallsAnswered, OneBetAtATime, ViewFollows, PreviewApart,
           PushesArrive, ResultsAreFinal, Agrees, PastOpening
    <2>5. RevealedByTheAnimation'
      BY <1>1, <1>5, <2>1, <2>2 DEF FrameInv, RevealedByTheAnimation
    <2> QED
      BY <1>3, <2>3, <2>4, <2>5 DEF FrameInv
  <1>6. CASE /\ view.preview = NoTier /\ state.round.status = "animating"
             /\ state' = [state EXCEPT !.round.status = "settled"]
             /\ revealed' = revealed \cup {state.round.bet}
             /\ finished' = finished \cup ({engine.for} \ {0})
    <2>1. state.round \in Rounds /\ state.round # NoRound /\ state.round.bet \in Bets
          /\ state.round.bet # 0 /\ state.round.tier \in Tiers
          /\ state.round = [bet |-> state.round.bet, status |-> "animating",
                            tier |-> state.round.tier]
      BY <1>6, RoundShape DEF FrameInv, Types, States, NoRound
    <2>2. view.round.status = "animating" /\ view.round.bet = state.round.bet
      BY <1>2, <1>6 DEF BurstTier, FrameInv, ViewFollows, PastOpening
    <2>3. engine.for = state.round.bet /\ finished' = finished \cup {state.round.bet}
      BY <1>2, <1>6, <2>1, <2>2
    <2> DEFINE r == [bet |-> state.round.bet, status |-> "settled", tier |-> state.round.tier]
    <2>4. r \in Rounds /\ r # NoRound
      BY <2>1 DEF Rounds, NoRound
    <2>5. state' = [state EXCEPT !.round = r]
      <3>1. [state.round EXCEPT !.status = "settled"] = r
        BY <2>1
      <3> HIDE DEF r
      <3> QED
        BY <1>6, <3>1 DEF FrameInv, Types, States
    <2>6. state' \in States /\ state'.round = r /\ state'.preview = state.preview
          /\ state'.snapshot = state.snapshot
      <3> HIDE DEF r
      <3> QED
        BY <2>4, <2>5, StateWithRound DEF FrameInv, Types
    <2>7. Types'
      BY <1>1, <1>6, <2>1, <2>3, <2>6 DEF FrameInv, Types
    <2>8. CallsAnswered' /\ OneBetAtATime' /\ ViewFollows' /\ PreviewApart' /\ PushesArrive'
          /\ ResultsAreFinal'
      BY <1>1, <1>6, <2>1, <2>2, <2>4, <2>6 DEF FrameInv, CallsAnswered, OneBetAtATime,
           ViewFollows, PreviewApart, PushesArrive, ResultsAreFinal, Agrees, PastOpening
    <2>9. RevealedByTheAnimation'
      BY <1>1, <1>6, <2>1, <2>3, <2>6 DEF FrameInv, RevealedByTheAnimation, ResultsAreFinal
    <2> QED
      BY <1>3, <2>7, <2>8, <2>9 DEF FrameInv
  <1> QED
    BY <1>4, <1>5, <1>6 DEF AnimationFrame, AnimationDone, roundVars

-----------------------------------------------------------------------------
(***************************************************************************)
(* The theorems                                                            *)
(***************************************************************************)

\* FrameInv is inductive.
LEMMA FrameNextInv == FrameInv /\ [Next]_vars => FrameInv'
  <1> SUFFICES ASSUME FrameInv, [Next]_vars PROVE FrameInv'
    OBVIOUS
  <1>1. ASSUME NEW b \in Bets, SessionAppears(b) PROVE FrameInv'
    BY <1>1, SessionsKeepInv DEF SessionAppears
  <1>2. ASSUME NEW b \in Bets, NEW result \in Results, SessionEnds(b, result) PROVE FrameInv'
    BY <1>2, SessionsKeepInv DEF SessionEnds
  <1>3. ASSUME NEW b \in Bets, NEW ok \in BOOLEAN, Answer(b, ok) PROVE FrameInv'
    BY <1>3, AnswerKeepsInv
  <1>4. CASE HostRender
    BY <1>4, HostRenderKeepsInv
  <1>5. CASE HostConnects
    BY <1>5, HostConnectsKeepsInv
  <1>6. CASE Reload
    BY <1>6, ReloadKeepsInv
  <1>7. CASE FrameConnects
    BY <1>7, FrameConnectsKeepsInv
  <1>8. CASE SetState
    BY <1>8, SetStateKeepsInv
  <1>9. CASE LaunchReturns
    BY <1>9, LaunchReturnsKeepsInv
  <1>10. ASSUME NEW b \in Bets, Launch(b) PROVE FrameInv'
    BY <1>10, LaunchKeepsInv
  <1>11. CASE Tap
    BY <1>11, DismissedKeepsInv DEF Tap, Free, showVars
  <1>12. CASE (\E tier \in Tiers : Preview(tier)) \/ ToggleSound
    BY <1>12, ClickKeepsInv
  <1>13. CASE FrameRender
    BY <1>13, FrameRenderKeepsInv
  <1>14. CASE AnimationFrame \/ AnimationDone
    BY <1>14, AnimationKeepsInv
  <1>15. CASE FireDismissTimer
    <2>1. view.round.status = "settled" /\ due # "now" /\ due' \in {"no", "later", "now"}
      BY <1>15 DEF FireDismissTimer, FrameInv, TimerFits, Types, Free, RendersLater
    <2> QED
      BY <1>15, <2>1, DismissedKeepsInv DEF FireDismissTimer
  <1>16. CASE UNCHANGED vars
    <2>1. UNCHANGED <<call, sessions, snapshot, guestApi, lastPushed, toFrame, state,
                      launchLock, asked, view, due, engine, dismissTimer, finished, revealed>>
      BY <1>16 DEF vars, hostVars, bridgeVars, roundVars, showVars
    <2>2. Types' /\ RepliesFit' /\ CallsAnswered' /\ OneBetAtATime' /\ ViewFollows'
      BY <2>1 DEF FrameInv, Types, RepliesFit, CallsAnswered, OneBetAtATime, ViewFollows,
                  PastOpening
    <2>3. PreviewApart' /\ TimerFits' /\ EngineFits' /\ PushesArrive' /\ ResultsAreFinal'
          /\ RevealedByTheAnimation'
      BY <2>1 DEF FrameInv, PreviewApart, TimerFits, EngineFits, BurstTier, PushesArrive,
                  ResultsAreFinal, Agrees, RevealedByTheAnimation
    <2> QED
      BY <2>2, <2>3 DEF FrameInv
  <1> QED
    BY <1>1, <1>2, <1>3, <1>4, <1>5, <1>6, <1>7, <1>8, <1>9, <1>10, <1>11, <1>12, <1>13,
       <1>14, <1>15, <1>16 DEF Next

\* What is known of the page and its frame always holds.
THEOREM FrameInvariant == Spec => []FrameInv
  BY FrameInitInv, FrameNextInv, PTL DEF Spec

\* The frame waits for one answer only, that of the round that is opening, and
\* its lock is held exactly while there is a round.  Code: launch, dismiss and
\* settleFromSnapshot (App.tsx of ember-festival).
THEOREM FrameHasOneBet == Spec => []OneBetAtATime
  BY FrameInvariant, PTL DEF FrameInv

\* Only the animation of a bet, run to its end, tells the host its result, and
\* the result is the session's.  Code: handleAnimationDone.
THEOREM FrameRevealsWhatItShowed == Spec => []RevealedByTheAnimation
  BY FrameInvariant, PTL DEF FrameInv

\* A connected frame with no snapshot under way has the page's last one.
\* Code: the pushes of use-game-bridge.ts and useCasinoHost.ts.
THEOREM FrameIsCaughtUp == Spec => []FrameCatchesUp
  <1>1. FrameInv => FrameCatchesUp
    <2> SUFFICES ASSUME FrameInv, guestApi,
                        \A i \in DOMAIN toFrame : toFrame[i].kind # "state"
                 PROVE  state.snapshot = snapshot
      BY DEF FrameCatchesUp
    <2>1. \A i \in 1..Len(toFrame) : ~IsState(toFrame[i])
      BY LenProperties DEF FrameInv, Types, IsState
    <2> QED
      BY <2>1 DEF FrameInv, PushesArrive
  <1> QED
    BY <1>1, FrameInvariant, PTL

\* The types, and that a round past "opening" has an answered call behind it.
THEOREM FrameTypes == Spec => []TypeOK
  <1>1. FrameInv => TypeOK
    BY DEF FrameInv, Types, TypeOK, States, Views, Engines, CallsAnswered, PastOpening
  <1> QED
    BY <1>1, FrameInvariant, PTL

-----------------------------------------------------------------------------
(***************************************************************************)
(* The coin flip: for every form of bets and any host.                     *)
(***************************************************************************)

\* The row is a view of the session that may be late, a round is over or in
\* its toss only when its session has ended, and no round in flight was shown
\* or had its card clicked away.  NothingIsGivenAway alone does not say so of
\* the rounds that land.
CoinInv ==
    /\ "state" \in DOMAIN flip /\ "state" \in DOMAIN row
    /\ "status" \in DOMAIN coinRound
    /\ flip.state \in {"none", "sent", "waiting", "fulfilled", "settled", "cancelled"}
    /\ Ended(row) => Ended(flip)
    /\ coinRound.status \in {"none", "opening", "waiting", "landing", "done"}
    /\ coinRound.status \in {"landing", "done"} => Ended(flip)
    /\ shown => Ended(flip) /\ coinRound.status \in {"done", "none"}
    /\ InFlight => ~winDismissed

\* The host ends a session once, and does not touch the frame.
LEMMA HostKeepsCoinInv ==
    ASSUME CoinInv, HostStep
    PROVE  CoinInv'
  <1>1. UNCHANGED <<row, coinRound, winDismissed, shown>>
    BY DEF HostStep, SessionOpens, WordArrives, SessionSettles, SessionCancelled,
           PayoutArrives, frameSide
  <1>2. /\ "state" \in DOMAIN flip'
        /\ flip'.state \in {"waiting", "fulfilled", "settled", "cancelled"}
        /\ Ended(flip) => Ended(flip)'
    <2>1. CASE SessionOpens
      BY <2>1 DEF SessionOpens, CoinInv, Ended
    <2>2. CASE WordArrives
      BY <2>2 DEF WordArrives, CoinInv, Ended
    <2>3. ASSUME NEW carries, NEW paid, SessionSettles(carries, paid)
          PROVE  "state" \in DOMAIN flip' /\ flip'.state = "settled"
      BY <2>3 DEF SessionSettles, CoinInv
    <2>4. ASSUME NEW carries, SessionCancelled(carries)
          PROVE  "state" \in DOMAIN flip' /\ flip'.state = "cancelled"
      BY <2>4 DEF SessionCancelled, CoinInv
    <2>5. CASE PayoutArrives
      BY <2>5 DEF PayoutArrives, CoinInv, Ended
    <2> QED
      BY <2>1, <2>2, <2>3, <2>4, <2>5 DEF HostStep, Ended
  <1> QED
    BY <1>1, <1>2 DEF CoinInv, Ended, InFlight

\* Every step of the host and of the frame keeps CoinInv.
LEMMA CoinNextInv ==
    ASSUME CoinInv, [CoinNext]_coinVars
    PROVE  CoinInv'
  <1>1. CASE HostStep
    BY <1>1, HostKeepsCoinInv
  <1>2. CASE Push
    BY <1>2 DEF Push, CoinInv, Ended, InFlight
  <1>3. ASSUME NEW bet \in CoinBets, OpenRound(bet) PROVE CoinInv'
    BY <1>3 DEF OpenRound, CoinInv, Ended, NoFlip, InFlight
  <1>4. CASE Answered
    BY <1>4 DEF Answered, CoinInv, Ended, InFlight
  <1>5. CASE OpenFailed
    BY <1>5 DEF OpenFailed, CoinInv, Ended, NoCoins, InFlight
  <1>6. CASE RunEffects
    <2>1. CASE coinRound.status = "waiting" /\ Ended(row)
      <3>1. SettleFromRow /\ UNCHANGED <<flip, row, winDismissed, shown>>
        BY <1>6, <2>1 DEF RunEffects
      <3>2. \/ UNCHANGED coinRound
            \/ "status" \in DOMAIN coinRound'
               /\ coinRound'.status \in {"none", "landing", "done"}
        BY <3>1 DEF SettleFromRow, NoCoins
      <3> QED
        BY <2>1, <3>1, <3>2 DEF CoinInv, Ended, InFlight
    <2>2. CASE ~(coinRound.status = "waiting" /\ Ended(row))
      BY <1>6, <2>2 DEF RunEffects, CoinInv, Ended, InFlight
    <2> QED
      BY <2>1, <2>2
  <1>7. CASE Finish
    BY <1>7 DEF Finish, CoinInv, Ended, InFlight
  <1>8. CASE DismissWin
    BY <1>8 DEF DismissWin, WinVisible, CoinInv, Ended, InFlight
  <1>9. CASE SetFastMode \/ UNCHANGED coinVars
    BY <1>9 DEF SetFastMode, coinVars, frameSide, CoinInv, Ended, InFlight
  <1> QED
    BY <1>1, <1>2, <1>3, <1>4, <1>5, <1>6, <1>7, <1>8, <1>9 DEF CoinNext

\* CoinInv holds at first.
LEMMA CoinInitInv == CoinInit => CoinInv
  BY DEF CoinInit, CoinInv, NoFlip, NoCoins, Ended, InFlight

\* CoinInv says that nothing is given away.
LEMMA CoinInvMeans == CoinInv => NothingIsGivenAway
  BY DEF CoinInv, NothingIsGivenAway

\* The host is told to release a payout only when the round was seen to its end:
\* the balance must not give the result away during the toss.
\* Code: revealOutcome in the effect and in the timer of App.tsx.
THEOREM TheTossKeepsItsSecret == CoinSpec => []NothingIsGivenAway
  <1>1. CoinInv /\ [CoinNext]_coinVars => CoinInv'
    BY CoinNextInv
  <1> QED
    BY <1>1, CoinInitInv, CoinInvMeans, PTL DEF CoinSpec

\* A step to the end of a round leaves the card of its win to be seen.
LEMMA WinKeepsItsCard ==
    ASSUME CoinInv, [CoinNext]_coinVars,
           coinRound.status # "done", coinRound'.status = "done"
    PROVE  ~winDismissed'
  <1>1. UNCHANGED coinRound \/ OpenFailed \/ Answered \/ RunEffects \/ Finish
        \/ \E bet \in CoinBets : OpenRound(bet)
    BY DEF CoinNext, HostStep, SessionOpens, WordArrives, SessionSettles,
           SessionCancelled, PayoutArrives, frameSide, Push, DismissWin, SetFastMode, coinVars
  <1>2. CASE OpenFailed
    BY <1>2 DEF OpenFailed, NoCoins
  <1>3. CASE Answered
    BY <1>3 DEF Answered, CoinInv
  <1>4. ASSUME NEW bet \in CoinBets, OpenRound(bet) PROVE ~winDismissed'
    BY <1>4 DEF OpenRound
  <1>5. CASE RunEffects
    <2>1. coinRound.status = "waiting" /\ UNCHANGED winDismissed
      BY <1>5 DEF RunEffects
    <2> QED
      BY <2>1 DEF CoinInv, InFlight
  <1>6. CASE Finish
    BY <1>6 DEF Finish, CoinInv, InFlight
  <1> QED
    BY <1>1, <1>2, <1>3, <1>4, <1>5, <1>6

\* A win that was seen has its card, whatever was clicked away before.
\* Code: winDismissed in openRound and in the card of App.tsx.
THEOREM EveryWinIsAnnounced == CoinSpec => WinHasItsCard
  <1>1. CoinInv /\ [CoinNext]_coinVars => CoinInv'
    BY CoinNextInv
  <1>2. CoinInv /\ [CoinNext]_coinVars =>
            [coinRound.status # "done" /\ coinRound'.status = "done" /\ coinRound'.outcome.won
                 => ~winDismissed']_coinVars
    BY WinKeepsItsCard
  <1> QED
    BY <1>1, <1>2, CoinInitInv, PTL DEF CoinSpec, WinHasItsCard

-----------------------------------------------------------------------------
\* The faces that show the picked side.
Hits(bet, outcome) == {i \in 1..bet.coins : outcome.faces[i] = PickedSide(bet)}

\* Coins thrown by a word show as many hits as they are scored with.
LEMMA ThrownCoinsAreScored ==
    ASSUME NEW bet, NEW word, bet.coins \in Nat
    PROVE  Cardinality(Hits(bet, OutcomeFromRandomness(bet, word)))
               = OutcomeFromRandomness(bet, word).hits
  <1> DEFINE all == 1..bet.coins
             heads == word \cap all
             outcome == OutcomeFromRandomness(bet, word)
  <1>1. outcome.faces = Faces(bet, word)
        /\ outcome.hits = IF bet.heads THEN Cardinality(heads)
                          ELSE bet.coins - Cardinality(heads)
    BY DEF OutcomeFromRandomness, Outcome
  <1>2. IsFiniteSet(all) /\ Cardinality(all) = bet.coins
    BY FS_Interval
  <1> HIDE DEF outcome
  <1>3. CASE bet.heads
    <2>1. Hits(bet, outcome) = heads
      BY <1>1, <1>3 DEF Hits, Faces, PickedSide
    <2> QED
      BY <1>1, <1>3, <2>1 DEF outcome
  <1>4. CASE ~bet.heads
    <2>1. Hits(bet, outcome) = all \ heads
      BY <1>1, <1>4 DEF Hits, Faces, PickedSide
    <2>2. heads = all \cap heads
      OBVIOUS
    <2>3. IsFiniteSet(heads) /\ Cardinality(heads) \in Nat
      <3>1. heads \in SUBSET all
        OBVIOUS
      <3> QED
        BY <1>2, <3>1, FS_Subset, FS_CardinalityType
    <2> HIDE DEF all, heads
    <2>4. Cardinality(all \ heads) = Cardinality(all) - Cardinality(all \cap heads)
      BY <1>2, <2>3, FS_Difference
    <2> QED
      BY <1>1, <1>2, <1>4, <2>1, <2>2, <2>4 DEF outcome
  <1> QED
    BY <1>3, <1>4

\* Faces made up for a result show a win exactly for a win.
LEMMA MadeUpCoinsAreScored ==
    ASSUME NEW bet, NEW won \in BOOLEAN, bet.coins \in Nat, bet.need \in 1..bet.coins
    PROVE  Cardinality(Hits(bet, OutcomeFromResult(bet, won))) >= bet.need <=> won
  <1> DEFINE h == IF won THEN bet.need ELSE IF bet.need > 1 THEN bet.need - 1 ELSE 0
             outcome == OutcomeFromResult(bet, won)
  <1>1. outcome.faces = [i \in 1..bet.coins |-> IF i <= h THEN PickedSide(bet)
                                                ELSE OtherSide(bet)]
    BY DEF OutcomeFromResult
  <1>2. PickedSide(bet) # OtherSide(bet)
    BY DEF PickedSide, OtherSide
  <1>3. h \in Nat /\ h <= bet.coins /\ (h >= bet.need <=> won)
    OBVIOUS
  <1> HIDE DEF h, outcome
  <1>4. Hits(bet, outcome) = 1..h
    BY <1>1, <1>2, <1>3 DEF Hits
  <1>5. Cardinality(1..h) = h
    BY <1>3, FS_Interval
  <1> QED
    BY <1>3, <1>4, <1>5 DEF outcome

-----------------------------------------------------------------------------
\* A session that was mined, one whose call is under way, and rounds.
MinedFlips == [state : {"waiting", "fulfilled", "settled", "cancelled"}, bet : CoinBets,
          word : SUBSET Int, carries : {"state", "word", "nothing"}, paid : BOOLEAN]
SentFlips == [state : {"sent"}, bet : CoinBets]
Flips == {NoFlip} \cup SentFlips \cup MinedFlips
TossFields == {"status", "bet", "outcome", "payout"}

CoinTypes ==
    /\ flip \in Flips /\ row \in Flips
    /\ coinRound.status \in {"opening", "waiting"} =>
           coinRound = [status |-> coinRound.status, bet |-> flip.bet]
    /\ Tossed => /\ coinRound.bet = flip.bet
                 /\ coinRound = [f \in TossFields |-> coinRound[f]]
    /\ coinRound.status # "none" => flip # NoFlip

\* The word of a session is one of its coins.
WordFits ==
    flip.state \in {"fulfilled", "settled"} => flip.word \in SUBSET (1..flip.bet.coins)

\* A row that has ended is the session's, though its payout may be late.
RowIsLate ==
    Ended(row) =>
        /\ row.state = flip.state /\ row.bet = flip.bet
        /\ row.word = flip.word /\ row.carries = flip.carries
        /\ row.paid => flip.paid

\* The outcome of a toss is that of the word, or is made up for the result.
TossIsTrue ==
    Tossed /\ flip.state = "settled" =>
        /\ \/ coinRound.outcome = OutcomeFromRandomness(flip.bet, flip.word)
           \/ coinRound.outcome = OutcomeFromResult(flip.bet, Won(flip))
        /\ coinRound.payout = Payout(flip)

CoinTruth == CoinInv /\ CoinTypes /\ WordFits /\ RowIsLate /\ TossIsTrue

\* Whether a session has ended, and what it decided, in each kind of state.
LEMMA FlipShapes ==
    /\ NoFlip.state = "none" /\ ~Ended(NoFlip)
    /\ \A f \in SentFlips : f.state = "sent" /\ ~Ended(f) /\ f.bet \in CoinBets /\ f # NoFlip
    /\ \A f \in MinedFlips : /\ f.state \in {"waiting", "fulfilled", "settled", "cancelled"}
                        /\ f.bet \in CoinBets /\ f # NoFlip
                        /\ f.word \in SUBSET Int /\ f.paid \in BOOLEAN
    /\ \A f \in Flips : Ended(f) => f \in MinedFlips
  BY DEF NoFlip, SentFlips, MinedFlips, Flips, Ended

\* CoinTruth holds at first.
LEMMA CoinTruthAtFirst == CoinInit => CoinTruth
  BY CoinInitInv, FlipShapes
     DEF CoinInit, CoinTruth, CoinTypes, WordFits, RowIsLate, TossIsTrue, Flips,
         Tossed, NoCoins, NoFlip, Ended

\* What the host does to a session.
LEMMA HostOnFlip ==
    ASSUME CoinTruth, HostStep
    PROVE  /\ UNCHANGED <<row, coinRound, shown>>
           /\ flip # NoFlip /\ flip' \in MinedFlips /\ flip'.bet = flip.bet
           /\ flip'.state \in {"fulfilled", "settled"} =>
                  flip'.word \in SUBSET (1..flip.bet.coins)
           /\ Ended(flip) => /\ flip'.state = flip.state /\ flip'.word = flip.word
                             /\ flip'.carries = flip.carries /\ flip'.paid
  <1> USE FlipShapes
  <1>1. UNCHANGED <<row, coinRound, shown>>
    BY DEF HostStep, SessionOpens, WordArrives, SessionSettles, SessionCancelled,
           PayoutArrives, frameSide
  <1>2. CASE SessionOpens
    <2>1. flip \in SentFlips
      BY <1>2 DEF SessionOpens, CoinTruth, CoinTypes, Flips
    <2>2. NoWord \in SUBSET Int
      BY DEF NoWord
    <2> QED
      BY <1>1, <1>2, <2>1, <2>2 DEF SessionOpens, MinedFlips, Ended
  <1>3. CASE WordArrives
    <2>1. flip \in MinedFlips /\ flip.state = "waiting"
      BY <1>3 DEF WordArrives, CoinTruth, CoinTypes, Flips
    <2>2. PICK word \in SUBSET (1..flip.bet.coins) :
              flip' = [flip EXCEPT !.state = "fulfilled", !.word = word]
      BY <1>3 DEF WordArrives
    <2>3. word \in SUBSET Int
      OBVIOUS
    <2> QED
      BY <1>1, <2>1, <2>2, <2>3 DEF MinedFlips, Ended
  <1>4. ASSUME NEW carries \in {"state", "word", "nothing"}, NEW paid \in BOOLEAN,
               SessionSettles(carries, paid)
        PROVE  /\ flip # NoFlip /\ flip' \in MinedFlips /\ flip'.bet = flip.bet
               /\ flip'.word \in SUBSET (1..flip.bet.coins) /\ ~Ended(flip)
    <2>1. flip \in MinedFlips /\ flip.state = "fulfilled"
      BY <1>4 DEF SessionSettles, CoinTruth, CoinTypes, Flips
    <2> QED
      BY <1>4, <2>1 DEF SessionSettles, CoinTruth, WordFits, MinedFlips, Ended
  <1>5. ASSUME NEW carries \in {"state", "nothing"}, SessionCancelled(carries)
        PROVE  /\ flip # NoFlip /\ flip' \in MinedFlips /\ flip'.bet = flip.bet
               /\ flip'.state = "cancelled" /\ ~Ended(flip)
    <2>1. flip \in MinedFlips /\ flip.state = "waiting"
      BY <1>5 DEF SessionCancelled, CoinTruth, CoinTypes, Flips
    <2> QED
      BY <1>5, <2>1 DEF SessionCancelled, MinedFlips, Ended
  <1>6. CASE PayoutArrives
    <2>1. flip \in MinedFlips /\ Ended(flip) /\ flip' = [flip EXCEPT !.paid = TRUE]
      BY <1>6 DEF PayoutArrives, CoinTruth, CoinTypes
    <2> QED
      BY <1>1, <2>1 DEF CoinTruth, WordFits, MinedFlips
  <1> QED
    BY <1>1, <1>2, <1>3, <1>4, <1>5, <1>6 DEF HostStep

\* The host never changes what a toss has shown.
LEMMA HostKeepsTruth ==
    ASSUME CoinTruth, HostStep
    PROVE  CoinTruth'
  <1>1. /\ UNCHANGED <<row, coinRound, shown>>
        /\ flip # NoFlip /\ flip' \in MinedFlips /\ flip'.bet = flip.bet
        /\ flip'.state \in {"fulfilled", "settled"} =>
               flip'.word \in SUBSET (1..flip.bet.coins)
        /\ Ended(flip) => /\ flip'.state = flip.state /\ flip'.word = flip.word
                          /\ flip'.carries = flip.carries /\ flip'.paid
    BY HostOnFlip
  <1>2. CoinInv'
    BY HostKeepsCoinInv DEF CoinTruth
  <1>3. CoinTypes'
    BY <1>1, FlipShapes DEF CoinTruth, CoinTypes, Flips, Tossed, TossFields
  <1>4. WordFits' /\ RowIsLate'
    BY <1>1 DEF CoinTruth, CoinInv, WordFits, RowIsLate, Ended
  <1>5. TossIsTrue'
    <2>1. SUFFICES ASSUME Tossed, flip'.state = "settled"
                   PROVE  TossIsTrue'
      BY <1>1 DEF TossIsTrue, Tossed
    <2>2. Ended(flip) /\ flip.state = "settled" /\ flip'.word = flip.word
      BY <1>1, <2>1 DEF CoinTruth, CoinInv, Tossed
    <2>3. Won(flip)' = Won(flip) /\ Payout(flip)' = Payout(flip)
      BY <1>1, <2>2 DEF Won, Payout
    <2> QED
      BY <1>1, <2>1, <2>2, <2>3 DEF CoinTruth, TossIsTrue, Tossed
  <1> QED
    BY <1>2, <1>3, <1>4, <1>5 DEF CoinTruth

\* What the effect makes of a row that has ended.
LEMMA OutcomeOfRow ==
    ASSUME CoinAssumption, CoinTruth, coinRound.status = "waiting", Ended(row),
           NEW outcome, outcome = OutcomeOf(coinRound, row), outcome # NoOutcome,
           flip.state = "settled"
    PROVE  /\ \/ outcome = OutcomeFromRandomness(flip.bet, flip.word)
              \/ outcome = OutcomeFromResult(flip.bet, Won(flip))
           /\ PayoutShown(row, outcome) = Payout(flip)
  <1> DEFINE best == MaxPayout(CoinWager, flip.bet.coins, flip.bet.need)
  <1>1. /\ row.state = "settled" /\ row.bet = flip.bet /\ row.word = flip.word
        /\ row.paid \in BOOLEAN
        /\ flip.bet \in CoinBets /\ coinRound.bet = flip.bet
    BY FlipShapes DEF CoinTruth, CoinTypes, RowIsLate, Flips
  <1>2. best > 0
    BY <1>1 DEF CoinAssumption, WinsPay
  <1>3. Won(flip) \in BOOLEAN /\ Won(row) = Won(flip)
    BY <1>1 DEF Won, OutcomeFromRandomness, Outcome
  <1>4. Payout(flip) = (IF Won(flip) THEN best ELSE 0) /\ Payout(row) = Payout(flip)
    BY <1>1, <1>3 DEF Payout
  <1>5. Payout(row) > 0 <=> Won(flip)
    BY <1>2, <1>4
  <1>6. OutcomeFromRandomness(flip.bet, flip.word).won <=> Won(flip)
    BY DEF Won
  <1>7. OutcomeFromResult(flip.bet, Won(flip)).won <=> Won(flip)
    BY DEF OutcomeFromResult
  <1>8. \/ outcome = OutcomeFromRandomness(flip.bet, flip.word)
        \/ outcome = OutcomeFromResult(flip.bet, Won(flip))
    <2>1. (Payout(row) > 0) = Won(flip)
      BY <1>3, <1>5
    <2> QED
      BY <1>1, <2>1 DEF OutcomeOf
  <1>9. outcome.won <=> Won(flip)
    BY <1>6, <1>7, <1>8
  <1>10. PayoutShown(row, outcome) = Payout(flip)
    BY <1>1, <1>4, <1>5, <1>9 DEF PayoutShown
  <1> QED
    BY <1>8, <1>10

\* The effects settle a round by what the chain decided.
LEMMA EffectsKeepTruth ==
    ASSUME CoinAssumption, CoinTruth, RunEffects
    PROVE  CoinTruth'
  <1>1. CoinInv'
    <2>1. CoinNext
      BY DEF CoinNext
    <2> QED
      BY <2>1, CoinNextInv DEF CoinTruth
  <1>2. UNCHANGED <<flip, row>>
    BY DEF RunEffects
  <1>3. WordFits' /\ RowIsLate'
    BY <1>2 DEF CoinTruth, WordFits, RowIsLate, Ended
  <1>4. CASE UNCHANGED coinRound
    BY <1>1, <1>2, <1>3, <1>4
       DEF CoinTruth, CoinTypes, TossIsTrue, Tossed, TossFields, Won, Payout
  <1>5. CASE coinRound' = NoCoins
    BY <1>1, <1>2, <1>3, <1>5
       DEF CoinTruth, CoinTypes, TossIsTrue, Tossed, NoCoins
  <1>6. CASE coinRound' # coinRound /\ coinRound' # NoCoins
    <2> DEFINE outcome == OutcomeOf(coinRound, row)
               status == IF fastMode THEN "done" ELSE "landing"
    <2>1. coinRound.status = "waiting" /\ Ended(row)
      BY <1>6 DEF RunEffects
    <2>2. /\ outcome # NoOutcome
          /\ coinRound' = [status |-> status, bet |-> coinRound.bet, outcome |-> outcome,
                           payout |-> PayoutShown(row, outcome)]
      BY <1>6, <2>1 DEF RunEffects, SettleFromRow
    <2>3. flip.state = "settled" =>
            /\ \/ outcome = OutcomeFromRandomness(flip.bet, flip.word)
               \/ outcome = OutcomeFromResult(flip.bet, Won(flip))
            /\ PayoutShown(row, outcome) = Payout(flip)
      BY <2>1, <2>2, OutcomeOfRow
    <2>4. coinRound.bet = flip.bet /\ flip # NoFlip
      BY <2>1 DEF CoinTruth, CoinTypes
    <2> HIDE DEF outcome
    <2>5. /\ coinRound'.status \in {"landing", "done"} /\ coinRound'.bet = flip.bet
          /\ coinRound'.outcome = outcome /\ coinRound'.payout = PayoutShown(row, outcome)
          /\ coinRound' = [f \in TossFields |-> coinRound'[f]]
      BY <2>2, <2>4 DEF TossFields
    <2>6. CoinTypes'
      BY <1>2, <2>4, <2>5 DEF CoinTruth, CoinTypes, Flips, Tossed, TossFields
    <2>7. TossIsTrue'
      BY <1>2, <2>3, <2>5 DEF TossIsTrue, Won, Payout
    <2> QED
      BY <1>1, <1>3, <2>6, <2>7 DEF CoinTruth
  <1> QED
    BY <1>4, <1>5, <1>6

\* Every step of the host and of the frame keeps CoinTruth.
LEMMA CoinTruthStays ==
    ASSUME CoinAssumption, CoinTruth, [CoinNext]_coinVars
    PROVE  CoinTruth'
  <1>a. CoinInv'
    BY CoinNextInv DEF CoinTruth
  <1>1. CASE HostStep
    BY <1>1, HostKeepsTruth
  <1>2. CASE Push
    <2>1. row' = flip /\ UNCHANGED <<flip, coinRound>>
      BY <1>2 DEF Push
    <2> QED
      BY <1>a, <2>1 DEF CoinTruth, CoinTypes, WordFits, RowIsLate, TossIsTrue, Tossed,
                        TossFields, Won, Payout, Ended
  <1>3. ASSUME NEW bet \in CoinBets, OpenRound(bet) PROVE CoinTruth'
    <2>1. /\ coinRound' = [status |-> "opening", bet |-> bet]
          /\ flip' = [state |-> "sent", bet |-> bet] /\ row' = NoFlip
      BY <1>3 DEF OpenRound
    <2>2. flip' \in SentFlips /\ flip' # NoFlip /\ row' \in Flips /\ ~Ended(row')
      BY <2>1 DEF SentFlips, Flips, NoFlip, Ended
    <2> QED
      BY <1>a, <2>1, <2>2 DEF CoinTruth, CoinTypes, WordFits, RowIsLate, TossIsTrue,
                              Tossed, Flips, Ended
  <1>4. CASE Answered
    <2>1. coinRound' = [status |-> "waiting", bet |-> flip.bet] /\ UNCHANGED <<flip, row>>
      BY <1>4 DEF Answered, CoinTruth, CoinTypes
    <2>2. flip # NoFlip
      BY <1>4 DEF Answered, CoinTruth, CoinTypes
    <2> QED
      BY <1>a, <2>1, <2>2 DEF CoinTruth, CoinTypes, WordFits, RowIsLate, TossIsTrue,
                              Tossed, Ended, Flips
  <1>5. CASE OpenFailed
    BY <1>a, <1>5 DEF OpenFailed, NoCoins, CoinTruth, CoinTypes, WordFits, RowIsLate,
                      TossIsTrue, Tossed, Ended
  <1>6. CASE RunEffects
    BY <1>6, EffectsKeepTruth
  <1>7. CASE Finish
    <2>1. /\ coinRound.status = "landing" /\ UNCHANGED <<flip, row>>
          /\ coinRound' = [coinRound EXCEPT !.status = "done"]
      BY <1>7 DEF Finish
    <2>2. /\ coinRound = [f \in TossFields |-> coinRound[f]] /\ flip # NoFlip
          /\ coinRound.bet = flip.bet
      BY <2>1 DEF CoinTruth, CoinTypes, Tossed
    <2>3. /\ coinRound'.status = "done" /\ coinRound'.bet = flip.bet
          /\ coinRound'.outcome = coinRound.outcome
          /\ coinRound'.payout = coinRound.payout
          /\ coinRound' = [f \in TossFields |-> coinRound'[f]]
      BY <2>1, <2>2 DEF TossFields
    <2>4. CoinTypes'
      BY <2>1, <2>2, <2>3 DEF CoinTruth, CoinTypes, Tossed, Flips, TossFields
    <2>5. TossIsTrue'
      BY <2>1, <2>3 DEF CoinTruth, TossIsTrue, Tossed, Won, Payout
    <2> QED
      BY <1>a, <2>1, <2>4, <2>5 DEF CoinTruth, WordFits, RowIsLate, Ended
  <1>8. CASE DismissWin \/ SetFastMode \/ UNCHANGED coinVars
    <2>1. UNCHANGED <<flip, row, coinRound>>
      BY <1>8 DEF DismissWin, SetFastMode, coinVars, frameSide
    <2> QED
      BY <1>a, <2>1 DEF CoinTruth, CoinTypes, WordFits, RowIsLate, TossIsTrue, Tossed,
                        TossFields, Won, Payout, Ended, Flips
  <1> QED
    BY <1>1, <1>2, <1>3, <1>4, <1>5, <1>6, <1>7, <1>8 DEF CoinNext

\* A toss that is true shows what the chain decided.
LEMMA TrueTossesTell ==
    ASSUME CoinAssumption, CoinTruth
    PROVE  CoinsTellTheTruth
  <1> SUFFICES ASSUME Tossed, flip.state = "settled"
               PROVE  /\ Won(flip) <=> Cardinality(Hits(flip.bet, coinRound.outcome))
                                           >= flip.bet.need
                      /\ Won(flip) <=> coinRound.outcome.won
                      /\ coinRound.payout = Payout(flip)
    BY DEF CoinsTellTheTruth, Hits
  <1>1. flip.bet \in CoinBets
    BY FlipShapes DEF CoinTruth, CoinTypes, Flips
  <1>2. flip.bet.coins \in Nat /\ flip.bet.need \in 1..flip.bet.coins
    BY <1>1 DEF CoinAssumption
  <1>3. Won(flip) \in BOOLEAN /\ (Won(flip) <=> OutcomeFromRandomness(flip.bet, flip.word).won)
    BY DEF Won, OutcomeFromRandomness, Outcome
  <1>4. coinRound.payout = Payout(flip)
    BY DEF CoinTruth, TossIsTrue
  <1>5. CASE coinRound.outcome = OutcomeFromRandomness(flip.bet, flip.word)
    <2>1. coinRound.outcome.won <=> coinRound.outcome.hits >= flip.bet.need
      <3>1. \A faces, hits : Outcome(flip.bet, faces, hits).won
                             = (Outcome(flip.bet, faces, hits).hits >= flip.bet.need)
        BY DEF Outcome
      <3>2. PICK faces, hits : coinRound.outcome = Outcome(flip.bet, faces, hits)
        BY <1>5 DEF OutcomeFromRandomness
      <3> QED
        BY <3>1, <3>2
    <2>2. Cardinality(Hits(flip.bet, coinRound.outcome)) = coinRound.outcome.hits
      BY <1>2, <1>5, ThrownCoinsAreScored
    <2> QED
      BY <1>3, <1>4, <1>5, <2>1, <2>2
  <1>6. CASE coinRound.outcome = OutcomeFromResult(flip.bet, Won(flip))
    <2>1. coinRound.outcome.won <=> Won(flip)
      BY <1>6 DEF OutcomeFromResult
    <2>2. Cardinality(Hits(flip.bet, coinRound.outcome)) >= flip.bet.need <=> Won(flip)
      BY <1>2, <1>3, <1>6, MadeUpCoinsAreScored
    <2> QED
      BY <1>4, <2>1, <2>2
  <1> QED
    BY <1>5, <1>6 DEF CoinTruth, TossIsTrue

\* What the coins and the card show of a session that settled is what the chain
\* decided and pays, from whichever source the faces came and before the payout
\* is in the row as well as after.  Code: the settling effect of App.tsx with
\* outcomeFromRandomness, outcomeFromResult and maxPayout.
THEOREM TheCoinsAreHonest ==
    ASSUME CoinAssumption
    PROVE  CoinSpec => []CoinsTellTheTruth
  <1>1. CoinTruth /\ [CoinNext]_coinVars => CoinTruth'
    BY CoinTruthStays
  <1>2. CoinTruth => CoinsTellTheTruth
    BY TrueTossesTell
  <1> QED
    BY <1>1, <1>2, CoinTruthAtFirst, PTL DEF CoinSpec

-----------------------------------------------------------------------------
(***************************************************************************)
(* The numbers of a coin flip: for every bet the form could allow, and any *)
(* limits of a host.                                                       *)
(***************************************************************************)

\* A product divides evenly.
LEMMA ProductDivides ==
    ASSUME NEW i \in Nat \ {0}, NEW x \in Nat
    PROVE  (i * x) \div i = x
  BY Z3

\* A quotient of natural numbers is one.
LEMMA QuotientType ==
    ASSUME NEW i \in Nat \ {0}, NEW x \in Nat
    PROVE  x \div i \in Nat
  BY Z3

\* nCk counts the ways to pick: none of its divisions has a remainder.
LEMMA NCkCounts ==
    ASSUME NEW n \in Nat, NEW k \in Nat
    PROVE  NCk(n, k) = WaysToPick(n, k)
  <1> DEFINE short == IF k < n - k THEN k ELSE n - k
             Steps(p) == p = [i \in 0..n |-> IF i = 0 THEN 1
                                             ELSE (p[i - 1] * (n - short + i)) \div i]
             product == CHOOSE p : Steps(p)
  <1>1. NCk(n, k) = IF k > n THEN 0 ELSE product[short]
    BY DEF NCk
  <1>2. CASE k > n
    BY <1>1, <1>2, WaysAtTheEnds
  <1>3. CASE k <= n
    <2>1. PICK m \in Nat : m = n - short /\ short \in 0..n /\ m + short = n
      <3>1. short \in Nat /\ n - short \in Nat /\ short <= n
        BY <1>3
      <3>2. (n - short) + short = n
        BY <3>1
      <3> HIDE DEF short
      <3> QED
        BY <3>1, <3>2
    <2>2. short = k \/ short = n - k
      OBVIOUS
    <2> HIDE DEF short
    <2>3. \E p : Steps(p)
      <3> DEFINE F == [x \in Nat \X Nat |-> IF x[1] = 0 THEN 0 ELSE (x[2] * (m + x[1])) \div x[1]]
      <3>1. F \in [Nat \X Nat -> Nat]
        <4>1. ASSUME NEW i \in Nat \ {0}, NEW v \in Nat
              PROVE  (v * (m + i)) \div i \in Nat
          <5>1. v * (m + i) \in Nat
            OBVIOUS
          <5> QED
            BY <5>1, QuotientType
        <4> QED
          BY <4>1
      <3>2. \A i \in Nat \ {0}, v \in Nat : F[<<i, v>>] = (v * (m + i)) \div i
        OBVIOUS
      <3> HIDE DEF F
      <3>3. PICK g \in [0..n -> Nat] : g[0] = 1 /\ \A i \in 1..n : g[i] = F[<<i, g[i - 1]>>]
        <4>1. 1 \in Nat
          OBVIOUS
        <4> QED
          BY <3>1, <4>1, RecursionExists, ZenonT(40)
      <3>4. ASSUME NEW i \in 0..n
            PROVE  g[i] = IF i = 0 THEN 1 ELSE (g[i - 1] * (n - short + i)) \div i
        <4>1. CASE i = 0
          BY <3>3, <4>1
        <4>2. CASE i # 0
          <5>1. i \in 1..n /\ i \in Nat \ {0} /\ g[i - 1] \in Nat /\ n - short = m
            BY <2>1, <3>3, <4>2
          <5>2. g[i] = (g[i - 1] * (m + i)) \div i
            BY <3>2, <3>3, <5>1
          <5> QED
            BY <4>2, <5>1, <5>2
        <4> QED
          BY <4>1, <4>2
      <3>5. Steps(g)
        BY <3>3, <3>4
      <3> QED
        BY <3>5
    <2>4. Steps(product)
      <3> HIDE DEF Steps
      <3> QED
        BY <2>3
    <2> HIDE DEF product
    <2> DEFINE S == {i \in Nat : i <= n => product[i] = WaysToPick(m + i, i)}
    <2>5. 0 \in S
      BY <2>4, WaysAtTheEnds
    <2>6. ASSUME NEW i \in Nat, i \in S
          PROVE  i + 1 \in S
      <3> SUFFICES ASSUME i + 1 <= n
                   PROVE  product[i + 1] = WaysToPick(m + (i + 1), i + 1)
        OBVIOUS
      <3>1. PICK j, r : j = i + 1 /\ r = m + j
        OBVIOUS
      <3>2. /\ j \in 0..n /\ j \in Nat \ {0} /\ r \in Nat \ {0}
            /\ j - 1 = i /\ r - 1 = m + i /\ n - short = m
        BY <2>1, <3>1
      <3>3. product[j] = (product[i] * r) \div j
        BY <2>4, <3>1, <3>2
      <3>4. product[i] = WaysToPick(r - 1, j - 1)
        BY <2>6, <3>1, <3>2
      <3>5. j * WaysToPick(r, j) = r * WaysToPick(r - 1, j - 1)
        BY <3>2, WaysAbsorb
      <3>6. WaysToPick(r, j) \in Nat /\ WaysToPick(r - 1, j - 1) \in Nat
        BY <3>2, PicksAreFinite
      <3>7. product[i] * r = j * WaysToPick(r, j)
        BY <3>2, <3>4, <3>5, <3>6
      <3>8. (j * WaysToPick(r, j)) \div j = WaysToPick(r, j)
        BY <3>2, <3>6, ProductDivides
      <3>9. product[j] = WaysToPick(r, j)
        BY <3>3, <3>7, <3>8
      <3> QED
        BY <3>1, <3>9
    <2>7. short \in S
      <3> HIDE DEF S
      <3>1. Nat \subseteq S
        BY <2>5, <2>6, NumbersInduction
      <3> QED
        BY <2>1, <3>1
    <2>8. product[short] = WaysToPick(n, short)
      BY <2>1, <2>7
    <2>9. WaysToPick(n, short) = WaysToPick(n, k)
      <3>1. CASE short = k
        BY <3>1
      <3>2. CASE short # k
        <4>1. k \in 0..n /\ short = n - k
          BY <1>3, <2>2, <3>2
        <4> QED
          BY <4>1, WaysMirror
      <3> QED
        BY <3>1, <3>2
    <2> QED
      BY <1>1, <1>3, <2>8, <2>9
  <1> QED
    BY <1>2, <1>3

\* winningWays counts the words with enough hits.
LEMMA WinningWaysCount ==
    ASSUME NEW n \in Nat, NEW need \in Nat
    PROVE  /\ WinningWays(n, need)
                = Cardinality({T \in SUBSET (1..n) : Cardinality(T) >= need})
           /\ WinningWays(n, need) \in Nat
  <1> DEFINE Steps(p) == p = [w \in 0..n |->
                                 IF w < need THEN 0
                                 ELSE NCk(n, w) + (IF w = 0 THEN 0 ELSE p[w - 1])]
             sum == CHOOSE p : Steps(p)
             Enough(w) == {T \in SUBSET (1..n) : Cardinality(T) >= need /\ Cardinality(T) <= w}
  <1>1. WinningWays(n, need) = sum[n]
    BY DEF WinningWays
  <1>2. \A w \in Nat : NCk(n, w) = WaysToPick(n, w) /\ NCk(n, w) \in Nat
    BY NCkCounts, PicksAreFinite
  <1>3. \E p : Steps(p)
    <2> DEFINE a == IF 0 < need THEN 0 ELSE NCk(n, 0)
               F == [x \in Nat \X Nat |-> IF x[1] < need THEN 0 ELSE NCk(n, x[1]) + x[2]]
    <2>1. a \in Nat /\ F \in [Nat \X Nat -> Nat]
      BY <1>2
    <2>2. \A i \in Nat, v \in Nat : F[<<i, v>>] = IF i < need THEN 0 ELSE NCk(n, i) + v
      OBVIOUS
    <2>3. a = IF 0 < need THEN 0 ELSE NCk(n, 0)
      OBVIOUS
    <2> HIDE DEF F, a
    <2>4. PICK g \in [0..n -> Nat] : g[0] = a /\ \A i \in 1..n : g[i] = F[<<i, g[i - 1]>>]
      BY <2>1, RecursionExists, ZenonT(40)
    <2>5. ASSUME NEW w \in 0..n
          PROVE  g[w] = IF w < need THEN 0 ELSE NCk(n, w) + (IF w = 0 THEN 0 ELSE g[w - 1])
      <3>1. CASE w = 0
        <4>1. NCk(n, 0) + 0 = NCk(n, 0)
          BY <1>2
        <4> QED
          BY <2>3, <2>4, <3>1, <4>1
      <3>2. CASE w # 0
        <4>1. w \in 1..n /\ w \in Nat /\ g[w - 1] \in Nat
          BY <2>4, <3>2
        <4> QED
          BY <2>2, <2>4, <3>2, <4>1
      <3> QED
        BY <3>1, <3>2
    <2>6. Steps(g)
      BY <2>4, <2>5
    <2> QED
      BY <2>6
  <1>4. Steps(sum)
    <2> HIDE DEF Steps
    <2> QED
      BY <1>3
  <1> HIDE DEF sum
  <1>5. \A T \in SUBSET (1..n) : Cardinality(T) \in 0..n
    BY PicksAreFinite
  <1>6. IsFiniteSet(SUBSET (1..n)) /\ \A w : IsFiniteSet(Enough(w))
    <2>1. PICK B : B = 1..n /\ IsFiniteSet(B)
      BY FS_Interval
    <2>2. IsFiniteSet(SUBSET B)
      BY <2>1, FS_SUBSET
    <2>3. \A w : Enough(w) \in SUBSET SUBSET B
      BY <2>1
    <2> HIDE DEF Enough
    <2> QED
      BY <2>1, <2>2, <2>3, FS_Subset
  <1> DEFINE S == {w \in Nat : w <= n => sum[w] = Cardinality(Enough(w))}
  <1>7. \A w \in Nat : w < need => Enough(w) = {} /\ Cardinality(Enough(w)) = 0
    <2> SUFFICES ASSUME NEW w \in Nat, w < need
                 PROVE  Enough(w) = {}
      BY FS_EmptySet
    <2> QED
      BY <1>5
  <1>8. 0 \in S
    <2>1. CASE 0 < need
      BY <1>4, <1>7, <2>1
    <2>2. CASE need = 0
      <3>1. sum[0] = WaysToPick(n, 0)
        BY <1>2, <1>4, <2>2
      <3>2. Enough(0) = Picks(n, 0)
        BY <1>5, <2>2 DEF Picks
      <3> QED
        BY <3>1, <3>2 DEF WaysToPick
    <2> QED
      BY <2>1, <2>2
  <1>9. ASSUME NEW v \in Nat, v \in S
        PROVE  v + 1 \in S
    <2> SUFFICES ASSUME v + 1 <= n
                 PROVE  sum[v + 1] = Cardinality(Enough(v + 1))
      OBVIOUS
    <2>1. PICK w : w = v + 1 /\ w \in 0..n /\ w # 0 /\ w - 1 = v
      OBVIOUS
    <2>2. sum[v] = Cardinality(Enough(v))
      BY <1>9
    <2>3. CASE w < need
      BY <1>4, <1>7, <2>1, <2>3
    <2>4. CASE w >= need
      <3>1. sum[w] = WaysToPick(n, w) + Cardinality(Enough(v))
        BY <1>2, <1>4, <2>1, <2>2, <2>4
      <3>2. Enough(w) = Picks(n, w) \cup Enough(v) /\ Picks(n, w) \cap Enough(v) = {}
        BY <1>5, <2>1, <2>4 DEF Picks
      <3>3. IsFiniteSet(Picks(n, w)) /\ WaysToPick(n, w) \in Nat
        BY PicksAreFinite
      <3>4. IsFiniteSet(Enough(v)) /\ Cardinality(Enough(v)) \in Nat /\ Cardinality({}) = 0
        BY <1>6, FS_CardinalityType, FS_EmptySet
      <3> HIDE DEF Enough
      <3>5. Cardinality(Picks(n, w) \cup Enough(v))
              = Cardinality(Picks(n, w)) + Cardinality(Enough(v))
                  - Cardinality(Picks(n, w) \cap Enough(v))
        BY <3>3, <3>4, FS_Union
      <3>6. Cardinality(Picks(n, w) \cap Enough(v)) = 0
        BY <3>2, <3>4
      <3>7. Cardinality(Enough(w)) = Cardinality(Picks(n, w) \cup Enough(v))
        BY <3>2
      <3> QED
        BY <2>1, <3>1, <3>3, <3>4, <3>5, <3>6, <3>7 DEF WaysToPick
    <2> QED
      BY <2>1, <2>3, <2>4
  <1>10. n \in S
    <2> HIDE DEF S
    <2>1. Nat \subseteq S
      BY <1>8, <1>9, NumbersInduction
    <2> QED
      BY <2>1
  <1>11. Enough(n) = {T \in SUBSET (1..n) : Cardinality(T) >= need}
    BY <1>5
  <1>12. Cardinality(Enough(n)) \in Nat
    <2>1. IsFiniteSet(Enough(n))
      BY <1>6
    <2> HIDE DEF Enough
    <2> QED
      BY <2>1, FS_CardinalityType
  <1>13. sum[n] = Cardinality(Enough(n))
    BY <1>10
  <1> QED
    BY <1>1, <1>11, <1>12, <1>13

\* A bet the form allows.
IsBet(bet) == bet.coins \in Nat /\ bet.need \in 1..bet.coins /\ bet.heads \in BOOLEAN

\* The payout is divided by the number of words that win.
LEMMA WaysCount ==
    ASSUME NEW bet, IsBet(bet)
    PROVE  /\ WaysAreCounted(bet)
           /\ WinningWays(bet.coins, bet.need) \in Nat \ {0}
  <1> DEFINE n == bet.coins
             S == 1..n
             Wins == {T \in SUBSET S : OutcomeFromRandomness(bet, T).won}
             Enough == {T \in SUBSET S : Cardinality(T) >= bet.need}
  <1>1. n \in Nat /\ bet.need \in 1..n /\ bet.need \in Nat /\ bet.heads \in BOOLEAN
    BY DEF IsBet
  <1>2. IsFiniteSet(S) /\ Cardinality(S) = n /\ IsFiniteSet(SUBSET S)
    <2>1. IsFiniteSet(S) /\ Cardinality(S) = n
      <3> HIDE DEF n
      <3> QED
        BY <1>1, FS_Interval
    <2> HIDE DEF S
    <2> QED
      BY <2>1, FS_SUBSET
  <1>3. \A T \in SUBSET S : IsFiniteSet(T) /\ Cardinality(T) \in 0..n
    BY <1>1, PicksAreFinite
  <1>4. WinningWays(n, bet.need) = Cardinality(Enough)
    BY <1>1, WinningWaysCount
  <1>5. WinningWays(n, bet.need) \in Nat
    BY <1>1, WinningWaysCount
  <1>6. ASSUME NEW T \in SUBSET S
        PROVE  OutcomeFromRandomness(bet, T).won
                 <=> (IF bet.heads THEN Cardinality(T) ELSE n - Cardinality(T)) >= bet.need
    <2>1. T \cap 1..bet.coins = T
      OBVIOUS
    <2> QED
      BY <2>1 DEF OutcomeFromRandomness, Outcome
  <1> HIDE DEF S
  <1>7. Cardinality(Wins) = Cardinality(Enough)
    <2>1. CASE bet.heads = TRUE
      <3>1. Wins = Enough
        BY <1>6, <2>1
      <3> QED
        BY <3>1
    <2>2. CASE bet.heads = FALSE
      <3> DEFINE F == [T \in Wins |-> S \ T]
      <3>1. ASSUME NEW T \in SUBSET S
            PROVE  Cardinality(S \ T) = n - Cardinality(T) /\ S \ (S \ T) = T
        <4>1. S \cap T = T /\ S \ (S \ T) = T
          OBVIOUS
        <4>2. Cardinality(S \ T) = Cardinality(S) - Cardinality(S \cap T)
          BY <1>2, FS_Difference
        <4> QED
          BY <1>2, <4>1, <4>2
      <3>2. \A T \in SUBSET S : T \in Wins <=> n - Cardinality(T) >= bet.need
        BY <1>6, <2>2
      <3>3. F \in [Wins -> Enough]
        BY <3>1, <3>2
      <3>4. ASSUME NEW T \in Wins, NEW U \in Wins, F[T] = F[U]
            PROVE  T = U
        <4>1. F[T] = S \ T /\ F[U] = S \ U
          OBVIOUS
        <4>2. T \in SUBSET S /\ U \in SUBSET S
          OBVIOUS
        <4> HIDE DEF F, Wins
        <4> QED
          BY <3>1, <3>4, <4>1, <4>2
      <3>5. ASSUME NEW U \in Enough
            PROVE  \E T \in Wins : F[T] = U
        <4>1. Cardinality(S \ U) = n - Cardinality(U) /\ S \ (S \ U) = U
          BY <3>1
        <4>2. S \ U \in Wins
          BY <1>1, <1>3, <3>2, <4>1
        <4> QED
          BY <4>1, <4>2
      <3>6. IsFiniteSet(Wins)
        <4>1. Wins \in SUBSET SUBSET S
          OBVIOUS
        <4> HIDE DEF Wins
        <4> QED
          BY <1>2, <4>1, FS_Subset
      <3>7. ExistsBijection(Wins, Enough)
        <4> HIDE DEF F, Wins, Enough
        <4>1. F \in Bijection(Wins, Enough)
          BY <3>3, <3>4, <3>5, Fun_IsBij
        <4> QED
          BY <4>1 DEF ExistsBijection
      <3> HIDE DEF Wins, Enough
      <3> QED
        BY <3>6, <3>7, FS_Bijection
    <2> QED
      BY <1>1, <2>1, <2>2
  <1>8. Cardinality(Enough) # 0
    <2>1. S \in Enough
      BY <1>1, <1>2
    <2>2. IsFiniteSet(Enough)
      <3>1. Enough \in SUBSET SUBSET S
        OBVIOUS
      <3> HIDE DEF Enough
      <3> QED
        BY <1>2, <3>1, FS_Subset
    <2> HIDE DEF Enough
    <2> QED
      BY <2>1, <2>2, FS_EmptySet
  <1> QED
    BY <1>4, <1>5, <1>7, <1>8 DEF WaysAreCounted, S

\* The faces that are made up show as many hits as they are scored with.
LEMMA MadeUpCount ==
    ASSUME NEW bet, IsBet(bet)
    PROVE  MadeUpFacesAgree(bet)
  <1> SUFFICES ASSUME NEW won \in BOOLEAN
               PROVE  LET outcome == OutcomeFromResult(bet, won)
                          hits == {i \in 1..bet.coins : outcome.faces[i] = PickedSide(bet)}
                      IN  /\ Cardinality(hits) = outcome.hits
                          /\ won <=> outcome.hits >= bet.need
    BY DEF MadeUpFacesAgree
  <1> DEFINE outcome == OutcomeFromResult(bet, won)
  <1>1. bet.coins \in Nat /\ bet.need \in 1..bet.coins
    BY DEF IsBet
  <1>2. PICK h : h = outcome.hits
    OBVIOUS
  <1>3. h \in 0..bet.coins /\ (won <=> h >= bet.need)
    BY <1>1, <1>2 DEF OutcomeFromResult
  <1>4. \A i \in 1..bet.coins : outcome.faces[i]
            = IF i <= h THEN PickedSide(bet) ELSE OtherSide(bet)
    BY <1>2 DEF OutcomeFromResult
  <1>5. PickedSide(bet) # OtherSide(bet)
    BY DEF PickedSide, OtherSide
  <1>6. {i \in 1..bet.coins : outcome.faces[i] = PickedSide(bet)} = 1..h
    BY <1>1, <1>3, <1>4, <1>5
  <1>7. Cardinality(1..h) = h
    BY <1>3, FS_Interval
  <1> QED
    BY <1>2, <1>3, <1>6, <1>7

\* A quotient that is rounded down is the largest that fits.
LEMMA QuotientBounds ==
    ASSUME NEW x \in Nat, NEW d \in Nat \ {0}
    PROVE  /\ x \div d \in Nat /\ d * (x \div d) <= x
           /\ \A q \in Nat : d * q <= x => q <= x \div d
           /\ x < d * (x \div d) + d
  <1>1. x \div d \in Nat /\ d * (x \div d) <= x /\ x < d * (x \div d) + d
    BY Z3
  <1>2. ASSUME NEW q \in Nat, d * q <= x, q > x \div d
        PROVE  FALSE
    <2>1. q >= (x \div d) + 1
      BY <1>1, <1>2
    <2>2. d * q >= d * ((x \div d) + 1)
      BY <1>1, <2>1, Z3
    <2>3. d * ((x \div d) + 1) = d * (x \div d) + d
      BY <1>1, Z3
    <2> QED
      BY <1>1, <1>2, <2>2, <2>3
  <1> QED
    BY <1>1, <1>2

\* One that is rounded up covers the dividend.
LEMMA CeilCovers ==
    ASSUME NEW x \in Nat, NEW d \in Nat \ {0}
    PROVE  CeilDiv(x, d) \in Nat /\ CeilDiv(x, d) * d >= x
  <1>1. x + d - 1 \in Nat
    OBVIOUS
  <1>2. /\ CeilDiv(x, d) \in Nat
        /\ x + d - 1 < d * CeilDiv(x, d) + d
    BY <1>1, QuotientBounds DEF CeilDiv
  <1>3. d * CeilDiv(x, d) = CeilDiv(x, d) * d
    BY <1>2, Z3
  <1> QED
    BY <1>2, <1>3

\* The payout of a wager is no more than the multiplier in basis points says,
\* when that was rounded up: w wagered, p the power, v the ways, b the
\* multiplier, x the payout.
LEMMA PayoutWithinMultiplier ==
    ASSUME NEW w \in Nat, NEW p \in Nat, NEW v \in Nat \ {0}, NEW b \in Nat,
           b * v >= 9800 * p,
           NEW x, x = (w * 9800 * p) \div (10000 * v)
    PROVE  x \in Nat /\ 10000 * x <= w * b
  <1>1. 10000 * v \in Nat \ {0} /\ w * 9800 * p \in Nat
    BY Z3
  <1>2. x \in Nat /\ (10000 * v) * x <= w * 9800 * p
    BY <1>1, QuotientBounds
  <1>3. w * (9800 * p) <= w * (b * v)
    BY Z3
  <1>4. w * (9800 * p) = w * 9800 * p /\ w * (b * v) = v * (w * b)
        /\ (10000 * v) * x = v * (10000 * x)
    BY <1>2, Z3
  <1>5. v * (10000 * x) <= v * (w * b)
    BY <1>2, <1>3, <1>4, Z3
  <1>6. 10000 * x \in Nat /\ w * b \in Nat
    BY <1>2, Z3
  <1>7. ASSUME 10000 * x > w * b
        PROVE  FALSE
    <2>1. PICK y, z : y = 10000 * x /\ z = w * b
      OBVIOUS
    <2>2. y \in Nat /\ z \in Nat /\ y >= z + 1 /\ v * y <= v * z
      BY <1>5, <1>6, <1>7, <2>1
    <2>3. v * y >= v * (z + 1) /\ v * (z + 1) = v * z + v
      BY <2>2, Z3
    <2>4. v * y \in Int /\ v * z \in Int
      BY <2>2
    <2> QED
      BY <2>2, <2>3, <2>4
  <1> QED
    BY <1>2, <1>6, <1>7

\* The limits a host publishes, or does not.
IsCasino(casino) == casino.maxBet \in Int /\ casino.maxProfit \in Nat \cup {None}

\* What is reserved for a wager is within the limit if the wager times the
\* profit in basis points is.
LEMMA ReservedWithin ==
    ASSUME NEW bet, IsBet(bet), NEW drift \in Nat, NEW w \in Nat, NEW limit \in Nat,
           w * (MultiplierBps(bet.coins, bet.need, drift) - BasisPoints) <= BasisPoints * limit
    PROVE  MaxReservedProfit(w, bet.coins, bet.need) <= limit
  <1>1. bet.coins \in Nat
    BY DEF IsBet
  <1>2. PICK p, v : p = 2 ^ bet.coins /\ v = WinningWays(bet.coins, bet.need)
    OBVIOUS
  <1>3. p \in Nat /\ v \in Nat \ {0}
    BY <1>1, <1>2, PowerOfTwo, WaysCount
  <1>4. PICK c, b : c = CeilDiv(9800 * p, v) /\ b = c + drift
    OBVIOUS
  <1>5. 9800 * p \in Nat
    BY <1>3
  <1>6. c \in Nat /\ c * v >= 9800 * p
    BY <1>3, <1>4, <1>5, CeilCovers
  <1>7. b \in Nat /\ b * v >= 9800 * p
    <2>1. b * v >= c * v
      BY <1>3, <1>4, <1>6, Z3
    <2>2. b \in Nat /\ b * v \in Int /\ c * v \in Int
      BY <1>3, <1>4, <1>6
    <2> QED
      BY <1>5, <1>6, <2>1, <2>2
  <1>8. MultiplierBps(bet.coins, bet.need, drift) = b
    BY <1>2, <1>4 DEF MultiplierBps, RtpBps
  <1>9. PICK x : x = MaxPayout(w, bet.coins, bet.need)
    OBVIOUS
  <1>10. x = (w * 9800 * p) \div (10000 * v)
    BY <1>2, <1>9 DEF MaxPayout, RtpBps, BasisPoints
  <1>11. x \in Nat /\ 10000 * x <= w * b
    BY <1>3, <1>7, <1>10, PayoutWithinMultiplier
  <1>12. w * (b - 10000) <= 10000 * limit
    BY <1>8 DEF BasisPoints
  <1>13. w * (b - 10000) = w * b - 10000 * w
    BY <1>7, Z3
  <1>14. w * b \in Int
    BY <1>7
  <1>15. x - w <= limit
    BY <1>11, <1>12, <1>13, <1>14
  <1> QED
    BY <1>9, <1>11, <1>15 DEF MaxReservedProfit

\* A wager that is offered fits, and so does every smaller one.
LEMMA OfferFits ==
    ASSUME NEW bet, IsBet(bet), NEW casino, IsCasino(casino), NEW drift \in Nat,
           NEW offer,
           offer = ComputeMaxWager(casino, MultiplierBps(bet.coins, bet.need, drift))
    PROVE  /\ OfferedWagerFits(bet, casino, drift)
           /\ offer.kind = "limit" /\ casino.maxProfit # None =>
                /\ offer.wager \in Nat
                /\ \A w \in 0..offer.wager :
                       MaxReservedProfit(w, bet.coins, bet.need) <= casino.maxProfit
  <1>1. PICK m : m = MultiplierBps(bet.coins, bet.need, drift)
    OBVIOUS
  <1>2. m \in Int
    <2>1. bet.coins \in Nat
      BY DEF IsBet
    <2>2. 2 ^ bet.coins \in Nat /\ WinningWays(bet.coins, bet.need) \in Nat \ {0}
      BY <2>1, PowerOfTwo, WaysCount
    <2>3. RtpBps * 2 ^ bet.coins \in Nat
      BY <2>2 DEF RtpBps
    <2>4. CeilDiv(RtpBps * 2 ^ bet.coins, WinningWays(bet.coins, bet.need)) \in Nat
      BY <2>2, <2>3, CeilCovers
    <2> QED
      BY <1>1, <2>4 DEF MultiplierBps
  <1> DEFINE profitBps == m - BasisPoints
             Reserved(w) == MaxReservedProfit(w, bet.coins, bet.need)
  <1>3. profitBps \in Int
    BY <1>2 DEF BasisPoints
  <1>4. ASSUME NEW w \in Nat, NEW limit \in Nat, w * profitBps <= BasisPoints * limit
        PROVE  Reserved(w) <= limit
    BY <1>1, <1>4, ReservedWithin
  <1>5. casino.maxBet \in Int /\ casino.maxProfit \in Nat \cup {-1}
    BY DEF IsCasino, None
  <1> HIDE DEF profitBps
  <1>6. /\ offer.kind = "limit" =>
             /\ offer.wager \in Nat \/ casino.maxProfit = -1
             /\ casino.maxBet > 0 => offer.wager <= casino.maxBet
             /\ casino.maxProfit # -1 =>
                  \A w \in 0..offer.wager : w * profitBps <= BasisPoints * casino.maxProfit
        /\ offer.kind = "no-limit" => casino.maxBet <= 0 /\ 500 * profitBps <= BasisPoints * 0
    <2>1. CASE profitBps <= 0
      <3>1. offer = IF casino.maxBet > 0 THEN Limit(casino.maxBet) ELSE NoLimit
        BY <1>1, <2>1 DEF ComputeMaxWager, profitBps
      <3>2. \A w \in Nat, limit \in Nat : w * profitBps <= BasisPoints * limit
        <4> SUFFICES ASSUME NEW w \in Nat, NEW limit \in Nat
                     PROVE  w * profitBps <= BasisPoints * limit
          OBVIOUS
        <4>1. w * profitBps <= 0
          BY <1>3, <2>1, Z3
        <4>2. w * profitBps \in Int
          BY <1>3
        <4> QED
          BY <4>1, <4>2 DEF BasisPoints
      <3>3. CASE casino.maxBet > 0
        <4>1. offer.kind = "limit" /\ offer.wager = casino.maxBet
          BY <3>1, <3>3 DEF Limit
        <4> QED
          BY <1>5, <3>2, <3>3, <4>1
      <3>4. CASE ~(casino.maxBet > 0)
        <4>1. offer.kind = "no-limit"
          BY <3>1, <3>4 DEF NoLimit
        <4> QED
          BY <1>5, <3>2, <3>4, <4>1
      <3> QED
        BY <3>3, <3>4
    <2>2. CASE profitBps > 0 /\ casino.maxProfit = -1
      <3>1. offer = IF casino.maxBet > 0 THEN Limit(casino.maxBet) ELSE Unknown
        BY <1>1, <1>3, <2>2 DEF ComputeMaxWager, profitBps, None
      <3> QED
        BY <1>5, <2>2, <3>1 DEF Limit, Unknown
    <2>3. CASE profitBps > 0 /\ casino.maxProfit \in Nat
      <3>1. PICK risk : risk = (casino.maxProfit * BasisPoints) \div profitBps
        OBVIOUS
      <3>2. profitBps \in Nat \ {0} /\ casino.maxProfit * BasisPoints \in Nat
        BY <1>3, <2>3 DEF BasisPoints
      <3>3. risk \in Nat /\ profitBps * risk <= casino.maxProfit * BasisPoints
        BY <3>1, <3>2, QuotientBounds
      <3>4. offer = Limit(IF casino.maxBet > 0 /\ casino.maxBet < risk
                          THEN casino.maxBet ELSE risk)
        BY <1>1, <1>3, <2>3, <3>1 DEF ComputeMaxWager, profitBps, None
      <3>5. /\ offer.kind = "limit" /\ offer.wager \in Nat /\ offer.wager <= risk
            /\ casino.maxBet > 0 => offer.wager <= casino.maxBet
        BY <1>5, <3>3, <3>4 DEF Limit
      <3>6. ASSUME NEW w \in 0..offer.wager
            PROVE  w * profitBps <= BasisPoints * casino.maxProfit
        <4>1. w \in Nat /\ w <= risk
          BY <3>3, <3>5
        <4>2. w * profitBps <= risk * profitBps /\ risk * profitBps = profitBps * risk
          BY <3>2, <3>3, <4>1, Z3
        <4>3. w * profitBps \in Int /\ risk * profitBps \in Int
          BY <3>2, <3>3, <4>1
        <4> QED
          BY <2>3, <3>2, <3>3, <4>2, <4>3 DEF BasisPoints
      <3> QED
        BY <3>5, <3>6
    <2> QED
      BY <1>3, <1>5, <2>1, <2>2, <2>3
  <1>7. ASSUME offer.kind = "limit", casino.maxProfit # -1
        PROVE  /\ offer.wager \in Nat
               /\ \A w \in 0..offer.wager : Reserved(w) <= casino.maxProfit
    <2>1. casino.maxProfit \in Nat /\ offer.wager \in Nat
      BY <1>5, <1>6, <1>7
    <2> HIDE DEF Reserved
    <2> QED
      BY <1>4, <1>6, <1>7, <2>1
  <1>8. ASSUME offer.kind = "no-limit"
        PROVE  casino.maxBet <= 0 /\ Reserved(500) = 0
    <2>1. Reserved(500) <= 0
      <3> HIDE DEF Reserved
      <3> QED
        BY <1>4, <1>6, <1>8
    <2>2. PICK x : x = MaxPayout(500, bet.coins, bet.need)
      OBVIOUS
    <2>3. Reserved(500) = IF x > 500 THEN x - 500 ELSE 0
      BY <2>2 DEF MaxReservedProfit
    <2>4. x \in Int
      <3>1. bet.coins \in Nat
        BY DEF IsBet
      <3>2. 2 ^ bet.coins \in Nat /\ WinningWays(bet.coins, bet.need) \in Nat \ {0}
        BY <3>1, PowerOfTwo, WaysCount
      <3>3. 500 * RtpBps * 2 ^ bet.coins \in Nat
        BY <3>2 DEF RtpBps
      <3>4. BasisPoints * WinningWays(bet.coins, bet.need) \in Nat \ {0}
        BY <3>2, Z3 DEF BasisPoints
      <3> QED
        BY <2>2, <3>3, <3>4, QuotientBounds DEF MaxPayout
    <2> QED
      BY <1>6, <1>8, <2>1, <2>3, <2>4
  <1>9. /\ offer.kind = "limit" =>
             /\ casino.maxBet > 0 => offer.wager <= casino.maxBet
             /\ casino.maxProfit # None => Reserved(offer.wager) <= casino.maxProfit
        /\ offer.kind = "no-limit" => casino.maxBet <= 0 /\ Reserved(500) = 0
    <2>1. ASSUME offer.kind = "limit", casino.maxProfit # None
          PROVE  Reserved(offer.wager) <= casino.maxProfit
      <3>1. offer.wager \in 0..offer.wager
        BY <1>7, <2>1 DEF None
      <3> HIDE DEF Reserved
      <3> QED
        BY <1>7, <2>1, <3>1 DEF None
    <2> HIDE DEF Reserved
    <2> QED
      BY <1>6, <1>8, <2>1
  <1>10. OfferedWagerFits(bet, casino, drift)
    BY <1>9 DEF OfferedWagerFits
  <1> HIDE DEF Reserved
  <1>11. offer.kind = "limit" /\ casino.maxProfit # None =>
           offer.wager \in Nat /\ \A w \in 0..offer.wager : Reserved(w) <= casino.maxProfit
    BY <1>7 DEF None
  <1> QED
    BY <1>10, <1>11 DEF Reserved

\* The payout of a bet is divided by the number of words that win it, the coins
\* made up for a result show it, and a wager that is offered is within the
\* limits of the host, as is every smaller one, though the multiplier reached
\* the SDK rounded.  Code: coinflip.ts, bet-limits.ts.
THEOREM TheNumbersAgree ==
    ASSUME NEW bet, IsBet(bet), NEW casino, IsCasino(casino), NEW drift \in Nat,
           NEW offer,
           offer = ComputeMaxWager(casino, MultiplierBps(bet.coins, bet.need, drift))
    PROVE  /\ WaysAreCounted(bet)
           /\ MadeUpFacesAgree(bet)
           /\ OfferedWagerFits(bet, casino, drift)
           /\ offer.kind = "limit" /\ casino.maxProfit # None =>
                \A w \in 0..offer.wager :
                    MaxReservedProfit(w, bet.coins, bet.need) <= casino.maxProfit
  BY WaysCount, MadeUpCount, OfferFits

-----------------------------------------------------------------------------
(***************************************************************************)
(* The show of Ember Festival: for every set of tiers, any times between   *)
(* frames and any changes of the tier and of the sound.                    *)
(***************************************************************************)
EngineFields == {"phase", "tier", "elapsed", "climb", "groups", "comets", "wave"}
Groups == [age : Int, life : Nat]

\* What every engine is made of.
EngineTyped(e) ==
    /\ e = [f \in EngineFields |-> e[f]]
    /\ e.tier \in Burst!AllTiers
    /\ e.elapsed \in Nat /\ e.climb \in Int
    /\ e.groups \in SUBSET Groups
    /\ e.comets \in 0..Burst!CometLife
    /\ e.wave \in BOOLEAN

\* Before the burst nothing is in the sky, and only the finale hesitates.
Rising(e) ==
    /\ EngineTyped(e)
    /\ e.phase \in {"launch", "slowmo"}
    /\ e.groups = {} /\ e.comets = Burst!CometLife /\ ~e.wave
    /\ e.phase = "slowmo" => e.tier = "PhoenixFinale"

\* A ring that is to be born has an elder that outlives its birth.
RingsFollow(e) ==
    \A g \in e.groups : g.age < 0 =>
        \E h \in e.groups : h.age >= 0 /\ h.age <= g.age + 14 /\ h.life >= 14

\* Comets in flight are outlived by a group of the burst they belong to.
CometsFollow(e) ==
    e.comets < Burst!CometLife =>
        \E h \in e.groups : h.age >= 0 /\ h.age <= e.comets /\ h.life >= Burst!CometLife

Burning(e) ==
    /\ EngineTyped(e)
    /\ e.phase = "burst"
    /\ RingsFollow(e) /\ CometsFollow(e)
    /\ e.wave => e.tier = "PhoenixFinale"

BurntOut(e) ==
    /\ EngineTyped(e)
    /\ e.phase = "done"
    /\ e.groups = {} /\ e.comets = Burst!CometLife
    /\ e.wave <=> e.tier = "PhoenixFinale"

\* What sounds is over within a second of the last group in the sky.
Outlived(groups, sounds) ==
    sounds <= 50 \/ \E g \in groups : g.age >= 0 /\ sounds + g.age <= g.life + 50

\* The cues so far, in each phase of the engine.
CuesSoFar(e) ==
    CASE e.phase = "launch" -> <<"whoosh">>
      [] e.phase = "slowmo" -> <<"whoosh", "beat">>
      [] OTHER -> IF e.tier # "PhoenixFinale" THEN <<"whoosh", "burst">>
                  ELSE IF e.wave THEN <<"whoosh", "beat", "burst", "wave">>
                  ELSE <<"whoosh", "beat", "burst">>

ShowInv ==
    /\ tierProp \in ShownTiers \cup {"none"}
    /\ audible \in Nat
    /\ soundEnabled \in BOOLEAN
    /\ anim = Burst!NoShow \/ Rising(anim) \/ Burning(anim) \/ BurntOut(anim)
    /\ anim.phase \in {"none", "launch", "slowmo"} => audible <= Burst!LaunchWhoosh
    /\ anim.phase \in {"burst", "done"} => Outlived(anim.groups, audible)
    /\ anim.phase # "none" => heard = IF soundEnabled THEN CuesSoFar(anim) ELSE <<>>

\* An engine from its parts, and an engine with one part replaced.
LEMMA EngineParts ==
    ASSUME NEW e, EngineTyped(e)
    PROVE  /\ \A p : LET n == [e EXCEPT !.phase = p]
                     IN  /\ EngineTyped(n) /\ n.phase = p /\ n.tier = e.tier
                         /\ n.elapsed = e.elapsed /\ n.climb = e.climb
                         /\ n.groups = e.groups /\ n.comets = e.comets /\ n.wave = e.wave
           /\ \A p \in Nat : LET n == [e EXCEPT !.elapsed = p]
                     IN  /\ EngineTyped(n) /\ n.phase = e.phase /\ n.tier = e.tier
                         /\ n.elapsed = p /\ n.climb = e.climb
                         /\ n.groups = e.groups /\ n.comets = e.comets /\ n.wave = e.wave
           /\ \A p \in Int : LET n == [e EXCEPT !.climb = p]
                     IN  /\ EngineTyped(n) /\ n.phase = e.phase /\ n.tier = e.tier
                         /\ n.elapsed = e.elapsed /\ n.climb = p
                         /\ n.groups = e.groups /\ n.comets = e.comets /\ n.wave = e.wave
           /\ \A p \in SUBSET Groups : LET n == [e EXCEPT !.groups = p]
                     IN  /\ EngineTyped(n) /\ n.phase = e.phase /\ n.tier = e.tier
                         /\ n.elapsed = e.elapsed /\ n.climb = e.climb
                         /\ n.groups = p /\ n.comets = e.comets /\ n.wave = e.wave
           /\ \A p \in 0..Burst!CometLife : LET n == [e EXCEPT !.comets = p]
                     IN  /\ EngineTyped(n) /\ n.phase = e.phase /\ n.tier = e.tier
                         /\ n.elapsed = e.elapsed /\ n.climb = e.climb
                         /\ n.groups = e.groups /\ n.comets = p /\ n.wave = e.wave
           /\ \A p \in BOOLEAN : LET n == [e EXCEPT !.wave = p]
                     IN  /\ EngineTyped(n) /\ n.phase = e.phase /\ n.tier = e.tier
                         /\ n.elapsed = e.elapsed /\ n.climb = e.climb
                         /\ n.groups = e.groups /\ n.comets = e.comets /\ n.wave = p
  <1>1. /\ e = [f \in EngineFields |-> e[f]]
        /\ e.tier \in Burst!AllTiers /\ e.elapsed \in Nat /\ e.climb \in Int
        /\ e.groups \in SUBSET Groups /\ e.comets \in 0..Burst!CometLife /\ e.wave \in BOOLEAN
    BY DEF EngineTyped
  <1> USE DEF EngineFields, EngineTyped
  <1> HIDE DEF Groups
  <1> QED
    BY <1>1

\* A group is born with the age and one of the lives it is given.
LEMMA GroupIs ==
    ASSUME NEW age \in Int, NEW low \in Nat, NEW high \in Nat, NEW long \in BOOLEAN,
           low <= high
    PROVE  LET g == Burst!Group(age, low, high, long)
           IN  g \in Groups /\ g.age = age /\ g.life >= low
  BY DEF Burst!Group, Groups

\* Every tier spawns a group that outlives the comets, its own rings and, but
\* for a second, its sounds.
LEMMA Spawns ==
    ASSUME NEW tier \in Burst!AllTiers, NEW long \in BOOLEAN
    PROVE  /\ Burst!Spawned(tier, long) \in SUBSET Groups
           /\ \A g \in Burst!Spawned(tier, long) : g.age >= -14
           /\ Burst!TierSound(tier) \in Nat
           /\ \E h \in Burst!Spawned(tier, long) :
                /\ h.age = 0 /\ h.life >= 42
                /\ tier = "PhoenixFinale" => h.life >= 120
                /\ Burst!TierSound(tier) <= h.life + 45
  <1>1. CASE tier = "Fizzle"
    <2> DEFINE g == Burst!Group(0, 42, 62, long)
    <2>1. g \in Groups /\ g.age = 0 /\ g.life >= 42
      BY GroupIs
    <2> HIDE DEF g
    <2>2. Burst!Spawned(tier, long) = {g} /\ Burst!TierSound(tier) = 20
      BY <1>1 DEF g, Burst!Spawned, Burst!Fizzle, Burst!TierSound, Burst!FizzleSound
    <2>3. g.life \in Nat
      BY <2>1 DEF Groups
    <2>4. /\ Burst!Spawned(tier, long) \in SUBSET Groups
          /\ \A x \in Burst!Spawned(tier, long) : x.age >= -14
      BY <2>1, <2>2, <2>3
    <2>5. Burst!TierSound(tier) \in Nat /\ Burst!TierSound(tier) <= g.life + 45
      BY <2>1, <2>2, <2>3
    <2>6. g \in Burst!Spawned(tier, long) /\ g.age = 0 /\ g.life >= 42
          /\ (tier = "PhoenixFinale" => g.life >= 120)
      <3>1. g \in Burst!Spawned(tier, long) /\ g.age = 0
        BY <2>1, <2>2, <2>3
      <3>2. g.life >= 42
        BY <2>1, <2>2, <2>3
      <3>3. tier = "PhoenixFinale" => g.life >= 120
        BY <1>1, <2>1, <2>2, <2>3
      <3> QED
        BY <3>1, <3>2, <3>3
    <2> QED
      BY <2>4, <2>5, <2>6
  <1>2. CASE tier = "SmallBloom"
    <2> DEFINE g == Burst!Group(0, 42, 57, long)
    <2>1. g \in Groups /\ g.age = 0 /\ g.life >= 42
      BY GroupIs
    <2> HIDE DEF g
    <2>2. Burst!Spawned(tier, long) = {g} /\ Burst!TierSound(tier) = 20
      BY <1>2 DEF g, Burst!Spawned, Burst!SmallBloom, Burst!TierSound, Burst!SmallBloomSound
    <2>3. g.life \in Nat
      BY <2>1 DEF Groups
    <2>4. /\ Burst!Spawned(tier, long) \in SUBSET Groups
          /\ \A x \in Burst!Spawned(tier, long) : x.age >= -14
      BY <2>1, <2>2, <2>3
    <2>5. Burst!TierSound(tier) \in Nat /\ Burst!TierSound(tier) <= g.life + 45
      BY <2>1, <2>2, <2>3
    <2>6. g \in Burst!Spawned(tier, long) /\ g.age = 0 /\ g.life >= 42
          /\ (tier = "PhoenixFinale" => g.life >= 120)
      <3>1. g \in Burst!Spawned(tier, long) /\ g.age = 0
        BY <2>1, <2>2, <2>3
      <3>2. g.life >= 42
        BY <2>1, <2>2, <2>3
      <3>3. tier = "PhoenixFinale" => g.life >= 120
        BY <1>2, <2>1, <2>2, <2>3
      <3> QED
        BY <3>1, <3>2, <3>3
    <2> QED
      BY <2>4, <2>5, <2>6
  <1>3. CASE tier = "BrightBurst"
    <2> DEFINE g == Burst!Group(0, 57, 75, long)
               h == Burst!Group(0, 67, 80, long)
    <2>1. g \in Groups /\ g.age = 0 /\ g.life >= 57 /\ h \in Groups /\ h.age = 0
      BY GroupIs
    <2> HIDE DEF g, h
    <2>2. Burst!Spawned(tier, long) = {g, h} /\ Burst!TierSound(tier) = 22
      BY <1>3 DEF g, h, Burst!Spawned, Burst!BrightBurst, Burst!TierSound,
                  Burst!BrightBurstSound
    <2>3. g.life \in Nat
      BY <2>1 DEF Groups
    <2>4. /\ Burst!Spawned(tier, long) \in SUBSET Groups
          /\ \A x \in Burst!Spawned(tier, long) : x.age >= -14
      BY <2>1, <2>2, <2>3
    <2>5. Burst!TierSound(tier) \in Nat /\ Burst!TierSound(tier) <= g.life + 45
      BY <2>1, <2>2, <2>3
    <2>6. g \in Burst!Spawned(tier, long) /\ g.age = 0 /\ g.life >= 42
          /\ (tier = "PhoenixFinale" => g.life >= 120)
      <3>1. g \in Burst!Spawned(tier, long) /\ g.age = 0
        BY <2>1, <2>2, <2>3
      <3>2. g.life >= 42
        BY <2>1, <2>2, <2>3
      <3>3. tier = "PhoenixFinale" => g.life >= 120
        BY <1>3, <2>1, <2>2, <2>3
      <3> QED
        BY <3>1, <3>2, <3>3
    <2> QED
      BY <2>4, <2>5, <2>6
  <1>4. CASE tier = "Cascade"
    <2> DEFINE g == Burst!Group(0, 80, 95, long)
               h == Burst!Group(-7, 90, 107, long)
               k == Burst!Group(-14, 105, 125, long)
    <2>1. g \in Groups /\ g.age = 0 /\ g.life >= 80
      BY GroupIs
    <2>2. h \in Groups /\ h.age = -7 /\ k \in Groups /\ k.age = -14
      BY GroupIs
    <2> HIDE DEF g, h, k
    <2>3. Burst!Spawned(tier, long) = {g, h, k} /\ Burst!TierSound(tier) = 34
      BY <1>4 DEF g, h, k, Burst!Spawned, Burst!Cascade, Burst!TierSound,
                  Burst!CascadeSound
    <2>4. g.life \in Nat
      BY <2>1 DEF Groups
    <2>5. /\ Burst!Spawned(tier, long) \in SUBSET Groups
          /\ \A x \in Burst!Spawned(tier, long) : x.age >= -14
      BY <2>1, <2>2, <2>3, <2>4
    <2>6. Burst!TierSound(tier) \in Nat /\ Burst!TierSound(tier) <= g.life + 45
      BY <2>1, <2>2, <2>3, <2>4
    <2>7. g \in Burst!Spawned(tier, long) /\ g.age = 0 /\ g.life >= 42
          /\ (tier = "PhoenixFinale" => g.life >= 120)
      <3>1. g \in Burst!Spawned(tier, long) /\ g.age = 0
        BY <2>1, <2>2, <2>3, <2>4
      <3>2. g.life >= 42
        BY <2>1, <2>2, <2>3, <2>4
      <3>3. tier = "PhoenixFinale" => g.life >= 120
        BY <1>4, <2>1, <2>2, <2>3, <2>4
      <3> QED
        BY <3>1, <3>2, <3>3
    <2> QED
      BY <2>5, <2>6, <2>7
  <1>5. CASE tier = "GoldenWillow"
    <2> DEFINE g == Burst!Group(0, 130, 155, long)
               h == Burst!Group(0, 170, 200, long)
               k == Burst!Group(0, 210, 240, long)
    <2>1. g \in Groups /\ g.age = 0 /\ g.life >= 130
      BY GroupIs
    <2>2. h \in Groups /\ h.age = 0 /\ k \in Groups /\ k.age = 0
      BY GroupIs
    <2> HIDE DEF g, h, k
    <2>3. Burst!Spawned(tier, long) = {g, h, k} /\ Burst!TierSound(tier) = 125
      BY <1>5 DEF g, h, k, Burst!Spawned, Burst!GoldenWillow, Burst!TierSound,
                  Burst!GoldenWillowSound
    <2>4. g.life \in Nat
      BY <2>1 DEF Groups
    <2>5. /\ Burst!Spawned(tier, long) \in SUBSET Groups
          /\ \A x \in Burst!Spawned(tier, long) : x.age >= -14
      BY <2>1, <2>2, <2>3, <2>4
    <2>6. Burst!TierSound(tier) \in Nat /\ Burst!TierSound(tier) <= g.life + 45
      BY <2>1, <2>2, <2>3, <2>4
    <2>7. g \in Burst!Spawned(tier, long) /\ g.age = 0 /\ g.life >= 42
          /\ (tier = "PhoenixFinale" => g.life >= 120)
      <3>1. g \in Burst!Spawned(tier, long) /\ g.age = 0
        BY <2>1, <2>2, <2>3, <2>4
      <3>2. g.life >= 42
        BY <2>1, <2>2, <2>3, <2>4
      <3>3. tier = "PhoenixFinale" => g.life >= 120
        BY <1>5, <2>1, <2>2, <2>3, <2>4
      <3> QED
        BY <3>1, <3>2, <3>3
    <2> QED
      BY <2>5, <2>6, <2>7
  <1>6. CASE tier = "PhoenixFinale"
    <2> DEFINE g == Burst!Group(0, 120, 160, long)
    <2>1. g \in Groups /\ g.age = 0 /\ g.life >= 120
      BY GroupIs
    <2> HIDE DEF g
    <2>2. Burst!Spawned(tier, long) = {g} /\ Burst!TierSound(tier) = 165
      BY <1>6 DEF g, Burst!Spawned, Burst!PhoenixFinale, Burst!TierSound,
                  Burst!PhoenixDetonation
    <2>3. g.life \in Nat
      BY <2>1 DEF Groups
    <2>4. /\ Burst!Spawned(tier, long) \in SUBSET Groups
          /\ \A x \in Burst!Spawned(tier, long) : x.age >= -14
      BY <2>1, <2>2, <2>3
    <2>5. Burst!TierSound(tier) \in Nat /\ Burst!TierSound(tier) <= g.life + 45
      BY <2>1, <2>2, <2>3
    <2>6. g \in Burst!Spawned(tier, long) /\ g.age = 0 /\ g.life >= 42
          /\ (tier = "PhoenixFinale" => g.life >= 120)
      <3>1. g \in Burst!Spawned(tier, long) /\ g.age = 0
        BY <2>1, <2>2, <2>3
      <3>2. g.life >= 42
        BY <2>1, <2>2, <2>3
      <3>3. tier = "PhoenixFinale" => g.life >= 120
        BY <1>6, <2>1, <2>2, <2>3
      <3> QED
        BY <3>1, <3>2, <3>3
    <2> QED
      BY <2>4, <2>5, <2>6
  <1> QED
    BY <1>1, <1>2, <1>3, <1>4, <1>5, <1>6 DEF Burst!AllTiers

\* A burst that was just triggered: its first group covers its sound.
JustLit(e, tier) ==
    /\ Burning(e) /\ e.tier = tier /\ ~e.wave
    /\ \E h \in e.groups : h.age = 0 /\ h.life >= 42 /\ Burst!TierSound(tier) <= h.life + 45

\* triggerBurst sets the sky on fire.
LEMMA TriggerLights ==
    ASSUME NEW e, EngineTyped(e), NEW long \in BOOLEAN
    PROVE  JustLit(Burst!TriggerBurst(e, long), e.tier)
  <1> DEFINE n == Burst!TriggerBurst(e, long)
             spawned == Burst!Spawned(e.tier, long)
  <1>1. /\ spawned \in SUBSET Groups
        /\ \A g \in spawned : g.age >= -14
        /\ \E h \in spawned :
             /\ h.age = 0 /\ h.life >= 42
             /\ e.tier = "PhoenixFinale" => h.life >= 120
             /\ Burst!TierSound(e.tier) <= h.life + 45
    BY Spawns DEF EngineTyped
  <1> HIDE DEF spawned
  <1>2. /\ n.phase = "burst" /\ n.tier = e.tier /\ n.climb = e.climb
        /\ n.groups = spawned /\ n.wave = FALSE
        /\ n = [f \in EngineFields |-> n[f]]
    BY DEF EngineTyped, EngineFields, Burst!TriggerBurst, spawned
  <1>a. (n.comets = 0 \/ n.comets = Burst!CometLife) /\ n.elapsed = 0
        /\ (e.tier # "PhoenixFinale" => n.comets = Burst!CometLife)
    BY DEF EngineTyped, EngineFields, Burst!TriggerBurst
  <1>3. Burst!CometLife = 24
    BY DEF Burst!CometLife
  <1> HIDE DEF n
  <1>4. n.comets \in 0..Burst!CometLife /\ n.elapsed \in Nat
    BY <1>3, <1>a
  <1>5. EngineTyped(n)
    <2>1. n.tier \in Burst!AllTiers /\ n.climb \in Int /\ n.groups \in SUBSET Groups
      BY <1>1, <1>2 DEF EngineTyped
    <2>2. n.wave \in BOOLEAN
      BY <1>2
    <2> QED
      BY <1>2, <1>4, <2>1, <2>2 DEF EngineTyped
  <1>6. PICK h \in spawned : /\ h.age = 0 /\ h.life >= 42
                             /\ e.tier = "PhoenixFinale" => h.life >= 120
                             /\ Burst!TierSound(e.tier) <= h.life + 45
    BY <1>1
  <1>7. h.life \in Nat /\ \A g \in spawned : g.age \in Int /\ g.age >= -14
    BY <1>1, <1>6 DEF Groups
  <1>8. RingsFollow(n)
    <2> SUFFICES ASSUME NEW g \in spawned
                 PROVE  h.age >= 0 /\ h.age <= g.age + 14 /\ h.life >= 14
      BY <1>2, <1>6 DEF RingsFollow
    <2>1. g.age \in Int /\ g.age >= -14 /\ h.age = 0 /\ h.life >= 42 /\ h.life \in Nat
      BY <1>6, <1>7
    <2> QED
      BY <2>1
  <1>9. CometsFollow(n)
    <2> SUFFICES ASSUME n.comets < Burst!CometLife
                 PROVE  h.age >= 0 /\ h.age <= n.comets /\ h.life >= Burst!CometLife
      BY <1>2, <1>6 DEF CometsFollow
    <2>1. n.comets \in Int /\ n.comets >= 0
      BY <1>3, <1>4
    <2>2. h.age = 0 /\ h.life >= 42 /\ h.life \in Nat
      BY <1>6, <1>7
    <2> QED
      BY <1>3, <2>1, <2>2
  <1> QED
    BY <1>2, <1>5, <1>6, <1>8, <1>9 DEF JustLit, Burning, n

\* The block of the launch: the rocket climbs, or reaches its end.
LEMMA LaunchRises ==
    ASSUME NEW e, Rising(e), NEW dt \in Nat, NEW long \in BOOLEAN,
           NEW n, n = Burst!Launch(e, dt, long)
    PROVE  \/ n = e
           \/ e.phase = "launch" /\ Rising(n) /\ n.tier = e.tier
           \/ e.phase = "launch" /\ e.tier # "PhoenixFinale" /\ JustLit(n, e.tier)
  <1> DEFINE climb == Burst!Larger(0, e.climb - dt)
             risen == [e EXCEPT !.climb = climb]
  <1>1. EngineTyped(e) /\ e.climb \in Int
    BY DEF Rising, EngineTyped
  <1>2. climb \in Int
    BY <1>1 DEF Burst!Larger
  <1> HIDE DEF climb
  <1>3. /\ EngineTyped(risen) /\ risen.phase = e.phase /\ risen.tier = e.tier
        /\ risen.climb = climb
        /\ risen.groups = e.groups /\ risen.comets = e.comets /\ risen.wave = e.wave
    BY <1>1, <1>2, EngineParts
  <1>4. n = IF e.phase # "launch" THEN e
            ELSE IF risen.climb > 0 THEN risen
            ELSE IF Burst!SlowMo(e.tier) > 0
            THEN [risen EXCEPT !.phase = "slowmo", !.elapsed = 0]
            ELSE Burst!TriggerBurst(risen, long)
    BY DEF Burst!Launch, risen, climb
  <1>5. /\ e.tier = "PhoenixFinale" => Burst!SlowMo(e.tier) > 0
        /\ e.tier # "PhoenixFinale" => ~(Burst!SlowMo(e.tier) > 0)
    <2>1. e.tier = "PhoenixFinale" => Burst!SlowMo(e.tier) = 13
      BY DEF Burst!SlowMo
    <2>2. e.tier # "PhoenixFinale" => Burst!SlowMo(e.tier) = 0
      BY DEF Burst!SlowMo
    <2> QED
      BY <2>1, <2>2
  <1> HIDE DEF risen
  <1>6. CASE n = risen /\ e.phase = "launch"
    BY <1>3, <1>6 DEF Rising
  <1>7. CASE /\ n = [risen EXCEPT !.phase = "slowmo", !.elapsed = 0]
             /\ e.phase = "launch" /\ e.tier = "PhoenixFinale"
    <2> DEFINE held == [risen EXCEPT !.phase = "slowmo"]
    <2>a. /\ EngineTyped(held) /\ held.phase = "slowmo" /\ held.tier = e.tier
          /\ held.groups = e.groups /\ held.comets = e.comets /\ held.wave = e.wave
      BY <1>3, EngineParts
    <2>b. n = [held EXCEPT !.elapsed = 0]
      BY <1>7
    <2> HIDE DEF held
    <2>1. /\ n.phase = "slowmo" /\ n.tier = e.tier /\ n.groups = e.groups
          /\ n.comets = e.comets /\ n.wave = e.wave /\ EngineTyped(n)
      BY <2>a, <2>b, EngineParts
    <2> QED
      BY <1>7, <2>1 DEF Rising
  <1>8. CASE /\ n = Burst!TriggerBurst(risen, long)
             /\ e.phase = "launch" /\ e.tier # "PhoenixFinale"
    BY <1>3, <1>8, TriggerLights
  <1> QED
    BY <1>4, <1>5, <1>6, <1>7, <1>8

\* The block of the slow motion: it lasts, or the finale bursts.
LEMMA SlowMoWaits ==
    ASSUME NEW e, EngineTyped(e), NEW elapsed \in Nat, NEW long \in BOOLEAN,
           NEW n, n = Burst!SlowMoBlock(e, elapsed, long)
    PROVE  n = e \/ (e.phase = "slowmo" /\ JustLit(n, e.tier))
  BY TriggerLights DEF Burst!SlowMoBlock

\* The second wave joins a finale that burns.
LEMMA WaveJoins ==
    ASSUME NEW e, Burning(e), NEW elapsed \in Nat, NEW long \in BOOLEAN,
           NEW n, n = Burst!FireWave(e, elapsed, long)
    PROVE  /\ Burning(n) /\ n.tier = e.tier /\ e.groups \subseteq n.groups
           /\ e.wave => n.wave
           /\ n.tier = "PhoenixFinale" /\ elapsed >= Burst!SecondWaveAt => n.wave
           /\ ~e.wave /\ n.wave => \E h \in n.groups : h.age = 0 /\ h.life >= 110
  <1> DEFINE g == Burst!Group(0, 110, 140, long)
  <1>1. g \in Groups /\ g.age = 0 /\ g.life >= 110
    BY GroupIs
  <1>2. Burst!SecondWave(long) = {g}
    BY DEF Burst!SecondWave
  <1> HIDE DEF g
  <1>3. e.wave \in BOOLEAN /\ EngineTyped(e)
    BY DEF Burning, EngineTyped
  <1>4. CASE e.tier = "PhoenixFinale" /\ elapsed >= Burst!SecondWaveAt /\ ~e.wave
    <2>1. n = [e EXCEPT !.wave = TRUE, !.groups = @ \cup {g}]
      BY <1>2, <1>4 DEF Burst!FireWave
    <2> DEFINE waved == [e EXCEPT !.wave = TRUE]
    <2>a. /\ EngineTyped(waved) /\ waved.phase = e.phase /\ waved.tier = e.tier
          /\ waved.groups = e.groups /\ waved.comets = e.comets /\ waved.wave = TRUE
      BY <1>3, EngineParts
    <2>b. e.groups \cup {g} \in SUBSET Groups
      BY <1>1, <1>3 DEF EngineTyped
    <2>c. n = [waved EXCEPT !.groups = e.groups \cup {g}]
      BY <1>3, <2>1 DEF EngineTyped, EngineFields
    <2> HIDE DEF waved
    <2>2. /\ n.phase = e.phase /\ n.tier = e.tier /\ n.wave = TRUE /\ n.comets = e.comets
          /\ n.groups = e.groups \cup {g} /\ EngineTyped(n)
      BY <2>a, <2>b, <2>c, EngineParts
    <2>3. RingsFollow(n)
      <3> SUFFICES ASSUME NEW x \in n.groups, x.age < 0
                   PROVE  \E h \in n.groups : h.age >= 0 /\ h.age <= x.age + 14 /\ h.life >= 14
        BY DEF RingsFollow
      <3>1. x \in e.groups
        BY <1>1, <2>2
      <3> QED
        BY <2>2, <3>1 DEF Burning, RingsFollow
    <2>4. CometsFollow(n)
      BY <2>2 DEF Burning, CometsFollow
    <2> QED
      BY <1>1, <1>4, <2>2, <2>3, <2>4 DEF Burning
  <1>5. CASE ~(e.tier = "PhoenixFinale" /\ elapsed >= Burst!SecondWaveAt /\ ~e.wave)
    BY <1>3, <1>5 DEF Burst!FireWave
  <1> QED
    BY <1>4, <1>5

\* A group one step older.
Older(g, dt) == [g EXCEPT !.age = @ + dt]

\* What a group is a step later.
LEMMA OlderIs ==
    ASSUME NEW g \in Groups, NEW dt \in Nat
    PROVE  /\ Older(g, dt) \in Groups
           /\ Older(g, dt).age = g.age + dt /\ Older(g, dt).life = g.life
           /\ g.age \in Int /\ g.life \in Nat
  BY DEF Older, Groups

\* One step of what is in the sky: the comets fly, what they leave and all
\* other groups age, and what has lived is gone.
LEMMA SkyAges ==
    ASSUME NEW e, Burning(e), NEW dt \in Nat, NEW long \in BOOLEAN,
           NEW n, n = Burst!AgeGroups(Burst!FlyComets(e, dt, long), dt)
    PROVE  /\ Burning(n) /\ n.tier = e.tier /\ n.wave = e.wave
           /\ \A g \in e.groups :
                g.age + dt < g.life => Older(g, dt) \in n.groups
  <1> DEFINE flown == Burst!FlyComets(e, dt, long)
             left == Burst!Group(0, 55, 70, long)
  <1>1. EngineTyped(e) /\ e.comets \in 0..24 /\ e.groups \in SUBSET Groups
        /\ Burst!CometLife = 24
    BY DEF Burning, EngineTyped, Burst!CometLife
  <1>2. left \in Groups /\ left.age = 0
    BY GroupIs
  <1>3. Burst!CometBurst(long) = {left}
    BY DEF Burst!CometBurst
  <1> HIDE DEF left
  <1>4. /\ EngineTyped(flown) /\ flown.phase = e.phase /\ flown.tier = e.tier
        /\ flown.wave = e.wave /\ e.groups \subseteq flown.groups
        /\ \A g \in flown.groups : g.age < 0 => g \in e.groups
        /\ flown.comets < 24 => e.comets < 24 /\ flown.comets = e.comets + dt
    <2>1. CASE e.comets >= 24
      BY <1>1, <2>1 DEF Burst!FlyComets
    <2>2. CASE e.comets < 24
      <3> DEFINE comets == Burst!Smaller(24, e.comets + dt)
                 groups == IF e.comets + dt >= 24 THEN e.groups \cup {left} ELSE e.groups
                 one == [e EXCEPT !.comets = comets]
      <3>1. /\ comets \in 0..24
            /\ comets < 24 => comets = e.comets + dt
        BY <1>1 DEF Burst!Smaller
      <3>2. groups \in SUBSET Groups /\ e.groups \subseteq groups
            /\ groups \subseteq e.groups \cup {left}
        BY <1>1, <1>2
      <3> HIDE DEF comets, groups
      <3>3. /\ EngineTyped(one) /\ one.phase = e.phase /\ one.tier = e.tier
            /\ one.groups = e.groups /\ one.comets = comets /\ one.wave = e.wave
        <4>1. comets \in 0..Burst!CometLife
          BY <1>1, <3>1
        <4> HIDE DEF one
        <4>2. one = [e EXCEPT !.comets = comets]
          BY DEF one
        <4>3. EngineTyped(e)
          BY <1>1
        <4> QED
          BY <4>1, <4>2, <4>3 DEF EngineTyped, EngineFields
      <3>4. flown = [one EXCEPT !.groups = groups]
        <4>1. flown = [e EXCEPT !.comets = Burst!Smaller(24, e.comets + dt),
                                !.groups = IF e.comets + dt >= 24
                                           THEN e.groups \cup {left} ELSE e.groups]
          BY <1>1, <1>3, <2>2 DEF Burst!FlyComets
        <4>2. flown = [e EXCEPT !.comets = comets, !.groups = groups]
          BY <4>1 DEF comets, groups
        <4> QED
          BY <1>1, <4>2 DEF EngineTyped, EngineFields
      <3> HIDE DEF one, flown
      <3>5. /\ EngineTyped(flown) /\ flown.phase = e.phase /\ flown.tier = e.tier
            /\ flown.groups = groups /\ flown.comets = comets /\ flown.wave = e.wave
        BY <3>2, <3>3, <3>4, EngineParts
      <3>6. \A g \in flown.groups : g.age < 0 => g \in e.groups
        BY <1>2, <3>2, <3>5
      <3> QED
        BY <2>2, <3>1, <3>2, <3>5, <3>6
    <2> QED
      BY <1>1, <2>1, <2>2
  <1> HIDE DEF flown
  <1> DEFINE aged == {g \in {Older(h, dt) : h \in flown.groups} : g.age < g.life}
  <1>5. n = [flown EXCEPT !.groups = aged]
    BY <1>4 DEF Burst!AgeGroups, Older, flown
  <1>6. \A h \in flown.groups : /\ h \in Groups
                                /\ Older(h, dt) \in Groups
                                /\ Older(h, dt).age = h.age + dt
                                /\ Older(h, dt).life = h.life
                                /\ h.age \in Int /\ h.life \in Nat
    BY <1>4, OlderIs DEF EngineTyped
  <1>7. aged \in SUBSET Groups
    BY <1>6
  <1>8. \A h \in flown.groups : h.age + dt < h.life => Older(h, dt) \in aged
    BY <1>6
  <1>9. \A g \in aged : \E h \in flown.groups : g = Older(h, dt)
    OBVIOUS
  <1> HIDE DEF aged
  <1>10. /\ EngineTyped(n) /\ n.phase = e.phase /\ n.tier = e.tier
         /\ n.groups = aged /\ n.comets = flown.comets /\ n.wave = e.wave
    BY <1>4, <1>5, <1>7, EngineParts
  <1>11. RingsFollow(n)
    <2> SUFFICES ASSUME NEW g \in aged, g.age < 0
                 PROVE  \E k \in aged : k.age >= 0 /\ k.age <= g.age + 14 /\ k.life >= 14
      BY <1>10 DEF RingsFollow
    <2>1. PICK h \in flown.groups : g = Older(h, dt)
      BY <1>9
    <2>2. g.age = h.age + dt /\ h.age \in Int
      BY <1>6, <2>1
    <2>3. h.age < 0
      BY <2>2
    <2>4. PICK k \in e.groups : k.age >= 0 /\ k.age <= h.age + 14 /\ k.life >= 14
      BY <1>4, <2>3 DEF Burning, RingsFollow
    <2>5. /\ Older(k, dt).age = k.age + dt /\ Older(k, dt).life = k.life
          /\ k.age \in Int /\ k.life \in Nat /\ k \in flown.groups
      BY <1>4, <1>6
    <2>6. k.age + dt < k.life
      BY <2>2, <2>4, <2>5
    <2>7. Older(k, dt) \in aged
      BY <1>8, <2>5, <2>6
    <2>8. /\ Older(k, dt).age >= 0 /\ Older(k, dt).age <= g.age + 14
          /\ Older(k, dt).life >= 14
      BY <2>2, <2>4, <2>5
    <2> QED
      BY <2>7, <2>8
  <1>12. CometsFollow(n)
    <2> SUFFICES ASSUME flown.comets < 24
                 PROVE  \E k \in aged : k.age >= 0 /\ k.age <= flown.comets /\ k.life >= 24
      BY <1>1, <1>10 DEF CometsFollow
    <2>1. e.comets < 24 /\ flown.comets = e.comets + dt
      BY <1>4
    <2>2. PICK k \in e.groups : k.age >= 0 /\ k.age <= e.comets /\ k.life >= 24
      BY <1>1, <2>1 DEF Burning, CometsFollow
    <2>3. /\ Older(k, dt).age = k.age + dt /\ Older(k, dt).life = k.life
          /\ k.age \in Int /\ k.life \in Nat /\ k \in flown.groups
      BY <1>4, <1>6
    <2>4. k.age + dt < k.life
      BY <1>1, <2>1, <2>2, <2>3
    <2>5. Older(k, dt) \in aged
      BY <1>8, <2>3, <2>4
    <2>6. /\ Older(k, dt).age >= 0 /\ Older(k, dt).age <= flown.comets
          /\ Older(k, dt).life >= 24
      BY <1>1, <2>1, <2>2, <2>3
    <2> QED
      BY <2>5, <2>6
  <1>13. \A g \in e.groups : g.age + dt < g.life => Older(g, dt) \in n.groups
    BY <1>4, <1>8, <1>10
  <1> QED
    BY <1>10, <1>11, <1>12, <1>13 DEF Burning

\* The block of the burst: the sky ages, and is empty when the phase ends.
LEMMA BurstBurns ==
    ASSUME NEW e, Burning(e), NEW elapsed \in Nat, NEW dt \in Nat, NEW long \in BOOLEAN,
           NEW n, n = Burst!BurstBlock(e, elapsed, dt, long),
           NEW sounds \in Nat,
           \/ sounds <= 50
           \/ \E g \in e.groups : g.age >= 0 /\ sounds + g.age + dt <= g.life + 50
           \/ sounds + dt <= 160 /\ ~e.wave /\ n.wave
    PROVE  /\ Burning(n) \/ BurntOut(n)
           /\ n.tier = e.tier /\ (e.wave => n.wave)
           /\ Outlived(n.groups, sounds)
  <1> DEFINE fired == Burst!FireWave(e, elapsed, long)
             aged == Burst!AgeGroups(Burst!FlyComets(fired, dt, long), dt)
  <1>1. n = Burst!Completes(aged, elapsed)
    BY DEF Burst!BurstBlock, Burning
  <1>2. /\ Burning(fired) /\ fired.tier = e.tier /\ e.groups \subseteq fired.groups
        /\ e.wave => fired.wave
        /\ fired.tier = "PhoenixFinale" /\ elapsed >= 17 => fired.wave
        /\ ~e.wave /\ fired.wave => \E h \in fired.groups : h.age = 0 /\ h.life >= 110
    BY WaveJoins DEF Burst!SecondWaveAt
  <1> HIDE DEF fired
  <1>3. /\ Burning(aged) /\ aged.tier = e.tier /\ aged.wave = fired.wave
        /\ \A g \in fired.groups : g.age + dt < g.life => Older(g, dt) \in aged.groups
    BY <1>2, SkyAges
  <1> HIDE DEF aged
  <1>4. \A g \in fired.groups : /\ g \in Groups
                                /\ Older(g, dt).age = g.age + dt
                                /\ Older(g, dt).life = g.life
                                /\ g.age \in Int /\ g.life \in Nat
    BY <1>2, OlderIs DEF Burning, EngineTyped
  <1>5. EngineTyped(aged)
    BY <1>3 DEF Burning
  <1>6. /\ n = aged \/ (n = [aged EXCEPT !.phase = "done"]
                         /\ Burst!Alive(aged) = {} /\ 2 * elapsed > 45)
    BY <1>1 DEF Burst!Completes
  <1>7. n.tier = e.tier /\ n.wave = fired.wave /\ n.groups = aged.groups
        /\ n.comets = aged.comets
    <2>1. CASE n = aged
      BY <1>3, <2>1
    <2>2. CASE n = [aged EXCEPT !.phase = "done"]
      <3>1. /\ n.tier = aged.tier /\ n.wave = aged.wave
            /\ n.groups = aged.groups /\ n.comets = aged.comets
        BY <1>5, <2>2, EngineParts
      <3> QED
        BY <1>3, <3>1
    <2> QED
      BY <1>6, <2>1, <2>2
  <1>8. Outlived(n.groups, sounds)
    <2>1. ASSUME NEW g \in fired.groups, g.age >= 0, sounds + g.age + dt <= g.life + 50
          PROVE  Outlived(n.groups, sounds)
      <3>1. /\ Older(g, dt).age = g.age + dt /\ Older(g, dt).life = g.life
            /\ g.age \in Int /\ g.life \in Nat
        BY <1>4
      <3>2. CASE g.age + dt < g.life
        <4>1. Older(g, dt) \in n.groups
          BY <1>3, <1>7, <3>2
        <4>2. Older(g, dt).age >= 0
              /\ sounds + Older(g, dt).age <= Older(g, dt).life + 50
          BY <2>1, <3>1
        <4> QED
          BY <4>1, <4>2 DEF Outlived
      <3>3. CASE ~(g.age + dt < g.life)
        <4>1. sounds <= 50
          BY <2>1, <3>1, <3>3
        <4> QED
          BY <4>1 DEF Outlived
      <3> QED
        BY <3>2, <3>3
    <2>2. CASE sounds <= 50
      BY <2>2 DEF Outlived
    <2>3. CASE \E g \in e.groups : g.age >= 0 /\ sounds + g.age + dt <= g.life + 50
      BY <1>2, <2>1, <2>3
    <2>4. CASE sounds + dt <= 160 /\ ~e.wave /\ n.wave
      <3>1. PICK h \in fired.groups : h.age = 0 /\ h.life >= 110
        BY <1>2, <1>7, <2>4
      <3>2. h.life \in Nat
        BY <1>4
      <3>3. h.age >= 0 /\ sounds + h.age + dt <= h.life + 50
        BY <2>4, <3>1, <3>2
      <3> QED
        BY <2>1, <3>3
    <2> QED
      BY <2>2, <2>3, <2>4
  <1>9. Burning(n) \/ BurntOut(n)
    <2>1. CASE n = aged
      BY <1>3, <2>1
    <2>2. CASE /\ n = [aged EXCEPT !.phase = "done"]
               /\ Burst!Alive(aged) = {} /\ 2 * elapsed > 45
      <3>1. EngineTyped(n) /\ n.phase = "done"
        BY <1>5, <2>2, EngineParts
      <3>2. \A g \in aged.groups : g \in Groups /\ g.age < 0
        <4>1. \A g \in aged.groups : g \in Groups /\ ~(g.age >= 0)
          BY <1>5, <2>2 DEF EngineTyped, Burst!Alive
        <4> QED
          BY <4>1 DEF Groups
      <3>3. \A g \in aged.groups : ~(g.age >= 0)
        <4>1. \A g \in aged.groups : g.age \in Int
          BY <3>2 DEF Groups
        <4> QED
          BY <3>2, <4>1
      <3>4. aged.groups = {}
        BY <1>3, <3>2, <3>3 DEF Burning, RingsFollow
      <3>5. aged.comets = Burst!CometLife
        <4>1. ~(aged.comets < Burst!CometLife)
          BY <1>3, <3>4 DEF Burning, CometsFollow
        <4>2. aged.comets \in 0..24 /\ Burst!CometLife = 24
          BY <1>5 DEF EngineTyped, Burst!CometLife
        <4> QED
          BY <4>1, <4>2
      <3>6. elapsed >= 17
        BY <2>2
      <3>7. n.tier = "PhoenixFinale" => n.wave
        BY <1>2, <1>7, <3>6
      <3>8. n.wave => n.tier = "PhoenixFinale"
        BY <1>3, <1>7 DEF Burning
      <3> QED
        BY <1>7, <3>1, <3>4, <3>5, <3>7, <3>8 DEF BurntOut
    <2> QED
      BY <1>6, <2>1, <2>2
  <1> QED
    BY <1>2, <1>7, <1>8, <1>9

-----------------------------------------------------------------------------
(***************************************************************************)
(* Sequences of cues                                                       *)
(***************************************************************************)
\* A sequence with one more item, put together item by item.
LEMMA ConcatIs ==
    ASSUME NEW S, NEW s \in Seq(S), NEW x \in S, NEW u \in Seq(S), Len(u) = Len(s) + 1,
           \A i \in 1..Len(s) : u[i] = s[i], u[Len(u)] = x
    PROVE  s \o <<x>> = u
  <1>1. Append(s, x) = s \o <<x>>
    BY AppendIsConcat
  <1>2. /\ Append(s, x) \in Seq(S) /\ Len(Append(s, x)) = Len(s) + 1
        /\ \A i \in 1..Len(s) : Append(s, x)[i] = s[i]
        /\ Append(s, x)[Len(s) + 1] = x
    BY AppendProperties
  <1>3. Len(s) \in Nat
    BY LenProperties
  <1> DEFINE a == Append(s, x)
  <1> HIDE DEF a
  <1>4. a \in Seq(S) /\ Len(a) = Len(u) /\ \A i \in 1..Len(a) : a[i] = u[i]
    BY <1>2, <1>3 DEF a
  <1>5. a = u
    BY <1>4, SeqEqual
  <1> QED
    BY <1>1, <1>5 DEF a

\* One item and one more.
LEMMA OneMore ==
    ASSUME NEW a, NEW b
    PROVE  <<a>> \o <<b>> = <<a, b>>
  <1> DEFINE S == {a, b}
  <1>1. <<a>> \in Seq(S) /\ <<a, b>> \in Seq(S) /\ b \in S
    OBVIOUS
  <1>2. Len(<<a>>) = 1 /\ Len(<<a, b>>) = 2
    OBVIOUS
  <1>3. <<a>>[1] = a /\ <<a, b>>[1] = a /\ <<a, b>>[2] = b
    OBVIOUS
  <1> DEFINE s == <<a>>
             u == <<a, b>>
  <1> HIDE DEF S, s, u
  <1>4. s \o <<b>> = u
    <2>1. s \in Seq(S) /\ u \in Seq(S) /\ b \in S /\ Len(u) = Len(s) + 1
      BY <1>1, <1>2 DEF s, u
    <2>2. (\A i \in 1..Len(s) : u[i] = s[i]) /\ u[Len(u)] = b
      BY <1>2, <1>3 DEF s, u
    <2> QED
      BY <2>1, <2>2, ConcatIs
  <1> QED
    BY <1>4 DEF s, u

\* Two items and one more.
LEMMA TwoMore ==
    ASSUME NEW a, NEW b, NEW c
    PROVE  <<a, b>> \o <<c>> = <<a, b, c>>
  <1> DEFINE S == {a, b, c}
             s == <<a, b>>
             u == <<a, b, c>>
  <1>1. s \in Seq(S) /\ u \in Seq(S) /\ c \in S
    OBVIOUS
  <1>2. Len(s) = 2 /\ Len(u) = 3
    OBVIOUS
  <1>3. s[1] = a /\ s[2] = b /\ u[1] = a /\ u[2] = b /\ u[3] = c
    OBVIOUS
  <1> HIDE DEF S, s, u
  <1>4. (\A i \in 1..Len(s) : u[i] = s[i]) /\ u[Len(u)] = c
    BY <1>2, <1>3
  <1>5. Len(u) = Len(s) + 1
    BY <1>2
  <1>6. s \o <<c>> = u
    BY <1>1, <1>4, <1>5, ConcatIs
  <1> QED
    BY <1>6 DEF s, u

\* Three items and one more.
LEMMA ThreeMore ==
    ASSUME NEW a, NEW b, NEW c, NEW d
    PROVE  <<a, b, c>> \o <<d>> = <<a, b, c, d>>
  <1> DEFINE S == {a, b, c, d}
             s == <<a, b, c>>
             u == <<a, b, c, d>>
  <1>1. s \in Seq(S) /\ u \in Seq(S) /\ d \in S
    OBVIOUS
  <1>2. Len(s) = 3 /\ Len(u) = 4
    OBVIOUS
  <1>3. /\ s[1] = a /\ s[2] = b /\ s[3] = c
        /\ u[1] = a /\ u[2] = b /\ u[3] = c /\ u[4] = d
    OBVIOUS
  <1> HIDE DEF S, s, u
  <1>4. (\A i \in 1..Len(s) : u[i] = s[i]) /\ u[Len(u)] = d
    BY <1>2, <1>3
  <1>5. Len(u) = Len(s) + 1
    BY <1>2
  <1>6. s \o <<d>> = u
    BY <1>1, <1>4, <1>5, ConcatIs
  <1> QED
    BY <1>6 DEF s, u

\* A sequence that begins another is a part of it.
LEMMA PrefixIs ==
    ASSUME NEW S, NEW s \in Seq(S), NEW u \in Seq(S), Len(u) \in 1..Len(s),
           \A i \in 1..Len(u) : u[i] = s[i]
    PROVE  SubSeq(s, 1, Len(u)) = u
  <1> DEFINE n == Len(u)
             r == SubSeq(s, 1, n)
  <1>1. Len(s) \in Nat /\ n \in Nat /\ 1 <= n /\ n <= Len(s)
    BY LenProperties
  <1>2. \A i \in 1..n : s[i] \in S
    BY <1>1, ElementOfSeq
  <1>3. r \in Seq(S) /\ Len(r) = (IF 1 <= n THEN n - 1 + 1 ELSE 0)
        /\ \A i \in 1..(n - 1 + 1) : r[i] = s[1 + i - 1]
    <2> HIDE DEF n
    <2> QED
      BY <1>1, <1>2, SubSeqProperties
  <1> HIDE DEF r
  <1>4. Len(r) = n /\ \A i \in 1..n : r[i] = u[i]
    BY <1>1, <1>3
  <1> QED
    BY <1>3, <1>4, SeqEqual DEF r

\* The whole score begins with each part of it.
LEMMA ScoreParts ==
    ASSUME NEW a, NEW b, NEW c, NEW d
    PROVE  /\ SubSeq(<<a, b>>, 1, 1) = <<a>> /\ SubSeq(<<a, b>>, 1, 2) = <<a, b>>
           /\ SubSeq(<<a, b, c, d>>, 1, 1) = <<a>>
           /\ SubSeq(<<a, b, c, d>>, 1, 2) = <<a, b>>
           /\ SubSeq(<<a, b, c, d>>, 1, 3) = <<a, b, c>>
           /\ SubSeq(<<a, b, c, d>>, 1, 4) = <<a, b, c, d>>
           /\ Len(<<a, b>>) = 2 /\ Len(<<a, b, c, d>>) = 4
  <1> DEFINE S == {a, b, c, d}
             s1 == <<a>>
             s2 == <<a, b>>
             s3 == <<a, b, c>>
             s4 == <<a, b, c, d>>
  <1>1. s1 \in Seq(S) /\ s2 \in Seq(S) /\ s3 \in Seq(S) /\ s4 \in Seq(S)
    OBVIOUS
  <1>2. Len(s1) = 1 /\ Len(s2) = 2 /\ Len(s3) = 3 /\ Len(s4) = 4
    OBVIOUS
  <1>3. /\ s1[1] = a /\ s2[1] = a /\ s2[2] = b
        /\ s3[1] = a /\ s3[2] = b /\ s3[3] = c
        /\ s4[1] = a /\ s4[2] = b /\ s4[3] = c /\ s4[4] = d
    OBVIOUS
  <1> HIDE DEF S, s1, s2, s3, s4
  <1>4. \A i \in 1..1 : s1[i] = s2[i] /\ s1[i] = s4[i]
    BY <1>3
  <1>5. \A i \in 1..2 : s2[i] = s4[i]
    BY <1>3
  <1>6. \A i \in 1..3 : s3[i] = s4[i]
    BY <1>3
  <1>7. SubSeq(s2, 1, 1) = s1 /\ SubSeq(s4, 1, 1) = s1
    <2>1. Len(s1) \in 1..Len(s2) /\ Len(s1) \in 1..Len(s4)
      BY <1>2
    <2>2. \A i \in 1..Len(s1) : s1[i] = s2[i] /\ s1[i] = s4[i]
      BY <1>2, <1>4
    <2>3. SubSeq(s2, 1, Len(s1)) = s1 /\ SubSeq(s4, 1, Len(s1)) = s1
      BY <1>1, <2>1, <2>2, PrefixIs
    <2> QED
      BY <1>2, <2>3
  <1>8. SubSeq(s2, 1, 2) = s2 /\ SubSeq(s4, 1, 4) = s4
    <2>1. SubSeq(s2, 1, Len(s2)) = s2 /\ SubSeq(s4, 1, Len(s4)) = s4
      BY <1>1, SubSeqFull
    <2> QED
      BY <1>2, <2>1
  <1>9. SubSeq(s4, 1, 2) = s2
    <2>1. Len(s2) \in 1..Len(s4) /\ \A i \in 1..Len(s2) : s2[i] = s4[i]
      BY <1>2, <1>5
    <2>2. SubSeq(s4, 1, Len(s2)) = s2
      BY <1>1, <2>1, PrefixIs
    <2> QED
      BY <1>2, <2>2
  <1>10. SubSeq(s4, 1, 3) = s3
    <2>1. Len(s3) \in 1..Len(s4) /\ \A i \in 1..Len(s3) : s3[i] = s4[i]
      BY <1>2, <1>6
    <2>2. SubSeq(s4, 1, Len(s3)) = s3
      BY <1>1, <2>1, PrefixIs
    <2> QED
      BY <1>2, <2>2
  <1> QED
    BY <1>2, <1>7, <1>8, <1>9, <1>10 DEF s1, s2, s3, s4

\* Of up to three numbers one is the largest.
LEMMA LargestExists ==
    ASSUME NEW a \in Int, NEW b \in Int, NEW c \in Int, NEW S \in SUBSET {a, b, c}, S # {}
    PROVE  \E n \in S : \A k \in S : k <= n
  <1>1. CASE a \in S /\ (b \in S => b <= a) /\ (c \in S => c <= a)
    BY <1>1
  <1>2. CASE b \in S /\ (a \in S => a <= b) /\ (c \in S => c <= b)
    BY <1>2
  <1>3. CASE c \in S /\ (a \in S => a <= c) /\ (b \in S => b <= c)
    BY <1>3
  <1>4. a \in S \/ b \in S \/ c \in S
    OBVIOUS
  <1>5. /\ (a <= b \/ b <= a) /\ (a <= c \/ c <= a) /\ (b <= c \/ c <= b)
        /\ (a <= b /\ b <= c => a <= c) /\ (b <= a /\ a <= c => b <= c)
        /\ (a <= c /\ c <= b => a <= b) /\ (b <= c /\ c <= a => b <= a)
        /\ (c <= a /\ a <= b => c <= b) /\ (c <= b /\ b <= a => c <= a)
    OBVIOUS
  <1> QED
    BY <1>1, <1>2, <1>3, <1>4, <1>5, Zenon

\* What a frame adds to what sounds is one of its cues, if any.
LEMMA LongestIs ==
    ASSUME NEW X \in SUBSET {"beat", "burst", "wave"}, NEW cues \in Seq(X),
           NEW tier \in Burst!AllTiers
    PROVE  \/ Burst!LongestOf(cues, tier) = 0
           \/ \E x \in X : Burst!LongestOf(cues, tier) = Burst!LengthOf(x, tier)
  <1> DEFINE L == {Burst!LengthOf(cues[i], tier) : i \in DOMAIN cues}
  <1>1. \A n \in L : \E x \in X : n = Burst!LengthOf(x, tier)
    <2>1. DOMAIN cues = 1..Len(cues) /\ \A i \in 1..Len(cues) : cues[i] \in X
      BY LenProperties, ElementOfSeq
    <2> QED
      BY <2>1
  <1>2. /\ Burst!LengthOf("beat", tier) = 13
        /\ Burst!LengthOf("burst", tier) = Burst!TierSound(tier)
        /\ Burst!LengthOf("wave", tier) = 95
    BY DEF Burst!LengthOf, Burst!PhoenixSlowMo, Burst!PhoenixSecondWave
  <1>3. Burst!TierSound(tier) \in Int
    <2>1. \A long \in BOOLEAN : Burst!TierSound(tier) \in Nat
      BY Spawns
    <2>2. TRUE \in BOOLEAN
      OBVIOUS
    <2>3. Burst!TierSound(tier) \in Nat
      BY <2>1, <2>2
    <2> QED
      BY <2>3
  <1>4. L \in SUBSET {13, Burst!TierSound(tier), 95}
    BY <1>1, <1>2
  <1> HIDE DEF L
  <1>5. L # {} => \E n \in L : \A k \in L : k <= n
    <2> DEFINE beat == 13
               burst == Burst!TierSound(tier)
               wave == 95
    <2>1. beat \in Int /\ burst \in Int /\ wave \in Int /\ L \in SUBSET {beat, burst, wave}
      BY <1>3, <1>4
    <2> HIDE DEF beat, burst, wave
    <2> QED
      BY SMTT(60), <2>1, LargestExists
  <1>6. Burst!LongestOf(cues, tier) =
            IF L = {} THEN 0 ELSE CHOOSE n \in L : \A k \in L : k <= n
    BY DEF Burst!LongestOf, L
  <1>7. L # {} => Burst!LongestOf(cues, tier) \in L
    BY <1>5, <1>6
  <1> QED
    BY <1>1, <1>6, <1>7

\* The cues of a frame come from its three blocks.
BeatCue(old, mid) ==
    IF old.phase = "launch" /\ mid.phase = "slowmo" THEN <<"beat">> ELSE <<>>
BurstCue(old, new) ==
    IF old.phase # "burst" /\ new.phase \in {"burst", "done"} THEN <<"burst">> ELSE <<>>
WaveCue(old, new) == IF ~old.wave /\ new.wave THEN <<"wave">> ELSE <<>>

\* Three sequences are added one by one or at once.
LEMMA OneByOne ==
    ASSUME NEW All, NEW h \in Seq(All), NEW a \in Seq(All), NEW b \in Seq(All),
           NEW c \in Seq(All)
    PROVE  h \o ((a \o b) \o c) = ((h \o a) \o b) \o c
  <1> DEFINE ab == a \o b
  <1>1. h \o ab = (h \o a) \o b
    BY ConcatAssociative
  <1>2. ab \in Seq(All)
    BY ConcatProperties
  <1> HIDE DEF ab
  <1>3. h \o (ab \o c) = (h \o ab) \o c
    BY SMTT(60), <1>2, ConcatAssociative
  <1>4. h \o (ab \o c) = ((h \o a) \o b) \o c
    BY <1>1, <1>3
  <1> QED
    BY <1>4 DEF ab

\* Cues of the three blocks that are among the kinds of X.
AmongCues(a, b, c, X) ==
    /\ X \in SUBSET {"beat", "burst", "wave"}
    /\ a = <<>> \/ (a = <<"beat">> /\ "beat" \in X)
    /\ b = <<>> \/ (b = <<"burst">> /\ "burst" \in X)
    /\ c = <<>> \/ (c = <<"wave">> /\ "wave" \in X)

\* Sequences of cues; the cues of a frame at once, and heard after others, at
\* once or one by one.
CueSeqs == Seq({"whoosh", "beat", "burst", "wave"})
AtOnce(a, b, c) == (a \o b) \o c
HeardOn(h, cues) == h \o cues
InTurn(h, a, b, c) == ((h \o a) \o b) \o c

\* The cues of a frame are of the kinds its blocks start, and are heard one
\* after the other.
LEMMA CuesInOrder ==
    ASSUME NEW a, NEW b, NEW c, NEW X, AmongCues(a, b, c, X), NEW h, h \in CueSeqs
    PROVE  /\ AtOnce(a, b, c) \in Seq(X)
           /\ HeardOn(h, AtOnce(a, b, c)) = InTurn(h, a, b, c)
  <1> DEFINE All == {"whoosh", "beat", "burst", "wave"}
  <1>1. a \in Seq(X) /\ b \in Seq(X) /\ c \in Seq(X)
    <2>1. <<>> \in Seq(X)
      BY EmptySeq
    <2>2. /\ "beat" \in X => <<"beat">> \in Seq(X)
          /\ "burst" \in X => <<"burst">> \in Seq(X)
          /\ "wave" \in X => <<"wave">> \in Seq(X)
      OBVIOUS
    <2> QED
      BY <2>1, <2>2 DEF AmongCues
  <1>2. a \o b \in Seq(X) /\ (a \o b) \o c \in Seq(X)
    BY <1>1, ConcatProperties
  <1>3. X \subseteq All
    BY DEF AmongCues
  <1> HIDE DEF All
  <1>4. a \in Seq(All) /\ b \in Seq(All) /\ c \in Seq(All) /\ a \o b \in Seq(All)
    BY <1>1, <1>2, <1>3, SeqMonotonic
  <1>5. h \in Seq(All)
    BY DEF All, CueSeqs
  <1>6. h \o ((a \o b) \o c) = ((h \o a) \o b) \o c
    BY SMTT(60), <1>4, <1>5, OneByOne
  <1> QED
    BY <1>2, <1>6 DEF AtOnce, HeardOn, InTurn

\* Each part of the score goes on with the next cue.
LEMMA ScoreGoesOn ==
    /\ <<"whoosh">> \o <<"beat">> = <<"whoosh", "beat">>
    /\ <<"whoosh">> \o <<"burst">> = <<"whoosh", "burst">>
    /\ <<"whoosh", "beat">> \o <<"burst">> = <<"whoosh", "beat", "burst">>
    /\ <<"whoosh", "beat", "burst">> \o <<"wave">> = <<"whoosh", "beat", "burst", "wave">>
  BY OneMore, TwoMore, ThreeMore

\* What was heard so far is a sequence of cues, which nothing adds nothing to.
LEMMA CuesAreCues ==
    ASSUME NEW e, Rising(e) \/ Burning(e) \/ BurntOut(e)
    PROVE  /\ CuesSoFar(e) \in Seq({"whoosh", "beat", "burst", "wave"})
           /\ CuesSoFar(e) \o <<>> = CuesSoFar(e)
  <1> DEFINE All == {"whoosh", "beat", "burst", "wave"}
  <1>1. /\ <<"whoosh">> \in Seq(All) /\ <<"whoosh", "beat">> \in Seq(All)
        /\ <<"whoosh", "burst">> \in Seq(All) /\ <<"whoosh", "beat", "burst">> \in Seq(All)
        /\ <<"whoosh", "beat", "burst", "wave">> \in Seq(All)
    OBVIOUS
  <1> HIDE DEF All
  <1>2. CuesSoFar(e) \in Seq(All)
    BY <1>1 DEF CuesSoFar
  <1>3. CuesSoFar(e) \o <<>> = CuesSoFar(e)
    BY <1>2, ConcatEmptySeq
  <1> QED
    BY <1>2, <1>3 DEF All

\* What the blocks of one frame do: the rocket rises on, begins its beat or
\* bursts, or what burns burns on.
LEMMA FrameBlocks ==
    ASSUME NEW e, Rising(e) \/ Burning(e), NEW d \in Nat, NEW long \in BOOLEAN,
           NEW dt, dt = Burst!Smaller(d, Burst!Cap),
           NEW elapsed, elapsed = Burst!Smaller(Burst!Settle, e.elapsed + d),
           NEW launched, launched = Burst!Launch([e EXCEPT !.elapsed = elapsed], dt, long),
           NEW beaten, beaten = Burst!SlowMoBlock(launched, elapsed, long),
           NEW new, new = Burst!BurstBlock(beaten, elapsed, dt, long)
    PROVE  /\ dt \in Nat /\ dt <= 2 /\ dt <= d /\ elapsed \in Nat
           /\ \/ /\ Rising(e) /\ Rising(new)
                 /\ new.tier = e.tier /\ new.phase = e.phase /\ launched.phase = e.phase
              \/ /\ Rising(e) /\ Rising(new) /\ e.phase = "launch"
                 /\ new.tier = e.tier /\ new.phase = "slowmo" /\ launched.phase = "slowmo"
              \/ /\ Rising(e) /\ JustLit(beaten, e.tier)
                 /\ e.tier = "PhoenixFinale" => launched.phase = "slowmo"
                 /\ e.tier # "PhoenixFinale" => /\ launched.phase = "burst"
                                                /\ e.phase = "launch"
              \/ /\ Burning(e) /\ Burning(beaten) /\ launched.phase = "burst"
                 /\ beaten.groups = e.groups /\ beaten.tier = e.tier
                 /\ beaten.wave = e.wave
  <1> DEFINE now == [e EXCEPT !.elapsed = elapsed]
  <1>1. EngineTyped(e) /\ e.elapsed \in Nat
    BY DEF Rising, Burning, EngineTyped
  <1>2. dt \in Nat /\ dt <= 2 /\ dt <= d /\ elapsed \in Nat
    BY <1>1 DEF Burst!Smaller, Burst!Cap, Burst!Settle
  <1>3. /\ EngineTyped(now) /\ now.phase = e.phase /\ now.tier = e.tier
        /\ now.groups = e.groups /\ now.comets = e.comets /\ now.wave = e.wave
    BY <1>1, <1>2, EngineParts
  <1> HIDE DEF now
  <1>4. launched = Burst!Launch(now, dt, long)
    BY DEF now
  <1>5. CASE Rising(e)
    <2>1. Rising(now)
      BY <1>3, <1>5 DEF Rising
    <2>2. \/ launched = now
          \/ now.phase = "launch" /\ Rising(launched) /\ launched.tier = now.tier
          \/ now.phase = "launch" /\ now.tier # "PhoenixFinale" /\ JustLit(launched, now.tier)
      BY <1>2, <1>4, <2>1, LaunchRises
    <2>3. EngineTyped(launched)
      BY <1>3, <2>2 DEF Rising, JustLit, Burning
    <2>4. beaten = launched \/ (launched.phase = "slowmo" /\ JustLit(beaten, launched.tier))
      BY <1>2, <2>3, SlowMoWaits
    <2>5. beaten.phase # "burst" => new = beaten
      BY DEF Burst!BurstBlock
    <2>6. CASE JustLit(launched, now.tier) /\ now.phase = "launch" /\ now.tier # "PhoenixFinale"
      <3>1. launched.phase = "burst"
        BY <2>6 DEF JustLit, Burning
      <3>2. beaten = launched
        BY <2>4, <3>1
      <3> QED
        BY <1>2, <1>3, <1>5, <2>6, <3>1, <3>2
    <2>7. CASE /\ Rising(launched) /\ launched.tier = e.tier
               /\ launched.phase = e.phase \/ e.phase = "launch"
      <3>1. launched.phase \in {"launch", "slowmo"}
            /\ (launched.phase = "slowmo" => launched.tier = "PhoenixFinale")
        BY <2>7 DEF Rising
      <3>2. CASE beaten = launched
        <4>1. new = launched
          BY <2>5, <3>1, <3>2
        <4> QED
          BY <1>2, <1>5, <2>7, <3>1, <4>1 DEF Rising
      <3>3. CASE launched.phase = "slowmo" /\ JustLit(beaten, launched.tier)
        BY <1>2, <1>5, <2>7, <3>1, <3>3
      <3> QED
        BY <2>4, <3>2, <3>3
    <2> QED
      BY <1>3, <2>1, <2>2, <2>6, <2>7
  <1>6. CASE Burning(e)
    <2>1. now.phase = "burst"
      BY <1>3, <1>6 DEF Burning
    <2>2. launched = now
      BY <1>4, <2>1 DEF Burst!Launch
    <2>3. beaten = now
      BY <2>1, <2>2 DEF Burst!SlowMoBlock
    <2>4. Burning(now)
      BY <1>3, <1>6 DEF Burning, RingsFollow, CometsFollow
    <2> QED
      BY <1>2, <1>3, <1>6, <2>1, <2>2, <2>3, <2>4
  <1> QED
    BY <1>5, <1>6

\* Nothing is added to what sounds, or the length of a cue.
AddsOneOf(X, tier, cues) ==
    \/ Burst!LongestOf(cues, tier) = 0
    \/ \E x \in X : Burst!LongestOf(cues, tier) = Burst!LengthOf(x, tier)

\* What a frame starts: nothing without the sound, and otherwise its cues, one
\* after the other; the longest of them is what it adds to what sounds.
LEMMA CuesAreHeard ==
    ASSUME NEW a, NEW b, NEW c, NEW X, AmongCues(a, b, c, X),
           NEW h, h \in CueSeqs, NEW tier, tier \in Burst!AllTiers,
           NEW cues, cues = Burst!Cues(AtOnce(a, b, c))
    PROVE  /\ soundEnabled => HeardOn(h, cues) = InTurn(h, a, b, c)
           /\ ~soundEnabled => HeardOn(<<>>, cues) = <<>>
           /\ AddsOneOf(X, tier, cues)
  <1> DEFINE all == AtOnce(a, b, c)
  <1>1. all \in Seq(X) /\ HeardOn(h, all) = InTurn(h, a, b, c)
    BY CuesInOrder
  <1>2. <<>> \in Seq(X) /\ <<>> \o <<>> = <<>>
    <2>1. <<>> \in Seq(X)
      BY EmptySeq
    <2> QED
      BY <2>1, ConcatEmptySeq
  <1> HIDE DEF all
  <1>3. /\ soundEnabled => cues = all
        /\ ~soundEnabled => cues = <<>>
    BY DEF Burst!Cues, all
  <1>4. cues \in Seq(X)
    BY <1>1, <1>2, <1>3
  <1>5. AddsOneOf(X, tier, cues)
    BY <1>4, LongestIs DEF AddsOneOf, AmongCues
  <1>6. soundEnabled => HeardOn(h, cues) = InTurn(h, a, b, c)
    BY <1>1, <1>3
  <1>7. ~soundEnabled => HeardOn(<<>>, cues) = <<>>
    BY <1>2, <1>3 DEF HeardOn
  <1> QED
    BY <1>5, <1>6, <1>7

\* How long each cue sounds.
LEMMA Lengths ==
    ASSUME NEW tier \in Burst!AllTiers
    PROVE  /\ Burst!LengthOf("beat", tier) = 13 /\ Burst!LengthOf("wave", tier) = 95
           /\ Burst!LengthOf("burst", tier) = Burst!TierSound(tier)
           /\ Burst!TierSound(tier) \in Nat
  <1>1. \A long \in BOOLEAN : Burst!TierSound(tier) \in Nat
    BY Spawns
  <1>2. TRUE \in BOOLEAN
    OBVIOUS
  <1>3. Burst!TierSound(tier) \in Nat
    BY <1>1, <1>2
  <1>4. /\ Burst!LengthOf("beat", tier) = 13 /\ Burst!LengthOf("wave", tier) = 95
        /\ Burst!LengthOf("burst", tier) = Burst!TierSound(tier)
    BY DEF Burst!LengthOf, Burst!PhoenixSlowMo, Burst!PhoenixSecondWave
  <1> QED
    BY <1>3, <1>4

\* What sounds after a frame: what sounded before it, less the time it took, or
\* the longest of its cues.
LEMMA SoundsOn ==
    ASSUME NEW before \in Nat, NEW d \in Nat, NEW longest \in Nat,
           NEW after, after = Burst!Larger(Burst!Larger(0, before - d), longest)
    PROVE  /\ after \in Nat
           /\ after <= before \/ after = longest
           /\ after = 0 \/ after = before - d \/ after = longest
  BY DEF Burst!Larger

\* The three ways a frame may take: the rocket rises on, it bursts, or what
\* burns burns on.
RisesOn(mid, new) ==
    /\ Rising(anim) /\ Rising(new) /\ new.tier = anim.tier
    /\ \/ new.phase = anim.phase /\ mid.phase = anim.phase
       \/ anim.phase = "launch" /\ new.phase = "slowmo" /\ mid.phase = "slowmo"
BurstsNow(mid, lit) ==
    /\ Rising(anim) /\ JustLit(lit, anim.tier)
    /\ anim.tier = "PhoenixFinale" => mid.phase = "slowmo"
    /\ anim.tier # "PhoenixFinale" => mid.phase = "burst" /\ anim.phase = "launch"
BurnsOn(lit) ==
    /\ Burning(anim) /\ Burning(lit)
    /\ lit.groups = anim.groups /\ lit.tier = anim.tier /\ lit.wave = anim.wave

\* The block of the burst takes one engine to the other in a frame.
RunsTo(lit, d, new) ==
    \E elapsed, dt \in Nat, long \in BOOLEAN :
        dt <= 2 /\ dt <= d /\ new = Burst!BurstBlock(lit, elapsed, dt, long)

\* What sounds after a frame.
AudibleAfter(d, cues) ==
    Burst!Larger(Burst!Larger(0, audible - d), Burst!LongestOf(cues, anim.tier))

\* The rocket rises on, or begins its beat: the next cue of the score is heard,
\* and nothing sounds for longer than the launch.
LEMMA RisingIsHeard ==
    ASSUME ShowInv, NEW d \in Nat, NEW mid, NEW new, RisesOn(mid, new),
           NEW cues, cues = Burst!Cues(Burst!FrameCues(anim, mid, new)),
           NEW after, after = AudibleAfter(d, cues)
    PROVE  /\ after \in Nat /\ after <= Burst!LaunchWhoosh
           /\ soundEnabled => HeardOn(heard, cues) = CuesSoFar(new)
           /\ ~soundEnabled => HeardOn(heard, cues) = <<>>
  <1>b. /\ Rising(anim) /\ Rising(new) /\ new.tier = anim.tier
        /\ \/ new.phase = anim.phase /\ mid.phase = anim.phase
           \/ anim.phase = "launch" /\ new.phase = "slowmo" /\ mid.phase = "slowmo"
    BY DEF RisesOn
  <1> DEFINE a == BeatCue(anim, mid)
             b == BurstCue(anim, new)
             c == WaveCue(anim, new)
             longest == Burst!LongestOf(cues, anim.tier)
  <1>1. cues = Burst!Cues(AtOnce(a, b, c))
    BY DEF AtOnce, Burst!FrameCues, BeatCue, BurstCue, WaveCue
  <1>2. /\ anim.phase \in {"launch", "slowmo"} /\ anim.tier \in Burst!AllTiers /\ ~anim.wave
        /\ new.phase \in {"launch", "slowmo"} /\ ~new.wave
    BY <1>b DEF Rising, EngineTyped
  <1>3. b = <<>> /\ c = <<>>
    BY <1>2 DEF BurstCue, WaveCue
  <1>4. \/ new.phase = anim.phase /\ a = <<>>
        \/ anim.phase = "launch" /\ new.phase = "slowmo" /\ a = <<"beat">>
    BY <1>b, <1>2 DEF BeatCue
  <1>5. /\ CuesSoFar(anim) \in CueSeqs
        /\ CuesSoFar(anim) \o <<>> = CuesSoFar(anim)
        /\ CuesSoFar(new) \o <<>> = CuesSoFar(new)
    BY <1>b, CuesAreCues DEF CueSeqs
  <1>6. /\ soundEnabled => heard = CuesSoFar(anim)
        /\ ~soundEnabled => heard = <<>>
    BY <1>2 DEF ShowInv
  <1>14. audible \in Nat /\ audible <= 35
    BY <1>2 DEF ShowInv, Burst!LaunchWhoosh
  <1> DEFINE h == CuesSoFar(anim)
             X == {"beat"}
  <1>7. h \o a = CuesSoFar(new)
    BY <1>b, <1>2, <1>4, <1>5, ScoreGoesOn DEF CuesSoFar
  <1> HIDE DEF a, b, c
  <1>8. /\ soundEnabled => HeardOn(h, cues) = InTurn(h, a, b, c)
        /\ ~soundEnabled => HeardOn(<<>>, cues) = <<>>
        /\ longest = 0 \/ (\E x \in X : longest = Burst!LengthOf(x, anim.tier))
    <2>1. h \in CueSeqs
      BY <1>5
    <2>2. AmongCues(a, b, c, X)
      BY <1>3, <1>4 DEF AmongCues
    <2> HIDE DEF X, h
    <2>3. anim.tier \in Burst!AllTiers
      BY <1>2
    <2> HIDE DEF longest
    <2>4. /\ soundEnabled => HeardOn(h, cues) = InTurn(h, a, b, c)
          /\ ~soundEnabled => HeardOn(<<>>, cues) = <<>>
          /\ AddsOneOf(X, anim.tier, cues)
      BY <1>1, <2>1, <2>2, <2>3, CuesAreHeard
    <2> QED
      BY <2>4 DEF AddsOneOf, longest
  <1>9. longest = 0 \/ longest = 13
    BY <1>2, <1>8, Lengths
  <1> HIDE DEF longest
  <1>10. after \in Nat /\ (after <= audible \/ after = longest)
    <2>1. longest \in Nat
      BY <1>9
    <2>2. after = Burst!Larger(Burst!Larger(0, audible - d), longest)
      BY DEF AudibleAfter, longest
    <2> QED
      BY <1>14, <2>1, <2>2 DEF Burst!Larger
  <1>11. after \in Nat /\ after <= Burst!LaunchWhoosh
    BY <1>14, <1>9, <1>10 DEF Burst!LaunchWhoosh
  <1>12. soundEnabled => HeardOn(heard, cues) = CuesSoFar(new)
    BY <1>3, <1>5, <1>6, <1>7, <1>8 DEF InTurn
  <1>13. ~soundEnabled => HeardOn(heard, cues) = <<>>
    BY <1>6, <1>8
  <1> QED
    BY <1>11, <1>12, <1>13

\* The rocket bursts, after its beat if it is the finale: the burst is heard,
\* and what is lit outlives, but for a second, what sounds.
LEMMA BurstIsHeard ==
    ASSUME ShowInv, NEW d \in Nat, NEW mid, NEW lit, BurstsNow(mid, lit),
           NEW new, RunsTo(lit, d, new),
           NEW cues, cues = Burst!Cues(Burst!FrameCues(anim, mid, new)),
           NEW after, after = AudibleAfter(d, cues)
    PROVE  /\ Burning(new) \/ BurntOut(new)
           /\ after \in Nat /\ Outlived(new.groups, after)
           /\ soundEnabled => HeardOn(heard, cues) = CuesSoFar(new)
           /\ ~soundEnabled => HeardOn(heard, cues) = <<>>
  <1>b. /\ Rising(anim) /\ JustLit(lit, anim.tier)
        /\ anim.tier = "PhoenixFinale" => mid.phase = "slowmo"
        /\ anim.tier # "PhoenixFinale" => mid.phase = "burst" /\ anim.phase = "launch"
    BY DEF BurstsNow
  <1>p. PICK elapsed \in Nat, dt \in Nat, long \in BOOLEAN :
            dt <= 2 /\ dt <= d /\ new = Burst!BurstBlock(lit, elapsed, dt, long)
    BY DEF RunsTo
  <1> DEFINE a == BeatCue(anim, mid)
             b == BurstCue(anim, new)
             c == WaveCue(anim, new)
             h == CuesSoFar(anim)
             X == IF new.wave THEN {"beat", "burst", "wave"} ELSE {"beat", "burst"}
             tier == anim.tier
             longest == Burst!LongestOf(cues, tier)
  <1>1. cues = Burst!Cues(AtOnce(a, b, c))
    BY DEF AtOnce, Burst!FrameCues, BeatCue, BurstCue, WaveCue
  <1>2. /\ anim.phase \in {"launch", "slowmo"} /\ tier \in Burst!AllTiers /\ ~anim.wave
        /\ anim.phase = "slowmo" => tier = "PhoenixFinale"
    BY <1>b DEF Rising, EngineTyped
  <1>3. /\ Burning(lit) /\ lit.tier = tier /\ ~lit.wave
        /\ \E g \in lit.groups : g.age = 0 /\ g.life >= 42 /\ Burst!TierSound(tier) <= g.life + 45
        /\ lit.groups \in SUBSET Groups
    BY <1>b DEF JustLit, Burning, EngineTyped
  <1>4. (Burning(new) \/ BurntOut(new)) /\ new.tier = tier
    <2>1. /\ 0 \in Nat
          /\ \/ 0 <= 50
             \/ \E g \in lit.groups : g.age >= 0 /\ 0 + g.age + dt <= g.life + 50
             \/ 0 + dt <= 160 /\ ~lit.wave /\ new.wave
      OBVIOUS
    <2> QED
      BY <1>p, <1>3, <2>1, BurstBurns
  <1>5. /\ new.phase \in {"burst", "done"} /\ new.wave \in BOOLEAN
        /\ new.wave => tier = "PhoenixFinale"
    BY <1>4 DEF Burning, BurntOut, EngineTyped
  <1>6. /\ b = <<"burst">>
        /\ c = IF new.wave THEN <<"wave">> ELSE <<>>
        /\ a = IF anim.phase = "launch" /\ tier = "PhoenixFinale" THEN <<"beat">> ELSE <<>>
    BY <1>b, <1>2, <1>5 DEF BeatCue, BurstCue, WaveCue
  <1>7. /\ h \in CueSeqs /\ h \o <<>> = h
        /\ CuesSoFar(new) \o <<>> = CuesSoFar(new)
    BY <1>b, <1>4, CuesAreCues DEF CueSeqs
  <1>8. /\ soundEnabled => heard = h
        /\ ~soundEnabled => heard = <<>>
    BY <1>2 DEF ShowInv
  <1>9. audible \in Nat /\ audible <= 35
    BY <1>2 DEF ShowInv, Burst!LaunchWhoosh
  <1>10. ((h \o a) \o b) \o c = CuesSoFar(new)
    <2>1. CASE tier = "PhoenixFinale"
      <3>1. h \o a = <<"whoosh", "beat">>
        BY <1>2, <1>6, <1>7, <2>1, ScoreGoesOn DEF CuesSoFar
      <3>2. (h \o a) \o b = <<"whoosh", "beat", "burst">>
        BY <1>6, <3>1, ScoreGoesOn
      <3>3. CASE new.wave
        BY <1>4, <1>5, <1>6, <2>1, <3>2, <3>3, ScoreGoesOn DEF CuesSoFar
      <3>4. CASE ~new.wave
        <4>1. CuesSoFar(new) = <<"whoosh", "beat", "burst">> /\ c = <<>>
          BY <1>4, <1>5, <1>6, <2>1, <3>4 DEF CuesSoFar
        <4> HIDE DEF c
        <4> QED
          BY <1>7, <3>2, <4>1
      <3> QED
        BY <3>3, <3>4
    <2>2. CASE tier # "PhoenixFinale"
      <3>1. h = <<"whoosh">> /\ a = <<>> /\ c = <<>> /\ CuesSoFar(new) = <<"whoosh", "burst">>
        BY <1>2, <1>4, <1>5, <1>6, <2>2 DEF CuesSoFar
      <3>2. h \o a = <<"whoosh">>
        BY <1>7, <3>1
      <3>3. (h \o a) \o b = <<"whoosh", "burst">>
        BY <1>6, <3>2, ScoreGoesOn
      <3> HIDE DEF a, b, c, h
      <3> QED
        BY <1>7, <3>1, <3>3
    <2> QED
      BY <2>1, <2>2
  <1> HIDE DEF a, b, c, h
  <1>11. /\ soundEnabled => HeardOn(h, cues) = InTurn(h, a, b, c)
         /\ ~soundEnabled => HeardOn(<<>>, cues) = <<>>
         /\ \/ longest = 0
            \/ \E x \in X : longest = Burst!LengthOf(x, tier)
    <2>1. AmongCues(a, b, c, X)
      BY <1>6 DEF AmongCues
    <2>3. /\ tier \in Burst!AllTiers
          /\ h \in CueSeqs
      BY <1>2, <1>7
    <2> HIDE DEF X, tier, longest
    <2>4. /\ soundEnabled => HeardOn(h, cues) = InTurn(h, a, b, c)
          /\ ~soundEnabled => HeardOn(<<>>, cues) = <<>>
          /\ AddsOneOf(X, tier, cues)
      BY <1>1, <2>1, <2>3, CuesAreHeard
    <2> QED
      BY <2>4 DEF AddsOneOf, longest
  <1>12. \/ longest = 0 \/ longest = 13 \/ longest = Burst!TierSound(tier)
         \/ longest = 95 /\ new.wave
    BY <1>2, <1>11, Lengths
  <1>13. Burst!TierSound(tier) \in Nat
    BY <1>2, Lengths
  <1> HIDE DEF longest, tier, X
  <1>14. /\ after \in Nat
         /\ \/ after <= 50
            \/ after = Burst!TierSound(tier)
            \/ after = 95 /\ new.wave
    <2>1. longest \in Nat
      BY <1>12, <1>13
    <2>2. after = Burst!Larger(Burst!Larger(0, audible - d), longest)
      BY DEF AudibleAfter, longest, tier
    <2>3. after \in Nat /\ (after <= 50 \/ after = longest)
      BY <1>9, <2>1, <2>2 DEF Burst!Larger
    <2> QED
      BY <1>12, <2>3
  <1>15. Outlived(new.groups, after)
    <2>1. \/ after <= 50
          \/ \E g \in lit.groups : g.age >= 0 /\ after + g.age + dt <= g.life + 50
          \/ after + dt <= 160 /\ ~lit.wave /\ new.wave
      <3>1. CASE after <= 50
        BY <3>1
      <3>2. CASE after = Burst!TierSound(tier)
        <4>1. PICK g \in lit.groups : g.age = 0 /\ g.life >= 42
                                      /\ Burst!TierSound(tier) <= g.life + 45
          BY <1>3
        <4>2. g.life \in Nat
          BY <1>3 DEF Groups
        <4>3. g.age >= 0 /\ after + g.age + dt <= g.life + 50
          BY <1>p, <1>13, <3>2, <4>1, <4>2
        <4> QED
          BY <4>3
      <3>3. CASE after = 95 /\ new.wave
        <4>1. after + dt <= 160
          BY <1>p, <3>3
        <4> QED
          BY <1>3, <3>3, <4>1
      <3> QED
        BY <1>14, <3>1, <3>2, <3>3
    <2>2. after \in Nat /\ Burning(lit)
      BY <1>3, <1>14
    <2> QED
      BY <1>p, <2>1, <2>2, BurstBurns
  <1>16. soundEnabled => HeardOn(heard, cues) = CuesSoFar(new)
    BY <1>8, <1>10, <1>11 DEF InTurn
  <1>17. ~soundEnabled => HeardOn(heard, cues) = <<>>
    BY <1>8, <1>11
  <1> QED
    BY <1>4, <1>14, <1>15, <1>16, <1>17

\* What burns burns on: the second wave is heard once, and what sounds is over
\* within a second of the sky.
LEMMA WaveIsHeard ==
    ASSUME ShowInv, NEW d \in Nat, NEW mid, NEW lit, BurnsOn(lit),
           NEW new, RunsTo(lit, d, new),
           NEW cues, cues = Burst!Cues(Burst!FrameCues(anim, mid, new)),
           NEW after, after = AudibleAfter(d, cues)
    PROVE  /\ Burning(new) \/ BurntOut(new)
           /\ after \in Nat /\ Outlived(new.groups, after)
           /\ soundEnabled => HeardOn(heard, cues) = CuesSoFar(new)
           /\ ~soundEnabled => HeardOn(heard, cues) = <<>>
  <1>b. /\ Burning(anim) /\ Burning(lit)
        /\ lit.groups = anim.groups /\ lit.tier = anim.tier /\ lit.wave = anim.wave
    BY DEF BurnsOn
  <1>p. PICK elapsed \in Nat, dt \in Nat, long \in BOOLEAN :
            dt <= 2 /\ dt <= d /\ new = Burst!BurstBlock(lit, elapsed, dt, long)
    BY DEF RunsTo
  <1> DEFINE a == BeatCue(anim, mid)
             b == BurstCue(anim, new)
             c == WaveCue(anim, new)
             h == CuesSoFar(anim)
             X == IF ~anim.wave /\ new.wave THEN {"wave"} ELSE {}
             tier == anim.tier
             longest == Burst!LongestOf(cues, tier)
  <1>1. cues = Burst!Cues(AtOnce(a, b, c))
    BY DEF AtOnce, Burst!FrameCues, BeatCue, BurstCue, WaveCue
  <1>2. /\ anim.phase = "burst" /\ tier \in Burst!AllTiers
        /\ anim.wave \in BOOLEAN /\ anim.groups \in SUBSET Groups
    BY <1>b DEF Burning, EngineTyped
  <1>3. (Burning(new) \/ BurntOut(new)) /\ new.tier = tier /\ (anim.wave => new.wave)
    <2>1. /\ 0 \in Nat
          /\ \/ 0 <= 50
             \/ \E g \in lit.groups : g.age >= 0 /\ 0 + g.age + dt <= g.life + 50
             \/ 0 + dt <= 160 /\ ~lit.wave /\ new.wave
      OBVIOUS
    <2> QED
      BY <1>b, <1>p, <2>1, BurstBurns
  <1>4. /\ new.phase \in {"burst", "done"} /\ new.wave \in BOOLEAN
        /\ new.wave => tier = "PhoenixFinale"
    BY <1>3 DEF Burning, BurntOut, EngineTyped
  <1>5. /\ a = <<>> /\ b = <<>>
        /\ c = IF ~anim.wave /\ new.wave THEN <<"wave">> ELSE <<>>
    BY <1>2 DEF BeatCue, BurstCue, WaveCue
  <1>6. /\ h \in CueSeqs /\ h \o <<>> = h
        /\ CuesSoFar(new) \o <<>> = CuesSoFar(new)
    BY <1>b, <1>3, CuesAreCues DEF CueSeqs
  <1>7. /\ soundEnabled => heard = h
        /\ ~soundEnabled => heard = <<>>
    BY <1>2 DEF ShowInv
  <1>8. audible \in Nat
    BY DEF ShowInv
  <1>9. h \o c = CuesSoFar(new)
    <2>1. CASE ~anim.wave /\ new.wave
      BY <1>2, <1>3, <1>4, <1>5, <2>1, ScoreGoesOn DEF CuesSoFar
    <2>2. CASE anim.wave \/ ~new.wave
      <3>1. c = <<>> /\ anim.wave = new.wave
        BY <1>2, <1>3, <1>4, <1>5, <2>2
      <3>2. h = CuesSoFar(new)
        BY <1>2, <1>3, <1>4, <3>1 DEF CuesSoFar
      <3> HIDE DEF c, h
      <3> QED
        BY <1>6, <3>1, <3>2
    <2> QED
      BY <2>1, <2>2
  <1> HIDE DEF a, b, c, h
  <1>10. ((h \o a) \o b) \o c = CuesSoFar(new)
    BY <1>5, <1>6, <1>9
  <1>11. /\ soundEnabled => HeardOn(h, cues) = InTurn(h, a, b, c)
         /\ ~soundEnabled => HeardOn(<<>>, cues) = <<>>
         /\ \/ longest = 0
            \/ \E x \in X : longest = Burst!LengthOf(x, tier)
    <2>1. AmongCues(a, b, c, X)
      BY <1>5 DEF AmongCues
    <2>2. /\ tier \in Burst!AllTiers
          /\ h \in CueSeqs
      BY <1>2, <1>6
    <2> HIDE DEF X, tier, longest
    <2>3. /\ soundEnabled => HeardOn(h, cues) = InTurn(h, a, b, c)
          /\ ~soundEnabled => HeardOn(<<>>, cues) = <<>>
          /\ AddsOneOf(X, tier, cues)
      BY <1>1, <2>1, <2>2, CuesAreHeard
    <2> QED
      BY <2>3 DEF AddsOneOf, longest
  <1>12. longest = 0 \/ (longest = 95 /\ ~anim.wave /\ new.wave)
    BY <1>2, <1>11, Lengths
  <1> HIDE DEF longest, tier, X
  <1>13. /\ after \in Nat
         /\ \/ after = 0
            \/ after = audible - d
            \/ after = 95 /\ ~anim.wave /\ new.wave
    <2>1. longest \in Nat
      BY <1>12
    <2>2. after = Burst!Larger(Burst!Larger(0, audible - d), longest)
      BY DEF AudibleAfter, longest, tier
    <2>3. after \in Nat /\ (after = 0 \/ after = audible - d \/ after = longest)
      BY <1>8, <2>1, <2>2 DEF Burst!Larger
    <2> QED
      BY <1>12, <2>3
  <1>14. Outlived(new.groups, after)
    <2>1. \/ after <= 50
          \/ \E g \in lit.groups : g.age >= 0 /\ after + g.age + dt <= g.life + 50
          \/ after + dt <= 160 /\ ~lit.wave /\ new.wave
      <3>1. CASE after = 0
        BY <3>1
      <3>2. CASE after = audible - d
        <4>1. Outlived(anim.groups, audible)
          BY <1>2 DEF ShowInv
        <4>2. CASE audible <= 50
          BY <1>8, <3>2, <4>2
        <4>3. CASE \E g \in anim.groups : g.age >= 0 /\ audible + g.age <= g.life + 50
          <5>1. PICK g \in lit.groups : g.age >= 0 /\ audible + g.age <= g.life + 50
            BY <1>b, <4>3
          <5>2. g.age \in Int /\ g.life \in Nat
            BY <1>b, <1>2 DEF Groups
          <5>3. g.age >= 0 /\ after + g.age + dt <= g.life + 50
            BY <1>p, <1>8, <3>2, <5>1, <5>2
          <5> QED
            BY <5>3
        <4> QED
          BY <4>1, <4>2, <4>3 DEF Outlived
      <3>3. CASE after = 95 /\ ~anim.wave /\ new.wave
        <4>1. after + dt <= 160
          BY <1>p, <3>3
        <4> QED
          BY <1>b, <3>3, <4>1
      <3> QED
        BY <1>13, <3>1, <3>2, <3>3
    <2>2. after \in Nat
      BY <1>13
    <2> QED
      BY <1>b, <1>p, <2>1, <2>2, BurstBurns
  <1>15. soundEnabled => HeardOn(heard, cues) = CuesSoFar(new)
    BY <1>7, <1>10, <1>11 DEF InTurn
  <1>16. ~soundEnabled => HeardOn(heard, cues) = <<>>
    BY <1>7, <1>11
  <1> QED
    BY <1>3, <1>13, <1>14, <1>15, <1>16

\* A frame keeps the invariant.
LEMMA FrameKeepsShow ==
    ASSUME ShowInv, NEW d \in Nat, Burst!Frame(d)
    PROVE  ShowInv'
  <1> DEFINE dt == Burst!Smaller(d, Burst!Cap)
             elapsed == Burst!Smaller(Burst!Settle, anim.elapsed + d)
             launched(long) == Burst!Launch([anim EXCEPT !.elapsed = elapsed], dt, long)
             beaten(long) == Burst!SlowMoBlock(launched(long), elapsed, long)
             new(long) == Burst!BurstBlock(beaten(long), elapsed, dt, long)
             cues(long) == Burst!Cues(Burst!FrameCues(anim, launched(long), new(long)))
  <1>1. PICK long \in BOOLEAN :
            /\ anim' = new(long)
            /\ heard' = heard \o cues(long)
            /\ audible' = Burst!Larger(Burst!Larger(0, audible - d),
                                       Burst!LongestOf(cues(long), anim.tier))
    BY Zenon DEF Burst!Frame
  <1>2. /\ soundEnabled' = soundEnabled /\ soundEnabled \in BOOLEAN
        /\ tierProp' = tierProp /\ tierProp \in ShownTiers \cup {"none"}
    BY DEF Burst!Frame, ShowInv
  <1>3. Rising(anim) \/ Burning(anim)
    <2>1. anim.phase \notin {"none", "done"}
      BY DEF Burst!Frame
    <2>2. Burst!NoShow.phase = "none"
      BY DEF Burst!NoShow
    <2> QED
      BY <2>1, <2>2 DEF ShowInv, BurntOut
  <1> DEFINE mid == launched(long)
             lit == beaten(long)
             next == new(long)
             started == cues(long)
             time == elapsed
             step == dt
  <1>4. step \in Nat /\ step <= 2 /\ step <= d /\ time \in Nat
    <2>1. anim.elapsed \in Nat
      BY <1>3 DEF Rising, Burning, EngineTyped
    <2> QED
      BY <2>1 DEF Burst!Smaller, Burst!Cap, Burst!Settle
  <1>5. RisesOn(mid, next) \/ BurstsNow(mid, lit) \/ BurnsOn(lit)
    BY <1>3, FrameBlocks DEF RisesOn, BurstsNow, BurnsOn
  <1> DEFINE after == AudibleAfter(d, started)
             score == HeardOn(heard, started)
  <1>9. RunsTo(lit, d, next)
    <2>1. next = Burst!BurstBlock(lit, time, step, long)
      OBVIOUS
    <2> HIDE DEF next, lit, time, step
    <2> QED
      BY <1>4, <2>1 DEF RunsTo
  <1>6. /\ started = Burst!Cues(Burst!FrameCues(anim, mid, next))
        /\ anim' = next /\ heard' = score /\ audible' = after
    BY <1>1 DEF AudibleAfter, HeardOn
  <1> HIDE DEF mid, lit, next, started, time, step
  <1>7. CASE RisesOn(mid, next)
    <2>1. /\ after \in Nat /\ after <= Burst!LaunchWhoosh
          /\ soundEnabled => score = CuesSoFar(next)
          /\ ~soundEnabled => score = <<>>
      BY <1>6, <1>7, RisingIsHeard
    <2>2. next.phase \in {"launch", "slowmo"}
      BY <1>7 DEF RisesOn, Rising
    <2> HIDE DEF after, score
    <2> QED
      BY <1>2, <1>6, <1>7, <2>1, <2>2 DEF ShowInv, RisesOn
  <1>8. CASE BurstsNow(mid, lit) \/ BurnsOn(lit)
    <2>1. /\ Burning(next) \/ BurntOut(next)
          /\ after \in Nat /\ Outlived(next.groups, after)
          /\ soundEnabled => score = CuesSoFar(next)
          /\ ~soundEnabled => score = <<>>
      <3>1. CASE BurstsNow(mid, lit)
        BY <1>6, <1>9, <3>1, BurstIsHeard
      <3>2. CASE BurnsOn(lit)
        BY <1>6, <1>9, <3>2, WaveIsHeard
      <3> QED
        BY <1>8, <3>1, <3>2
    <2>2. next.phase \in {"burst", "done"}
      BY <2>1 DEF Burning, BurntOut
    <2> HIDE DEF after, score
    <2> QED
      BY <1>2, <1>6, <2>1, <2>2 DEF ShowInv
  <1> QED
    BY <1>5, <1>7, <1>8

\* Another tier or another setting of the sound sets the engine up anew.
LEMMA InitiateKeepsShow ==
    ASSUME Burst!BurstAssumption, NEW tier \in ShownTiers \cup {"none"},
           NEW sound \in BOOLEAN, Burst!Initiate(tier, sound)
    PROVE  ShowInv'
  <1>1. soundEnabled' = sound /\ tierProp' = tier
    BY DEF Burst!Initiate
  <1>2. CASE tier = "none"
    <2>1. /\ anim' = Burst!NoShow /\ audible' = 0
          /\ Burst!NoShow.phase = "none"
      BY <1>2 DEF Burst!Initiate, Burst!NoShow
    <2>2. audible' \in Nat /\ audible' <= Burst!LaunchWhoosh
      BY <2>1 DEF Burst!LaunchWhoosh
    <2> QED
      BY <1>1, <2>1, <2>2 DEF ShowInv
  <1>3. CASE tier # "none"
    <2>1. PICK climb \in Ascents : anim' = Burst!Started(tier, climb)
      BY <1>3 DEF Burst!Initiate
    <2>2. /\ heard' = IF sound THEN <<"whoosh">> ELSE <<>>
          /\ audible' = IF sound THEN Burst!LaunchWhoosh ELSE 0
      BY <1>3 DEF Burst!Initiate
    <2>3. tier \in Burst!AllTiers /\ climb \in Int
      BY <1>3, <2>1 DEF Burst!BurstAssumption
    <2> DEFINE e == Burst!Started(tier, climb)
    <2>4. /\ e = [f \in EngineFields |-> e[f]]
          /\ e.phase = "launch" /\ e.tier = tier /\ e.elapsed = 0 /\ e.climb = climb
          /\ e.groups = {} /\ e.comets = Burst!CometLife /\ ~e.wave /\ e.wave \in BOOLEAN
      BY DEF Burst!Started, EngineFields
    <2>5. 0 \in Nat /\ Burst!CometLife \in 0..Burst!CometLife /\ {} \in SUBSET Groups
      BY DEF Burst!CometLife
    <2> HIDE DEF e
    <2>6. EngineTyped(e)
      BY <2>3, <2>4, <2>5 DEF EngineTyped
    <2>7. Rising(e)
      BY <2>4, <2>6 DEF Rising
    <2>8. CuesSoFar(e) = <<"whoosh">>
      BY <2>4 DEF CuesSoFar
    <2>9. audible' \in Nat /\ audible' <= Burst!LaunchWhoosh
      BY <2>2 DEF Burst!LaunchWhoosh
    <2>10. anim' = e
      BY <2>1 DEF e
    <2> QED
      BY <1>1, <2>2, <2>4, <2>7, <2>8, <2>9, <2>10 DEF ShowInv
  <1> QED
    BY <1>2, <1>3

\* After the show what sounds fades.
LEMMA IdleFrameKeepsShow ==
    ASSUME ShowInv, NEW d \in Nat, Burst!IdleFrame(d)
    PROVE  ShowInv'
  <1>1. /\ anim.phase = "done" /\ anim' = anim /\ heard' = heard
        /\ soundEnabled' = soundEnabled /\ tierProp' = tierProp
        /\ audible' = Burst!Larger(0, audible - d)
    BY DEF Burst!IdleFrame
  <1>2. audible \in Nat /\ Outlived(anim.groups, audible)
    BY <1>1 DEF ShowInv
  <1>3. anim.groups = {}
    BY <1>1 DEF ShowInv, Rising, Burning, BurntOut, Burst!NoShow
  <1>4. audible <= 50
    BY <1>2, <1>3 DEF Outlived
  <1>5. audible' \in Nat /\ audible' <= 50
    BY <1>1, <1>2, <1>4 DEF Burst!Larger
  <1>6. Outlived(anim'.groups, audible')
    BY <1>5 DEF Outlived
  <1> QED
    BY <1>1, <1>5, <1>6 DEF ShowInv

\* ShowInv is inductive.
LEMMA ShowInitInv == Burst!Init => ShowInv
  <1> SUFFICES ASSUME Burst!Init
               PROVE  ShowInv
    OBVIOUS
  <1>1. Burst!NoShow.phase = "none"
    BY DEF Burst!NoShow
  <1>2. audible \in Nat /\ audible <= Burst!LaunchWhoosh
    BY DEF Burst!Init, Burst!LaunchWhoosh
  <1> QED
    BY <1>1, <1>2 DEF Burst!Init, ShowInv

\* Every step of the show keeps ShowInv.
LEMMA ShowNextInv ==
    ASSUME Burst!BurstAssumption
    PROVE  ShowInv /\ [Burst!Next]_(Burst!vars) => ShowInv'
  <1> SUFFICES ASSUME ShowInv, [Burst!Next]_(Burst!vars)
               PROVE  ShowInv'
    OBVIOUS
  <1>1. CASE UNCHANGED Burst!vars
    BY <1>1 DEF Burst!vars, ShowInv
  <1>2. Frames \subseteq Nat
    BY DEF Burst!BurstAssumption
  <1>3. soundEnabled \in BOOLEAN
    BY DEF ShowInv
  <1>4. ASSUME NEW tier \in ShownTiers \cup {"none"}, Burst!SetTier(tier)
        PROVE  ShowInv'
    BY <1>3, <1>4, InitiateKeepsShow DEF Burst!SetTier
  <1>5. CASE Burst!ToggleSound
    <2>1. tierProp \in ShownTiers \cup {"none"}
      BY DEF ShowInv
    <2> QED
      BY <1>3, <1>5, <2>1, InitiateKeepsShow DEF Burst!ToggleSound
  <1>6. ASSUME NEW d \in Frames, Burst!Frame(d)
        PROVE  ShowInv'
    BY <1>2, <1>6, FrameKeepsShow
  <1>7. ASSUME NEW d \in Frames, Burst!IdleFrame(d)
        PROVE  ShowInv'
    BY <1>2, <1>7, IdleFrameKeepsShow
  <1> QED
    BY <1>1, <1>4, <1>5, <1>6, <1>7 DEF Burst!Next

\* What ShowInv says of the end of a show and of what was heard.
LEMMA ShowInvMeans ==
    ASSUME ShowInv
    PROVE  Burst!ShowIsWhole /\ Burst!ScoreIsWhole /\ Burst!QuietAfterShow
  <1>1. Burst!NoShow.phase = "none"
    BY DEF Burst!NoShow
  <1>2. anim.phase = "done" => BurntOut(anim)
    BY <1>1 DEF ShowInv, Rising, Burning
  <1>3. Burst!ShowIsWhole
    BY <1>2 DEF BurntOut, Burst!ShowIsWhole
  <1>4. Burst!QuietAfterShow
    BY <1>2 DEF BurntOut, ShowInv, Outlived, Burst!QuietAfterShow
  <1>5. ASSUME anim.phase # "none"
        PROVE  /\ ~soundEnabled => heard = <<>>
               /\ soundEnabled => \E n \in 1..Len(Burst!Score(anim.tier)) :
                                      heard = SubSeq(Burst!Score(anim.tier), 1, n)
               /\ anim.phase = "done" /\ soundEnabled => heard = Burst!Score(anim.tier)
    <2>1. /\ soundEnabled => heard = CuesSoFar(anim)
          /\ ~soundEnabled => heard = <<>>
      BY <1>5 DEF ShowInv
    <2>2. /\ anim.phase \in {"launch", "slowmo", "burst", "done"}
          /\ anim.phase = "slowmo" => anim.tier = "PhoenixFinale"
          /\ anim.phase = "done" => (anim.wave <=> anim.tier = "PhoenixFinale")
      BY <1>1, <1>5 DEF ShowInv, Rising, Burning, BurntOut
    <2>3. anim.phase = "done" => CuesSoFar(anim) = Burst!Score(anim.tier)
      BY <2>2 DEF CuesSoFar, Burst!Score
    <2>4. \E n \in 1..Len(Burst!Score(anim.tier)) :
              CuesSoFar(anim) = SubSeq(Burst!Score(anim.tier), 1, n)
      <3>1. CASE anim.tier = "PhoenixFinale"
        <4> DEFINE s == <<"whoosh", "beat", "burst", "wave">>
        <4>1. Burst!Score(anim.tier) = s
          BY <3>1 DEF Burst!Score
        <4>2. /\ SubSeq(s, 1, 1) = <<"whoosh">> /\ SubSeq(s, 1, 2) = <<"whoosh", "beat">>
              /\ SubSeq(s, 1, 3) = <<"whoosh", "beat", "burst">> /\ SubSeq(s, 1, 4) = s
              /\ Len(s) = 4
          BY ScoreParts
        <4>3. \/ CuesSoFar(anim) = <<"whoosh">> \/ CuesSoFar(anim) = <<"whoosh", "beat">>
              \/ CuesSoFar(anim) = <<"whoosh", "beat", "burst">> \/ CuesSoFar(anim) = s
          BY <2>2, <3>1 DEF CuesSoFar
        <4> HIDE DEF s
        <4>4. /\ 1 \in 1..Len(s) /\ 2 \in 1..Len(s) /\ 3 \in 1..Len(s) /\ 4 \in 1..Len(s)
          BY <4>2
        <4> QED
          BY <4>1, <4>2, <4>3, <4>4
      <3>2. CASE anim.tier # "PhoenixFinale"
        <4> DEFINE s == <<"whoosh", "burst">>
        <4>1. Burst!Score(anim.tier) = s
          BY <3>2 DEF Burst!Score
        <4>2. SubSeq(s, 1, 1) = <<"whoosh">> /\ SubSeq(s, 1, 2) = s /\ Len(s) = 2
          BY ScoreParts
        <4>3. CuesSoFar(anim) = <<"whoosh">> \/ CuesSoFar(anim) = s
          BY <2>2, <3>2 DEF CuesSoFar
        <4> HIDE DEF s
        <4>4. 1 \in 1..Len(s) /\ 2 \in 1..Len(s)
          BY <4>2
        <4> QED
          BY <4>1, <4>2, <4>3, <4>4
      <3> QED
        BY <3>1, <3>2
    <2> QED
      BY <2>1, <2>3, <2>4
  <1>6. Burst!ScoreIsWhole
    BY <1>5 DEF Burst!ScoreIsWhole
  <1> QED
    BY <1>3, <1>4, <1>6

\* The show, whatever its tier: its end is announced when all of it was seen,
\* its score is heard once and in order, and its sounds are over within a
\* second of the end.  Code: the frame of BurstReveal.tsx with its spawners, and
\* the lengths of the cues in audio.ts.
THEOREM TheShowIsWhole ==
    ASSUME Burst!BurstAssumption
    PROVE  Burst!Spec => [](Burst!ShowIsWhole /\ Burst!ScoreIsWhole /\ Burst!QuietAfterShow)
  <1>1. ShowInv /\ [Burst!Next]_(Burst!vars) => ShowInv'
    BY ShowNextInv
  <1>2. ShowInv => Burst!ShowIsWhole /\ Burst!ScoreIsWhole /\ Burst!QuietAfterShow
    BY ShowInvMeans
  <1> QED
    BY <1>1, <1>2, ShowInitInv, PTL DEF Burst!Spec

-----------------------------------------------------------------------------
(***************************************************************************)
(* The verification: for any number of nodes and requests, and whatever is *)
(* wrong with each fulfilment.                                             *)
(***************************************************************************)

-----------------------------------------------------------------------------
(***************************************************************************)
(* The checks of one request                                               *)
(***************************************************************************)

Scene == fulfilment \in [Asked -> [node : VrfNodes, how : Manners \cup {"pending"}]]

\* In a transaction that fulfils many requests, and among the logs of other
\* contracts, the log of the request is found.
LEMMA TheLogIsFound ==
    ASSUME NEW r \in Asked, Fulfilled(r)
    PROVE  FoundLogs(r) = {LogOf(r)}
  <1>1. \A q : LogOf(q).address = "router" /\ StrayLog(q).address = "other"
               /\ LogOf(q).id = IdOf(q)
    BY DEF LogOf, StrayLog
  <1>2. \A q : IdOf(q) = IdOf(r) => q = r
    BY DEF IdOf, ComputeRequestId, Request
  <1>3. LogOf(r) \in Logs(r)
    BY DEF Logs, Together
  <1>4. \A log \in Logs(r) : \E q : log = LogOf(q) \/ log = StrayLog(q)
    BY DEF Logs
  <1> HIDE DEF LogOf, StrayLog, IdOf, Logs
  <1>5. \A log \in FoundLogs(r) : log = LogOf(r)
    BY <1>1, <1>2, <1>4 DEF FoundLogs
  <1>6. LogOf(r) \in FoundLogs(r)
    BY <1>1, <1>3 DEF FoundLogs
  <1> QED
    BY <1>5, <1>6

\* Who signed it, and whether its proof holds for that key.
Signer(r) == RecoverFulfillmentSigner(IdOf(r), LogOf(r).proof, LogOf(r).signature)
ProofValid(r) == \E key \in Signer(r) : VerifyEcvrf(key, LogOf(r).proof, IdOf(r))

\* What the log of a fulfilment says, and when its proof is sound.
LEMMA PartsOfTheLog ==
    ASSUME NEW r
    PROVE  /\ LogOf(r).proof = ProofOf(r)
           /\ LogOf(r).signature = SignatureOf(r)
           /\ LogOf(r).randomness = IF fulfilment[r].how = "other word in the log"
                                    THEN OtherWord ELSE DeriveRandomness(ProofOf(r))
           /\ ProofOf(r).key = ProverOf(r)
           /\ ProofOf(r).alpha = IdOf(r)
           /\ ProofOf(r).form = "sound" <=> fulfilment[r].how # "malformed proof"
           /\ fulfilment[r].how # "malformed proof"
                  => ProofOf(r) = Prove(ProverOf(r), IdOf(r))
  <1>1. /\ ProofOf(r).key = ProverOf(r)
        /\ ProofOf(r).alpha = IdOf(r)
        /\ ProofOf(r).form = "sound" <=> fulfilment[r].how # "malformed proof"
        /\ fulfilment[r].how # "malformed proof" => ProofOf(r) = Prove(ProverOf(r), IdOf(r))
    BY DEF ProofOf, Prove
  <1>2. /\ LogOf(r).proof = ProofOf(r)
        /\ LogOf(r).signature = SignatureOf(r)
        /\ LogOf(r).randomness = IF fulfilment[r].how = "other word in the log"
                                 THEN OtherWord ELSE DeriveRandomness(ProofOf(r))
    BY DEF LogOf
  <1> QED
    BY <1>1, <1>2

\* Words are told apart.
LEMMA WordsDiffer ==
    ASSUME NEW r
    PROVE  /\ OtherWord # DeriveRandomness(ProofOf(r))
           /\ NoRecord # DeriveRandomness(ProofOf(r)) /\ NoRecord # OtherWord
  <1>1. OtherWord # DeriveRandomness(ProofOf(r))
    BY DEF OtherWord, DeriveRandomness
  <1>2. NoRecord # DeriveRandomness(ProofOf(r))
    BY DEF NoRecord, DeriveRandomness
  <1>3. NoRecord # OtherWord
    BY DEF NoRecord, OtherWord
  <1> QED
    BY <1>1, <1>2, <1>3

\* The echo of a request is the request itself, and it is there unless the
\* transaction was relayed.
LEMMA EchoOfRequest ==
    ASSUME NEW r \in Asked, Fulfilled(r)
    PROVE  /\ Relayed(r) => FoundEcho(r) = {}
           /\ ~Relayed(r) => FoundEcho(r) # {}
           /\ \A echo \in FoundEcho(r) : echo.fulfiller = fulfilment[r].node
  <1>1. Relayed(r) => FoundEcho(r) = {}
    BY DEF FoundEcho, Echoes
  <1>2. ~Relayed(r) => Request(r, fulfilment[r].node) \in FoundEcho(r)
    BY DEF FoundEcho, Echoes, Together, IdOf
  <1>3. ASSUME NEW echo \in FoundEcho(r) PROVE echo.fulfiller = fulfilment[r].node
    <2>1. ComputeRequestId(echo) = IdOf(r)
      BY DEF FoundEcho
    <2>2. echo = Request(r, fulfilment[r].node)
      BY <2>1 DEF IdOf, ComputeRequestId
    <2> QED
      BY <2>2 DEF Request
  <1> QED
    BY <1>1, <1>2, <1>3

\* The manners of fulfilment that leave the word genuine.
LEMMA GenuineManners ==
    ASSUME FairnessAssumption, Scene, NEW r \in Asked, Fulfilled(r)
    PROVE  Genuine(r) <=> fulfilment[r].how \in {"in order", "word not recorded", "relayed"}
  <1> DEFINE node == fulfilment[r].node
             how == fulfilment[r].how
  <1>a. node \in VrfNodes /\ how \in Manners
    BY DEF Scene, Fulfilled
  <1>b. \A key : /\ Sign(key, IdOf(r), ProofOf(r)).by = {key}
                 /\ Prove(key, IdOf(r)).key = key
                 /\ Prove(key, IdOf(r)).form = "sound"
    BY DEF Sign, Prove
  <1>1. CASE how \in {"in order", "word not recorded", "relayed"}
    <2>1. ProverOf(r) = node
      BY <1>1 DEF ProverOf
    <2>2. ProofOf(r) = Prove(node, IdOf(r)) /\ SignatureOf(r) = Sign(node, IdOf(r), ProofOf(r))
      BY <1>1, <2>1, PartsOfTheLog DEF SignatureOf
    <2>3. LogOf(r).randomness = DeriveRandomness(ProofOf(r))
          /\ RecordedWord(r) \in {NoRecord, LogOf(r).randomness}
      BY <1>1, PartsOfTheLog DEF RecordedWord
    <2> QED
      BY <1>1, <2>2, <2>3, PartsOfTheLog DEF Genuine
  <1>2. CASE how \in {"other node", "other signer"}
    <2>1. OtherNode(node) # node
      BY <1>a, <1>2 DEF FairnessAssumption, OtherNode
    <2>2. SignatureOf(r) = Sign(OtherNode(node), IdOf(r), ProofOf(r))
      BY <1>2 DEF SignatureOf, ProverOf
    <2>3. SignatureOf(r) # Sign(node, IdOf(r), ProofOf(r))
      BY <2>1, <2>2, <1>b
    <2> QED
      BY <1>2, <2>3, PartsOfTheLog DEF Genuine
  <1>3. CASE how = "no signature"
    <2>1. SignatureOf(r) = NoSignature /\ NoSignature.by = {}
      BY <1>3 DEF SignatureOf, NoSignature
    <2>2. SignatureOf(r) # Sign(node, IdOf(r), ProofOf(r))
      BY <2>1, <1>b
    <2> QED
      BY <1>3, <2>2, PartsOfTheLog DEF Genuine
  <1>4. CASE how = "malformed proof"
    <2>1. ~(ProofOf(r).form = "sound")
      BY <1>4, PartsOfTheLog
    <2>2. Prove(node, IdOf(r)).form = "sound"
      BY DEF Prove
    <2>3. ProofOf(r) # Prove(node, IdOf(r))
      BY <2>1, <2>2
    <2> QED
      BY <1>4, <2>3, PartsOfTheLog DEF Genuine
  <1>5. CASE how = "other word in the row"
    <2>1. RecordedWord(r) = OtherWord
      BY <1>5 DEF RecordedWord
    <2> QED
      BY <1>5, <2>1, PartsOfTheLog, WordsDiffer DEF Genuine
  <1>6. CASE how = "other word in the log"
    BY <1>6, PartsOfTheLog, WordsDiffer DEF Genuine
  <1> QED
    BY <1>a, <1>1, <1>2, <1>3, <1>4, <1>5, <1>6 DEF FairnessAssumption

\* The checks of a genuine word: only the echo can be missing.
LEMMA ChecksOfGenuine ==
    ASSUME FairnessAssumption, Scene, NEW r \in Asked, Fulfilled(r), Genuine(r),
           NEW check \in CheckNames
    PROVE  Checks(r, LogOf(r))[check] <=> check # "signerMatchesFulfiller" \/ ~Relayed(r)
  <1> DEFINE node == fulfilment[r].node
  <1>1. /\ LogOf(r).proof = Prove(node, IdOf(r))
        /\ LogOf(r).signature = Sign(node, IdOf(r), LogOf(r).proof)
        /\ LogOf(r).randomness = DeriveRandomness(LogOf(r).proof)
        /\ RecordedWord(r) \in {NoRecord, LogOf(r).randomness}
    BY DEF Genuine
  <1>2. Signer(r) = {node}
    BY <1>1 DEF Signer, RecoverFulfillmentSigner, Sign
  <1>3. ProofValid(r)
    BY <1>1, <1>2 DEF ProofValid, VerifyEcvrf, Prove
  <1>4. (\E key \in Signer(r), echo \in FoundEcho(r) : key = echo.fulfiller) <=> ~Relayed(r)
    BY <1>2, EchoOfRequest
  <1>5. /\ Checks(r, LogOf(r)).vrfProofValid
        /\ Checks(r, LogOf(r)).vrfBetaMatchesRandomness
        /\ Checks(r, LogOf(r)).enclaveSignatureValid
        /\ Checks(r, LogOf(r)).signerMatchesFulfiller <=> ~Relayed(r)
    BY <1>1, <1>2, <1>3, <1>4 DEF Checks, Signer, ProofValid
  <1> QED
    BY <1>5 DEF CheckNames

\* A word that is not genuine fails some check.
LEMMA ChecksOfOthers ==
    ASSUME FairnessAssumption, Scene, NEW r \in Asked, Fulfilled(r), ~Genuine(r)
    PROVE  \E check \in CheckNames : ~Checks(r, LogOf(r))[check]
  <1> DEFINE node == fulfilment[r].node
             how == fulfilment[r].how
             c == Checks(r, LogOf(r))
  <1>a. node \in VrfNodes /\ how \in Manners
    BY DEF Scene, Fulfilled
  <1>b. \A key : /\ Sign(key, IdOf(r), ProofOf(r)).by = {key}
                 /\ Sign(key, IdOf(r), ProofOf(r)).digest = Digest(IdOf(r), ProofOf(r))
    BY DEF Sign
  <1>c. /\ c.vrfProofValid <=> ProofValid(r)
        /\ c.vrfBetaMatchesRandomness =>
               /\ DeriveRandomness(LogOf(r).proof) = LogOf(r).randomness
               /\ RecordedWord(r) \in {NoRecord, LogOf(r).randomness}
        /\ c.enclaveSignatureValid <=> Signer(r) # {}
        /\ c.signerMatchesFulfiller => node \in Signer(r)
    BY EchoOfRequest DEF Checks, Signer, ProofValid
  <1> HIDE DEF c
  <1>d. how \notin {"in order", "word not recorded", "relayed"}
    BY GenuineManners
  <1>1. CASE how \in {"other node", "other signer"}
    <2>1. OtherNode(node) # node
      BY <1>a, <1>1 DEF FairnessAssumption, OtherNode
    <2>2. SignatureOf(r) = Sign(OtherNode(node), IdOf(r), ProofOf(r))
      BY <1>1 DEF SignatureOf, ProverOf
    <2>3. Signer(r) = {OtherNode(node)}
      <3>1. /\ LogOf(r).proof = ProofOf(r)
            /\ LogOf(r).signature = Sign(OtherNode(node), IdOf(r), ProofOf(r))
        BY <2>2, PartsOfTheLog
      <3>2. /\ LogOf(r).signature.by = {OtherNode(node)}
            /\ LogOf(r).signature.digest = Digest(IdOf(r), LogOf(r).proof)
        BY <1>b, <3>1
      <3> QED
        BY <3>2 DEF Signer, RecoverFulfillmentSigner
    <2>4. ~c.signerMatchesFulfiller
      BY <1>c, <2>1, <2>3
    <2> QED
      BY <2>4 DEF CheckNames, c
  <1>2. CASE how = "no signature"
    <2>1. SignatureOf(r) = NoSignature /\ NoSignature.by = {}
      BY <1>2 DEF SignatureOf, NoSignature
    <2>2. Signer(r) = {}
      BY <2>1, PartsOfTheLog DEF Signer, RecoverFulfillmentSigner
    <2>3. ~c.enclaveSignatureValid
      BY <1>c, <2>2
    <2> QED
      BY <2>3 DEF CheckNames, c
  <1>3. CASE how = "malformed proof"
    <2>1. ~ProofValid(r)
      BY <1>3, PartsOfTheLog DEF ProofValid, VerifyEcvrf
    <2>2. ~c.vrfProofValid
      BY <1>c, <2>1
    <2> QED
      BY <2>2 DEF CheckNames, c
  <1>4. CASE how \in {"other word in the row", "other word in the log"}
    <2>1. ~c.vrfBetaMatchesRandomness
      BY <1>4, <1>c, PartsOfTheLog, WordsDiffer DEF RecordedWord
    <2> QED
      BY <2>1 DEF CheckNames, c
  <1> QED
    BY <1>a, <1>d, <1>1, <1>2, <1>3, <1>4 DEF FairnessAssumption

\* What is found out about a request is fair.
IsFair(r, v) ==
    /\ v.kind = "valid" =>
           v.word = DeriveRandomness(Prove(fulfilment[r].node, IdOf(r))) /\ Genuine(r)
    /\ Genuine(r) /\ v.kind = "invalid" =>
           /\ Relayed(r)
           /\ \A check \in CheckNames : v.checks[check] <=> check # "signerMatchesFulfiller"

LEMMA JudgementIsFair ==
    ASSUME FairnessAssumption, Scene, NEW r \in Asked, Fulfilled(r)
    PROVE  IsFair(r, Judgement(r, LogOf(r)))
  <1> DEFINE v == Judgement(r, LogOf(r))
  <1>1. /\ v.kind = IF \A check \in CheckNames : Checks(r, LogOf(r))[check]
                    THEN "valid" ELSE "invalid"
        /\ v.word = IF RecordedWord(r) = NoRecord THEN LogOf(r).randomness
                    ELSE RecordedWord(r)
        /\ v.checks = Checks(r, LogOf(r))
    BY DEF Judgement
  <1> HIDE DEF v
  <1>2. CASE Genuine(r)
    <2>1. v.word = DeriveRandomness(Prove(fulfilment[r].node, IdOf(r)))
      BY <1>1, <1>2 DEF Genuine
    <2>2. v.kind = "invalid" => Relayed(r)
      BY <1>1, <1>2, ChecksOfGenuine
    <2>3. Relayed(r) => \A check \in CheckNames :
              v.checks[check] <=> check # "signerMatchesFulfiller"
      BY <1>1, <1>2, ChecksOfGenuine
    <2> QED
      BY <1>2, <2>1, <2>2, <2>3 DEF IsFair, v
  <1>3. CASE ~Genuine(r)
    <2>1. v.kind = "invalid"
      BY <1>1, <1>3, ChecksOfOthers
    <2> QED
      BY <1>3, <2>1 DEF IsFair, v
  <1> QED
    BY <1>2, <1>3

-----------------------------------------------------------------------------
(***************************************************************************)
(* The invariant                                                           *)
(***************************************************************************)

Verdicts == {"none", "could not verify", "valid", "invalid"}

\* Where the verification of a request is, and what it has found out by then.
Judged ==
    /\ DOMAIN stage = Asked /\ DOMAIN verdict = Asked
    /\ \A r \in Asked :
         /\ stage[r] \in {"idle", "locating", "reading", "done"}
         /\ stage[r] \in {"locating", "reading"} => Fulfilled(r)
         /\ stage[r] # "done" => verdict[r] = NoVerdict
         /\ stage[r] = "done" => (Fulfilled(r) <=> verdict[r].kind # "none")
         /\ verdict[r].kind = "none" => verdict[r] = NoVerdict
         /\ IsFair(r, verdict[r])

Course ==
    /\ enquiry \in {"asked", "verifying", "threw", "unsupported", "answered"}
    /\ enquiry \in {"asked", "threw", "unsupported"} => \A r \in Asked : stage[r] = "idle"
    /\ enquiry \in {"verifying", "answered"} => sessionKnown
    /\ enquiry = "answered" => \A r \in Asked : stage[r] = "done"

FairInv == Scene /\ Judged /\ Course

\* No verdict, and none that could be reached, are told apart.
LEMMA Kinds == NoVerdict.kind = "none" /\ Unverified.kind = "could not verify"
               /\ Unverified # NoVerdict
  BY DEF NoVerdict, Unverified

\* FairInv holds at first.
LEMMA FairInitInv == FairInit => FairInv
  BY Kinds DEF FairInit, FairInv, Scene, Judged, Course, IsFair

\* What the scene says of a request does not change.
LEMMA SceneStays ==
    ASSUME UNCHANGED scene, NEW r
    PROVE  /\ Fulfilled(r)' = Fulfilled(r)
           /\ \A v : IsFair(r, v)' <=> IsFair(r, v)
  <1>1. OtherWord' = OtherWord /\ NoRecord' = NoRecord
    BY DEF OtherWord, NoRecord
  <1>2. LogOf(r)' = LogOf(r) /\ IdOf(r)' = IdOf(r)
    BY DEF LogOf, IdOf, ProofOf, SignatureOf, OtherNode, ProverOf, scene
  <1>3. RecordedWord(r)' = RecordedWord(r) /\ Genuine(r)' = Genuine(r)
    BY <1>1, <1>2 DEF RecordedWord, Genuine, scene, Fulfilled
  <1>4. Relayed(r)' = Relayed(r)
    BY DEF Relayed, Together, Fulfilled, scene
  <1> QED
    BY <1>2, <1>3, <1>4 DEF Fulfilled, IsFair, scene

\* One request reaches its verdict, and it is a fair one.
LEMMA OneVerdict ==
    ASSUME FairInv, UNCHANGED scene, UNCHANGED enquiry, NEW r \in Asked, NEW v,
           enquiry = "verifying", Fulfilled(r), v.kind \in Verdicts \ {"none"},
           stage' = [stage EXCEPT ![r] = "done"],
           verdict' = [verdict EXCEPT ![r] = v],
           IsFair(r, v)
    PROVE  FairInv'
  <1>1. \A q : Fulfilled(q)' = Fulfilled(q) /\ \A w : IsFair(q, w)' <=> IsFair(q, w)
    BY SceneStays
  <1>2. Scene'
    BY DEF FairInv, Scene, scene
  <1>3. ASSUME NEW q \in Asked PROVE IsFair(q, verdict'[q])
    BY <1>3 DEF FairInv, Judged
  <1>4. Judged'
    BY <1>1, <1>3 DEF FairInv, Judged, Verdicts
  <1>5. Course'
    BY DEF FairInv, Course, scene
  <1> QED
    BY <1>2, <1>4, <1>5 DEF FairInv

\* FairInv is inductive.
LEMMA FairNextInv ==
    ASSUME FairnessAssumption, FairInv, [FairNext]_fairVars
    PROVE  FairInv'
  <1>a. UNCHANGED scene => \A q : Fulfilled(q)' = Fulfilled(q)
                                  /\ \A w : IsFair(q, w)' <=> IsFair(q, w)
    BY SceneStays
  <1>b. \A q : IsFair(q, NoVerdict)
    BY Kinds DEF IsFair
  <1>1. ASSUME NEW router, AskSession(router) PROVE FairInv'
    <2>1. UNCHANGED <<scene, verdict>>
      BY <1>1 DEF AskSession
    <2>2. Scene'
      BY <2>1 DEF FairInv, Scene, scene
    <2>3. \A r \in Asked : stage[r] = "idle" /\ verdict[r] = NoVerdict
      BY <1>1 DEF AskSession, FairInv, Course, Judged
    <2>4. Course'
      BY <1>1, <2>3 DEF AskSession, SessionVerification, FairInv, Course, Judged, scene
    <2>5. \A r \in Asked : IsFair(r, verdict[r])'
      BY <2>1, <1>a DEF FairInv, Judged
    <2>6. /\ DOMAIN stage' = Asked
          /\ \A r \in Asked :
               /\ stage'[r] \in {"idle", "locating", "reading", "done"}
               /\ stage'[r] \in {"locating", "reading"} => Fulfilled(r)
               /\ stage'[r] = "done" => ~Fulfilled(r)
      <3>1. CASE enquiry' = "verifying"
        <4>1. stage' = [r \in Asked |-> IF ~Fulfilled(r) THEN "done"
                                        ELSE IF hashKnown THEN "reading" ELSE "locating"]
          BY <1>1, <3>1 DEF AskSession
        <4> QED
          BY <4>1
      <3>2. CASE enquiry' # "verifying"
        <4>1. stage' = stage
          BY <1>1, <3>2 DEF AskSession
        <4> QED
          BY <4>1, <2>3 DEF FairInv, Judged
      <3> QED
        BY <3>1, <3>2
    <2>7. verdict' = verdict /\ DOMAIN verdict = Asked
          /\ \A r \in Asked : verdict[r] = NoVerdict /\ verdict[r].kind = "none"
      BY <2>1, <2>3, Kinds DEF FairInv, Judged
    <2>8. \A r : Fulfilled(r)' = Fulfilled(r)
      BY <2>1, <1>a
    <2>9. Judged'
      BY <2>5, <2>6, <2>7, <2>8 DEF Judged
    <2> QED
      BY <2>2, <2>4, <2>9 DEF FairInv
  <1>2. ASSUME NEW r \in Asked, GiveUp(r), UNCHANGED <<scene, enquiry>>,
               enquiry = "verifying", Fulfilled(r)
        PROVE  FairInv'
    <2>1. IsFair(r, Unverified)
      BY Kinds DEF IsFair
    <2> QED
      BY <1>2, <2>1, Kinds, OneVerdict DEF GiveUp, Verdicts
  <1>3. ASSUME NEW r \in Asked, NEW ok \in BOOLEAN, Locate(r, ok) PROVE FairInv'
    <2>1. Fulfilled(r) /\ enquiry = "verifying" /\ UNCHANGED <<scene, enquiry>>
      BY <1>3 DEF Locate, FairInv, Judged
    <2>2. CASE ok
      <3>1. stage' = [stage EXCEPT ![r] = "reading"] /\ UNCHANGED verdict
        BY <1>3, <2>2 DEF Locate
      <3>2. stage[r] # "done"
        BY <1>3 DEF Locate
      <3>3. Judged'
        BY <2>1, <3>1, <3>2, <1>a DEF FairInv, Judged
      <3> QED
        BY <2>1, <3>1, <3>3 DEF FairInv, Scene, Course, scene
    <2>3. CASE ~ok
      BY <1>2, <1>3, <2>1, <2>3 DEF Locate
    <2> QED
      BY <2>2, <2>3
  <1>4. ASSUME NEW r \in Asked, NEW ok \in BOOLEAN, VerifyRequest(r, ok) PROVE FairInv'
    <2>1. Fulfilled(r) /\ enquiry = "verifying" /\ UNCHANGED <<scene, enquiry>>
      BY <1>4 DEF VerifyRequest, FairInv, Judged
    <2>2. FoundLogs(r) = {LogOf(r)}
      BY <2>1, TheLogIsFound
    <2>3. CASE ok
      <3> DEFINE v == Judgement(r, LogOf(r))
      <3>1. stage' = [stage EXCEPT ![r] = "done"] /\ verdict' = [verdict EXCEPT ![r] = v]
        BY <1>4, <2>2, <2>3 DEF VerifyRequest
      <3>2. v.kind \in {"valid", "invalid"}
        BY DEF Judgement
      <3>3. IsFair(r, v)
        BY <2>1, JudgementIsFair DEF FairInv
      <3> HIDE DEF v
      <3> QED
        BY <2>1, <3>1, <3>2, <3>3, OneVerdict DEF Verdicts
    <2>4. CASE ~ok
      BY <1>2, <1>4, <2>1, <2>4 DEF VerifyRequest
    <2> QED
      BY <2>3, <2>4
  <1>5. CASE AnswerSession
    <2>1. UNCHANGED <<scene, stage, verdict>> /\ enquiry' = "answered"
          /\ enquiry = "verifying" /\ \A r \in Asked : stage[r] = "done"
      BY <1>5 DEF AnswerSession
    <2>2. Judged'
      BY <2>1, <1>a DEF FairInv, Judged
    <2> QED
      BY <2>1, <2>2 DEF FairInv, Scene, Course, scene
  <1>6. CASE Retry
    <2>1. /\ stage' = [r \in Asked |-> "idle"] /\ verdict' = [r \in Asked |-> NoVerdict]
          /\ UNCHANGED fulfilment /\ enquiry' = "asked"
      BY <1>6 DEF Retry
    <2>2. \A r : IsFair(r, NoVerdict)'
      BY Kinds DEF IsFair, NoVerdict
    <2>3. Judged'
      BY <2>1, <2>2, Kinds DEF Judged
    <2> QED
      BY <2>1, <2>3 DEF FairInv, Scene, Course
  <1>7. CASE UNCHANGED fairVars
    <2>1. UNCHANGED <<scene, enquiry, stage, verdict>>
      BY <1>7 DEF fairVars, scene
    <2>2. Judged'
      BY <2>1, <1>a DEF FairInv, Judged
    <2> QED
      BY <2>1, <2>2 DEF FairInv, Scene, Course, scene
  <1> QED
    BY <1>1, <1>3, <1>4, <1>5, <1>6, <1>7 DEF FairNext

\* What the invariant says of the verdicts.
LEMMA VerdictsFollow ==
    ASSUME FairInv
    PROVE  ValidIsEarned /\ GenuineIsNotAccused /\ NothingIsSkipped
  <1>1. ValidIsEarned /\ GenuineIsNotAccused
    BY DEF FairInv, Judged, IsFair, ValidIsEarned, GenuineIsNotAccused
  <1>2. NothingIsSkipped
    BY Kinds DEF FairInv, Judged, Course, NothingIsSkipped
  <1> QED
    BY <1>1, <1>2

\* The verdicts of the verification are fair: a word is called valid only when
\* it is the assigned node's for this very request, a genuine one is called
\* invalid only when it was relayed and then for its missing echo alone, and an
\* answer passes over no fulfilled request.
\* Code: verifyRequest, verifySession and the checks they mirror.
THEOREM VerdictsAreEarned ==
    ASSUME FairnessAssumption
    PROVE  FairCheckSpec => [](ValidIsEarned /\ GenuineIsNotAccused /\ NothingIsSkipped)
  <1>1. FairInv /\ [FairNext]_fairVars => FairInv'
    BY FairNextInv
  <1>2. FairInv => ValidIsEarned /\ GenuineIsNotAccused /\ NothingIsSkipped
    BY VerdictsFollow
  <1> QED
    BY <1>1, <1>2, FairInitInv, PTL DEF FairCheckSpec

=============================================================================
