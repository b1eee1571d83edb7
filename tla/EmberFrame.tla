------------------------------ MODULE EmberFrame ------------------------------
(***************************************************************************)
(* Ember Festival in its frame: the bridge that pushes snapshots to the    *)
(* game (use-game-bridge.ts, useCasinoHost.ts), the round (App.tsx of      *)
(* ember-festival) and the animation that shows its result                 *)
(* (BurstReveal.tsx).                                                      *)
(*                                                                         *)
(* The page is HostSnapshot seen from outside: a session appears, and ends *)
(* once, with a prize or without.  Messages to the frame keep their order. *)
(* React renders after a message, a timer or an animation frame at some    *)
(* later time, and before anything else after a click or a key; an effect  *)
(* of a render belongs to the render.                                      *)
(***************************************************************************)
EXTENDS Integers, Sequences

CONSTANTS
    Bets,           \* calls of openSession, 1, 2, ...
    QuickTiers,     \* tiers whose result is dismissed by a timer
    GrandTiers,     \* tiers whose result waits for a tap
    MaxUpsets       \* bound: new documents, previews and changes of the sound

ASSUME FrameAssumption ==
    /\ Bets \subseteq Nat \ {0}
    /\ QuickTiers \cap GrandTiers = {}
    /\ {"none", "absent", "open", "cancelled"} \cap (QuickTiers \cup GrandTiers) = {}
    /\ MaxUpsets \in Nat

Tiers == QuickTiers \cup GrandTiers
NoTier == "none"
Results == Tiers \cup {"cancelled"}
NoSnapshot == <<>>
Snapshots == [Bets -> {"absent", "open"} \cup Results]

NoRound == [bet |-> 0, status |-> "none", tier |-> NoTier]
NoEngine == [for |-> 0, tier |-> NoTier, phase |-> "idle"]
\* What a document starts from, and what its first render shows.
Blank == [round |-> NoRound, snapshot |-> NoSnapshot, hostApi |-> FALSE,
          preview |-> NoTier, sound |-> TRUE]
\* What of a rendered state the handlers and the effects go back to.
Shown(s) == [round |-> s.round, ready |-> s.hostApi /\ s.snapshot # NoSnapshot,
             preview |-> s.preview, sound |-> s.sound]

VARIABLES
    call,           \* host: how far the openSession call of each bet is
    sessions,       \* host: what becomes of the session of each bet
    snapshot,       \* host: the last rendered snapshot
    guestApi,       \* bridge: whether guestApiRef is set
    lastPushed,     \* bridge: lastPushedRef
    toFrame,        \* messages to the frame
    state,          \* frame: React's state after all updates
    view,           \* frame: what the last render shows
    due,            \* frame: a render is due "later", "now" or not ("no")
    launchLock,     \* frame: the ref of that name
    asked,          \* frame: bets whose answer it waits for
    engine,         \* frame: engineRef, with the bet it was started for
    dismissTimer,   \* frame: whether the auto-dismiss timer is set
    finished,       \* history: bets whose animation ran to its end
    revealed,       \* history: bets given to revealOutcome
    reloads,        \* documents loaded so far
    clicks          \* previews and changes of the sound so far

hostVars == <<call, sessions, snapshot>>
bridgeVars == <<guestApi, lastPushed, toFrame>>
roundVars == <<state, launchLock, asked>>
showVars == <<engine, dismissTimer, finished, revealed>>
boundVars == <<reloads, clicks>>
vars == <<hostVars, bridgeVars, roundVars, view, due, showVars, boundVars>>

Init ==
    /\ call = [b \in Bets |-> "idle"]
    /\ sessions = [b \in Bets |-> "absent"]
    /\ snapshot = NoSnapshot
    /\ guestApi = FALSE
    /\ lastPushed = NoSnapshot
    /\ toFrame = <<>>
    /\ state = Blank
    /\ view = Shown(Blank)
    /\ due = "no"
    /\ launchLock = FALSE
    /\ asked = {}
    /\ engine = NoEngine
    /\ dismissTimer = FALSE
    /\ finished = {}
    /\ revealed = {}
    /\ reloads = 0
    /\ clicks = 0

-----------------------------------------------------------------------------
(***************************************************************************)
(* The page: sessions, answers and pushes                                  *)
(***************************************************************************)

\* A bet is mined, whatever becomes of its call, and its session is shown.
SessionAppears(b) ==
    /\ call[b] # "idle"
    /\ sessions[b] = "absent"
    /\ sessions' = [sessions EXCEPT ![b] = "open"]
    /\ UNCHANGED <<call, snapshot, bridgeVars, roundVars, view, due, showVars, boundVars>>

\* A prize, or a cancelled or forfeited session.
SessionEnds(b, result) ==
    /\ sessions[b] = "open"
    /\ sessions' = [sessions EXCEPT ![b] = result]
    /\ UNCHANGED <<call, snapshot, bridgeVars, roundVars, view, due, showVars, boundVars>>

StateMessage(items) == [kind |-> "state", items |-> items]
ReplyMessage(b, ok) == [kind |-> "reply", bet |-> b, ok |-> ok]

\* The answer of openSession; that to an earlier document is lost.
Answer(b, ok) ==
    /\ call[b] = "calling"
    /\ call' = [call EXCEPT ![b] = IF ok THEN "opened" ELSE "failed"]
    /\ toFrame' = IF b \in asked THEN Append(toFrame, ReplyMessage(b, ok)) ELSE toFrame
    /\ UNCHANGED <<sessions, snapshot, guestApi, lastPushed, roundVars, view, due,
                   showVars, boundVars>>

\* The page renders; a change is pushed if the frame is connected.
HostRender ==
    /\ snapshot' = sessions
    /\ IF guestApi /\ lastPushed # sessions
       THEN lastPushed' = sessions /\ toFrame' = Append(toFrame, StateMessage(sessions))
       ELSE UNCHANGED <<lastPushed, toFrame>>
    /\ UNCHANGED <<call, sessions, guestApi, roundVars, view, due, showVars, boundVars>>

\* Mutant: the first push is left to the next change.
HostConnectsQuietly ==
    /\ ~guestApi
    /\ guestApi' = TRUE
    /\ lastPushed' = snapshot
    /\ UNCHANGED <<hostVars, toFrame, roundVars, view, due, showVars, boundVars>>

\* The page's side of the handshake, which pushes what was rendered before it.
HostConnects ==
    /\ ~guestApi
    /\ guestApi' = TRUE
    /\ IF snapshot # NoSnapshot
       THEN lastPushed' = snapshot /\ toFrame' = Append(toFrame, StateMessage(snapshot))
       ELSE UNCHANGED <<lastPushed, toFrame>>
    /\ UNCHANGED <<hostVars, roundVars, view, due, showVars, boundVars>>

\* The frame gets another URL: the page drops the connection and its own
\* record of what was pushed, and the new document knows nothing.
Reload ==
    /\ reloads + clicks < MaxUpsets
    /\ reloads' = reloads + 1
    /\ guestApi' = FALSE
    /\ lastPushed' = NoSnapshot
    /\ toFrame' = <<>>
    /\ state' = Blank
    /\ view' = Shown(Blank)
    /\ due' = "no"
    /\ launchLock' = FALSE
    /\ asked' = {}
    /\ engine' = NoEngine
    /\ dismissTimer' = FALSE
    /\ UNCHANGED <<hostVars, finished, revealed, clicks>>

-----------------------------------------------------------------------------
(***************************************************************************)
(* The frame: messages                                                     *)
(***************************************************************************)

\* An update of the state is rendered later, unless a click hurries it.
Free == due # "now"
RendersLater == due' = IF state' # state THEN "later" ELSE due

\* The frame's side of the handshake.
FrameConnects ==
    /\ Free
    /\ ~state.hostApi
    /\ state' = [state EXCEPT !.hostApi = TRUE]
    /\ RendersLater
    /\ UNCHANGED <<hostVars, bridgeVars, launchLock, asked, view, showVars, boundVars>>

SetState ==
    /\ Free
    /\ toFrame # <<>>
    /\ Head(toFrame).kind = "state"
    /\ toFrame' = Tail(toFrame)
    /\ state' = [state EXCEPT !.snapshot = Head(toFrame).items]
    /\ RendersLater
    /\ UNCHANGED <<hostVars, guestApi, lastPushed, launchLock, asked, view,
                   showVars, boundVars>>

\* launch after its await: a session to wait for, or an error.
Replied(b, ok) ==
    IF ok
    THEN /\ UNCHANGED launchLock
         /\ state' = IF state.round.bet = b /\ state.round.status = "opening"
                     THEN [state EXCEPT !.round.status = "waiting"] ELSE state
    ELSE /\ launchLock' = FALSE
         /\ state' = [state EXCEPT !.round = NoRound]

LaunchReturns ==
    /\ Free
    /\ toFrame # <<>>
    /\ Head(toFrame).kind = "reply"
    /\ toFrame' = Tail(toFrame)
    /\ asked' = asked \ {Head(toFrame).bet}
    /\ Replied(Head(toFrame).bet, Head(toFrame).ok)
    /\ RendersLater
    /\ UNCHANGED <<hostVars, guestApi, lastPushed, view, showVars, boundVars>>

-----------------------------------------------------------------------------
(***************************************************************************)
(* The frame: what the player does, in the last render                     *)
(***************************************************************************)

\* The Launch button: shown when connected, disabled while a round is in
\* flight; a click with the lock held returns at once.
CanLaunch ==
    /\ view.ready
    /\ view.round.status \in {"none", "settled"}
    /\ ~launchLock

\* Bets are numbered in the order of their calls.
IsNext(b) ==
    /\ call[b] = "idle"
    /\ \A c \in Bets : c < b => call[c] # "idle"

\* A bet; an animation of the preview is over.
Launch(b) ==
    /\ Free
    /\ CanLaunch
    /\ IsNext(b)
    /\ launchLock' = TRUE
    /\ state' = [state EXCEPT !.round = [bet |-> b, status |-> "opening", tier |-> NoTier],
                              !.preview = NoTier]
    /\ call' = [call EXCEPT ![b] = "calling"]
    /\ asked' = asked \cup {b}
    /\ due' = "now"
    /\ UNCHANGED <<sessions, snapshot, bridgeVars, view, showVars, boundVars>>

\* dismiss: a tap on the result.
Dismissed ==
    /\ launchLock' = FALSE
    /\ state' = [state EXCEPT !.round = NoRound]

Tap ==
    /\ Free
    /\ view.round.status = "settled"
    /\ view.round.tier # NoTier
    /\ Dismissed
    /\ due' = "now"
    /\ UNCHANGED <<hostVars, bridgeVars, asked, view, showVars, boundVars>>

Click ==
    /\ Free
    /\ due' = "now"
    /\ reloads + clicks < MaxUpsets
    /\ clicks' = clicks + 1
    /\ UNCHANGED <<hostVars, bridgeVars, launchLock, asked, view, showVars, reloads>>

\* A preview pill or one of the keys 1 to 6, without a round.
Preview(tier) ==
    /\ view.round = NoRound
    /\ state' = [state EXCEPT !.preview = tier]
    /\ Click

ToggleSound ==
    /\ state' = [state EXCEPT !.sound = ~@]
    /\ Click

-----------------------------------------------------------------------------
(***************************************************************************)
(* The frame: rendering, the animation and the timer                       *)
(***************************************************************************)

\* Mutant: the result is shown without the animation.
SettleAtOnce ==
    LET round == state.round
        waits == round.status = "waiting" /\ state.snapshot # NoSnapshot
        row == IF waits THEN state.snapshot[round.bet] ELSE "absent"
    IN  /\ state' = CASE row = "cancelled" -> [state EXCEPT !.round = NoRound]
                      [] row \in Tiers ->
                           [state EXCEPT !.round.status = "settled", !.round.tier = row]
                      [] OTHER -> state
        /\ launchLock' = IF row = "cancelled" THEN FALSE ELSE launchLock

\* settleFromSnapshot, for the round and the snapshot of a render.
SettleFromSnapshot ==
    LET round == state.round
        waits == round.status = "waiting" /\ state.snapshot # NoSnapshot
        row == IF waits THEN state.snapshot[round.bet] ELSE "absent"
    IN  /\ state' = CASE row = "cancelled" -> [state EXCEPT !.round = NoRound]
                      [] row \in Tiers ->
                           [state EXCEPT !.round.status = "animating", !.round.tier = row]
                      [] OTHER -> state
        /\ launchLock' = IF row = "cancelled" THEN FALSE ELSE launchLock

\* The tier a render shows; none before the page is there.
BurstTier(shown) ==
    IF ~shown.ready THEN NoTier
    ELSE IF shown.round.status = "animating" THEN shown.round.tier ELSE shown.preview

Started ==
    [for |-> IF state.round.status = "animating" THEN state.round.bet ELSE 0,
     tier |-> BurstTier(Shown(state)), phase |-> "launch"]

\* Another tier, or another setting of the sound, starts the animation anew.
SyncEngine ==
    LET tier == BurstTier(Shown(state))
    IN  engine' = IF tier = BurstTier(view) /\ state.sound = view.sound THEN engine
                  ELSE IF tier = NoTier THEN NoEngine ELSE Started

\* Mutant: a timer that was set is not cleared.
SyncTimerUncleared ==
    dismissTimer' = (dismissTimer \/ (/\ state.round # view.round
                                     /\ state.round.status = "settled"
                                     /\ state.round.tier \in QuickTiers))

\* Only a change of the round sets the timer or clears it.
SyncTimer ==
    dismissTimer' = IF state.round = view.round THEN dismissTimer
                    ELSE state.round.status = "settled" /\ state.round.tier \in QuickTiers

FrameRender ==
    /\ due # "no"
    /\ view' = Shown(state)
    /\ SettleFromSnapshot
    /\ SyncEngine
    /\ SyncTimer
    /\ due' = IF state' # state THEN "later" ELSE "no"
    /\ UNCHANGED <<hostVars, bridgeVars, asked, finished, revealed, boundVars>>

\* The rocket rises, with a beat of slow motion for some tiers, and bursts.
AnimationFrame ==
    /\ Free
    /\ \/ engine.phase = "launch" /\ engine' = [engine EXCEPT !.phase = "slowmo"]
       \/ engine.phase \in {"launch", "slowmo"} /\ engine' = [engine EXCEPT !.phase = "burst"]
    /\ UNCHANGED <<hostVars, bridgeVars, roundVars, view, due, dismissTimer, finished,
                   revealed, boundVars>>

\* handleAnimationDone of the last render: a preview is over, or the round is
\* settled and its outcome revealed.
AnimationDone ==
    /\ Free
    /\ engine.phase = "burst"
    /\ engine' = [engine EXCEPT !.phase = "done"]
    /\ finished' = finished \cup ({engine.for} \ {0})
    /\ IF view.preview # NoTier
       THEN state' = [state EXCEPT !.preview = NoTier] /\ UNCHANGED revealed
       ELSE IF state.round.status = "animating"
       THEN /\ state' = [state EXCEPT !.round.status = "settled"]
            /\ revealed' = revealed \cup {state.round.bet}
       ELSE UNCHANGED <<state, revealed>>
    /\ RendersLater
    /\ UNCHANGED <<hostVars, bridgeVars, launchLock, asked, view, dismissTimer,
                   boundVars>>

\* The auto-dismiss timer.
FireDismissTimer ==
    /\ Free
    /\ dismissTimer
    /\ dismissTimer' = FALSE
    /\ Dismissed
    /\ RendersLater
    /\ UNCHANGED <<hostVars, bridgeVars, asked, view, engine, finished, revealed,
                   boundVars>>

Next ==
    \/ \E b \in Bets : SessionAppears(b)
    \/ \E b \in Bets, result \in Results : SessionEnds(b, result)
    \/ \E b \in Bets, ok \in BOOLEAN : Answer(b, ok)
    \/ HostRender
    \/ HostConnects
    \/ Reload
    \/ FrameConnects
    \/ SetState
    \/ LaunchReturns
    \/ \E b \in Bets : Launch(b)
    \/ Tap
    \/ \E tier \in Tiers : Preview(tier)
    \/ ToggleSound
    \/ FrameRender
    \/ AnimationFrame
    \/ AnimationDone
    \/ FireDismissTimer

Spec == Init /\ [][Next]_vars

\* Messages arrive, React renders, animation frames and timers come.  An
\* opened session is shown and ends: the keeper fulfils its request, or the
\* player cancels it on the page.  Nobody has to tap, click or launch.
Fairness ==
    /\ WF_vars(\E b \in Bets : call[b] = "opened" /\ SessionAppears(b))
    /\ WF_vars(\E b \in Bets, result \in Results : SessionEnds(b, result))
    /\ WF_vars(\E b \in Bets, ok \in BOOLEAN : Answer(b, ok))
    /\ WF_vars(HostRender \/ HostConnects)
    /\ WF_vars(FrameConnects \/ SetState \/ LaunchReturns)
    /\ WF_vars(FrameRender)
    /\ WF_vars(AnimationFrame \/ AnimationDone)
    /\ WF_vars(FireDismissTimer)

FairSpec == Spec /\ Fairness

-----------------------------------------------------------------------------
(***************************************************************************)
(* Properties                                                              *)
(***************************************************************************)

Rounds == [bet : Bets, status : {"opening"}, tier : {NoTier}]
          \cup [bet : Bets, status : {"waiting"}, tier : {NoTier}]
          \cup [bet : Bets, status : {"animating", "settled"}, tier : Tiers]
          \cup {NoRound}

\* The types, and that a round past "opening" has a session behind it: only an
\* answered call, never a rejected one, makes the frame wait for a result.
TypeOK ==
    /\ call \in [Bets -> {"idle", "calling", "opened", "failed"}]
    /\ sessions \in Snapshots
    /\ {snapshot, lastPushed, state.snapshot} \subseteq Snapshots \cup {NoSnapshot}
    /\ {state.round, view.round} \subseteq Rounds
    /\ {state.preview, view.preview} \subseteq Tiers \cup {NoTier}
    /\ {finished, revealed, asked} \subseteq SUBSET Bets
    /\ due \in {"no", "later", "now"}
    /\ {guestApi, state.hostApi, view.ready, launchLock, dismissTimer} \subseteq BOOLEAN
    /\ engine \in [for : Bets \cup {0}, tier : Tiers \cup {NoTier},
                   phase : {"idle", "launch", "slowmo", "burst", "done"}]
    /\ state.round.status \in {"waiting", "animating", "settled"} =>
           call[state.round.bet] = "opened"

\* One bet at a time: the frame waits for the answer of no other bet than the
\* one whose round is opening, and the lock is held exactly while there is a
\* round, so the timer of an earlier result, a late answer or a cancelled
\* session neither ends a round that is not theirs nor locks the button.
OneBetAtATime ==
    /\ asked = IF state.round.status = "opening" THEN {state.round.bet} ELSE {}
    /\ launchLock <=> state.round # NoRound

\* A result is told to the host, which credits it to the balance it shows,
\* when and only when the animation of that very bet has run to its end, and
\* the frame shows a result as settled only then.
RevealedByTheAnimation ==
    /\ revealed \subseteq finished
    /\ revealed \subseteq {b \in Bets : sessions[b] \in Tiers}
    /\ state.round.status = "settled" => state.round.bet \in revealed

\* Whatever the order of the first render, the two sides of the handshake and
\* a reload: a connected frame with no snapshot under way has the page's last.
FrameCatchesUp ==
    (guestApi /\ \A i \in DOMAIN toFrame : toFrame[i].kind # "state") =>
        state.snapshot = snapshot

\* Every round ends, or shows a grand result that waits for a tap: no preview,
\* change of the sound, reload, failed call or cancelled session strands it.
RoundsEnd ==
    (state.round # NoRound) ~>
        \/ state.round = NoRound
        \/ state.round.status = "settled" /\ state.round.tier \in GrandTiers

=============================================================================
