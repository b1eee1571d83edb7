------------------------------ MODULE HostSnapshot ------------------------------
(***************************************************************************)
(* What the game frame sees: use-game-host.ts, use-host-snapshot.ts and    *)
(* use-simulated-sessions.ts around the functions of SessionRows.          *)
(*                                                                         *)
(* The host contract's logs arrive on the two channels of SessionFeed,     *)
(* each log once on a channel and, while no slider moves, in the order of  *)
(* the chain.  The player opens sessions by requests of the game; each has *)
(* one transaction, whose hash correlates the request with the log of the  *)
(* session it opened.  A render publishes a snapshot to the frame, later   *)
(* than the changes it shows.                                              *)
(***************************************************************************)
EXTENDS Integers, Sequences, SequencesExt, FiniteSets, SessionRows

CONSTANTS
    Requests,       \* calls of openSession, positive integers
    Orders,         \* whether a channel keeps the order of the chain: TRUE, FALSE
    MaxSessions,    \* bound: sessions of the player and the game
    MaxStep,        \* bound: steps of a session
    MaxToggles      \* bound: changes of the wallet's status

ASSUME SnapshotAssumption ==
    /\ Requests \subseteq Nat \ {0}
    /\ Orders \subseteq BOOLEAN
    /\ MaxSessions \in Nat \ {0}
    /\ {MaxStep, MaxToggles} \subseteq Nat

SessionIds == 1..MaxSessions
WaitingPhases == {"WAITING_RANDOMNESS", "WAITING_PLAYER_ACTION"}
Payout == 1
NoSession == 0

VARIABLES
    inOrder,        \* the channels keep the order of the chain
    log,            \* chain: the logs of the host
    tx,             \* chain: the session a request's transaction opened
    flashed,        \* logs that came on the flashblock channel, or never will
    indexed,        \* logs that came on the indexed channel
    rows,           \* the session store
    patches,        \* flashblockPatches
    call,           \* how far each openSession call is
    optimistic,     \* optimisticSessions: request and session id of each item
    pendingOpens,   \* pendingOpenTransactionsRef: requests whose hash is known
    recentOpens,    \* recentFlashblockOpensRef: sessions no request claimed yet
    confirmedOpens, \* confirmedOpensRef: requests with a pushed session
    ready,          \* walletStatus
    toggles,        \* changes of the wallet's status so far
    rowsChanged,    \* sessionRows differ from those of the last render
    published,      \* the items the reconciler remembers
    pushed          \* the last render: wallet, projected ids and items

chainVars == <<log, tx>>
openVars == <<call, optimistic, pendingOpens, recentOpens, confirmedOpens>>
walletVars == <<ready, toggles>>
renderVars == <<published, pushed>>
vars == <<inOrder, chainVars, flashed, indexed, rows, patches, openVars, walletVars,
          rowsChanged, renderVars>>

-----------------------------------------------------------------------------
(***************************************************************************)
(* The chain                                                               *)
(***************************************************************************)

EventsOf(sid) == {l \in 1..Len(log) : log[l].sid = sid}
LastEvent(sid) == log[Max(EventsOf(sid))]
IsOpenOnChain(sid) == EventsOf(sid) # {} /\ LastEvent(sid).kind = "Advanced"
NewSession == Cardinality({i \in 1..Len(log) : log[i].kind = "Opened"}) + 1

\* The logs of one transaction of the host: openSession, then a step.
OpeningLogs(sid) ==
    {<<Opened(sid), Advanced(sid, 1, phase, 0)>> : phase \in WaitingPhases}
        \cup {<<Opened(sid), Settled(sid, 1, "SETTLED", 0, Payout)>>}

\* A step answers the request of the step before it, if there is one.  Only
\* a step of the game writes a game state; a cancel or a forfeit does not.
StepLogs(sid) ==
    LET last == LastEvent(sid)
        waits == last.phase = "WAITING_RANDOMNESS"
        word == IF waits THEN last.step ELSE 0
        given == IF waits THEN "CANCELLED" ELSE "FORFEITED"
    IN  {Advanced(sid, last.step + 1, phase, word) :
            phase \in IF last.step < MaxStep THEN WaitingPhases ELSE {}}
          \cup {Settled(sid, last.step + 1, "SETTLED", word, Payout),
                Settled(sid, last.step, given, 0, Payout)}

\* The feed starts on a chain that may have a session already, whose logs it
\* replays on the indexed channel alone.
Histories ==
    {<<>>} \cup {<<Opened(1), Advanced(1, 1, phase, 0)>> : phase \in WaitingPhases}

Init ==
    /\ inOrder \in Orders
    /\ log \in Histories
    /\ tx = [r \in Requests |-> NoSession]
    /\ flashed = 1..Len(log)
    /\ indexed = {}
    /\ rows = [sid \in SessionIds |-> InitialRow]
    /\ patches = [sid \in SessionIds |-> NoPatch]
    /\ call = [r \in Requests |-> "idle"]
    /\ optimistic = {}
    /\ pendingOpens = {}
    /\ recentOpens = {}
    /\ confirmedOpens = {}
    /\ ready = TRUE
    /\ toggles = 0
    /\ rowsChanged = FALSE
    /\ published = [settled |-> {}, open |-> {}]
    /\ pushed = [ready |-> TRUE, ids |-> {}, items |-> {}]

\* The transaction of a request is mined, even after its call has failed.
MineOpen(r) ==
    /\ call[r] # "idle"
    /\ tx[r] = NoSession
    /\ NewSession <= MaxSessions
    /\ \E logs \in OpeningLogs(NewSession) : log' = log \o logs
    /\ tx' = [tx EXCEPT ![r] = NewSession]
    /\ UNCHANGED <<flashed, indexed, rows, patches, openVars, walletVars,
                   rowsChanged, renderVars>>

\* Another frame of the player opens a session.
MineForeignOpen ==
    /\ NewSession <= MaxSessions
    /\ \E logs \in OpeningLogs(NewSession) : log' = log \o logs
    /\ UNCHANGED <<tx, flashed, indexed, rows, patches, openVars, walletVars,
                   rowsChanged, renderVars>>

\* An action of the player, a word, a cancel or a forfeit.
MineStep(sid) ==
    /\ IsOpenOnChain(sid)
    /\ \E e \in StepLogs(sid) : log' = Append(log, e)
    /\ UNCHANGED <<tx, flashed, indexed, rows, patches, openVars, walletVars,
                   rowsChanged, renderVars>>

-----------------------------------------------------------------------------
(***************************************************************************)
(* The two channels                                                        *)
(***************************************************************************)

\* A log a channel has not delivered yet and may deliver now.
MayArrive(l, arrived) == l \notin arrived /\ (inOrder => 1..(l - 1) \subseteq arrived)

\* The session store takes the log.
Index(l) ==
    /\ MayArrive(l, indexed)
    /\ indexed' = indexed \cup {l}
    /\ rows' = [rows EXCEPT ![log[l].sid] = Evolve(@, log[l])]
    /\ rowsChanged' = (rowsChanged \/ (ready /\ rows' # rows))
    /\ UNCHANGED <<chainVars, flashed, patches, openVars, walletVars, renderVars>>

Confirmed(r) ==
    {IF o.request = r THEN [o EXCEPT !.sid = tx[r]] ELSE o : o \in optimistic}

\* The patches take the log; an opened session is correlated by the hash of
\* its transaction with a request whose transaction was accepted.
Flash(l) ==
    /\ MayArrive(l, flashed)
    /\ flashed' = flashed \cup {l}
    /\ patches' = [patches EXCEPT ![log[l].sid] = Patched(@, log[l])]
    /\ IF log[l].kind # "Opened"
       THEN UNCHANGED openVars
       ELSE LET claims == {r \in pendingOpens : tx[r] = log[l].sid} IN
            /\ pendingOpens' = pendingOpens \ claims
            /\ confirmedOpens' = confirmedOpens \cup claims
            /\ optimistic' = IF claims = {} THEN optimistic
                             ELSE Confirmed(CHOOSE r \in claims : TRUE)
            /\ recentOpens' = IF claims = {} THEN recentOpens \cup {log[l].sid}
                              ELSE recentOpens
            /\ UNCHANGED call
    /\ UNCHANGED <<chainVars, indexed, rows, walletVars, rowsChanged, renderVars>>

-----------------------------------------------------------------------------
(***************************************************************************)
(* openSession                                                             *)
(***************************************************************************)

\* Prepends the optimistic item and forgets those of projected sessions.
OpenSession(r) ==
    /\ call[r] = "idle"
    /\ pushed.ready
    /\ call' = [call EXCEPT ![r] = "sending"]
    /\ optimistic' = {[request |-> r, sid |-> -r]}
                       \cup {o \in optimistic : o.sid \notin pushed.ids}
    /\ UNCHANGED <<chainVars, flashed, indexed, rows, patches, pendingOpens,
                   recentOpens, confirmedOpens, walletVars, rowsChanged, renderVars>>

\* Mutant: an open that was pushed before the hash was known is not claimed.
AcceptAsPending(r) ==
    /\ call[r] = "sending"
    /\ call' = [call EXCEPT ![r] = "accepted"]
    /\ pendingOpens' = pendingOpens \cup {r}
    /\ UNCHANGED <<chainVars, flashed, indexed, rows, patches, optimistic,
                   recentOpens, confirmedOpens, walletVars, rowsChanged, renderVars>>

\* The callback of sendActions, with the hash of the transaction.
Accept(r) ==
    /\ call[r] = "sending"
    /\ call' = [call EXCEPT ![r] = "accepted"]
    /\ IF tx[r] \in recentOpens
       THEN /\ recentOpens' = recentOpens \ {tx[r]}
            /\ confirmedOpens' = confirmedOpens \cup {r}
            /\ optimistic' = Confirmed(r)
            /\ UNCHANGED pendingOpens
       ELSE /\ pendingOpens' = pendingOpens \cup {r}
            /\ UNCHANGED <<recentOpens, confirmedOpens, optimistic>>
    /\ UNCHANGED <<chainVars, flashed, indexed, rows, patches, walletVars,
                   rowsChanged, renderVars>>

\* The receipt of the transaction, which names the session.
Receipt(r) ==
    /\ call[r] = "accepted"
    /\ tx[r] # NoSession
    /\ call' = [call EXCEPT ![r] = "opened"]
    /\ pendingOpens' = pendingOpens \ {r}
    /\ confirmedOpens' = confirmedOpens \ {r}
    /\ optimistic' = Confirmed(r)
    /\ UNCHANGED <<chainVars, flashed, indexed, rows, patches, recentOpens,
                   walletVars, rowsChanged, renderVars>>

\* Mutant: a call that is rejected always removes its item.
FailAndRemove(r) ==
    /\ call[r] \in {"sending", "accepted"}
    /\ call' = [call EXCEPT ![r] = "failed"]
    /\ confirmedOpens' = confirmedOpens \ {r}
    /\ optimistic' = {o \in optimistic : o.request # r}
    /\ UNCHANGED <<chainVars, flashed, indexed, rows, patches, pendingOpens,
                   recentOpens, walletVars, rowsChanged, renderVars>>

\* sendActions is rejected, whatever became of the transaction: a call that
\* was confirmed by the flashblock channel counts as opened.
Fail(r) ==
    /\ call[r] \in {"sending", "accepted"}
    /\ confirmedOpens' = confirmedOpens \ {r}
    /\ IF r \in confirmedOpens
       THEN /\ call' = [call EXCEPT ![r] = "opened"]
            /\ optimistic' = Confirmed(r)
       ELSE /\ call' = [call EXCEPT ![r] = "failed"]
            /\ optimistic' = {o \in optimistic : o.request # r}
    /\ UNCHANGED <<chainVars, flashed, indexed, rows, patches, pendingOpens,
                   recentOpens, walletVars, rowsChanged, renderVars>>

-----------------------------------------------------------------------------
(***************************************************************************)
(* Rendering                                                               *)
(***************************************************************************)

\* The panel overrides the status of the wallet.
ToggleWallet ==
    /\ toggles < MaxToggles
    /\ toggles' = toggles + 1
    /\ ready' = ~ready
    /\ rowsChanged' = TRUE
    /\ UNCHANGED <<chainVars, flashed, indexed, rows, patches, openVars, renderVars>>

\* sessionRows: the listed rows, none without a wallet.
SessionRowIds == IF ready THEN {sid \in SessionIds : rows[sid].listed} ELSE {}

Projected ==
    {ProjectedItem(sid, MergedRow(rows[sid], patches[sid]), patches[sid]) :
        sid \in SessionRowIds}

OptimisticItems ==
    {LET item == [PendingItem(o.request) EXCEPT !.sid = o.sid] IN
     IF o.sid \in {-o.request} \cup SessionRowIds THEN item
                                                 ELSE MergedItem(item, patches[o.sid]) :
        o \in optimistic}

Reconciliation ==
    Reconciled(MergedItems(Projected, OptimisticItems),
               {sid \in SessionRowIds : IsTerminal(rows[sid]) /\ rows[sid].payout # NoPayout},
               published)

\* useHostSnapshot, the effect that pushes it, and the effect that prunes the
\* patches when sessionRows have changed.
Render ==
    /\ published' = [settled |-> Reconciliation.settled, open |-> Reconciliation.open]
    /\ pushed' = [ready |-> ready, ids |-> SessionRowIds, items |-> Reconciliation.items]
    /\ patches' = [sid \in SessionIds |->
                      IF rowsChanged /\ sid \in SessionRowIds /\ CaughtUp(patches[sid], rows[sid])
                      THEN NoPatch ELSE patches[sid]]
    /\ rowsChanged' = FALSE
    /\ UNCHANGED <<chainVars, flashed, indexed, rows, openVars, walletVars>>

Step ==
    \/ \E r \in Requests : MineOpen(r)
    \/ MineForeignOpen
    \/ \E sid \in SessionIds : MineStep(sid)
    \/ \E l \in 1..Len(log) : Index(l)
    \/ \E l \in 1..Len(log) : Flash(l)
    \/ \E r \in Requests : OpenSession(r)
    \/ \E r \in Requests : Accept(r)
    \/ \E r \in Requests : Receipt(r)
    \/ \E r \in Requests : Fail(r)
    \/ ToggleWallet
    \/ Render

\* While no slider moves, the order stays what it is.
Next == Step /\ UNCHANGED inOrder

Spec == Init /\ [][Next]_vars

-----------------------------------------------------------------------------
(***************************************************************************)
(* Properties                                                              *)
(***************************************************************************)

TypeOK ==
    /\ tx \in [Requests -> {NoSession} \cup SessionIds]
    /\ flashed \cup indexed \subseteq 1..Len(log)
    /\ call \in [Requests -> {"idle", "sending", "accepted", "opened", "failed"}]
    /\ \A o \in optimistic : o.request \in Requests /\ o.sid \in {-o.request, tx[o.request]}
    /\ pendingOpens \cup confirmedOpens \subseteq Requests
    /\ recentOpens \subseteq SessionIds
    /\ {ready, rowsChanged} \subseteq BOOLEAN
    /\ \A item \in pushed.items :
           item.sid \in SessionIds \cup {-r : r \in Requests}

\* The item of a session in the last snapshot, and in the next one.
Shown(sid) == CHOOSE item \in pushed.items : item.sid = sid
ShownNext(sid) == CHOOSE item \in pushed'.items : item.sid = sid
OnChain(items) == {id \in Ids(items) : id \in SessionIds}
Kept == OnChain(pushed.items) \cap OnChain(pushed'.items)

\* A session is shown once, and a bet is not shown next to the session it
\* opened once the hash of its transaction and the session's log are both
\* known, in whichever order they came.  Code: mergeCasinoSessionItems, and
\* the correlation in handleFlashblockSessionOpened and onAccepted.
OneItemPerSession ==
    /\ \A i, j \in pushed.items : i.sid = j.sid => i = j
    /\ \A o \in optimistic, l \in flashed :
           /\ log[l].kind = "Opened"
           /\ log[l].sid = tx[o.request]
           /\ call[o.request] # "sending"
           => o.sid = tx[o.request]

\* A bet whose transaction is known and whose session has been pushed is not
\* reported as failed, however sending it ends.
\* Code: confirmedOpensRef and the catch of openSession.
LiveBetNeverFails ==
    [][\A r \in Requests, l \in flashed :
           /\ call[r] = "accepted"
           /\ log[l].kind = "Opened"
           /\ log[l].sid = tx[r]
           => call'[r] # "failed"]_vars

\* What was published stays: no round of the chain vanishes from the frame,
\* and a result is never taken back or changed, whichever layer it comes from
\* next.  Code: reconcileMonotonicSessionItems, the confirmed optimistic items
\* and the merge of rows and patches.
PublishedStays ==
    [][/\ OnChain(pushed.items) \subseteq Ids(pushed'.items)
       /\ \A sid \in Kept : Shown(sid).settled =>
            /\ ShownNext(sid).settled
            /\ ShownNext(sid).phase = Shown(sid).phase
            /\ ShownNext(sid).state = Shown(sid).state
            /\ ShownNext(sid).payout = Shown(sid).payout]_vars

\* With the channels in order, a round is not shown at an earlier step than
\* before, nor without the word it had.  Code: mergeFlashblockPatchIntoRow, the confirmed optimistic items
\* under it, and the pruning of the patches.
NoStepBack ==
    [][inOrder => \A sid \in Kept :
           /\ ShownNext(sid).state >= Shown(sid).state
           /\ ShownNext(sid).word >= Shown(sid).word]_vars

\* A round in flight never falls back to having no phase, which the frame
\* shows as an idle table.  Code: mergeCasinoSessionItems between the opened
\* and the first advanced log, and the optimistic items openSession forgets.
NeverBackToIdle ==
    [][\A sid \in Kept :
           ShownNext(sid).phase = "NONE" => Shown(sid).phase = "NONE"]_vars

\* What the reconciler promises of a round in flight, without a wallet too.
\* Code: the items the reconciler remembers as open.
NeverEarlierPhase ==
    [][\A sid \in Kept :
           ShownNext(sid).phase # Shown(sid).phase =>
               ShownNext(sid).state >= Shown(sid).state]_vars

\* What the chain says of a session.
Told(sid) ==
    LET last == LastEvent(sid) IN
    [phase |-> last.phase, settled |-> last.kind = "Settled",
     state |-> last.state, payout |-> last.payout]
Tells(item) ==
    [phase |-> item.phase, settled |-> item.settled,
     state |-> item.state, payout |-> item.payout]

\* The last render saw everything and there is nothing more to come.
Quiet ==
    /\ flashed = 1..Len(log)
    /\ indexed = 1..Len(log)
    /\ \A r \in Requests : call[r] \in {"idle", "opened", "failed"}
    /\ pushed = [ready |-> TRUE, ids |-> {sid \in SessionIds : rows[sid].listed},
                 items |-> Reconciliation.items]
    /\ ready
    /\ ~rowsChanged

\* Once both channels are through and every call has returned, the snapshot
\* shows the sessions of the player and what the chain says of them, and no
\* bet that has not become one of them, however the layers raced.
\* Code: all of the pipeline in useHostSnapshot.
Converges ==
    Quiet => {[sid |-> item.sid, tells |-> Tells(item)] : item \in pushed.items}
               = {[sid |-> sid, tells |-> Told(sid)] : sid \in 1..(NewSession - 1)}

\* With the channels in order, the words and request ids of an item belong to
\* the step that asked for them, for the frame verifies each word against its
\* request; and once all is through the item has every request of its session.
\* Code: the nonces kept by recordFulfillment and withFulfillment.
RequestsMatch ==
    inOrder => \A item \in pushed.items :
        /\ \A n \in DOMAIN item.requests :
            /\ item.requests[n].word \in {0, n}
            /\ n # 0 => item.requests[n].id \in {0, n}
        /\ Quiet => item.requests =
            [n \in {log[l].step : l \in {k \in 1..Len(log) : log[k].sid = item.sid
                                                             /\ log[k].request}} |->
                [id |-> n,
                 word |-> IF \E l \in 1..Len(log) : log[l].sid = item.sid /\ log[l].word = n
                          THEN n ELSE 0]]

\* Bounds of a run: out of order a session has one step less, in order the
\* wallet stays.
OneThingAtATime ==
    /\ inOrder => toggles = 0
    /\ ~inOrder => \A l \in 1..Len(log) :
           log[l].kind = "Advanced" => log[l].step < MaxStep
=============================================================================
