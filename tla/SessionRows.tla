------------------------------ MODULE SessionRows ------------------------------
(***************************************************************************)
(* The pure functions between the event feed and the snapshot of the game  *)
(* frame: the indexed row of a session (session-store.ts), the flashblock  *)
(* patch over it (flashblock-session-patch.ts), the optimistic row         *)
(* (optimistic-casino-session.ts) and the reconciliation of what has been  *)
(* published (monotonic-session-items.ts).                                 *)
(*                                                                         *)
(* A session's game bytes, stake and encoded snapshot change with its      *)
(* step, so they are the number of the step that wrote them, and the       *)
(* settlement counts as one step more.  A request for randomness, its id   *)
(* and the word that answers it are the number of the step that asked.     *)
(* Zero stands for undefined: the host's steps start at 1.  Addresses,     *)
(* caps, deadlines, timestamps and transaction hashes are left out.        *)
(***************************************************************************)
EXTENDS Integers, FiniteSetsExt

NoPayout == -1
IsTerminalPhase(phase) == phase \in {"SETTLED", "FORFEITED", "CANCELLED"}

Opened(sid) ==
    [kind |-> "Opened", sid |-> sid, step |-> 0, phase |-> "NONE",
     request |-> FALSE, word |-> 0, state |-> 0, payout |-> NoPayout]
Advanced(sid, step, phase, word) ==
    [kind |-> "Advanced", sid |-> sid, step |-> step, phase |-> phase,
     request |-> phase = "WAITING_RANDOMNESS", word |-> word, state |-> step,
     payout |-> NoPayout]
\* The event does not carry the step; state tells its game bytes from others.
Settled(sid, state, phase, word, payout) ==
    [kind |-> "Settled", sid |-> sid, step |-> 0, phase |-> phase,
     request |-> FALSE, word |-> word, state |-> state, payout |-> payout]

-----------------------------------------------------------------------------
(***************************************************************************)
(* The indexed row                                                         *)
(***************************************************************************)

InitialRow ==
    [listed |-> FALSE, settled |-> FALSE, phase |-> "NONE", step |-> 0,
     state |-> 0, payout |-> NoPayout, request |-> 0,
     fulfilled |-> FALSE, requests |-> <<>>, encoded |-> 0]

IsTerminal(row) == row.settled \/ IsTerminalPhase(row.phase)

\* upsertRandomnessRequest.  requests maps a nonce to the request's id and
\* word; a fulfilled entry stays.
Upserted(requests, nonce, id, word) ==
    IF nonce \in DOMAIN requests /\ requests[nonce].word # 0 THEN requests
    ELSE [n \in DOMAIN requests \cup {nonce} |->
             IF n # nonce THEN requests[n]
             ELSE [id |-> IF id = 0 /\ n \in DOMAIN requests THEN requests[n].id ELSE id,
                   word |-> word]]

\* Mutant: the word is recorded for the step that it led to.
FulfilledAtNext(row, nonce, word) ==
    Upserted(row.requests, nonce + 1, row.request, word)

\* recordFulfillment
FulfilledAt(row, nonce, word) ==
    Upserted(row.requests, nonce,
             IF nonce \in DOMAIN row.requests THEN row.requests[nonce].id ELSE row.request,
             word)

\* Mutant: a replayed or late advance is not dropped.
EvolveAnyStep(row, e) ==
    IF e.kind = "Opened" THEN [row EXCEPT !.listed = TRUE]
    ELSE [row EXCEPT !.listed = e.kind = "Settled" \/ @,
                     !.settled = e.kind = "Settled", !.phase = e.phase, !.step = e.step,
                     !.state = e.state, !.payout = e.payout, !.encoded = e.step]

\* evolve
Evolve(row, e) ==
    CASE e.kind = "Opened" -> [row EXCEPT !.listed = TRUE]
      [] e.kind = "Advanced" ->
           IF row.settled \/ e.step <= row.step THEN row
           ELSE LET answered == IF e.word = 0 THEN row.requests
                                ELSE FulfilledAt(row, e.step - 1, e.word)
                IN  [row EXCEPT
                       !.step = e.step, !.phase = e.phase, !.state = e.state,
                       !.encoded = e.step,
                       !.request = IF e.request THEN e.step ELSE @,
                       !.fulfilled = IF e.request THEN FALSE ELSE e.word # 0 \/ @,
                       !.requests = IF e.request THEN Upserted(answered, e.step, e.step, 0)
                                                 ELSE answered]
      [] e.kind = "Settled" ->
           [row EXCEPT
              !.listed = TRUE, !.settled = TRUE, !.phase = e.phase, !.state = e.state,
              !.payout = e.payout, !.encoded = 0,
              !.fulfilled = e.word # 0 \/ @,
              !.requests = IF e.word = 0 THEN @ ELSE FulfilledAt(row, row.step, e.word)]

-----------------------------------------------------------------------------
(***************************************************************************)
(* The flashblock patch                                                    *)
(***************************************************************************)

\* A session without a patch behaves as one with an empty patch.
NoPatch ==
    [step |-> 0, phase |-> "NONE", state |-> 0, encoded |-> 0, request |-> 0,
     fulfilledNonce |-> 0, fulfilledId |-> 0, word |-> 0,
     settled |-> FALSE, payout |-> NoPayout]

\* withFulfillment
WithFulfillment(patch, nonce, word) ==
    IF nonce = 0 THEN [patch EXCEPT !.word = word]
    ELSE [patch EXCEPT !.word = word, !.fulfilledNonce = nonce,
                       !.fulfilledId = IF patch.request = nonce THEN nonce ELSE 0]

\* applyFlashblockEvent
Patched(patch, e) ==
    CASE e.kind = "Opened" \/ patch.settled -> patch
      [] e.kind = "Advanced" /\ ~patch.settled ->
           LET moved == [patch EXCEPT !.step = e.step, !.phase = e.phase,
                                      !.state = e.state, !.encoded = e.step]
               answered == IF e.word = 0 THEN moved
                           ELSE WithFulfillment(moved, e.step - 1, e.word)
           IN  IF e.step <= patch.step THEN patch
               ELSE IF e.request THEN [answered EXCEPT !.request = e.step] ELSE answered
      [] e.kind = "Settled" /\ ~patch.settled ->
           LET moved == [patch EXCEPT !.settled = TRUE, !.phase = e.phase,
                                      !.payout = e.payout, !.state = e.state]
           IN  IF e.word = 0 THEN moved
               ELSE WithFulfillment(moved,
                        IF patch.request # 0 THEN patch.request ELSE patch.step, e.word)

Recorded(row, nonce) == nonce \in DOMAIN row.requests /\ row.requests[nonce].word # 0

\* mergeFlashblockPatchIntoRow
MergedRow(row, patch) ==
    LET advanced == IF IsTerminal(row) \/ patch.step <= row.step THEN row
                    ELSE [row EXCEPT
                            !.step = patch.step, !.phase = patch.phase,
                            !.state = patch.state, !.encoded = patch.encoded,
                            !.request = IF patch.request = patch.step THEN patch.step ELSE @,
                            !.fulfilled = @ /\ patch.request # patch.step]
        settled == IF IsTerminal(row) \/ ~patch.settled THEN advanced
                   ELSE [advanced EXCEPT
                           !.settled = TRUE, !.phase = patch.phase, !.payout = patch.payout,
                           !.state = patch.state]
        nonce == patch.fulfilledNonce
        current == row.requests = <<>> \/ nonce >= Max(DOMAIN row.requests)
    IN  IF nonce = 0 \/ Recorded(row, nonce) THEN settled
        ELSE [settled EXCEPT
                !.requests = Upserted(@, nonce, patch.fulfilledId, patch.word),
                !.request = IF current /\ ~row.fulfilled /\ @ = 0 THEN patch.fulfilledId ELSE @,
                !.fulfilled = @ \/ (current /\ ~row.fulfilled)]

\* Mutant: a patch is dropped although the row has not its step yet.
CaughtUpByStatus(patch, row) == row.listed

\* pruneFlashblockPatches drops the patches a row has caught up with.
CaughtUp(patch, row) ==
    /\ row.listed
    /\ patch.step <= row.step
    /\ patch.settled => IsTerminal(row)
    /\ patch.fulfilledNonce # 0 => Recorded(row, patch.fulfilledNonce)

-----------------------------------------------------------------------------
(***************************************************************************)
(* The items of the snapshot                                               *)
(***************************************************************************)

\* An optimistic item has a pending id, here the negative of its request.
PendingItem(request) ==
    [sid |-> -request, phase |-> "WAITING_RANDOMNESS", settled |-> FALSE, state |-> 0,
     payout |-> NoPayout, word |-> 0, requests |-> <<>>]

\* sessionRandomnessRequests
RequestsOf(row) ==
    IF row.requests = <<>> /\ row.request # 0
    THEN [n \in {0} |-> [id |-> row.request, word |-> 0]] ELSE row.requests

\* The item of a row, already merged with its patch.
ProjectedItem(sid, row, patch) ==
    LET answered == {n \in DOMAIN row.requests : row.requests[n].word # 0} IN
    [sid |-> sid, phase |-> row.phase, settled |-> IsTerminal(row), state |-> row.state,
     payout |-> row.payout,
     word |-> IF answered = {} THEN patch.word ELSE row.requests[Max(answered)].word,
     requests |-> RequestsOf(row)]

\* mergeFlashblockPatchIntoItem
MergedItem(item, patch) ==
    IF item.settled THEN item
    ELSE LET word == IF item.word = 0 THEN patch.word ELSE item.word IN
         IF patch.settled
         THEN [item EXCEPT !.phase = patch.phase, !.payout = patch.payout,
                           !.settled = TRUE, !.state = patch.state, !.word = word]
         ELSE [item EXCEPT !.phase = IF patch.step = 0 THEN @ ELSE patch.phase,
                           !.state = IF patch.step = 0 THEN @ ELSE patch.state,
                           !.word = word]

Ids(items) == {item.sid : item \in items}

\* mergeCasinoSessionItems: an optimistic item stands until its session is
\* projected with a phase.
MergedItems(projected, optimistic) ==
    LET visible == {item \in optimistic :
                       \A p \in projected : p.sid = item.sid => p.phase = "NONE"}
    IN  visible \cup {p \in projected : p.sid \notin Ids(visible)}

IsComplete(item) ==
    /\ item.settled
    /\ item.payout # NoPayout
    /\ item.phase = "SETTLED" => item.state # 0

Demoted(item) ==
    [item EXCEPT !.phase = "WAITING_RANDOMNESS", !.settled = FALSE, !.state = 0,
                 !.payout = NoPayout]

\* Mutant: only what the layers show now is published.
ReconciledAsIs(items, released, published) ==
    [items |-> items, settled |-> {}, open |-> {}]

\* reconcileMonotonicSessionItems.  published holds the items remembered as
\* settled and as open; released are the ids of the indexed rows that carry
\* their result.
Reconciled(items, released, published) ==
    LET settled == {s \in published.settled : s.sid \notin released}
        open == {o \in published.open : o.sid \notin released}
        kept == {s \in settled : \E item \in items : item.sid = s.sid /\ ~IsComplete(item)}
        complete == {item \in items : IsComplete(item)}
        waiting == {IF item.settled \/ IsTerminalPhase(item.phase) THEN Demoted(item) ELSE item :
                       item \in {i \in items : ~IsComplete(i) /\ i.sid \notin Ids(kept)}}
        settledNow == complete \cup {s \in settled : s.sid \notin Ids(complete)}
        openNow == {w \in waiting : w.sid > 0}
                     \cup {o \in open : o.sid \notin Ids(complete) \cup Ids(waiting)}
    IN  [items |-> kept \cup complete \cup waiting
                     \cup {p \in settledNow \cup openNow : p.sid \notin Ids(items)},
         settled |-> settledNow,
         open |-> openNow]
=============================================================================
