---------------------------- MODULE TransactionQueue ----------------------------
(***************************************************************************)
(* The calls of the host API that send transactions (use-game-host.ts) and *)
(* the one queue they share (runtime.ts, sendActions).  A call encodes its *)
(* transactions at once, with the session bytes it knows by then, and its  *)
(* job waits for the jobs of all earlier calls.  A job confirms each of    *)
(* its transactions before it sends the next.                              *)
(*                                                                         *)
(* The account's nonces order what the chain executes.  Of the chain this  *)
(* keeps what a transaction can trip over: the allowance of the host, and  *)
(* for each session its step, which stands for the committed bytes, and    *)
(* whose turn it is.                                                       *)
(***************************************************************************)
EXTENDS Integers, Sequences, FiniteSets, SequencesExt, FiniteSetsExt

CONSTANTS
    Calls,          \* the calls the game may make, numbered in that order
    Wagers,         \* stakes of a bet, and extra stakes of an action
    Remembered,     \* how many sessions the receipts are remembered of (64)
    MaxSessions,    \* bound: sessions of the chain
    MaxStep,        \* bound: steps of a session
    MaxFaults       \* bound: failures of the node

ASSUME QueueAssumption ==
    /\ Calls \subseteq Nat
    /\ Wagers \subseteq Nat \ {0}
    /\ Remembered \in Nat \ {0}
    /\ {MaxSessions, MaxStep, MaxFaults} \subseteq Nat

VARIABLES
    call,           \* what each call asks for and how far it is
    sendQueue,      \* the jobs that are not done, in order
    mempool,        \* transactions broadcast and not executed, by nonce
    allowance,      \* what the host may still take from the account
    sessions,       \* the sessions of the chain
    snapshots,      \* sessionSnapshotsRef: [id, step], oldest entry first
    published,      \* what the page was told of each session, by source
    faults          \* failures so far

queueVars ==
    <<call, sendQueue, mempool, allowance, sessions, snapshots, published, faults>>

Sources == {"patch", "row"}
Ids == 1..MaxSessions
NoCall == [pc |-> "unmade", kind |-> "none", id |-> 0, approve |-> 0, step |-> 0,
           receipt |-> "none"]

Ended == {"returned", "failed"}
Approves(c) == call[c].approve > 0

QueueInit ==
    /\ call = [c \in Calls |-> NoCall]
    /\ sendQueue = <<>>
    /\ mempool = <<>>
    /\ allowance = 0
    /\ sessions = <<>>
    /\ snapshots = <<>>
    /\ published = [s \in Sources |-> [id \in Ids |-> 0]]
    /\ faults = 0

-----------------------------------------------------------------------------
(***************************************************************************)
(* The newest bytes of a session that the page knows: of the receipts of   *)
(* its own calls, the flashblock patch and the indexed row.  0 is none.    *)
(***************************************************************************)

Entries(id) == {i \in DOMAIN snapshots : snapshots[i].id = id}
EntryOf(id) == CHOOSE i \in Entries(id) : TRUE

ReceiptStep(id) == IF Entries(id) = {} THEN 0 ELSE snapshots[EntryOf(id)].step

\* Mutant: what the page was told goes before the receipts
TrustThePublished(id) ==
    LET told == Max({published[s][id] : s \in Sources})
    IN  IF told > 0 THEN told ELSE ReceiptStep(id)

LatestEncodedSession(id) ==
    Max({ReceiptStep(id)} \cup {published[s][id] : s \in Sources})

RememberSnapshot(id, step) ==
    IF ReceiptStep(id) >= step
    THEN snapshots
    ELSE LET others == IF Entries(id) = {} THEN snapshots
                       ELSE RemoveAt(snapshots, EntryOf(id))
             kept == IF Len(others) >= Remembered THEN Tail(others) ELSE others
         IN  Append(kept, [id |-> id, step |-> step])

-----------------------------------------------------------------------------
(***************************************************************************)
(* The calls                                                               *)
(***************************************************************************)

Enqueue(c, request) ==
    /\ call[c].pc = "unmade"
    /\ \A d \in Calls : d < c => call[d].pc # "unmade"
    /\ call' = [call EXCEPT ![c] = [request EXCEPT !.pc = "queued"]]
    /\ sendQueue' = Append(sendQueue, c)
    /\ UNCHANGED <<mempool, allowance, sessions, snapshots, published, faults>>

\* openSession: an approval of exactly the wager, then the bet
OpenSession(c) ==
    \E wager \in Wagers :
        Enqueue(c, [NoCall EXCEPT !.kind = "open", !.approve = wager])

\* submitAction: the bytes are those known now; a call that knows none is
\* refused on the spot.
SubmitAction(c) ==
    \E id \in Ids, extra \in Wagers \cup {0} :
        /\ LatestEncodedSession(id) > 0
        /\ Enqueue(c, [NoCall EXCEPT !.kind = "act", !.id = id, !.approve = extra,
                                     !.step = LatestEncodedSession(id)])

CancelStuckRandomness(c) ==
    \E id \in Ids :
        /\ LatestEncodedSession(id) > 0
        /\ Enqueue(c, [NoCall EXCEPT !.kind = "cancel", !.id = id,
                                     !.step = LatestEncodedSession(id)])

-----------------------------------------------------------------------------
(***************************************************************************)
(* sendActions                                                             *)
(***************************************************************************)

MayRun(c) == sendQueue # <<>> /\ sendQueue[1] = c
\* Mutant: every job starts at once
RunsAnyway(c) == \E i \in DOMAIN sendQueue : sendQueue[i] = c
MayStart(c) == MayRun(c)

NextAction(c) ==
    IF call[c].pc = "queued" /\ Approves(c) THEN "approving" ELSE "confirming"

AtSend(c) ==
    \/ /\ call[c].pc = "queued"
       /\ MayStart(c)
    \/ /\ call[c].pc = "approving"
       /\ call[c].receipt = "success"

SendTransaction(c) ==
    /\ AtSend(c)
    /\ call' = [call EXCEPT ![c].pc = NextAction(c), ![c].receipt = "none"]
    /\ mempool' = Append(mempool, [call |-> c, what |-> NextAction(c)])
    /\ UNCHANGED <<sendQueue, allowance, sessions, snapshots, published, faults>>

\* A job that ended lets the next one start, whatever became of it.
LeaveQueue(c) == RemoveAt(sendQueue, CHOOSE i \in DOMAIN sendQueue : sendQueue[i] = c)
\* Mutant: the next job is chained to a promise that was rejected
FailedJobBlocks(c) == /\ call' = [call EXCEPT ![c].pc = "failed"]
                      /\ UNCHANGED <<sendQueue, allowance, sessions, snapshots, published>>
JobFails(c) ==
    /\ call' = [call EXCEPT ![c].pc = "failed"]
    /\ sendQueue' = LeaveQueue(c)
    /\ UNCHANGED <<allowance, sessions, snapshots, published>>

\* sendTransaction throws; the node may have taken the transaction or not.
SendFails(c) ==
    /\ AtSend(c)
    /\ faults < MaxFaults
    /\ faults' = faults + 1
    /\ \/ UNCHANGED mempool
       \/ mempool' = Append(mempool, [call |-> c, what |-> NextAction(c)])
    /\ JobFails(c)

\* waitForTransactionReceipt gives up; the transaction is executed later.
WaitTimesOut(c) ==
    /\ call[c].pc \in {"approving", "confirming"}
    /\ call[c].receipt = "none"
    /\ faults < MaxFaults
    /\ faults' = faults + 1
    /\ UNCHANGED mempool
    /\ JobFails(c)

ReadsRevert(c) ==
    /\ call[c].pc \in {"approving", "confirming"}
    /\ call[c].receipt = "reverted"
    /\ UNCHANGED <<mempool, faults>>
    /\ JobFails(c)

\* The receipt of the last transaction: the step it names is remembered,
\* except by a cancellation.
JobReturns(c) ==
    /\ call[c].pc = "confirming"
    /\ call[c].receipt = "success"
    /\ call' = [call EXCEPT ![c].pc = "returned"]
    /\ sendQueue' = LeaveQueue(c)
    /\ snapshots' = IF call[c].kind = "cancel" THEN snapshots
                    ELSE RememberSnapshot(call[c].id, call[c].step)
    /\ UNCHANGED <<mempool, allowance, sessions, published, faults>>

-----------------------------------------------------------------------------
(***************************************************************************)
(* The chain.  A final transaction that may succeed may also revert: the   *)
(* game or a cap refuses it.                                               *)
(***************************************************************************)

Executed(c, receipt) ==
    IF call[c].pc \in Ended THEN call ELSE [call EXCEPT ![c].receipt = receipt]

ExecuteApprove(c) ==
    /\ allowance' = call[c].approve
    /\ call' = Executed(c, "success")
    /\ UNCHANGED sessions

ExecuteRevert(c) ==
    /\ call' = Executed(c, "reverted")
    /\ UNCHANGED <<allowance, sessions>>

\* The receipt names the session and its new step.
Commits(c, id, step) ==
    call' = [Executed(c, "success") EXCEPT ![c].id = id, ![c].step = step]

ExecuteOpen(c) ==
    /\ call[c].kind = "open"
    /\ Len(sessions) < MaxSessions
    /\ allowance >= call[c].approve
    /\ allowance' = allowance - call[c].approve
    /\ sessions' = Append(sessions, [step |-> 1, turn |-> "randomness"])
    /\ Commits(c, Len(sessions'), 1)

ExecuteAction(c) ==
    LET id == call[c].id IN
    /\ call[c].kind = "act"
    /\ sessions[id].turn = "player"
    /\ sessions[id].step = call[c].step
    /\ sessions[id].step < MaxStep
    /\ \E pulled \in {0, call[c].approve}, turn \in {"randomness", "player", "over"} :
        /\ pulled <= allowance
        /\ allowance' = allowance - pulled
        /\ sessions' = [sessions EXCEPT ![id] = [step |-> @.step + 1, turn |-> turn]]
        /\ Commits(c, id, sessions'[id].step)

ExecuteCancel(c) ==
    LET id == call[c].id IN
    /\ call[c].kind = "cancel"
    /\ sessions[id].turn = "randomness"
    /\ sessions[id].step = call[c].step
    /\ sessions' = [sessions EXCEPT ![id].turn = "over"]
    /\ call' = Executed(c, "success")
    /\ UNCHANGED allowance

Execute ==
    /\ mempool # <<>>
    /\ mempool' = Tail(mempool)
    /\ LET c == mempool[1].call
       IN  IF mempool[1].what = "approving"
           THEN ExecuteApprove(c)
           ELSE ExecuteOpen(c) \/ ExecuteAction(c) \/ ExecuteCancel(c) \/ ExecuteRevert(c)
    /\ UNCHANGED <<sendQueue, snapshots, published, faults>>

FulfillRandomness ==
    \E id \in DOMAIN sessions, turn \in {"player", "over"} :
        /\ sessions[id].turn = "randomness"
        /\ sessions[id].step < MaxStep
        /\ sessions' = [sessions EXCEPT ![id] = [step |-> @.step + 1, turn |-> turn]]
        /\ UNCHANGED <<call, sendQueue, mempool, allowance, snapshots, published, faults>>

\* The feed is late: it tells any step that was, never an older one.
Publish ==
    \E s \in Sources, id \in DOMAIN sessions :
        \E step \in (published[s][id] + 1)..sessions[id].step :
            /\ published' = [published EXCEPT ![s][id] = step]
            /\ UNCHANGED <<call, sendQueue, mempool, allowance, sessions, snapshots, faults>>

\* A patch that the row has caught up with is dropped.
Prune ==
    \E id \in Ids :
        /\ published["patch"][id] > 0
        /\ published["row"][id] >= published["patch"][id]
        /\ published' = [published EXCEPT !["patch"][id] = 0]
        /\ UNCHANGED <<call, sendQueue, mempool, allowance, sessions, snapshots, faults>>

-----------------------------------------------------------------------------

GameCalls(c) == OpenSession(c) \/ SubmitAction(c) \/ CancelStuckRandomness(c)
JobStep(c) == SendTransaction(c) \/ ReadsRevert(c) \/ JobReturns(c)
NodeFails(c) == SendFails(c) \/ WaitTimesOut(c)

QueueNext ==
    \/ \E c \in Calls : GameCalls(c) \/ JobStep(c) \/ NodeFails(c)
    \/ Execute
    \/ FulfillRandomness
    \/ Publish
    \/ Prune

QueueSpec == QueueInit /\ [][QueueNext]_queueVars

\* Promises run when they can, and the node executes what it was sent.
QueueFairness ==
    /\ \A c \in Calls : WF_queueVars(JobStep(c))
    /\ WF_queueVars(Execute)

QueueFairSpec == QueueSpec /\ QueueFairness

-----------------------------------------------------------------------------
(***************************************************************************)
(* Correctness                                                             *)
(***************************************************************************)

\* A bet, or an action with extra stake, is executed against its own
\* approval: no other call's approval or spending comes between the two,
\* however calls are pipelined and whatever fails (runtime.ts: "pipelined
\* bets never race the account nonce").
OwnAllowance ==
    \A i \in DOMAIN mempool :
        LET c == mempool[i].call
        IN  i = 1 /\ mempool[i].what = "confirming" /\ Approves(c) =>
                allowance = call[c].approve

\* What a call has returned, the next call builds on: once the game holds a
\* result, no later action of the page echoes older bytes of that session,
\* however late the feed is.  (Receipts of sessions beyond the remembered
\* number are forgotten and left out.)
ReadYourWrites ==
    \A c \in Calls :
        (/\ call[c].pc = "returned"
         /\ call[c].kind # "cancel"
         /\ Len(sessions) <= Remembered) =>
            LatestEncodedSession(call[c].id) >= call[c].step

\* Every call gets an answer, and a failed one does not hold up the others.
CallsReturn ==
    \A c \in Calls : call[c].pc = "queued" ~> call[c].pc \in Ended

=============================================================================
