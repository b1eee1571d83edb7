---------------------------- MODULE SimulatorProofs ----------------------------
(***************************************************************************)
(* Proofs about what surrounds a frame in the simulator: the queue of      *)
(* transactions, the page, and the balance ledger as MCSimulator runs it.  *)
(***************************************************************************)
EXTENDS MCSimulator, SequenceTheorems, FiniteSetTheorems, TLAPS

-----------------------------------------------------------------------------
(***************************************************************************)
(* The queue                                                               *)
(*                                                                         *)
(* A bet is executed against its own approval, for every number of calls,  *)
(* wagers and failures.  What makes it so is that only the head of the     *)
(* queue broadcasts, and that it sends its last transaction to a mempool   *)
(* the chain has emptied: the approval it waited for was the last          *)
(* transaction in it.                                                      *)
(***************************************************************************)
Running(c) == call[c].pc \in {"approving", "confirming"}

\* The types the argument needs.  What a call knows of a session (its id and
\* step) plays no part in it.
QueueType ==
    /\ DOMAIN call = Calls
    /\ \A c \in Calls :
         /\ DOMAIN call[c] = DOMAIN NoCall
         /\ call[c].pc \in {"unmade", "queued", "approving", "confirming"} \cup Ended
         /\ call[c].approve \in Nat
    /\ sendQueue \in Seq(Calls)
    /\ mempool \in Seq([call : Calls, what : {"approving", "confirming"}])

\* Only the job at the head of the queue runs.
HeadRuns == \A c \in Calls : Running(c) => sendQueue # <<>> /\ sendQueue[1] = c

\* What a running job has broadcast last is the last transaction of the
\* mempool, until it is executed; all others belong to jobs that are over.
LastIsOfTheHead ==
    \A i \in 1..Len(mempool) :
        LET c == mempool[i].call
        IN  \/ call[c].pc \in Ended
            \/ /\ i = Len(mempool)
               /\ call[c].pc = mempool[i].what
               /\ call[c].receipt = "none"

\* An approval that was executed stands, and nothing is on its way.
ApprovalStands ==
    \A c \in Calls :
        call[c].pc = "approving" /\ call[c].receipt = "success" =>
            mempool = <<>> /\ allowance = call[c].approve

\* A last transaction that pulls the wager is next, with its own approval.
PullIsNext ==
    \A i \in 1..Len(mempool) :
        LET c == mempool[i].call
        IN  mempool[i].what = "confirming" /\ Approves(c) =>
                i = 1 /\ allowance = call[c].approve

QueueInv == QueueType /\ HeadRuns /\ LastIsOfTheHead /\ ApprovalStands /\ PullIsNext

-----------------------------------------------------------------------------
\* What the mempool and the queue are made of.
LEMMA QueueShape ==
    ASSUME QueueType
    PROVE  /\ Len(mempool) \in Nat /\ Len(sendQueue) \in Nat
           /\ \A i \in 1..Len(mempool) :
                /\ mempool[i].call \in Calls
                /\ mempool[i].what \in {"approving", "confirming"}
           /\ mempool # <<>> => Len(mempool) > 0
           /\ sendQueue # <<>> => Len(sendQueue) > 0
  <1> DEFINE Item == [call : Calls, what : {"approving", "confirming"}]
  <1>1. mempool \in Seq(Item) /\ sendQueue \in Seq(Calls)
    BY DEF QueueType
  <1>2. \A i \in 1..Len(mempool) : mempool[i] \in Item
    <2> HIDE DEF Item
    <2> QED BY <1>1, ElementOfSeq
  <1>3. /\ Len(mempool) \in Nat /\ Len(sendQueue) \in Nat
        /\ mempool # <<>> => Len(mempool) > 0
        /\ sendQueue # <<>> => Len(sendQueue) > 0
    <2> HIDE DEF Item
    <2> QED BY <1>1, LenProperties, EmptySeq
  <1> QED
    BY <1>2, <1>3

\* QueueInv holds at first.
LEMMA QueueInitInv == QueueInit => QueueInv
  <1> SUFFICES ASSUME QueueInit PROVE QueueInv
    OBVIOUS
  <1> USE DEF QueueInit, NoCall
  <1>1. QueueType
    BY DEF QueueType, Ended
  <1> QED
    BY <1>1 DEF QueueInv, HeadRuns, LastIsOfTheHead, ApprovalStands, PullIsNext, Running

\* A call that is made joins the queue behind the job that runs.
LEMMA EnqueueKeepsInv ==
    ASSUME QueueInv, NEW c \in Calls, NEW request, Enqueue(c, request),
           DOMAIN request = DOMAIN NoCall, request.approve \in Nat
    PROVE  QueueInv'
  <1>1. /\ call' = [call EXCEPT ![c] = [request EXCEPT !.pc = "queued"]]
        /\ call[c].pc = "unmade"
        /\ sendQueue' = Append(sendQueue, c)
        /\ mempool' = mempool /\ allowance' = allowance
    BY DEF Enqueue
  <1>2. /\ DOMAIN call' = Calls
        /\ \A d \in Calls : d # c => call'[d] = call[d]
        /\ call'[c].pc = "queued"
        /\ call'[c].approve = request.approve
        /\ DOMAIN call'[c] = DOMAIN NoCall
    BY <1>1 DEF QueueInv, QueueType, NoCall
  <1>3. /\ sendQueue' \in Seq(Calls)
        /\ sendQueue # <<>> => sendQueue' # <<>> /\ sendQueue'[1] = sendQueue[1]
    BY <1>1, QueueShape, AppendProperties DEF QueueInv, QueueType
  <1>4. \A i \in 1..Len(mempool) : mempool[i].call \in Calls \ {c}
    BY <1>1, QueueShape DEF QueueInv, LastIsOfTheHead, Ended
  <1>5. QueueType'
    BY <1>1, <1>2, <1>3 DEF QueueInv, QueueType
  <1>6. HeadRuns'
    BY <1>2, <1>3 DEF QueueInv, HeadRuns, Running
  <1>7. LastIsOfTheHead' /\ ApprovalStands' /\ PullIsNext'
    BY <1>1, <1>2, <1>4 DEF QueueInv, LastIsOfTheHead, ApprovalStands, PullIsNext, Approves
  <1> QED
    BY <1>5, <1>6, <1>7 DEF QueueInv

\* The mempool after a broadcast, whatever becomes of the call that did it.
LEMMA BroadcastIsLast ==
    ASSUME QueueInv, NEW c \in Calls, AtSend(c),
           mempool' = Append(mempool, [call |-> c, what |-> NextAction(c)])
    PROVE  /\ mempool' \in Seq([call : Calls, what : {"approving", "confirming"}])
           /\ Len(mempool') = Len(mempool) + 1
           /\ \A i \in 1..Len(mempool) :
                mempool'[i] = mempool[i] /\ call[mempool[i].call].pc \in Ended
           /\ mempool'[Len(mempool')] = [call |-> c, what |-> NextAction(c)]
           /\ NextAction(c) = "confirming" /\ Approves(c) =>
                mempool = <<>> /\ allowance = call[c].approve
           /\ \A d \in Calls : Running(d) => d = c
  <1>1. [call |-> c, what |-> NextAction(c)] \in [call : Calls, what : {"approving", "confirming"}]
    BY DEF NextAction
  <1>2. mempool \in Seq([call : Calls, what : {"approving", "confirming"}])
    BY DEF QueueInv, QueueType
  <1>3. \A d \in Calls : Running(d) => d = c
    BY DEF AtSend, MayStart, MayRun, QueueInv, HeadRuns, Running
  <1>4. \A i \in 1..Len(mempool) : call[mempool[i].call].pc \in Ended
    <2> SUFFICES ASSUME NEW i \in 1..Len(mempool), call[mempool[i].call].pc \notin Ended
                 PROVE  FALSE
      OBVIOUS
    <2>1. /\ mempool[i].call \in Calls
          /\ call[mempool[i].call].pc = mempool[i].what
          /\ call[mempool[i].call].receipt = "none"
          /\ mempool[i].what \in {"approving", "confirming"}
      BY QueueShape DEF QueueInv, LastIsOfTheHead
    <2>2. mempool[i].call = c
      BY <2>1, <1>3 DEF Running
    <2> QED
      BY <2>1, <2>2 DEF AtSend
  <1>5. NextAction(c) = "confirming" /\ Approves(c) =>
            mempool = <<>> /\ allowance = call[c].approve
    BY DEF AtSend, NextAction, QueueInv, ApprovalStands
  <1> QED
    BY <1>1, <1>2, <1>3, <1>4, <1>5, AppendProperties

\* The head of the queue leaves it with its job over.
LEMMA JobOver ==
    ASSUME QueueInv, NEW c \in Calls, AtSend(c) \/ Running(c), NEW end \in Ended,
           call' = [call EXCEPT ![c].pc = end],
           sendQueue' = LeaveQueue(c), allowance' = allowance,
           \/ mempool' = mempool
           \/ AtSend(c) /\ mempool' = Append(mempool, [call |-> c, what |-> NextAction(c)])
    PROVE  QueueInv'
  <1>1. sendQueue # <<>> /\ sendQueue[1] = c
    BY DEF AtSend, MayStart, MayRun, QueueInv, HeadRuns, Running
  <1>2. sendQueue' \in Seq(Calls)
    <2> DEFINE i == CHOOSE i \in DOMAIN sendQueue : sendQueue[i] = c
    <2>1. sendQueue \in Seq(Calls) /\ 1 \in DOMAIN sendQueue
      BY <1>1 DEF QueueInv, QueueType
    <2>2. i \in 1..Len(sendQueue)
      BY <1>1, <2>1
    <2> HIDE DEF i
    <2>3. /\ SubSeq(sendQueue, 1, i - 1) \in Seq(Calls)
          /\ SubSeq(sendQueue, i + 1, Len(sendQueue)) \in Seq(Calls)
      BY <2>1, <2>2, SubSeqProperties
    <2>4. RemoveAt(sendQueue, i) \in Seq(Calls)
      BY <2>3 DEF RemoveAt
    <2> QED
      BY <2>4 DEF LeaveQueue, i
  <1>3. /\ DOMAIN call' = Calls
        /\ \A d \in Calls : /\ d # c => call'[d] = call[d]
                            /\ DOMAIN call'[d] = DOMAIN NoCall
                            /\ call'[d].approve = call[d].approve
        /\ call'[c].pc = end
    BY DEF QueueInv, QueueType, NoCall
  <1>4. \A d \in Calls : ~Running(d)'
    BY <1>1, <1>3 DEF QueueInv, HeadRuns, Running, Ended
  <1>5. HeadRuns' /\ ApprovalStands'
    BY <1>4 DEF HeadRuns, ApprovalStands, Running
  <1>6. CASE mempool' = mempool
    <2>1. QueueType'
      BY <1>2, <1>3, <1>6 DEF QueueInv, QueueType
    <2>2. LastIsOfTheHead' /\ PullIsNext'
      <3>1. \A i \in 1..Len(mempool) : mempool[i].call \in Calls
        BY QueueShape DEF QueueInv
      <3> QED
        BY <1>3, <1>6, <3>1 DEF QueueInv, LastIsOfTheHead, PullIsNext, Approves
    <2> QED
      BY <1>5, <2>1, <2>2 DEF QueueInv
  <1>7. CASE AtSend(c) /\ mempool' = Append(mempool, [call |-> c, what |-> NextAction(c)])
    <2>1. /\ mempool' \in Seq([call : Calls, what : {"approving", "confirming"}])
          /\ Len(mempool') = Len(mempool) + 1
          /\ \A i \in 1..Len(mempool) :
               mempool'[i] = mempool[i] /\ call[mempool[i].call].pc \in Ended
          /\ mempool'[Len(mempool')] = [call |-> c, what |-> NextAction(c)]
          /\ NextAction(c) = "confirming" /\ Approves(c) =>
               mempool = <<>> /\ allowance = call[c].approve
      BY <1>7, BroadcastIsLast
    <2>2. QueueType'
      BY <1>2, <1>3, <2>1 DEF QueueInv, QueueType
    <2>3. Len(mempool) \in Nat /\ \A i \in 1..Len(mempool) : mempool[i].call \in Calls
      BY QueueShape DEF QueueInv
    <2>4. LastIsOfTheHead'
      BY <1>3, <2>1, <2>3 DEF LastIsOfTheHead
    <2>5. PullIsNext'
      BY <1>3, <2>1, <2>3 DEF QueueInv, PullIsNext, Approves
    <2> QED
      BY <1>5, <2>2, <2>4, <2>5 DEF QueueInv
  <1> QED
    BY <1>6, <1>7

\* A job broadcasts its next transaction and waits for it.
LEMMA SendKeepsInv ==
    ASSUME QueueInv, NEW c \in Calls, SendTransaction(c)
    PROVE  QueueInv'
  <1>1. /\ AtSend(c)
        /\ call' = [call EXCEPT ![c].pc = NextAction(c), ![c].receipt = "none"]
        /\ mempool' = Append(mempool, [call |-> c, what |-> NextAction(c)])
        /\ sendQueue' = sendQueue /\ allowance' = allowance
    BY DEF SendTransaction
  <1>2. /\ mempool' \in Seq([call : Calls, what : {"approving", "confirming"}])
        /\ Len(mempool') = Len(mempool) + 1
        /\ \A i \in 1..Len(mempool) :
             mempool'[i] = mempool[i] /\ call[mempool[i].call].pc \in Ended
        /\ mempool'[Len(mempool')] = [call |-> c, what |-> NextAction(c)]
        /\ NextAction(c) = "confirming" /\ Approves(c) =>
             mempool = <<>> /\ allowance = call[c].approve
        /\ \A d \in Calls : Running(d) => d = c
    BY <1>1, BroadcastIsLast
  <1>3. /\ DOMAIN call' = Calls
        /\ \A d \in Calls : /\ d # c => call'[d] = call[d]
                            /\ DOMAIN call'[d] = DOMAIN NoCall
                            /\ call'[d].approve = call[d].approve
        /\ call'[c].pc = NextAction(c) /\ call'[c].receipt = "none"
    BY <1>1 DEF QueueInv, QueueType, NoCall
  <1>4. Len(mempool) \in Nat /\ \A i \in 1..Len(mempool) : mempool[i].call \in Calls
    BY QueueShape DEF QueueInv
  <1>5. c \notin {d \in Calls : call[d].pc \in Ended}
    BY <1>1 DEF AtSend, Ended
  <1>6. QueueType'
    BY <1>1, <1>2, <1>3 DEF QueueInv, QueueType, NextAction
  <1>7. HeadRuns'
    BY <1>1, <1>2, <1>3 DEF AtSend, MayStart, MayRun, QueueInv, HeadRuns, Running
  <1>8. LastIsOfTheHead'
    BY <1>2, <1>3, <1>4, <1>5 DEF LastIsOfTheHead
  <1>9. ApprovalStands'
    BY <1>2, <1>3 DEF ApprovalStands, Running
  <1>10. PullIsNext'
    BY <1>1, <1>2, <1>3, <1>4 DEF QueueInv, PullIsNext, Approves
  <1> QED
    BY <1>6, <1>7, <1>8, <1>9, <1>10 DEF QueueInv

\* What a block does to the calls: at most it gives one its receipt.
LEMMA ExecuteOutcome ==
    ASSUME QueueType, Execute
    PROVE  LET c == mempool[1].call
           IN  /\ mempool # <<>> /\ c \in Calls
               /\ mempool' = Tail(mempool) /\ sendQueue' = sendQueue
               /\ DOMAIN call' = Calls
               /\ \A d \in Calls : /\ DOMAIN call'[d] = DOMAIN NoCall
                                   /\ call'[d].pc = call[d].pc
                                   /\ call'[d].approve = call[d].approve
               /\ \A d \in Calls : d # c \/ call[d].pc \in Ended =>
                       call'[d].receipt = call[d].receipt
               /\ mempool[1].what = "approving" => allowance' = call[c].approve
  <1> DEFINE c == mempool[1].call
  <1>1. mempool # <<>> /\ mempool' = Tail(mempool) /\ sendQueue' = sendQueue
    BY DEF Execute
  <1>2. c \in Calls /\ mempool[1].what \in {"approving", "confirming"}
    BY <1>1, QueueShape
  <1>3. \E receipt : \/ call' = Executed(c, receipt)
                     \/ \E id, step : call' = [Executed(c, receipt) EXCEPT ![c].id = id,
                                                                          ![c].step = step]
    <2>1. CASE ExecuteApprove(c) \/ ExecuteRevert(c) \/ ExecuteCancel(c)
      BY <2>1 DEF ExecuteApprove, ExecuteRevert, ExecuteCancel
    <2>2. CASE ExecuteOpen(c) \/ ExecuteAction(c)
      <3>1. \E id, step : Commits(c, id, step)
        BY <2>2 DEF ExecuteOpen, ExecuteAction
      <3> QED
        BY <3>1 DEF Commits
    <2> QED
      BY <2>1, <2>2 DEF Execute
  <1>4. mempool[1].what = "approving" => allowance' = call[c].approve
    BY DEF Execute, ExecuteApprove
  <1>5. PICK receipt :
            \/ call' = Executed(c, receipt)
            \/ \E id, step : call' = [Executed(c, receipt) EXCEPT ![c].id = id,
                                                                 ![c].step = step]
    BY <1>3
  <1> DEFINE e == Executed(c, receipt)
  <1>6. /\ DOMAIN e = Calls
        /\ \A d \in Calls : /\ DOMAIN e[d] = DOMAIN NoCall
                            /\ e[d].pc = call[d].pc
                            /\ e[d].approve = call[d].approve
        /\ \A d \in Calls : d # c \/ call[d].pc \in Ended => e[d].receipt = call[d].receipt
    BY <1>2 DEF Executed, QueueType, NoCall
  <1> HIDE DEF e
  <1>7. /\ DOMAIN call' = Calls
        /\ \A d \in Calls : /\ DOMAIN call'[d] = DOMAIN NoCall
                            /\ call'[d].pc = call[d].pc
                            /\ call'[d].approve = call[d].approve
        /\ \A d \in Calls : d # c \/ call[d].pc \in Ended =>
                call'[d].receipt = call[d].receipt
    <2>1. CASE call' = e
      BY <1>6, <2>1
    <2>2. CASE \E id, step : call' = [e EXCEPT ![c].id = id, ![c].step = step]
      BY <1>2, <1>6, <2>2 DEF NoCall
    <2> QED
      BY <1>5, <2>1, <2>2 DEF e
  <1> QED
    BY <1>1, <1>2, <1>4, <1>7

\* The execution of a call keeps QueueInv.
LEMMA ExecuteKeepsInv ==
    ASSUME QueueInv, Execute
    PROVE  QueueInv'
  <1>0. PICK c : c = mempool[1].call
    OBVIOUS
  <1>1. /\ mempool # <<>> /\ c \in Calls
        /\ mempool' = Tail(mempool) /\ sendQueue' = sendQueue
        /\ DOMAIN call' = Calls
        /\ \A d \in Calls : /\ DOMAIN call'[d] = DOMAIN NoCall
                            /\ call'[d].pc = call[d].pc
                            /\ call'[d].approve = call[d].approve
        /\ \A d \in Calls : d # c \/ call[d].pc \in Ended =>
                call'[d].receipt = call[d].receipt
        /\ mempool[1].what = "approving" => allowance' = call[c].approve
    BY <1>0, ExecuteOutcome DEF QueueInv
  <1>2. /\ \A i \in 1..Len(mempool) :
             /\ mempool[i].call \in Calls
             /\ mempool[i].what \in {"approving", "confirming"}
        /\ Len(mempool) \in Nat \ {0}
        /\ mempool' \in Seq([call : Calls, what : {"approving", "confirming"}])
        /\ Len(mempool') = Len(mempool) - 1
        /\ \A i \in 1..Len(mempool') : mempool'[i] = mempool[i + 1]
    BY <1>1, QueueShape, HeadTailProperties DEF QueueInv, QueueType
  <1>3. QueueType'
    BY <1>1, <1>2 DEF QueueInv, QueueType
  <1>4. HeadRuns'
    BY <1>1 DEF QueueInv, HeadRuns, Running
  <1>5. LastIsOfTheHead'
    <2> SUFFICES ASSUME NEW i \in 1..Len(mempool'), call'[mempool'[i].call].pc \notin Ended
                 PROVE  /\ i = Len(mempool')
                        /\ call'[mempool'[i].call].pc = mempool'[i].what
                        /\ call'[mempool'[i].call].receipt = "none"
      BY DEF LastIsOfTheHead
    <2>1. PICK d : d = mempool[i + 1].call
      OBVIOUS
    <2>2. i \in Nat /\ i + 1 \in 1..Len(mempool) /\ 1 \in 1..Len(mempool)
      BY <1>2
    <2>3. mempool'[i].call = d /\ mempool'[i].what = mempool[i + 1].what /\ d \in Calls
      BY <1>2, <2>1, <2>2
    <2>4. call[d].pc \notin Ended
      BY <1>1, <2>3
    <2>5. /\ i + 1 = Len(mempool)
          /\ call[d].pc = mempool[i + 1].what
          /\ call[d].receipt = "none"
      BY <2>1, <2>2, <2>4 DEF QueueInv, LastIsOfTheHead
    <2>6. call[c].pc \in Ended
      BY <1>0, <1>2, <2>2, <2>5 DEF QueueInv, LastIsOfTheHead
    <2>7. call'[d].receipt = call[d].receipt
      BY <1>1, <2>3, <2>6
    <2>8. i = Len(mempool')
      BY <1>2, <2>2, <2>5
    <2>9. call'[d].pc = mempool'[i].what /\ call'[d].receipt = "none"
      BY <1>1, <2>3, <2>5, <2>7
    <2> QED
      BY <2>3, <2>8, <2>9
  <1>6. ApprovalStands'
    <2> SUFFICES ASSUME NEW d \in Calls, call'[d].pc = "approving",
                        call'[d].receipt = "success"
                 PROVE  mempool' = <<>> /\ allowance' = call'[d].approve
      BY DEF ApprovalStands
    <2>1. d = c /\ call[d].pc \notin Ended
      BY <1>1 DEF QueueInv, ApprovalStands, Ended
    <2>2. Len(mempool) = 1 /\ mempool[1].what = "approving"
      <3>1. 1 \in 1..Len(mempool) /\ call[mempool[1].call].pc \notin Ended
        BY <1>0, <1>2, <2>1
      <3>2. 1 = Len(mempool) /\ call[mempool[1].call].pc = mempool[1].what
        BY <3>1 DEF QueueInv, LastIsOfTheHead
      <3> QED
        BY <1>0, <1>1, <2>1, <3>2
    <2>3. mempool' = <<>>
      BY <1>2, <2>2, EmptySeq
    <2> QED
      BY <1>1, <2>1, <2>2, <2>3
  <1>7. PullIsNext'
    <2> SUFFICES ASSUME NEW i \in 1..Len(mempool'), mempool'[i].what = "confirming",
                        call'[mempool'[i].call].approve > 0
                 PROVE  FALSE
      BY DEF PullIsNext, Approves
    <2>1. /\ i + 1 \in 1..Len(mempool) /\ mempool[i + 1].call \in Calls
          /\ mempool[i + 1].what = "confirming"
          /\ mempool'[i].call = mempool[i + 1].call
      BY <1>2
    <2>2. Approves(mempool[i + 1].call)
      BY <1>1, <2>1 DEF Approves
    <2>3. i + 1 = 1
      BY <2>1, <2>2 DEF QueueInv, PullIsNext
    <2> QED
      BY <1>2, <2>3
  <1> QED
    BY <1>3, <1>4, <1>5, <1>6, <1>7 DEF QueueInv

\* QueueInv is inductive.
LEMMA QueueNextInv == QueueInv /\ [QueueNext]_queueVars => QueueInv'
  <1> SUFFICES ASSUME QueueInv, [QueueNext]_queueVars PROVE QueueInv'
    OBVIOUS
  <1>1. ASSUME NEW c \in Calls, GameCalls(c) PROVE QueueInv'
    <2>1. CASE OpenSession(c)
      <3>1. PICK wager \in Wagers :
                Enqueue(c, [NoCall EXCEPT !.kind = "open", !.approve = wager])
        BY <2>1 DEF OpenSession
      <3>2. /\ DOMAIN [NoCall EXCEPT !.kind = "open", !.approve = wager] = DOMAIN NoCall
            /\ [NoCall EXCEPT !.kind = "open", !.approve = wager].approve = wager
            /\ wager \in Nat
        BY QueueAssumption DEF NoCall
      <3> QED
        BY <3>1, <3>2, EnqueueKeepsInv
    <2>2. CASE SubmitAction(c)
      <3>1. PICK id \in Ids, extra \in Wagers \cup {0} :
                Enqueue(c, [NoCall EXCEPT !.kind = "act", !.id = id, !.approve = extra,
                                          !.step = LatestEncodedSession(id)])
        BY <2>2 DEF SubmitAction
      <3> DEFINE request == [NoCall EXCEPT !.kind = "act", !.id = id, !.approve = extra,
                                           !.step = LatestEncodedSession(id)]
      <3>2. DOMAIN request = DOMAIN NoCall /\ request.approve = extra /\ extra \in Nat
        BY QueueAssumption DEF NoCall
      <3> HIDE DEF request
      <3>3. Enqueue(c, request)
        BY <3>1 DEF request
      <3> QED
        BY <3>2, <3>3, EnqueueKeepsInv
    <2>3. CASE CancelStuckRandomness(c)
      <3>1. PICK id \in Ids :
                Enqueue(c, [NoCall EXCEPT !.kind = "cancel", !.id = id,
                                          !.step = LatestEncodedSession(id)])
        BY <2>3 DEF CancelStuckRandomness
      <3> DEFINE request == [NoCall EXCEPT !.kind = "cancel", !.id = id,
                                           !.step = LatestEncodedSession(id)]
      <3>2. DOMAIN request = DOMAIN NoCall /\ request.approve = 0
        BY DEF NoCall
      <3> HIDE DEF request
      <3>3. Enqueue(c, request)
        BY <3>1 DEF request
      <3> QED
        BY <3>2, <3>3, EnqueueKeepsInv
    <2> QED
      BY <1>1, <2>1, <2>2, <2>3 DEF GameCalls
  <1>2. ASSUME NEW c \in Calls, JobStep(c) PROVE QueueInv'
    <2>1. CASE SendTransaction(c)
      BY <2>1, SendKeepsInv
    <2>2. CASE ReadsRevert(c)
      <3>1. Running(c) /\ "failed" \in Ended
        BY <2>2 DEF ReadsRevert, Running, Ended
      <3> QED
        BY <2>2, <3>1, JobOver DEF ReadsRevert, JobFails
    <2>3. CASE JobReturns(c)
      <3>1. Running(c) /\ "returned" \in Ended
        BY <2>3 DEF JobReturns, Running, Ended
      <3> QED
        BY <2>3, <3>1, JobOver DEF JobReturns
    <2> QED
      BY <1>2, <2>1, <2>2, <2>3 DEF JobStep
  <1>3. ASSUME NEW c \in Calls, NodeFails(c) PROVE QueueInv'
    <2>1. CASE SendFails(c)
      <3>1. AtSend(c) /\ "failed" \in Ended
        BY <2>1 DEF SendFails, Ended
      <3> QED
        BY <2>1, <3>1, JobOver DEF SendFails, JobFails
    <2>2. CASE WaitTimesOut(c)
      <3>1. Running(c) /\ "failed" \in Ended
        BY <2>2 DEF WaitTimesOut, Running, Ended
      <3> QED
        BY <2>2, <3>1, JobOver DEF WaitTimesOut, JobFails
    <2> QED
      BY <1>3, <2>1, <2>2 DEF NodeFails
  <1>4. CASE Execute
    BY <1>4, ExecuteKeepsInv
  <1>5. CASE FulfillRandomness \/ Publish \/ Prune \/ UNCHANGED queueVars
    <2>1. UNCHANGED <<call, sendQueue, mempool, allowance>>
      BY <1>5 DEF FulfillRandomness, Publish, Prune, queueVars
    <2> QED
      BY <2>1 DEF QueueInv, QueueType, HeadRuns, LastIsOfTheHead, ApprovalStands,
                  PullIsNext, Running, Approves
  <1> QED
    BY <1>1, <1>2, <1>3, <1>4, <1>5 DEF QueueNext

\* A bet, or an action with extra stake, is executed against its own approval,
\* and nothing is executed between the two.  Code: sendActions (runtime.ts) and
\* the approvals of openSession and submitAction (use-game-host.ts).
THEOREM EachCallSpendsItsOwn == QueueSpec => []OwnAllowance
  <1>1. QueueInv => OwnAllowance
    BY DEF QueueInv, QueueType, PullIsNext, OwnAllowance
  <1> QED
    BY <1>1, QueueInitInv, QueueNextInv, PTL DEF QueueSpec

-----------------------------------------------------------------------------
(***************************************************************************)
(* What the page knows of its own writes                                   *)
(*                                                                         *)
(* The map of the page holds one entry per session and the latest 64 of    *)
(* them.  An entry is dropped only when the sessions are more than that:   *)
(* the others have an entry each, of different sessions, so that a full    *)
(* map without the new session would be one session too many.              *)
(***************************************************************************)
EntriesIn(q, id) == {i \in DOMAIN q : q[i].id = id}
StepIn(q, id) == IF EntriesIn(q, id) = {} THEN 0
                 ELSE q[CHOOSE i \in EntriesIn(q, id) : TRUE].step

Entry(n) == [id : 1..n, step : Nat]
Distinct(q) == \A i, j \in 1..Len(q) : q[i].id = q[j].id => i = j

\* The step of a session is that of its entry, and none without an entry.
LEMMA StepOfEntry ==
    ASSUME NEW q, NEW n \in Nat, q \in Seq(Entry(n)), Distinct(q)
    PROVE  /\ \A i \in 1..Len(q) : StepIn(q, q[i].id) = q[i].step
           /\ \A id : (\A i \in 1..Len(q) : q[i].id # id) => StepIn(q, id) = 0
           /\ \A id : StepIn(q, id) \in Nat
  <1>1. DOMAIN q = 1..Len(q)
    OBVIOUS
  <1>2. \A i \in 1..Len(q) : q[i] \in Entry(n)
    <2> HIDE DEF Entry
    <2> QED BY ElementOfSeq
  <1>3. ASSUME NEW i \in 1..Len(q) PROVE StepIn(q, q[i].id) = q[i].step
    <2> DEFINE k == CHOOSE k \in EntriesIn(q, q[i].id) : TRUE
    <2>1. i \in EntriesIn(q, q[i].id)
      BY <1>1 DEF EntriesIn
    <2>2. k \in EntriesIn(q, q[i].id)
      BY <2>1
    <2>3. k = i
      BY <1>1, <2>2 DEF EntriesIn, Distinct
    <2> QED
      BY <2>1, <2>3 DEF StepIn
  <1>4. ASSUME NEW id, \A i \in 1..Len(q) : q[i].id # id
        PROVE  StepIn(q, id) = 0
    BY <1>1, <1>4 DEF StepIn, EntriesIn
  <1>5. ASSUME NEW id PROVE StepIn(q, id) \in Nat
    <2>1. CASE \E i \in 1..Len(q) : q[i].id = id
      BY <1>2, <1>3, <2>1 DEF Entry
    <2>2. CASE ~\E i \in 1..Len(q) : q[i].id = id
      BY <1>4, <2>2
    <2> QED
      BY <2>1, <2>2
  <1> QED
    BY <1>3, <1>4, <1>5

\* A sequence of entries of different sessions is no longer than there are
\* sessions it has entries of.
LEMMA OneEntryEach ==
    ASSUME NEW q, NEW n \in Nat, q \in Seq(Entry(n)), Distinct(q), NEW id \in 1..n,
           \A i \in 1..Len(q) : q[i].id # id
    PROVE  Len(q) < n
  <1> DEFINE f == [i \in 1..Len(q) |-> q[i].id]
             T == (1..n) \ {id}
  <1>0. Len(q) \in Nat
    OBVIOUS
  <1>1. \A i \in 1..Len(q) : q[i].id \in T
    <2>1. \A i \in 1..Len(q) : q[i] \in Entry(n)
      <3> HIDE DEF Entry
      <3> QED BY ElementOfSeq
    <2> QED
      BY <2>1 DEF Entry
  <1>2. f \in Injection(1..Len(q), T)
    BY <1>1 DEF Injection, Distinct, IsInjective
  <1>3. IsFiniteSet(1..n) /\ Cardinality(1..n) = n
    BY FS_Interval
  <1>4. IsFiniteSet(T) /\ Cardinality(T) = n - 1
    BY <1>3, FS_RemoveElement
  <1>5. IsFiniteSet(1..Len(q)) /\ Cardinality(1..Len(q)) = Len(q)
    <2>1. ASSUME NEW m \in Nat
          PROVE  IsFiniteSet(1..m) /\ Cardinality(1..m) = m
      <3>1. /\ IsFiniteSet(1..m)
            /\ Cardinality(1..m) = IF 1 > m THEN 0 ELSE m - 1 + 1
        BY FS_Interval
      <3>2. m = IF 1 > m THEN 0 ELSE m - 1 + 1
        OBVIOUS
      <3> QED
        BY <3>1, <3>2
    <2> QED
      BY <1>0, <2>1
  <1>6. Cardinality(1..Len(q)) <= Cardinality(T)
    <2> HIDE DEF f, T
    <2> QED BY <1>2, <1>4, FS_Injection
  <1> QED
    BY <1>0, <1>4, <1>5, <1>6

\* The other entries stay when one is taken out.
LEMMA WithoutEntry ==
    ASSUME NEW q, NEW n \in Nat, q \in Seq(Entry(n)), Distinct(q), NEW k \in 1..Len(q)
    PROVE  LET r == RemoveAt(q, k)
           IN  /\ r \in Seq(Entry(n))
               /\ Distinct(r)
               /\ \A i \in 1..Len(r) : r[i].id # q[k].id
               /\ \A i \in 1..Len(r) : \E j \in 1..Len(q) : r[i] = q[j]
               /\ \A j \in 1..Len(q) \ {k} : \E i \in 1..Len(r) : r[i] = q[j]
  <1> DEFINE r == RemoveAt(q, k)
             E == Entry(n)
  <1> HIDE DEF E
  <1>0. q \in Seq(E) /\ Len(q) \in Nat
    BY DEF E
  <1>1. /\ r \in Seq(E)
        /\ Len(r) = Len(q) - 1
        /\ \A i \in 1..Len(r) : r[i] = IF i < k THEN q[i] ELSE q[i + 1]
    <2>1. /\ SubSeq(q, 1, k - 1) \in Seq(E) /\ Len(SubSeq(q, 1, k - 1)) = k - 1
          /\ \A i \in 1..(k - 1) : SubSeq(q, 1, k - 1)[i] = q[i]
      BY <1>0, SubSeqProperties
    <2>2. /\ SubSeq(q, k + 1, Len(q)) \in Seq(E) /\ Len(SubSeq(q, k + 1, Len(q))) = Len(q) - k
          /\ \A i \in 1..(Len(q) - k) : SubSeq(q, k + 1, Len(q))[i] = q[k + i]
      BY <1>0, SubSeqProperties
    <2> DEFINE a == SubSeq(q, 1, k - 1)
               b == SubSeq(q, k + 1, Len(q))
    <2>3. r = a \o b
      BY DEF RemoveAt
    <2> HIDE DEF a, b
    <2>4. /\ a \in Seq(E) /\ b \in Seq(E) /\ Len(a) = k - 1 /\ Len(b) = Len(q) - k
          /\ \A i \in 1..(k - 1) : a[i] = q[i]
          /\ \A i \in 1..(Len(q) - k) : b[i] = q[k + i]
      BY <2>1, <2>2 DEF a, b
    <2>5. /\ a \o b \in Seq(E) /\ Len(a \o b) = Len(a) + Len(b)
          /\ \A i \in 1..(Len(a) + Len(b)) :
                (a \o b)[i] = IF i <= Len(a) THEN a[i] ELSE b[i - Len(a)]
      BY <2>4, ConcatProperties
    <2>6. Len(r) = Len(q) - 1
      BY <1>0, <2>3, <2>4, <2>5
    <2>7. ASSUME NEW i \in 1..Len(r) PROVE r[i] = IF i < k THEN q[i] ELSE q[i + 1]
      <3>1. r[i] = IF i <= Len(a) THEN a[i] ELSE b[i - Len(a)]
        BY <1>0, <2>3, <2>4, <2>5, <2>6
      <3>2. CASE i < k
        BY <1>0, <2>4, <3>1, <3>2
      <3>3. CASE ~(i < k)
        <4>1. i - Len(a) \in 1..(Len(q) - k) /\ k + (i - Len(a)) = i + 1
          BY <1>0, <2>4, <2>6, <3>3
        <4> QED
          BY <1>0, <2>4, <3>1, <3>3, <4>1
      <3> QED
        BY <3>2, <3>3
    <2> QED
      BY <2>3, <2>5, <2>6, <2>7
  <1> HIDE DEF r
  <1>2. \A i \in 1..Len(r) : \E j \in 1..Len(q) \ {k} : r[i] = q[j] /\ j = IF i < k THEN i ELSE i + 1
    BY <1>0, <1>1
  <1>3. \A j \in 1..Len(q) \ {k} : \E i \in 1..Len(r) : r[i] = q[j]
    <2> TAKE j \in 1..Len(q) \ {k}
    <2>1. CASE j < k
      <3>1. j \in 1..Len(r) /\ r[j] = q[j]
        BY <1>0, <1>1, <2>1
      <3> QED
        BY <3>1
    <2>2. CASE ~(j < k)
      <3>1. j - 1 \in 1..Len(r) /\ r[j - 1] = q[j]
        BY <1>0, <1>1, <2>2
      <3> QED
        BY <3>1
    <2> QED
      BY <2>1, <2>2
  <1>4. Distinct(r)
    BY <1>0, <1>1, <1>2 DEF Distinct
  <1>5. \A i \in 1..Len(r) : r[i].id # q[k].id
    BY <1>2 DEF Distinct
  <1> QED
    BY <1>1, <1>2, <1>3, <1>4, <1>5 DEF r, E

\* Remembering a step forgets none of another session, unless there are more
\* of them than are kept.
LEMMA RememberKeeps ==
    ASSUME NEW n \in Nat, snapshots \in Seq(Entry(n)), Distinct(snapshots),
           NEW id \in 1..n, NEW step \in Nat
    PROVE  LET r == RememberSnapshot(id, step)
           IN  /\ r \in Seq(Entry(n)) /\ Distinct(r)
               /\ StepIn(r, id) >= step
               /\ n <= Remembered => \A other : StepIn(r, other) >= StepIn(snapshots, other)
  <1> DEFINE k == EntryOf(id)
             q == snapshots
             others == IF Entries(id) = {} THEN q ELSE RemoveAt(q, k)
             kept == IF Len(others) >= Remembered THEN Tail(others) ELSE others
             e == [id |-> id, step |-> step]
             r == Append(kept, e)
             E == Entry(n)
  <1>0. /\ ReceiptStep(id) = StepIn(q, id)
        /\ Entries(id) = EntriesIn(q, id)
    BY DEF ReceiptStep, StepIn, EntriesIn, Entries, EntryOf
  <1>1. \A other : StepIn(q, other) \in Nat
    BY StepOfEntry
  <1>2. CASE ReceiptStep(id) >= step
    BY <1>0, <1>1, <1>2 DEF RememberSnapshot
  <1>3. CASE ~(ReceiptStep(id) >= step)
    <2>1. RememberSnapshot(id, step) = r
      BY <1>3 DEF RememberSnapshot
    <2> HIDE DEF E
    <2>2. /\ others \in Seq(E) /\ Distinct(others)
          /\ \A i \in 1..Len(others) : others[i].id # id
          /\ \A j \in 1..Len(q) : q[j].id # id => \E i \in 1..Len(others) : others[i] = q[j]
      <3>1. CASE Entries(id) = {}
        BY <1>0, <3>1 DEF EntriesIn, E
      <3>2. CASE Entries(id) # {}
        <4>1. k \in 1..Len(q) /\ q[k].id = id
          BY <1>0, <3>2 DEF EntryOf, EntriesIn
        <4> HIDE DEF k
        <4>2. LET s == RemoveAt(q, k)
              IN  /\ s \in Seq(Entry(n))
                  /\ Distinct(s)
                  /\ \A i \in 1..Len(s) : s[i].id # q[k].id
                  /\ \A i \in 1..Len(s) : \E j \in 1..Len(q) : s[i] = q[j]
                  /\ \A j \in 1..Len(q) \ {k} : \E i \in 1..Len(s) : s[i] = q[j]
          BY <4>1, WithoutEntry
        <4>3. others = RemoveAt(q, k)
          BY <3>2
        <4> HIDE DEF others
        <4> QED
          BY <4>1, <4>2, <4>3 DEF E
      <3> QED
        BY <3>1, <3>2
    <2> HIDE DEF others
    <2>3. n <= Remembered => kept = others
      <3>1. Len(others) < n
        BY <2>2, OneEntryEach DEF E
      <3> QED
        BY <2>2, <3>1, QueueAssumption
    <2>4. /\ kept \in Seq(E) /\ Distinct(kept)
          /\ \A i \in 1..Len(kept) : kept[i].id # id
      <3>1. CASE Len(others) >= Remembered
        <4>1. others # <<>>
          BY <2>2, <3>1, QueueAssumption
        <4>2. /\ kept \in Seq(E) /\ Len(kept) = Len(others) - 1
              /\ \A i \in 1..Len(kept) : kept[i] = others[i + 1]
          BY <2>2, <3>1, <4>1, HeadTailProperties
        <4>3. Len(others) \in Nat /\ \A i \in 1..Len(kept) : i + 1 \in 1..Len(others)
          BY <2>2, <4>2
        <4>4. Distinct(kept)
          BY <2>2, <4>2, <4>3 DEF Distinct
        <4> QED
          BY <2>2, <4>2, <4>3, <4>4
      <3>2. CASE ~(Len(others) >= Remembered)
        BY <2>2, <3>2
      <3> QED
        BY <3>1, <3>2
    <2> HIDE DEF kept
    <2>5. e \in E /\ e.id = id /\ e.step = step
      BY DEF E, Entry
    <2> HIDE DEF e
    <2>6. /\ r \in Seq(E) /\ Len(r) = Len(kept) + 1
          /\ \A i \in 1..Len(kept) : r[i] = kept[i]
          /\ r[Len(kept) + 1] = e
      BY <2>4, <2>5, AppendProperties
    <2> HIDE DEF r
    <2>7. Len(kept) \in Nat
      BY <2>4
    <2>8. Distinct(r)
      BY <2>4, <2>5, <2>6, <2>7 DEF Distinct
    <2>9. StepIn(r, id) = step
      <3>1. \A i \in 1..Len(r) : StepIn(r, r[i].id) = r[i].step
        BY <2>6, <2>8, StepOfEntry DEF E
      <3> QED
        BY <2>5, <2>6, <2>7, <3>1
    <2>10. ASSUME n <= Remembered, NEW other PROVE StepIn(r, other) >= StepIn(q, other)
      <3>1. CASE other = id
        BY <1>0, <1>1, <1>3, <2>9, <3>1
      <3>2. CASE other # id /\ \E j \in 1..Len(q) : q[j].id = other
        <4>1. PICK j \in 1..Len(q) : q[j].id = other
          BY <3>2
        <4>2. PICK i \in 1..Len(others) : others[i] = q[j]
          BY <2>2, <3>2, <4>1
        <4>3. i \in 1..Len(r) /\ r[i] = q[j]
          BY <2>3, <2>6, <2>7, <2>10, <4>2
        <4>4. StepIn(r, r[i].id) = r[i].step
          BY <2>6, <2>8, <4>3, StepOfEntry DEF E
        <4>5. StepIn(q, q[j].id) = q[j].step
          BY StepOfEntry
        <4> QED
          BY <1>1, <4>1, <4>3, <4>4, <4>5
      <3>3. CASE other # id /\ ~\E j \in 1..Len(q) : q[j].id = other
        <4>1. StepIn(q, other) = 0
          BY <3>3, StepOfEntry
        <4>2. StepIn(r, other) \in Nat
          BY <2>6, <2>8, StepOfEntry DEF E
        <4> QED
          BY <4>1, <4>2
      <3> QED
        BY <3>1, <3>2, <3>3
    <2> QED
      BY <2>1, <2>6, <2>8, <2>9, <2>10 DEF E
  <1> QED
    BY <1>2, <1>3

-----------------------------------------------------------------------------
\* What the page knows is of sessions of the chain.
ChainTypes ==
    /\ sessions \in Seq([step : Nat, turn : {"randomness", "player", "over"}])
    /\ Len(sessions) <= MaxSessions
    /\ snapshots \in Seq(Entry(Len(sessions))) /\ Distinct(snapshots)
    /\ published \in [Sources -> [Ids -> Nat]]
    /\ \A s \in Sources, id \in Ids : published[s][id] > 0 => id \in 1..Len(sessions)

HasReceipt(c) ==
    /\ call[c].kind # "cancel"
    /\ \/ call[c].pc = "returned"
       \/ call[c].pc = "confirming" /\ call[c].receipt = "success"

CallKnown(c) ==
    /\ call[c].id \in Nat /\ call[c].step \in Nat
    /\ call[c].kind = "act" \/ HasReceipt(c) => call[c].id \in 1..Len(sessions)

\* A call that returned has no transaction left.
ReturnedIsDone == \A i \in 1..Len(mempool) : call[mempool[i].call].pc # "returned"

ReceiptsKept ==
    \A c \in Calls :
        /\ call[c].pc = "returned"
        /\ call[c].kind # "cancel"
        /\ Len(sessions) <= Remembered
        => StepIn(snapshots, call[c].id) >= call[c].step

WritesInv ==
    /\ ChainTypes
    /\ \A c \in Calls : CallKnown(c)
    /\ ReturnedIsDone
    /\ ReceiptsKept

\* The bytes that are echoed are the newest the page knows of a session.
LEMMA LatestKnown ==
    ASSUME ChainTypes, NEW id \in Nat
    PROVE  /\ id \in Ids => LatestEncodedSession(id) \in Nat
           /\ id \in Ids => LatestEncodedSession(id) >= StepIn(snapshots, id)
           /\ id \in Ids /\ LatestEncodedSession(id) > 0 => id \in 1..Len(sessions)
  <1> SUFFICES ASSUME id \in Ids
               PROVE  /\ LatestEncodedSession(id) \in Nat
                      /\ LatestEncodedSession(id) >= StepIn(snapshots, id)
                      /\ LatestEncodedSession(id) > 0 => id \in 1..Len(sessions)
    OBVIOUS
  <1> DEFINE a == ReceiptStep(id)
             b == published["patch"][id]
             c == published["row"][id]
             S == {ReceiptStep(id)} \cup {published[s][id] : s \in Sources}
  <1>1. a = StepIn(snapshots, id)
    BY DEF ReceiptStep, StepIn, EntriesIn, Entries, EntryOf
  <1>2. Len(sessions) \in Nat
    BY DEF ChainTypes
  <1>3. a \in Nat /\ (a > 0 => id \in 1..Len(sessions))
    <2>1. StepIn(snapshots, id) \in Nat
      BY <1>2, StepOfEntry DEF ChainTypes
    <2>2. ASSUME id \notin 1..Len(sessions) PROVE a = 0
      <3>1. \A i \in 1..Len(snapshots) : snapshots[i] \in Entry(Len(sessions))
        <4> HIDE DEF Entry
        <4> QED BY ElementOfSeq DEF ChainTypes
      <3>2. \A i \in 1..Len(snapshots) : snapshots[i].id # id
        BY <2>2, <3>1 DEF Entry
      <3> QED
        BY <1>1, <1>2, <3>2, StepOfEntry DEF ChainTypes
    <2> QED
      BY <1>1, <2>1, <2>2
  <1>4. /\ b \in Nat /\ (b > 0 => id \in 1..Len(sessions))
        /\ c \in Nat /\ (c > 0 => id \in 1..Len(sessions))
    BY DEF ChainTypes, Sources
  <1>5. S = {a, b, c}
    BY DEF Sources
  <1> HIDE DEF a, b, c, S
  <1>6. \E m \in S : \A y \in S : m >= y
    <2>1. CASE a >= b /\ a >= c
      BY <1>3, <1>4, <1>5, <2>1
    <2>2. CASE b >= a /\ b >= c
      BY <1>3, <1>4, <1>5, <2>2
    <2>3. CASE c >= a /\ c >= b
      BY <1>3, <1>4, <1>5, <2>3
    <2> QED
      BY <1>3, <1>4, <2>1, <2>2, <2>3
  <1>7. Max(S) \in S /\ \A y \in S : Max(S) >= y
    BY <1>6 DEF Max
  <1>8. LatestEncodedSession(id) = Max(S)
    BY DEF LatestEncodedSession, S
  <1> HIDE DEF LatestEncodedSession
  <1> QED
    BY <1>1, <1>3, <1>4, <1>5, <1>7, <1>8

\* A remembered entry stays one when there are more sessions.
LEMMA MoreSessions ==
    ASSUME NEW n \in Nat, NEW m \in Nat, n <= m, NEW q \in Seq(Entry(n))
    PROVE  q \in Seq(Entry(m))
  <1>1. \A x \in Entry(n) : x \in Entry(m)
    BY DEF Entry
  <1> QED
    BY <1>1, SeqDef

\* It holds at first.
LEMMA WritesInitInv == QueueInit => WritesInv
  <1> SUFFICES ASSUME QueueInit PROVE WritesInv
    OBVIOUS
  <1>1. ChainTypes
    BY QueueAssumption DEF QueueInit, ChainTypes, Distinct, Sources
  <1> QED
    BY <1>1 DEF QueueInit, WritesInv, CallKnown, HasReceipt, ReturnedIsDone, ReceiptsKept, NoCall

\* A call is made with what the page knows then.
LEMMA EnqueueKeepsWrites ==
    ASSUME QueueInv, WritesInv, NEW c \in Calls, NEW request, Enqueue(c, request),
           DOMAIN request = DOMAIN NoCall, request.receipt = "none",
           request.id \in Nat, request.step \in Nat,
           request.kind = "act" => request.id \in 1..Len(sessions)
    PROVE  WritesInv'
  <1>1. /\ call[c].pc = "unmade"
        /\ call' = [call EXCEPT ![c] = [request EXCEPT !.pc = "queued"]]
        /\ UNCHANGED <<mempool, sessions, snapshots, published>>
    BY DEF Enqueue
  <1>2. /\ \A d \in Calls : d # c => call'[d] = call[d]
        /\ call'[c].pc = "queued"
        /\ call'[c].id = request.id /\ call'[c].step = request.step
        /\ call'[c].kind = request.kind
    BY <1>1 DEF QueueInv, QueueType, NoCall
  <1>3. \A i \in 1..Len(mempool) : mempool[i].call \in Calls
    BY QueueShape DEF QueueInv
  <1>4. ChainTypes'
    BY <1>1 DEF WritesInv, ChainTypes
  <1>5. \A d \in Calls : CallKnown(d)'
    BY <1>1, <1>2 DEF WritesInv, CallKnown, HasReceipt
  <1>6. ReturnedIsDone'
    BY <1>1, <1>2, <1>3 DEF WritesInv, ReturnedIsDone
  <1>7. ReceiptsKept'
    BY <1>1, <1>2 DEF WritesInv, ReceiptsKept
  <1> QED
    BY <1>4, <1>5, <1>6, <1>7 DEF WritesInv

\* A job that sends or fails returns nothing.
LEMMA JobKeepsWrites ==
    ASSUME QueueInv, WritesInv, NEW c \in Calls, NEW pc \in {"approving", "confirming", "failed"},
           \/ call' = [call EXCEPT ![c].pc = pc]
           \/ call' = [call EXCEPT ![c].pc = pc, ![c].receipt = "none"],
           pc = "failed" \/ call' = [call EXCEPT ![c].pc = pc, ![c].receipt = "none"],
           \/ mempool' = mempool
           \/ \E what : mempool' = Append(mempool, [call |-> c, what |-> what])
                        /\ what \in {"approving", "confirming"},
           UNCHANGED <<sessions, snapshots, published>>
    PROVE  WritesInv'
  <1>1. /\ \A d \in Calls : d # c => call'[d] = call[d]
        /\ call'[c].pc = pc /\ (pc # "failed" => call'[c].receipt = "none")
        /\ call'[c].id = call[c].id /\ call'[c].step = call[c].step
        /\ call'[c].kind = call[c].kind
    BY DEF QueueInv, QueueType, NoCall
  <1>2. \A i \in 1..Len(mempool') : mempool'[i].call = c \/
            (i \in 1..Len(mempool) /\ mempool'[i] = mempool[i])
    <2> DEFINE Item == [call : Calls, what : {"approving", "confirming"}]
    <2>1. mempool \in Seq(Item)
      BY DEF QueueInv, QueueType
    <2>2. CASE mempool' = mempool
      BY <2>2
    <2>3. ASSUME NEW what \in {"approving", "confirming"},
                 mempool' = Append(mempool, [call |-> c, what |-> what])
          PROVE  \A i \in 1..Len(mempool') : mempool'[i].call = c \/
                    (i \in 1..Len(mempool) /\ mempool'[i] = mempool[i])
      <3> DEFINE item == [call |-> c, what |-> what]
      <3>1. item \in Item /\ item.call = c
        OBVIOUS
      <3> HIDE DEF Item, item
      <3>2. /\ Len(mempool') = Len(mempool) + 1
            /\ \A i \in 1..Len(mempool) : mempool'[i] = mempool[i]
            /\ mempool'[Len(mempool) + 1] = item
        BY <2>1, <2>3, <3>1, AppendProperties DEF item
      <3>3. Len(mempool) \in Nat
        BY <2>1
      <3> QED
        BY <3>1, <3>2, <3>3
    <2> QED
      BY <2>2, <2>3
  <1>3. \A i \in 1..Len(mempool) : mempool[i].call \in Calls
    BY QueueShape DEF QueueInv
  <1>4. ChainTypes'
    BY DEF WritesInv, ChainTypes
  <1>5. \A d \in Calls : CallKnown(d)'
    BY <1>1 DEF WritesInv, CallKnown, HasReceipt
  <1>6. ReturnedIsDone'
    BY <1>1, <1>2, <1>3 DEF WritesInv, ReturnedIsDone
  <1>7. ReceiptsKept'
    BY <1>1 DEF WritesInv, ReceiptsKept
  <1> QED
    BY <1>4, <1>5, <1>6, <1>7 DEF WritesInv

\* What a call returns with is remembered, and so is what others returned with.
LEMMA ReturnKeepsWrites ==
    ASSUME QueueInv, WritesInv, NEW c \in Calls, JobReturns(c)
    PROVE  WritesInv'
  <1>1. /\ call[c].pc = "confirming" /\ call[c].receipt = "success"
        /\ call' = [call EXCEPT ![c].pc = "returned"]
        /\ snapshots' = IF call[c].kind = "cancel" THEN snapshots
                        ELSE RememberSnapshot(call[c].id, call[c].step)
        /\ UNCHANGED <<mempool, published, sessions>>
    BY DEF JobReturns
  <1>2. /\ \A d \in Calls : d # c => call'[d] = call[d]
        /\ call'[c].pc = "returned"
        /\ call'[c].id = call[c].id /\ call'[c].step = call[c].step
        /\ call'[c].kind = call[c].kind
    BY <1>1 DEF QueueInv, QueueType, NoCall
  <1>3. ReturnedIsDone'
    <2>1. \A i \in 1..Len(mempool) : mempool[i].call \in Calls \ {c}
      BY <1>1, QueueShape DEF QueueInv, LastIsOfTheHead, Ended
    <2> QED
      BY <1>1, <1>2, <2>1 DEF WritesInv, ReturnedIsDone
  <1> DEFINE n == Len(sessions)
  <1>4. n \in Nat
    BY DEF WritesInv, ChainTypes
  <1>5. /\ snapshots' \in Seq(Entry(n)) /\ Distinct(snapshots')
        /\ call[c].kind # "cancel" => StepIn(snapshots', call[c].id) >= call[c].step
        /\ n <= Remembered =>
               \A other : StepIn(snapshots', other) >= StepIn(snapshots, other)
    <2>0. snapshots \in Seq(Entry(n)) /\ Distinct(snapshots)
      BY DEF WritesInv, ChainTypes
    <2>1. CASE call[c].kind = "cancel"
      <3>1. \A other : StepIn(snapshots, other) \in Nat
        BY <1>4, <2>0, StepOfEntry
      <3> QED
        BY <1>1, <2>0, <2>1, <3>1
    <2>2. CASE call[c].kind # "cancel"
      <3>1. call[c].id \in 1..n /\ call[c].step \in Nat
        BY <1>1, <2>2 DEF WritesInv, CallKnown, HasReceipt
      <3>2. snapshots' = RememberSnapshot(call[c].id, call[c].step)
        BY <1>1, <2>2
      <3> DEFINE id == call[c].id
                 step == call[c].step
      <3> HIDE DEF id, step, n
      <3>3. id \in 1..n /\ step \in Nat /\ snapshots' = RememberSnapshot(id, step)
        BY <3>1, <3>2 DEF id, step
      <3>4. LET r == RememberSnapshot(id, step)
            IN  /\ r \in Seq(Entry(n)) /\ Distinct(r)
                /\ StepIn(r, id) >= step
                /\ n <= Remembered => \A other : StepIn(r, other) >= StepIn(snapshots, other)
        BY <1>4, <2>0, <3>3, RememberKeeps
      <3> QED
        BY <3>3, <3>4 DEF id, step
    <2> QED
      BY <2>1, <2>2
  <1>6. ChainTypes'
    BY <1>1, <1>5 DEF WritesInv, ChainTypes
  <1>7. \A d \in Calls : CallKnown(d)'
    BY <1>1, <1>2 DEF WritesInv, CallKnown, HasReceipt
  <1>8. ReceiptsKept'
    <2> SUFFICES ASSUME NEW d \in Calls, call'[d].pc = "returned", call'[d].kind # "cancel",
                        n <= Remembered
                 PROVE  StepIn(snapshots', call'[d].id) >= call'[d].step
      BY <1>1 DEF ReceiptsKept
    <2>1. CASE d = c
      BY <1>2, <1>5, <2>1
    <2>2. CASE d # c
      <3>1. StepIn(snapshots, call[d].id) >= call[d].step
        BY <1>2, <2>2 DEF WritesInv, ReceiptsKept
      <3>2. StepIn(snapshots', call[d].id) >= StepIn(snapshots, call[d].id)
        BY <1>5
      <3>3. /\ StepIn(snapshots, call[d].id) \in Nat /\ StepIn(snapshots', call[d].id) \in Nat
            /\ call[d].step \in Nat
        BY <1>4, <1>5, StepOfEntry DEF WritesInv, ChainTypes, CallKnown
      <3> QED
        BY <1>2, <2>2, <3>1, <3>2, <3>3
    <2> QED
      BY <2>1, <2>2
  <1> QED
    BY <1>3, <1>6, <1>7, <1>8 DEF WritesInv

\* A block gives a call a receipt, and one that names a session names one of
\* the chain.
LEMMA ExecuteWrites ==
    ASSUME QueueInv, WritesInv, Execute
    PROVE  LET c == mempool[1].call
           IN  /\ sessions' \in Seq([step : Nat, turn : {"randomness", "player", "over"}])
               /\ Len(sessions) <= Len(sessions') /\ Len(sessions') <= MaxSessions
               /\ \A d \in Calls : d # c => call'[d] = call[d]
               /\ call'[c].pc = call[c].pc /\ call'[c].kind = call[c].kind
               /\ \/ call'[c].id = call[c].id /\ call'[c].step = call[c].step
                     /\ (call'[c].receipt = "success" =>
                             \/ call[c].receipt = "success"
                             \/ call[c].pc = "approving"
                             \/ call[c].kind = "cancel")
                  \/ call'[c].id \in 1..Len(sessions') /\ call'[c].step \in Nat
  <1> DEFINE c == mempool[1].call
             Session == [step : Nat, turn : {"randomness", "player", "over"}]
             Same == UNCHANGED sessions
             New(id, step) == /\ id \in 1..Len(sessions') /\ step \in Nat
                              /\ sessions' \in Seq(Session)
                              /\ Len(sessions) <= Len(sessions') /\ Len(sessions') <= MaxSessions
  <1>1. c \in Calls /\ mempool # <<>> /\ 1 \in 1..Len(mempool)
        /\ mempool[1].what \in {"approving", "confirming"}
    BY QueueShape DEF QueueInv, Execute
  <1>2. /\ sessions \in Seq(Session) /\ Len(sessions) \in Nat
        /\ Len(sessions) <= MaxSessions /\ MaxSessions \in Nat
        /\ \A id \in 1..Len(sessions) : sessions[id].step \in Nat
    <2>1. sessions \in Seq(Session)
      BY DEF WritesInv, ChainTypes
    <2>2. \A id \in 1..Len(sessions) : sessions[id] \in Session
      <3> HIDE DEF Session
      <3> QED BY <2>1, ElementOfSeq
    <2> QED
      BY <2>1, <2>2, QueueAssumption DEF WritesInv, ChainTypes
  <1>3. \A d \in Calls : DOMAIN call[d] = DOMAIN NoCall
        /\ DOMAIN call = Calls
    BY DEF QueueInv, QueueType
  <1>4. call[c].pc \in Ended \/ call[c].pc = mempool[1].what
    BY <1>1 DEF QueueInv, LastIsOfTheHead
  <1>5. \/ /\ Same
           /\ \E receipt \in {"success", "reverted"} :
                 /\ call' = Executed(c, receipt)
                 /\ receipt = "success" => mempool[1].what = "approving" \/ call[c].kind = "cancel"
        \/ \E id, step : New(id, step) /\ Commits(c, id, step)
        \/ Len(sessions') = Len(sessions) /\ sessions' \in Seq(Session)
           /\ call' = Executed(c, "success") /\ call[c].kind = "cancel"
    <2>1. CASE mempool[1].what = "approving"
      BY <2>1 DEF Execute, ExecuteApprove
    <2>2. CASE ExecuteRevert(c)
      BY <2>2 DEF ExecuteRevert
    <2>3. CASE ExecuteOpen(c)
      <3> DEFINE e == [step |-> 1, turn |-> "randomness"]
      <3>1. sessions' = Append(sessions, e) /\ Commits(c, Len(sessions'), 1) /\ e \in Session
            /\ Len(sessions) < MaxSessions
        BY <2>3 DEF ExecuteOpen
      <3> HIDE DEF e, Session
      <3>2. sessions' \in Seq(Session) /\ Len(sessions') = Len(sessions) + 1
        <4>1. sessions \in Seq(Session) /\ e \in Session /\ sessions' = Append(sessions, e)
          BY <1>2, <3>1
        <4> QED
          BY <4>1, AppendProperties
      <3>3. New(Len(sessions'), 1)
        BY <1>2, <3>1, <3>2
      <3> QED
        BY <3>1, <3>3
    <2>4. CASE ExecuteAction(c)
      <3> DEFINE id == call[c].id
      <3>1. call[c].kind = "act"
        BY <2>4 DEF ExecuteAction
      <3>2. id \in 1..Len(sessions)
        BY <1>1, <3>1 DEF WritesInv, CallKnown
      <3>3. PICK turn \in {"randomness", "player", "over"} :
                /\ sessions' = [sessions EXCEPT ![id] = [step |-> @.step + 1, turn |-> turn]]
                /\ Commits(c, id, sessions'[id].step)
        BY <2>4 DEF ExecuteAction
      <3> HIDE DEF id
      <3> DEFINE e == [step |-> sessions[id].step + 1, turn |-> turn]
      <3>4. e \in Session /\ sessions' = [sessions EXCEPT ![id] = e] /\ e.step \in Nat
        BY <1>2, <3>2, <3>3
      <3> HIDE DEF e, Session
      <3>5. sessions' \in Seq(Session) /\ Len(sessions') = Len(sessions) /\ sessions'[id] = e
        BY <1>2, <3>2, <3>4
      <3>6. New(id, sessions'[id].step)
        BY <1>2, <3>2, <3>4, <3>5
      <3> QED
        BY <3>3, <3>6
    <2>5. CASE ExecuteCancel(c)
      <3> DEFINE id == call[c].id
      <3>1. /\ call[c].kind = "cancel" /\ call' = Executed(c, "success")
            /\ sessions' = [sessions EXCEPT ![id].turn = "over"]
        BY <2>5 DEF ExecuteCancel
      <3> HIDE DEF id
      <3>2. CASE id \in 1..Len(sessions)
        <4> DEFINE e == [sessions[id] EXCEPT !.turn = "over"]
        <4>1. sessions[id] \in Session
          <5> HIDE DEF Session
          <5> QED BY <1>2, <3>2, ElementOfSeq
        <4>2. e \in Session /\ sessions' = [sessions EXCEPT ![id] = e]
          BY <3>1, <4>1
        <4> HIDE DEF e, Session
        <4>3. sessions' \in Seq(Session) /\ Len(sessions') = Len(sessions)
          BY <1>2, <3>2, <4>2
        <4> QED
          BY <3>1, <4>3
      <3>3. CASE id \notin 1..Len(sessions)
        <4>1. sessions' = sessions
          <5> HIDE DEF Session
          <5> QED BY <1>2, <3>1, <3>3
        <4> QED
          BY <1>2, <3>1, <4>1
      <3> QED
        BY <3>2, <3>3
    <2> QED
      BY <1>1, <2>1, <2>2, <2>3, <2>4, <2>5 DEF Execute
  <1>6. ASSUME NEW receipt \in {"success", "reverted"}
        PROVE  LET e == Executed(c, receipt)
               IN  /\ DOMAIN e = Calls
                   /\ \A d \in Calls : d # c => e[d] = call[d]
                   /\ DOMAIN e[c] = DOMAIN NoCall
                   /\ e[c].pc = call[c].pc /\ e[c].kind = call[c].kind
                   /\ e[c].id = call[c].id /\ e[c].step = call[c].step
                   /\ e[c].receipt \in {call[c].receipt, receipt}
    BY <1>1, <1>3 DEF Executed, NoCall
  <1> HIDE DEF c
  <1>7. CASE /\ Same
             /\ \E receipt \in {"success", "reverted"} :
                 /\ call' = Executed(c, receipt)
                 /\ receipt = "success" => mempool[1].what = "approving" \/ call[c].kind = "cancel"
    <2>1. PICK receipt \in {"success", "reverted"} :
                 /\ call' = Executed(c, receipt)
                 /\ receipt = "success" => mempool[1].what = "approving" \/ call[c].kind = "cancel"
      BY <1>7
    <2> DEFINE e == Executed(c, receipt)
    <2>2. call[c].pc \in Ended => e[c] = call[c]
      BY <1>1, <1>3 DEF Executed
    <2>3. /\ \A d \in Calls : d # c => e[d] = call[d]
          /\ e[c].pc = call[c].pc /\ e[c].kind = call[c].kind
          /\ e[c].id = call[c].id /\ e[c].step = call[c].step
          /\ e[c].receipt \in {call[c].receipt, receipt}
      BY <1>6
    <2>4. call' = e
      BY <2>1
    <2> HIDE DEF e
    <2>5. call'[c].receipt = "success" =>
             \/ call[c].receipt = "success"
             \/ call[c].pc = "approving"
             \/ call[c].kind = "cancel"
      BY <1>4, <2>1, <2>2, <2>3, <2>4
    <2>6. /\ sessions' \in Seq(Session)
          /\ Len(sessions) <= Len(sessions') /\ Len(sessions') <= MaxSessions
      <3> HIDE DEF Session
      <3>1. sessions' = sessions
        BY <1>7
      <3> QED
        BY <1>2, <3>1
    <2> QED
      BY <2>3, <2>4, <2>5, <2>6 DEF c
  <1>8. CASE \E id, step : New(id, step) /\ Commits(c, id, step)
    <2>1. PICK id, step : New(id, step) /\ Commits(c, id, step)
      BY <1>8
    <2> DEFINE e == Executed(c, "success")
    <2>2. call' = [e EXCEPT ![c].id = id, ![c].step = step]
      BY <2>1 DEF Commits
    <2>3. /\ DOMAIN e = Calls
          /\ \A d \in Calls : d # c => e[d] = call[d]
          /\ DOMAIN e[c] = DOMAIN NoCall
          /\ e[c].pc = call[c].pc /\ e[c].kind = call[c].kind
      BY <1>6
    <2> HIDE DEF e
    <2>4. /\ \A d \in Calls : d # c => call'[d] = call[d]
          /\ call'[c].pc = call[c].pc /\ call'[c].kind = call[c].kind
          /\ call'[c].id = id /\ call'[c].step = step
      BY <1>1, <2>2, <2>3 DEF NoCall, c
    <2> QED
      BY <2>1, <2>4 DEF c
  <1>9. CASE Len(sessions') = Len(sessions) /\ sessions' \in Seq(Session)
           /\ call' = Executed(c, "success") /\ call[c].kind = "cancel"
    <2> DEFINE e == Executed(c, "success")
    <2>1. /\ \A d \in Calls : d # c => e[d] = call[d]
          /\ e[c].pc = call[c].pc /\ e[c].kind = call[c].kind
          /\ e[c].id = call[c].id /\ e[c].step = call[c].step
      BY <1>6
    <2>2. call' = e /\ call[c].kind = "cancel"
      BY <1>9
    <2> HIDE DEF e
    <2>3. /\ sessions' \in Seq(Session)
          /\ Len(sessions) <= Len(sessions') /\ Len(sessions') <= MaxSessions
      <3> HIDE DEF Session
      <3> QED BY <1>2, <1>9
    <2> QED
      BY <2>1, <2>2, <2>3 DEF c
  <1> QED
    BY <1>5, <1>7, <1>8, <1>9 DEF c

\* A block keeps what is known.
LEMMA ExecuteKeepsWrites ==
    ASSUME QueueInv, WritesInv, Execute
    PROVE  WritesInv'
  <1>1. PICK c : c = mempool[1].call
    OBVIOUS
  <1>2. /\ sessions' \in Seq([step : Nat, turn : {"randomness", "player", "over"}])
        /\ Len(sessions) <= Len(sessions') /\ Len(sessions') <= MaxSessions
        /\ \A d \in Calls : d # c => call'[d] = call[d]
        /\ call'[c].pc = call[c].pc /\ call'[c].kind = call[c].kind
        /\ \/ call'[c].id = call[c].id /\ call'[c].step = call[c].step
              /\ (call'[c].receipt = "success" =>
                      \/ call[c].receipt = "success"
                      \/ call[c].pc = "approving"
                      \/ call[c].kind = "cancel")
           \/ call'[c].id \in 1..Len(sessions') /\ call'[c].step \in Nat
    BY <1>1, ExecuteWrites
  <1>3. /\ mempool # <<>> /\ c \in Calls /\ call[c].pc # "returned"
        /\ \A i \in 1..Len(mempool) : mempool[i].call \in Calls
        /\ Len(mempool) \in Nat \ {0}
        /\ Len(mempool') = Len(mempool) - 1
        /\ \A i \in 1..Len(mempool') : mempool'[i] = mempool[i + 1]
        /\ UNCHANGED <<snapshots, published>>
    <2>1. mempool # <<>> /\ mempool' = Tail(mempool) /\ UNCHANGED <<snapshots, published>>
      BY DEF Execute
    <2>2. /\ \A i \in 1..Len(mempool) : mempool[i].call \in Calls
          /\ Len(mempool) \in Nat \ {0}
      BY <2>1, QueueShape DEF QueueInv
    <2>3. /\ Len(mempool') = Len(mempool) - 1
          /\ \A i \in 1..Len(mempool') : mempool'[i] = mempool[i + 1]
      BY <2>1, <2>2, HeadTailProperties DEF QueueInv, QueueType
    <2>4. call[c].pc # "returned"
      BY <1>1, <2>2 DEF WritesInv, ReturnedIsDone
    <2> QED
      BY <1>1, <2>1, <2>2, <2>3, <2>4
  <1>4. Len(sessions) \in Nat /\ Len(sessions') \in Nat
    BY <1>2 DEF WritesInv, ChainTypes
  <1>5. ChainTypes'
    <2>1. snapshots' \in Seq(Entry(Len(sessions')))
      BY <1>2, <1>3, <1>4, MoreSessions DEF WritesInv, ChainTypes
    <2> QED
      BY SMTT(60), <1>2, <1>3, <1>4, <2>1 DEF WritesInv, ChainTypes
  <1>6. \A d \in Calls : CallKnown(d)'
    <2> SUFFICES ASSUME NEW d \in Calls PROVE CallKnown(d)'
      OBVIOUS
    <2>1. CallKnown(d) /\ CallKnown(c)
      BY <1>3 DEF WritesInv
    <2>2. \A i \in 1..Len(sessions) : i \in 1..Len(sessions')
      BY <1>2, <1>4
    <2>3. CASE d # c
      <3>1. call'[d] = call[d]
        BY <1>2, <2>3
      <3> QED
        BY <2>1, <2>2, <3>1 DEF CallKnown, HasReceipt
    <2>4. CASE d = c /\ call'[c].id = call[c].id /\ call'[c].step = call[c].step
                    /\ (call'[c].receipt = "success" =>
                            \/ call[c].receipt = "success"
                            \/ call[c].pc = "approving"
                            \/ call[c].kind = "cancel")
      <3>1. HasReceipt(c)' => HasReceipt(c)
        BY <1>2, <1>3, <2>4 DEF HasReceipt
      <3> QED
        BY <1>2, <2>1, <2>2, <2>4, <3>1 DEF CallKnown
    <2>5. CASE d = c /\ call'[c].id \in 1..Len(sessions') /\ call'[c].step \in Nat
      BY <1>4, <2>5 DEF CallKnown
    <2> QED
      BY <1>2, <2>3, <2>4, <2>5
  <1>7. ReturnedIsDone'
    <2>1. \A i \in 1..Len(mempool') : i + 1 \in 1..Len(mempool)
      BY <1>3
    <2>2. \A d \in Calls : call'[d].pc = call[d].pc
      BY <1>2
    <2> QED
      BY <1>3, <2>1, <2>2 DEF WritesInv, ReturnedIsDone
  <1>8. ReceiptsKept'
    <2>1. \A d \in Calls : call'[d].pc = "returned" => call'[d] = call[d]
      BY <1>2, <1>3
    <2>2. Len(sessions') <= Remembered => Len(sessions) <= Remembered
      BY <1>2, <1>4, QueueAssumption
    <2> QED
      BY <1>3, <2>1, <2>2 DEF WritesInv, ReceiptsKept
  <1> QED
    BY <1>5, <1>6, <1>7, <1>8 DEF WritesInv

\* So do a word and the feed.
LEMMA ChainKeepsWrites ==
    ASSUME QueueInv, WritesInv, FulfillRandomness \/ Publish \/ Prune \/ UNCHANGED queueVars
    PROVE  WritesInv'
  <1> DEFINE Session == [step : Nat, turn : {"randomness", "player", "over"}]
  <1>1. UNCHANGED <<call, mempool, snapshots>>
    BY DEF FulfillRandomness, Publish, Prune, queueVars
  <1>2. sessions \in Seq(Session) /\ Len(sessions) \in Nat
        /\ \A id \in 1..Len(sessions) : sessions[id].step \in Nat
    <2>1. sessions \in Seq(Session)
      BY DEF WritesInv, ChainTypes
    <2>2. \A id \in 1..Len(sessions) : sessions[id] \in Session
      <3> HIDE DEF Session
      <3> QED BY <2>1, ElementOfSeq
    <2> QED
      BY <2>1, <2>2
  <1>3. /\ DOMAIN sessions = 1..Len(sessions)
        /\ \A id \in 1..Len(sessions) : id \in Ids
        /\ published \in [Sources -> [Ids -> Nat]]
        /\ \A s \in Sources, id \in Ids : published[s][id] > 0 => id \in 1..Len(sessions)
    BY <1>2, QueueAssumption DEF WritesInv, ChainTypes, Ids
  <1>4. /\ sessions' \in Seq(Session) /\ Len(sessions') = Len(sessions)
        /\ published' \in [Sources -> [Ids -> Nat]]
        /\ \A s \in Sources, id \in Ids : published'[s][id] > 0 => id \in 1..Len(sessions)
    <2>1. CASE FulfillRandomness
      <3>1. PICK id \in DOMAIN sessions, turn \in {"player", "over"} :
                /\ sessions' = [sessions EXCEPT ![id] = [step |-> @.step + 1, turn |-> turn]]
                /\ UNCHANGED published
        BY <2>1 DEF FulfillRandomness
      <3> DEFINE e == [step |-> sessions[id].step + 1, turn |-> turn]
      <3>2. e \in Session /\ sessions' = [sessions EXCEPT ![id] = e] /\ id \in 1..Len(sessions)
        BY <1>2, <1>3, <3>1
      <3> HIDE DEF e, Session
      <3>3. sessions' \in Seq(Session) /\ Len(sessions') = Len(sessions)
        BY <1>2, <3>2
      <3> QED
        BY <1>3, <3>1, <3>3
    <2>2. CASE Publish
      <3>1. PICK s \in Sources, id \in DOMAIN sessions :
                /\ UNCHANGED sessions
                /\ \E step \in (published[s][id] + 1)..sessions[id].step :
                       published' = [published EXCEPT ![s][id] = step]
        BY <2>2 DEF Publish
      <3>2. id \in Ids /\ id \in 1..Len(sessions)
            /\ published[s][id] \in Nat /\ sessions[id].step \in Nat
        BY <1>2, <1>3
      <3>3. PICK step \in Nat : published' = [published EXCEPT ![s][id] = step]
        <4>1. \A step \in (published[s][id] + 1)..sessions[id].step : step \in Nat
          BY <3>2
        <4> QED
          BY <3>1, <4>1
      <3>4. step > 0 => id \in 1..Len(sessions)
        BY <3>2
      <3>5. published' \in [Sources -> [Ids -> Nat]]
        BY <1>3, <3>2, <3>3
      <3>6. \A t \in Sources, k \in Ids : published'[t][k] > 0 => k \in 1..Len(sessions)
        <4> SUFFICES ASSUME NEW t \in Sources, NEW k \in Ids, published'[t][k] > 0
                     PROVE  k \in 1..Len(sessions)
          OBVIOUS
        <4>1. CASE t = s /\ k = id
          BY <3>2, <4>1
        <4>2. CASE ~(t = s /\ k = id)
          <5>1. published'[t][k] = published[t][k]
            BY <1>3, <3>2, <3>3, <4>2
          <5> QED
            BY <1>3, <5>1
        <4> QED
          BY <4>1, <4>2
      <3>7. sessions' = sessions
        BY <3>1
      <3> QED
        BY <1>2, <3>5, <3>6, <3>7
    <2>3. CASE Prune
      <3>0. "patch" \in Sources
        BY DEF Sources
      <3>1. PICK id \in Ids : published' = [published EXCEPT !["patch"][id] = 0]
                              /\ UNCHANGED sessions
        BY <2>3 DEF Prune
      <3>2. published' \in [Sources -> [Ids -> Nat]]
        BY <1>3, <3>0, <3>1
      <3>3. \A t \in Sources, k \in Ids :
               published'[t][k] = 0 \/ published'[t][k] = published[t][k]
        BY <1>3, <3>0, <3>1
      <3>4. \A t \in Sources, k \in Ids : published'[t][k] > 0 => k \in 1..Len(sessions)
        BY <1>3, <3>3
      <3> QED
        BY <1>2, <3>1, <3>2, <3>4
    <2>4. CASE UNCHANGED queueVars
      BY <1>2, <1>3, <2>4 DEF queueVars
    <2> QED
      BY <2>1, <2>2, <2>3, <2>4
  <1>5. ChainTypes'
    BY <1>1, <1>4 DEF WritesInv, ChainTypes
  <1>6. (\A d \in Calls : CallKnown(d)') /\ ReturnedIsDone' /\ ReceiptsKept'
    BY <1>1, <1>4 DEF WritesInv, CallKnown, HasReceipt, ReturnedIsDone, ReceiptsKept
  <1> QED
    BY <1>5, <1>6 DEF WritesInv

\* WritesInv is inductive.
LEMMA WritesNextInv == QueueInv /\ WritesInv /\ [QueueNext]_queueVars => WritesInv'
  <1> SUFFICES ASSUME QueueInv, WritesInv, [QueueNext]_queueVars PROVE WritesInv'
    OBVIOUS
  <1>0. ChainTypes
    BY DEF WritesInv
  <1>1. ASSUME NEW c \in Calls, OpenSession(c) PROVE WritesInv'
    <2>1. PICK wager \in Wagers :
              Enqueue(c, [NoCall EXCEPT !.kind = "open", !.approve = wager])
      BY <1>1 DEF OpenSession
    <2> DEFINE request == [NoCall EXCEPT !.kind = "open", !.approve = wager]
    <2>2. /\ DOMAIN request = DOMAIN NoCall /\ request.receipt = "none"
          /\ request.id = 0 /\ request.step = 0 /\ request.kind = "open"
      BY DEF NoCall
    <2> HIDE DEF request
    <2>3. Enqueue(c, request)
      BY <2>1 DEF request
    <2> QED
      BY <2>2, <2>3, EnqueueKeepsWrites
  <1>2. ASSUME NEW c \in Calls, NEW request, NEW id \in Ids, Enqueue(c, request),
               LatestEncodedSession(id) > 0,
               DOMAIN request = DOMAIN NoCall, request.receipt = "none", request.id = id,
               request.step = LatestEncodedSession(id)
        PROVE  WritesInv'
    <2>1. id \in Nat /\ LatestEncodedSession(id) \in Nat /\ id \in 1..Len(sessions)
      BY <1>0, <1>2, LatestKnown DEF Ids
    <2> QED
      BY <1>2, <2>1, EnqueueKeepsWrites
  <1>3. ASSUME NEW c \in Calls, GameCalls(c) PROVE WritesInv'
    <2>1. CASE OpenSession(c)
      BY <1>1, <2>1
    <2>2. CASE SubmitAction(c)
      <3>1. PICK id \in Ids, extra \in Wagers \cup {0} :
                /\ LatestEncodedSession(id) > 0
                /\ Enqueue(c, [NoCall EXCEPT !.kind = "act", !.id = id, !.approve = extra,
                                             !.step = LatestEncodedSession(id)])
        BY <2>2 DEF SubmitAction
      <3> DEFINE step == LatestEncodedSession(id)
                 request == [NoCall EXCEPT !.kind = "act", !.id = id, !.approve = extra,
                                           !.step = step]
      <3> HIDE DEF step
      <3>2. /\ DOMAIN request = DOMAIN NoCall /\ request.receipt = "none"
            /\ request.id = id /\ request.step = step
        BY DEF NoCall
      <3>3. Enqueue(c, request)
        BY <3>1 DEF step
      <3> HIDE DEF request
      <3> QED
        BY <1>2, <3>1, <3>2, <3>3 DEF step
    <2>3. CASE CancelStuckRandomness(c)
      <3>1. PICK id \in Ids : LatestEncodedSession(id) > 0
                /\ Enqueue(c, [NoCall EXCEPT !.kind = "cancel", !.id = id,
                                             !.step = LatestEncodedSession(id)])
        BY <2>3 DEF CancelStuckRandomness
      <3> DEFINE step == LatestEncodedSession(id)
                 request == [NoCall EXCEPT !.kind = "cancel", !.id = id, !.step = step]
      <3> HIDE DEF step
      <3>2. /\ DOMAIN request = DOMAIN NoCall /\ request.receipt = "none"
            /\ request.id = id /\ request.step = step
        BY DEF NoCall
      <3>3. Enqueue(c, request)
        BY <3>1 DEF step
      <3> HIDE DEF request
      <3> QED
        BY <1>2, <3>1, <3>2, <3>3 DEF step
    <2> QED
      BY <1>3, <2>1, <2>2, <2>3 DEF GameCalls
  <1>4. ASSUME NEW c \in Calls, SendTransaction(c) PROVE WritesInv'
    BY <1>4, JobKeepsWrites DEF SendTransaction, NextAction
  <1>5. ASSUME NEW c \in Calls, ReadsRevert(c) \/ NodeFails(c) PROVE WritesInv'
    <2>1. /\ call' = [call EXCEPT ![c].pc = "failed"]
          /\ UNCHANGED <<sessions, snapshots, published>>
          /\ \/ mempool' = mempool
             \/ mempool' = Append(mempool, [call |-> c, what |-> NextAction(c)])
      BY <1>5 DEF ReadsRevert, NodeFails, SendFails, WaitTimesOut, JobFails
    <2>2. NextAction(c) \in {"approving", "confirming"}
      BY DEF NextAction
    <2> QED
      BY <2>1, <2>2, JobKeepsWrites
  <1>6. ASSUME NEW c \in Calls, JobReturns(c) PROVE WritesInv'
    BY <1>6, ReturnKeepsWrites
  <1> QED
    BY <1>3, <1>4, <1>5, <1>6, ExecuteKeepsWrites, ChainKeepsWrites
       DEF QueueNext, JobStep

\* Then the next call builds on what the call before it wrote.
LEMMA WritesMean == QueueInv /\ WritesInv => ReadYourWrites
  <1> SUFFICES ASSUME QueueInv, WritesInv, NEW c \in Calls, call[c].pc = "returned",
                      call[c].kind # "cancel", Len(sessions) <= Remembered
               PROVE  LatestEncodedSession(call[c].id) >= call[c].step
    BY DEF ReadYourWrites
  <1> DEFINE id == call[c].id
  <1>1. id \in 1..Len(sessions) /\ id \in Nat /\ call[c].step \in Nat
        /\ StepIn(snapshots, id) >= call[c].step
    BY DEF WritesInv, CallKnown, HasReceipt, ReceiptsKept
  <1>2. ChainTypes /\ Len(sessions) \in Nat /\ Len(sessions) <= MaxSessions
    BY DEF WritesInv, ChainTypes
  <1>3. id \in Ids
    BY <1>1, <1>2, QueueAssumption DEF Ids
  <1>4. LatestEncodedSession(id) \in Nat /\ LatestEncodedSession(id) >= StepIn(snapshots, id)
    BY <1>1, <1>2, <1>3, LatestKnown
  <1>5. StepIn(snapshots, id) \in Nat
    BY <1>2, StepOfEntry DEF ChainTypes
  <1> QED
    BY <1>1, <1>4, <1>5

\* What a call has returned, the next call of the page builds on, however late
\* the feed is.  Code: sessionSnapshotsRef and resolveEncodedSession
\* (use-game-host.ts).
THEOREM WritesAreRead == QueueSpec => []ReadYourWrites
  <1> QED
    BY WritesMean, QueueInitInv, WritesInitInv, QueueNextInv, WritesNextInv, PTL DEF QueueSpec

-----------------------------------------------------------------------------
(***************************************************************************)
(* The page, whatever the node and the server of its file do               *)
(***************************************************************************)

\* A runtime in creation is of a generation so far, and one of this generation
\* is of the applied configuration.  OneLiveRuntime does not say so, and a
\* runtime that is created becomes live.
PageInv ==
    /\ page.generation \in Nat
    /\ DOMAIN page = {"detected", "bootId", "polls", "config", "applied", "generation",
                      "starts", "creating", "live", "shown", "error"}
    /\ \A r \in page.creating :
         /\ r.gen \in Nat /\ r.gen <= page.generation
         /\ r.gen = page.generation => r.boot = page.applied
    /\ \A r \in page.live : r.gen = page.generation /\ r.boot = page.applied
    /\ page.shown = IF page.live = {} THEN 0 ELSE page.generation

\* A configuration that is applied leaves no runtime of an earlier one live.
LEMMA AppliedKeepsInv ==
    ASSUME PageInv, NEW config, NEW p, p = Simulator!Page!Applied(config)
    PROVE  /\ p.generation \in Nat
           /\ DOMAIN p = DOMAIN page
           /\ \A r \in p.creating :
                /\ r.gen \in Nat /\ r.gen <= p.generation
                /\ r.gen = p.generation => r.boot = p.applied
           /\ p.live = {} /\ p.shown = 0
  <1>1. /\ p.generation = page.generation + 1
        /\ DOMAIN p = DOMAIN page
        /\ p.creating = page.creating \cup {[gen |-> page.generation + 1, boot |-> config]}
        /\ p.applied = config /\ p.live = {} /\ p.shown = 0
    BY DEF Simulator!Page!Applied, PageInv
  <1> QED
    BY <1>1 DEF PageInv

\* PageInv is inductive.
LEMMA PageNextInv == PageInv /\ [Simulator!Page!PageNext]_page => PageInv'
  <1> SUFFICES ASSUME PageInv, [Simulator!Page!PageNext]_page PROVE PageInv'
    OBVIOUS
  <1>1. CASE Simulator!Page!Poll
    BY <1>1 DEF Simulator!Page!Poll, PageInv
  <1>2. CASE Simulator!Page!Answer
    <2>1. PICK p, polls, detected, boot :
            /\ p = page \/ (\E config : p = Simulator!Page!Applied(config))
                 \/ (\E config : p = [page EXCEPT !.config = config])
            /\ \/ page' = [p EXCEPT !.polls = polls]
               \/ page' = [p EXCEPT !.polls = polls, !.detected = detected, !.bootId = boot]
               \/ page' = [p EXCEPT !.polls = polls, !.detected = detected]
      <3>1. PICK i \in DOMAIN page.polls :
              LET contracts == page.polls[i]
                  rest == [j \in 1..(Len(page.polls) - 1) |->
                             page.polls[IF j < i THEN j ELSE j + 1]]
                  rebooted == page.bootId # 0
                  apply == rebooted \/ page.applied = 0
                  merged == Simulator!Page!WithDetectedContracts(contracts)
                  next == IF apply THEN Simulator!Page!Applied(merged) ELSE [page EXCEPT !.config = merged]
              IN  page' = IF contracts.boot = 0
                          THEN [page EXCEPT !.polls = rest]
                          ELSE IF Simulator!Page!NewBoot(contracts)
                          THEN [next EXCEPT !.polls = rest, !.detected = contracts.games,
                                            !.bootId = contracts.boot]
                          ELSE [page EXCEPT !.polls = rest, !.detected = contracts.games]
        BY <1>2 DEF Simulator!Page!Answer
      <3> QED
        BY <3>1
    <2>2. /\ DOMAIN p = DOMAIN page /\ p.generation \in Nat
          /\ \A r \in p.creating :
               /\ r.gen \in Nat /\ r.gen <= p.generation
               /\ r.gen = p.generation => r.boot = p.applied
          /\ \A r \in p.live : r.gen = p.generation /\ r.boot = p.applied
          /\ p.shown = IF p.live = {} THEN 0 ELSE p.generation
      <3>1. CASE \E config : p = Simulator!Page!Applied(config)
        BY <3>1, AppliedKeepsInv
      <3>2. CASE p = page \/ \E config : p = [page EXCEPT !.config = config]
        BY <3>2 DEF PageInv
      <3> QED
        BY <2>1, <3>1, <3>2
    <2>3. /\ DOMAIN page' = DOMAIN p /\ page'.generation = p.generation
          /\ page'.creating = p.creating /\ page'.live = p.live
          /\ page'.applied = p.applied /\ page'.shown = p.shown
      BY <2>1, <2>2 DEF PageInv
    <2> QED
      BY <2>2, <2>3 DEF PageInv
  <1>3. CASE Simulator!Page!RuntimeCreated
    <2>1. PICK r \in page.creating :
             page' = IF r.gen = page.generation
                     THEN [page EXCEPT !.creating = @ \ {r}, !.live = @ \cup {r}, !.shown = r.gen]
                     ELSE [page EXCEPT !.creating = @ \ {r}]
      BY <1>3 DEF Simulator!Page!RuntimeCreated
    <2> QED
      BY <2>1 DEF PageInv
  <1>4. CASE Simulator!Page!CreationFails
    <2>1. PICK r \in page.creating :
             page' = [page EXCEPT !.creating = @ \ {r},
                                  !.error = @ \/ r.gen = page.generation]
      BY <1>4 DEF Simulator!Page!CreationFails
    <2> QED
      BY <2>1 DEF PageInv
  <1>5. CASE Simulator!Page!Start
    <2>1. PICK p : p = Simulator!Page!Applied(page.config)
      OBVIOUS
    <2>2. page' = [p EXCEPT !.starts = page.starts + 1]
      BY <1>5, <2>1 DEF Simulator!Page!Start
    <2> QED
      BY <2>1, <2>2, AppliedKeepsInv DEF PageInv
  <1>6. CASE UNCHANGED page
    BY <1>6 DEF PageInv
  <1> QED
    BY <1>1, <1>2, <1>3, <1>4, <1>5, <1>6 DEF Simulator!Page!PageNext

\* Never two feeds: the only runtime that is live is that of the applied
\* configuration, however often the node reboots, its file is asked for and
\* configurations overtake the creation of runtimes.
\* Code: the effect of the applied configuration (simulator App.tsx).
THEOREM PageRunsOneFeed ==
    Simulator!Page!PageInit /\ [][Simulator!Page!PageNext]_page
        => []Simulator!Page!OneLiveRuntime
  <1>1. Simulator!Page!PageInit => PageInv
    BY DEF Simulator!Page!PageInit, PageInv
  <1>2. PageInv => Simulator!Page!OneLiveRuntime
    BY DEF PageInv, Simulator!Page!OneLiveRuntime
  <1> QED
    BY <1>1, <1>2, PageNextInv, PTL

-----------------------------------------------------------------------------
(***************************************************************************)
(* The ledger                                                              *)
(*                                                                         *)
(* LedgerNodeProofs is about the ledger alone.  Its instance has the      *)
(* steps of the one MCSimulator runs, definition by definition.            *)
(***************************************************************************)
LP == INSTANCE LedgerNodeProofs WITH call <- openCall, EarlyPlay <- FALSE,
          LateActions <- FALSE, Files <- 1..2, EditsInScan <- FALSE, MaxBoots <- 1

\* The sums of the two instances are those of one library.
LEMMA SameSums ==
    ASSUME NEW f, NEW S
    PROVE  /\ Ledger!SumFunctionOnSet(f, S) = LP!SumFunctionOnSet(f, S)
           /\ Ledger!SumFunction(f) = LP!SumFunction(f)
           /\ Ledger!IsFiniteSet(S) = LP!IsFiniteSet(S)
  <1>1. Ledger!SumFunctionOnSet(f, S) = LP!SumFunctionOnSet(f, S)
    BY DEF Ledger!SumFunctionOnSet, LP!SumFunctionOnSet, Ledger!FoldFunctionOnSet,
           LP!FoldFunctionOnSet, Ledger!MapThenFoldSet, LP!MapThenFoldSet
  <1>2. Ledger!SumFunction(f) = LP!SumFunction(f)
    BY DEF Ledger!SumFunctionOnSet, LP!SumFunctionOnSet, Ledger!FoldFunctionOnSet,
           LP!FoldFunctionOnSet, Ledger!MapThenFoldSet, LP!MapThenFoldSet,
           Ledger!SumFunction, LP!SumFunction
  <1>3. Ledger!IsFiniteSet(S) = LP!IsFiniteSet(S)
    BY DEF Ledger!IsFiniteSet, LP!IsFiniteSet
  <1> QED
    BY <1>1, <1>2, <1>3

\* The ends of rounds are the same.
LEMMA SameEnds ==
    ASSUME NEW r, NEW rs, NEW keys, NEW payout, NEW refund
    PROVE  /\ Ledger!RoundsEnded(keys, payout, refund) = LP!RoundsEnded(keys, payout, refund)
           /\ Ledger!EndRounds(rs) = LP!EndRounds(rs)
           /\ Ledger!OpenFails(r) = LP!OpenFails(r)
           /\ Ledger!OpenGivesUp(r) = LP!OpenGivesUp(r)
           /\ Ledger!ActionFails(r) = LP!ActionFails(r)
           /\ Ledger!ActionGivesUp(r) = LP!ActionGivesUp(r)
           /\ Ledger!MinedActionGivesUp(r) = LP!MinedActionGivesUp(r)
           /\ Ledger!Reveal(r) = LP!Reveal(r)
           /\ Ledger!SettleTrackedRounds = LP!SettleTrackedRounds
  <1> USE DEF Ledger!chainVars, LP!chainVars, Ledger!callVars, LP!callVars,
          Ledger!actionVars, LP!actionVars, Ledger!rowVars, LP!rowVars, Ledger!holdVars, LP!holdVars, Ledger!readVars,
          LP!readVars, Ledger!trackVars, LP!trackVars, Ledger!guestVars, LP!guestVars,
          Ledger!NoBalance, LP!NoBalance
  <1>1. \A k, p, a : Ledger!RoundsEnded(k, p, a) = LP!RoundsEnded(k, p, a)
    BY DEF Ledger!RoundsEnded, LP!RoundsEnded, Ledger!Seeded, LP!Seeded
  <1>2. \A s : Ledger!EndRounds(s) = LP!EndRounds(s)
    BY <1>1, SameSums DEF Ledger!EndRounds, LP!EndRounds
  <1>3. Ledger!OpenFails(r) = LP!OpenFails(r)
    BY <1>1 DEF Ledger!OpenFails, LP!OpenFails, Ledger!NoSession, LP!NoSession,
           Ledger!Stake, LP!Stake
  <1>4. /\ Ledger!ActionFails(r) = LP!ActionFails(r)
        /\ Ledger!ActionGivesUp(r) = LP!ActionGivesUp(r)
        /\ Ledger!MinedActionGivesUp(r) = LP!MinedActionGivesUp(r)
    BY <1>1 DEF Ledger!ActionFails, LP!ActionFails, Ledger!ActionGivesUp, LP!ActionGivesUp,
           Ledger!MinedActionGivesUp, LP!MinedActionGivesUp
  <1>5. Ledger!Reveal(r) = LP!Reveal(r)
    BY <1>2 DEF Ledger!Reveal, LP!Reveal, Ledger!Shown, LP!Shown, Ledger!Rows,
           LP!Rows
  <1>6. Ledger!SettleTrackedRounds = LP!SettleTrackedRounds
    BY <1>2 DEF Ledger!SettleTrackedRounds, LP!SettleTrackedRounds, Ledger!Rows,
           LP!Rows
  <1>7. Ledger!OpenGivesUp(r) = LP!OpenGivesUp(r)
    BY <1>1 DEF Ledger!OpenGivesUp, LP!OpenGivesUp, Ledger!NoSession, LP!NoSession,
           Ledger!Stake, LP!Stake
  <1> QED
    BY <1>1, <1>2, <1>3, <1>4, <1>5, <1>6, <1>7

\* So is every other step, and so are the beginning and the assumptions.
LEMMA SameSteps ==
    /\ Ledger!Init = LP!Init
    /\ Ledger!Next = LP!Next
    /\ Ledger!vars = LP!vars
    /\ Ledger!LedgerAssumption => LP!LedgerAssumption
  <1> USE DEF Ledger!chainVars, LP!chainVars, Ledger!callVars, LP!callVars,
          Ledger!actionVars, LP!actionVars, Ledger!rowVars, LP!rowVars, Ledger!holdVars, LP!holdVars, Ledger!readVars,
          LP!readVars, Ledger!trackVars, LP!trackVars, Ledger!guestVars, LP!guestVars,
          Ledger!viewVars, LP!viewVars
  <1>1. Ledger!FireTimer = LP!FireTimer
    BY DEF Ledger!FireTimer, LP!FireTimer, Ledger!Read, LP!Read,
           Ledger!NoBalance, LP!NoBalance
  <1>2. \A x : Ledger!Answer(x) = LP!Answer(x)
    BY DEF Ledger!Answer, LP!Answer, Ledger!NoBalance, LP!NoBalance
  <1>3. \A x : Ledger!FetchFails(x) = LP!FetchFails(x)
    BY DEF Ledger!FetchFails, LP!FetchFails
  <1>4. \A x : Ledger!Land(x) = LP!Land(x)
    BY DEF Ledger!Land, LP!Land, Ledger!Seeded, LP!Seeded, Ledger!NoBalance,
           LP!NoBalance
  <1>5. \A x : Ledger!MineOpen(x) = LP!MineOpen(x)
    BY DEF Ledger!MineOpen, LP!MineOpen, Ledger!NoSession, LP!NoSession,
           Ledger!OpenAt, LP!OpenAt, Ledger!Stake, LP!Stake
  <1>6. \A x, y, z : Ledger!Settle(x, y, z) = LP!Settle(x, y, z)
    BY DEF Ledger!Settle, LP!Settle, Ledger!NoBalance, LP!NoBalance
  <1>7. \A x : Ledger!Flash(x) = LP!Flash(x)
    BY DEF Ledger!Flash, LP!Flash, Ledger!Ended, LP!Ended
  <1>8. \A x : Ledger!Index(x) = LP!Index(x)
    BY DEF Ledger!Index, LP!Index, Ledger!Ended, LP!Ended
  <1>9. \A x : Ledger!OpenSession(x) = LP!OpenSession(x)
    BY DEF Ledger!OpenSession, LP!OpenSession, Ledger!CanPlay, LP!CanPlay,
           Ledger!BetPlaced, LP!BetPlaced, Ledger!Stake, LP!Stake, Ledger!NoBalance,
           LP!NoBalance
  <1>10. \A x : Ledger!Opened(x) = LP!Opened(x)
    BY DEF Ledger!Opened, LP!Opened, Ledger!NoSession, LP!NoSession
  <1>11. \A x, y : Ledger!SubmitAction(x, y) = LP!SubmitAction(x, y)
    BY DEF Ledger!SubmitAction, LP!SubmitAction, Ledger!CanPlay, LP!CanPlay,
           Ledger!BetPlaced, LP!BetPlaced, Ledger!Shown, LP!Shown, Ledger!NoBalance,
           LP!NoBalance
  <1>12. \A x : Ledger!ActionMined(x) = LP!ActionMined(x)
    BY DEF Ledger!ActionMined, LP!ActionMined, Ledger!NoBalance, LP!NoBalance
  <1>13. \A x : Ledger!Clear(x) = LP!Clear(x)
    BY DEF Ledger!Clear, LP!Clear, Ledger!Shown, LP!Shown
  <1>14. Ledger!ToggleWallet = LP!ToggleWallet
    BY DEF Ledger!ToggleWallet, LP!ToggleWallet
  <1>15. Ledger!Unmount = LP!Unmount
    BY DEF Ledger!Unmount, LP!Unmount, Ledger!NoBalance, LP!NoBalance
  <1>16. Ledger!Mount = LP!Mount
    BY DEF Ledger!Mount, LP!Mount, Ledger!Read, LP!Read, Ledger!Ended, LP!Ended,
           Ledger!NoBalance, LP!NoBalance
  <1>17. Ledger!Init = LP!Init
    BY DEF Ledger!Init, LP!Init, Ledger!NoSession, LP!NoSession, Ledger!OpenAt,
           LP!OpenAt, Ledger!Stake, LP!Stake, Ledger!NoBalance, LP!NoBalance
  <1>18. Ledger!LedgerAssumption => LP!LedgerAssumption
    <2>1. {FALSE, FALSE} \subseteq BOOLEAN
      OBVIOUS
    <2> QED
      BY <2>1, SameSums DEF Ledger!LedgerAssumption, LP!LedgerAssumption
  <1>19. \A x : /\ Ledger!OpenMinedLate(x) = LP!OpenMinedLate(x)
                /\ Ledger!ActionMinedLate(x) = LP!ActionMinedLate(x)
                /\ Ledger!ActionReturns(x) = LP!ActionReturns(x)
    <2>1. \A x : Ledger!Slips(x) = LP!Slips(x)
      BY DEF Ledger!Slips, LP!Slips, Ledger!NoBalance, LP!NoBalance
    <2> QED
      BY <2>1 DEF Ledger!OpenMinedLate, LP!OpenMinedLate, Ledger!ActionMinedLate,
         LP!ActionMinedLate, Ledger!ActionReturns, LP!ActionReturns, Ledger!NoSession,
         LP!NoSession, Ledger!OpenAt, LP!OpenAt, Ledger!Stake, LP!Stake
  <1>20. Ledger!PlayNext = LP!PlayNext
    BY <1>1, <1>2, <1>3, <1>4, <1>5, <1>6, <1>7, <1>8, <1>9, <1>10, <1>11, <1>12,
       <1>13, <1>14, <1>15, <1>16, <1>19, SameEnds DEF Ledger!PlayNext, LP!PlayNext
  <1>21. Ledger!Trouble = LP!Trouble
    BY <1>3, <1>14, <1>15, SameEnds DEF Ledger!Trouble, LP!Trouble
  <1> QED
    BY <1>17, <1>18, <1>20, <1>21, <1>16 DEF Ledger!Next, LP!Next, Ledger!vars,
       LP!vars

\* So with the local node, of two files and one boot.
LEMMA SameNode ==
    /\ Node!NodeInit = LP!Node!NodeInit
    /\ Node!NodeNext = LP!Node!NodeNext
    /\ Node!nodeVars = LP!Node!nodeVars
    /\ Node!NodeAssumption => LP!Node!NodeAssumption
    /\ LP!Node!NoEditMissed => Node!NoEditMissed
    /\ LP!Node!ListsTheHostsGames => Node!ListsTheHostsGames
    /\ LP!Node!KeepsTheGood => Node!KeepsTheGood
  <1> USE DEF Node!NoSync, LP!Node!NoSync, Node!NoEntry, LP!Node!NoEntry, Node!NoFile,
          LP!Node!NoFile, Node!Coinflip, LP!Node!Coinflip, Node!nodeVars, LP!Node!nodeVars
  <1>1. /\ Node!NodeInit = LP!Node!NodeInit
        /\ Node!NodeAssumption => LP!Node!NodeAssumption
    BY DEF Node!NodeInit, LP!Node!NodeInit, Node!NodeAssumption, LP!Node!NodeAssumption
  <1>2. /\ Node!Boot = LP!Node!Boot
        /\ Node!Stop = LP!Node!Stop
        /\ Node!RegisterElsewhere = LP!Node!RegisterElsewhere
        /\ Node!DeployGame = LP!Node!DeployGame
    BY DEF Node!Boot, LP!Node!Boot, Node!Stop, LP!Node!Stop, Node!RegisterElsewhere,
       LP!Node!RegisterElsewhere, Node!DeployGame, LP!Node!DeployGame
  <1>3. Node!BeginSync = LP!Node!BeginSync
    BY DEF Node!BeginSync, LP!Node!BeginSync, Node!Sources, LP!Node!Sources
  <1>4. \A x : /\ Node!Compiles(x) = LP!Node!Compiles(x)
               /\ Node!GamesOf(x) = LP!Node!GamesOf(x)
               /\ Node!ToSet(x) = LP!Node!ToSet(x)
    BY DEF Node!Compiles, LP!Node!Compiles, Node!GamesOf, LP!Node!GamesOf, Node!ToSet,
       LP!Node!ToSet
  <1>5. \A x : Node!Cardinality(x) = LP!Node!Cardinality(x)
    BY DEF Node!Cardinality, LP!Node!Cardinality, Node!IsFiniteSet, LP!Node!IsFiniteSet
  <1>6. \A f : Node!SkipFile(f) = LP!Node!SkipFile(f)
    BY DEF Node!SkipFile, LP!Node!SkipFile, Node!AtFile, LP!Node!AtFile
  <1>7. \A f : Node!CompileFile(f) = LP!Node!CompileFile(f)
    BY DEF Node!CompileFile, LP!Node!CompileFile, Node!AtFile, LP!Node!AtFile, Node!Broken,
       LP!Node!Broken, Node!Compiles, LP!Node!Compiles, Node!GamesOf, LP!Node!GamesOf
  <1>8. Node!RegisterGame = LP!Node!RegisterGame
    BY <1>4, <1>5 DEF Node!RegisterGame, LP!Node!RegisterGame
  <1>9. Node!FailGame = LP!Node!FailGame
    BY DEF Node!FailGame, LP!Node!FailGame, Node!Broken, LP!Node!Broken
  <1>10. \A x, y : /\ Node!WriteDeployed(x, y) = LP!Node!WriteDeployed(x, y)
                   /\ Node!ListGames(x, y) = LP!Node!ListGames(x, y)
    BY DEF Node!WriteDeployed, LP!Node!WriteDeployed, Node!ListGames, LP!Node!ListGames
  <1>11. Node!EndSync = LP!Node!EndSync
    BY <1>10 DEF Node!EndSync, LP!Node!EndSync, Node!CurrentGames, LP!Node!CurrentGames
  <1>12. \A f : Node!Edit(f) = LP!Node!Edit(f)
    BY DEF Node!Edit, LP!Node!Edit
  <1>13. Node!Debounced = LP!Node!Debounced
    BY DEF Node!Debounced, LP!Node!Debounced, Node!QueueSync, LP!Node!QueueSync
  <1>14. Node!PollRegistered = LP!Node!PollRegistered
    BY <1>10 DEF Node!PollRegistered, LP!Node!PollRegistered, Node!NextBlock,
       LP!Node!NextBlock
  <1>15. Node!NodeNext = LP!Node!NodeNext
    BY <1>2, <1>3, <1>6, <1>7, <1>8, <1>9, <1>11, <1>12, <1>13, <1>14
       DEF Node!NodeNext, LP!Node!NodeNext, Node!SyncStep, LP!Node!SyncStep
  <1>16. Node!Quiet = LP!Node!Quiet
    BY DEF Node!Quiet, LP!Node!Quiet
  <1>17. /\ LP!Node!NoEditMissed => Node!NoEditMissed
         /\ LP!Node!ListsTheHostsGames => Node!ListsTheHostsGames
    BY <1>4, <1>16 DEF Node!NoEditMissed, LP!Node!NoEditMissed, Node!ListsTheHostsGames,
       LP!Node!ListsTheHostsGames
  <1>18. LP!Node!KeepsTheGood => Node!KeepsTheGood
    BY <1>4, <1>5 DEF Node!KeepsTheGood, LP!Node!KeepsTheGood
  <1> QED
    BY <1>1, <1>15, <1>17, <1>18

\* What is known of the node, while the run is about it.
NodeHolds == part = "node" => LP!NodeInv

\* A run about the node stays one, and its steps are those of the node.
LEMMA NodeRuns ==
    ASSUME [AllNext]_allVars
    PROVE  part' = part /\ (part = "node" => [LP!Node!NodeNext]_(LP!Node!nodeVars))
  <1>1. part' = part
    BY DEF AllNext, allVars
  <1>2. ASSUME part = "node" PROVE [Node!NodeNext]_(Node!nodeVars)
    <2>1. CASE AllNext
      <3>1. Node!NodeNext
        BY <1>2, <2>1 DEF AllNext
      <3> QED
        BY <3>1
    <2>2. CASE UNCHANGED allVars
      BY <2>2 DEF allVars, localVars, Node!nodeVars
    <2> QED
      BY <2>1, <2>2
  <1>3. [Node!NodeNext]_(Node!nodeVars) => [LP!Node!NodeNext]_(LP!Node!nodeVars)
    BY SameNode DEF Node!nodeVars, LP!Node!nodeVars
  <1> QED
    BY <1>1, <1>2, <1>3

\* What is known of the ledger, wherever the run is.
LedgerHolds == LP!RoundsInv /\ LP!GivenTypes /\ LP!MoneyInv

\* The parts of a run keep what is known of the queue, the page and the ledger.
SimulatorInv == QueueInv /\ WritesInv /\ PageInv /\ LedgerHolds /\ NodeHolds

\* They begin with it.
LEMMA SimulatorAtFirst == AllInit => SimulatorInv
  <1> SUFFICES ASSUME AllInit PROVE SimulatorInv
    OBVIOUS
  <1>1. QueueInv /\ WritesInv
    BY QueueInitInv, WritesInitInv DEF AllInit
  <1>2. PageInv
    BY DEF AllInit, Simulator!Page!PageInit, PageInv
  <1>3. LP!LedgerAssumption /\ LP!Init
    BY SimulatorAssumption, SameSteps DEF AllInit
  <1>4. LedgerHolds
    BY <1>3, LP!RoundsInvAtFirst, LP!MoneyInvAtFirst DEF LedgerHolds
  <1>5. NodeHolds
    BY SimulatorAssumption, SameNode, LP!NodeInvAtFirst DEF AllInit, NodeHolds
  <1> QED
    BY <1>1, <1>2, <1>4, <1>5 DEF SimulatorInv

\* A step is one of the queue, of the page, of the ledger or of none of them.
LEMMA SimulatorStep ==
    ASSUME SimulatorInv, [AllNext]_allVars
    PROVE  SimulatorInv'
  <1>1. [QueueNext]_queueVars
    BY DEF AllNext, allVars
  <1>2. [Simulator!Page!PageNext]_page
    BY DEF AllNext, allVars, localVars, Simulator!SimulatorNext, Simulator!NodeSide,
           Simulator!PageSide
  <1>3. [Ledger!Next]_ledgerVars
    BY DEF AllNext, allVars, OneViewport, LostCalls, OneRestart
  <1>4. [LP!Next]_(LP!vars)
    BY <1>3, SameSteps DEF ledgerVars, LP!vars, LP!chainVars, LP!callVars, LP!rowVars,
       LP!actionVars, LP!holdVars, LP!readVars, LP!trackVars, LP!guestVars, LP!viewVars
  <1>5. LP!LedgerAssumption
    BY SimulatorAssumption, SameSteps
  <1>6. LedgerHolds'
    BY <1>4, <1>5, LP!RoundsInvStep, LP!GivenStep, LP!MoneyInvStep DEF SimulatorInv, LedgerHolds
  <1>7. NodeHolds'
    BY NodeRuns, LP!NodeInvStep DEF SimulatorInv, NodeHolds
  <1> QED
    BY <1>1, <1>2, <1>6, <1>7, QueueNextInv, WritesNextInv, PageNextInv DEF SimulatorInv

\* What is known of the queue, of the page and of the ledger always holds.
THEOREM SimulatorInvariant == AllSpec => []SimulatorInv
  <1>1. SimulatorInv /\ [AllNext]_allVars => SimulatorInv'
    BY SimulatorStep
  <1> QED
    BY <1>1, SimulatorAtFirst, PTL DEF AllSpec

\* Each call spends its own approval, as the run checks it.
\* Code: sendActions (runtime.ts).
THEOREM ApprovalsAreNotShared == AllSpec => []OwnAllowance
  <1>1. SimulatorInv => OwnAllowance
    BY DEF SimulatorInv, QueueInv, QueueType, PullIsNext, OwnAllowance
  <1> QED
    BY <1>1, SimulatorInvariant, PTL

\* The node misses no edit, and its list is the host's.
\* Code: game-contracts.ts, registered-games.ts, local-node/index.ts.
THEOREM EditsAreSeen == AllSpec => []NodeIsUpToDate
  <1>1. SimulatorInv => NodeIsUpToDate
    BY LP!NodeInvMeans, SameNode DEF SimulatorInv, NodeHolds, NodeIsUpToDate
  <1> QED
    BY <1>1, SimulatorInvariant, PTL

\* A broken edit or a failed deployment costs no game that worked.
\* Code: game-contracts.ts.
THEOREM GoodGamesStay == AllSpec => LastGoodStays
  <1>1. SimulatorInv /\ [AllNext]_allVars => [part = "node" => Node!KeepsTheGood]_node
    <2> SUFFICES ASSUME SimulatorInv, [AllNext]_allVars, part = "node"
                 PROVE  Node!KeepsTheGood
      OBVIOUS
    <2>1. [LP!Node!NodeNext]_(LP!Node!nodeVars)
      BY NodeRuns
    <2> QED
      BY <2>1, SameNode, LP!NodeKeepsTheGood DEF SimulatorInv, NodeHolds
  <1> QED
    BY <1>1, SimulatorInvariant, PTL DEF AllSpec, LastGoodStays

\* The next call of the page builds on what its calls have returned, as the
\* run checks it.  Code: resolveEncodedSession (use-game-host.ts).
THEOREM WritesAreReadInARun == AllSpec => []ReadYourWrites
  <1>1. SimulatorInv => ReadYourWrites
    BY WritesMean DEF SimulatorInv
  <1> QED
    BY <1>1, SimulatorInvariant, PTL

\* Never two feeds, with the node that the page is on.
\* Code: simulator App.tsx.
THEOREM OneFeedAtATime == AllSpec => []OneLiveRuntime
  <1>1. SimulatorInv => OneLiveRuntime
    BY DEF SimulatorInv, PageInv, OneLiveRuntime, Simulator!Page!OneLiveRuntime
  <1> QED
    BY <1>1, SimulatorInvariant, PTL

\* The properties of the two instances are the same as well.
LEMMA SameProperties ==
    /\ LP!NeverOverstated => NeverOverstated
    /\ LP!PlayedRoundsClose => PlayedRoundsClose
    /\ LP!DisplaysTheChain => DisplaysTheChain
  <1>1. LP!NeverOverstated => NeverOverstated
    BY SameSums DEF NeverOverstated, Ledger!NeverOverstated, LP!NeverOverstated,
       Ledger!Outstanding, LP!Outstanding, Ledger!Hidden, LP!Hidden, Ledger!NoBalance,
       LP!NoBalance, Ledger!NoSession, LP!NoSession, Ledger!Stake, LP!Stake
  <1>2. Ledger!Quiet = LP!Quiet
    BY DEF Ledger!Quiet, LP!Quiet, Ledger!Shown, LP!Shown, Ledger!NoBalance, LP!NoBalance,
           Ledger!Ended, LP!Ended
  <1>3. LP!PlayedRoundsClose => PlayedRoundsClose
    BY <1>2 DEF PlayedRoundsClose, Ledger!PlayedRoundsClose, LP!PlayedRoundsClose
  <1>4. LP!DisplaysTheChain => DisplaysTheChain
    BY <1>2 DEF DisplaysTheChain, Ledger!DisplaysTheChain, LP!DisplaysTheChain, Ledger!Ended,
       LP!Ended
  <1> QED
    BY <1>1, <1>3, <1>4

\* The invariants of the ledger have the properties it is about.
LEMMA LedgerMeans ==
    ASSUME LedgerHolds
    PROVE  NeverOverstated /\ PlayedRoundsClose /\ DisplaysTheChain
  <1>1. LP!LedgerAssumption
    BY SimulatorAssumption, SameSteps
  <1> QED
    BY <1>1, LP!MoneyFits, LP!RoundsClose, LP!MoneyShown, SameProperties DEF LedgerHolds

\* The display never promises more than the chain will give: what it shows,
\* the payouts it hides and the stakes under way are no more than the player
\* has and the stakes that a call gave back although they left the chain.
\* Code: balance-hold.ts.
THEOREM DisplayIsCovered == AllSpec => []NeverOverstated
  <1>1. SimulatorInv => NeverOverstated
    BY LedgerMeans DEF SimulatorInv
  <1> QED
    BY <1>1, SimulatorInvariant, PTL

\* A round that was played to its end leaves nothing held.
\* Code: use-round-ledger.ts.
THEOREM PlayedRoundsAreClosed == AllSpec => []PlayedRoundsClose
  <1>1. SimulatorInv => PlayedRoundsClose
    BY LedgerMeans DEF SimulatorInv
  <1> QED
    BY <1>1, SimulatorInvariant, PTL

\* A display at rest is the chain's balance, also after failed reads, but for
\* the stakes that were given back and left the chain since it was read.
\* Code: balance-hold.ts.
THEOREM DisplayIsExact == AllSpec => []DisplaysTheChain
  <1>1. SimulatorInv => DisplaysTheChain
    BY LedgerMeans DEF SimulatorInv
  <1> QED
    BY <1>1, SimulatorInvariant, PTL

=============================================================================
