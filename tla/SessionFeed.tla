------------------------------ MODULE SessionFeed ------------------------------
(***************************************************************************)
(* The event feed of the simulator, session-events.ts: it replays the      *)
(* host's logs up to the block it starts at, then polls block ranges, and  *)
(* fans every log out on two channels with a delay each, the flashblock    *)
(* channel and the indexed channel.                                        *)
(*                                                                         *)
(* JavaScript runs one continuation at a time: an action is what happens   *)
(* between two awaits.  Every RPC may fail, as far as Faults says.  A log  *)
(* is its position in the chain; what it says matters to the modules that  *)
(* receive it.                                                             *)
(***************************************************************************)
EXTENDS Integers, Sequences, FiniteSets, SequencesExt

CONSTANTS
    Lags,           \* delays the sliders of the panel offer, 0 for none
    Faults,         \* calls that may fail: "head", "logs", "block"
    MaxBlock,       \* bound: height of the chain
    MaxLogs,        \* bound: logs of the host
    MaxFaults,      \* bound: failed calls
    MaxLagChanges   \* bound: moves of a slider

Calls == {"head", "logs", "block"}
Channels == {"flashblock", "indexed"}
LogIds == 1..MaxLogs
NoLog == 0

ASSUME FeedAssumption ==
    /\ Lags \subseteq Nat
    /\ Lags # {}
    /\ Faults \subseteq Calls
    /\ {MaxBlock, MaxLogs} \subseteq Nat \ {0}
    /\ {MaxFaults, MaxLagChanges} \subseteq Nat

VARIABLES
    head,           \* chain: the last block
    logs,           \* chain: the block of each log
    pc,             \* what start or poll is waiting for
    tip,            \* startBlock, then the head the current poll read
    fromBlock,      \* the next unprocessed block
    batch,          \* logs of the range still to normalize
    awaiting,       \* the log whose block timestamp is being fetched
    seen,           \* logs normalized before
    timestamps,     \* blockTimestamps: the blocks in the cache
    lag,            \* the current delay of each channel
    timers,         \* pendingTimers in the order they were set
    delivered,      \* what the listeners of each channel were called with
    stopped,
    faults,         \* failed calls of each kind so far
    lagChanges      \* moves of a slider so far

chainVars == <<head, logs>>
pollVars == <<pc, tip, fromBlock, batch, awaiting, seen, timestamps>>
outVars == <<timers, delivered>>
panelVars == <<lag, lagChanges, stopped>>
vars == <<chainVars, pollVars, outVars, panelVars, faults>>

\* "startHead" and "startLogs" belong to start, "replay" to its loop; "idle"
\* is a poll timer that is set, "dead" a start that was rejected and "done"
\* a feed that polls no more.
PCs == {"startHead", "startLogs", "replay", "idle", "pollHead", "pollLogs",
        "process", "dead", "done"}

Init ==
    /\ head \in 0..1
    /\ logs \in {<<>>} \cup {<<b>> : b \in 1..head}
    /\ pc = "startHead"
    /\ tip = 0
    /\ fromBlock = 0
    /\ batch = <<>>
    /\ awaiting = NoLog
    /\ seen = {}
    /\ timestamps = {}
    /\ lag \in [Channels -> Lags]
    /\ timers = <<>>
    /\ delivered = [ch \in Channels |-> <<>>]
    /\ stopped = FALSE
    /\ faults = [c \in Calls |-> 0]
    /\ lagChanges = 0

-----------------------------------------------------------------------------
(***************************************************************************)
(* The chain, the panel and the timers                                     *)
(***************************************************************************)

\* A block with up to two logs of the host.
Mine(n) ==
    /\ head < MaxBlock
    /\ Len(logs) + n <= MaxLogs
    /\ head' = head + 1
    /\ logs' = logs \o [i \in 1..n |-> head + 1]
    /\ UNCHANGED <<pollVars, outVars, panelVars, faults>>

\* The delays are read when a log is handed over, not when its timer is set.
MoveSlider(ch, ms) ==
    /\ lagChanges < MaxLagChanges
    /\ lag[ch] # ms
    /\ lag' = [lag EXCEPT ![ch] = ms]
    /\ lagChanges' = lagChanges + 1
    /\ UNCHANGED <<chainVars, pollVars, outVars, stopped, faults>>

\* Timers set earlier with no longer a delay fire earlier.
MayFire(i) == \A j \in 1..(i - 1) : timers[j].lag > timers[i].lag

FireTimer(i) ==
    /\ MayFire(i)
    /\ timers' = RemoveAt(timers, i)
    /\ delivered' = [delivered EXCEPT ![timers[i].channel] = Append(@, timers[i].log)]
    /\ UNCHANGED <<chainVars, pollVars, panelVars, faults>>

\* Clears the timers; a poll that is under way runs to its end.
Stop ==
    /\ ~stopped
    /\ stopped' = TRUE
    /\ timers' = <<>>
    /\ pc' = IF pc = "idle" THEN "done" ELSE pc
    /\ UNCHANGED <<chainVars, tip, fromBlock, batch, awaiting, seen, timestamps,
                   delivered, lag, lagChanges, faults>>

-----------------------------------------------------------------------------
(***************************************************************************)
(* start and poll                                                          *)
(***************************************************************************)

\* The chain numbers its logs block by block: those up to a block come first.
LogsUpTo(block) == Cardinality({l \in 1..Len(logs) : logs[l] <= block})

\* Mutant: the newest log of a range comes first.
LogsBetweenNewestFirst(from, to) ==
    [k \in 1..(LogsUpTo(to) - LogsUpTo(from - 1)) |-> LogsUpTo(to) + 1 - k]

\* getLogs over a range of blocks.
LogsBetween(from, to) ==
    [k \in 1..(LogsUpTo(to) - LogsUpTo(from - 1)) |-> LogsUpTo(from - 1) + k]

\* After a tick the next one is scheduled, unless the feed was stopped.
NextTick == IF stopped THEN "done" ELSE "idle"

\* Hand log l to a channel, as far as delays are concerned.
Emitted(out, ch, l) ==
    IF lag[ch] = 0
    THEN [out EXCEPT !.delivered[ch] = Append(@, l)]
    ELSE [out EXCEPT !.timers = Append(@, [log |-> l, channel |-> ch, lag |-> lag[ch]])]

Out == [timers |-> timers, delivered |-> delivered]

\* Mutant: a poll that was under way when the feed was stopped still emits.
HandedOverAlways(l) ==
    IF pc = "replay"
    THEN [Out EXCEPT !.delivered["indexed"] = Append(@, l)]
    ELSE Emitted(Emitted(Out, "flashblock", l), "indexed", l)

\* Mutant: replayed logs go to the flashblock channel.
HandedOverAsFlash(l) ==
    IF pc = "replay" THEN Emitted(Out, "flashblock", l)
    ELSE IF stopped THEN Out
    ELSE Emitted(Emitted(Out, "flashblock", l), "indexed", l)

\* A replayed log goes to the indexed channel at once, a new one to both.
HandedOver(l) ==
    IF pc = "replay"
    THEN [Out EXCEPT !.delivered["indexed"] = Append(@, l)]
    ELSE IF stopped THEN Out
    ELSE Emitted(Emitted(Out, "flashblock", l), "indexed", l)

HandOver(l) ==
    /\ timers' = HandedOver(l).timers
    /\ delivered' = HandedOver(l).delivered

\* viem caches the head for a poll interval: an answer may be a little old.
ReadStartHead(h) ==
    /\ pc = "startHead"
    /\ pc' = "startLogs"
    /\ tip' = h
    /\ UNCHANGED <<chainVars, outVars, panelVars, faults,
                   fromBlock, batch, awaiting, seen, timestamps>>

\* A feed that was stopped meanwhile drops the answer.
ReadStartLogs ==
    /\ pc = "startLogs"
    /\ IF stopped
       THEN pc' = "done" /\ UNCHANGED batch
       ELSE pc' = "replay" /\ batch' = LogsBetween(0, tip)
    /\ UNCHANGED <<chainVars, outVars, panelVars, faults,
                   tip, fromBlock, awaiting, seen, timestamps>>

FinishReplay ==
    /\ pc = "replay"
    /\ batch = <<>>
    /\ fromBlock' = tip + 1
    /\ pc' = "pollHead"
    /\ UNCHANGED <<chainVars, outVars, panelVars, faults,
                   tip, batch, awaiting, seen, timestamps>>

Tick ==
    /\ pc = "idle"
    /\ pc' = "pollHead"
    /\ UNCHANGED <<chainVars, outVars, panelVars, faults,
                   tip, fromBlock, batch, awaiting, seen, timestamps>>

ReadHead(h) ==
    /\ pc = "pollHead"
    /\ h >= tip
    /\ tip' = h
    /\ pc' = IF h >= fromBlock THEN "pollLogs" ELSE NextTick
    /\ UNCHANGED <<chainVars, outVars, panelVars, faults,
                   fromBlock, batch, awaiting, seen, timestamps>>

ReadLogs ==
    /\ pc = "pollLogs"
    /\ batch' = LogsBetween(fromBlock, tip)
    /\ pc' = "process"
    /\ UNCHANGED <<chainVars, outVars, panelVars, faults,
                   tip, fromBlock, awaiting, seen, timestamps>>

\* Mutant: logs normalized before are normalized again.
TakeLogAgain ==
    /\ batch # <<>>
    /\ awaiting = NoLog
    /\ LET l == Head(batch) IN
       /\ seen' = seen \cup {l}
       /\ IF logs[l] \in timestamps
          THEN batch' = Tail(batch) /\ HandOver(l) /\ UNCHANGED awaiting
          ELSE awaiting' = l /\ UNCHANGED <<batch, outVars>>
    /\ UNCHANGED <<chainVars, panelVars, faults, pc, tip, fromBlock, timestamps>>

\* normalize, up to its await: the log is marked as seen here, before the
\* timestamp of its block is known.
TakeLog ==
    /\ batch # <<>>
    /\ awaiting = NoLog
    /\ LET l == Head(batch) IN
       /\ seen' = seen \cup {l}
       /\ IF l \in seen
          THEN batch' = Tail(batch) /\ UNCHANGED <<awaiting, outVars>>
          ELSE IF logs[l] \in timestamps
          THEN batch' = Tail(batch) /\ HandOver(l) /\ UNCHANGED awaiting
          ELSE awaiting' = l /\ UNCHANGED <<batch, outVars>>
    /\ UNCHANGED <<chainVars, panelVars, faults, pc, tip, fromBlock, timestamps>>

\* normalize, after its await.
ReadTimestamp ==
    /\ awaiting # NoLog
    /\ timestamps' = timestamps \cup {logs[awaiting]}
    /\ HandOver(awaiting)
    /\ batch' = Tail(batch)
    /\ awaiting' = NoLog
    /\ UNCHANGED <<chainVars, panelVars, faults, pc, tip, fromBlock, seen>>

\* The range is done.
FinishRange ==
    /\ pc = "process"
    /\ batch = <<>>
    /\ fromBlock' = tip + 1
    /\ pc' = NextTick
    /\ UNCHANGED <<chainVars, outVars, panelVars, faults,
                   tip, batch, awaiting, seen, timestamps>>

\* The call that is waited for.
Call ==
    IF awaiting # NoLog THEN "block"
    ELSE IF pc \in {"startHead", "pollHead"} THEN "head"
    ELSE IF pc \in {"startLogs", "pollLogs"} THEN "logs" ELSE "none"

FaultsSoFar == faults["head"] + faults["logs"] + faults["block"]

\* Mutant: a range whose logs cannot be read is given up.
FailAndSkip ==
    /\ Call \in Faults
    /\ FaultsSoFar < MaxFaults
    /\ faults' = [faults EXCEPT ![Call] = @ + 1]
    /\ pc' = IF pc \in {"startHead", "startLogs", "replay"} THEN "dead" ELSE NextTick
    /\ fromBlock' = IF pc = "pollLogs" THEN tip + 1 ELSE fromBlock
    /\ batch' = <<>>
    /\ awaiting' = NoLog
    /\ UNCHANGED <<chainVars, outVars, panelVars, tip, seen, timestamps>>

\* A failed call rejects start for good and abandons a poll, whose range is
\* read again on the next tick.
Fail ==
    /\ Call \in Faults
    /\ FaultsSoFar < MaxFaults
    /\ faults' = [faults EXCEPT ![Call] = @ + 1]
    /\ pc' = IF pc \in {"startHead", "startLogs", "replay"} THEN "dead" ELSE NextTick
    /\ batch' = <<>>
    /\ awaiting' = NoLog
    /\ UNCHANGED <<chainVars, outVars, panelVars, tip, fromBlock, seen, timestamps>>

Run ==
    \/ \E h \in 0..head : ReadStartHead(h)
    \/ ReadStartLogs
    \/ FinishReplay
    \/ Tick
    \/ \E h \in 0..head : ReadHead(h)
    \/ ReadLogs
    \/ TakeLog
    \/ ReadTimestamp
    \/ FinishRange

Next ==
    \/ \E n \in 0..2 : Mine(n)
    \/ \E ch \in Channels, ms \in Lags : MoveSlider(ch, ms)
    \/ \E i \in 1..Len(timers) : FireTimer(i)
    \/ Stop
    \/ Run
    \/ Fail

Spec == Init /\ [][Next]_vars

\* The node answers every call in the end (there are at most MaxFaults
\* failures), not always with a head from viem's cache, which expires, and
\* timers run out.
Fairness ==
    /\ WF_vars(Run)
    /\ SF_vars(ReadHead(head))
    /\ WF_vars(\E i \in 1..Len(timers) : FireTimer(i))

FairSpec == Spec /\ Fairness

-----------------------------------------------------------------------------
(***************************************************************************)
(* Properties                                                              *)
(***************************************************************************)

Timer == [log : LogIds, channel : Channels, lag : Lags]

TypeOK ==
    /\ head \in 0..MaxBlock
    /\ Len(logs) \in 0..MaxLogs
    /\ \A i \in 1..Len(logs) : logs[i] \in 1..head
    /\ pc \in PCs
    /\ tip \in 0..head
    /\ fromBlock \in 0..(tip + 1)
    /\ ToSet(batch) \cup seen \subseteq 1..Len(logs)
    /\ awaiting \in {NoLog} \cup seen
    /\ timestamps \subseteq 1..head
    /\ lag \in [Channels -> Lags]
    /\ ToSet(timers) \subseteq Timer
    /\ \A ch \in Channels : ToSet(delivered[ch]) \subseteq seen
    /\ stopped \in BOOLEAN

\* The logs a channel has delivered or will deliver.
Scheduled(ch) ==
    ToSet(delivered[ch]) \cup {t.log : t \in {u \in ToSet(timers) : u.channel = ch}}

\* No log below the next unprocessed block is lost: the listeners of the
\* indexed channel have it or a timer for it is set.  Code: seen and fromBlock
\* in normalize and poll, which a failed call leaves half-way.
NothingLost ==
    ~stopped =>
        \A l \in 1..Len(logs) : logs[l] < fromBlock => l \in Scheduled("indexed")

\* However often a range is read again, a channel carries a log once.
\* Code: seen, shared by the replay and every poll.
NoDuplicate ==
    \A ch \in Channels :
        /\ IsInjective(delivered[ch])
        /\ \A i, j \in 1..Len(timers) :
               timers[i].channel = ch =>
                   /\ timers[i].log \notin ToSet(delivered[ch])
                   /\ timers[j].channel = ch /\ timers[j].log = timers[i].log => i = j

\* Both channels carry the same new logs; a listener of one can count on the
\* other to follow.  Code: the two emitDelayed calls in poll.
ChannelsAgree ==
    ~stopped => Scheduled("flashblock") \subseteq Scheduled("indexed")

\* As long as no slider moves, a channel keeps the order of the chain, the
\* replay and the retries included, and as long as every timestamp could be
\* read it leaves no log out: a listener of a log has had all earlier ones,
\* except that the flashblock channel does not repeat what the indexed one
\* replayed.  The session store and the patches expect it.
\* Code: the sequential awaits in poll and start.
ChainOrder ==
    lagChanges = 0 =>
        \A ch \in Channels :
            /\ \A i, j \in 1..Len(delivered[ch]) :
                   i < j => delivered[ch][i] < delivered[ch][j]
            /\ faults["block"] = 0 =>
                   \A l \in ToSet(delivered[ch]) : \A k \in 1..(l - 1) :
                       \/ k \in ToSet(delivered[ch])
                       \/ k \in ToSet(delivered["indexed"]) \ Scheduled("flashblock")

\* Nothing reaches a listener after stop, but what is left of the replay.
\* Code: the stopped flag, read after every await of poll and in each timer.
QuietAfterStop ==
    [][stopped => /\ delivered'["flashblock"] = delivered["flashblock"]
                  /\ pc # "replay" => delivered' = delivered]_vars

\* Every log of the host reaches the indexed channel in the end, unless the
\* feed is stopped, its start failed or a timestamp could not be read, in
\* spite of polls that fail.
\* Code: the retry of the range after a failed poll.
EventuallyIndexed ==
    \A l \in LogIds :
        (l <= Len(logs)) ~> \/ l \in ToSet(delivered["indexed"])
                            \/ stopped
                            \/ pc = "dead"
                            \/ faults["block"] > 0
=============================================================================
