---------------------------- MODULE SessionFeedProofs ----------------------------
(***************************************************************************)
(* Proofs about SessionFeed, for every chain, every choice of delays and   *)
(* any number of failed calls.                                             *)
(***************************************************************************)
EXTENDS SessionFeed, FiniteTheorems

-----------------------------------------------------------------------------
(***************************************************************************)
(* After stop                                                              *)
(***************************************************************************)

\* QuietAfterStop is not inductive: a timer that is still set would break it.
QuietInv ==
    /\ DOMAIN delivered = Channels
    /\ stopped \in BOOLEAN
    /\ stopped => timers = <<>>

\* What is handed over after stop goes to the listeners of the replay at most.
LEMMA HandedOverQuietly ==
    ASSUME QuietInv, NEW l
    PROVE  LET out == HandedOver(l)
           IN  /\ DOMAIN out.delivered = Channels
               /\ stopped => /\ out.timers = timers
                             /\ out.delivered["flashblock"] = delivered["flashblock"]
                             /\ pc # "replay" => out.delivered = delivered
  <1> DEFINE out == HandedOver(l)
  <1>1. CASE pc = "replay"
    <2>1. /\ out.timers = timers
          /\ out.delivered = [delivered EXCEPT !["indexed"] = Append(@, l)]
      <3>1. Out.timers = timers /\ Out.delivered = delivered
            /\ DOMAIN Out = {"timers", "delivered"}
        BY DEF Out
      <3>2. out = [Out EXCEPT !.delivered["indexed"] = Append(@, l)]
        BY <1>1 DEF HandedOver
      <3> HIDE DEF out
      <3> QED
        BY <3>1, <3>2
    <2> QED
      BY <1>1, <2>1 DEF QuietInv, Channels
  <1>2. CASE pc # "replay" /\ stopped
    BY <1>2 DEF HandedOver, Out, QuietInv
  <1>3. CASE pc # "replay" /\ ~stopped
    <2>1. \A o, ch : DOMAIN o.delivered = Channels /\ DOMAIN o = {"timers", "delivered"} =>
            /\ DOMAIN Emitted(o, ch, l).delivered = Channels
            /\ DOMAIN Emitted(o, ch, l) = {"timers", "delivered"}
      BY DEF Emitted
    <2>2. DOMAIN Out.delivered = Channels /\ DOMAIN Out = {"timers", "delivered"}
      BY DEF Out, QuietInv
    <2>3. out = Emitted(Emitted(Out, "flashblock", l), "indexed", l)
      BY <1>3 DEF HandedOver
    <2> QED
      BY <1>3, <2>1, <2>2, <2>3
  <1> QED
    BY <1>1, <1>2, <1>3

\* A step after stop delivers to the listeners of the replay at most.
Quiet ==
    stopped => /\ delivered'["flashblock"] = delivered["flashblock"]
               /\ pc # "replay" => delivered' = delivered

\* No step hands anything over after the stop.
LEMMA StepIsQuiet ==
    ASSUME QuietInv, [Next]_vars
    PROVE  QuietInv' /\ Quiet
  <1>1. ASSUME NEW n \in 0..2, Mine(n) PROVE QuietInv' /\ Quiet
    BY <1>1 DEF Mine, outVars, panelVars, QuietInv, Quiet
  <1>2. ASSUME NEW ch \in Channels, NEW ms \in Lags, MoveSlider(ch, ms)
        PROVE  QuietInv' /\ Quiet
    BY <1>2 DEF MoveSlider, outVars, QuietInv, Quiet
  <1>3. ASSUME NEW i \in 1..Len(timers), FireTimer(i) PROVE QuietInv' /\ Quiet
    <2>1. ~stopped
      <3>1. timers # <<>>
        OBVIOUS
      <3> QED
        BY <3>1 DEF QuietInv
    <2> QED
      BY <1>3, <2>1 DEF FireTimer, panelVars, QuietInv, Quiet
  <1>4. CASE Stop
    BY <1>4 DEF Stop, QuietInv, Quiet
  <1>5. ASSUME UNCHANGED <<timers, delivered, stopped>> PROVE QuietInv' /\ Quiet
    BY <1>5 DEF QuietInv, Quiet
  <1>6. ASSUME NEW l, HandOver(l), UNCHANGED stopped PROVE QuietInv' /\ Quiet
    BY <1>6, HandedOverQuietly DEF HandOver, QuietInv, Quiet
  <1>7. CASE Run
    <2>1. ASSUME NEW h \in 0..head, ReadStartHead(h) \/ ReadHead(h)
          PROVE  UNCHANGED <<timers, delivered, stopped>>
      BY <2>1 DEF ReadStartHead, ReadHead, outVars, panelVars
    <2>2. CASE ReadStartLogs \/ FinishReplay \/ Tick \/ ReadLogs \/ FinishRange
      BY <1>5, <2>2 DEF ReadStartLogs, FinishReplay, Tick, ReadLogs, FinishRange,
                        outVars, panelVars
    <2>3. CASE TakeLog
      <3>1. UNCHANGED stopped
        BY <2>3 DEF TakeLog, panelVars
      <3>2. UNCHANGED <<timers, delivered>> \/ HandOver(Head(batch))
        BY <2>3 DEF TakeLog, outVars
      <3> QED
        BY <1>5, <1>6, <3>1, <3>2
    <2>4. CASE ReadTimestamp
      <3>1. UNCHANGED stopped /\ HandOver(awaiting)
        BY <2>4 DEF ReadTimestamp, panelVars
      <3> QED
        BY <1>6, <3>1
    <2> QED
      BY <1>5, <1>7, <2>1, <2>2, <2>3, <2>4 DEF Run
  <1>8. CASE Fail
    BY <1>5, <1>8 DEF Fail, outVars, panelVars
  <1>9. CASE UNCHANGED vars
    BY <1>5, <1>9 DEF vars, outVars, panelVars
  <1> QED
    BY <1>1, <1>2, <1>3, <1>4, <1>7, <1>8, <1>9 DEF Next

\* Nothing reaches a listener after stop, but what is left of the replay.
\* Code: the stopped flag, read after every await of poll and in each timer.
THEOREM NothingAfterStop == Spec => QuietAfterStop
  <1>1. Init => QuietInv
    BY DEF Init, QuietInv
  <1>2. QuietInv /\ [Next]_vars => QuietInv'
    BY StepIsQuiet
  <1>3. QuietInv /\ [Next]_vars =>
            [stopped => /\ delivered'["flashblock"] = delivered["flashblock"]
                        /\ pc # "replay" => delivered' = delivered]_vars
    BY StepIsQuiet DEF Quiet
  <1> QED
    BY <1>1, <1>2, <1>3, PTL DEF Spec, QuietAfterStop

-----------------------------------------------------------------------------
(***************************************************************************)
(* Sequences                                                               *)
(***************************************************************************)

\* What is left when one position is taken out.
LEMMA RemoveAtIs ==
    ASSUME NEW S, NEW s \in Seq(S), NEW i \in 1..Len(s)
    PROVE  /\ RemoveAt(s, i) \in Seq(S)
           /\ Len(RemoveAt(s, i)) = Len(s) - 1
           /\ \A j \in 1..(Len(s) - 1) :
                  RemoveAt(s, i)[j] = IF j < i THEN s[j] ELSE s[j + 1]
  <1> DEFINE a == SubSeq(s, 1, i - 1)
             b == SubSeq(s, i + 1, Len(s))
  <1>1. a \in Seq(S) /\ Len(a) = i - 1 /\ \A j \in 1..(i - 1) : a[j] = s[j]
    OBVIOUS
  <1>2. b \in Seq(S) /\ Len(b) = Len(s) - i /\ \A j \in 1..(Len(s) - i) : b[j] = s[i + j]
    OBVIOUS
  <1>3. RemoveAt(s, i) = a \o b
    BY DEF RemoveAt
  <1> HIDE DEF a, b
  <1>4. Len(a \o b) = Len(s) - 1 /\ a \o b \in Seq(S)
    <2>1. a \o b \in Seq(S) /\ Len(a \o b) = Len(a) + Len(b)
      <3>1. a \in Seq(S) /\ b \in Seq(S)
        BY <1>1, <1>2
      <3> QED
        BY <3>1
    <2>2. Len(s) \in Nat
      OBVIOUS
    <2> QED
      BY <1>1, <1>2, <2>1, <2>2
  <1>5. ASSUME NEW j \in 1..(Len(s) - 1)
        PROVE  (a \o b)[j] = IF j < i THEN s[j] ELSE s[j + 1]
    <2>1. CASE j < i
      BY <1>1, <1>2, <2>1
    <2>2. CASE ~(j < i)
      <3>1. j - (i - 1) \in 1..(Len(s) - i) /\ i + (j - (i - 1)) = j + 1
        BY <2>2
      <3>2. (a \o b)[j] = b[j - (i - 1)]
        BY <1>1, <1>2, <2>2
      <3> QED
        BY <1>2, <2>2, <3>1, <3>2
    <2> QED
      BY <2>1, <2>2
  <1> QED
    BY <1>3, <1>4, <1>5

\* A sequence over a set is one over every larger set.
LEMMA SeqMore ==
    ASSUME NEW S, NEW R, S \subseteq R, NEW s \in Seq(S)
    PROVE  s \in Seq(R)
  <1>1. Len(s) \in Nat /\ s \in [1..Len(s) -> S]
    OBVIOUS
  <1>2. s \in [1..Len(s) -> R]
    BY <1>1
  <1> QED
    BY <1>1, <1>2

-----------------------------------------------------------------------------
(***************************************************************************)
(* What a channel carries                                                  *)
(*                                                                         *)
(* t are the timers and d what the listeners have; S are the logs that     *)
(* have been handed over.                                                  *)
(***************************************************************************)
OutType(t, d) == t \in Seq(Timer) /\ d \in [Channels -> Seq(LogIds)]

\* Channel ch carries logs of S, each at most once.
Carries(t, d, ch, S) ==
    /\ \A k \in 1..Len(d[ch]) : d[ch][k] \in S
    /\ \A k, n \in 1..Len(d[ch]) : d[ch][k] = d[ch][n] => k = n
    /\ \A i \in 1..Len(t) : t[i].channel = ch =>
           /\ t[i].log \in S
           /\ \A k \in 1..Len(d[ch]) : d[ch][k] # t[i].log
           /\ \A j \in 1..Len(t) : t[j].channel = ch /\ t[j].log = t[i].log => i = j

\* The delay of channel ch is ms since its first timer, and it carries the
\* logs in the order of the chain.
InOrder(t, d, ch, ms) ==
    /\ \A k, n \in 1..Len(d[ch]) : k < n => d[ch][k] < d[ch][n]
    /\ \A i \in 1..Len(t) : t[i].channel = ch =>
           /\ t[i].lag = ms
           /\ t[i].lag # 0
           /\ \A k \in 1..Len(d[ch]) : d[ch][k] < t[i].log
           /\ \A j \in 1..Len(t) : t[j].channel = ch /\ i < j => t[i].log < t[j].log

\* Log l is on channel ch, delivered or on its way.
On(t, d, ch, l) ==
    \/ \E k \in 1..Len(d[ch]) : d[ch][k] = l
    \/ \E i \in 1..Len(t) : t[i].channel = ch /\ t[i].log = l

\* From t, d to u, f the log l is added to channel c.
AddedTo(t, d, u, f, c, l) ==
    /\ OutType(u, f)
    /\ On(u, f, c, l)
    /\ \A k : On(t, d, c, k) => On(u, f, c, k)
    /\ \A k : On(u, f, c, k) => On(t, d, c, k) \/ k = l
    /\ \A a \in Channels \ {c} : \A k : On(u, f, a, k) <=> On(t, d, a, k)
    /\ \A a \in Channels \ {c} : \A R : Carries(t, d, a, R) => Carries(u, f, a, R)

\* As long as the feed runs, u, f lose nothing of the indexed channel and
\* bring log l to it.
Reaches(u, f, l) ==
    ~stopped =>
        /\ On(u, f, "indexed", l)
        /\ \A k : On(timers, delivered, "indexed", k) => On(u, f, "indexed", k)

\* A log that has not been handed over is added to one channel.
LEMMA EmittedCarries ==
    ASSUME NEW t, NEW d, OutType(t, d), NEW c \in Channels, NEW l \in LogIds,
           NEW S, l \notin S, Carries(t, d, c, S), lag \in [Channels -> Lags],
           NEW o, o = [timers |-> t, delivered |-> d]
    PROVE  LET e == Emitted(o, c, l) IN
           /\ e = [timers |-> e.timers, delivered |-> e.delivered]
           /\ Carries(e.timers, e.delivered, c, S \cup {l})
           /\ AddedTo(t, d, e.timers, e.delivered, c, l)
  <1> DEFINE e == Emitted(o, c, l)
             u == e.timers
             f == e.delivered
             x == [log |-> l, channel |-> c, lag |-> lag[c]]
  <1>1. t \in Seq(Timer) /\ d \in [Channels -> Seq(LogIds)] /\ x \in Timer
    BY DEF OutType, Timer
  <1>2. CASE lag[c] = 0
    <2>1. e = [timers |-> t, delivered |-> [d EXCEPT ![c] = Append(@, l)]]
      BY <1>2 DEF Emitted
    <2> HIDE DEF e
    <2>2. /\ u = t /\ f = [d EXCEPT ![c] = Append(@, l)]
          /\ e = [timers |-> u, delivered |-> f]
      BY <2>1
    <2> HIDE DEF u, f
    <2>3. /\ f \in [Channels -> Seq(LogIds)]
          /\ f[c] = Append(d[c], l)
          /\ \A a \in Channels \ {c} : f[a] = d[a]
      BY <1>1, <2>2
    <2>4. /\ Len(f[c]) = Len(d[c]) + 1 /\ f[c][Len(d[c]) + 1] = l
          /\ \A k \in 1..Len(d[c]) : f[c][k] = d[c][k]
          /\ Len(d[c]) \in Nat
      BY <1>1, <2>3
    <2>5. Carries(u, f, c, S \cup {l})
      BY <2>2, <2>4 DEF Carries
    <2>6. \A a \in Channels \ {c} : \A R : Carries(t, d, a, R) => Carries(u, f, a, R)
      BY <2>2, <2>3 DEF Carries
    <2>7. /\ On(u, f, c, l)
          /\ \A k : On(t, d, c, k) => On(u, f, c, k)
          /\ \A k : On(u, f, c, k) => On(t, d, c, k) \/ k = l
          /\ \A a \in Channels \ {c} : \A k : On(u, f, a, k) <=> On(t, d, a, k)
      <3>1. On(u, f, c, l)
        BY <2>4 DEF On
      <3>2. \A k : On(t, d, c, k) => On(u, f, c, k)
        BY <2>2, <2>4 DEF On
      <3>3. \A k : On(u, f, c, k) => On(t, d, c, k) \/ k = l
        BY <2>2, <2>4 DEF On
      <3>4. \A a \in Channels \ {c} : \A k : On(u, f, a, k) <=> On(t, d, a, k)
        BY <2>2, <2>3 DEF On
      <3> QED
        BY <3>1, <3>2, <3>3, <3>4
    <2>8. OutType(u, f)
      BY <1>1, <2>2, <2>3 DEF OutType
    <2> QED
      BY <2>2, <2>5, <2>6, <2>7, <2>8 DEF AddedTo, e, u, f
  <1>3. CASE lag[c] # 0
    <2>1. e = [timers |-> Append(t, x), delivered |-> d]
      BY <1>3 DEF Emitted
    <2>2. u = Append(t, x) /\ f = d /\ e = [timers |-> u, delivered |-> f]
      BY <2>1
    <2> HIDE DEF e, u, f
    <2>3. /\ u \in Seq(Timer) /\ Len(u) = Len(t) + 1 /\ u[Len(t) + 1] = x
          /\ \A i \in 1..Len(t) : u[i] = t[i]
          /\ Len(t) \in Nat
      BY <1>1, <2>2
    <2>4. x.channel = c /\ x.log = l
      OBVIOUS
    <2> HIDE DEF x
    <2>5. Carries(u, f, c, S \cup {l})
      BY <2>2, <2>3, <2>4 DEF Carries
    <2>6. \A a \in Channels \ {c} : \A R : Carries(t, d, a, R) => Carries(u, f, a, R)
      BY <2>2, <2>3, <2>4 DEF Carries
    <2>7. /\ On(u, f, c, l)
          /\ \A k : On(t, d, c, k) => On(u, f, c, k)
          /\ \A k : On(u, f, c, k) => On(t, d, c, k) \/ k = l
          /\ \A a \in Channels \ {c} : \A k : On(u, f, a, k) <=> On(t, d, a, k)
      BY <2>2, <2>3, <2>4 DEF On
    <2>8. OutType(u, f)
      BY <1>1, <2>2, <2>3 DEF OutType
    <2> QED
      BY <2>2, <2>5, <2>6, <2>7, <2>8 DEF AddedTo, e, u, f
  <1> QED
    BY <1>2, <1>3

\* If it is newer than all that was handed over, the order is kept.
LEMMA EmittedInOrder ==
    ASSUME NEW t, NEW d, OutType(t, d), NEW c \in Channels, NEW l \in LogIds,
           NEW S, Carries(t, d, c, S), S \subseteq LogIds, \A k \in S : k < l,
           lag \in [Channels -> Lags],
           NEW o, o = [timers |-> t, delivered |-> d], InOrder(t, d, c, lag[c])
    PROVE  LET e == Emitted(o, c, l) IN
           /\ InOrder(e.timers, e.delivered, c, lag[c])
           /\ \A a \in Channels \ {c} :
                  InOrder(t, d, a, lag[a]) => InOrder(e.timers, e.delivered, a, lag[a])
  <1> DEFINE e == Emitted(o, c, l)
             u == e.timers
             f == e.delivered
             x == [log |-> l, channel |-> c, lag |-> lag[c]]
  <1>1. t \in Seq(Timer) /\ d \in [Channels -> Seq(LogIds)] /\ x \in Timer
        /\ l \in Int /\ Len(t) \in Nat
    BY DEF OutType, Timer, LogIds
  <1>2. CASE lag[c] = 0
    <2>1. e = [timers |-> t, delivered |-> [d EXCEPT ![c] = Append(@, l)]]
      BY <1>2 DEF Emitted
    <2> HIDE DEF e
    <2>2. /\ u = t /\ f = [d EXCEPT ![c] = Append(@, l)]
          /\ e = [timers |-> u, delivered |-> f]
      BY <2>1
    <2> HIDE DEF u, f
    <2>3. f[c] = Append(d[c], l) /\ \A a \in Channels \ {c} : f[a] = d[a]
      BY <1>1, <2>2
    <2>4. /\ Len(f[c]) = Len(d[c]) + 1 /\ f[c][Len(d[c]) + 1] = l
          /\ \A k \in 1..Len(d[c]) : f[c][k] = d[c][k]
          /\ Len(d[c]) \in Nat
      BY <1>1, <2>3
    <2>5. \A i \in 1..Len(t) : t[i].channel # c
      BY <1>2 DEF InOrder
    <2>6. \A k \in 1..Len(d[c]) : d[c][k] < l
      BY DEF Carries
    <2>7. InOrder(u, f, c, lag[c])
      BY <2>2, <2>4, <2>5, <2>6 DEF InOrder
    <2>8. \A a \in Channels \ {c} : InOrder(t, d, a, lag[a]) => InOrder(u, f, a, lag[a])
      BY <2>2, <2>3 DEF InOrder
    <2> QED
      BY <2>7, <2>8 DEF e, u, f
  <1>3. CASE lag[c] # 0
    <2>1. e = [timers |-> Append(t, x), delivered |-> d]
      BY <1>3 DEF Emitted
    <2>2. u = Append(t, x) /\ f = d
      BY <2>1
    <2> HIDE DEF e, u, f
    <2>3. /\ Len(u) = Len(t) + 1 /\ u[Len(t) + 1] = x
          /\ \A i \in 1..Len(t) : u[i] = t[i]
      BY <1>1, <2>2
    <2>4. x.channel = c /\ x.log = l /\ x.lag = lag[c]
      OBVIOUS
    <2> HIDE DEF x
    <2>5. /\ \A k \in 1..Len(d[c]) : d[c][k] < l
          /\ \A i \in 1..Len(t) : t[i].channel = c => t[i].log < l
      BY DEF Carries
    <2>6. InOrder(u, f, c, lag[c])
      <3>1. \A k, n \in 1..Len(f[c]) : k < n => f[c][k] < f[c][n]
        BY <2>2 DEF InOrder
      <3>2. ASSUME NEW i \in 1..Len(u), u[i].channel = c
            PROVE  /\ u[i].lag = lag[c]
                   /\ u[i].lag # 0
                   /\ \A k \in 1..Len(f[c]) : f[c][k] < u[i].log
                   /\ \A j \in 1..Len(u) : u[j].channel = c /\ i < j => u[i].log < u[j].log
        <4>1. CASE i = Len(t) + 1
          BY <1>1, <1>3, <2>2, <2>3, <2>4, <2>5, <4>1
        <4>2. CASE i \in 1..Len(t)
          BY <1>1, <1>3, <2>2, <2>3, <2>4, <2>5, <3>2, <4>2 DEF InOrder
        <4> QED
          BY <1>1, <2>3, <4>1, <4>2
      <3> QED
        BY <3>1, <3>2 DEF InOrder
    <2>7. ASSUME NEW a \in Channels \ {c}, InOrder(t, d, a, lag[a])
          PROVE  InOrder(u, f, a, lag[a])
      BY <1>1, <2>2, <2>3, <2>4, <2>7 DEF InOrder
    <2> QED
      BY <2>6, <2>7 DEF e, u, f
  <1> QED
    BY <1>2, <1>3

-----------------------------------------------------------------------------
(***************************************************************************)
(* The inductive invariant                                                 *)
(*                                                                         *)
(* The three properties of the channels are not inductive.  A log is       *)
(* handed over when it is not yet in seen, so what a channel carries must  *)
(* be what was seen, without the log whose timestamp is still awaited.     *)
(* For the order, seen must have no gap: a range that is read again after  *)
(* a failure starts with logs that are all seen, and the first unseen log  *)
(* comes right after the last seen one.                                    *)
(***************************************************************************)
Chain ==
    /\ head \in 0..MaxBlock
    /\ logs \in Seq(Nat)
    /\ Len(logs) \in 0..MaxLogs
    /\ \A l \in 1..Len(logs) : logs[l] \in 1..head
    /\ \A k, l \in 1..Len(logs) : k < l => logs[k] <= logs[l]

Polling ==
    /\ pc \in PCs
    /\ tip \in 0..head
    /\ fromBlock \in 0..(tip + 1)
    /\ timestamps \subseteq 1..head
    /\ seen \subseteq 1..Len(logs)
    /\ awaiting \in {NoLog} \cup seen
    /\ batch \in Seq(1..Len(logs))
    /\ awaiting # NoLog => batch # <<>> /\ awaiting = batch[1]
    /\ batch # <<>> => pc \in {"replay", "process"}
    /\ pc \in {"startHead", "startLogs", "replay"} => fromBlock = 0

Progress ==
    /\ \A l \in seen : \A k \in 1..l : k \in seen
    /\ \A l \in 1..Len(logs) : logs[l] < fromBlock => l \in seen
    /\ \A i \in 1..Len(batch) : batch[i] = batch[1] + i - 1
    /\ \A i \in 1..Len(batch) : ~(logs[batch[i]] < fromBlock)
    /\ batch # <<>> => \A k \in 1..(batch[1] - 1) : k \in seen
    /\ awaiting # NoLog => \A k \in seen : k <= awaiting
    /\ pc \in {"replay", "process"} =>
           \A l \in 1..Len(logs) : logs[l] <= tip =>
               l \in seen \/ \E i \in 1..Len(batch) : batch[i] = l

\* t, d: the output; S: the logs handed over.
Outgoing(t, d, S) ==
    /\ OutType(t, d)
    /\ \A ch \in Channels : Carries(t, d, ch, S)
    /\ ~stopped => \A k : On(t, d, "flashblock", k) => On(t, d, "indexed", k)
    /\ lagChanges = 0 => \A ch \in Channels : InOrder(t, d, ch, lag[ch])

Panel ==
    /\ lag \in [Channels -> Lags]
    /\ lagChanges \in Nat
    /\ stopped \in BOOLEAN
    /\ pc \in {"startHead", "startLogs", "replay"} => timers = <<>>

FeedInv ==
    /\ Chain
    /\ Polling
    /\ Progress
    /\ Panel
    /\ Outgoing(timers, delivered, seen \ {awaiting})

\* Every log that was handed over is on the indexed channel.
SeenIsOn ==
    ~stopped => \A k \in seen \ {awaiting} : On(timers, delivered, "indexed", k)

\* A channel carries logs of every larger set, too.
LEMMA CarriesMore ==
    ASSUME NEW t, NEW d, NEW ch, NEW S, NEW R, S \subseteq R, Carries(t, d, ch, S)
    PROVE  Carries(t, d, ch, R)
  BY DEF Carries

\* What goes out for some of the logs goes out for more of them.
LEMMA OutgoingMore ==
    ASSUME NEW t, NEW d, NEW S, NEW R, S \subseteq R, Outgoing(t, d, S)
    PROVE  Outgoing(t, d, R)
  BY CarriesMore DEF Outgoing

\* Handing over a log that was not handed over before and, as far as the
\* order counts, is newer than those that were.
LEMMA HandedOverGoes ==
    ASSUME NEW S, S \subseteq LogIds, NEW l \in LogIds, \A k \in S : k < l,
           Panel, Outgoing(timers, delivered, S)
    PROVE  /\ Outgoing(HandedOver(l).timers, HandedOver(l).delivered, S \cup {l})
           /\ Reaches(HandedOver(l).timers, HandedOver(l).delivered, l)
  <1> DEFINE h == HandedOver(l)
             t == h.timers
             d == h.delivered
             F == "flashblock"
             I == "indexed"
             R == S \cup {l}
  <1>1. /\ OutType(timers, delivered)
        /\ \A ch \in Channels : Carries(timers, delivered, ch, S)
        /\ lag \in [Channels -> Lags]
        /\ Channels = {F, I} /\ F # I
        /\ Out = [timers |-> timers, delivered |-> delivered]
        /\ l \notin S
    BY DEF Outgoing, Panel, Channels, Out, LogIds
  <1>2. CASE pc = "replay"
    <2>1. timers = <<>>
      BY <1>2 DEF Panel
    <2>2. h = [timers |-> timers, delivered |-> [delivered EXCEPT ![I] = Append(@, l)]]
      BY <1>1, <1>2 DEF HandedOver
    <2> HIDE DEF h
    <2>3. t = <<>> /\ d = [delivered EXCEPT ![I] = Append(@, l)]
      BY <2>1, <2>2
    <2> HIDE DEF t, d
    <2>4. /\ delivered \in [Channels -> Seq(LogIds)]
          /\ d \in [Channels -> Seq(LogIds)]
          /\ d[F] = delivered[F] /\ d[I] = Append(delivered[I], l)
          /\ Len(t) = 0 /\ t \in Seq(Timer)
      BY <1>1, <2>3 DEF OutType
    <2>5. /\ Len(d[I]) = Len(delivered[I]) + 1 /\ d[I][Len(delivered[I]) + 1] = l
          /\ \A k \in 1..Len(delivered[I]) : d[I][k] = delivered[I][k]
          /\ Len(delivered[I]) \in Nat
      BY <1>1, <2>4
    <2>6. Carries(t, d, F, R)
      <3>1. Carries(timers, delivered, F, S)
        BY <1>1
      <3> QED
        BY <2>4, <3>1 DEF Carries
    <2>7. Carries(t, d, I, R)
      <3>1. Carries(timers, delivered, I, S)
        BY <1>1
      <3> QED
        BY <1>1, <2>4, <2>5, <3>1 DEF Carries
    <2>8. ASSUME ~stopped, NEW k, On(t, d, F, k)
          PROVE  On(t, d, I, k)
      <3>1. On(timers, delivered, F, k)
        BY <2>4, <2>8 DEF On
      <3>2. On(timers, delivered, I, k)
        BY <2>8, <3>1 DEF Outgoing
      <3> QED
        BY <2>1, <2>5, <3>2 DEF On
    <2>9. ASSUME lagChanges = 0
          PROVE  InOrder(t, d, F, lag[F]) /\ InOrder(t, d, I, lag[I])
      <3>1. InOrder(timers, delivered, F, lag[F]) /\ InOrder(timers, delivered, I, lag[I])
        BY <1>1, <2>9 DEF Outgoing
      <3>2. \A k \in 1..Len(delivered[I]) : delivered[I][k] < l
        BY <1>1 DEF Carries
      <3>3. InOrder(t, d, F, lag[F])
        BY <2>4, <3>1 DEF InOrder
      <3>4. InOrder(t, d, I, lag[I])
        BY <2>4, <2>5, <3>1, <3>2 DEF InOrder
      <3> QED
        BY <3>3, <3>4
    <2>10. OutType(t, d)
      BY <2>4 DEF OutType
    <2>11. Outgoing(t, d, R)
      BY <1>1, <2>6, <2>7, <2>8, <2>9, <2>10 DEF Outgoing
    <2>12. Reaches(t, d, l)
      BY <2>1, <2>5 DEF Reaches, On
    <2> QED
      BY <2>11, <2>12 DEF h, t, d
  <1>3. CASE pc # "replay" /\ stopped
    <2>1. h = Out
      BY <1>3 DEF HandedOver
    <2>2. t = timers /\ d = delivered
      BY <1>1, <2>1
    <2> HIDE DEF t, d, h
    <2>3. Outgoing(t, d, R)
      BY <2>2, OutgoingMore
    <2>4. Reaches(t, d, l)
      BY <1>3 DEF Reaches
    <2> QED
      BY <2>3, <2>4 DEF t, d, h
  <1>4. CASE pc # "replay" /\ ~stopped
    <2> DEFINE m == Emitted(Out, F, l)
               mt == m.timers
               md == m.delivered
    <2>1. h = Emitted(m, I, l)
      BY <1>4 DEF HandedOver
    <2>2. F \in Channels /\ I \in Channels
      BY <1>1
    <2> HIDE DEF h, m
    <2>3. /\ m = [timers |-> mt, delivered |-> md]
          /\ Carries(mt, md, F, R)
          /\ AddedTo(timers, delivered, mt, md, F, l)
      BY <1>1, <2>2, EmittedCarries DEF m
    <2>3a. OutType(mt, md) /\ Carries(mt, md, I, S)
      BY <1>1, <2>2, <2>3 DEF AddedTo
    <2>4. lagChanges = 0 => InOrder(mt, md, F, lag[F]) /\ InOrder(mt, md, I, lag[I])
      <3>1. lagChanges = 0 => /\ InOrder(timers, delivered, F, lag[F])
                              /\ InOrder(timers, delivered, I, lag[I])
        BY <2>2 DEF Outgoing
      <3> QED
        BY <1>1, <2>2, <3>1, EmittedInOrder DEF m
    <2> HIDE DEF mt, md
    <2>5. Carries(t, d, I, R) /\ AddedTo(mt, md, t, d, I, l)
      <3> DEFINE e == Emitted(m, I, l)
      <3>1. Carries(e.timers, e.delivered, I, R) /\ AddedTo(mt, md, e.timers, e.delivered, I, l)
        BY <1>1, <2>2, <2>3, <2>3a, EmittedCarries
      <3> HIDE DEF e
      <3>2. t = e.timers /\ d = e.delivered
        BY <2>1 DEF e
      <3> QED
        BY <3>1, <3>2
    <2>6. lagChanges = 0 => InOrder(t, d, I, lag[I]) /\ InOrder(t, d, F, lag[F])
      <3> DEFINE e == Emitted(m, I, l)
      <3>1. lagChanges = 0 => /\ InOrder(e.timers, e.delivered, I, lag[I])
                              /\ InOrder(e.timers, e.delivered, F, lag[F])
        BY <1>1, <2>2, <2>3, <2>3a, <2>4, EmittedInOrder
      <3> HIDE DEF e
      <3>2. t = e.timers /\ d = e.delivered
        BY <2>1 DEF e
      <3> QED
        BY <3>1, <3>2
    <2> HIDE DEF t, d
    <2>7. ASSUME NEW k, On(t, d, F, k)
          PROVE  On(t, d, I, k)
      <3>1. On(mt, md, F, k)
        BY <1>1, <2>5, <2>7 DEF AddedTo
      <3>2. On(timers, delivered, F, k) \/ k = l
        BY <2>3, <3>1 DEF AddedTo
      <3>3. On(timers, delivered, F, k) => On(timers, delivered, I, k)
        BY <1>4 DEF Outgoing
      <3>4. On(timers, delivered, I, k) => On(mt, md, I, k)
        BY <1>1, <2>3 DEF AddedTo
      <3>5. On(mt, md, I, k) \/ k = l
        BY <3>2, <3>3, <3>4
      <3> QED
        BY <2>5, <3>5 DEF AddedTo
    <2>8. OutType(t, d) /\ Carries(t, d, F, R)
      BY <1>1, <2>3, <2>5 DEF AddedTo
    <2>9. Outgoing(t, d, R)
      BY <1>1, <2>5, <2>6, <2>7, <2>8 DEF Outgoing
    <2>10. Reaches(t, d, l)
      <3>1. \A k : On(timers, delivered, I, k) => On(mt, md, I, k)
        BY <1>1, <2>3 DEF AddedTo
      <3> QED
        BY <2>5, <3>1 DEF Reaches, AddedTo
    <2> QED
      BY <2>9, <2>10 DEF t, d, h
  <1> QED
    BY <1>2, <1>3, <1>4

\* A timer that runs out.
LEMMA FiredGoes ==
    ASSUME FeedInv, NEW i \in 1..Len(timers), FireTimer(i)
    PROVE  /\ Outgoing(timers, delivered, seen \ {awaiting})'
           /\ \A a \in Channels : \A k :
                  On(timers', delivered', a, k) <=> On(timers, delivered, a, k)
  <1> DEFINE S == seen \ {awaiting}
             c == timers[i].channel
             l == timers[i].log
             n == Len(timers)
             was(j) == IF j < i THEN j ELSE j + 1
  <1>1. /\ timers \in Seq(Timer) /\ n \in Nat /\ i \in 1..n
        /\ c \in Channels /\ l \in LogIds
        /\ delivered \in [Channels -> Seq(LogIds)]
        /\ lag' = lag /\ lagChanges' = lagChanges /\ stopped' = stopped
        /\ seen' = seen /\ awaiting' = awaiting
    <2>1. /\ timers \in Seq(Timer) /\ delivered \in [Channels -> Seq(LogIds)]
          /\ lag' = lag /\ lagChanges' = lagChanges /\ stopped' = stopped
          /\ seen' = seen /\ awaiting' = awaiting
      BY DEF FeedInv, Outgoing, OutType, FireTimer, panelVars, pollVars
    <2>2. timers[i] \in Timer /\ n \in Nat
      BY <2>1
    <2> QED
      BY <2>1, <2>2 DEF Timer
  <1>2. /\ timers' \in Seq(Timer)
        /\ Len(timers') = n - 1
        /\ \A j \in 1..(n - 1) : was(j) \in 1..n /\ was(j) # i /\ timers'[j] = timers[was(j)]
        /\ \A j \in 1..n : j # i => \E k \in 1..(n - 1) : was(k) = j
        /\ \A j, k \in 1..(n - 1) : j < k => was(j) < was(k)
    <2>1. timers' = RemoveAt(timers, i)
      BY DEF FireTimer
    <2>2. /\ timers' \in Seq(Timer) /\ Len(timers') = n - 1
          /\ \A j \in 1..(n - 1) : timers'[j] = timers[was(j)]
      BY <1>1, <2>1, RemoveAtIs
    <2>3. ASSUME NEW j \in 1..n, j # i
          PROVE  \E k \in 1..(n - 1) : was(k) = j
      <3>1. CASE j < i
        <4>1. j \in 1..(n - 1) /\ was(j) = j
          BY <1>1, <2>3, <3>1
        <4> QED
          BY <4>1
      <3>2. CASE j > i
        <4>1. j - 1 \in 1..(n - 1) /\ was(j - 1) = j
          BY <1>1, <2>3, <3>2
        <4> QED
          BY <4>1
      <3> QED
        BY <1>1, <2>3, <3>1, <3>2
    <2>4. \A j \in 1..(n - 1) : was(j) \in 1..n /\ was(j) # i
      BY <1>1
    <2>5. \A j, k \in 1..(n - 1) : j < k => was(j) < was(k)
      BY <1>1
    <2> QED
      BY <2>2, <2>3, <2>4, <2>5
  <1>3. /\ delivered' \in [Channels -> Seq(LogIds)]
        /\ delivered'[c] = Append(delivered[c], l)
        /\ \A a \in Channels \ {c} : delivered'[a] = delivered[a]
    <2>1. delivered' = [delivered EXCEPT ![c] = Append(@, l)]
      BY DEF FireTimer
    <2> HIDE DEF c, l
    <2> QED
      BY <1>1, <2>1
  <1>4. /\ Len(delivered'[c]) = Len(delivered[c]) + 1
        /\ delivered'[c][Len(delivered[c]) + 1] = l
        /\ \A k \in 1..Len(delivered[c]) : delivered'[c][k] = delivered[c][k]
        /\ Len(delivered[c]) \in Nat
    <2> HIDE DEF c, l
    <2> QED
      BY <1>1, <1>3
  <1>5. MayFire(i)
    BY DEF FireTimer
  <1> HIDE DEF was
  <1>6. ASSUME NEW a \in Channels
        PROVE  Carries(timers', delivered', a, S)
    <2>1. Carries(timers, delivered, a, S) /\ Carries(timers, delivered, c, S)
      BY <1>1 DEF FeedInv, Outgoing
    <2>2. CASE a = c
      <3> HIDE DEF S
      <3>1. /\ \A k \in 1..Len(delivered'[c]) : delivered'[c][k] \in S
            /\ \A k, m \in 1..Len(delivered'[c]) :
                   delivered'[c][k] = delivered'[c][m] => k = m
        <4>1. /\ l \in S /\ \A k \in 1..Len(delivered[c]) : delivered[c][k] # l
              /\ \A k \in 1..Len(delivered[c]) : delivered[c][k] \in S
              /\ \A k, m \in 1..Len(delivered[c]) :
                     delivered[c][k] = delivered[c][m] => k = m
          BY <1>1, <2>1 DEF Carries
        <4> DEFINE p == delivered[c]
                   q == delivered'[c]
        <4>2. /\ Len(q) = Len(p) + 1 /\ q[Len(p) + 1] = l /\ Len(p) \in Nat
              /\ \A k \in 1..Len(p) : q[k] = p[k]
          BY <1>4
        <4>3. \A k \in 1..Len(p) : p[k] # l /\ p[k] \in S
          BY <4>1
        <4>4. \A k, m \in 1..Len(p) : p[k] = p[m] => k = m
          BY <4>1
        <4> HIDE DEF p, q, l
        <4>5. \A k \in 1..Len(q) : k \in 1..Len(p) \/ k = Len(p) + 1
          BY <4>2
        <4>6. \A k \in 1..Len(q) : q[k] \in S
          BY <4>1, <4>2, <4>3, <4>5
        <4>7. \A k, m \in 1..Len(q) : q[k] = q[m] => k = m
          BY <4>2, <4>3, <4>4, <4>5
        <4> QED
          BY <4>6, <4>7 DEF q
      <3>2. ASSUME NEW j \in 1..(n - 1), timers'[j].channel = c
            PROVE  /\ timers'[j].log \in S
                   /\ \A k \in 1..Len(delivered'[c]) : delivered'[c][k] # timers'[j].log
                   /\ \A k \in 1..(n - 1) : timers'[k].channel = c /\ timers'[k].log = timers'[j].log
                                            => j = k
        <4>1. was(j) \in 1..n /\ was(j) # i /\ timers'[j] = timers[was(j)]
          BY <1>2
        <4>2. /\ timers[was(j)].log \in S
              /\ \A k \in 1..Len(delivered[c]) : delivered[c][k] # timers[was(j)].log
              /\ timers[was(j)].log # l
          BY <1>1, <2>1, <3>2, <4>1 DEF Carries
        <4>3. ASSUME NEW k \in 1..(n - 1), timers'[k].channel = c, timers'[k].log = timers'[j].log
              PROVE  j = k
          <5>1. was(k) \in 1..n /\ timers'[k] = timers[was(k)]
            BY <1>2
          <5>2. was(j) = was(k)
            BY <2>1, <3>2, <4>1, <4>3, <5>1 DEF Carries
          <5>3. ~(j < k) /\ ~(k < j)
            <6>1. was(j) \in Int /\ was(k) \in Int
              BY <1>1, <4>1, <5>1
            <6> QED
              BY <1>2, <5>2, <6>1
          <5> QED
            BY <1>1, <5>3
        <4>4. ASSUME NEW k \in 1..Len(delivered'[c])
              PROVE  delivered'[c][k] # timers'[j].log
          <5>1. CASE k \in 1..Len(delivered[c])
            BY <1>4, <4>1, <4>2, <5>1
          <5>2. CASE k = Len(delivered[c]) + 1
            BY <1>4, <4>1, <4>2, <5>2
          <5> QED
            BY <1>4, <5>1, <5>2
        <4> QED
          BY <4>1, <4>2, <4>3, <4>4
      <3> QED
        BY <1>2, <2>2, <3>1, <3>2 DEF Carries
    <2>3. CASE a # c
      <3> HIDE DEF S
      <3>1. delivered'[a] = delivered[a]
        BY <1>3, <2>3
      <3>2. ASSUME NEW j \in 1..(n - 1), timers'[j].channel = a
            PROVE  /\ timers'[j].log \in S
                   /\ \A k \in 1..Len(delivered[a]) : delivered[a][k] # timers'[j].log
                   /\ \A k \in 1..(n - 1) : timers'[k].channel = a /\ timers'[k].log = timers'[j].log
                                            => j = k
        <4>1. was(j) \in 1..n /\ timers'[j] = timers[was(j)]
          BY <1>2
        <4>2. /\ timers[was(j)].log \in S
              /\ \A k \in 1..Len(delivered[a]) : delivered[a][k] # timers[was(j)].log
          BY <1>1, <2>1, <3>2, <4>1 DEF Carries
        <4>3. ASSUME NEW k \in 1..(n - 1), timers'[k].channel = a, timers'[k].log = timers'[j].log
              PROVE  j = k
          <5>1. was(k) \in 1..n /\ timers'[k] = timers[was(k)]
            BY <1>2
          <5>2. was(j) = was(k)
            BY <2>1, <3>2, <4>1, <4>3, <5>1 DEF Carries
          <5>3. ~(j < k) /\ ~(k < j)
            <6>1. was(j) \in Int /\ was(k) \in Int
              BY <1>1, <4>1, <5>1
            <6> QED
              BY <1>2, <5>2, <6>1
          <5> QED
            BY <1>1, <5>3
        <4> QED
          BY <4>1, <4>2, <4>3
      <3>3. /\ \A k \in 1..Len(delivered[a]) : delivered[a][k] \in S
            /\ \A k, m \in 1..Len(delivered[a]) : delivered[a][k] = delivered[a][m] => k = m
        BY <2>1 DEF Carries
      <3> QED
        BY <1>2, <3>1, <3>2, <3>3 DEF Carries
    <2> QED
      BY <2>2, <2>3
  <1>7. ASSUME NEW a \in Channels, NEW k
        PROVE  On(timers', delivered', a, k) <=> On(timers, delivered, a, k)
    <2>1. ASSUME On(timers', delivered', a, k)
          PROVE  On(timers, delivered, a, k)
      <3>1. ASSUME NEW x \in 1..Len(delivered'[a]), delivered'[a][x] = k
            PROVE  On(timers, delivered, a, k)
        <4>1. CASE a # c
          BY <1>3, <3>1, <4>1 DEF On
        <4>2. CASE a = c /\ x \in 1..Len(delivered[c])
          BY <1>4, <3>1, <4>2 DEF On
        <4>3. CASE a = c /\ x = Len(delivered[c]) + 1
          BY <1>1, <1>4, <3>1, <4>3 DEF On
        <4> QED
          BY <1>4, <3>1, <4>1, <4>2, <4>3
      <3>2. ASSUME NEW j \in 1..(n - 1), timers'[j].channel = a, timers'[j].log = k
            PROVE  On(timers, delivered, a, k)
        BY <1>2, <3>2 DEF On
      <3> QED
        BY <1>2, <2>1, <3>1, <3>2 DEF On
    <2>2. ASSUME On(timers, delivered, a, k)
          PROVE  On(timers', delivered', a, k)
      <3>1. ASSUME NEW x \in 1..Len(delivered[a]), delivered[a][x] = k
            PROVE  On(timers', delivered', a, k)
        <4>1. CASE a # c
          BY <1>3, <3>1, <4>1 DEF On
        <4>2. CASE a = c
          <5>1. x \in 1..Len(delivered'[c]) /\ delivered'[c][x] = k
            BY <1>4, <3>1, <4>2
          <5> QED
            BY <4>2, <5>1 DEF On
        <4> QED
          BY <4>1, <4>2
      <3>2. ASSUME NEW j \in 1..n, timers[j].channel = a, timers[j].log = k
            PROVE  On(timers', delivered', a, k)
        <4>1. CASE j = i
          BY <1>4, <3>2, <4>1 DEF On
        <4>2. CASE j # i
          <5>1. PICK x \in 1..(n - 1) : was(x) = j
            BY <1>2, <4>2
          <5>2. timers'[x] = timers[j]
            BY <1>2, <5>1
          <5> QED
            BY <1>2, <3>2, <5>2 DEF On
        <4> QED
          BY <4>1, <4>2
      <3> QED
        BY <2>2, <3>1, <3>2 DEF On
    <2> QED
      BY <2>1, <2>2
  <1>8. ASSUME lagChanges = 0, NEW a \in Channels
        PROVE  InOrder(timers', delivered', a, lag[a])
    <2>1. InOrder(timers, delivered, a, lag[a]) /\ InOrder(timers, delivered, c, lag[c])
      BY <1>1, <1>8 DEF FeedInv, Outgoing
    <2>2. ASSUME NEW j \in 1..(n - 1), timers'[j].channel = a
          PROVE  /\ timers'[j].lag = lag[a]
                 /\ timers'[j].lag # 0
                 /\ \A k \in 1..Len(delivered[a]) : delivered[a][k] < timers'[j].log
                 /\ \A k \in 1..(n - 1) : timers'[k].channel = a /\ j < k
                                          => timers'[j].log < timers'[k].log
                 /\ a = c => l < timers'[j].log
      <3>1. was(j) \in 1..n /\ was(j) # i /\ timers'[j] = timers[was(j)]
        BY <1>2
      <3>2. /\ timers[was(j)].lag = lag[a]
            /\ timers[was(j)].lag # 0
            /\ \A k \in 1..Len(delivered[a]) : delivered[a][k] < timers[was(j)].log
        BY <2>1, <2>2, <3>1 DEF InOrder
      <3>3. ASSUME NEW k \in 1..(n - 1), timers'[k].channel = a, j < k
            PROVE  timers'[j].log < timers'[k].log
        <4>1. was(k) \in 1..n /\ timers'[k] = timers[was(k)] /\ was(j) < was(k)
          BY <1>2, <3>3
        <4> QED
          BY <2>1, <2>2, <3>1, <3>3, <4>1 DEF InOrder
      <3>4. ASSUME a = c
            PROVE  l < timers[was(j)].log
        <4>1. timers[i].lag = lag[a] /\ timers[i].channel = a
          BY <1>1, <2>1, <3>4 DEF InOrder
        <4>2. ~(was(j) < i)
          <5>1. SUFFICES ASSUME was(j) < i PROVE FALSE
            OBVIOUS
          <5>2. was(j) \in 1..(i - 1)
            BY <1>1, <3>1, <5>1
          <5>3. timers[was(j)].lag > timers[i].lag
            BY <1>5, <5>2 DEF MayFire
          <5>4. lag[a] \in Int
            <6>1. lag \in [Channels -> Lags] /\ Lags \subseteq Nat
              BY FeedAssumption DEF FeedInv, Panel
            <6>2. lag[a] \in Nat
              BY <6>1
            <6> QED
              BY <6>2
          <5> QED
            BY <3>2, <4>1, <5>3, <5>4
        <4>3. i < was(j)
          BY <1>1, <3>1, <4>2
        <4> QED
          BY <1>1, <2>1, <2>2, <3>1, <3>4, <4>1, <4>3 DEF InOrder
      <3> QED
        BY <3>1, <3>2, <3>3, <3>4
    <2>3. \A k, m \in 1..Len(delivered[a]) : k < m => delivered[a][k] < delivered[a][m]
      BY <2>1 DEF InOrder
    <2>4. CASE a = c
      <3>1. \A k \in 1..Len(delivered[c]) : delivered[c][k] < l
        BY <1>1, <2>1 DEF InOrder
      <3>2. \A k, m \in 1..Len(delivered'[c]) : k < m => delivered'[c][k] < delivered'[c][m]
        BY SMTT(60), <1>1, <1>4, <2>3, <2>4, <3>1
      <3>3. ASSUME NEW j \in 1..(n - 1), timers'[j].channel = c,
                   NEW k \in 1..Len(delivered'[c])
            PROVE  delivered'[c][k] < timers'[j].log
        <4>1. CASE k \in 1..Len(delivered[c])
          BY <1>4, <2>2, <2>4, <3>3, <4>1
        <4>2. CASE k = Len(delivered[c]) + 1
          BY <1>4, <2>2, <2>4, <3>3, <4>2
        <4> QED
          BY <1>4, <4>1, <4>2
      <3> QED
        BY <1>2, <2>2, <2>4, <3>2, <3>3 DEF InOrder
    <2>5. CASE a # c
      <3>1. delivered'[a] = delivered[a]
        BY <1>3, <2>5
      <3> QED
        BY <1>2, <2>2, <2>3, <3>1 DEF InOrder
    <2> QED
      BY <2>4, <2>5
  <1>9. ~stopped => \A k : On(timers', delivered', "flashblock", k)
                           => On(timers', delivered', "indexed", k)
    BY <1>7 DEF FeedInv, Outgoing, Channels
  <1>10. OutType(timers', delivered')
    BY <1>2, <1>3 DEF OutType
  <1>11. Outgoing(timers, delivered, seen \ {awaiting})'
    BY <1>1, <1>6, <1>8, <1>9, <1>10 DEF Outgoing
  <1> QED
    BY <1>7, <1>11

-----------------------------------------------------------------------------
(***************************************************************************)
(* What getLogs answers                                                    *)
(***************************************************************************)

\* The logs up to a block are the first ones.
LEMMA LogsUpToIs ==
    ASSUME Chain, NEW b \in Int
    PROVE  /\ LogsUpTo(b) \in 0..Len(logs)
           /\ \A l \in 1..Len(logs) : logs[l] <= b <=> l <= LogsUpTo(b)
  <1> DEFINE S == {l \in 1..Len(logs) : logs[l] <= b}
             n == Len(logs)
             c == Cardinality(S)
  <1>1. n \in Nat /\ \A l \in 1..n : logs[l] \in Int
    BY DEF Chain
  <1>2. \A l \in S : \A k \in 1..l : k \in S
    <2> SUFFICES ASSUME NEW l \in S, NEW k \in 1..l
                 PROVE  k \in S
      OBVIOUS
    <2>1. l \in 1..n /\ k \in 1..n /\ logs[l] <= b
      BY <1>1
    <2>2. logs[k] <= logs[l]
      BY <1>1, <2>1 DEF Chain
    <2> QED
      BY <1>1, <2>1, <2>2
  <1>3. c \in 0..n /\ S = 1..c
    <2>1. S \in SUBSET (1..n)
      OBVIOUS
    <2> HIDE DEF S, n
    <2> QED
      BY <1>1, <1>2, <2>1, WithoutGap
  <1>4. \A l \in 1..n : logs[l] <= b <=> l <= c
    <2>1. \A l \in 1..n : logs[l] <= b <=> l \in S
      OBVIOUS
    <2>2. \A l \in 1..n : l \in 1..c <=> l <= c
      BY <1>3
    <2> HIDE DEF S, n, c
    <2> QED
      BY <1>3, <2>1, <2>2
  <1> QED
    BY <1>3, <1>4 DEF LogsUpTo

\* A range of blocks that goes on after those read so far: its logs in their
\* order, without a gap, after those read so far.
LEMMA BatchIs ==
    ASSUME Chain, NEW from \in Nat, NEW to \in Nat, from <= to + 1
    PROVE  LET s == LogsBetween(from, to) IN
           /\ s \in Seq(1..Len(logs))
           /\ \A i \in 1..Len(s) : s[i] = s[1] + i - 1
           /\ \A i \in 1..Len(s) : ~(logs[s[i]] < from)
           /\ \A k \in 1..(s[1] - 1) : s # <<>> => k \in 1..Len(logs) /\ logs[k] < from
           /\ \A l \in 1..Len(logs) : logs[l] <= to =>
                  logs[l] < from \/ \E i \in 1..Len(s) : s[i] = l
  <1> DEFINE s == LogsBetween(from, to)
             A == LogsUpTo(from - 1)
             B == LogsUpTo(to)
             n == Len(logs)
  <1>1. n \in Nat /\ \A l \in 1..n : logs[l] \in Int
    BY DEF Chain
  <1>2. /\ A \in 0..n /\ \A l \in 1..n : logs[l] <= from - 1 <=> l <= A
        /\ B \in 0..n /\ \A l \in 1..n : logs[l] <= to <=> l <= B
    <2>1. from - 1 \in Int /\ to \in Int
      OBVIOUS
    <2>2. A \in 0..n /\ \A l \in 1..n : logs[l] <= from - 1 <=> l <= A
      <3> DEFINE b == from - 1
      <3>1. b \in Int
        BY <2>1
      <3> HIDE DEF b
      <3>2. LogsUpTo(b) \in 0..n /\ \A l \in 1..n : logs[l] <= b <=> l <= LogsUpTo(b)
        BY <3>1, LogsUpToIs
      <3> QED
        BY <3>2 DEF b
    <2>3. B \in 0..n /\ \A l \in 1..n : logs[l] <= to <=> l <= B
      BY <2>1, LogsUpToIs
    <2> QED
      BY <2>2, <2>3
  <1>3. s = [k \in 1..(B - A) |-> A + k]
    BY DEF LogsBetween
  <1> HIDE DEF s, A, B, n
  <1>4. A <= B
    <2>1. CASE A = 0
      BY <1>1, <1>2, <2>1
    <2>2. CASE A # 0
      <3>1. A \in 1..n /\ logs[A] <= from - 1
        BY <1>1, <1>2, <2>2
      <3>2. logs[A] <= to
        BY <1>1, <3>1
      <3> QED
        BY <1>1, <1>2, <3>1, <3>2
    <2> QED
      BY <2>1, <2>2
  <1>5. Len(s) = B - A /\ B - A \in Nat /\ s \in Seq(1..n)
        /\ \A i \in 1..(B - A) : s[i] = A + i
    <2> DEFINE N == B - A
    <2>1. N \in Nat /\ \A i \in 1..N : A + i \in 1..n
      BY <1>1, <1>2, <1>4
    <2>2. s = [k \in 1..N |-> A + k]
      BY <1>3
    <2> HIDE DEF N
    <2>3. \A i \in 1..N : s[i] = A + i
      BY <2>2
    <2>4. s \in [1..N -> 1..n]
      <3> DEFINE R == 1..n
      <3>1. \A i \in 1..N : A + i \in R
        BY <2>1
      <3> HIDE DEF R
      <3>2. s \in [1..N -> R]
        BY <2>2, <3>1
      <3> QED
        BY <3>2 DEF R
    <2>5. Len(s) = N /\ s \in Seq(1..n)
      <3> DEFINE R == 1..n
      <3> HIDE DEF R
      <3>a. s \in [1..N -> R] /\ N \in Nat
        BY <2>1, <2>4 DEF R
      <3>1. s \in Seq(R)
        BY <3>a
      <3>2. Len(s) = N
        BY <2>1, <2>2
      <3> QED
        BY <3>1, <3>2 DEF R
    <2> QED
      BY <2>1, <2>3, <2>5 DEF N
  <1>6. ASSUME NEW i \in 1..Len(s)
        PROVE  s[i] = s[1] + i - 1
    BY <1>2, <1>5
  <1>6a. ASSUME NEW i \in 1..Len(s)
         PROVE  ~(logs[s[i]] < from)
    <2>1. s[i] \in 1..n /\ ~(s[i] <= A)
      BY <1>1, <1>2, <1>5
    <2> QED
      BY <1>1, <1>2, <2>1
  <1>7. ASSUME s # <<>>, NEW k \in 1..(s[1] - 1)
        PROVE  k \in 1..n /\ logs[k] < from
    <2>1. Len(s) # 0 /\ s[1] = A + 1
      BY <1>2, <1>5, <1>7
    <2>2. k \in 1..n /\ k <= A
      BY <1>1, <1>2, <1>7, <2>1
    <2> QED
      BY <1>1, <1>2, <2>2
  <1>8. ASSUME NEW l \in 1..n, logs[l] <= to, ~(logs[l] < from)
        PROVE  \E i \in 1..Len(s) : s[i] = l
    <2>1. l <= B /\ ~(l <= A)
      BY <1>1, <1>2, <1>8
    <2>2. l - A \in 1..Len(s) /\ s[l - A] = l
      BY <1>1, <1>2, <1>5, <2>1
    <2> QED
      BY <2>2
  <1> QED
    BY <1>5, <1>6, <1>6a, <1>7, <1>8 DEF s, n

-----------------------------------------------------------------------------
(***************************************************************************)
(* The steps                                                               *)
(***************************************************************************)

\* A new block concerns nothing that was read before.
LEMMA MineKeeps ==
    ASSUME FeedInv, NEW n \in 0..2, Mine(n)
    PROVE  FeedInv'
  <1> DEFINE m == Len(logs)
             new == [i \in 1..n |-> head + 1]
  <1>1. /\ head \in Nat /\ logs \in Seq(Nat) /\ m \in Nat /\ n \in Nat
        /\ head' = head + 1 /\ head < MaxBlock /\ MaxBlock \in Nat
        /\ m + n <= MaxLogs /\ MaxLogs \in Nat
    BY FeedAssumption DEF FeedInv, Chain, Mine
  <1>2. /\ logs' \in Seq(Nat) /\ Len(logs') = m + n
        /\ \A l \in 1..m : logs'[l] = logs[l]
        /\ \A l \in 1..(m + n) : l \in 1..m \/ logs'[l] = head + 1
    <2>1. logs' = logs \o new /\ new \in Seq(Nat) /\ Len(new) = n
          /\ \A i \in 1..n : new[i] = head + 1
      BY <1>1 DEF Mine
    <2> HIDE DEF new
    <2>2. logs' \in Seq(Nat) /\ Len(logs') = m + n
      BY <1>1, <2>1
    <2>3. \A l \in 1..m : logs'[l] = logs[l]
      BY <1>1, <2>1
    <2>4. ASSUME NEW l \in 1..(m + n), l \notin 1..m
          PROVE  logs'[l] = head + 1
      <3>1. l - m \in 1..n /\ logs'[l] = new[l - m]
        BY <1>1, <2>1, <2>4
      <3> QED
        BY <2>1, <3>1
    <2> QED
      BY <2>2, <2>3, <2>4
  <1>3. \A l \in 1..m : logs[l] \in 1..head
    BY DEF FeedInv, Chain
  <1>4. Chain'
    <2>1. head' \in 0..MaxBlock /\ Len(logs') \in 0..MaxLogs
      BY <1>1, <1>2
    <2>2. ASSUME NEW l \in 1..(m + n)
          PROVE  logs'[l] \in 1..head'
      <3>1. CASE l \in 1..m
        <4>1. logs'[l] = logs[l] /\ logs[l] \in 1..head
          BY <1>2, <1>3, <3>1
        <4> QED
          BY <1>1, <4>1
      <3>2. CASE l \notin 1..m
        BY <1>1, <1>2, <3>2
      <3> QED
        BY <3>1, <3>2
    <2>3. ASSUME NEW k \in 1..(m + n), NEW l \in 1..(m + n), k < l
          PROVE  logs'[k] <= logs'[l]
      <3>1. CASE l \in 1..m
        <4>1. k \in 1..m
          BY <1>1, <2>3, <3>1
        <4>2. logs[k] <= logs[l]
          BY <2>3, <3>1, <4>1 DEF FeedInv, Chain
        <4> QED
          BY <1>2, <3>1, <4>1, <4>2
      <3>2. CASE l \notin 1..m
        <4>1. logs'[l] = head + 1 /\ logs'[k] \in 1..(head + 1)
          BY <1>1, <1>2, <2>2, <3>2
        <4> QED
          BY <1>1, <4>1
      <3> QED
        BY <3>1, <3>2
    <2> QED
      BY <1>2, <2>1, <2>2, <2>3 DEF Chain
  <1>5. /\ UNCHANGED <<pc, tip, fromBlock, batch, awaiting, seen, timestamps>>
        /\ UNCHANGED <<timers, delivered, lag, lagChanges, stopped>>
    BY DEF Mine, pollVars, outVars, panelVars
  <1>6. Polling'
    <2>1. (1..m) \subseteq 1..Len(logs') /\ (1..head) \subseteq 1..head'
      BY <1>1, <1>2
    <2>2. batch \in Seq(1..Len(logs'))
      <3>1. batch \in Seq(1..m)
        BY DEF FeedInv, Polling
      <3> QED
        BY <2>1, <3>1, SeqMore
    <2>3. tip \in 0..head' /\ fromBlock \in 0..(tip + 1)
      BY <1>1 DEF FeedInv, Polling
    <2> QED
      BY <1>5, <2>1, <2>2, <2>3 DEF FeedInv, Polling
  <1>7. Progress'
    <2>1. tip \in 0..head /\ fromBlock \in 0..(tip + 1)
      BY DEF FeedInv, Polling
    <2>2. ASSUME NEW l \in 1..Len(logs'), logs'[l] <= tip \/ logs'[l] < fromBlock
          PROVE  l \in 1..m /\ logs'[l] = logs[l]
      BY SMTT(60), <1>1, <1>2, <2>1, <2>2
    <2>3. \A l \in 1..Len(logs') : logs'[l] < fromBlock => l \in seen
      BY <2>2 DEF FeedInv, Progress
    <2>4. pc \in {"replay", "process"} =>
           \A l \in 1..Len(logs') : logs'[l] <= tip =>
               l \in seen \/ \E i \in 1..Len(batch) : batch[i] = l
      BY <2>2 DEF FeedInv, Progress
    <2>5. \A i \in 1..Len(batch) : batch[i] \in 1..m /\ logs'[batch[i]] = logs[batch[i]]
      BY SMTT(60), <1>2 DEF FeedInv, Polling
    <2> QED
      BY <1>5, <2>3, <2>4, <2>5 DEF FeedInv, Progress
  <1>8. Panel' /\ Outgoing(timers, delivered, seen \ {awaiting})'
    BY <1>5 DEF FeedInv, Panel, Outgoing, OutType, InOrder, Carries, On
  <1> QED
    BY <1>4, <1>6, <1>7, <1>8 DEF FeedInv

\* The panel and the timers read nothing.
LEMMA PanelKeeps ==
    ASSUME FeedInv,
           \/ \E ch \in Channels, ms \in Lags : MoveSlider(ch, ms)
           \/ \E i \in 1..Len(timers) : FireTimer(i)
           \/ Stop
    PROVE  FeedInv'
  <1>1. /\ UNCHANGED <<head, logs, tip, fromBlock, batch, awaiting, seen, timestamps>>
        /\ pc' = pc \/ (pc = "idle" /\ pc' = "done")
    BY DEF MoveSlider, FireTimer, Stop, chainVars, pollVars
  <1>2. Chain' /\ Polling' /\ Progress'
    <2>1. Chain'
      BY <1>1 DEF FeedInv, Chain
    <2>2. Polling'
      BY <1>1 DEF FeedInv, Polling, PCs
    <2>3. Progress'
      BY <1>1 DEF FeedInv, Progress
    <2> QED
      BY <2>1, <2>2, <2>3
  <1>3. ASSUME NEW ch \in Channels, NEW ms \in Lags, MoveSlider(ch, ms)
        PROVE  Panel' /\ Outgoing(timers, delivered, seen \ {awaiting})'
    <2>1. /\ lagChanges' = lagChanges + 1 /\ lagChanges' # 0
          /\ UNCHANGED <<timers, delivered, stopped, seen, awaiting, pc>>
      BY <1>3 DEF MoveSlider, FeedInv, Panel, outVars, pollVars
    <2>2. Panel'
      BY <1>3, <2>1 DEF FeedInv, Panel, MoveSlider
    <2>3. Outgoing(timers, delivered, seen \ {awaiting})'
      BY <2>1 DEF FeedInv, Outgoing, OutType, Carries, On
    <2> QED
      BY <2>2, <2>3
  <1>4. ASSUME NEW i \in 1..Len(timers), FireTimer(i)
        PROVE  Panel' /\ Outgoing(timers, delivered, seen \ {awaiting})'
    <2>1. UNCHANGED <<lag, lagChanges, stopped, pc>> /\ timers # <<>>
      BY <1>4 DEF FireTimer, panelVars, pollVars
    <2>2. Panel'
      BY <2>1 DEF FeedInv, Panel
    <2> QED
      BY <1>4, <2>2, FiredGoes
  <1>5. ASSUME Stop
        PROVE  Panel' /\ Outgoing(timers, delivered, seen \ {awaiting})'
    <2>1. /\ timers' = <<>> /\ stopped' /\ stopped' = TRUE
          /\ UNCHANGED <<delivered, seen, awaiting, lag, lagChanges>>
      BY <1>5 DEF Stop
    <2>2. Panel'
      BY <1>1, <2>1 DEF FeedInv, Panel
    <2>3. OutType(timers', delivered')
      BY <2>1 DEF FeedInv, Outgoing, OutType
    <2>4. \A ch \in Channels : Carries(timers', delivered', ch, seen \ {awaiting})
      BY <2>1 DEF FeedInv, Outgoing, Carries
    <2>5. lagChanges' = 0 => \A ch \in Channels : InOrder(timers', delivered', ch, lag'[ch])
      BY <2>1 DEF FeedInv, Outgoing, InOrder
    <2> QED
      BY <2>1, <2>2, <2>3, <2>4, <2>5 DEF Outgoing
  <1> QED
    BY <1>2, <1>3, <1>4, <1>5 DEF FeedInv

\* Waiting for the head or for the next tick.
LEMMA WaitingKeeps ==
    ASSUME FeedInv,
           \/ \E h \in 0..head : ReadStartHead(h)
           \/ Tick
           \/ \E h \in 0..head : ReadHead(h)
    PROVE  FeedInv'
  <1>1. /\ UNCHANGED <<head, logs, fromBlock, batch, awaiting, seen, timestamps>>
        /\ UNCHANGED <<timers, delivered, lag, lagChanges, stopped>>
        /\ pc \in {"startHead", "idle", "pollHead"}
        /\ pc' \in PCs \ {"replay", "process"}
        /\ pc' \in {"startHead", "startLogs", "replay"} => pc = "startHead"
        /\ tip' \in 0..head
        /\ tip' >= tip \/ (pc = "startHead")
    BY DEF ReadStartHead, Tick, ReadHead, NextTick, PCs, chainVars, outVars, panelVars,
           FeedInv, Polling, Chain
  <1>2. Chain'
    BY <1>1 DEF FeedInv, Chain
  <1>3. Polling'
    <2>1. head \in Nat
      BY DEF FeedInv, Chain
    <2>2. tip \in 0..head /\ fromBlock \in 0..(tip + 1) /\ (pc = "startHead" => fromBlock = 0)
      BY DEF FeedInv, Polling
    <2>3. fromBlock \in 0..(tip' + 1)
      <3> DEFINE u == tip'
      <3>1. u \in 0..head /\ (u >= tip \/ fromBlock = 0)
        BY <1>1, <2>2
      <3> HIDE DEF u
      <3>2. fromBlock \in 0..(u + 1)
        BY <2>1, <2>2, <3>1
      <3> QED
        BY <3>2 DEF u
    <2> QED
      BY <1>1, <2>3 DEF FeedInv, Polling
  <1>4. Progress'
    BY <1>1 DEF FeedInv, Progress
  <1>5. Panel'
    BY <1>1 DEF FeedInv, Panel
  <1>6. Outgoing(timers, delivered, seen \ {awaiting})'
    BY <1>1 DEF FeedInv, Outgoing, OutType, Carries, On, InOrder
  <1> QED
    BY <1>2, <1>3, <1>4, <1>5, <1>6 DEF FeedInv

\* A range of blocks is read.  What is below its first block was all seen, so
\* its first unseen log is the next one.
LEMMA RangeKeeps ==
    ASSUME FeedInv, ReadStartLogs \/ ReadLogs
    PROVE  FeedInv'
  <1>1. /\ UNCHANGED <<head, logs, tip, fromBlock, awaiting, seen, timestamps>>
        /\ UNCHANGED <<timers, delivered, lag, lagChanges, stopped>>
        /\ pc \in {"startLogs", "pollLogs"}
        /\ batch = <<>> /\ awaiting = NoLog
    BY DEF ReadStartLogs, ReadLogs, chainVars, outVars, panelVars, FeedInv, Polling
  <1>2. Chain'
    BY <1>1 DEF FeedInv, Chain
  <1>3. Outgoing(timers, delivered, seen \ {awaiting})'
    BY <1>1 DEF FeedInv, Outgoing, OutType, Carries, On, InOrder
  <1>4. CASE stopped /\ pc = "startLogs"
    <2>1. pc' = "done" /\ batch' = batch
      BY <1>4 DEF ReadStartLogs, ReadLogs
    <2> QED
      BY <1>1, <1>2, <1>3, <2>1 DEF FeedInv, Polling, Progress, Panel, PCs
  <1>5. CASE ~(stopped /\ pc = "startLogs")
    <2> DEFINE s == LogsBetween(fromBlock, tip)
    <2>1. /\ batch' = s
          /\ pc' = IF pc = "startLogs" THEN "replay" ELSE "process"
      BY <1>5 DEF ReadStartLogs, ReadLogs, FeedInv, Polling
    <2>2. Chain /\ fromBlock \in Nat /\ tip \in Nat /\ fromBlock <= tip + 1
      BY DEF FeedInv, Polling, Chain
    <2>3. /\ s \in Seq(1..Len(logs))
          /\ \A i \in 1..Len(s) : s[i] = s[1] + i - 1
          /\ \A i \in 1..Len(s) : ~(logs[s[i]] < fromBlock)
          /\ \A k \in 1..(s[1] - 1) : s # <<>> => k \in 1..Len(logs) /\ logs[k] < fromBlock
          /\ \A l \in 1..Len(logs) : logs[l] <= tip =>
                 logs[l] < fromBlock \/ \E i \in 1..Len(s) : s[i] = l
      BY <2>2, BatchIs
    <2> HIDE DEF s
    <2>4. Polling'
      BY <1>1, <2>1, <2>3 DEF FeedInv, Polling, PCs
    <2>5. Progress'
      <3>1. \A l \in 1..Len(logs) : logs[l] < fromBlock => l \in seen
        BY DEF FeedInv, Progress
      <3> QED
        BY <1>1, <2>1, <2>3, <3>1 DEF FeedInv, Progress
    <2>6. Panel'
      BY <1>1, <2>1 DEF FeedInv, Panel
    <2> QED
      BY <1>2, <1>3, <2>4, <2>5, <2>6 DEF FeedInv
  <1> QED
    BY <1>4, <1>5

\* The range is done, or a call failed.
LEMMA EndKeeps ==
    ASSUME FeedInv, FinishReplay \/ FinishRange \/ Fail
    PROVE  FeedInv'
  <1>1. /\ UNCHANGED <<head, logs, tip, seen, timestamps>>
        /\ UNCHANGED <<timers, delivered, lag, lagChanges, stopped>>
        /\ batch' = <<>>
        /\ pc' \in {"pollHead", "done", "idle", "dead"}
    BY DEF FinishReplay, FinishRange, Fail, NextTick, chainVars, outVars, panelVars
  <1>2. Chain' /\ Panel'
    BY <1>1 DEF FeedInv, Chain, Panel
  <1>3. awaiting' = NoLog /\ awaiting' \notin seen
    BY DEF FinishReplay, FinishRange, Fail, FeedInv, Polling, NoLog
  <1>4. Polling'
    <2>1. fromBlock' \in 0..(tip + 1) /\ batch' \in Seq(1..Len(logs))
      BY <1>1 DEF FinishReplay, FinishRange, Fail, FeedInv, Polling, Chain
    <2> QED
      BY <1>1, <1>3, <2>1 DEF FeedInv, Polling, PCs
  <1>5. Progress'
    <2>1. CASE fromBlock' = fromBlock
      BY <1>1, <1>3, <2>1 DEF FeedInv, Progress
    <2>2. CASE fromBlock' # fromBlock
      <3>1. fromBlock' = tip + 1 /\ batch = <<>> /\ pc \in {"replay", "process"}
        BY <2>2 DEF FinishReplay, FinishRange, Fail
      <3>2. \A l \in 1..Len(logs) : logs[l] <= tip => l \in seen
        BY <3>1 DEF FeedInv, Progress
      <3>3. \A l \in 1..Len(logs) : logs[l] < fromBlock' => logs[l] <= tip
        BY <3>1 DEF FeedInv, Chain, Polling
      <3> QED
        BY <1>1, <1>3, <3>2, <3>3 DEF FeedInv, Progress
    <2> QED
      BY <2>1, <2>2
  <1>6. Outgoing(timers, delivered, seen \ {awaiting})'
    <2>1. Outgoing(timers, delivered, seen)
      BY OutgoingMore DEF FeedInv
    <2>2. (seen \ {awaiting})' = seen
      BY <1>1, <1>3
    <2> QED
      BY <1>1, <2>1, <2>2 DEF Outgoing, OutType, Carries, On, InOrder
  <1> QED
    BY <1>2, <1>4, <1>5, <1>6 DEF FeedInv

\* The first log of the range is done with.
LEMMA TailKeeps ==
    ASSUME Chain, Polling, Progress, batch # <<>>,
           batch' = Tail(batch), seen' = seen \cup {batch[1]}, awaiting' = NoLog,
           UNCHANGED <<logs, pc, tip, fromBlock>>
    PROVE  Progress' /\ batch' \in Seq(1..Len(logs))
  <1> DEFINE R == 1..Len(logs)
             b == batch
             c == batch'
             l == batch[1]
             n == Len(batch)
  <1>1. b \in Seq(R) /\ n \in Nat \ {0}
    BY DEF Polling
  <1>2. /\ c \in Seq(R) /\ Len(c) = n - 1
        /\ \A i \in 1..(n - 1) : c[i] = b[i + 1]
    <2> HIDE DEF R
    <2> QED
      BY <1>1
  <1>3. /\ \A i \in 1..n : b[i] \in R /\ b[i] = l + i - 1 /\ ~(logs[b[i]] < fromBlock)
        /\ R \subseteq Nat /\ l \in Nat
    <2>1. \A i \in 1..n : b[i] \in R /\ b[i] = l + i - 1 /\ ~(logs[b[i]] < fromBlock)
      BY <1>1 DEF Progress
    <2>2. Len(logs) \in Nat
      BY DEF Chain
    <2>3. 1 \in 1..n
      BY <1>1
    <2> QED
      BY <2>1, <2>2, <2>3
  <1>4. /\ \A k \in 1..(l - 1) : k \in seen
        /\ \A k \in seen : \A j \in 1..k : j \in seen
        /\ seen \subseteq R
    BY <1>1 DEF Progress, Polling
  <1> HIDE DEF R, b, c, l, n
  <1>5. \A i \in 1..(n - 1) : c[i] = c[1] + i - 1
    <2>1. ASSUME NEW i \in 1..(n - 1)
          PROVE  c[i] = c[1] + i - 1
      <3>1. 1 \in 1..(n - 1) /\ 2 \in 1..n /\ i + 1 \in 1..n
        BY <1>1, <2>1
      <3>2. c[1] = b[2] /\ b[2] = l + 1 /\ c[i] = b[i + 1] /\ b[i + 1] = l + i
        BY <1>2, <1>3, <3>1
      <3> QED
        BY <1>3, <3>2
    <2> QED
      BY <2>1
  <1>5a. \A i \in 1..(n - 1) : ~(logs[c[i]] < fromBlock)
    <2>1. \A i \in 1..(n - 1) : i + 1 \in 1..n
      BY <1>1
    <2> QED
      BY <1>2, <1>3, <2>1
  <1>6. ASSUME n - 1 # 0, NEW k \in 1..(c[1] - 1)
        PROVE  k \in seen \cup {l}
    <2>1. 1 \in 1..(n - 1) /\ 2 \in 1..n
      BY <1>1, <1>6
    <2>2. c[1] = l + 1
      BY <1>2, <1>3, <2>1
    <2> QED
      BY <1>3, <1>4, <1>6, <2>2
  <1>7. ASSUME NEW k \in seen \cup {l}, NEW j \in 1..k
        PROVE  j \in seen \cup {l}
    <2>1. CASE k \in seen
      BY <1>4, <1>7, <2>1
    <2>2. CASE k = l
      BY <1>3, <1>4, <1>7, <2>2
    <2> QED
      BY <2>1, <2>2
  <1>8. ASSUME NEW x, \E i \in 1..n : b[i] = x
        PROVE  x \in seen \cup {l} \/ \E i \in 1..(n - 1) : c[i] = x
    <2>1. PICK i \in 1..n : b[i] = x
      BY <1>8
    <2>2. CASE i = 1
      BY <1>3, <2>1, <2>2
    <2>3. CASE i # 1
      <3>1. i - 1 \in 1..(n - 1) /\ c[i - 1] = b[i]
        BY <1>1, <1>2, <2>1, <2>3
      <3> QED
        BY <2>1, <3>1
    <2> QED
      BY <2>2, <2>3
  <1>9. seen' = seen \cup {l} /\ Len(c) \in Nat /\ (Len(c) = n - 1)
    BY <1>1, <1>2 DEF l
  <1>10. c # <<>> => n - 1 # 0
    BY <1>1, <1>2
  <1>11. Progress'
    <2>1. \A i \in R : logs[i] < fromBlock => i \in seen
      BY DEF Progress, R
    <2>2. pc \in {"replay", "process"} =>
           \A k \in R : logs[k] <= tip => k \in seen \/ \E i \in 1..n : b[i] = k
      BY DEF Progress, R, b, n
    <2>3. pc \in {"replay", "process"} =>
           \A k \in R : logs[k] <= tip => k \in seen \cup {l} \/ \E i \in 1..(n - 1) : c[i] = k
      BY <1>8, <2>2
    <2> QED
      BY <1>5, <1>5a, <1>6, <1>7, <1>9, <1>10, <2>1, <2>3 DEF Progress, R, c
  <1> QED
    BY <1>2, <1>11 DEF R, c

\* normalize, up to its await.
LEMMA TakeLogKeeps ==
    ASSUME FeedInv, TakeLog
    PROVE  FeedInv' /\ (SeenIsOn => SeenIsOn')
  <1> DEFINE l == batch[1]
  <1>1. /\ batch # <<>> /\ awaiting = NoLog /\ Head(batch) = l
        /\ l \in 1..Len(logs) /\ l \in LogIds
        /\ pc \in {"replay", "process"}
        /\ 1..Len(logs) \subseteq LogIds /\ NoLog \notin 1..Len(logs)
    <2>1. batch # <<>> /\ awaiting = NoLog /\ batch \in Seq(1..Len(logs))
          /\ pc \in {"replay", "process"}
      BY DEF TakeLog, FeedInv, Polling
    <2>2. Head(batch) = l /\ 1 \in 1..Len(batch)
      BY <2>1
    <2>3. 1..Len(logs) \subseteq LogIds /\ NoLog \notin 1..Len(logs)
      BY FeedAssumption DEF FeedInv, Chain, LogIds, NoLog
    <2> QED
      BY <2>1, <2>2, <2>3
  <1>2. /\ UNCHANGED <<head, logs, pc, tip, fromBlock, timestamps, lag, lagChanges, stopped>>
        /\ seen' = seen \cup {l}
    BY <1>1 DEF TakeLog, chainVars, panelVars
  <1>3. /\ Chain /\ Polling /\ Progress /\ Panel
        /\ Outgoing(timers, delivered, seen \ {awaiting})
        /\ seen \ {awaiting} = seen /\ seen \subseteq 1..Len(logs)
    BY <1>1 DEF FeedInv, Polling
  <1>4. Chain'
    BY <1>2, <1>3 DEF Chain
  <1>5. CASE awaiting' = NoLog /\ batch' = Tail(batch)
    <2>1. Progress' /\ batch' \in Seq(1..Len(logs))
      BY <1>1, <1>2, <1>3, <1>5, TailKeeps
    <2>2. Polling'
      BY <1>1, <1>2, <1>3, <1>5, <2>1 DEF Polling
    <2>3. (seen \ {awaiting})' = seen \cup {l}
      BY <1>1, <1>2, <1>3, <1>5
    <2>4. CASE l \in seen
      <3>1. UNCHANGED <<timers, delivered>>
        BY <1>1, <2>4 DEF TakeLog, outVars
      <3>2. Outgoing(timers, delivered, seen \ {awaiting})'
        BY <1>2, <1>3, <2>3, <2>4, <3>1 DEF Outgoing, OutType, Carries, On, InOrder
      <3>3. SeenIsOn => SeenIsOn'
        BY <1>2, <1>3, <2>3, <2>4, <3>1 DEF SeenIsOn, On
      <3> QED
        BY <1>2, <1>3, <1>4, <2>1, <2>2, <3>1, <3>2, <3>3 DEF FeedInv, Panel
    <2>5. CASE l \notin seen
      <3>1. HandOver(l)
        <4>1. awaiting' # l
          BY <1>1, <1>5
        <4> QED
          BY <1>1, <2>5, <4>1 DEF TakeLog
      <3>2. \A k \in seen : k < l
        <4>1. \A k \in seen : l \notin 1..k
          BY <1>3, <2>5 DEF Progress
        <4>2. \A k \in seen : k \in Nat /\ l \in Nat /\ l >= 1
          BY <1>1, <1>3
        <4> QED
          BY <4>1, <4>2
      <3>3. /\ Outgoing(HandedOver(l).timers, HandedOver(l).delivered, seen \cup {l})
            /\ Reaches(HandedOver(l).timers, HandedOver(l).delivered, l)
        BY <1>1, <1>3, <3>2, HandedOverGoes
      <3>4. timers' = HandedOver(l).timers /\ delivered' = HandedOver(l).delivered
        BY <3>1 DEF HandOver
      <3>5. Outgoing(timers', delivered', seen \cup {l}) /\ Reaches(timers', delivered', l)
        BY <3>3, <3>4
      <3>6. Outgoing(timers, delivered, seen \ {awaiting})'
        BY SMTT(60), <1>2, <2>3, <3>5 DEF Outgoing, OutType, Carries, On, InOrder
      <3>7. Panel'
        <4>1. pc = "replay" => timers' = <<>>
          <5>1. pc = "replay" => HandedOver(l).timers = timers
            BY DEF HandedOver, Out
          <5> QED
            BY <1>3, <3>4, <5>1 DEF Panel
        <4> QED
          BY <1>1, <1>2, <1>3, <4>1 DEF Panel
      <3>8. SeenIsOn => SeenIsOn'
        BY <1>2, <1>3, <2>3, <3>5 DEF SeenIsOn, Reaches, On
      <3> QED
        BY <1>4, <2>1, <2>2, <3>6, <3>7, <3>8 DEF FeedInv
    <2> QED
      BY <2>4, <2>5
  <1>6. CASE ~(awaiting' = NoLog /\ batch' = Tail(batch))
    <2>1. l \notin seen /\ awaiting' = l /\ UNCHANGED <<batch, timers, delivered>>
      BY <1>1, <1>6 DEF TakeLog, outVars
    <2>2. Polling'
      BY <1>1, <1>2, <1>3, <2>1 DEF Polling
    <2>3. Progress'
      <3>1. \A k \in seen \cup {l} : k <= l
        <4>1. \A k \in seen : l \notin 1..k
          BY <1>3, <2>1 DEF Progress
        <4>2. \A k \in seen : k \in Nat /\ l \in Nat /\ l >= 1
          BY <1>1, <1>3
        <4> QED
          BY <1>1, <4>1, <4>2
      <3>2. \A k \in seen \cup {l} : \A j \in 1..k : j \in seen \cup {l}
        <4>1. \A k \in 1..(l - 1) : k \in seen
          BY <1>1, <1>3 DEF Progress
        <4>2. \A k \in seen : \A j \in 1..k : j \in seen
          BY <1>3 DEF Progress
        <4>3. l \in Nat
          BY <1>1
        <4> HIDE DEF l
        <4>4. \A j \in 1..l : j \in seen \cup {l}
          BY <4>1, <4>3
        <4> QED
          BY <4>2, <4>4
      <3> QED
        BY <1>1, <1>2, <1>3, <2>1, <3>1, <3>2 DEF Progress
    <2>4. (seen \ {awaiting})' = seen
      BY <1>2, <2>1
    <2>5. Outgoing(timers, delivered, seen \ {awaiting})'
      BY <1>2, <1>3, <2>1, <2>4 DEF Outgoing, OutType, Carries, On, InOrder
    <2>6. SeenIsOn => SeenIsOn'
      BY <1>2, <1>3, <2>1, <2>4 DEF SeenIsOn, On
    <2> QED
      BY <1>2, <1>3, <1>4, <2>1, <2>2, <2>3, <2>5, <2>6 DEF FeedInv, Panel
  <1> QED
    BY <1>5, <1>6

\* normalize, after its await.
LEMMA ReadTimestampKeeps ==
    ASSUME FeedInv, ReadTimestamp
    PROVE  FeedInv' /\ (SeenIsOn => SeenIsOn')
  <1> DEFINE l == awaiting
             S == seen \ {awaiting}
  <1>1. /\ batch # <<>> /\ l = batch[1] /\ l \in seen /\ S \cup {l} = seen
        /\ l \in 1..Len(logs) /\ l \in LogIds /\ S \subseteq LogIds
        /\ pc \in {"replay", "process"}
        /\ NoLog \notin seen
        /\ logs[l] \in 1..head
    <2>1. /\ batch # <<>> /\ l = batch[1] /\ l \in seen
          /\ pc \in {"replay", "process"}
          /\ seen \subseteq 1..Len(logs)
      BY DEF ReadTimestamp, FeedInv, Polling
    <2>2. 1..Len(logs) \subseteq LogIds /\ NoLog \notin 1..Len(logs)
      BY FeedAssumption DEF FeedInv, Chain, LogIds, NoLog
    <2>3. logs[l] \in 1..head
      BY <2>1 DEF FeedInv, Chain
    <2> QED
      BY <2>1, <2>2, <2>3
  <1>2. /\ UNCHANGED <<head, logs, pc, tip, fromBlock, seen, lag, lagChanges, stopped>>
        /\ batch' = Tail(batch) /\ awaiting' = NoLog
        /\ timestamps' = timestamps \cup {logs[l]}
        /\ timers' = HandedOver(l).timers /\ delivered' = HandedOver(l).delivered
    BY DEF ReadTimestamp, HandOver, chainVars, panelVars
  <1>3. Chain /\ Polling /\ Progress /\ Panel /\ Outgoing(timers, delivered, S)
    BY DEF FeedInv
  <1>4. Chain'
    BY <1>2, <1>3 DEF Chain
  <1>5. Progress' /\ batch' \in Seq(1..Len(logs))
    <2>1. seen' = seen \cup {batch[1]}
      BY <1>1, <1>2
    <2> QED
      BY <1>1, <1>2, <1>3, <2>1, TailKeeps
  <1>6. Polling'
    BY <1>1, <1>2, <1>3, <1>5 DEF Polling
  <1>7. Outgoing(timers', delivered', seen) /\ Reaches(timers', delivered', l)
    <2>1. \A k \in S : k < l
      <3>1. \A k \in S : k <= l /\ k # l /\ k \in Int /\ l \in Int
        BY <1>1, <1>3 DEF Progress, ReadTimestamp, LogIds
      <3> QED
        BY <3>1
    <2> HIDE DEF S, l
    <2>2. /\ Outgoing(HandedOver(l).timers, HandedOver(l).delivered, S \cup {l})
          /\ Reaches(HandedOver(l).timers, HandedOver(l).delivered, l)
      BY <1>1, <1>3, <2>1, HandedOverGoes
    <2> QED
      BY <1>1, <1>2, <2>2
  <1>8. Outgoing(timers, delivered, seen \ {awaiting})'
    <2>1. (seen \ {awaiting})' = seen
      BY <1>1, <1>2
    <2> QED
      BY <1>2, <1>7, <2>1 DEF Outgoing, OutType, Carries, On, InOrder
  <1>9. Panel'
    <2>1. pc = "replay" => HandedOver(l).timers = timers
      BY DEF HandedOver, Out
    <2> QED
      BY <1>1, <1>2, <1>3, <2>1 DEF Panel
  <1>10. SeenIsOn => SeenIsOn'
    <2> SUFFICES ASSUME SeenIsOn, ~stopped, NEW k \in seen
                 PROVE  On(timers', delivered', "indexed", k)
      BY <1>2 DEF SeenIsOn
    <2>1. CASE k = l
      BY <1>7, <2>1 DEF Reaches
    <2>2. CASE k # l
      <3>1. On(timers, delivered, "indexed", k)
        BY <2>2 DEF SeenIsOn
      <3> QED
        BY <1>7, <3>1 DEF Reaches
    <2> QED
      BY <2>1, <2>2
  <1> QED
    BY <1>4, <1>5, <1>6, <1>8, <1>9, <1>10 DEF FeedInv

\* The feed starts with nothing seen and nothing handed over.
LEMMA FeedInvHoldsAtFirst ==
    Init => FeedInv
  <1> SUFFICES ASSUME Init PROVE FeedInv
    OBVIOUS
  <1>1. /\ head \in 0..1 /\ (logs = <<>> \/ \E b \in 1..head : logs = <<b>>)
        /\ MaxBlock \in Nat \ {0} /\ MaxLogs \in Nat \ {0} /\ Lags \subseteq Nat
    BY FeedAssumption DEF Init
  <1>2. /\ logs \in Seq(Nat) /\ Len(logs) \in 0..1
        /\ \A l \in 1..Len(logs) : l = 1 /\ logs[l] \in 1..head
    <2>1. CASE logs = <<>>
      BY <2>1
    <2>2. CASE \E b \in 1..head : logs = <<b>>
      <3>1. PICK b \in 1..head : logs = <<b>>
        BY <2>2
      <3>2. b \in Nat
        BY <1>1
      <3> QED
        BY <3>1, <3>2
    <2> QED
      BY <1>1, <2>1, <2>2
  <1>3. Chain
    BY <1>1, <1>2 DEF Chain
  <1>4. Polling
    BY <1>1, <1>2 DEF Init, Polling, PCs, NoLog
  <1>5. Progress
    BY <1>1, <1>2 DEF Init, Progress
  <1>6. Panel
    BY DEF Init, Panel
  <1>7. Outgoing(timers, delivered, seen \ {awaiting})
    <2>1. timers = <<>> /\ \A ch \in Channels : delivered[ch] = <<>>
      BY DEF Init
    <2>2. OutType(timers, delivered)
      BY DEF Init, OutType
    <2>3. \A ch \in Channels : Carries(timers, delivered, ch, seen \ {awaiting})
      BY <2>1 DEF Carries
    <2>4. \A ch \in Channels : InOrder(timers, delivered, ch, lag[ch])
      BY <2>1 DEF InOrder
    <2>5. \A k : ~On(timers, delivered, "flashblock", k)
      BY <2>1 DEF On, Channels
    <2> QED
      BY <2>2, <2>3, <2>4, <2>5 DEF Outgoing
  <1> QED
    BY <1>3, <1>4, <1>5, <1>6, <1>7 DEF FeedInv

\* Every step of the feed, the chain and the panel keeps the invariant.
LEMMA FeedInvIsInductive ==
    FeedInv /\ [Next]_vars => FeedInv'
  <1> SUFFICES ASSUME FeedInv, [Next]_vars PROVE FeedInv'
    OBVIOUS
  <1>1. CASE \E n \in 0..2 : Mine(n)
    BY <1>1, MineKeeps
  <1>2. CASE \/ \E ch \in Channels, ms \in Lags : MoveSlider(ch, ms)
             \/ \E i \in 1..Len(timers) : FireTimer(i)
             \/ Stop
    BY <1>2, PanelKeeps
  <1>3. CASE \/ \E h \in 0..head : ReadStartHead(h)
             \/ Tick
             \/ \E h \in 0..head : ReadHead(h)
    BY <1>3, WaitingKeeps
  <1>4. CASE ReadStartLogs \/ ReadLogs
    BY <1>4, RangeKeeps
  <1>5. CASE FinishReplay \/ FinishRange \/ Fail
    BY <1>5, EndKeeps
  <1>6. CASE TakeLog
    BY <1>6, TakeLogKeeps
  <1>7. CASE ReadTimestamp
    BY <1>7, ReadTimestampKeeps
  <1>8. CASE UNCHANGED vars
    BY <1>8 DEF vars, chainVars, pollVars, outVars, panelVars, FeedInv, Chain, Polling,
                Progress, Panel, Outgoing, OutType, Carries, On, InOrder
  <1> QED
    BY <1>1, <1>2, <1>3, <1>4, <1>5, <1>6, <1>7, <1>8 DEF Next, Run

\* What is known of the feed always holds.
THEOREM FeedInvariant == Spec => []FeedInv
  BY FeedInvHoldsAtFirst, FeedInvIsInductive, PTL DEF Spec

-----------------------------------------------------------------------------
(***************************************************************************)
(* What the listeners can count on                                         *)
(***************************************************************************)

\* What On says of the logs of a channel.
LEMMA ScheduledIs ==
    ASSUME FeedInv, NEW ch \in Channels, NEW k
    PROVE  k \in Scheduled(ch) <=> On(timers, delivered, ch, k)
  <1>1. timers \in Seq(Timer) /\ delivered[ch] \in Seq(LogIds)
    BY DEF FeedInv, Outgoing, OutType
  <1>2. k \in ToSet(delivered[ch]) <=> \E i \in 1..Len(delivered[ch]) : delivered[ch][i] = k
    BY <1>1 DEF ToSet
  <1>3. k \in {t.log : t \in {u \in ToSet(timers) : u.channel = ch}}
        <=> \E i \in 1..Len(timers) : timers[i].channel = ch /\ timers[i].log = k
    BY <1>1 DEF ToSet
  <1> QED
    BY <1>2, <1>3 DEF Scheduled, On

\* Every variable keeps its type.
THEOREM FeedTypes == Spec => []TypeOK
  <1>1. FeedInv => TypeOK
    <2> SUFFICES ASSUME FeedInv PROVE TypeOK
      OBVIOUS
    <2>1. /\ head \in 0..MaxBlock /\ Len(logs) \in 0..MaxLogs
          /\ \A i \in 1..Len(logs) : logs[i] \in 1..head
      BY DEF FeedInv, Chain
    <2>2. /\ pc \in PCs /\ tip \in 0..head /\ fromBlock \in 0..(tip + 1)
          /\ awaiting \in {NoLog} \cup seen /\ timestamps \subseteq 1..head
          /\ seen \subseteq 1..Len(logs) /\ batch \in Seq(1..Len(logs))
      BY DEF FeedInv, Polling
    <2>3. lag \in [Channels -> Lags] /\ stopped \in BOOLEAN
      BY DEF FeedInv, Panel
    <2>4. ToSet(batch) \cup seen \subseteq 1..Len(logs)
      <3> DEFINE R == 1..Len(logs)
      <3>1. batch \in Seq(R) /\ seen \subseteq R
        BY <2>2
      <3> HIDE DEF R
      <3>2. ToSet(batch) \subseteq R
        BY <3>1 DEF ToSet
      <3> QED
        BY <3>1, <3>2 DEF R
    <2>5. ToSet(timers) \subseteq Timer
      BY DEF FeedInv, Outgoing, OutType, ToSet
    <2>6. \A ch \in Channels : ToSet(delivered[ch]) \subseteq seen
      BY DEF FeedInv, Outgoing, OutType, Carries, ToSet
    <2> QED
      BY <2>1, <2>2, <2>3, <2>4, <2>5, <2>6 DEF TypeOK
  <1> QED
    BY <1>1, FeedInvariant, PTL

\* A channel carries a log once, however often a range is read again and
\* however the delays are moved.
THEOREM NoLogTwice == Spec => []NoDuplicate
  <1>1. FeedInv => NoDuplicate
    <2> SUFFICES ASSUME FeedInv, NEW ch \in Channels
                 PROVE  /\ IsInjective(delivered[ch])
                        /\ \A i, j \in 1..Len(timers) :
                               timers[i].channel = ch =>
                                   /\ timers[i].log \notin ToSet(delivered[ch])
                                   /\ timers[j].channel = ch /\ timers[j].log = timers[i].log
                                      => i = j
      BY DEF NoDuplicate
    <2>1. Carries(timers, delivered, ch, seen \ {awaiting}) /\ delivered[ch] \in Seq(LogIds)
      BY DEF FeedInv, Outgoing, OutType
    <2>2. IsInjective(delivered[ch])
      BY <2>1 DEF Carries, IsInjective
    <2> QED
      BY <2>1, <2>2 DEF Carries, ToSet
  <1> QED
    BY <1>1, FeedInvariant, PTL

\* What the flashblock channel carries the indexed channel carries, too.
THEOREM ChannelsCarryTheSame == Spec => []ChannelsAgree
  <1>1. FeedInv => ChannelsAgree
    <2> SUFFICES ASSUME FeedInv, ~stopped, NEW k \in Scheduled("flashblock")
                 PROVE  k \in Scheduled("indexed")
      BY DEF ChannelsAgree
    <2>1. "flashblock" \in Channels /\ "indexed" \in Channels
      BY DEF Channels
    <2>2. On(timers, delivered, "flashblock", k)
      BY <2>1, ScheduledIs
    <2>3. On(timers, delivered, "indexed", k)
      BY <2>2 DEF FeedInv, Outgoing
    <2> QED
      BY <2>1, <2>3, ScheduledIs
  <1> QED
    BY <1>1, FeedInvariant, PTL

-----------------------------------------------------------------------------
(***************************************************************************)
(* No log is left out as long as timestamps can be read                    *)
(*                                                                         *)
(* InOrder says that a channel goes up, not that it leaves nothing out.    *)
(* For that, what was handed over must still be on its channels, and what  *)
(* is on one must be delivered before what comes after it.                 *)
(***************************************************************************)
\* The listeners of channel ch have had log k.
Had(d, ch, k) == \E i \in 1..Len(d[ch]) : d[ch][i] = k

\* They have had it, or it was replayed to those of the indexed channel.
Covered(t, d, ch, k) ==
    \/ Had(d, ch, k)
    \/ Had(d, "indexed", k) /\ ~On(t, d, "flashblock", k)

\* The logs of S are on both channels, but for those that were replayed.
Spread(t, d, S) ==
    \A k \in S : /\ On(t, d, "indexed", k)
                 /\ On(t, d, "flashblock", k) \/ Had(d, "indexed", k)

\* What comes before a log has come before it.
Gapless(t, d) ==
    \A ch \in Channels : \A l \in LogIds :
        Had(d, ch, l) => \A k \in 1..(l - 1) : Covered(t, d, ch, k)

NoGapInv ==
    /\ faults \in [Calls -> Nat]
    /\ faults["block"] = 0 /\ lagChanges = 0 =>
        /\ ~stopped \/ pc = "replay" => Spread(timers, delivered, seen \ {awaiting})
        /\ Gapless(timers, delivered)

\* One log more on one channel.
LEMMA EmittedHad ==
    ASSUME NEW t, NEW d, OutType(t, d), NEW c \in Channels, NEW l \in LogIds,
           NEW o, o = [timers |-> t, delivered |-> d]
    PROVE  LET f == Emitted(o, c, l).delivered IN
           \A a \in Channels : \A k :
               /\ Had(d, a, k) => Had(f, a, k)
               /\ Had(f, a, k) => Had(d, a, k) \/ (a = c /\ k = l /\ lag[c] = 0)
  <1> DEFINE f == Emitted(o, c, l).delivered
  <1>1. d \in [Channels -> Seq(LogIds)]
    BY DEF OutType
  <1>2. CASE lag[c] = 0
    <2>1. f = [d EXCEPT ![c] = Append(@, l)]
      BY <1>2 DEF Emitted
    <2> HIDE DEF f
    <2>2. f[c] = Append(d[c], l) /\ \A a \in Channels \ {c} : f[a] = d[a]
      BY <1>1, <2>1
    <2>3. /\ Len(f[c]) = Len(d[c]) + 1 /\ f[c][Len(d[c]) + 1] = l
          /\ \A k \in 1..Len(d[c]) : f[c][k] = d[c][k]
          /\ Len(d[c]) \in Nat
      BY <1>1, <2>2
    <2>4. \A k : Had(d, c, k) => Had(f, c, k)
      BY <2>3 DEF Had
    <2>5. \A k : Had(f, c, k) => Had(d, c, k) \/ k = l
      BY <2>3 DEF Had
    <2>6. \A a \in Channels \ {c} : \A k : Had(f, a, k) <=> Had(d, a, k)
      BY <2>2 DEF Had
    <2> QED
      BY <1>2, <2>4, <2>5, <2>6 DEF f
  <1>3. CASE lag[c] # 0
    <2>1. f = d
      BY <1>3 DEF Emitted
    <2> QED
      BY <2>1
  <1> QED
    BY <1>2, <1>3

\* What a log that goes to both channels changes.
LEMMA BothChannels ==
    ASSUME NEW S, S \subseteq LogIds, NEW l \in LogIds, l \notin S,
           Panel, Outgoing(timers, delivered, S), pc # "replay", ~stopped
    PROVE  LET h == HandedOver(l)
               t == h.timers
               d == h.delivered
           IN  \A a \in Channels : \A k :
                   /\ On(timers, delivered, a, k) => On(t, d, a, k)
                   /\ On(t, d, a, k) => On(timers, delivered, a, k) \/ k = l
                   /\ On(t, d, a, l)
                   /\ Had(delivered, a, k) => Had(d, a, k)
                   /\ Had(d, a, k) => Had(delivered, a, k) \/ (k = l /\ lag[a] = 0)
  <1> DEFINE h == HandedOver(l)
             t == h.timers
             d == h.delivered
             F == "flashblock"
             I == "indexed"
  <1>1. /\ OutType(timers, delivered)
        /\ \A ch \in Channels : Carries(timers, delivered, ch, S)
        /\ lag \in [Channels -> Lags]
        /\ Channels = {F, I} /\ F # I
        /\ Out = [timers |-> timers, delivered |-> delivered]
    BY DEF Outgoing, Panel, Channels, Out
  <1> DEFINE m == Emitted(Out, F, l)
             mt == m.timers
             md == m.delivered
  <1>2. h = Emitted(m, I, l)
    BY DEF HandedOver
  <1>3. F \in Channels /\ I \in Channels
    BY <1>1
  <1> HIDE DEF h, m
  <1>4. /\ m = [timers |-> mt, delivered |-> md]
        /\ Carries(mt, md, F, S \cup {l})
        /\ AddedTo(timers, delivered, mt, md, F, l)
    BY <1>1, <1>3, EmittedCarries DEF m
  <1>5. \A a \in Channels : \A k :
            /\ Had(delivered, a, k) => Had(md, a, k)
            /\ Had(md, a, k) => Had(delivered, a, k) \/ (a = F /\ k = l /\ lag[F] = 0)
    BY <1>1, <1>3, EmittedHad DEF m
  <1>6. OutType(mt, md) /\ Carries(mt, md, I, S)
    BY <1>1, <1>3, <1>4 DEF AddedTo
  <1> HIDE DEF mt, md
  <1>7. AddedTo(mt, md, t, d, I, l)
    <2> DEFINE e == Emitted(m, I, l)
    <2>1. AddedTo(mt, md, e.timers, e.delivered, I, l)
      BY <1>1, <1>3, <1>4, <1>6, EmittedCarries
    <2> HIDE DEF e
    <2>2. t = e.timers /\ d = e.delivered
      BY <1>2 DEF e
    <2> QED
      BY <2>1, <2>2
  <1>8. \A a \in Channels : \A k :
            /\ Had(md, a, k) => Had(d, a, k)
            /\ Had(d, a, k) => Had(md, a, k) \/ (a = I /\ k = l /\ lag[I] = 0)
    <2> DEFINE e == Emitted(m, I, l)
               f == e.delivered
    <2>1. \A a \in Channels : \A k :
              /\ Had(md, a, k) => Had(f, a, k)
              /\ Had(f, a, k) => Had(md, a, k) \/ (a = I /\ k = l /\ lag[I] = 0)
      BY <1>3, <1>4, <1>6, EmittedHad
    <2> HIDE DEF e
    <2>2. d = f
      BY <1>2 DEF e
    <2> QED
      BY <2>1, <2>2
  <1> HIDE DEF t, d
  <1>9. \A a \in Channels : \A k :
            /\ On(timers, delivered, a, k) => On(t, d, a, k)
            /\ On(t, d, a, k) => On(timers, delivered, a, k) \/ k = l
            /\ On(t, d, a, l)
    <2>1. \A k : /\ On(timers, delivered, F, k) => On(mt, md, F, k)
                 /\ On(mt, md, F, k) => On(timers, delivered, F, k) \/ k = l
                 /\ On(mt, md, F, l)
                 /\ On(mt, md, I, k) <=> On(timers, delivered, I, k)
      BY <1>1, <1>4 DEF AddedTo
    <2>2. \A k : /\ On(mt, md, I, k) => On(t, d, I, k)
                 /\ On(t, d, I, k) => On(mt, md, I, k) \/ k = l
                 /\ On(t, d, I, l)
                 /\ On(t, d, F, k) <=> On(mt, md, F, k)
      BY <1>1, <1>7 DEF AddedTo
    <2> QED
      BY <1>1, <2>1, <2>2
  <1>10. \A a \in Channels : \A k :
            /\ Had(delivered, a, k) => Had(d, a, k)
            /\ Had(d, a, k) => Had(delivered, a, k) \/ (k = l /\ lag[a] = 0)
    BY <1>5, <1>8
  <1> QED
    BY <1>9, <1>10 DEF h, t, d

\* Handing over a log leaves out none: those before it were handed over, and a
\* channel without a delay has no timer left.
LEMMA HandedOverLeavesNone ==
    ASSUME NEW S, S \subseteq LogIds, NEW l \in LogIds, \A k \in S : k < l,
           1..(l - 1) \subseteq S,
           Panel, Outgoing(timers, delivered, S), lagChanges = 0,
           ~stopped \/ pc = "replay" => Spread(timers, delivered, S),
           Gapless(timers, delivered)
    PROVE  LET h == HandedOver(l) IN
           /\ ~stopped \/ pc = "replay" => Spread(h.timers, h.delivered, S \cup {l})
           /\ Gapless(h.timers, h.delivered)
  <1> DEFINE h == HandedOver(l)
             t == h.timers
             d == h.delivered
             F == "flashblock"
             I == "indexed"
  <1>1. /\ OutType(timers, delivered)
        /\ \A ch \in Channels : Carries(timers, delivered, ch, S)
        /\ \A ch \in Channels : InOrder(timers, delivered, ch, lag[ch])
        /\ lag \in [Channels -> Lags]
        /\ Channels = {F, I} /\ F # I
        /\ Out = [timers |-> timers, delivered |-> delivered]
        /\ l \notin S /\ l \in Nat
    BY DEF Outgoing, Panel, Channels, Out, LogIds
  <1>2. \A ch \in Channels : \A k : Had(delivered, ch, k) => k \in S /\ k < l
    <2> SUFFICES ASSUME NEW ch \in Channels, NEW k, Had(delivered, ch, k)
                 PROVE  k \in S /\ k < l
      OBVIOUS
    <2>1. PICK i \in 1..Len(delivered[ch]) : delivered[ch][i] = k
      BY DEF Had
    <2>2. delivered[ch][i] \in S
      BY <1>1 DEF Carries
    <2> QED
      BY <2>1, <2>2
  <1>3. CASE pc = "replay"
    <2>1. timers = <<>>
      BY <1>3 DEF Panel
    <2>2. h = [timers |-> timers, delivered |-> [delivered EXCEPT ![I] = Append(@, l)]]
      BY <1>1, <1>3 DEF HandedOver
    <2> HIDE DEF h
    <2>3. t = timers /\ d = [delivered EXCEPT ![I] = Append(@, l)]
      BY <2>2
    <2> HIDE DEF t, d
    <2>4. d[F] = delivered[F] /\ d[I] = Append(delivered[I], l)
      BY <1>1, <2>3 DEF OutType
    <2>5. /\ Len(d[I]) = Len(delivered[I]) + 1 /\ d[I][Len(delivered[I]) + 1] = l
          /\ \A k \in 1..Len(delivered[I]) : d[I][k] = delivered[I][k]
          /\ Len(delivered[I]) \in Nat
      BY <1>1, <2>4 DEF OutType
    <2>6. \A k : /\ Had(d, I, k) <=> Had(delivered, I, k) \/ k = l
                 /\ Had(d, F, k) <=> Had(delivered, F, k)
      BY <2>4, <2>5 DEF Had
    <2>7. \A k : On(t, d, I, k) <=> Had(d, I, k)
      BY <2>1, <2>3 DEF On, Had
    <2>8. \A k : /\ On(timers, delivered, I, k) <=> Had(delivered, I, k)
                 /\ On(t, d, F, k) <=> On(timers, delivered, F, k)
      BY <2>1, <2>3, <2>4 DEF On, Had
    <2>9. \A k \in S : Had(delivered, I, k)
      BY <1>3, <2>8 DEF Spread
    <2>10. Spread(t, d, S \cup {l})
      BY <2>6, <2>7, <2>9 DEF Spread
    <2>11. ASSUME NEW ch \in Channels, NEW x \in LogIds, Had(d, ch, x), NEW k \in 1..(x - 1)
           PROVE  Covered(t, d, ch, k)
      <3>1. CASE Had(delivered, ch, x)
        <4>1. Covered(timers, delivered, ch, k)
          BY <3>1 DEF Gapless
        <4> QED
          BY <1>1, <2>6, <2>8, <4>1 DEF Covered
      <3>2. CASE ch = I /\ x = l
        <4>1. k \in S
          BY <3>2
        <4> QED
          BY <2>6, <2>9, <3>2, <4>1 DEF Covered
      <3> QED
        BY <1>1, <2>6, <2>11, <3>1, <3>2
    <2> QED
      BY <2>10, <2>11 DEF Gapless, h, t, d
  <1>4. CASE pc # "replay" /\ stopped
    <2>1. h = Out
      BY <1>4 DEF HandedOver
    <2>2. t = timers /\ d = delivered
      BY <1>1, <2>1
    <2> QED
      BY <1>4, <2>2
  <1>5. CASE pc # "replay" /\ ~stopped
    <2>1. \A a \in Channels : \A k :
              /\ On(timers, delivered, a, k) => On(t, d, a, k)
              /\ On(t, d, a, k) => On(timers, delivered, a, k) \/ k = l
              /\ On(t, d, a, l)
              /\ Had(delivered, a, k) => Had(d, a, k)
              /\ Had(d, a, k) => Had(delivered, a, k) \/ (k = l /\ lag[a] = 0)
      BY <1>1, <1>5, BothChannels
    <2> HIDE DEF t, d, h
    <2>2. F \in Channels /\ I \in Channels
      BY <1>1
    <2>3. Spread(t, d, S \cup {l})
      <3>1. Spread(timers, delivered, S)
        BY <1>5
      <3> QED
        BY <2>2, <2>1, <3>1 DEF Spread
    <2>4. ASSUME NEW ch \in Channels, NEW x \in LogIds, Had(d, ch, x), NEW k \in 1..(x - 1)
           PROVE  Covered(t, d, ch, k)
      <3>1. CASE Had(delivered, ch, x)
        <4>1. Covered(timers, delivered, ch, k)
          BY <3>1 DEF Gapless
        <4>2. k # l
          <5>1. x < l /\ x \in Nat /\ l \in Nat
            BY <1>1, <1>2, <3>1 DEF LogIds
          <5> QED
            BY <5>1
        <4> QED
          BY <2>2, <2>1, <4>1, <4>2 DEF Covered
      <3>2. CASE x = l /\ lag[ch] = 0
        <4>1. k \in S /\ k # l
          BY <1>1, <3>2
        <4>2. On(timers, delivered, ch, k) => Had(delivered, ch, k)
          BY <1>1, <3>2 DEF InOrder, On, Had
        <4>3. /\ On(timers, delivered, I, k)
              /\ On(timers, delivered, F, k) \/ Had(delivered, I, k)
          BY <1>5, <4>1 DEF Spread
        <4>4. Had(delivered, ch, k) \/ (Had(delivered, I, k) /\ ~On(timers, delivered, F, k))
          BY <1>1, <4>2, <4>3
        <4> QED
          BY <2>2, <2>1, <4>1, <4>4 DEF Covered
      <3> QED
        BY <2>1, <2>4, <3>1, <3>2
    <2> QED
      BY <2>3, <2>4 DEF Gapless, h, t, d
  <1> QED
    BY <1>3, <1>4, <1>5
\* A timer that runs out: those before it have run out, on a channel whose
\* delay did not change.
LEMMA FiredLeavesNone ==
    ASSUME FeedInv, NEW i \in 1..Len(timers), FireTimer(i), lagChanges = 0,
           Spread(timers, delivered, seen \ {awaiting}), Gapless(timers, delivered)
    PROVE  /\ Spread(timers', delivered', seen \ {awaiting})
           /\ Gapless(timers', delivered')
  <1> DEFINE S == seen \ {awaiting}
             c == timers[i].channel
             l == timers[i].log
  <1>1. /\ timers \in Seq(Timer) /\ delivered \in [Channels -> Seq(LogIds)]
        /\ timers[i] \in Timer /\ c \in Channels /\ l \in LogIds /\ l \in Nat
        /\ Carries(timers, delivered, c, S)
        /\ \A a \in Channels : InOrder(timers, delivered, a, lag[a])
        /\ "indexed" \in Channels /\ "flashblock" \in Channels
    <2>1. /\ timers \in Seq(Timer) /\ delivered \in [Channels -> Seq(LogIds)]
          /\ \A a \in Channels : Carries(timers, delivered, a, S)
          /\ \A a \in Channels : InOrder(timers, delivered, a, lag[a])
      BY DEF FeedInv, Outgoing, OutType
    <2>2. timers[i] \in Timer
      BY <2>1
    <2>3. c \in Channels /\ l \in LogIds
      BY <2>2 DEF Timer
    <2> QED
      BY <2>1, <2>2, <2>3 DEF LogIds, Channels
  <1>2. \A a \in Channels : \A k :
            On(timers', delivered', a, k) <=> On(timers, delivered, a, k)
    BY FiredGoes
  <1>3. \A a \in Channels : \A k :
            Had(delivered', a, k) <=> Had(delivered, a, k) \/ (a = c /\ k = l)
    <2>1. delivered' = [delivered EXCEPT ![c] = Append(@, l)]
      BY DEF FireTimer
    <2> HIDE DEF c, l
    <2>2. delivered'[c] = Append(delivered[c], l)
          /\ \A a \in Channels \ {c} : delivered'[a] = delivered[a]
      BY <1>1, <2>1
    <2>3. /\ Len(delivered'[c]) = Len(delivered[c]) + 1
          /\ delivered'[c][Len(delivered[c]) + 1] = l
          /\ \A k \in 1..Len(delivered[c]) : delivered'[c][k] = delivered[c][k]
          /\ Len(delivered[c]) \in Nat
      BY <1>1, <2>2
    <2>4. \A k : Had(delivered', c, k) <=> Had(delivered, c, k) \/ k = l
      <3>1. \A k : Had(delivered, c, k) => Had(delivered', c, k)
        BY <2>3 DEF Had
      <3>2. Had(delivered', c, l)
        BY <2>3 DEF Had
      <3>3. \A k : Had(delivered', c, k) => Had(delivered, c, k) \/ k = l
        BY <2>3 DEF Had
      <3> QED
        BY <3>1, <3>2, <3>3
    <2>5. \A a \in Channels \ {c} : \A k : Had(delivered', a, k) <=> Had(delivered, a, k)
      BY <2>2 DEF Had
    <2> QED
      BY <2>4, <2>5
  <1>4. ASSUME NEW k \in 1..(l - 1)
        PROVE  k \in S
    <2>1. l \in seen /\ l # awaiting
      BY <1>1 DEF Carries
    <2>2. k \in seen
      BY <1>1, <2>1 DEF FeedInv, Progress
    <2>3. k # awaiting
      <3>1. SUFFICES ASSUME k = awaiting PROVE FALSE
        OBVIOUS
      <3>2. k # NoLog /\ l \in Nat
        BY <1>1 DEF NoLog
      <3>3. l <= k
        BY <2>1, <3>1, <3>2 DEF FeedInv, Progress
      <3> QED
        BY <3>2, <3>3
    <2> QED
      BY <2>2, <2>3
  <1>5. ASSUME NEW k \in 1..(l - 1), On(timers, delivered, c, k)
        PROVE  Had(delivered, c, k)
    <2>1. SUFFICES ASSUME NEW j \in 1..Len(timers), timers[j].channel = c, timers[j].log = k
                   PROVE  FALSE
      BY <1>5 DEF On, Had
    <2>2. InOrder(timers, delivered, c, lag[c])
      BY <1>1
    <2>3. timers[j].lag = timers[i].lag
      BY <2>1, <2>2 DEF InOrder
    <2>4. j < i
      <3>1. i < j => l < timers[j].log
        BY <2>1, <2>2 DEF InOrder
      <3>2. k < l /\ k \in Nat /\ l \in Nat /\ i \in Nat /\ j \in Nat
        BY <1>1
      <3>3. i # j
        BY <2>1, <3>2
      <3> QED
        BY <2>1, <3>1, <3>2, <3>3
    <2>5. timers[j].lag > timers[i].lag
      <3>1. j \in 1..(i - 1)
        BY <2>4
      <3> QED
        BY <3>1 DEF FireTimer, MayFire
    <2>6. timers[i].lag \in Nat
      BY <1>1, FeedAssumption DEF Timer
    <2> QED
      BY <2>3, <2>5, <2>6
  <1>6. Spread(timers', delivered', S)
    BY <1>1, <1>2, <1>3 DEF Spread
  <1>7. ASSUME NEW ch \in Channels, NEW x \in LogIds, Had(delivered', ch, x),
               NEW k \in 1..(x - 1)
        PROVE  Covered(timers', delivered', ch, k)
    <2>1. CASE Had(delivered, ch, x)
      <3>1. Covered(timers, delivered, ch, k)
        BY <2>1 DEF Gapless
      <3> QED
        BY <1>1, <1>2, <1>3, <3>1 DEF Covered
    <2>2. CASE ch = c /\ x = l
      <3>1. k \in S
        BY <1>4, <2>2
      <3>2. /\ On(timers, delivered, "indexed", k)
            /\ On(timers, delivered, "flashblock", k) \/ Had(delivered, "indexed", k)
        BY <3>1 DEF Spread
      <3>3. On(timers, delivered, c, k) => Had(delivered, c, k)
        BY <1>5, <2>2
      <3>4. c = "indexed" \/ c = "flashblock"
        BY <1>1 DEF Channels
      <3>5. Covered(timers, delivered, c, k)
        BY <3>2, <3>3, <3>4 DEF Covered
      <3> HIDE DEF c
      <3> QED
        BY <1>1, <1>2, <1>3, <2>2, <3>5 DEF Covered
    <2> QED
      BY <1>3, <1>7, <2>1, <2>2
  <1> QED
    BY <1>6, <1>7 DEF Gapless

\* The order in which a poll takes its logs: all before it were handed over.
LEMMA TakenInTurn ==
    ASSUME FeedInv, batch # <<>>, NEW l, l = batch[1], l = awaiting \/ l \notin seen,
           NEW S, S = seen \ {awaiting, l}
    PROVE  /\ l \in LogIds /\ S \subseteq LogIds
           /\ \A k \in S : k < l
           /\ 1..(l - 1) \subseteq S
  <1>1. /\ l \in 1..Len(logs) /\ seen \subseteq 1..Len(logs) /\ Len(logs) \in Nat
        /\ awaiting \in {NoLog} \cup seen /\ (awaiting # NoLog => l = awaiting)
    BY DEF FeedInv, Polling, Chain
  <1>2. 1..Len(logs) \subseteq LogIds
    BY FeedAssumption DEF FeedInv, Chain, LogIds
  <1>3. ASSUME NEW k \in S
        PROVE  k < l
    <2>1. k \in seen /\ k # l /\ k \in Nat /\ l \in Nat /\ l >= 1
      BY <1>1
    <2>2. k <= l
      <3>1. CASE l = awaiting
        BY <1>1, <2>1, <3>1 DEF FeedInv, Progress, NoLog
      <3>2. CASE l \notin seen
        <4>1. l \notin 1..k
          BY <2>1, <3>2 DEF FeedInv, Progress
        <4> QED
          BY <2>1, <4>1
      <3> QED
        BY <3>1, <3>2
    <2> QED
      BY <2>1, <2>2
  <1>4. ASSUME NEW k \in 1..(l - 1)
        PROVE  k \in S
    <2>1. k \in seen
      BY DEF FeedInv, Progress
    <2>2. k # l /\ k # NoLog
      BY <1>1 DEF NoLog
    <2> QED
      BY <1>1, <2>1, <2>2
  <1> QED
    BY <1>1, <1>2, <1>3, <1>4

\* The feed starts with nothing to leave out.
LEMMA NoGapAtFirst == Init => NoGapInv
  <1> SUFFICES ASSUME Init PROVE NoGapInv
    OBVIOUS
  <1>1. faults \in [Calls -> Nat]
    BY DEF Init
  <1>2. Spread(timers, delivered, seen \ {awaiting})
    BY DEF Init, Spread
  <1>3. Gapless(timers, delivered)
    BY DEF Init, Gapless, Had
  <1> QED
    BY <1>1, <1>2, <1>3 DEF NoGapInv

\* Every step keeps it; only a failed timestamp leaves a log behind, and it is
\* counted.
LEMMA NoGapStays ==
    ASSUME FeedInv, QuietInv, NoGapInv, [Next]_vars
    PROVE  NoGapInv'
  <1> DEFINE S == seen \ {awaiting}
             Clean == faults["block"] = 0 /\ lagChanges = 0
             Reads == ~stopped \/ pc = "replay"
  <1>1. /\ faults \in [Calls -> Nat] /\ "block" \in Calls /\ lagChanges \in Nat
        /\ Outgoing(timers, delivered, S) /\ Panel
        /\ Clean => (Reads => Spread(timers, delivered, S)) /\ Gapless(timers, delivered)
    BY DEF NoGapInv, FeedInv, Panel, Calls
  <1>2. ASSUME UNCHANGED <<faults, lagChanges, timers, delivered>>, S' = S,
               Reads' => Reads
        PROVE  NoGapInv'
    BY <1>1, <1>2 DEF NoGapInv, Spread, Gapless, Covered, On, Had
  <1>3. ASSUME NEW l, HandOver(l), UNCHANGED <<faults, lagChanges, stopped, pc>>,
               batch # <<>>, l = batch[1], l = awaiting \/ l \notin seen,
               S' = (seen \ {awaiting, l}) \cup {l}, seen \ {awaiting, l} = S
        PROVE  NoGapInv'
    <2> DEFINE h == HandedOver(l)
    <2>1. /\ l \in LogIds /\ S \subseteq LogIds /\ (\A k \in S : k < l)
          /\ 1..(l - 1) \subseteq S
      BY <1>3, TakenInTurn
    <2> HIDE DEF S
    <2>2. Clean => /\ Reads => Spread(h.timers, h.delivered, S \cup {l})
                   /\ Gapless(h.timers, h.delivered)
      BY <1>1, <2>1, HandedOverLeavesNone
    <2>3. timers' = h.timers /\ delivered' = h.delivered /\ S' = S \cup {l}
      BY <1>3 DEF HandOver
    <2> HIDE DEF h
    <2>4. Clean => /\ Reads => Spread(timers', delivered', S')
                   /\ Gapless(timers', delivered')
      BY <2>2, <2>3
    <2>5. NoGapInv' <=>
            /\ faults' \in [Calls -> Nat]
            /\ faults'["block"] = 0 /\ lagChanges' = 0 =>
                  /\ ~stopped' \/ pc' = "replay" => Spread(timers', delivered', S')
                  /\ Gapless(timers', delivered')
      BY DEF NoGapInv, S, Spread, Gapless, Covered, On, Had
    <2> QED
      BY <1>1, <1>3, <2>4, <2>5
  <1>4. CASE \E n \in 0..2 : Mine(n)
    BY <1>2, <1>4 DEF Mine, pollVars, outVars, panelVars
  <1>5. ASSUME NEW ch \in Channels, NEW ms \in Lags, MoveSlider(ch, ms)
        PROVE  NoGapInv'
    <2>1. lagChanges' # 0 /\ faults' = faults
      BY <1>1, <1>5 DEF MoveSlider
    <2> QED
      BY <1>1, <2>1 DEF NoGapInv
  <1>6. ASSUME NEW i \in 1..Len(timers), FireTimer(i)
        PROVE  NoGapInv'
    <2>1. UNCHANGED <<faults, lagChanges, stopped, pc, seen, awaiting>> /\ ~stopped
      BY <1>6 DEF FireTimer, pollVars, panelVars, QuietInv
    <2>2. Clean => Spread(timers', delivered', S) /\ Gapless(timers', delivered')
      BY <1>1, <1>6, <2>1, FiredLeavesNone
    <2>3. NoGapInv' <=>
            /\ faults' \in [Calls -> Nat]
            /\ faults'["block"] = 0 /\ lagChanges' = 0 =>
                  /\ ~stopped' \/ pc' = "replay" => Spread(timers', delivered', S')
                  /\ Gapless(timers', delivered')
      BY DEF NoGapInv, Spread, Gapless, Covered, On, Had
    <2> QED
      BY <1>1, <2>1, <2>2, <2>3
  <1>7. CASE Stop
    <2>1. /\ UNCHANGED <<faults, lagChanges, seen, awaiting, delivered>>
          /\ timers' = <<>> /\ stopped' = TRUE /\ ~stopped
          /\ pc' = "replay" => pc = "replay"
      BY <1>7 DEF Stop
    <2>2. \A ch, k : On(timers', delivered', ch, k) <=> Had(delivered, ch, k)
      BY <2>1 DEF On, Had
    <2>3. pc = "replay" => \A ch, k : On(timers, delivered, ch, k) => Had(delivered, ch, k)
      BY <1>1 DEF Panel, On, Had
    <2>4. \A ch, k : Had(delivered, ch, k) => On(timers, delivered, ch, k)
      BY DEF On, Had
    <2>5. Clean => Gapless(timers', delivered')
      <3>1. \A ch, k : Had(delivered', ch, k) <=> Had(delivered, ch, k)
        BY <2>1 DEF Had
      <3>2. \A ch, k : Covered(timers, delivered, ch, k) => Covered(timers', delivered', ch, k)
        BY <2>2, <2>4, <3>1 DEF Covered
      <3> QED
        BY <1>1, <3>1, <3>2 DEF Gapless
    <2>6. Clean /\ pc' = "replay" => Spread(timers', delivered', S)
      <3>1. \A k : Had(delivered', "indexed", k) <=> Had(delivered, "indexed", k)
        BY <2>1 DEF Had
      <3> QED
        BY <1>1, <2>1, <2>2, <2>3, <3>1 DEF Spread
    <2>7. NoGapInv' <=>
            /\ faults' \in [Calls -> Nat]
            /\ faults'["block"] = 0 /\ lagChanges' = 0 =>
                  /\ ~stopped' \/ pc' = "replay" => Spread(timers', delivered', S')
                  /\ Gapless(timers', delivered')
      BY DEF NoGapInv, Spread, Gapless, Covered, On, Had
    <2> QED
      BY <1>1, <2>1, <2>5, <2>6, <2>7
  <1>8. CASE \/ \E h \in 0..head : ReadStartHead(h)
             \/ Tick
             \/ \E h \in 0..head : ReadHead(h)
             \/ ReadLogs
             \/ FinishReplay
             \/ FinishRange
    BY <1>2, <1>8 DEF ReadStartHead, Tick, ReadHead, ReadLogs, FinishReplay, FinishRange,
                      outVars, panelVars, NextTick
  <1>9. CASE ReadStartLogs
    BY <1>2, <1>9 DEF ReadStartLogs, outVars, panelVars
  <1>10. CASE TakeLog
    <2> DEFINE l == batch[1]
    <2>1. /\ batch # <<>> /\ awaiting = NoLog /\ Head(batch) = l
          /\ UNCHANGED <<faults, lagChanges, stopped, pc>> /\ seen' = seen \cup {l}
          /\ l # NoLog /\ NoLog \notin seen /\ NoLog \notin seen'
      <3>1. /\ batch # <<>> /\ awaiting = NoLog /\ batch \in Seq(1..Len(logs))
            /\ seen \subseteq 1..Len(logs)
        BY <1>10 DEF TakeLog, FeedInv, Polling
      <3>2. Head(batch) = l /\ l \in 1..Len(logs)
        BY <3>1
      <3> QED
        BY <1>10, <3>1, <3>2 DEF TakeLog, panelVars, NoLog
    <2>2. CASE l \in seen
      <3>1. UNCHANGED <<awaiting, timers, delivered, seen>>
        BY <1>10, <2>1, <2>2 DEF TakeLog, outVars
      <3> QED
        BY <1>2, <2>1, <3>1
    <2>3. CASE l \notin seen /\ HandOver(l) /\ UNCHANGED awaiting
      <3>1. S' = (seen \ {awaiting, l}) \cup {l} /\ seen \ {awaiting, l} = S
        BY <2>1, <2>3
      <3> HIDE DEF S, l
      <3> QED
        BY <1>3, <2>1, <2>3, <3>1 DEF l
    <2>4. CASE l \notin seen /\ awaiting' = l /\ UNCHANGED <<timers, delivered>>
      <3>1. S' = S
        BY <2>1, <2>4
      <3> QED
        BY <1>2, <2>1, <2>4, <3>1
    <2> QED
      BY <1>10, <2>1, <2>2, <2>3, <2>4 DEF TakeLog, outVars
  <1>11. CASE ReadTimestamp
    <2>1. /\ batch # <<>> /\ awaiting = batch[1] /\ awaiting \in seen
          /\ UNCHANGED <<faults, lagChanges, stopped, pc, seen>>
          /\ HandOver(awaiting) /\ awaiting' = NoLog /\ NoLog \notin seen
      BY <1>11 DEF ReadTimestamp, panelVars, FeedInv, Polling, NoLog
    <2>2. S' = (seen \ {awaiting, awaiting}) \cup {awaiting}
          /\ seen \ {awaiting, awaiting} = S
      BY <2>1
    <2> HIDE DEF S
    <2> QED
      BY <1>3, <2>1, <2>2
  <1>12. CASE Fail
    <2>1. /\ UNCHANGED <<lagChanges, stopped, seen, timers, delivered>>
          /\ Call \in Calls /\ faults' = [faults EXCEPT ![Call] = @ + 1] /\ awaiting' = NoLog
          /\ pc' # "replay"
      BY <1>12, FeedAssumption DEF Fail, outVars, panelVars, NextTick
    <2>2. faults' \in [Calls -> Nat]
      BY <1>1, <2>1
    <2>3. CASE awaiting # NoLog
      <3>1. Call = "block"
        BY <2>3 DEF Call
      <3>2. faults'["block"] = faults["block"] + 1 /\ faults["block"] \in Nat
        BY <1>1, <2>1, <3>1
      <3> QED
        BY <2>2, <3>2 DEF NoGapInv
    <2>4. CASE awaiting = NoLog
      <3>1. Call # "block"
        BY <2>4 DEF Call
      <3>2. faults'["block"] = faults["block"]
        BY <1>1, <2>1, <3>1
      <3>3. S' = S
        BY <2>1, <2>4
      <3>4. NoGapInv' <=>
              /\ faults' \in [Calls -> Nat]
              /\ faults'["block"] = 0 /\ lagChanges' = 0 =>
                    /\ ~stopped' \/ pc' = "replay" => Spread(timers', delivered', S')
                    /\ Gapless(timers', delivered')
        BY DEF NoGapInv, Spread, Gapless, Covered, On, Had
      <3> HIDE DEF S
      <3> QED
        BY <1>1, <2>1, <2>2, <3>2, <3>3, <3>4
    <2> QED
      BY <2>3, <2>4
  <1>13. CASE UNCHANGED vars
    BY <1>2, <1>13 DEF vars, pollVars, outVars, panelVars
  <1> QED
    BY <1>4, <1>5, <1>6, <1>7, <1>8, <1>9, <1>10, <1>11, <1>12, <1>13 DEF Next, Run

\* As long as no slider moves, a channel keeps the order of the chain, and as
\* long as every timestamp could be read its listeners miss no log.
\* Code: the sequential awaits in poll and start.
THEOREM ChainOrderKept == Spec => []ChainOrder
  <1>1. Init => QuietInv
    BY DEF Init, QuietInv
  <1>2. QuietInv /\ [Next]_vars => QuietInv'
    BY StepIsQuiet
  <1>3. FeedInv /\ QuietInv /\ NoGapInv /\ [Next]_vars => NoGapInv'
    BY NoGapStays
  <1>4. FeedInv /\ NoGapInv => ChainOrder
    <2> SUFFICES ASSUME FeedInv, NoGapInv, lagChanges = 0, NEW ch \in Channels
                 PROVE  /\ \A i, j \in 1..Len(delivered[ch]) :
                               i < j => delivered[ch][i] < delivered[ch][j]
                        /\ faults["block"] = 0 =>
                               \A l \in ToSet(delivered[ch]) : \A k \in 1..(l - 1) :
                                   \/ k \in ToSet(delivered[ch])
                                   \/ k \in ToSet(delivered["indexed"])
                                                \ Scheduled("flashblock")
      BY DEF ChainOrder
    <2>1. \A i, j \in 1..Len(delivered[ch]) : i < j => delivered[ch][i] < delivered[ch][j]
      BY DEF FeedInv, Outgoing, InOrder
    <2>2. "indexed" \in Channels /\ "flashblock" \in Channels
      BY DEF Channels
    <2>3. \A a \in Channels : delivered[a] \in Seq(LogIds)
      BY DEF FeedInv, Outgoing, OutType
    <2>4. \A a \in Channels : \A k : k \in ToSet(delivered[a]) <=> Had(delivered, a, k)
      BY <2>3 DEF ToSet, Had
    <2>5. ASSUME faults["block"] = 0, NEW l \in ToSet(delivered[ch]), NEW k \in 1..(l - 1)
          PROVE  \/ k \in ToSet(delivered[ch])
                 \/ k \in ToSet(delivered["indexed"]) \ Scheduled("flashblock")
      <3>1. l \in LogIds
        BY <2>3 DEF ToSet
      <3>2. Covered(timers, delivered, ch, k)
        BY <2>4, <2>5, <3>1 DEF NoGapInv, Gapless
      <3>3. k \in Scheduled("flashblock") <=> On(timers, delivered, "flashblock", k)
        BY <2>2, ScheduledIs
      <3> QED
        BY <2>2, <2>4, <3>2, <3>3 DEF Covered
    <2> QED
      BY <2>1, <2>5
  <1> QED
    BY <1>1, <1>2, <1>3, <1>4, NoGapAtFirst, FeedInvariant, PTL DEF Spec

-----------------------------------------------------------------------------
(***************************************************************************)
(* Nothing is lost as long as timestamps can be read                       *)
(*                                                                         *)
(* NothingLost fails: a log is marked as seen before the timestamp of its  *)
(* block is known, and is skipped when the range is read again after that  *)
(* call has failed.  It is the only way: whatever else fails and however   *)
(* the delays are moved, SeenIsOn is kept.                                 *)
(***************************************************************************)
\* What was seen stays on its channels.
LEMMA SeenStaysOn ==
    ASSUME "block" \notin Faults, FeedInv, SeenIsOn, [Next]_vars
    PROVE  SeenIsOn'
  <1>1. CASE TakeLog
    BY <1>1, TakeLogKeeps
  <1>2. CASE ReadTimestamp
    BY <1>2, ReadTimestampKeeps
  <1>3. ASSUME NEW i \in 1..Len(timers), FireTimer(i)
        PROVE  SeenIsOn'
    <2>1. UNCHANGED <<stopped, seen, awaiting>>
      BY <1>3 DEF FireTimer, pollVars, panelVars
    <2>2. \A k : On(timers, delivered, "indexed", k) => On(timers', delivered', "indexed", k)
      BY <1>3, FiredGoes DEF Channels
    <2> QED
      BY <2>1, <2>2 DEF SeenIsOn
  <1>4. CASE Stop
    BY <1>4 DEF Stop, SeenIsOn
  <1>5. CASE FinishReplay \/ FinishRange \/ Fail
    <2>1. UNCHANGED <<stopped, seen, timers, delivered>>
      BY <1>5 DEF FinishReplay, FinishRange, Fail, outVars, panelVars
    <2>2. awaiting = NoLog
      BY <1>5 DEF FinishReplay, FinishRange, Fail, Call, FeedInv, Polling
    <2>3. seen \ {awaiting} = seen
      BY <2>2 DEF FeedInv, Polling, NoLog
    <2> QED
      BY <2>1, <2>3 DEF SeenIsOn, On
  <1>6. CASE UNCHANGED <<stopped, seen, awaiting, timers, delivered>>
    BY <1>6 DEF SeenIsOn, On
  <1>7. CASE \/ \E n \in 0..2 : Mine(n)
             \/ \E ch \in Channels, ms \in Lags : MoveSlider(ch, ms)
             \/ \E h \in 0..head : ReadStartHead(h)
             \/ ReadStartLogs
             \/ Tick
             \/ \E h \in 0..head : ReadHead(h)
             \/ ReadLogs
             \/ UNCHANGED vars
    <2>1. UNCHANGED <<stopped, seen, awaiting, timers, delivered>>
      BY <1>7 DEF Mine, MoveSlider, ReadStartHead, ReadStartLogs, Tick, ReadHead, ReadLogs,
                  vars, chainVars, pollVars, outVars, panelVars
    <2> QED
      BY <1>6, <2>1
  <1> QED
    BY <1>1, <1>2, <1>3, <1>4, <1>5, <1>7 DEF Next, Run

\* If reading a timestamp never fails, no log below the next unprocessed
\* block is lost, in spite of failed heads and failed ranges, which are read
\* again.
THEOREM OnlyTimestampsLose ==
    ASSUME "block" \notin Faults
    PROVE  Spec => []NothingLost
  <1>1. Init => SeenIsOn
    BY DEF Init, SeenIsOn
  <1>2. FeedInv /\ SeenIsOn /\ [Next]_vars => SeenIsOn'
    BY SeenStaysOn
  <1>3. FeedInv /\ SeenIsOn => NothingLost
    <2> SUFFICES ASSUME FeedInv, SeenIsOn, ~stopped,
                        NEW l \in 1..Len(logs), logs[l] < fromBlock
                 PROVE  l \in Scheduled("indexed")
      BY DEF NothingLost
    <2>1. l \in seen
      BY DEF FeedInv, Progress
    <2>2. l # awaiting
      <3>1. SUFFICES ASSUME l = awaiting PROVE FALSE
        OBVIOUS
      <3>2. batch # <<>> /\ batch \in Seq(1..Len(logs)) /\ l = batch[1]
        BY <3>1 DEF FeedInv, Polling, Chain, NoLog
      <3>3. 1 \in 1..Len(batch)
        BY <3>2
      <3> QED
        BY <3>2, <3>3 DEF FeedInv, Progress
    <2>3. "indexed" \in Channels
      BY DEF Channels
    <2> QED
      BY <2>1, <2>2, <2>3, ScheduledIs DEF SeenIsOn
  <1> QED
    BY <1>1, <1>2, <1>3, FeedInvariant, PTL DEF Spec

=============================================================================
