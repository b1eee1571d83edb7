--------------------------- MODULE HostSnapshotProofs ---------------------------
(***************************************************************************)
(* Proofs about HostSnapshot, for any number of requests, sessions and     *)
(* steps, and channels in any order: how an open is correlated with its    *)
(* session, what a snapshot shows of it, that it comes to show what the    *)
(* chain says, and that in order it never shows less than before.          *)
(***************************************************************************)
EXTENDS HostSnapshot, FiniteTheorems

-----------------------------------------------------------------------------
(***************************************************************************)
(* The log                                                                 *)
(***************************************************************************)

Openings == {i \in 1..Len(log) : log[i].kind = "Opened"}

LogInv ==
    /\ \E S : log \in Seq(S)
    /\ \A l \in Openings : log[l].sid \in 1..(NewSession - 1)
    /\ flashed \subseteq 1..Len(log)

\* The sessions opened so far can be counted, which names the next one.
LEMMA OpeningsAreFinite ==
    ASSUME LogInv
    PROVE  /\ Len(log) \in Nat
           /\ IsFiniteSet(Openings)
           /\ NewSession \in Nat \ {0}
           /\ NewSession = Cardinality(Openings) + 1
  <1>1. Len(log) \in Nat
    BY DEF LogInv
  <1>2. IsFiniteSet(1..Len(log))
    BY <1>1, FS_Interval
  <1>3. IsFiniteSet(Openings)
    BY <1>2, FS_Subset DEF Openings
  <1>4. NewSession = Cardinality(Openings) + 1
    BY DEF NewSession, Openings
  <1> QED
    BY <1>1, <1>3, <1>4, FS_CardinalityType

\* A session is opened: its logs come last, and only the first is an opening.
LEMMA LogOpens ==
    ASSUME LogInv, NEW logs \in OpeningLogs(NewSession), log' = log \o logs
    PROVE  /\ \E S : log' \in Seq(S)
           /\ Len(log) \in Nat /\ Len(log') = Len(log) + 2
           /\ \A l \in 1..Len(log) : log'[l] = log[l]
           /\ Openings' = Openings \cup {Len(log) + 1}
           /\ log'[Len(log) + 1].sid = NewSession
           /\ log'[Len(log) + 1] = Opened(NewSession) /\ log'[Len(log) + 2] = logs[2]
           /\ NewSession' = NewSession + 1
  <1>1. PICK x : logs = <<Opened(NewSession), x>> /\ x.kind # "Opened"
    BY DEF OpeningLogs, Advanced, Settled
  <1>2. PICK S : log \in Seq(S)
    BY DEF LogInv
  <1> DEFINE T == S \cup {Opened(NewSession), x}
  <1>3. log \in Seq(T) /\ logs \in Seq(T) /\ Len(logs) = 2
    BY <1>1, <1>2
  <1>4. log' \in Seq(T)
    BY <1>3
  <1>5. /\ Len(log) \in Nat /\ Len(log') = Len(log) + 2
        /\ \A l \in 1..Len(log) : log'[l] = log[l]
        /\ log'[Len(log) + 1] = Opened(NewSession)
        /\ log'[Len(log) + 2] = x
    BY <1>1, <1>3
  <1>6. Opened(NewSession).kind = "Opened" /\ Opened(NewSession).sid = NewSession
    BY DEF Opened
  <1>7. Openings' = Openings \cup {Len(log) + 1}
    BY <1>1, <1>5, <1>6 DEF Openings
  <1>8. Len(log) + 1 \notin Openings
    BY <1>5 DEF Openings
  <1>9. Cardinality(Openings') = Cardinality(Openings) + 1
    BY <1>7, <1>8, OpeningsAreFinite, FS_AddElement
  <1>10. NewSession' = Cardinality(Openings') + 1
    BY DEF NewSession, Openings
  <1> QED
    BY <1>1, <1>4, <1>5, <1>6, <1>7, <1>9, <1>10, OpeningsAreFinite

\* A step opens none.
LEMMA LogSteps ==
    ASSUME LogInv, NEW sid, NEW e \in StepLogs(sid), log' = Append(log, e)
    PROVE  /\ \E S : log' \in Seq(S)
           /\ Len(log) \in Nat /\ Len(log') = Len(log) + 1
           /\ \A l \in 1..Len(log) : log'[l] = log[l]
           /\ log'[Len(log) + 1] = e
           /\ Openings' = Openings
           /\ NewSession' = NewSession
  <1>1. e.kind # "Opened"
    BY DEF StepLogs, Advanced, Settled
  <1>2. PICK S : log \in Seq(S)
    BY DEF LogInv
  <1> DEFINE T == S \cup {e}
  <1>3. log \in Seq(T)
    BY <1>2
  <1>4. /\ log' \in Seq(T)
        /\ Len(log) \in Nat /\ Len(log') = Len(log) + 1
        /\ \A l \in 1..Len(log) : log'[l] = log[l]
        /\ log'[Len(log) + 1] = e
    BY <1>3
  <1>5. Openings' = Openings
    BY <1>1, <1>4 DEF Openings
  <1>6. NewSession' = NewSession
    BY <1>5 DEF NewSession, Openings
  <1> QED
    BY <1>4, <1>5, <1>6

-----------------------------------------------------------------------------
(***************************************************************************)
(* The correlation of requests and sessions                                *)
(***************************************************************************)

WasFlashed(sid) == \E l \in flashed : log[l].kind = "Opened" /\ log[l].sid = sid

Item == [request : Requests, sid : Int]

TxInv ==
    /\ tx \in [Requests -> 0..(NewSession - 1)]
    /\ \A r, q \in Requests : tx[r] = tx[q] /\ tx[r] # NoSession => r = q

\* An accepted request whose session was pushed is confirmed, one whose session
\* was not is pending, and a session that was pushed too early for its request
\* is kept for it.
CallInv ==
    /\ call \in [Requests -> {"idle", "sending", "accepted", "opened", "failed"}]
    /\ pendingOpens \subseteq {r \in Requests : call[r] \notin {"idle", "sending"}}
    /\ confirmedOpens \subseteq {r \in Requests : WasFlashed(tx[r])}
    /\ \A sid \in recentOpens : WasFlashed(sid)
    /\ \A r \in Requests :
         /\ call[r] = "idle" => tx[r] = NoSession
         /\ call[r] = "sending" /\ WasFlashed(tx[r]) => tx[r] \in recentOpens
         /\ call[r] = "accepted" =>
              IF WasFlashed(tx[r]) THEN r \in confirmedOpens ELSE r \in pendingOpens

\* The item has the id of its request's session.
Named(o) == o.sid = tx[o.request] /\ o.sid # NoSession

\* A request has one optimistic item, of its pending id or its session.
ItemInv ==
    /\ optimistic \subseteq Item
    /\ \A o, p \in optimistic : o.request = p.request => o = p
    /\ \A o \in optimistic :
         /\ call[o.request] \in {"sending", "accepted", "opened"}
         /\ o.sid = -o.request \/ Named(o)
         /\ call[o.request] = "opened" => Named(o)
         /\ call[o.request] = "accepted" /\ WasFlashed(tx[o.request]) => Named(o)

OpenInv == LogInv /\ TxInv /\ CallInv /\ ItemInv

\* OpenInv holds at first.
LEMMA OpenInitInv == Init => OpenInv
  <1> SUFFICES ASSUME Init PROVE OpenInv
    OBVIOUS
  <1>1. \A phase : Opened(1).kind = "Opened" /\ Opened(1).sid = 1
                   /\ Advanced(1, 1, phase, 0).kind # "Opened"
    BY DEF Opened, Advanced
  <1>2. LogInv
    <2>1. CASE log = <<>>
      BY <2>1 DEF LogInv, Openings, Init
    <2>2. ASSUME NEW phase, log = <<Opened(1), Advanced(1, 1, phase, 0)>>
          PROVE  LogInv
      <3>1. Openings = {1}
        BY <1>1, <2>2 DEF Openings
      <3>a. Cardinality({1}) = 1
        BY FS_Singleton
      <3>2. NewSession = 2
        <4>1. NewSession = Cardinality(Openings) + 1
          BY DEF NewSession, Openings
        <4> QED
          BY <3>1, <3>a, <4>1
      <3>3. log \in Seq({Opened(1), Advanced(1, 1, phase, 0)})
        BY <2>2
      <3>4. Len(log) = 2 /\ log[1].sid = 1
        BY <1>1, <2>2
      <3>5. flashed \subseteq 1..Len(log)
        BY DEF Init
      <3> QED
        BY <3>1, <3>2, <3>3, <3>4, <3>5 DEF LogInv
    <2> QED
      BY <2>1, <2>2 DEF Init, Histories
  <1>3. NewSession \in Nat \ {0}
    BY <1>2, OpeningsAreFinite
  <1>4. ~WasFlashed(0)
    BY <1>2 DEF WasFlashed, LogInv, Openings
  <1>5. TxInv
    BY <1>3 DEF Init, TxInv, NoSession
  <1>6. CallInv
    BY <1>4 DEF Init, CallInv, NoSession
  <1>7. ItemInv
    BY DEF Init, ItemInv
  <1> QED
    BY <1>2, <1>5, <1>6, <1>7 DEF OpenInv

\* No session below the first and none to come was pushed.
LEMMA FlashedAreOpened ==
    ASSUME LogInv, NEW sid, WasFlashed(sid)
    PROVE  sid \in 1..(NewSession - 1)
  BY DEF LogInv, WasFlashed, Openings

\* What is mined changes nothing of what was pushed.
LEMMA MinedIsNotFlashed ==
    ASSUME LogInv, UNCHANGED flashed, \A l \in 1..Len(log) : log'[l] = log[l]
    PROVE  \A sid : WasFlashed(sid)' <=> WasFlashed(sid)
  BY DEF LogInv, WasFlashed

\* What setting the session of a request's item does to the items.
LEMMA ConfirmedItems ==
    ASSUME ItemInv, TxInv, NEW r \in Requests
    PROVE  /\ Confirmed(r) \subseteq Item
           /\ \A c \in Confirmed(r) : \E o \in optimistic :
                /\ c.request = o.request
                /\ IF c.request = r THEN c.sid = tx[r] ELSE c = o
           /\ \A c, d \in Confirmed(r) : c.request = d.request => c = d
  <1>1. tx[r] \in Int
    BY DEF TxInv
  <1>2. \A o \in optimistic :
          /\ o \in Item
          /\ [o EXCEPT !.sid = tx[r]] \in Item
          /\ [o EXCEPT !.sid = tx[r]].request = o.request
          /\ [o EXCEPT !.sid = tx[r]].sid = tx[r]
    BY <1>1 DEF ItemInv, Item
  <1>3. ASSUME NEW c \in Confirmed(r)
        PROVE  \E o \in optimistic :
                 /\ c = IF o.request = r THEN [o EXCEPT !.sid = tx[r]] ELSE o
                 /\ c.request = o.request /\ c \in Item
    BY <1>2, <1>3 DEF Confirmed
  <1>4. \A c \in Confirmed(r) : \E o \in optimistic :
                /\ c.request = o.request
                /\ IF c.request = r THEN c.sid = tx[r] ELSE c = o
    BY <1>2, <1>3
  <1>5. ASSUME NEW c \in Confirmed(r), NEW d \in Confirmed(r), c.request = d.request
        PROVE  c = d
    <2>1. PICK o \in optimistic :
             c.request = o.request
             /\ c = IF o.request = r THEN [o EXCEPT !.sid = tx[r]] ELSE o
      BY <1>3
    <2>2. PICK p \in optimistic :
             d.request = p.request
             /\ d = IF p.request = r THEN [p EXCEPT !.sid = tx[r]] ELSE p
      BY <1>3
    <2>3. o = p
      BY <1>5, <2>1, <2>2 DEF ItemInv
    <2> QED
      BY <2>1, <2>2, <2>3
  <1> QED
    BY <1>3, <1>4, <1>5

\* A session is mined, opened by a request or by nobody here.
LEMMA OpeningKeepsOpenInv ==
    ASSUME OpenInv, NEW logs \in OpeningLogs(NewSession), log' = log \o logs,
           UNCHANGED <<flashed, openVars>>,
           \/ UNCHANGED tx
           \/ \E r \in Requests : /\ call[r] # "idle" /\ tx[r] = NoSession
                                   /\ tx' = [tx EXCEPT ![r] = NewSession]
    PROVE  OpenInv'
  <1>1. /\ \E S : log' \in Seq(S)
        /\ Len(log) \in Nat /\ Len(log') = Len(log) + 2
        /\ \A l \in 1..Len(log) : log'[l] = log[l]
        /\ Openings' = Openings \cup {Len(log) + 1}
        /\ log'[Len(log) + 1].sid = NewSession
        /\ NewSession' = NewSession + 1
    BY LogOpens DEF OpenInv
  <1>2. NewSession \in Nat \ {0}
    BY OpeningsAreFinite DEF OpenInv
  <1>3. LogInv'
    <2>1. \A l \in Openings : l \in 1..Len(log) /\ log[l].sid \in 1..(NewSession - 1)
      BY DEF OpenInv, LogInv, Openings
    <2>2. \A l \in Openings' : log'[l].sid \in 1..(NewSession' - 1)
      BY <1>1, <1>2, <2>1
    <2>3. flashed' \subseteq 1..Len(log')
      BY <1>1 DEF OpenInv, LogInv
    <2> QED
      BY <1>1, <2>2, <2>3 DEF LogInv
  <1>4. \A sid : WasFlashed(sid)' <=> WasFlashed(sid)
    BY <1>1, MinedIsNotFlashed DEF OpenInv
  <1>5. ~WasFlashed(NewSession) /\ ~WasFlashed(NoSession)
    BY <1>2, FlashedAreOpened DEF OpenInv, NoSession
  <1>6. TxInv'
    BY <1>1, <1>2 DEF OpenInv, TxInv, NoSession
  <1>7. \A r \in Requests : tx'[r] = tx[r] \/ (tx[r] = NoSession /\ tx'[r] = NewSession
                                               /\ call[r] # "idle")
    BY DEF OpenInv, TxInv
  <1>8. CallInv'
    BY <1>4, <1>5, <1>7 DEF OpenInv, CallInv, openVars
  <1>9. ItemInv'
    <2>1. \A o \in optimistic : o.request \in Requests
      BY DEF OpenInv, ItemInv, Item
    <2> QED
      BY <1>4, <1>5, <1>7, <2>1 DEF OpenInv, ItemInv, Named, openVars
  <1> QED
    BY <1>3, <1>6, <1>8, <1>9 DEF OpenInv

\* A step of a session that is mined keeps OpenInv.
LEMMA MineStepKeepsOpenInv ==
    ASSUME OpenInv, NEW sid, MineStep(sid)
    PROVE  OpenInv'
  <1>1. PICK e \in StepLogs(sid) : log' = Append(log, e)
    BY DEF MineStep
  <1>2. /\ \E S : log' \in Seq(S)
        /\ Len(log) \in Nat /\ Len(log') = Len(log) + 1
        /\ \A l \in 1..Len(log) : log'[l] = log[l]
        /\ Openings' = Openings
        /\ NewSession' = NewSession
    BY <1>1, LogSteps DEF OpenInv
  <1>3. UNCHANGED <<tx, flashed, openVars>>
    BY DEF MineStep
  <1>4. LogInv'
    <2>1. \A l \in Openings : l \in 1..Len(log)
      BY DEF Openings
    <2> QED
      BY <1>2, <1>3, <2>1 DEF OpenInv, LogInv
  <1>5. \A s : WasFlashed(s)' <=> WasFlashed(s)
    BY <1>2, <1>3, MinedIsNotFlashed DEF OpenInv
  <1> QED
    BY <1>2, <1>3, <1>4, <1>5 DEF OpenInv, TxInv, CallInv, ItemInv, Named, openVars

\* A log arrives on the flashblock channel.
LEMMA FlashKeepsOpenInv ==
    ASSUME OpenInv, NEW l \in 1..Len(log), Flash(l)
    PROVE  OpenInv'
  <1>1. /\ flashed' = flashed \cup {l}
        /\ UNCHANGED <<log, tx, call>>
    BY DEF Flash, chainVars, openVars
  <1>2. LogInv'
    BY <1>1 DEF OpenInv, LogInv, Openings, NewSession
  <1>3. TxInv'
    BY <1>1 DEF OpenInv, TxInv, NewSession
  <1>4. CASE log[l].kind # "Opened"
    <2>1. UNCHANGED openVars
      BY <1>4 DEF Flash
    <2>2. \A sid : WasFlashed(sid)' <=> WasFlashed(sid)
      BY <1>1, <1>4 DEF WasFlashed
    <2> QED
      BY <1>1, <1>2, <1>3, <2>1, <2>2 DEF OpenInv, CallInv, ItemInv, Named, openVars
  <1>5. CASE log[l].kind = "Opened"
    <2> DEFINE sid == log[l].sid
               claims == {r \in pendingOpens : tx[r] = sid}
    <2>1. /\ pendingOpens' = pendingOpens \ claims
          /\ confirmedOpens' = confirmedOpens \cup claims
          /\ optimistic' = IF claims = {} THEN optimistic
                           ELSE Confirmed(CHOOSE r \in claims : TRUE)
          /\ recentOpens' = IF claims = {} THEN recentOpens \cup {sid} ELSE recentOpens
      BY <1>5 DEF Flash
    <2>2. \A s : WasFlashed(s)' <=> WasFlashed(s) \/ s = sid
      BY <1>1, <1>5 DEF WasFlashed
    <2>3. sid # NoSession
      <3>1. l \in Openings
        BY <1>5 DEF Openings
      <3> QED
        BY <3>1, OpeningsAreFinite DEF OpenInv, LogInv, NoSession
    <2>4. \A r \in Requests, q \in claims : tx[r] = sid => r = q
      BY <2>3 DEF OpenInv, TxInv, CallInv
    <2> HIDE DEF sid
    <2>5. CallInv'
      BY <1>1, <2>1, <2>2, <2>4 DEF OpenInv, CallInv
    <2>6. ItemInv'
      <3>1. CASE claims = {}
        <4>1. \A r \in Requests : call[r] = "accepted" /\ tx[r] = sid => WasFlashed(sid)
          BY <3>1 DEF OpenInv, CallInv
        <4>2. \A o \in optimistic : o.request \in Requests
          BY DEF OpenInv, ItemInv, Item
        <4> QED
          BY <1>1, <2>1, <2>2, <3>1, <4>1, <4>2 DEF OpenInv, ItemInv, Named
      <3>2. CASE claims # {}
        <4>1. PICK r \in claims : optimistic' = Confirmed(r)
          BY <2>1, <3>2
        <4>2. r \in Requests /\ tx[r] = sid
          BY <4>1 DEF OpenInv, CallInv
        <4>3. /\ optimistic' \subseteq Item
              /\ \A c \in optimistic' : \E o \in optimistic :
                   /\ c.request = o.request
                   /\ IF c.request = r THEN c.sid = tx[r] ELSE c = o
              /\ \A c, d \in optimistic' : c.request = d.request => c = d
          BY <4>1, <4>2, ConfirmedItems DEF OpenInv
        <4>4. \A q \in Requests : tx[q] = sid => q = r
          BY <2>4, <4>1
        <4>5. \A o \in optimistic : o.request \in Requests
          BY DEF OpenInv, ItemInv, Item
        <4>6. ASSUME NEW c \in optimistic'
              PROVE  /\ call[c.request] \in {"sending", "accepted", "opened"}
                     /\ c.sid = -c.request \/ Named(c)
                     /\ call[c.request] = "opened" => Named(c)
                     /\ call[c.request] = "accepted" /\ WasFlashed(tx[c.request])' => Named(c)
          <5>1. PICK o \in optimistic :
                  /\ c.request = o.request
                  /\ IF c.request = r THEN c.sid = tx[r] ELSE c = o
            BY <4>3
          <5>2. CASE c.request = r
            BY <2>3, <4>2, <5>1, <5>2 DEF OpenInv, ItemInv, Named
          <5>3. CASE c.request # r
            BY <1>1, <2>2, <4>4, <4>5, <5>1, <5>3 DEF OpenInv, ItemInv, Named
          <5> QED
            BY <5>2, <5>3
        <4> QED
          BY <1>1, <4>3, <4>6 DEF ItemInv, Named
      <3> QED
        BY <3>1, <3>2
    <2> QED
      BY <1>2, <1>3, <2>5, <2>6 DEF OpenInv
  <1> QED
    BY <1>4, <1>5

-----------------------------------------------------------------------------
(***************************************************************************)
(* The calls                                                               *)
(***************************************************************************)

\* What a step of openSession leaves alone.
CallStep == UNCHANGED <<chainVars, flashed>>

\* A step of a call alone leaves the chain and the flashed sessions as they are.
LEMMA CallStepStays ==
    ASSUME OpenInv, CallStep
    PROVE  LogInv' /\ TxInv' /\ UNCHANGED tx /\ \A s : WasFlashed(s)' <=> WasFlashed(s)
  BY DEF OpenInv, CallStep, chainVars, LogInv, Openings, NewSession, TxInv, WasFlashed

\* The items after a call was answered for request r with its session known.
LEMMA NamingKeepsItems ==
    ASSUME OpenInv, CallStep, NEW r \in Requests, tx[r] # NoSession,
           NEW c \in {"accepted", "opened"}, call' = [call EXCEPT ![r] = c],
           optimistic' = Confirmed(r)
    PROVE  ItemInv'
  <1>1. /\ optimistic' \subseteq Item
        /\ \A i \in optimistic' : \E o \in optimistic :
             /\ i.request = o.request
             /\ IF i.request = r THEN i.sid = tx[r] ELSE i = o
        /\ \A i, j \in optimistic' : i.request = j.request => i = j
    BY ConfirmedItems DEF OpenInv
  <1>2. UNCHANGED tx /\ \A s : WasFlashed(s)' <=> WasFlashed(s)
    BY CallStepStays
  <1>3. \A q \in Requests : call'[q] = IF q = r THEN c ELSE call[q]
    BY DEF OpenInv, CallInv
  <1>4. ASSUME NEW i \in optimistic'
        PROVE  /\ call'[i.request] \in {"sending", "accepted", "opened"}
               /\ i.sid = -i.request \/ Named(i)'
               /\ call'[i.request] = "opened" => Named(i)'
               /\ call'[i.request] = "accepted" /\ WasFlashed(tx[i.request])' => Named(i)'
    <2>1. PICK o \in optimistic :
            /\ i.request = o.request
            /\ IF i.request = r THEN i.sid = tx[r] ELSE i = o
      BY <1>1
    <2>2. i.request \in Requests
      BY <1>1 DEF Item
    <2>3. CASE i.request = r
      BY <1>2, <1>3, <2>1, <2>2, <2>3 DEF Named
    <2>4. CASE i.request # r
      BY <1>2, <1>3, <2>1, <2>2, <2>4 DEF OpenInv, ItemInv, Named
    <2> QED
      BY <2>3, <2>4
  <1> QED
    BY <1>1, <1>4 DEF ItemInv

\* The items after the call of request r has gone on, without a name for it.
LEMMA KeepingKeepsItems ==
    ASSUME OpenInv, CallStep, NEW r \in Requests, NEW c, call' = [call EXCEPT ![r] = c],
           optimistic' \subseteq optimistic,
           \A o \in optimistic' : o.request = r => c = "accepted" /\ ~WasFlashed(tx[r])
    PROVE  ItemInv'
  <1>1. UNCHANGED tx /\ \A s : WasFlashed(s)' <=> WasFlashed(s)
    BY CallStepStays
  <1>2. \A q \in Requests : call'[q] = IF q = r THEN c ELSE call[q]
    BY DEF OpenInv, CallInv
  <1>3. \A o \in optimistic : o.request \in Requests
    BY DEF OpenInv, ItemInv, Item
  <1> QED
    BY <1>1, <1>2, <1>3 DEF OpenInv, ItemInv, Named

\* The call of openSession keeps OpenInv.
LEMMA OpenSessionKeepsOpenInv ==
    ASSUME OpenInv, NEW r \in Requests, OpenSession(r)
    PROVE  OpenInv'
  <1>1. CallStep
    BY DEF OpenSession, CallStep
  <1>2. LogInv' /\ TxInv' /\ UNCHANGED tx /\ \A s : WasFlashed(s)' <=> WasFlashed(s)
    BY <1>1, CallStepStays
  <1>3. /\ call[r] = "idle" /\ tx[r] = NoSession
        /\ call' = [call EXCEPT ![r] = "sending"]
        /\ UNCHANGED <<pendingOpens, recentOpens, confirmedOpens>>
    BY DEF OpenSession, OpenInv, CallInv
  <1>4. \A q \in Requests : call'[q] = IF q = r THEN "sending" ELSE call[q]
    BY <1>3 DEF OpenInv, CallInv
  <1>5. ~WasFlashed(NoSession)
    BY FlashedAreOpened DEF OpenInv, NoSession
  <1>6. CallInv'
    BY <1>2, <1>3, <1>4, <1>5 DEF OpenInv, CallInv
  <1>7. ItemInv'
    <2> DEFINE new == [request |-> r, sid |-> -r]
    <2>1. optimistic' \subseteq {new} \cup optimistic
      BY DEF OpenSession
    <2>2. new \in Item /\ new.request = r /\ new.sid = -r
      BY SnapshotAssumption DEF Item
    <2>3. \A o \in optimistic : o.request \in Requests /\ o.request # r
      BY <1>3 DEF OpenInv, ItemInv, Item
    <2> HIDE DEF new
    <2>4. optimistic' \subseteq Item
          /\ \A o, p \in optimistic' : o.request = p.request => o = p
      BY <2>1, <2>2, <2>3 DEF OpenInv, ItemInv
    <2>5. ASSUME NEW o \in optimistic'
          PROVE  /\ call'[o.request] \in {"sending", "accepted", "opened"}
                 /\ o.sid = -o.request \/ Named(o)'
                 /\ call'[o.request] = "opened" => Named(o)'
                 /\ call'[o.request] = "accepted" /\ WasFlashed(tx[o.request])' => Named(o)'
      <3>1. CASE o = new
        BY <1>4, <2>2, <3>1
      <3>2. CASE o \in optimistic
        BY <1>2, <1>4, <2>3, <3>2 DEF OpenInv, ItemInv, Named
      <3> QED
        BY <2>1, <3>1, <3>2
    <2> QED
      BY <2>4, <2>5 DEF ItemInv
  <1> QED
    BY <1>2, <1>6, <1>7 DEF OpenInv

\* The answer that a call is accepted keeps OpenInv.
LEMMA AcceptKeepsOpenInv ==
    ASSUME OpenInv, NEW r \in Requests, Accept(r)
    PROVE  OpenInv'
  <1>1. CallStep
    BY DEF Accept, CallStep
  <1>2. LogInv' /\ TxInv' /\ UNCHANGED tx /\ \A s : WasFlashed(s)' <=> WasFlashed(s)
    BY <1>1, CallStepStays
  <1>3. call[r] = "sending" /\ call' = [call EXCEPT ![r] = "accepted"]
    BY DEF Accept
  <1>4. \A q \in Requests : call'[q] = IF q = r THEN "accepted" ELSE call[q]
    BY <1>3 DEF OpenInv, CallInv
  <1>5. CASE tx[r] \in recentOpens
    <2>1. /\ recentOpens' = recentOpens \ {tx[r]}
          /\ confirmedOpens' = confirmedOpens \cup {r}
          /\ optimistic' = Confirmed(r)
          /\ UNCHANGED pendingOpens
      BY <1>5 DEF Accept
    <2>2. WasFlashed(tx[r]) /\ tx[r] # NoSession
      BY <1>5, FlashedAreOpened DEF OpenInv, CallInv, NoSession
    <2>3. \A q \in Requests : tx[q] = tx[r] => q = r
      BY <2>2 DEF OpenInv, TxInv
    <2>4. CallInv'
      BY <1>2, <1>3, <1>4, <2>1, <2>2, <2>3 DEF OpenInv, CallInv
    <2>5. ItemInv'
      BY <1>1, <1>3, <2>1, <2>2, NamingKeepsItems
    <2> QED
      BY <1>2, <2>4, <2>5 DEF OpenInv
  <1>6. CASE tx[r] \notin recentOpens
    <2>1. /\ pendingOpens' = pendingOpens \cup {r}
          /\ UNCHANGED <<recentOpens, confirmedOpens, optimistic>>
      BY <1>6 DEF Accept
    <2>2. ~WasFlashed(tx[r])
      BY <1>3, <1>6 DEF OpenInv, CallInv
    <2>3. CallInv'
      BY <1>2, <1>3, <1>4, <2>1, <2>2 DEF OpenInv, CallInv
    <2>4. ItemInv'
      BY <1>1, <1>3, <2>1, <2>2, KeepingKeepsItems
    <2> QED
      BY <1>2, <2>3, <2>4 DEF OpenInv
  <1> QED
    BY <1>5, <1>6

\* The receipt of a call keeps OpenInv.
LEMMA ReceiptKeepsOpenInv ==
    ASSUME OpenInv, NEW r \in Requests, Receipt(r)
    PROVE  OpenInv'
  <1>1. CallStep
    BY DEF Receipt, CallStep
  <1>2. LogInv' /\ TxInv' /\ UNCHANGED tx /\ \A s : WasFlashed(s)' <=> WasFlashed(s)
    BY <1>1, CallStepStays
  <1>3. /\ call[r] = "accepted" /\ tx[r] # NoSession
        /\ call' = [call EXCEPT ![r] = "opened"]
        /\ pendingOpens' = pendingOpens \ {r}
        /\ confirmedOpens' = confirmedOpens \ {r}
        /\ optimistic' = Confirmed(r)
        /\ UNCHANGED recentOpens
    BY DEF Receipt
  <1>4. \A q \in Requests : call'[q] = IF q = r THEN "opened" ELSE call[q]
    BY <1>3 DEF OpenInv, CallInv
  <1>5. CallInv'
    BY <1>2, <1>3, <1>4 DEF OpenInv, CallInv
  <1>6. ItemInv'
    BY <1>1, <1>3, NamingKeepsItems
  <1> QED
    BY <1>2, <1>5, <1>6 DEF OpenInv

\* The failure of a call keeps OpenInv.
LEMMA FailKeepsOpenInv ==
    ASSUME OpenInv, NEW r \in Requests, Fail(r)
    PROVE  OpenInv'
  <1>1. CallStep
    BY DEF Fail, CallStep
  <1>2. LogInv' /\ TxInv' /\ UNCHANGED tx /\ \A s : WasFlashed(s)' <=> WasFlashed(s)
    BY <1>1, CallStepStays
  <1>3. /\ call[r] \in {"sending", "accepted"}
        /\ confirmedOpens' = confirmedOpens \ {r}
        /\ UNCHANGED <<pendingOpens, recentOpens>>
    BY DEF Fail
  <1>4. CASE r \in confirmedOpens
    <2>1. call' = [call EXCEPT ![r] = "opened"] /\ optimistic' = Confirmed(r)
      BY <1>4 DEF Fail
    <2>2. tx[r] # NoSession
      BY <1>4, FlashedAreOpened DEF OpenInv, CallInv, NoSession
    <2>3. \A q \in Requests : call'[q] = IF q = r THEN "opened" ELSE call[q]
      BY <2>1 DEF OpenInv, CallInv
    <2>4. CallInv'
      BY <1>2, <1>3, <2>1, <2>3 DEF OpenInv, CallInv
    <2>5. ItemInv'
      BY <1>1, <2>1, <2>2, NamingKeepsItems
    <2> QED
      BY <1>2, <2>4, <2>5 DEF OpenInv
  <1>5. CASE r \notin confirmedOpens
    <2>1. /\ call' = [call EXCEPT ![r] = "failed"]
          /\ optimistic' = {o \in optimistic : o.request # r}
      BY <1>5 DEF Fail
    <2>2. \A q \in Requests : call'[q] = IF q = r THEN "failed" ELSE call[q]
      BY <2>1 DEF OpenInv, CallInv
    <2>3. CallInv'
      BY <1>2, <1>3, <2>1, <2>2 DEF OpenInv, CallInv
    <2>4. ItemInv'
      BY <1>1, <2>1, KeepingKeepsItems
    <2> QED
      BY <1>2, <2>3, <2>4 DEF OpenInv
  <1> QED
    BY <1>4, <1>5

\* OpenInv is inductive.
LEMMA NextOpenInv ==
    ASSUME OpenInv, [Next]_vars
    PROVE  OpenInv'
  <1>1. ASSUME UNCHANGED <<chainVars, flashed, openVars>> PROVE OpenInv'
    <2>1. CallStep
      BY <1>1 DEF CallStep
    <2> QED
      BY <1>1, <2>1, CallStepStays DEF OpenInv, CallInv, ItemInv, Named, openVars
  <1>2. ASSUME NEW r \in Requests, MineOpen(r) PROVE OpenInv'
    BY <1>2, OpeningKeepsOpenInv DEF MineOpen
  <1>3. CASE MineForeignOpen
    BY <1>3, OpeningKeepsOpenInv DEF MineForeignOpen
  <1>4. ASSUME NEW l \in 1..Len(log), Index(l) PROVE OpenInv'
    BY <1>1, <1>4 DEF Index
  <1>5. CASE ToggleWallet \/ Render
    BY <1>1, <1>5 DEF ToggleWallet, Render
  <1>6. CASE UNCHANGED vars
    BY <1>1, <1>6 DEF vars
  <1> QED
    BY <1>2, <1>3, <1>4, <1>5, <1>6, MineStepKeepsOpenInv, FlashKeepsOpenInv,
       OpenSessionKeepsOpenInv, AcceptKeepsOpenInv, ReceiptKeepsOpenInv, FailKeepsOpenInv
    DEF Next, Step

\* A bet whose transaction is known and whose session has been pushed is not
\* reported as failed, however sending it ends and in whatever order the
\* channels deliver.
\* Code: confirmedOpensRef and the catch of openSession.
THEOREM LiveBetsNeverFail == Spec => LiveBetNeverFails
  <1>1. OpenInv /\ [Next]_vars => OpenInv'
    BY NextOpenInv
  <1>2. OpenInv /\ [Next]_vars =>
            [\A r \in Requests, l \in flashed :
               /\ call[r] = "accepted"
               /\ log[l].kind = "Opened"
               /\ log[l].sid = tx[r]
               => call'[r] # "failed"]_vars
    <2> SUFFICES ASSUME OpenInv, Next,
                        NEW r \in Requests, NEW l \in flashed,
                        call[r] = "accepted", log[l].kind = "Opened", log[l].sid = tx[r],
                        call'[r] = "failed"
                 PROVE  FALSE
      OBVIOUS
    <2>1. r \in confirmedOpens
      BY DEF OpenInv, CallInv, WasFlashed
    <2>2. \A q \in Requests : ~Fail(q)
      BY <2>1 DEF Fail, OpenInv, CallInv
    <2>3. call' = call \/ \E q \in Requests, c \in {"sending", "accepted", "opened"} :
                             call' = [call EXCEPT ![q] = c]
      BY <2>2 DEF Next, Step, MineOpen, MineForeignOpen, MineStep, Index, Flash,
                  OpenSession, Accept, Receipt, ToggleWallet, Render, openVars
    <2> QED
      BY <2>3 DEF OpenInv, CallInv
  <1> QED
    BY <1>1, <1>2, OpenInitInv, PTL DEF Spec, LiveBetNeverFails

-----------------------------------------------------------------------------
(***************************************************************************)
(* What a render publishes                                                 *)
(***************************************************************************)

Unique(items) == \A i, j \in items : i.sid = j.sid => i = j
Apart(items, others) == \A i \in items, j \in others : i.sid # j.sid

\* What the reconciler remembers of a session is either a result or a round in
\* flight, and one of them.
RenderInv ==
    /\ Unique(pushed.items)
    /\ Unique(published.settled)
    /\ Unique(published.open)
    /\ Apart(published.settled, published.open)

\* mergeFlashblockPatchIntoItem and the demotion keep the session of an item.
LEMMA OptimisticItemsAreUnique ==
    ASSUME OpenInv
    PROVE  Unique(OptimisticItems)
  <1> DEFINE Base(o) == [PendingItem(o.request) EXCEPT !.sid = o.sid]
             Shape(o) == IF o.sid \in {-o.request} \cup SessionRowIds THEN Base(o)
                         ELSE MergedItem(Base(o), patches[o.sid])
  <1>1. ASSUME NEW o PROVE Shape(o).sid = o.sid
    <2>1. Base(o).sid = o.sid /\ "sid" \in DOMAIN Base(o)
      BY DEF PendingItem
    <2>2. \A item, patch : item.sid = o.sid => MergedItem(item, patch).sid = o.sid
      BY DEF MergedItem
    <2> HIDE DEF Base
    <2> QED
      BY <2>1, <2>2
  <1>2. \A o, p \in optimistic : o.sid = p.sid => o = p
    <2>0. NewSession \in Nat
      BY OpeningsAreFinite DEF OpenInv
    <2>1. \A o \in optimistic : /\ o.request \in Requests
                                /\ o.request \in Nat \ {0}
                                /\ tx[o.request] \in Nat
      <3>1. \A r \in Requests : r \in Nat \ {0} /\ tx[r] \in Nat
        BY <2>0, SnapshotAssumption DEF OpenInv, TxInv
      <3> QED
        BY <3>1 DEF OpenInv, ItemInv, Item
    <2> QED
      BY <2>1 DEF OpenInv, ItemInv, TxInv, Named, NoSession
  <1>3. OptimisticItems = {Shape(o) : o \in optimistic}
    BY DEF OptimisticItems
  <1> HIDE DEF Shape
  <1> QED
    BY <1>1, <1>2, <1>3 DEF Unique

\* The projected rows show a session once.
LEMMA ProjectedIsUnique == Unique(Projected)
  <1>1. \A sid, row, patch : ProjectedItem(sid, row, patch).sid = sid
    BY DEF ProjectedItem
  <1> QED
    BY <1>1 DEF Projected, Unique

\* The merge shows a session once, if the projected rows do and so do the
\* optimistic items.
LEMMA MergeKeepsUnique ==
    ASSUME NEW projected, NEW optimisticItems,
           Unique(projected), Unique(optimisticItems)
    PROVE  Unique(MergedItems(projected, optimisticItems))
  BY DEF Unique, MergedItems, Ids

\* The reconciler shows a session once, and remembers it once.
LEMMA ReconcilerKeepsUnique ==
    ASSUME NEW items, NEW released, NEW known, NEW out,
           out = Reconciled(items, released, known),
           Unique(items), Unique(known.settled), Unique(known.open),
           Apart(known.settled, known.open)
    PROVE  /\ Unique(out.items)
           /\ Unique(out.settled)
           /\ Unique(out.open)
           /\ Apart(out.settled, out.open)
  <1> DEFINE settled == {s \in known.settled : s.sid \notin released}
             open == {o \in known.open : o.sid \notin released}
             kept == {s \in settled : \E item \in items :
                                         item.sid = s.sid /\ ~IsComplete(item)}
             complete == {item \in items : IsComplete(item)}
             Shape(item) == IF item.settled \/ IsTerminalPhase(item.phase)
                            THEN Demoted(item) ELSE item
             unsettled == {i \in items : ~IsComplete(i) /\ i.sid \notin Ids(kept)}
             waiting == {Shape(item) : item \in unsettled}
             settledNow == complete \cup {s \in settled : s.sid \notin Ids(complete)}
             openNow == {w \in waiting : w.sid > 0}
                          \cup {o \in open : o.sid \notin Ids(complete) \cup Ids(waiting)}
             shown == kept \cup complete \cup waiting
                        \cup {p \in settledNow \cup openNow : p.sid \notin Ids(items)}
  <1>1. out = [items |-> shown, settled |-> settledNow, open |-> openNow]
    BY DEF Reconciled
  <1>2. out.items = shown /\ out.settled = settledNow /\ out.open = openNow
    BY <1>1
  <1>3. \A item : Shape(item).sid = item.sid
    BY DEF Demoted
  <1>4. Unique(settled) /\ Unique(open) /\ Apart(settled, open)
    BY DEF Unique, Apart
  <1> HIDE DEF Shape, settled, open
  <1>5. Unique(kept) /\ Unique(complete) /\ Unique(waiting)
    <2>1. Unique(kept) /\ Unique(complete)
      BY <1>4 DEF Unique
    <2>2. ASSUME NEW v \in waiting, NEW w \in waiting, v.sid = w.sid PROVE v = w
      <3>1. PICK i \in unsettled : v = Shape(i)
        OBVIOUS
      <3>2. PICK j \in unsettled : w = Shape(j)
        OBVIOUS
      <3>3. i.sid = j.sid
        BY <1>3, <2>2, <3>1, <3>2
      <3>4. i = j
        BY <3>3 DEF Unique
      <3> QED
        BY <3>1, <3>2, <3>4
    <2> QED
      BY <2>1, <2>2 DEF Unique
  <1>6. Apart(kept, complete) /\ Apart(kept, waiting) /\ Apart(complete, waiting)
    BY <1>3 DEF Unique, Apart, Ids
  <1>7. \A i \in kept \cup complete \cup waiting : i.sid \in Ids(items)
    BY <1>3 DEF Ids
  <1>8. Unique(settledNow)
    BY <1>4, <1>5 DEF Unique, Ids
  <1>9. Unique(openNow)
    BY <1>4, <1>5 DEF Unique, Ids
  <1>10. Apart(settled, waiting)
    <2> SUFFICES ASSUME NEW s \in settled, NEW w \in waiting, s.sid = w.sid PROVE FALSE
      BY DEF Apart
    <2>1. PICK i \in unsettled : w = Shape(i)
      OBVIOUS
    <2>2. s \in kept
      BY <1>3, <2>1
    <2> QED
      BY <1>3, <2>1, <2>2 DEF Ids
  <1>11. Apart(settledNow, openNow)
    BY <1>4, <1>6, <1>10 DEF Apart, Ids
  <1> HIDE DEF kept, complete, waiting, settledNow, openNow
  <1>12. Unique(shown)
    BY <1>5, <1>6, <1>7, <1>8, <1>9, <1>11 DEF Unique, Apart
  <1> QED
    BY <1>2, <1>8, <1>9, <1>11, <1>12

\* A render keeps RenderInv.
LEMMA RenderKeepsRenderInv ==
    ASSUME OpenInv, RenderInv, Render
    PROVE  RenderInv'
  <1>1. Unique(MergedItems(Projected, OptimisticItems))
    BY OptimisticItemsAreUnique, ProjectedIsUnique, MergeKeepsUnique
  <1>2. PICK out : out = Reconciliation
    OBVIOUS
  <1>3. /\ Unique(out.items)
        /\ Unique(out.settled)
        /\ Unique(out.open)
        /\ Apart(out.settled, out.open)
    BY <1>1, <1>2, ReconcilerKeepsUnique DEF Reconciliation, RenderInv
  <1>4. /\ published' = [settled |-> out.settled, open |-> out.open]
        /\ pushed'.items = out.items
    BY <1>2 DEF Render
  <1> QED
    BY <1>3, <1>4 DEF RenderInv

\* A session is shown once, and a bet is not shown next to the session it
\* opened once the hash of its transaction and the session's log are both
\* known, in whichever order they came.
\* Code: mergeCasinoSessionItems, reconcileMonotonicSessionItems, and the
\* correlation in handleFlashblockSessionOpened and onAccepted.
THEOREM SessionsAreShownOnce == Spec => []OneItemPerSession
  <1>1. Init => OpenInv /\ RenderInv
    BY OpenInitInv DEF Init, RenderInv, Unique, Apart
  <1>2. OpenInv /\ RenderInv /\ [Next]_vars => OpenInv' /\ RenderInv'
    <2> SUFFICES ASSUME OpenInv, RenderInv, [Next]_vars PROVE RenderInv'
      BY NextOpenInv
    <2>1. UNCHANGED renderVars \/ Render
      BY DEF Next, Step, vars, MineOpen, MineForeignOpen, MineStep, Index, Flash,
             OpenSession, Accept, Receipt, Fail, ToggleWallet
    <2> QED
      BY <2>1, RenderKeepsRenderInv DEF RenderInv, renderVars, Unique, Apart
  <1>3. OpenInv /\ RenderInv => OneItemPerSession
    <2> SUFFICES ASSUME OpenInv, RenderInv PROVE OneItemPerSession
      OBVIOUS
    <2>1. ASSUME NEW o \in optimistic, NEW l \in flashed,
                 log[l].kind = "Opened", log[l].sid = tx[o.request],
                 call[o.request] # "sending"
          PROVE  o.sid = tx[o.request]
      BY <2>1 DEF OpenInv, ItemInv, Named, WasFlashed
    <2> QED
      BY <2>1 DEF RenderInv, Unique, OneItemPerSession
  <1> QED
    BY <1>1, <1>2, <1>3, PTL DEF Spec

-----------------------------------------------------------------------------
(***************************************************************************)
(* A result that was published stays                                       *)
(***************************************************************************)

\* What the chain may say of an event.
WellFormed(e) ==
    /\ e.kind \in {"Opened", "Advanced", "Settled"}
    /\ e.step \in Nat
    /\ e.kind = "Advanced" => e.phase \in WaitingPhases
    /\ e.kind = "Settled" => /\ IsTerminalPhase(e.phase)
                             /\ e.payout # NoPayout
                             /\ e.phase = "SETTLED" => e.state # 0

\* A session says nothing after its settlement, and of its events one is last.
EventInv ==
    /\ \A l \in 1..Len(log) : log[l].sid \in 1..(NewSession - 1) /\ WellFormed(log[l])
    /\ \A i, j \in 1..Len(log) :
           log[i].kind = "Settled" /\ log[j].sid = log[i].sid => j <= i
    /\ \A sid : EventsOf(sid) # {} =>
           \E m \in EventsOf(sid) : \A l \in EventsOf(sid) : l <= m
    /\ \A r \in Requests : tx[r] \in {NoSession} \cup SessionIds

\* The events of a session that goes on are well formed.
LEMMA EventsAreWellFormed ==
    ASSUME NEW sid, NEW phase, NEW step \in Nat, NEW word
    PROVE  /\ WellFormed(Opened(sid)) /\ Opened(sid).kind = "Opened"
           /\ phase \in WaitingPhases => WellFormed(Advanced(sid, step, phase, word))
           /\ Opened(sid).sid = sid /\ Advanced(sid, step, phase, word).sid = sid
  BY DEF WellFormed, Opened, Advanced, WaitingPhases

\* The event of the end of a session is well formed.
LEMMA SettledIsWellFormed ==
    ASSUME NEW sid, NEW phase \in {"SETTLED", "CANCELLED", "FORFEITED"}, NEW word,
           NEW state \in Nat, phase = "SETTLED" => state # 0
    PROVE  /\ WellFormed(Settled(sid, state, phase, word, Payout))
           /\ Settled(sid, state, phase, word, Payout).sid = sid
  BY DEF WellFormed, Settled, IsTerminalPhase, Payout, NoPayout

\* The last event of a session is one of its events, and what is said of a
\* session that is open on the chain is no settlement.
LEMMA LastEventIsLast ==
    ASSUME LogInv, EventInv, NEW sid, EventsOf(sid) # {}
    PROVE  /\ Max(EventsOf(sid)) \in EventsOf(sid)
           /\ \A l \in EventsOf(sid) : l <= Max(EventsOf(sid))
           /\ LastEvent(sid).kind = "Advanced" =>
                \A l \in EventsOf(sid) : log[l].kind # "Settled"
  <1>1. Len(log) \in Nat
    BY OpeningsAreFinite
  <1>2. EventsOf(sid) \subseteq Int
    BY <1>1 DEF EventsOf
  <1>3. PICK m \in EventsOf(sid) : \A l \in EventsOf(sid) : m >= l
    BY <1>2 DEF EventInv
  <1>4. /\ Max(EventsOf(sid)) \in EventsOf(sid)
        /\ \A l \in EventsOf(sid) : Max(EventsOf(sid)) >= l
    BY <1>3 DEF Max
  <1>5. \A l \in EventsOf(sid) : log[l].kind = "Settled" => Max(EventsOf(sid)) = l
    BY <1>2, <1>4 DEF EventInv, EventsOf
  <1> QED
    BY <1>2, <1>4, <1>5 DEF LastEvent

\* The next events of a session that is open are well formed.
LEMMA StepsAreWellFormed ==
    ASSUME LogInv, EventInv, NEW sid, EventsOf(sid) # {}, NEW e \in StepLogs(sid)
    PROVE  WellFormed(e) /\ e.sid = sid
  <1>1. LastEvent(sid).step \in Nat
    BY LastEventIsLast DEF EventInv, EventsOf, LastEvent, WellFormed
  <1> DEFINE n == LastEvent(sid).step
  <1>2. PICK word, phase :
          \/ phase \in WaitingPhases /\ e = Advanced(sid, n + 1, phase, word)
          \/ e = Settled(sid, n + 1, "SETTLED", word, Payout)
          \/ phase \in {"CANCELLED", "FORFEITED"} /\ e = Settled(sid, n, phase, word, Payout)
    <2> DEFINE waits == LastEvent(sid).phase = "WAITING_RANDOMNESS"
               word == IF waits THEN n ELSE 0
               given == IF waits THEN "CANCELLED" ELSE "FORFEITED"
    <2>1. \/ \E phase \in WaitingPhases : e = Advanced(sid, n + 1, phase, word)
          \/ e = Settled(sid, n + 1, "SETTLED", word, Payout)
          \/ e = Settled(sid, n, given, 0, Payout)
      BY DEF StepLogs
    <2>2. given \in {"CANCELLED", "FORFEITED"}
      OBVIOUS
    <2> HIDE DEF n, word, given
    <2> QED
      BY <2>1, <2>2
  <1>3. n + 1 \in Nat /\ n + 1 # 0
    BY <1>1
  <1>4. n \in Nat
    BY <1>1
  <1> HIDE DEF n
  <1>5. CASE phase \in WaitingPhases /\ e = Advanced(sid, n + 1, phase, word)
    <2>1. /\ WellFormed(Advanced(sid, n + 1, phase, word))
          /\ Advanced(sid, n + 1, phase, word).sid = sid
      BY <1>3, <1>5, EventsAreWellFormed
    <2> QED
      BY <1>5, <2>1
  <1>6. CASE e = Settled(sid, n + 1, "SETTLED", word, Payout)
    BY <1>3, <1>4, <1>6, SettledIsWellFormed
  <1>7. CASE phase \in {"CANCELLED", "FORFEITED"} /\ e = Settled(sid, n, phase, word, Payout)
    BY <1>4, <1>7, SettledIsWellFormed
  <1> QED
    BY <1>2, <1>5, <1>6, <1>7

\* EventInv is inductive.
LEMMA EventNextInv ==
    ASSUME OpenInv, EventInv, [Next]_vars
    PROVE  EventInv'
  <1>1. ASSUME UNCHANGED <<log, tx>> PROVE EventInv'
    BY <1>1 DEF EventInv, EventsOf, NewSession
  <1>2. ASSUME NEW logs \in OpeningLogs(NewSession), log' = log \o logs,
               NewSession <= MaxSessions,
               \/ UNCHANGED tx
               \/ \E r \in Requests : tx' = [tx EXCEPT ![r] = NewSession]
        PROVE  EventInv'
    <2>1. /\ Len(log) \in Nat /\ Len(log') = Len(log) + 2
          /\ \A l \in 1..Len(log) : log'[l] = log[l]
          /\ log'[Len(log) + 1] = Opened(NewSession) /\ log'[Len(log) + 2] = logs[2]
          /\ NewSession' = NewSession + 1
      BY <1>2, LogOpens DEF OpenInv
    <2>2. NewSession \in Nat \ {0}
      BY OpeningsAreFinite DEF OpenInv
    <2>3. WellFormed(logs[2]) /\ logs[2].sid = NewSession
      <3>1. \/ \E phase \in WaitingPhases :
                 logs = <<Opened(NewSession), Advanced(NewSession, 1, phase, 0)>>
            \/ logs = <<Opened(NewSession), Settled(NewSession, 1, "SETTLED", 0, Payout)>>
        BY <1>2 DEF OpeningLogs
      <3>2. ASSUME NEW phase \in WaitingPhases
            PROVE  /\ WellFormed(Advanced(NewSession, 1, phase, 0))
                   /\ Advanced(NewSession, 1, phase, 0).sid = NewSession
        BY EventsAreWellFormed
      <3>3. /\ WellFormed(Settled(NewSession, 1, "SETTLED", 0, Payout))
            /\ Settled(NewSession, 1, "SETTLED", 0, Payout).sid = NewSession
        BY SettledIsWellFormed
      <3> QED
        BY <3>1, <3>2, <3>3
    <2>4. WellFormed(Opened(NewSession)) /\ Opened(NewSession).sid = NewSession
          /\ Opened(NewSession).kind = "Opened"
      BY EventsAreWellFormed
    <2>5. \A l \in 1..Len(log') : \/ l \in 1..Len(log) /\ log'[l] = log[l]
                                  \/ l = Len(log) + 1 /\ log'[l] = Opened(NewSession)
                                  \/ l = Len(log) + 2 /\ log'[l] = logs[2]
      BY <2>1
    <2>6. \A l \in 1..Len(log') : log'[l].sid \in 1..(NewSession' - 1) /\ WellFormed(log'[l])
      BY <2>1, <2>2, <2>3, <2>4, <2>5 DEF EventInv
    <2>7. \A i, j \in 1..Len(log') :
             log'[i].kind = "Settled" /\ log'[j].sid = log'[i].sid => j <= i
      <3> SUFFICES ASSUME NEW i \in 1..Len(log'), NEW j \in 1..Len(log'),
                          log'[i].kind = "Settled", log'[j].sid = log'[i].sid
                   PROVE  j <= i
        OBVIOUS
      <3>1. CASE i \in 1..Len(log)
        <4>1. log'[i] = log[i] /\ log[i].sid \in 1..(NewSession - 1)
          BY <2>1, <3>1 DEF EventInv
        <4>2. j \in 1..Len(log) /\ log'[j] = log[j]
          BY <2>2, <2>3, <2>4, <2>5, <4>1
        <4> QED
          BY <3>1, <4>1, <4>2 DEF EventInv
      <3>2. CASE i = Len(log) + 1
        BY <2>1, <2>4, <3>2
      <3>3. CASE i = Len(log) + 2
        BY <2>1, <3>3
      <3> QED
        BY <2>1, <3>1, <3>2, <3>3
    <2>8. ASSUME NEW sid, EventsOf(sid)' # {}
          PROVE  \E m \in EventsOf(sid)' : \A l \in EventsOf(sid)' : l <= m
      <3>1. CASE sid = NewSession
        <4>1. Len(log) + 2 \in EventsOf(sid)'
          BY <2>1, <2>3, <3>1 DEF EventsOf
        <4>2. \A l \in EventsOf(sid)' : l <= Len(log) + 2
          BY <2>1 DEF EventsOf
        <4> QED
          BY <4>1, <4>2
      <3>2. CASE sid # NewSession
        <4>1. EventsOf(sid)' = EventsOf(sid)
          BY <2>1, <2>3, <2>4, <2>5, <3>2 DEF EventsOf
        <4> QED
          BY <2>8, <4>1 DEF EventInv
      <3> QED
        BY <3>1, <3>2
    <2>9. \A r \in Requests : tx'[r] \in {NoSession} \cup SessionIds
      <3>1. NewSession \in SessionIds
        BY <1>2, <2>2, SnapshotAssumption DEF SessionIds
      <3> QED
        BY <1>2, <3>1 DEF EventInv, OpenInv, TxInv
    <2> QED
      BY <2>6, <2>7, <2>8, <2>9 DEF EventInv
  <1>3. ASSUME NEW sid \in SessionIds, MineStep(sid) PROVE EventInv'
    <2>1. PICK e \in StepLogs(sid) : log' = Append(log, e)
      BY <1>3 DEF MineStep
    <2>2. UNCHANGED tx /\ EventsOf(sid) # {} /\ LastEvent(sid).kind = "Advanced"
      BY <1>3 DEF MineStep, IsOpenOnChain
    <2>3. /\ Len(log) \in Nat /\ Len(log') = Len(log) + 1
          /\ \A l \in 1..Len(log) : log'[l] = log[l]
          /\ log'[Len(log) + 1] = e
          /\ NewSession' = NewSession
      BY <2>1, LogSteps DEF OpenInv
    <2>4. WellFormed(e) /\ e.sid = sid
      BY <2>1, <2>2, StepsAreWellFormed DEF OpenInv
    <2>5. \A l \in EventsOf(sid) : log[l].kind # "Settled"
      BY <2>2, LastEventIsLast DEF OpenInv
    <2>6. sid \in 1..(NewSession - 1)
      BY <2>2 DEF EventInv, EventsOf
    <2>7. \A l \in 1..Len(log') : \/ l \in 1..Len(log) /\ log'[l] = log[l]
                                  \/ l = Len(log) + 1 /\ log'[l] = e
      BY <2>3
    <2>8. \A l \in 1..Len(log') : log'[l].sid \in 1..(NewSession' - 1) /\ WellFormed(log'[l])
      BY <2>3, <2>4, <2>6, <2>7 DEF EventInv
    <2>9. \A i, j \in 1..Len(log') :
             log'[i].kind = "Settled" /\ log'[j].sid = log'[i].sid => j <= i
      BY <2>3, <2>4, <2>5, <2>7 DEF EventInv, EventsOf
    <2>10. ASSUME NEW s, EventsOf(s)' # {}
          PROVE  \E m \in EventsOf(s)' : \A l \in EventsOf(s)' : l <= m
      <3>1. CASE s = sid
        <4>1. Len(log) + 1 \in EventsOf(s)'
          BY <2>3, <2>4, <3>1 DEF EventsOf
        <4>2. \A l \in EventsOf(s)' : l <= Len(log) + 1
          BY <2>3 DEF EventsOf
        <4> QED
          BY <4>1, <4>2
      <3>2. CASE s # sid
        <4>1. EventsOf(s)' = EventsOf(s)
          BY <2>3, <2>4, <2>7, <3>2 DEF EventsOf
        <4> QED
          BY <2>10, <4>1 DEF EventInv
      <3> QED
        BY <3>1, <3>2
    <2> QED
      BY <2>2, <2>8, <2>9, <2>10 DEF EventInv
  <1>4. CASE \E r \in Requests : MineOpen(r)
    BY <1>2, <1>4 DEF MineOpen
  <1>5. CASE MineForeignOpen
    BY <1>2, <1>5 DEF MineForeignOpen
  <1>6. CASE UNCHANGED <<log, tx>>
    BY <1>1, <1>6
  <1> QED
    BY <1>3, <1>4, <1>5, <1>6 DEF Next, Step, vars, chainVars, Index, Flash, OpenSession,
       Accept, Receipt, Fail, ToggleWallet, Render

\* EventInv holds at first.
LEMMA EventInitInv == Init => EventInv
  <1> SUFFICES ASSUME Init PROVE EventInv
    OBVIOUS
  <1>1. \A r \in Requests : tx[r] \in {NoSession} \cup SessionIds
    BY DEF Init
  <1>2. CASE log = <<>>
    BY <1>1, <1>2 DEF EventInv, EventsOf
  <1>3. ASSUME NEW phase \in WaitingPhases,
               log = <<Opened(1), Advanced(1, 1, phase, 0)>>
        PROVE  EventInv
    <2>1. /\ Len(log) = 2
          /\ log[1] = Opened(1) /\ log[2] = Advanced(1, 1, phase, 0)
      BY <1>3
    <2>2. /\ WellFormed(log[1]) /\ log[1].sid = 1 /\ log[1].kind = "Opened"
          /\ WellFormed(log[2]) /\ log[2].sid = 1
      BY <1>3, <2>1, EventsAreWellFormed
    <2>3. NewSession = 2
      <3>1. Openings = {1}
        BY <2>1, <2>2 DEF Openings, Advanced
      <3>2. NewSession = Cardinality(Openings) + 1
        BY DEF NewSession, Openings
      <3>3. Cardinality({1}) = 1
        BY FS_Singleton
      <3> QED
        BY <3>1, <3>2, <3>3
    <2>4. log[2].kind # "Settled"
      BY <2>1 DEF Advanced
    <2>5. \A sid : EventsOf(sid) # {} => EventsOf(sid) = {1, 2}
      BY <2>1, <2>2 DEF EventsOf
    <2> QED
      BY <1>1, <2>1, <2>2, <2>3, <2>4, <2>5 DEF EventInv
  <1> QED
    BY <1>2, <1>3 DEF Init, Histories

\* x tells the settlement of session sid.
Final(sid, x) ==
    \E l \in 1..Len(log) :
        /\ log[l].kind = "Settled" /\ log[l].sid = sid
        /\ x.phase = log[l].phase /\ x.state = log[l].state /\ x.payout = log[l].payout

RowFields == {"listed", "settled", "phase", "step", "state", "payout", "request",
              "fulfilled", "requests", "encoded"}

PatchFields == {"step", "phase", "state", "encoded", "request", "fulfilledNonce",
                "fulfilledId", "word", "settled", "payout"}

\* A row or a patch tells the settlement, or is of a round in flight.
LayerTells(sid, x) ==
    /\ x.settled \in BOOLEAN
    /\ x.settled = TRUE => Final(sid, x)
    /\ x.settled = FALSE => ~IsTerminalPhase(x.phase)

LayerInv ==
    /\ DOMAIN rows = SessionIds /\ DOMAIN patches = SessionIds
    /\ \A sid \in SessionIds :
         /\ DOMAIN rows[sid] = RowFields /\ LayerTells(sid, rows[sid])
         /\ DOMAIN patches[sid] = PatchFields /\ LayerTells(sid, patches[sid])

\* The settlement of a session is told once.
LEMMA OneSettlement ==
    ASSUME LogInv, EventInv, NEW sid, NEW x, NEW y, Final(sid, x), Final(sid, y)
    PROVE  /\ x.phase = y.phase /\ x.state = y.state /\ x.payout = y.payout
           /\ IsTerminalPhase(x.phase) /\ x.payout # NoPayout
           /\ x.phase = "SETTLED" => x.state # 0
  <1>1. Len(log) \in Nat
    BY OpeningsAreFinite
  <1>2. PICK i \in 1..Len(log) :
          /\ log[i].kind = "Settled" /\ log[i].sid = sid
          /\ x.phase = log[i].phase /\ x.state = log[i].state /\ x.payout = log[i].payout
    BY DEF Final
  <1>3. PICK j \in 1..Len(log) :
          /\ log[j].kind = "Settled" /\ log[j].sid = sid
          /\ y.phase = log[j].phase /\ y.state = log[j].state /\ y.payout = log[j].payout
    BY DEF Final
  <1>4. i = j
    BY <1>1, <1>2, <1>3 DEF EventInv
  <1>5. WellFormed(log[i])
    BY DEF EventInv
  <1> QED
    BY <1>2, <1>3, <1>4, <1>5 DEF WellFormed

\* What an indexed event makes of a row.
RowMoves(row, e, out) ==
    /\ DOMAIN out = RowFields
    /\ e.kind = "Settled" => /\ out.settled = TRUE /\ out.phase = e.phase
                             /\ out.state = e.state /\ out.payout = e.payout
    /\ e.kind # "Settled" =>
         /\ out.settled = row.settled
         /\ row.settled = TRUE => /\ out.phase = row.phase /\ out.state = row.state
                                  /\ out.payout = row.payout
         /\ out.phase \in {row.phase} \cup WaitingPhases

\* A row after an event tells of the event, or what it told before.
LEMMA EvolveTells ==
    ASSUME NEW row, DOMAIN row = RowFields, row.settled \in BOOLEAN,
           NEW e, WellFormed(e), NEW out, out = Evolve(row, e)
    PROVE  RowMoves(row, e, out)
  <1>1. CASE e.kind = "Opened"
    <2>1. out = [row EXCEPT !.listed = TRUE]
      BY <1>1 DEF Evolve
    <2> QED
      BY <1>1, <2>1 DEF RowMoves, RowFields
  <1>2. CASE e.kind = "Advanced"
    <2>1. CASE row.settled \/ e.step <= row.step
      <3>1. out = row
        BY <1>2, <2>1 DEF Evolve
      <3> QED
        BY <1>2, <3>1 DEF RowMoves
    <2>2. CASE ~(row.settled \/ e.step <= row.step)
      <3> DEFINE answered == IF e.word = 0 THEN row.requests
                             ELSE FulfilledAt(row, e.step - 1, e.word)
                 a == IF e.request THEN e.step ELSE row.request
                 b == IF e.request THEN FALSE ELSE e.word # 0 \/ row.fulfilled
                 c == IF e.request THEN Upserted(answered, e.step, e.step, 0)
                      ELSE answered
      <3>1. out = [row EXCEPT !.step = e.step, !.phase = e.phase, !.state = e.state,
                              !.encoded = e.step, !.request = a, !.fulfilled = b,
                              !.requests = c]
        BY <1>2, <2>2, Zenon DEF Evolve
      <3> HIDE DEF a, b, c
      <3> QED
        BY <1>2, <2>2, <3>1 DEF RowMoves, RowFields, WellFormed
    <2> QED
      BY <2>1, <2>2
  <1>3. CASE e.kind = "Settled"
    <2>1. PICK a, b :
            out = [row EXCEPT !.listed = TRUE, !.settled = TRUE, !.phase = e.phase,
                              !.state = e.state, !.payout = e.payout, !.encoded = 0,
                              !.fulfilled = a, !.requests = b]
      BY <1>3 DEF Evolve
    <2> QED
      BY <1>3, <2>1 DEF RowMoves, RowFields
  <1> QED
    BY <1>1, <1>2, <1>3 DEF WellFormed

\* What a pushed event makes of a patch.
PatchMoves(patch, e, out) ==
    /\ DOMAIN out = PatchFields
    /\ \/ out = patch
       \/ /\ e.kind = "Settled" /\ out.settled = TRUE /\ out.phase = e.phase
          /\ out.state = e.state /\ out.payout = e.payout
       \/ out.settled = FALSE /\ patch.settled = FALSE /\ out.phase \in WaitingPhases

\* A patch after an event tells of the event, or what it told before.
LEMMA PatchTells ==
    ASSUME NEW patch, DOMAIN patch = PatchFields, patch.settled \in BOOLEAN,
           NEW e, WellFormed(e), NEW out, out = Patched(patch, e)
    PROVE  PatchMoves(patch, e, out)
  <1>0. ASSUME NEW p, DOMAIN p = PatchFields, NEW nonce, NEW word, NEW q,
               q = WithFulfillment(p, nonce, word)
        PROVE  /\ DOMAIN q = PatchFields /\ q.settled = p.settled /\ q.phase = p.phase
               /\ q.state = p.state /\ q.payout = p.payout
    BY <1>0 DEF WithFulfillment, PatchFields
  <1>1. CASE e.kind = "Opened" \/ patch.settled
    <2>1. out = patch
      BY <1>1 DEF Patched
    <2> QED
      BY <2>1 DEF PatchMoves
  <1>2. CASE e.kind = "Advanced" /\ ~patch.settled
    <2>1. CASE e.step <= patch.step
      <3>1. out = patch
        BY <1>2, <2>1 DEF Patched
      <3> QED
        BY <3>1 DEF PatchMoves
    <2>2. CASE ~(e.step <= patch.step)
      <3> DEFINE moved == [patch EXCEPT !.step = e.step, !.phase = e.phase,
                                        !.state = e.state, !.encoded = e.step]
                 answered == IF e.word = 0 THEN moved
                             ELSE WithFulfillment(moved, e.step - 1, e.word)
      <3>1. /\ DOMAIN moved = PatchFields /\ moved.settled = patch.settled
            /\ moved.phase = e.phase
        BY DEF PatchFields
      <3> HIDE DEF moved
      <3>2. /\ DOMAIN answered = PatchFields /\ answered.settled = patch.settled
            /\ answered.phase = e.phase
        BY <1>0, <3>1
      <3>3. out = IF e.request THEN [answered EXCEPT !.request = e.step] ELSE answered
        BY <1>2, <2>2 DEF Patched, moved
      <3> HIDE DEF answered
      <3>4. /\ DOMAIN out = PatchFields /\ out.settled = patch.settled
            /\ out.phase = e.phase
        BY <3>2, <3>3 DEF PatchFields
      <3> QED
        BY <1>2, <3>4 DEF PatchMoves, WellFormed
    <2> QED
      BY <2>1, <2>2
  <1>3. CASE e.kind = "Settled" /\ ~patch.settled
    <2> DEFINE moved == [patch EXCEPT !.settled = TRUE, !.phase = e.phase,
                                      !.payout = e.payout, !.state = e.state]
               n == IF patch.request # 0 THEN patch.request ELSE patch.step
    <2>1. /\ DOMAIN moved = PatchFields /\ moved.settled = TRUE /\ moved.phase = e.phase
          /\ moved.payout = e.payout /\ moved.state = e.state
      BY DEF PatchFields
    <2>2. out = IF e.word = 0 THEN moved ELSE WithFulfillment(moved, n, e.word)
      BY <1>3 DEF Patched
    <2> HIDE DEF moved, n
    <2> QED
      BY <1>0, <1>3, <2>1, <2>2 DEF PatchMoves
  <1> QED
    BY <1>1, <1>2, <1>3 DEF WellFormed

\* What a row and its patch are merged to.
RowAndPatch(row, patch, out) ==
    IF IsTerminal(row)
    THEN /\ out.settled = row.settled /\ out.phase = row.phase
         /\ out.state = row.state /\ out.payout = row.payout
    ELSE IF patch.settled = TRUE
    THEN /\ out.settled = TRUE /\ out.phase = patch.phase
         /\ out.state = patch.state /\ out.payout = patch.payout
    ELSE out.settled = FALSE /\ out.phase \in {row.phase, patch.phase}

\* A row with a patch tells what one of the two does.
LEMMA MergedTells ==
    ASSUME NEW row, DOMAIN row = RowFields, row.settled \in BOOLEAN,
           NEW patch, patch.settled \in BOOLEAN,
           NEW out, out = MergedRow(row, patch)
    PROVE  RowAndPatch(row, patch, out)
  <1> DEFINE a == IF patch.request = patch.step THEN patch.step ELSE row.request
             b == row.fulfilled /\ patch.request # patch.step
             advanced == IF IsTerminal(row) \/ patch.step <= row.step THEN row
                         ELSE [row EXCEPT
                                 !.step = patch.step, !.phase = patch.phase,
                                 !.state = patch.state, !.encoded = patch.encoded,
                                 !.request = a, !.fulfilled = b]
             settled == IF IsTerminal(row) \/ ~patch.settled THEN advanced
                        ELSE [advanced EXCEPT
                                !.settled = TRUE, !.phase = patch.phase,
                                !.payout = patch.payout, !.state = patch.state]
             nonce == patch.fulfilledNonce
             current == row.requests = <<>> \/ nonce >= Max(DOMAIN row.requests)
             c == Upserted(settled.requests, nonce, patch.fulfilledId, patch.word)
             d == IF current /\ ~row.fulfilled /\ settled.request = 0
                  THEN patch.fulfilledId ELSE settled.request
             e == settled.fulfilled \/ (current /\ ~row.fulfilled)
  <1>1. /\ DOMAIN advanced = RowFields /\ advanced.settled = row.settled
        /\ IsTerminal(row) => advanced = row
        /\ advanced.phase \in {row.phase, patch.phase}
    <2> HIDE DEF a, b
    <2> QED
      BY DEF RowFields
  <1>2. \/ out = settled
        \/ out = [settled EXCEPT !.requests = c, !.request = d, !.fulfilled = e]
    BY Zenon DEF MergedRow
  <1> HIDE DEF advanced, c, d, e
  <1>3. /\ DOMAIN settled = RowFields
        /\ IsTerminal(row) => settled = row
        /\ ~IsTerminal(row) /\ patch.settled = TRUE =>
             /\ settled.settled = TRUE /\ settled.phase = patch.phase
             /\ settled.state = patch.state /\ settled.payout = patch.payout
        /\ ~IsTerminal(row) /\ patch.settled = FALSE =>
             settled.settled = row.settled /\ settled.phase \in {row.phase, patch.phase}
    BY <1>1 DEF RowFields
  <1> HIDE DEF settled
  <1>4. /\ out.settled = settled.settled /\ out.phase = settled.phase
        /\ out.state = settled.state /\ out.payout = settled.payout
    BY <1>2, <1>3 DEF RowFields
  <1>5. ~IsTerminal(row) => row.settled = FALSE
    BY DEF IsTerminal
  <1> QED
    BY <1>3, <1>4, <1>5 DEF RowAndPatch

\* The chain keeps what it said.
LEMMA FinalStays ==
    ASSUME OpenInv, [Next]_vars
    PROVE  \A sid, x : Final(sid, x) => Final(sid, x)'
  <1>1. Len(log) \in Nat /\ Len(log') \in Nat /\ Len(log') >= Len(log)
        /\ \A l \in 1..Len(log) : log'[l] = log[l]
    <2>1. Len(log) \in Nat
      BY OpeningsAreFinite DEF OpenInv
    <2>2. CASE UNCHANGED log
      BY <2>1, <2>2
    <2>3. CASE \E logs \in OpeningLogs(NewSession) : log' = log \o logs
      BY <2>3, LogOpens DEF OpenInv
    <2>4. CASE \E sid \in SessionIds : \E e \in StepLogs(sid) : log' = Append(log, e)
      BY <2>4, LogSteps DEF OpenInv
    <2> QED
      BY <2>2, <2>3, <2>4 DEF Next, Step, vars, chainVars, MineOpen, MineForeignOpen,
         MineStep, Index, Flash, OpenSession, Accept, Receipt, Fail, ToggleWallet, Render
  <1> QED
    BY <1>1 DEF Final

\* LayerInv is inductive.
LEMMA LayerNextInv ==
    ASSUME OpenInv, EventInv, LayerInv, [Next]_vars
    PROVE  LayerInv'
  <1>1. \A sid, x : Final(sid, x) => Final(sid, x)'
    BY FinalStays
  <1>2. \A sid, x : LayerTells(sid, x) => LayerTells(sid, x)'
    BY <1>1 DEF LayerTells
  <1>3. CASE UNCHANGED <<rows, patches>>
    BY <1>2, <1>3 DEF LayerInv
  <1>4. ASSUME NEW l \in 1..Len(log), Index(l) PROVE LayerInv'
    <2> DEFINE sid == log[l].sid
    <2>1. /\ rows' = [rows EXCEPT ![sid] = Evolve(@, log[l])]
          /\ UNCHANGED patches
      BY <1>4 DEF Index
    <2>2. WellFormed(log[l])
      BY DEF EventInv
    <2>3. ASSUME sid \in SessionIds
          PROVE  DOMAIN rows'[sid] = RowFields /\ LayerTells(sid, rows'[sid])
      <3> DEFINE row == rows[sid]
                 out == rows'[sid]
      <3>1. DOMAIN row = RowFields /\ LayerTells(sid, row) /\ row.settled \in BOOLEAN
        BY <2>3 DEF LayerInv, LayerTells
      <3>2. out = Evolve(row, log[l])
        BY <2>1, <2>3 DEF LayerInv
      <3> HIDE DEF out, row
      <3>3. /\ DOMAIN out = RowFields
            /\ log[l].kind = "Settled" =>
                 /\ out.settled = TRUE /\ out.phase = log[l].phase
                 /\ out.state = log[l].state /\ out.payout = log[l].payout
            /\ log[l].kind # "Settled" =>
                 /\ out.settled = row.settled
                 /\ row.settled = TRUE => /\ out.phase = row.phase /\ out.state = row.state
                                          /\ out.payout = row.payout
                 /\ out.phase \in {row.phase} \cup WaitingPhases
        <4>1. PICK r, o, e : r = row /\ o = out /\ e = log[l]
          OBVIOUS
        <4>2. WellFormed(e) /\ o = Evolve(r, e) /\ DOMAIN r = RowFields /\ r.settled \in BOOLEAN
          BY <2>2, <3>1, <3>2, <4>1
        <4>3. RowMoves(r, e, o)
          BY <4>2, EvolveTells
        <4> QED
          BY <4>1, <4>3 DEF RowMoves
      <3>4. CASE log[l].kind = "Settled"
        <4>1. Final(sid, out)
          BY <3>3, <3>4 DEF Final
        <4> QED
          BY <3>3, <3>4, <4>1 DEF LayerTells, out
      <3>5. CASE log[l].kind # "Settled"
        <4>1. row.settled = TRUE => Final(sid, out)
          BY <3>1, <3>3, <3>5 DEF LayerTells, Final
        <4>2. row.settled = FALSE => ~IsTerminalPhase(out.phase)
          BY <3>1, <3>3, <3>5 DEF LayerTells, IsTerminalPhase, WaitingPhases
        <4> QED
          BY <3>1, <3>3, <3>5, <4>1, <4>2 DEF LayerTells, out
      <3> QED
        BY <3>4, <3>5
    <2>4. \A s \in SessionIds : s # sid => rows'[s] = rows[s]
      BY <2>1 DEF LayerInv
    <2>5. DOMAIN rows' = SessionIds
      BY <2>1 DEF LayerInv
    <2>6. UNCHANGED log
      BY <1>4 DEF Index, chainVars
    <2>7. \A s, x : LayerTells(s, x)' <=> LayerTells(s, x)
      BY <2>6 DEF LayerTells, Final
    <2> HIDE DEF sid
    <2>8. \A s \in SessionIds : DOMAIN rows'[s] = RowFields /\ LayerTells(s, rows'[s])
      BY <2>3, <2>4 DEF LayerInv
    <2> QED
      BY <2>1, <2>5, <2>6, <2>8 DEF LayerInv, LayerTells, Final
  <1>5. ASSUME NEW l \in 1..Len(log), Flash(l) PROVE LayerInv'
    <2> DEFINE sid == log[l].sid
    <2>1. /\ patches' = [patches EXCEPT ![sid] = Patched(@, log[l])]
          /\ UNCHANGED <<log, rows>>
      BY <1>5 DEF Flash, chainVars
    <2>2. WellFormed(log[l])
      BY DEF EventInv
    <2>3. ASSUME sid \in SessionIds
          PROVE  DOMAIN patches'[sid] = PatchFields /\ LayerTells(sid, patches'[sid])
      <3> DEFINE patch == patches[sid]
                 out == patches'[sid]
      <3>1. DOMAIN patch = PatchFields /\ LayerTells(sid, patch) /\ patch.settled \in BOOLEAN
        BY <2>3 DEF LayerInv, LayerTells
      <3>2. out = Patched(patch, log[l])
        BY <2>1, <2>3 DEF LayerInv
      <3> HIDE DEF out, patch
      <3>3. /\ DOMAIN out = PatchFields
            /\ \/ out = patch
               \/ /\ log[l].kind = "Settled" /\ out.settled = TRUE
                  /\ out.phase = log[l].phase
                  /\ out.state = log[l].state /\ out.payout = log[l].payout
               \/ /\ out.settled = FALSE /\ patch.settled = FALSE
                  /\ out.phase \in WaitingPhases
        <4>1. PICK r, o, e : r = patch /\ o = out /\ e = log[l]
          OBVIOUS
        <4>2. WellFormed(e) /\ o = Patched(r, e) /\ DOMAIN r = PatchFields /\ r.settled \in BOOLEAN
          BY <2>2, <3>1, <3>2, <4>1
        <4>3. PatchMoves(r, e, o)
          BY <4>2, PatchTells
        <4> QED
          BY <4>1, <4>3 DEF PatchMoves
      <3>4. CASE out = patch
        BY <3>1, <3>3, <3>4 DEF out
      <3>5. CASE out.settled = TRUE /\ Final(sid, out)
        BY <3>3, <3>5 DEF LayerTells, out
      <3>6. CASE out.settled = FALSE /\ out.phase \in WaitingPhases
        BY <3>3, <3>6 DEF LayerTells, out, IsTerminalPhase, WaitingPhases
      <3> QED
        BY <3>3, <3>4, <3>5, <3>6 DEF Final
    <2>4. \A s \in SessionIds : s # sid => patches'[s] = patches[s]
      BY <2>1 DEF LayerInv
    <2>5. DOMAIN patches' = SessionIds
      BY <2>1 DEF LayerInv
    <2> HIDE DEF sid
    <2>6. \A s \in SessionIds : DOMAIN patches'[s] = PatchFields /\ LayerTells(s, patches'[s])
      BY <2>3, <2>4 DEF LayerInv
    <2> QED
      BY <2>1, <2>5, <2>6 DEF LayerInv, LayerTells, Final
  <1>6. CASE Render
    <2>1. \A sid \in SessionIds : patches'[sid] \in {NoPatch, patches[sid]}
      BY <1>6 DEF Render
    <2>2. DOMAIN patches' = SessionIds /\ UNCHANGED <<log, rows>>
      BY <1>6 DEF Render, chainVars
    <2>3. \A sid : DOMAIN NoPatch = PatchFields /\ LayerTells(sid, NoPatch)
      BY DEF NoPatch, PatchFields, LayerTells, IsTerminalPhase
    <2>4. \A s \in SessionIds : DOMAIN patches'[s] = PatchFields /\ LayerTells(s, patches'[s])
      BY <2>1, <2>3 DEF LayerInv
    <2> QED
      BY <2>2, <2>4 DEF LayerInv, LayerTells, Final
  <1> QED
    BY <1>3, <1>4, <1>5, <1>6 DEF Next, Step, vars, MineOpen, MineForeignOpen, MineStep,
       OpenSession, Accept, Receipt, Fail, ToggleWallet

\* LayerInv holds at first.
LEMMA LayerInitInv == Init => LayerInv
  <1>1. /\ DOMAIN InitialRow = RowFields /\ InitialRow.settled = FALSE
        /\ ~IsTerminalPhase(InitialRow.phase)
    BY DEF InitialRow, RowFields, IsTerminalPhase
  <1>2. /\ DOMAIN NoPatch = PatchFields /\ NoPatch.settled = FALSE
        /\ ~IsTerminalPhase(NoPatch.phase)
    BY DEF NoPatch, PatchFields, IsTerminalPhase
  <1> QED
    BY <1>1, <1>2 DEF Init, LayerInv, LayerTells

\* An item that tells a settlement tells the one on the chain.
Truthful(item) ==
    /\ item.settled \in BOOLEAN
    /\ item.settled = TRUE /\ item.sid \in SessionIds => Final(item.sid, item)

\* The item of a row: a result if the row or its patch has one.
LEMMA ProjectedTells ==
    ASSUME LayerInv, NEW sid \in SessionIds, NEW item,
           item = ProjectedItem(sid, MergedRow(rows[sid], patches[sid]), patches[sid])
    PROVE  /\ item.sid = sid
           /\ Truthful(item)
           /\ IsTerminal(rows[sid]) => /\ item.settled = TRUE /\ Final(sid, item)
                                       /\ item.payout = rows[sid].payout
  <1>1. PICK row, patch, out :
          row = rows[sid] /\ patch = patches[sid] /\ out = MergedRow(row, patch)
    OBVIOUS
  <1>2. /\ DOMAIN row = RowFields /\ LayerTells(sid, row) /\ row.settled \in BOOLEAN
        /\ LayerTells(sid, patch) /\ patch.settled \in BOOLEAN
    BY <1>1 DEF LayerInv, LayerTells
  <1>3. RowAndPatch(row, patch, out)
    BY <1>1, <1>2, MergedTells
  <1>4. /\ item.sid = sid /\ item.phase = out.phase /\ item.state = out.state
        /\ item.payout = out.payout /\ item.settled = IsTerminal(out)
    BY <1>1 DEF ProjectedItem
  <1>5. CASE IsTerminal(row)
    <2>1. row.settled = TRUE
      BY <1>2, <1>5 DEF IsTerminal, LayerTells
    <2>2. Final(sid, row)
      BY <1>2, <2>1 DEF LayerTells
    <2>3. /\ out.settled = TRUE /\ out.phase = row.phase /\ out.state = row.state
          /\ out.payout = row.payout
      BY <1>3, <1>5, <2>1 DEF RowAndPatch
    <2>4. item.settled = TRUE
      BY <1>4, <2>3 DEF IsTerminal
    <2>5. Final(sid, item)
      BY <1>4, <2>2, <2>3 DEF Final
    <2> QED
      BY <1>1, <1>4, <2>3, <2>4, <2>5 DEF Truthful
  <1>6. CASE ~IsTerminal(row) /\ patch.settled = TRUE
    <2>1. /\ out.settled = TRUE /\ out.phase = patch.phase /\ out.state = patch.state
          /\ out.payout = patch.payout
      BY <1>3, <1>6 DEF RowAndPatch
    <2>2. Final(sid, patch)
      BY <1>2, <1>6 DEF LayerTells
    <2>3. item.settled = TRUE
      BY <1>4, <2>1 DEF IsTerminal
    <2>4. Final(sid, item)
      BY <1>4, <2>1, <2>2 DEF Final
    <2> QED
      BY <1>1, <1>4, <1>6, <2>3, <2>4 DEF Truthful
  <1>7. CASE ~IsTerminal(row) /\ patch.settled = FALSE
    <2>1. out.settled = FALSE /\ out.phase \in {row.phase, patch.phase}
      BY <1>3, <1>7 DEF RowAndPatch
    <2>2. ~IsTerminalPhase(row.phase) /\ ~IsTerminalPhase(patch.phase)
      BY <1>2, <1>7 DEF LayerTells, IsTerminal
    <2>3. item.settled = FALSE
      BY <1>4, <2>1, <2>2 DEF IsTerminal
    <2> QED
      BY <1>1, <1>4, <1>7, <2>3 DEF Truthful
  <1> QED
    BY <1>2, <1>5, <1>6, <1>7

\* An optimistic item tells a result only with the patch of its session.
LEMMA OptimisticTells ==
    ASSUME OpenInv, EventInv, LayerInv, NEW item \in OptimisticItems
    PROVE  Truthful(item)
  <1> DEFINE Base(o) == [PendingItem(o.request) EXCEPT !.sid = o.sid]
  <1>1. PICK o \in optimistic :
          item = IF o.sid \in {-o.request} \cup SessionRowIds THEN Base(o)
                 ELSE MergedItem(Base(o), patches[o.sid])
    BY DEF OptimisticItems
  <1>2. PICK base : base = Base(o)
    OBVIOUS
  <1>3. /\ DOMAIN base = {"sid", "phase", "settled", "state", "payout", "word", "requests"}
        /\ base.settled = FALSE /\ base.sid = o.sid
    BY <1>2 DEF PendingItem
  <1> HIDE DEF Base
  <1>4. CASE item = base
    BY <1>3, <1>4 DEF Truthful
  <1>5. CASE o.sid # -o.request /\ item = MergedItem(base, patches[o.sid])
    <2>1. o.sid \in SessionIds
      <3>1. o.request \in Requests /\ Named(o)
        BY <1>5 DEF OpenInv, ItemInv, Item
      <3> QED
        BY <3>1 DEF Named, EventInv
    <2>2. PICK patch : patch = patches[o.sid]
      OBVIOUS
    <2>3. LayerTells(o.sid, patch)
      BY <2>1, <2>2 DEF LayerInv
    <2> DEFINE word == IF base.word = 0 THEN patch.word ELSE base.word
               p == IF patch.step = 0 THEN base.phase ELSE patch.phase
               q == IF patch.step = 0 THEN base.state ELSE patch.state
    <2>4. item = IF patch.settled
                 THEN [base EXCEPT !.phase = patch.phase, !.payout = patch.payout,
                                   !.settled = TRUE, !.state = patch.state, !.word = word]
                 ELSE [base EXCEPT !.phase = p, !.state = q, !.word = word]
      BY <1>3, <1>5, <2>2 DEF MergedItem
    <2> HIDE DEF word, p, q
    <2>5. CASE patch.settled = TRUE
      <3>1. /\ item.settled = TRUE /\ item.sid = o.sid /\ item.phase = patch.phase
            /\ item.state = patch.state /\ item.payout = patch.payout
        BY <1>3, <2>4, <2>5
      <3>2. Final(o.sid, patch)
        BY <2>3, <2>5 DEF LayerTells
      <3> QED
        BY <3>1, <3>2 DEF Truthful, Final
    <2>6. CASE patch.settled = FALSE
      <3>1. item.settled = FALSE
        BY <1>3, <2>4, <2>6
      <3> QED
        BY <3>1 DEF Truthful
    <2> QED
      BY <2>3, <2>5, <2>6 DEF LayerTells
  <1> QED
    BY <1>1, <1>2, <1>4, <1>5

Released == {sid \in SessionRowIds : IsTerminal(rows[sid]) /\ rows[sid].payout # NoPayout}
Layers == MergedItems(Projected, OptimisticItems)

\* The layers of a snapshot tell the truth, and a session that is released is
\* complete in one of them.
LEMMA LayersTell ==
    ASSUME OpenInv, EventInv, LayerInv
    PROVE  /\ \A item \in Layers : Truthful(item)
           /\ \A sid \in Released : \E item \in Layers : item.sid = sid /\ IsComplete(item)
  <1>1. Layers \subseteq Projected \cup OptimisticItems
    BY DEF Layers, MergedItems
  <1>2. SessionRowIds \subseteq SessionIds
    BY DEF SessionRowIds
  <1>3. ASSUME NEW item \in Projected PROVE Truthful(item)
    <2>1. PICK sid \in SessionIds :
            item = ProjectedItem(sid, MergedRow(rows[sid], patches[sid]), patches[sid])
      BY <1>2 DEF Projected
    <2> QED
      BY <2>1, ProjectedTells
  <1>4. \A item \in Layers : Truthful(item)
    BY <1>1, <1>3, OptimisticTells
  <1>5. ASSUME NEW sid \in Released
        PROVE  \E item \in Layers : item.sid = sid /\ IsComplete(item)
    <2>1. sid \in SessionRowIds /\ sid \in SessionIds /\ IsTerminal(rows[sid])
          /\ rows[sid].payout # NoPayout
      BY <1>2 DEF Released
    <2>2. PICK item :
            item = ProjectedItem(sid, MergedRow(rows[sid], patches[sid]), patches[sid])
      OBVIOUS
    <2>3. item \in Projected
      BY <2>1, <2>2 DEF Projected
    <2>4. /\ item.sid = sid /\ item.settled = TRUE /\ Final(sid, item)
          /\ item.payout = rows[sid].payout
      BY <2>1, <2>2, ProjectedTells
    <2>5. IsTerminalPhase(item.phase) /\ (item.phase = "SETTLED" => item.state # 0)
      BY <2>4, OneSettlement DEF OpenInv
    <2>6. IsComplete(item)
      BY <2>1, <2>4, <2>5 DEF IsComplete
    <2>7. item.phase # "NONE"
      BY <2>5 DEF IsTerminalPhase
    <2>8. item \in Layers
      BY <2>3, <2>7 DEF Layers, MergedItems, Ids
    <2> QED
      BY <2>4, <2>6, <2>8
  <1> QED
    BY <1>4, <1>5

\* What the reconciler shows and remembers: every round it remembered, as a
\* result if it had one, and results only of the layers or of its memory.
ReconcilerPromise(items, known, out) ==
    /\ out.settled \subseteq items \cup known.settled
    /\ \A s \in out.settled : s.settled = TRUE
    /\ \A o \in out.open : o.settled = FALSE
    /\ \A x \in out.items :
         \/ x.settled = TRUE /\ x.sid \in Ids(out.settled)
            /\ x \in items \cup known.settled
         \/ x.settled = FALSE /\ (x.sid > 0 => x.sid \in Ids(out.open))
            /\ x.sid \notin Ids(known.settled)
    /\ Ids(known.settled) \cup Ids(known.open) \subseteq Ids(out.items)

\* The reconciler keeps the results it has shown, and loses none that are new.
LEMMA ReconcilerKeepsResults ==
    ASSUME NEW items, NEW released, NEW known, NEW out,
           out = Reconciled(items, released, known),
           \A i \in items : i.settled \in BOOLEAN,
           \A s \in known.settled : s.settled = TRUE,
           \A o \in known.open : o.settled = FALSE,
           Apart(known.settled, known.open), Unique(items),
           \A id \in released : \E i \in items : i.sid = id /\ IsComplete(i)
    PROVE  ReconcilerPromise(items, known, out)
  <1> DEFINE settled == {s \in known.settled : s.sid \notin released}
             open == {o \in known.open : o.sid \notin released}
             kept == {s \in settled : \E item \in items :
                                         item.sid = s.sid /\ ~IsComplete(item)}
             complete == {item \in items : IsComplete(item)}
             Shape(item) == IF item.settled \/ IsTerminalPhase(item.phase)
                            THEN Demoted(item) ELSE item
             unsettled == {i \in items : ~IsComplete(i) /\ i.sid \notin Ids(kept)}
             waiting == {Shape(item) : item \in unsettled}
             settledNow == complete \cup {s \in settled : s.sid \notin Ids(complete)}
             openNow == {w \in waiting : w.sid > 0}
                          \cup {o \in open : o.sid \notin Ids(complete) \cup Ids(waiting)}
             rest == {p \in settledNow \cup openNow : p.sid \notin Ids(items)}
             shown == kept \cup complete \cup waiting \cup rest
  <1>1. out = [items |-> shown, settled |-> settledNow, open |-> openNow]
    BY DEF Reconciled
  <1>2. out.items = shown /\ out.settled = settledNow /\ out.open = openNow
    BY <1>1
  <1>3. \A item : Shape(item).sid = item.sid
    BY DEF Demoted
  <1>4. \A item \in items : Shape(item).settled = FALSE
    BY DEF Demoted
  <1>5. \A item \in complete : item.settled = TRUE
    BY DEF IsComplete
  <1> HIDE DEF Shape
  <1>6. \A w \in waiting : w.settled = FALSE /\ w.sid \in Ids(items)
    BY <1>3, <1>4 DEF Ids
  <1>7. \A s \in known.settled : s.sid \notin Ids(waiting)
    <2> SUFFICES ASSUME NEW s \in known.settled, NEW i \in unsettled,
                        s.sid = Shape(i).sid
                 PROVE  FALSE
      BY DEF Ids
    <2>1. s.sid = i.sid /\ i \in items /\ ~IsComplete(i)
      BY <1>3
    <2>2. s.sid \notin released
      BY <2>1 DEF Unique
    <2>3. s \in kept
      BY <2>1, <2>2
    <2> QED
      BY <2>1, <2>3 DEF Ids
  <1>8. Ids(settledNow) = Ids(settled) \cup Ids(complete)
    BY DEF Ids
  <1>9. \A s \in settledNow : s.settled = TRUE /\ s \in items \cup known.settled
    BY <1>5
  <1>10. \A o \in openNow : o.settled = FALSE /\ o.sid \notin Ids(known.settled)
    <2>1. \A o \in known.open : o.sid \notin Ids(known.settled)
      BY DEF Apart, Ids
    <2> QED
      BY <1>6, <1>7, <2>1 DEF Ids
  <1>11. ASSUME NEW x \in shown
         PROVE  \/ x.settled = TRUE /\ x.sid \in Ids(settledNow)
                   /\ x \in items \cup known.settled
                \/ x.settled = FALSE /\ (x.sid > 0 => x.sid \in Ids(openNow))
                   /\ x.sid \notin Ids(known.settled)
    <2>1. CASE x \in kept
      BY <1>8, <2>1 DEF Ids
    <2>2. CASE x \in complete
      BY <1>5, <1>8, <2>2 DEF Ids
    <2>3. CASE x \in waiting
      <3>1. x.settled = FALSE /\ x.sid \notin Ids(known.settled)
        BY <1>6, <1>7, <2>3 DEF Ids
      <3>2. x.sid > 0 => x \in openNow
        BY <2>3
      <3> QED
        BY <3>1, <3>2 DEF Ids
    <2>4. CASE x \in settledNow
      BY <1>9, <2>4 DEF Ids
    <2>5. CASE x \in openNow
      BY <1>10, <2>5 DEF Ids
    <2> QED
      BY <2>1, <2>2, <2>3, <2>4, <2>5
  <1>12. ASSUME NEW k \in known.settled \cup known.open
         PROVE  k.sid \in Ids(shown)
    <2>1. CASE k.sid \in Ids(items)
      <3>1. PICK i \in items : i.sid = k.sid
        BY <2>1 DEF Ids
      <3>2. CASE i \in complete
        BY <3>1, <3>2 DEF Ids
      <3>3. CASE i.sid \in Ids(kept)
        BY <3>1, <3>3 DEF Ids
      <3>4. CASE i \in unsettled
        <4>1. Shape(i) \in waiting /\ Shape(i).sid = k.sid
          BY <1>3, <3>1, <3>4
        <4> QED
          BY <4>1 DEF Ids
      <3> QED
        BY <3>2, <3>3, <3>4
    <2>2. CASE k.sid \notin Ids(items)
      <3>1. k.sid \notin released
        BY <2>2 DEF Ids
      <3>2. k.sid \notin Ids(complete) \cup Ids(waiting)
        BY <1>6, <2>2 DEF Ids
      <3>3. k \in settledNow \cup openNow
        BY <3>1, <3>2
      <3> QED
        BY <2>2, <3>3 DEF Ids
    <2> QED
      BY <2>1, <2>2
  <1> HIDE DEF shown, settledNow, openNow
  <1>13. Ids(known.settled) \cup Ids(known.open) \subseteq Ids(shown)
    BY <1>12 DEF Ids
  <1> QED
    BY <1>2, <1>9, <1>10, <1>11, <1>13 DEF ReconcilerPromise

\* Every round that is shown is remembered, and what is shown or remembered as
\* a result is the settlement on the chain.
PublishedInv ==
    /\ \A x \in pushed.items :
         /\ Truthful(x)
         /\ x.settled = TRUE => x.sid \in Ids(published.settled)
         /\ x.sid \in SessionIds =>
              x.sid \in Ids(published.settled) \cup Ids(published.open)
    /\ \A s \in published.settled : s.settled = TRUE /\ Truthful(s)
    /\ \A o \in published.open : o.settled = FALSE

\* What a render shows of what it showed before.
LEMMA RenderKeepsPublished ==
    ASSUME OpenInv, EventInv, LayerInv, RenderInv, PublishedInv, Render
    PROVE  /\ PublishedInv'
           /\ OnChain(pushed.items) \subseteq Ids(pushed'.items)
           /\ \A x \in pushed.items, y \in pushed'.items :
                x.sid = y.sid /\ x.settled = TRUE => y.settled = TRUE /\ Truthful(y)
  <1>1. PICK out : out = Reconciliation
    OBVIOUS
  <1>2. /\ published' = [settled |-> out.settled, open |-> out.open]
        /\ pushed'.items = out.items
        /\ UNCHANGED log
    BY <1>1 DEF Render, chainVars
  <1>3. out = Reconciled(Layers, Released, published)
    BY <1>1 DEF Reconciliation, Layers, Released
  <1>4. Unique(Layers)
    BY OptimisticItemsAreUnique, ProjectedIsUnique, MergeKeepsUnique DEF Layers
  <1>5. /\ \A i \in Layers : Truthful(i) /\ i.settled \in BOOLEAN
        /\ \A id \in Released : \E i \in Layers : i.sid = id /\ IsComplete(i)
    BY LayersTell DEF Truthful
  <1> DEFINE items == Layers
             released == Released
             known == published
  <1>6. /\ \A s \in known.settled : s.settled = TRUE
        /\ \A o \in known.open : o.settled = FALSE
        /\ Apart(known.settled, known.open)
    BY DEF PublishedInv, RenderInv
  <1> HIDE DEF items, released, known
  <1>7. /\ out.settled \subseteq items \cup known.settled
        /\ \A s \in out.settled : s.settled = TRUE
        /\ \A o \in out.open : o.settled = FALSE
        /\ \A x \in out.items :
             \/ x.settled = TRUE /\ x.sid \in Ids(out.settled)
                /\ x \in items \cup known.settled
             \/ x.settled = FALSE /\ (x.sid > 0 => x.sid \in Ids(out.open))
                /\ x.sid \notin Ids(known.settled)
        /\ Ids(known.settled) \cup Ids(known.open) \subseteq Ids(out.items)
    <2>1. PICK i, r, k : i = items /\ r = released /\ k = known
      OBVIOUS
    <2>2. /\ out = Reconciled(i, r, k) /\ Unique(i)
          /\ \A x \in i : x.settled \in BOOLEAN
          /\ \A id \in r : \E x \in i : x.sid = id /\ IsComplete(x)
          /\ \A s \in k.settled : s.settled = TRUE
          /\ \A o \in k.open : o.settled = FALSE
          /\ Apart(k.settled, k.open)
      BY <1>3, <1>4, <1>5, <1>6, <2>1 DEF items, released, known
    <2>3. ReconcilerPromise(i, k, out)
      BY <2>2, ReconcilerKeepsResults
    <2> QED
      BY <2>1, <2>3 DEF ReconcilerPromise
  <1>8. \A x \in items \cup known.settled : Truthful(x)
    BY <1>5 DEF items, known, PublishedInv
  <1>9. \A x : Truthful(x)' <=> Truthful(x)
    BY <1>2 DEF Truthful, Final
  <1>10. \A x \in out.items : Truthful(x)
    BY <1>7, <1>8 DEF Truthful
  <1>11. \A x \in out.items : x.sid \in SessionIds =>
            x.sid \in Ids(out.settled) \cup Ids(out.open)
    <2>1. \A sid \in SessionIds : sid > 0
      BY SnapshotAssumption DEF SessionIds
    <2> QED
      BY <1>7, <2>1
  <1>12. PublishedInv'
    <2>1. published'.settled = out.settled /\ published'.open = out.open
      BY <1>2
    <2> QED
      BY <1>2, <1>7, <1>8, <1>9, <1>10, <1>11, <2>1 DEF PublishedInv
  <1>13. OnChain(pushed.items) \subseteq Ids(pushed'.items)
    <2>1. \A x \in pushed.items : x.sid \in SessionIds =>
             x.sid \in Ids(known.settled) \cup Ids(known.open)
      BY DEF PublishedInv, known
    <2> QED
      BY <1>2, <1>7, <2>1 DEF OnChain, Ids
  <1>14. ASSUME NEW x \in pushed.items, NEW y \in pushed'.items,
                x.sid = y.sid, x.settled = TRUE
         PROVE  y.settled = TRUE /\ Truthful(y)
    <2>1. x.sid \in Ids(known.settled)
      BY <1>14 DEF PublishedInv, known
    <2> QED
      BY <1>2, <1>7, <1>10, <1>14, <2>1
  <1> QED
    BY <1>12, <1>13, <1>14

\* RenderInv and PublishedInv are inductive.
LEMMA PublishedNextInv ==
    ASSUME OpenInv, EventInv, LayerInv, RenderInv, PublishedInv, [Next]_vars
    PROVE  RenderInv' /\ PublishedInv' /\ (Render \/ UNCHANGED renderVars)
  <1>1. CASE Render
    BY <1>1, RenderKeepsRenderInv, RenderKeepsPublished
  <1>2. CASE UNCHANGED renderVars
    <2>1. RenderInv'
      BY <1>2 DEF RenderInv, renderVars, Unique, Apart
    <2>2. \A x : Truthful(x) => Truthful(x)'
      BY FinalStays DEF Truthful
    <2>3. PublishedInv'
      BY <1>2, <2>2 DEF PublishedInv, renderVars
    <2> QED
      BY <1>2, <2>1, <2>3
  <1> QED
    BY <1>1, <1>2 DEF Next, Step, vars, MineOpen, MineForeignOpen, MineStep, Index,
       Flash, OpenSession, Accept, Receipt, Fail, ToggleWallet

\* RenderInv and PublishedInv hold at first.
LEMMA PublishedInitInv == Init => RenderInv /\ PublishedInv
  BY DEF Init, RenderInv, PublishedInv, Unique, Apart

\* What was published stays: no round of the chain vanishes from the frame,
\* and a result is never taken back or changed, whichever layer it comes from
\* next, in whatever order the channels deliver and with or without a wallet.
\* Code: reconcileMonotonicSessionItems, the confirmed optimistic items and
\* the merge of rows and patches.
THEOREM WhatWasPublishedStays == Spec => PublishedStays
  <1> DEFINE Inv == OpenInv /\ EventInv /\ LayerInv /\ RenderInv /\ PublishedInv
             Stays == /\ OnChain(pushed.items) \subseteq Ids(pushed'.items)
                      /\ \A sid \in Kept : Shown(sid).settled =>
                           /\ ShownNext(sid).settled
                           /\ ShownNext(sid).phase = Shown(sid).phase
                           /\ ShownNext(sid).state = Shown(sid).state
                           /\ ShownNext(sid).payout = Shown(sid).payout
  <1>1. Init => Inv
    BY OpenInitInv, EventInitInv, LayerInitInv, PublishedInitInv
  <1>2. ASSUME Inv, [Next]_vars PROVE Inv' /\ (Stays \/ UNCHANGED vars)
    <2>1. /\ OpenInv' /\ EventInv' /\ LayerInv' /\ RenderInv' /\ PublishedInv'
          /\ Render \/ UNCHANGED renderVars
      BY <1>2, NextOpenInv, EventNextInv, LayerNextInv, PublishedNextInv
    <2>2. CASE Render
      <3>1. /\ OnChain(pushed.items) \subseteq Ids(pushed'.items)
            /\ \A x \in pushed.items, y \in pushed'.items :
                 x.sid = y.sid /\ x.settled = TRUE => y.settled = TRUE /\ Truthful(y)
        BY <1>2, <2>2, RenderKeepsPublished
      <3>2. ASSUME NEW sid \in Kept, Shown(sid).settled
            PROVE  /\ ShownNext(sid).settled
                   /\ ShownNext(sid).phase = Shown(sid).phase
                   /\ ShownNext(sid).state = Shown(sid).state
                   /\ ShownNext(sid).payout = Shown(sid).payout
        <4>1. PICK x, y : x = Shown(sid) /\ y = ShownNext(sid)
          OBVIOUS
        <4>2. /\ sid \in SessionIds
              /\ \E i \in pushed.items : i.sid = sid
              /\ \E i \in pushed'.items : i.sid = sid
          BY DEF Kept, OnChain, Ids
        <4>3. x \in pushed.items /\ x.sid = sid /\ y \in pushed'.items /\ y.sid = sid
          BY <4>1, <4>2 DEF Shown, ShownNext
        <4>4. Truthful(x) /\ x.settled = TRUE
          BY <1>2, <3>2, <4>1, <4>3 DEF PublishedInv, Truthful
        <4>5. y.settled = TRUE /\ Truthful(y)
          BY <3>1, <4>3, <4>4
        <4>6. Final(sid, x) /\ Final(sid, y)
          BY <4>2, <4>3, <4>4, <4>5 DEF Truthful
        <4>7. x.phase = y.phase /\ x.state = y.state /\ x.payout = y.payout
          BY <1>2, <4>6, OneSettlement DEF OpenInv
        <4> QED
          BY <4>1, <4>5, <4>7
      <3> QED
        BY <2>1, <3>1, <3>2
    <2>3. CASE UNCHANGED renderVars
      <3>1. pushed' = pushed
        BY <2>3 DEF renderVars
      <3>2. \A sid : ShownNext(sid) = Shown(sid)
        BY <3>1 DEF Shown, ShownNext
      <3>3. Stays
        BY <3>1, <3>2 DEF OnChain
      <3> QED
        BY <2>1, <3>3
    <2> QED
      BY <2>1, <2>2, <2>3
  <1>3. Inv /\ [Next]_vars => Inv'
    BY <1>2
  <1>4. Inv /\ [Next]_vars => [Stays]_vars
    BY <1>2
  <1> HIDE DEF Inv
  <1>5. Spec => [][Stays]_vars
    BY <1>1, <1>3, <1>4, PTL DEF Spec
  <1> QED
    BY <1>5 DEF PublishedStays

-----------------------------------------------------------------------------
(***************************************************************************)
(* What the chain says of a session                                        *)
(***************************************************************************)

Asks(e) == e.request = TRUE

\* An event of a session after the earlier ones: the opening is first, the
\* steps go up, the settlement tells no earlier state, and a word answers the
\* request of the step before, which has no answer yet.
Continues(e, prior) ==
    /\ e.sid \in SessionIds
    /\ e.word \in Nat
    /\ e.kind = "Opened" => prior = {} /\ e.word = 0
    /\ e.kind = "Advanced" =>
         /\ e.step # 0 /\ e.state = e.step /\ e.payout = NoPayout
         /\ Asks(e) <=> e.phase = "WAITING_RANDOMNESS"
         /\ e.word \in {0, e.step - 1}
         /\ \A p \in prior : p.step < e.step
    /\ e.kind # "Advanced" => ~Asks(e) /\ e.step = 0
    /\ e.kind # "Opened" => \E p \in prior : p.kind = "Opened"
    /\ e.kind = "Settled" => e.state \in Nat /\ \A p \in prior : p.step <= e.state
    /\ e.word # 0 =>
         /\ \E p \in prior : p.kind = "Advanced" /\ Asks(p) /\ p.step = e.word
         /\ \A p \in prior : p.step <= e.word /\ p.word < e.word

\* The events of its session before an event.
Before(l) == {i \in 1..(l - 1) : log[i].sid = log[l].sid}
Prior(l) == {log[i] : i \in Before(l)}

\* Every session that was opened has an opening and something after it.
StepInv ==
    /\ \A l \in 1..Len(log) : Continues(log[l], Prior(l))
    /\ \A sid \in 1..(NewSession - 1) : \E i, j \in EventsOf(sid) :
           log[i].kind = "Opened" /\ log[j].kind # "Opened"

\* The parts of an event.
LEMMA AdvancedFields ==
    ASSUME NEW sid, NEW step, NEW phase, NEW word, NEW e, e = Advanced(sid, step, phase, word)
    PROVE  /\ e.kind = "Advanced" /\ e.sid = sid /\ e.step = step /\ e.state = step
           /\ e.word = word /\ e.payout = NoPayout /\ e.phase = phase
           /\ Asks(e) <=> phase = "WAITING_RANDOMNESS"
  BY Zenon DEF Advanced, Asks

\* What the words of a settlement say.  Code: useSessionEvents.
LEMMA SettledFields ==
    ASSUME NEW sid, NEW state, NEW phase, NEW word, NEW payout, NEW e,
           e = Settled(sid, state, phase, word, payout)
    PROVE  /\ e.kind = "Settled" /\ e.sid = sid /\ e.step = 0 /\ e.word = word
           /\ ~Asks(e) /\ e.state = state
  BY DEF Settled, Asks

\* What the opening says.  Code: useSessionEvents.
LEMMA OpenedFields ==
    ASSUME NEW sid, NEW e, e = Opened(sid)
    PROVE  /\ e.kind = "Opened" /\ e.sid = sid /\ e.step = 0 /\ e.word = 0
           /\ ~Asks(e)
  BY DEF Opened, Asks

\* What was said before stays so when the log grows.
LEMMA PriorStays ==
    ASSUME Len(log) \in Nat, Len(log') \in Nat, Len(log') >= Len(log),
           \A l \in 1..Len(log) : log'[l] = log[l]
    PROVE  /\ \A l \in 1..Len(log) : Prior(l)' = Prior(l)
           /\ \A sid : EventsOf(sid) \subseteq EventsOf(sid)'
  <1>1. \A l \in 1..Len(log) : Before(l)' = Before(l)
    BY DEF Before
  <1>2. \A l \in 1..Len(log) : \A i \in Before(l) : i \in 1..Len(log)
    BY DEF Before
  <1>3. \A l \in 1..Len(log) : Prior(l)' = Prior(l)
    BY <1>1, <1>2 DEF Prior
  <1>4. \A sid : EventsOf(sid) \subseteq EventsOf(sid)'
    BY DEF EventsOf
  <1> QED
    BY <1>3, <1>4

\* A session is opened.
LEMMA OpeningContinues ==
    ASSUME OpenInv, EventInv, StepInv, NewSession <= MaxSessions,
           NEW logs \in OpeningLogs(NewSession), log' = log \o logs
    PROVE  StepInv'
  <1>0. PICK n, s, o, e : n = Len(log) /\ s = NewSession /\ o = Opened(s) /\ e = logs[2]
    OBVIOUS
  <1>1. /\ n \in Nat /\ Len(log') = n + 2
        /\ \A l \in 1..n : log'[l] = log[l]
        /\ log'[n + 1] = o /\ log'[n + 2] = e
        /\ NewSession' = s + 1
    BY <1>0, LogOpens DEF OpenInv
  <1>a. n \in Nat /\ Len(log') = n + 2
    BY <1>1
  <1>2. s \in Nat \ {0} /\ s \in SessionIds
    BY <1>0, OpeningsAreFinite, SnapshotAssumption DEF OpenInv, SessionIds
  <1>3. \A l \in 1..n : log[l].sid \in 1..(s - 1)
    BY <1>0 DEF EventInv
  <1>4. /\ e.sid = s /\ e.word = 0 /\ e.kind # "Opened"
        /\ e.kind = "Advanced" =>
             /\ e.step = 1 /\ e.state = 1 /\ e.payout = NoPayout
             /\ Asks(e) <=> e.phase = "WAITING_RANDOMNESS"
        /\ e.kind # "Advanced" => ~Asks(e) /\ e.step = 0
        /\ e.kind = "Settled" => e.state = 1
    <2>1. \/ \E phase \in WaitingPhases : e = Advanced(s, 1, phase, 0)
          \/ e = Settled(s, 1, "SETTLED", 0, Payout)
      BY <1>0 DEF OpeningLogs
    <2> QED
      BY <2>1, AdvancedFields, SettledFields
  <1>5. o.sid = s /\ o.word = 0 /\ o.kind = "Opened" /\ o.step = 0 /\ ~Asks(o)
    BY <1>0, OpenedFields
  <1>6. \A l \in 1..n : Continues(log'[l], Prior(l)')
    BY <1>0, <1>1, PriorStays DEF StepInv
  <1>7. Continues(log'[n + 1], Prior(n + 1)')
    <2>1. Before(n + 1)' = {}
      BY <1>1, <1>2, <1>3, <1>5 DEF Before
    <2>2. Prior(n + 1)' = {}
      BY <2>1 DEF Prior
    <2> QED
      BY <1>1, <1>2, <1>5, <2>2 DEF Continues
  <1>8. Continues(log'[n + 2], Prior(n + 2)')
    <2>a. \A i \in 1..(n + 2 - 1) : i \in 1..n \/ i = n + 1
      BY <1>a
    <2>b. \A i \in 1..n : log'[i].sid # s
      BY <1>1, <1>2, <1>3, SMTT(60)
    <2>1. Before(n + 2)' \subseteq {n + 1}
      <3> SUFFICES ASSUME NEW i \in Before(n + 2)' PROVE i = n + 1
        OBVIOUS
      <3>1. log'[n + 2].sid = s
        BY <1>1, <1>4
      <3>2. i \in 1..(n + 2 - 1) /\ log'[i].sid = log'[n + 2].sid
        BY <1>a DEF Before
      <3> QED
        BY <2>a, <2>b, <3>1, <3>2
    <2>2. Prior(n + 2)' = {o}
      <3>1. n + 1 \in Before(n + 2)'
        BY <1>1, <1>a, <1>4, <1>5 DEF Before
      <3> QED
        BY <1>1, <2>1, <3>1 DEF Prior
    <2> QED
      BY <1>1, <1>2, <1>4, <1>5, <2>2 DEF Continues
  <1>9. \A l \in 1..Len(log') : Continues(log'[l], Prior(l)')
    <2>1. \A l \in 1..Len(log') : l \in 1..n \/ l = n + 1 \/ l = n + 2
      BY <1>a
    <2> QED
      BY <1>6, <1>7, <1>8, <2>1
  <1>10. ASSUME NEW sid \in 1..(NewSession' - 1)
         PROVE  \E i, j \in EventsOf(sid)' : log'[i].kind = "Opened" /\ log'[j].kind # "Opened"
    <2>1. CASE sid = s
      <3>1. n + 1 \in EventsOf(sid)' /\ n + 2 \in EventsOf(sid)'
        BY <1>1, <1>4, <1>5, <2>1 DEF EventsOf
      <3> QED
        BY <1>1, <1>4, <1>5, <3>1
    <2>2. CASE sid # s
      <3>1. sid \in 1..(s - 1)
        BY <1>1, <1>2, <2>2
      <3>2. PICK i, j \in EventsOf(sid) : log[i].kind = "Opened" /\ log[j].kind # "Opened"
        BY <1>0, <3>1 DEF StepInv
      <3>3. i \in 1..n /\ j \in 1..n /\ log[i].sid = sid /\ log[j].sid = sid
        BY <1>0, <3>2 DEF EventsOf
      <3>4. i \in EventsOf(sid)' /\ j \in EventsOf(sid)'
        BY <1>1, <3>3 DEF EventsOf
      <3> QED
        BY <1>1, <3>2, <3>3, <3>4
    <2> QED
      BY <2>1, <2>2
  <1> QED
    BY <1>9, <1>10 DEF StepInv

\* The last event of a session that is open has its highest step.
LEMMA LastIsHighest ==
    ASSUME OpenInv, EventInv, StepInv, NEW sid, EventsOf(sid) # {},
           LastEvent(sid).kind = "Advanced"
    PROVE  \E m \in EventsOf(sid) :
             /\ LastEvent(sid) = log[m] /\ log[m].step \in Nat \ {0}
             /\ \A l \in EventsOf(sid) : /\ log[l].kind # "Settled"
                                         /\ l = m \/ log[l].step < log[m].step
                                         /\ log[l].step <= log[m].step
                                         /\ log[l].word < log[m].step
  <1>0. PICK m : m = Max(EventsOf(sid))
    OBVIOUS
  <1>1. /\ m \in EventsOf(sid) /\ \A l \in EventsOf(sid) : l <= m
        /\ LastEvent(sid) = log[m]
        /\ \A l \in EventsOf(sid) : log[l].kind # "Settled"
    BY <1>0, LastEventIsLast DEF OpenInv, LastEvent
  <1>2. Len(log) \in Nat
    BY OpeningsAreFinite DEF OpenInv
  <1>3. \A l \in EventsOf(sid) : l \in 1..Len(log) /\ log[l].sid = sid
                                 /\ WellFormed(log[l]) /\ Continues(log[l], Prior(l))
    BY DEF EventsOf, EventInv, StepInv
  <1>4. \A l \in EventsOf(sid) : l = m \/ log[l] \in Prior(m)
    <2>1. \A l \in EventsOf(sid) : l = m \/ l \in 1..(m - 1)
      BY <1>1, <1>2, <1>3
    <2>2. log[m].sid = sid
      BY <1>1, <1>3
    <2> QED
      BY <1>3, <2>1, <2>2 DEF Prior, Before
  <1>5. \A l \in EventsOf(sid) :
          /\ log[l].kind \in {"Opened", "Advanced"}
          /\ log[l].step \in Nat /\ log[l].word \in Nat
          /\ log[l].step = 0 => log[l].word = 0
          /\ log[l].step # 0 => log[l].word < log[l].step
    BY <1>1, <1>3 DEF WellFormed, Continues
  <1>6. log[m].step \in Nat \ {0} /\ \A p \in Prior(m) : p.step < log[m].step
    BY <1>1, <1>3, <1>5 DEF Continues
  <1> QED
    BY <1>1, <1>4, <1>5, <1>6

\* A session goes on.
LEMMA StepContinues ==
    ASSUME OpenInv, EventInv, StepInv, NEW sid \in SessionIds, MineStep(sid)
    PROVE  StepInv'
  <1>1. PICK x \in StepLogs(sid) : log' = Append(log, x)
    BY DEF MineStep
  <1>2. EventsOf(sid) # {} /\ LastEvent(sid).kind = "Advanced"
    BY DEF MineStep, IsOpenOnChain
  <1>3. PICK m \in EventsOf(sid) :
             /\ LastEvent(sid) = log[m] /\ log[m].step \in Nat \ {0}
             /\ \A l \in EventsOf(sid) : /\ log[l].kind # "Settled"
                                         /\ l = m \/ log[l].step < log[m].step
                                         /\ log[l].step <= log[m].step
                                         /\ log[l].word < log[m].step
    BY <1>2, LastIsHighest
  <1>0. PICK n, e, k, last : n = Len(log) /\ e = x /\ last = log[m] /\ k = last.step
    OBVIOUS
  <1>4. /\ n \in Nat /\ Len(log') = n + 1
        /\ \A l \in 1..n : log'[l] = log[l]
        /\ log'[n + 1] = e
        /\ NewSession' = NewSession
    BY <1>0, <1>1, LogSteps DEF OpenInv
  <1>5. /\ e.sid = sid /\ e.word \in {0, k} /\ e.kind # "Opened"
        /\ e.word # 0 => last.phase = "WAITING_RANDOMNESS"
        /\ e.kind = "Advanced" =>
             /\ e.step = k + 1 /\ e.state = k + 1 /\ e.payout = NoPayout
             /\ Asks(e) <=> e.phase = "WAITING_RANDOMNESS"
        /\ e.kind # "Advanced" => ~Asks(e) /\ e.step = 0
        /\ e.kind = "Settled" => e.state \in {k, k + 1}
    <2> DEFINE word == IF last.phase = "WAITING_RANDOMNESS" THEN k ELSE 0
               given == IF last.phase = "WAITING_RANDOMNESS" THEN "CANCELLED" ELSE "FORFEITED"
    <2>1. \/ \E phase \in WaitingPhases : e = Advanced(sid, k + 1, phase, word)
          \/ e = Settled(sid, k + 1, "SETTLED", word, Payout)
          \/ e = Settled(sid, k, given, 0, Payout)
      BY <1>0, <1>3 DEF StepLogs
    <2>2. word \in {0, k} /\ (word # 0 => last.phase = "WAITING_RANDOMNESS")
      OBVIOUS
    <2> HIDE DEF word, given
    <2>3. CASE \E phase \in WaitingPhases : e = Advanced(sid, k + 1, phase, word)
      BY <2>2, <2>3, AdvancedFields
    <2>4. CASE e = Settled(sid, k + 1, "SETTLED", word, Payout)
      BY <2>2, <2>4, SettledFields
    <2>5. CASE e = Settled(sid, k, given, 0, Payout)
      BY <2>2, <2>5, SettledFields
    <2> QED
      BY <2>1, <2>3, <2>4, <2>5
  <1>6. \A p \in Prior(n + 1)' : \E l \in EventsOf(sid) : p = log[l]
    BY <1>0, <1>4, <1>5 DEF Prior, Before, EventsOf
  <1>7. last \in Prior(n + 1)'
    BY <1>0, <1>3, <1>4, <1>5 DEF Prior, Before, EventsOf
  <1>8. Continues(log'[n + 1], Prior(n + 1)')
    <2>1. k \in Nat \ {0}
      BY <1>0, <1>3
    <2>2. \A p \in Prior(n + 1)' : p.step <= k /\ p.word < k /\ p.step \in Nat
      BY <1>0, <1>3, <1>6 DEF EventsOf, EventInv, WellFormed
    <2>3. last.phase = "WAITING_RANDOMNESS" => Asks(last)
      BY <1>0, <1>2, <1>3 DEF EventsOf, StepInv, Continues
    <2>4. last.kind = "Advanced" /\ last.step = k
      BY <1>0, <1>2, <1>3
    <2>5. PICK prior : prior = Prior(n + 1)'
      OBVIOUS
    <2>a. \E p \in prior : p.kind = "Opened"
      <3>1. sid \in 1..(NewSession - 1)
        BY <1>0, <1>3 DEF EventsOf, EventInv
      <3>2. PICK i \in EventsOf(sid) : log[i].kind = "Opened"
        BY <3>1 DEF StepInv
      <3>3. log[i] \in Prior(n + 1)'
        BY <1>0, <1>4, <1>5, <3>2 DEF Prior, Before, EventsOf
      <3> QED
        BY <2>5, <3>2, <3>3
    <2>6. Continues(e, prior)
      BY <1>5, <1>7, <2>1, <2>2, <2>3, <2>4, <2>5, <2>a DEF Continues
    <2> QED
      BY <1>4, <2>5, <2>6
  <1>9. \A l \in 1..n : Continues(log'[l], Prior(l)')
    BY <1>0, <1>4, PriorStays DEF StepInv
  <1>10. \A l \in 1..Len(log') : Continues(log'[l], Prior(l)')
    <2>1. \A l \in 1..Len(log') : l \in 1..n \/ l = n + 1
      BY <1>4
    <2> QED
      BY <1>8, <1>9, <2>1
  <1>11. ASSUME NEW s \in 1..(NewSession' - 1)
         PROVE  \E i, j \in EventsOf(s)' : log'[i].kind = "Opened" /\ log'[j].kind # "Opened"
    <2>1. PICK i, j \in EventsOf(s) : log[i].kind = "Opened" /\ log[j].kind # "Opened"
      BY <1>4 DEF StepInv
    <2>2. i \in 1..n /\ j \in 1..n /\ log[i].sid = s /\ log[j].sid = s
      BY <1>0, <2>1 DEF EventsOf
    <2>3. i \in EventsOf(s)' /\ j \in EventsOf(s)'
      BY <1>4, <2>2 DEF EventsOf
    <2> QED
      BY <1>4, <2>1, <2>2, <2>3
  <1> QED
    BY <1>10, <1>11 DEF StepInv

\* StepInv is inductive.
LEMMA StepNextInv ==
    ASSUME OpenInv, EventInv, StepInv, [Next]_vars
    PROVE  StepInv'
  <1>1. CASE \E r \in Requests : MineOpen(r)
    BY <1>1, OpeningContinues DEF MineOpen
  <1>2. CASE MineForeignOpen
    BY <1>2, OpeningContinues DEF MineForeignOpen
  <1>3. CASE \E sid \in SessionIds : MineStep(sid)
    BY <1>3, StepContinues
  <1>4. CASE UNCHANGED log
    <2>1. \A l : Prior(l)' = Prior(l)
      BY <1>4 DEF Prior, Before
    <2>2. NewSession' = NewSession /\ \A sid : EventsOf(sid)' = EventsOf(sid)
      BY <1>4 DEF NewSession, EventsOf
    <2> QED
      BY <1>4, <2>1, <2>2 DEF StepInv
  <1> QED
    BY <1>1, <1>2, <1>3, <1>4 DEF Next, Step, vars, chainVars, Index, Flash, OpenSession,
       Accept, Receipt, Fail, ToggleWallet, Render

\* StepInv holds at first.
LEMMA StepInitInv == Init => StepInv
  <1> SUFFICES ASSUME Init PROVE StepInv
    OBVIOUS
  <1>1. CASE log = <<>>
    <2>1. Openings = {} /\ Len(log) = 0
      BY <1>1 DEF Openings
    <2>2. NewSession = 1
      <3>1. NewSession = Cardinality(Openings) + 1
        BY DEF NewSession, Openings
      <3> QED
        BY <2>1, <3>1, FS_EmptySet
    <2> QED
      BY <2>1, <2>2 DEF StepInv
  <1>2. ASSUME NEW phase \in WaitingPhases,
               log = <<Opened(1), Advanced(1, 1, phase, 0)>>
        PROVE  StepInv
    <2>1. PICK o, e : o = Opened(1) /\ e = Advanced(1, 1, phase, 0)
      OBVIOUS
    <2>2. Len(log) = 2 /\ log[1] = o /\ log[2] = e
      BY <1>2, <2>1
    <2>3. o.kind = "Opened" /\ o.sid = 1 /\ o.step = 0 /\ o.word = 0 /\ ~Asks(o)
      BY <2>1, OpenedFields
    <2>4. /\ e.kind = "Advanced" /\ e.sid = 1 /\ e.step = 1 /\ e.state = 1 /\ e.word = 0
          /\ e.payout = NoPayout /\ e.phase = phase
          /\ Asks(e) <=> phase = "WAITING_RANDOMNESS"
      BY <2>1, AdvancedFields
    <2>5. NewSession = 2
      <3>1. Openings = {1}
        BY <2>2, <2>3, <2>4 DEF Openings
      <3>2. NewSession = Cardinality(Openings) + 1
        BY DEF NewSession, Openings
      <3> QED
        BY <3>1, <3>2, FS_Singleton
    <2>6. 1 \in SessionIds
      BY SnapshotAssumption DEF SessionIds
    <2>7. Continues(log[1], Prior(1))
      <3>1. Prior(1) = {}
        BY DEF Prior, Before
      <3> QED
        BY <2>2, <2>3, <2>6, <3>1 DEF Continues
    <2>8. Continues(log[2], Prior(2))
      <3>1. Prior(2) = {o}
        <4>1. Before(2) = {1}
          BY <2>2, <2>3, <2>4 DEF Before
        <4> QED
          BY <2>2, <4>1 DEF Prior
      <3> QED
        BY <2>2, <2>3, <2>4, <2>6, <3>1 DEF Continues
    <2>9. 1 \in EventsOf(1) /\ 2 \in EventsOf(1)
      BY <2>2, <2>3, <2>4 DEF EventsOf
    <2>10. \A sid \in 1..(NewSession - 1) : sid = 1
      BY <2>5
    <2>11. \A l \in 1..Len(log) : l = 1 \/ l = 2
      BY <2>2
    <2>12. \A l \in 1..Len(log) : Continues(log[l], Prior(l))
      BY <2>7, <2>8, <2>11
    <2> QED
      BY <2>2, <2>3, <2>4, <2>9, <2>10, <2>12 DEF StepInv
  <1> QED
    BY <1>1, <1>2 DEF Init, Histories

-----------------------------------------------------------------------------
(***************************************************************************)
(* What a row and a patch have heard                                       *)
(***************************************************************************)

\* The events of a session among those that came on a channel.
Heard(sid, arrived) == {log[l] : l \in {i \in arrived : log[i].sid = sid}}

\* What came is on the chain; in order, so is all that was said before it.
Arrives(arrived) ==
    /\ arrived \subseteq 1..Len(log)
    /\ inOrder => \A l \in arrived : 1..l \subseteq arrived

ArriveInv == Arrives(indexed) /\ Arrives(flashed)

\* A log that arrives adds its event to what was heard of its session; in
\* order, that was all that its session said before.
LEMMA HeardGrows ==
    ASSUME LogInv, NEW arrived, Arrives(arrived), NEW l \in 1..Len(log), MayArrive(l, arrived)
    PROVE  /\ \A sid : Heard(sid, arrived \cup {l}) =
                         IF sid = log[l].sid THEN Heard(sid, arrived) \cup {log[l]}
                                             ELSE Heard(sid, arrived)
           /\ inOrder => Heard(log[l].sid, arrived) = Prior(l)
           /\ Arrives(arrived \cup {l})
  <1>1. \A sid : Heard(sid, arrived \cup {l}) =
                   IF sid = log[l].sid THEN Heard(sid, arrived) \cup {log[l]}
                                       ELSE Heard(sid, arrived)
    BY DEF Heard
  <1>2. Len(log) \in Nat
    BY OpeningsAreFinite
  <1>3. ASSUME inOrder PROVE arrived = 1..(l - 1)
    <2>1. \A i \in arrived : i \in 1..Len(log) /\ l \notin 1..i
      BY <1>3 DEF Arrives, MayArrive
    <2>2. \A i \in arrived : i \in 1..(l - 1)
      BY <1>2, <2>1
    <2> QED
      BY <1>3, <2>2 DEF MayArrive
  <1>4. inOrder => Heard(log[l].sid, arrived) = Prior(l)
    BY <1>3 DEF Heard, Prior, Before
  <1>5. Arrives(arrived \cup {l})
    <2>1. ASSUME inOrder, NEW i \in arrived \cup {l} PROVE 1..i \subseteq arrived \cup {l}
      <3>1. CASE i = l
        <4>1. 1..l \subseteq 1..(l - 1) \cup {l}
          BY <1>2
        <4> QED
          BY <1>3, <2>1, <3>1, <4>1
      <3>2. CASE i \in arrived
        BY <2>1, <3>2 DEF Arrives
      <3> QED
        BY <3>1, <3>2
    <2> QED
      BY <2>1 DEF Arrives
  <1> QED
    BY <1>1, <1>4, <1>5

\* What the log grows by changes nothing of what was heard.
LEMMA HeardStays ==
    ASSUME Len(log) \in Nat, Len(log') \in Nat, Len(log') >= Len(log),
           \A l \in 1..Len(log) : log'[l] = log[l], UNCHANGED inOrder,
           NEW arrived, Arrives(arrived)
    PROVE  /\ Arrives(arrived)'
           /\ \A sid : Heard(sid, arrived)' = Heard(sid, arrived)
  BY DEF Arrives, Heard

\* What every step does to the log.
LEMMA LogGrows ==
    ASSUME OpenInv, [Next]_vars
    PROVE  /\ Len(log) \in Nat /\ Len(log') \in Nat /\ Len(log') >= Len(log)
           /\ \A l \in 1..Len(log) : log'[l] = log[l]
           /\ UNCHANGED inOrder
  <1>1. Len(log) \in Nat
    BY OpeningsAreFinite DEF OpenInv
  <1>2. CASE UNCHANGED log
    BY <1>1, <1>2 DEF Next, vars
  <1>3. CASE \E logs \in OpeningLogs(NewSession) : log' = log \o logs
    <2>1. PICK logs \in OpeningLogs(NewSession) : log' = log \o logs
      BY <1>3
    <2>2. /\ Len(log) \in Nat /\ Len(log') = Len(log) + 2
          /\ \A l \in 1..Len(log) : log'[l] = log[l]
      BY <2>1, LogOpens DEF OpenInv
    <2> QED
      BY <2>2 DEF Next, vars
  <1>4. CASE \E sid \in SessionIds : \E e \in StepLogs(sid) : log' = Append(log, e)
    <2>0. PICK sid \in SessionIds : \E e \in StepLogs(sid) : log' = Append(log, e)
      BY <1>4
    <2>1. PICK e \in StepLogs(sid) : log' = Append(log, e)
      BY <2>0
    <2>2. /\ Len(log) \in Nat /\ Len(log') = Len(log) + 1
          /\ \A l \in 1..Len(log) : log'[l] = log[l]
      BY <2>1, LogSteps DEF OpenInv
    <2> QED
      BY <2>2 DEF Next, vars
  <1> QED
    BY <1>2, <1>3, <1>4 DEF Next, Step, vars, chainVars, MineOpen, MineForeignOpen,
       MineStep, Index, Flash, OpenSession, Accept, Receipt, Fail, ToggleWallet, Render

\* ArriveInv is inductive.
LEMMA ArriveNextInv ==
    ASSUME OpenInv, ArriveInv, [Next]_vars
    PROVE  ArriveInv'
  <1>1. \A arrived : Arrives(arrived) => Arrives(arrived)'
    BY LogGrows, HeardStays
  <1>2. CASE UNCHANGED <<indexed, flashed>>
    BY <1>1, <1>2 DEF ArriveInv, Arrives
  <1>3. ASSUME NEW l \in 1..Len(log), Index(l) PROVE ArriveInv'
    <2>1. /\ indexed' = indexed \cup {l} /\ MayArrive(l, indexed)
          /\ UNCHANGED <<flashed, log>>
      BY <1>3 DEF Index, chainVars
    <2>2. Arrives(indexed \cup {l})
      BY <2>1, HeardGrows DEF ArriveInv, OpenInv
    <2> QED
      BY <1>1, <2>1, <2>2 DEF ArriveInv, Arrives
  <1>4. ASSUME NEW l \in 1..Len(log), Flash(l) PROVE ArriveInv'
    <2>1. /\ flashed' = flashed \cup {l} /\ MayArrive(l, flashed)
          /\ UNCHANGED <<indexed, log>>
      BY <1>4 DEF Flash, chainVars
    <2>2. Arrives(flashed \cup {l})
      BY <2>1, HeardGrows DEF ArriveInv, OpenInv
    <2> QED
      BY <1>1, <2>1, <2>2 DEF ArriveInv, Arrives
  <1> QED
    BY <1>2, <1>3, <1>4 DEF Next, Step, vars, MineOpen, MineForeignOpen, MineStep,
       OpenSession, Accept, Receipt, Fail, ToggleWallet, Render

\* ArriveInv holds at first.
LEMMA ArriveInitInv == Init => ArriveInv
  <1> SUFFICES ASSUME Init PROVE ArriveInv
    OBVIOUS
  <1>1. Len(log) \in Nat
    BY OpenInitInv, OpeningsAreFinite DEF OpenInv
  <1>2. flashed = 1..Len(log) /\ indexed = {}
    BY DEF Init
  <1>3. \A l \in 1..Len(log) : 1..l \subseteq 1..Len(log)
    BY <1>1
  <1> QED
    BY <1>2, <1>3 DEF ArriveInv, Arrives

\* What an event makes of a row.
RowBecomes(row, e, out) ==
    /\ e.kind = "Opened" =>
         /\ out.listed = TRUE /\ out.settled = row.settled /\ out.phase = row.phase
         /\ out.state = row.state /\ out.payout = row.payout /\ out.step = row.step
         /\ out.request = row.request /\ out.requests = row.requests
    /\ e.kind = "Advanced" /\ (row.settled = TRUE \/ e.step <= row.step) => out = row
    /\ e.kind = "Advanced" /\ ~(row.settled = TRUE \/ e.step <= row.step) =>
         /\ out.listed = row.listed /\ out.settled = row.settled /\ out.phase = e.phase
         /\ out.state = e.state /\ out.payout = row.payout /\ out.step = e.step
         /\ out.request = IF Asks(e) THEN e.step ELSE row.request
         /\ LET answered == IF e.word = 0 THEN row.requests
                            ELSE FulfilledAt(row, e.step - 1, e.word)
            IN  out.requests = IF Asks(e) THEN Upserted(answered, e.step, e.step, 0)
                                          ELSE answered
    /\ e.kind = "Settled" =>
         /\ out.listed = TRUE /\ out.settled = TRUE /\ out.phase = e.phase
         /\ out.state = e.state /\ out.payout = e.payout /\ out.step = row.step
         /\ out.request = row.request
         /\ out.requests = IF e.word = 0 THEN row.requests
                           ELSE FulfilledAt(row, row.step, e.word)

\* The row an event leaves, field by field.  Code: evolve in session-store.ts.
LEMMA EvolveBecomes ==
    ASSUME NEW row, DOMAIN row = RowFields, row.settled \in BOOLEAN,
           NEW e, e.kind \in {"Opened", "Advanced", "Settled"},
           NEW out, out = Evolve(row, e)
    PROVE  RowBecomes(row, e, out)
  <1>1. CASE e.kind = "Opened"
    <2>1. out = [row EXCEPT !.listed = TRUE]
      BY <1>1 DEF Evolve
    <2> QED
      BY <1>1, <2>1 DEF RowBecomes, RowFields
  <1>2. CASE e.kind = "Advanced" /\ (row.settled = TRUE \/ e.step <= row.step)
    <2>1. out = row
      BY <1>2 DEF Evolve
    <2> QED
      BY <1>2, <2>1 DEF RowBecomes
  <1>3. CASE e.kind = "Advanced" /\ ~(row.settled = TRUE \/ e.step <= row.step)
    <2> DEFINE answered == IF e.word = 0 THEN row.requests
                           ELSE FulfilledAt(row, e.step - 1, e.word)
               a == IF e.request THEN e.step ELSE row.request
               b == IF e.request THEN FALSE ELSE e.word # 0 \/ row.fulfilled
               c == IF e.request THEN Upserted(answered, e.step, e.step, 0)
                    ELSE answered
    <2>1. out = [row EXCEPT !.step = e.step, !.phase = e.phase, !.state = e.state,
                            !.encoded = e.step, !.request = a, !.fulfilled = b,
                            !.requests = c]
      BY <1>3, Zenon DEF Evolve
    <2>2. /\ a = IF Asks(e) THEN e.step ELSE row.request
          /\ c = IF Asks(e) THEN Upserted(answered, e.step, e.step, 0) ELSE answered
      BY <1>3, Zenon DEF Asks
    <2> HIDE DEF a, b, c, answered
    <2>3. /\ out.listed = row.listed /\ out.settled = row.settled /\ out.phase = e.phase
          /\ out.state = e.state /\ out.payout = row.payout /\ out.step = e.step
          /\ out.request = a /\ out.requests = c
      BY <2>1 DEF RowFields
    <2> QED
      BY <1>3, <2>2, <2>3, Zenon DEF RowBecomes, answered
  <1>4. CASE e.kind = "Settled"
    <2> DEFINE a == e.word # 0 \/ row.fulfilled
               b == IF e.word = 0 THEN row.requests ELSE FulfilledAt(row, row.step, e.word)
    <2>1. out = [row EXCEPT !.listed = TRUE, !.settled = TRUE, !.phase = e.phase,
                            !.state = e.state, !.payout = e.payout, !.encoded = 0,
                            !.fulfilled = a, !.requests = b]
      BY <1>4, Zenon DEF Evolve
    <2> HIDE DEF a, b
    <2>2. /\ out.listed = TRUE /\ out.settled = TRUE /\ out.phase = e.phase
          /\ out.state = e.state /\ out.payout = e.payout /\ out.step = row.step
          /\ out.request = row.request /\ out.requests = b
      BY <2>1 DEF RowFields
    <2> QED
      BY <1>4, <2>2 DEF RowBecomes, b
  <1> QED
    BY <1>1, <1>2, <1>3, <1>4

\* A row of a session in flight is at the highest step it has heard of.
RowSays(row, heard) ==
    /\ row.step \in Nat
    /\ row.listed = TRUE => heard # {}
    /\ row.settled = TRUE => \E e \in heard : e.kind = "Settled"
    /\ row.settled = FALSE =>
         /\ row.payout = NoPayout
         /\ \/ row.step = 0 /\ row.state = 0 /\ row.phase = "NONE"
            \/ \E e \in heard : /\ e.kind = "Advanced" /\ e.step = row.step
                                /\ row.state = row.step /\ e.phase = row.phase
         /\ \A e \in heard : e.step <= row.step
    /\ \A e \in heard : /\ e.kind # "Advanced" => row.listed = TRUE
                        /\ e.kind = "Settled" => row.settled = TRUE

\* What a row says after one event more.
LEMMA RowSaysMore ==
    ASSUME NEW row, DOMAIN row = RowFields, row.settled \in BOOLEAN, NEW heard,
           RowSays(row, heard), \A x \in heard : x.step \in Nat,
           NEW e, WellFormed(e), NEW prior, Continues(e, prior),
           NEW out, out = Evolve(row, e)
    PROVE  RowSays(out, heard \cup {e})
  <1>1. RowBecomes(row, e, out)
    BY EvolveBecomes DEF WellFormed
  <1>2. e.step \in Nat
    BY DEF WellFormed
  <1>3. CASE e.kind = "Opened"
    <2>1. /\ out.listed = TRUE /\ out.settled = row.settled /\ out.phase = row.phase
          /\ out.state = row.state /\ out.payout = row.payout /\ out.step = row.step
      BY <1>1, <1>3 DEF RowBecomes
    <2>2. e.step = 0
      BY <1>3 DEF Continues
    <2> QED
      BY <1>3, <2>1, <2>2 DEF RowSays
  <1>4. CASE e.kind = "Advanced" /\ (row.settled = TRUE \/ e.step <= row.step)
    <2>1. out = row
      BY <1>1, <1>4 DEF RowBecomes
    <2> QED
      BY <1>4, <2>1 DEF RowSays
  <1>5. CASE e.kind = "Advanced" /\ ~(row.settled = TRUE \/ e.step <= row.step)
    <2>1. /\ out.listed = row.listed /\ out.settled = row.settled /\ out.phase = e.phase
          /\ out.state = e.state /\ out.payout = row.payout /\ out.step = e.step
      BY <1>1, <1>5 DEF RowBecomes
    <2>2. e.state = e.step
      BY <1>5 DEF Continues
    <2>3. row.settled = FALSE
      BY <1>5
    <2>4. \A x \in heard : x.step <= e.step
      BY <1>2, <1>5, <2>3 DEF RowSays
    <2> QED
      BY <1>2, <1>5, <2>1, <2>2, <2>3, <2>4 DEF RowSays
  <1>6. CASE e.kind = "Settled"
    <2>1. out.listed = TRUE /\ out.settled = TRUE /\ out.step = row.step
      BY <1>1, <1>6 DEF RowBecomes
    <2> QED
      BY <1>6, <2>1 DEF RowSays
  <1> QED
    BY <1>3, <1>4, <1>5, <1>6 DEF WellFormed

-----------------------------------------------------------------------------
(***************************************************************************)
(* The requests of a session and their words                               *)
(***************************************************************************)

Asked(heard) == {e.step : e \in {x \in heard : Asks(x)}}
Answered(heard) == {e.word : e \in {x \in heard : x.word # 0}}
Known(asked, answered) ==
    [n \in asked |-> [id |-> n, word |-> IF n \in answered THEN n ELSE 0]]

\* A request is asked.
LEMMA KnownRequest ==
    ASSUME NEW asked, NEW answered, NEW n, n \notin asked, n \notin answered
    PROVE  Upserted(Known(asked, answered), n, n, 0) = Known(asked \cup {n}, answered)
  <1>1. DOMAIN Known(asked, answered) = asked
    BY DEF Known
  <1> QED
    BY <1>1 DEF Upserted, Known

\* A request is answered.
LEMMA KnownAnswer ==
    ASSUME NEW asked, NEW answered, NEW n \in asked, n \notin answered, n # 0
    PROVE  /\ Known(asked, answered)[n].id = n
           /\ Upserted(Known(asked, answered), n, n, n) = Known(asked, answered \cup {n})
  <1> DEFINE f == Known(asked, answered)
  <1>1. DOMAIN f = asked /\ f[n] = [id |-> n, word |-> 0]
    BY DEF Known
  <1>2. f[n].word = 0 /\ f[n].id = n
    BY <1>1
  <1>3. Upserted(f, n, n, n)
          = [x \in asked \cup {n} |-> IF x # n THEN f[x] ELSE [id |-> n, word |-> n]]
    BY <1>1, <1>2 DEF Upserted
  <1>4. [x \in asked \cup {n} |-> IF x # n THEN f[x] ELSE [id |-> n, word |-> n]]
          = Known(asked, answered \cup {n})
    BY DEF Known
  <1> QED
    BY <1>2, <1>3, <1>4

\* With the channels in order a row has every request it heard of, and every
\* word with the request it answers.
RowAsks(row, heard) ==
    /\ row.requests = Known(Asked(heard), Answered(heard))
    /\ row.request \in {0} \cup Asked(heard)
    /\ row.step = 0 \/ \E e \in heard : e.kind = "Advanced" /\ e.step = row.step
    /\ \A e \in heard : e.step <= row.step

\* What a row asks after one event more.
LEMMA RowAsksMore ==
    ASSUME NEW row, DOMAIN row = RowFields, row.settled = FALSE, row.step \in Nat,
           NEW heard, RowAsks(row, heard),
           \A x \in heard : /\ x.step \in Nat /\ x.word \in Nat
                            /\ x.word = 0 \/ x.word < x.step
                            /\ Asks(x) => x.step # 0,
           NEW e, WellFormed(e), Continues(e, heard),
           NEW out, out = Evolve(row, e)
    PROVE  RowAsks(out, heard \cup {e})
  <1>a. row.settled \in BOOLEAN
    OBVIOUS
  <1>b. e.kind \in {"Opened", "Advanced", "Settled"}
    BY DEF WellFormed
  <1>1. RowBecomes(row, e, out)
    BY <1>a, <1>b, EvolveBecomes
  <1>2. e.step \in Nat /\ e.word \in Nat
    BY DEF WellFormed, Continues
  <1> DEFINE A == Asked(heard)
             W == Answered(heard)
             k == e.word
  <1>3. ASSUME k # 0
        PROVE  k \in A /\ k \notin W /\ row.step = k
    <2>1. /\ \E p \in heard : p.kind = "Advanced" /\ Asks(p) /\ p.step = k
          /\ \A p \in heard : p.step <= k /\ p.word < k
      BY <1>3 DEF Continues
    <2>2. k \in A /\ k \notin W
      BY <1>2, <2>1 DEF Asked, Answered
    <2>3. row.step = k
      BY <1>2, <1>3, <2>1 DEF RowAsks
    <2> QED
      BY <2>2, <2>3
  <1>4. ASSUME k # 0
        PROVE  FulfilledAt(row, k, k) = Known(A, W \cup {k})
    <2>1. row.requests = Known(A, W) /\ k \in DOMAIN Known(A, W)
      BY <1>3, <1>4 DEF RowAsks, Known
    <2>2. FulfilledAt(row, k, k) = Upserted(row.requests, k, row.requests[k].id, k)
      BY <2>1 DEF FulfilledAt
    <2> HIDE DEF A, W, k
    <2> QED
      BY <1>3, <1>4, <2>1, <2>2, KnownAnswer
  <1>5. Asked(heard \cup {e}) = IF Asks(e) THEN A \cup {e.step} ELSE A
    BY DEF Asked
  <1>6. Answered(heard \cup {e}) = IF k # 0 THEN W \cup {k} ELSE W
    BY DEF Answered
  <1>7. CASE e.kind = "Opened"
    <2>1. out.step = row.step /\ out.request = row.request /\ out.requests = row.requests
      BY <1>1, <1>7 DEF RowBecomes
    <2>2. e.step = 0 /\ k = 0 /\ ~Asks(e)
      BY <1>7 DEF Continues
    <2>3. \A x \in heard \cup {e} : x.step <= row.step
      BY <2>2 DEF RowAsks
    <2> QED
      BY <1>5, <1>6, <2>1, <2>2, <2>3 DEF RowAsks
  <1>8. CASE e.kind = "Settled"
    <2>1. /\ out.step = row.step /\ out.request = row.request
          /\ out.requests = IF k = 0 THEN row.requests ELSE FulfilledAt(row, row.step, k)
      BY <1>1, <1>8 DEF RowBecomes
    <2>2. e.step = 0 /\ ~Asks(e)
      BY <1>8 DEF Continues
    <2>3. \A x \in heard \cup {e} : x.step <= row.step
      BY <2>2 DEF RowAsks
    <2>4. out.requests = Known(Asked(heard \cup {e}), Answered(heard \cup {e}))
      <3> HIDE DEF A, W, k
      <3>1. row.requests = Known(A, W)
        BY DEF RowAsks, A, W
      <3> QED
        BY <1>3, <1>4, <1>5, <1>6, <2>1, <2>2, <3>1
    <2> QED
      BY <1>5, <2>1, <2>2, <2>3, <2>4 DEF RowAsks
  <1>9. CASE e.kind = "Advanced"
    <2>1. /\ e.step # 0 /\ k \in {0, e.step - 1}
          /\ \A p \in heard : p.step < e.step
      BY <1>9 DEF Continues
    <2>2. ~(e.step <= row.step)
      BY <1>2, <2>1 DEF RowAsks
    <2> DEFINE answered == IF k = 0 THEN row.requests ELSE FulfilledAt(row, e.step - 1, k)
    <2>3. /\ out.step = e.step
          /\ out.request = IF Asks(e) THEN e.step ELSE row.request
          /\ out.requests = IF Asks(e) THEN Upserted(answered, e.step, e.step, 0) ELSE answered
      BY <1>1, <1>9, <2>2 DEF RowBecomes
    <2> DEFINE V == IF k # 0 THEN W \cup {k} ELSE W
    <2>4. answered = Known(A, V)
      <3>1. row.requests = Known(A, W)
        BY DEF RowAsks
      <3>2. k # 0 => e.step - 1 = k
        BY <2>1
      <3> HIDE DEF A, W, k
      <3> QED
        BY <1>4, <3>1, <3>2
    <2>5. e.step \notin A /\ e.step \notin V
      BY <1>2, <2>1 DEF Asked, Answered
    <2> HIDE DEF A, W, V, answered
    <2>6. Asks(e) => Upserted(answered, e.step, e.step, 0) = Known(A \cup {e.step}, V)
      BY <2>4, <2>5, KnownRequest
    <2>7. out.requests = Known(Asked(heard \cup {e}), Answered(heard \cup {e}))
      BY <1>5, <1>6, <2>3, <2>4, <2>6 DEF V
    <2>8. out.request \in {0} \cup Asked(heard \cup {e})
      BY <1>5, <2>3 DEF RowAsks, A
    <2>9. \A x \in heard \cup {e} : x.step <= e.step
      BY <1>2, <2>1
    <2> QED
      BY <1>9, <2>3, <2>7, <2>8, <2>9 DEF RowAsks
  <1> QED
    BY <1>7, <1>8, <1>9 DEF WellFormed

\* A row that heard of nothing.
LEMMA NothingHeard ==
    /\ RowSays(InitialRow, {})
    /\ RowAsks(InitialRow, {})
  <1>1. Asked({}) = {} /\ Answered({}) = {}
    BY DEF Asked, Answered
  <1>2. <<>> = Known({}, {})
    BY DEF Known
  <1>3. InitialRow.requests = <<>> /\ InitialRow.step = 0 /\ InitialRow.request = 0
    BY DEF InitialRow
  <1>4. RowSays(InitialRow, {})
    BY DEF RowSays, InitialRow
  <1> QED
    BY <1>1, <1>2, <1>3, <1>4 DEF RowAsks

\* What the rows of the player's sessions say.
RowsInv ==
    \A sid \in SessionIds :
        /\ RowSays(rows[sid], Heard(sid, indexed))
        /\ inOrder => RowAsks(rows[sid], Heard(sid, indexed))

\* What is known of the events that came on a channel.
LEMMA HeardAreEvents ==
    ASSUME EventInv, StepInv, NEW arrived, Arrives(arrived), NEW sid,
           NEW e \in Heard(sid, arrived)
    PROVE  /\ e.sid = sid /\ WellFormed(e) /\ e.step \in Nat /\ e.word \in Nat
           /\ \E prior : Continues(e, prior)
           /\ e.kind # "Settled" => e.word = 0 \/ e.word < e.step
           /\ Asks(e) => e.kind = "Advanced" /\ e.step # 0
  <1>1. PICK l \in arrived : e = log[l] /\ log[l].sid = sid
    BY DEF Heard
  <1>2. l \in 1..Len(log)
    BY DEF Arrives
  <1>3. WellFormed(e) /\ Continues(e, Prior(l))
    BY <1>1, <1>2 DEF EventInv, StepInv
  <1> QED
    BY <1>1, <1>3 DEF WellFormed, Continues

\* RowsInv is inductive.
LEMMA RowsNextInv ==
    ASSUME OpenInv, EventInv, LayerInv, StepInv, ArriveInv, RowsInv, [Next]_vars
    PROVE  RowsInv'
  <1>1. CASE UNCHANGED <<indexed, rows>>
    <2>1. \A sid : Heard(sid, indexed)' = Heard(sid, indexed)
      <3>1. \A sid : Heard(sid, indexed') = Heard(sid, indexed)
        BY <1>1
      <3> QED
        BY <1>1, LogGrows DEF Heard, ArriveInv, Arrives
    <2>2. UNCHANGED inOrder
      BY LogGrows
    <2> QED
      BY <1>1, <2>1, <2>2 DEF RowsInv
  <1>2. ASSUME NEW l \in 1..Len(log), Index(l) PROVE RowsInv'
    <2>0. PICK e, s : e = log[l] /\ s = e.sid
      OBVIOUS
    <2>1. /\ indexed' = indexed \cup {l} /\ MayArrive(l, indexed)
          /\ rows' = [rows EXCEPT ![s] = Evolve(@, e)]
          /\ UNCHANGED <<log, inOrder>>
      BY <1>2, <2>0, LogGrows DEF Index, chainVars
    <2>2. \A sid : Heard(sid, indexed') =
                     IF sid = s THEN Heard(sid, indexed) \cup {e} ELSE Heard(sid, indexed)
      <3>1. LogInv /\ Arrives(indexed)
        BY DEF OpenInv, ArriveInv
      <3>2. \A sid : Heard(sid, indexed \cup {l}) =
                      IF sid = log[l].sid THEN Heard(sid, indexed) \cup {log[l]}
                                          ELSE Heard(sid, indexed)
        BY <2>1, <3>1, HeardGrows
      <3> QED
        BY <2>0, <2>1, <3>2
    <2>3. \A sid : Heard(sid, indexed)' = Heard(sid, indexed')
      BY <2>1 DEF Heard
    <2>4. WellFormed(e) /\ Continues(e, Prior(l)) /\ s \in SessionIds
      BY <2>0 DEF EventInv, StepInv, Continues
    <2>5. PICK row, out, heard :
            row = rows[s] /\ out = Evolve(row, e) /\ heard = Heard(s, indexed)
      OBVIOUS
    <2>6. DOMAIN row = RowFields /\ row.settled \in BOOLEAN
      BY <2>4, <2>5 DEF LayerInv, LayerTells
    <2>7. \A x \in heard : /\ x.step \in Nat /\ x.word \in Nat
                           /\ x.kind # "Settled" => x.word = 0 \/ x.word < x.step
                           /\ Asks(x) => x.step # 0
      BY <2>5, HeardAreEvents DEF ArriveInv
    <2>8. RowSays(out, heard \cup {e})
      BY <2>4, <2>5, <2>6, <2>7, RowSaysMore DEF RowsInv
    <2>9. ASSUME inOrder PROVE RowAsks(out, heard \cup {e})
      <3>1. heard = Prior(l)
        BY <2>0, <2>1, <2>5, <2>9, HeardGrows DEF OpenInv, ArriveInv
      <3>2. \A x \in heard : x.kind # "Settled"
        <4> SUFFICES ASSUME NEW i \in 1..(l - 1), log[i].sid = s, log[i].kind = "Settled"
                     PROVE  FALSE
          BY <2>0, <3>1 DEF Prior, Before
        <4>1. Len(log) \in Nat
          BY OpeningsAreFinite DEF OpenInv
        <4>2. i \in 1..Len(log)
          BY <4>1
        <4>3. l <= i
          BY <2>0, <4>2 DEF EventInv
        <4> QED
          BY <4>1, <4>3
      <3>3. row.settled = FALSE /\ row.step \in Nat
        BY <2>4, <2>5, <2>6, <3>2 DEF RowsInv, RowSays
      <3>4. RowAsks(row, heard)
        BY <2>4, <2>5, <2>9 DEF RowsInv
      <3>5. Continues(e, heard)
        BY <2>4, <3>1
      <3>6. \A x \in heard : /\ x.step \in Nat /\ x.word \in Nat
                             /\ x.word = 0 \/ x.word < x.step
                             /\ Asks(x) => x.step # 0
        BY <2>7, <3>2
      <3> QED
        BY <2>4, <2>5, <2>6, <3>3, <3>4, <3>5, <3>6, RowAsksMore
    <2>10. \A sid \in SessionIds : rows'[sid] = IF sid = s THEN out ELSE rows[sid]
      BY <2>1, <2>5 DEF LayerInv
    <2> QED
      BY <2>1, <2>2, <2>3, <2>5, <2>8, <2>9, <2>10 DEF RowsInv
  <1> QED
    BY <1>1, <1>2 DEF Next, Step, vars, MineOpen, MineForeignOpen, MineStep, Flash,
       OpenSession, Accept, Receipt, Fail, ToggleWallet, Render

-----------------------------------------------------------------------------
(***************************************************************************)
(* What a patch has heard                                                  *)
(***************************************************************************)

\* What a fulfillment sets of a patch.
FulfillmentSets(patch, nonce, word, out) ==
    /\ out.word = word
    /\ out.fulfilledNonce = IF nonce = 0 THEN patch.fulfilledNonce ELSE nonce
    /\ out.fulfilledId = IF nonce = 0 THEN patch.fulfilledId
                         ELSE IF patch.request = nonce THEN nonce ELSE 0

\* What an event makes of a patch.
PatchBecomes(patch, e, out) ==
    /\ \/ e.kind = "Opened" \/ patch.settled = TRUE
       \/ e.kind = "Advanced" /\ e.step <= patch.step
       => out = patch
    /\ e.kind = "Advanced" /\ patch.settled = FALSE /\ ~(e.step <= patch.step) =>
         /\ out.step = e.step /\ out.phase = e.phase /\ out.state = e.state
         /\ out.settled = FALSE
         /\ out.request = IF Asks(e) THEN e.step ELSE patch.request
         /\ IF e.word = 0
            THEN /\ out.word = patch.word /\ out.fulfilledNonce = patch.fulfilledNonce
                 /\ out.fulfilledId = patch.fulfilledId
            ELSE FulfillmentSets(patch, e.step - 1, e.word, out)
    /\ e.kind = "Settled" /\ patch.settled = FALSE =>
         /\ out.step = patch.step /\ out.phase = e.phase /\ out.state = e.state
         /\ out.settled = TRUE /\ out.request = patch.request
         /\ IF e.word = 0
            THEN /\ out.word = patch.word /\ out.fulfilledNonce = patch.fulfilledNonce
                 /\ out.fulfilledId = patch.fulfilledId
            ELSE FulfillmentSets(patch, IF patch.request # 0 THEN patch.request
                                        ELSE patch.step, e.word, out)

\* The parts of a patch with a fulfillment.
LEMMA FulfillmentFields ==
    ASSUME NEW p, DOMAIN p = PatchFields, NEW nonce, NEW word, NEW q,
           q = WithFulfillment(p, nonce, word)
    PROVE  /\ DOMAIN q = PatchFields
           /\ FulfillmentSets(p, nonce, word, q)
           /\ q.step = p.step /\ q.phase = p.phase /\ q.state = p.state
           /\ q.settled = p.settled /\ q.request = p.request
  BY DEF WithFulfillment, FulfillmentSets, PatchFields

\* The patch a preconfirmed event leaves, field by field.  Code: applyFlashblockEvent.
LEMMA PatchedBecomes ==
    ASSUME NEW patch, DOMAIN patch = PatchFields, patch.settled \in BOOLEAN,
           NEW e, e.kind \in {"Opened", "Advanced", "Settled"},
           NEW out, out = Patched(patch, e)
    PROVE  PatchBecomes(patch, e, out)
  <1>1. CASE e.kind = "Opened" \/ patch.settled = TRUE
    <2>1. out = patch
      BY <1>1 DEF Patched
    <2> QED
      BY <1>1, <2>1 DEF PatchBecomes
  <1>2. CASE e.kind = "Advanced" /\ patch.settled = FALSE
    <2> DEFINE moved == [patch EXCEPT !.step = e.step, !.phase = e.phase,
                                      !.state = e.state, !.encoded = e.step]
               answered == IF e.word = 0 THEN moved
                           ELSE WithFulfillment(moved, e.step - 1, e.word)
    <2>1. out = IF e.step <= patch.step THEN patch
                ELSE IF e.request THEN [answered EXCEPT !.request = e.step] ELSE answered
      BY <1>2 DEF Patched
    <2>2. /\ DOMAIN moved = PatchFields /\ moved.step = e.step /\ moved.phase = e.phase
          /\ moved.state = e.state /\ moved.settled = patch.settled
          /\ moved.request = patch.request /\ moved.word = patch.word
          /\ moved.fulfilledNonce = patch.fulfilledNonce
          /\ moved.fulfilledId = patch.fulfilledId
      BY DEF PatchFields
    <2> HIDE DEF moved
    <2>3. /\ DOMAIN answered = PatchFields /\ answered.step = e.step
          /\ answered.phase = e.phase /\ answered.state = e.state
          /\ answered.settled = patch.settled /\ answered.request = patch.request
          /\ IF e.word = 0
             THEN /\ answered.word = patch.word
                  /\ answered.fulfilledNonce = patch.fulfilledNonce
                  /\ answered.fulfilledId = patch.fulfilledId
             ELSE FulfillmentSets(patch, e.step - 1, e.word, answered)
      <3>1. CASE e.word = 0
        BY <2>2, <3>1
      <3>2. CASE e.word # 0
        <4>1. answered = WithFulfillment(moved, e.step - 1, e.word)
          BY <3>2
        <4> HIDE DEF answered
        <4>2. /\ DOMAIN answered = PatchFields
              /\ FulfillmentSets(moved, e.step - 1, e.word, answered)
              /\ answered.step = moved.step /\ answered.phase = moved.phase
              /\ answered.state = moved.state /\ answered.settled = moved.settled
              /\ answered.request = moved.request
          BY <2>2, <4>1, FulfillmentFields
        <4> QED
          BY <2>2, <3>2, <4>2 DEF FulfillmentSets
      <3> QED
        BY <3>1, <3>2
    <2> HIDE DEF answered
    <2>4. CASE e.step <= patch.step
      BY <1>2, <2>1, <2>4 DEF PatchBecomes
    <2>5. CASE ~(e.step <= patch.step) /\ Asks(e)
      <3>1. out = [answered EXCEPT !.request = e.step]
        BY <2>1, <2>5 DEF Asks
      <3>2. /\ out.step = e.step /\ out.phase = e.phase /\ out.state = e.state
            /\ out.settled = patch.settled /\ out.request = e.step
            /\ out.word = answered.word /\ out.fulfilledNonce = answered.fulfilledNonce
            /\ out.fulfilledId = answered.fulfilledId
        BY <2>3, <3>1 DEF PatchFields
      <3> QED
        BY <1>2, <2>3, <2>5, <3>2 DEF PatchBecomes, FulfillmentSets
    <2>6. CASE ~(e.step <= patch.step) /\ ~Asks(e)
      <3>1. out = answered
        BY <2>1, <2>6 DEF Asks
      <3> QED
        BY <1>2, <2>3, <2>6, <3>1 DEF PatchBecomes
    <2> QED
      BY <2>4, <2>5, <2>6
  <1>3. CASE e.kind = "Settled" /\ patch.settled = FALSE
    <2> DEFINE moved == [patch EXCEPT !.settled = TRUE, !.phase = e.phase,
                                      !.payout = e.payout, !.state = e.state]
               n == IF patch.request # 0 THEN patch.request ELSE patch.step
    <2>1. /\ DOMAIN moved = PatchFields /\ moved.step = patch.step /\ moved.phase = e.phase
          /\ moved.state = e.state /\ moved.settled = TRUE
          /\ moved.request = patch.request /\ moved.word = patch.word
          /\ moved.fulfilledNonce = patch.fulfilledNonce
          /\ moved.fulfilledId = patch.fulfilledId
      BY DEF PatchFields
    <2>2. out = IF e.word = 0 THEN moved ELSE WithFulfillment(moved, n, e.word)
      BY <1>3 DEF Patched
    <2> HIDE DEF moved, n
    <2>3. CASE e.word = 0
      BY <1>3, <2>1, <2>2, <2>3 DEF PatchBecomes
    <2>4. CASE e.word # 0
      <3>1. /\ out.step = patch.step /\ out.phase = e.phase /\ out.state = e.state
            /\ out.settled = TRUE /\ out.request = patch.request
            /\ FulfillmentSets(patch, n, e.word, out)
        BY <2>1, <2>2, <2>4, FulfillmentFields DEF FulfillmentSets
      <3> QED
        BY <1>3, <2>4, <3>1 DEF PatchBecomes, n
    <2> QED
      BY <2>3, <2>4
  <1> QED
    BY <1>1, <1>2, <1>3

\* A patch is at a step it has heard of.
PatchSays(patch, heard) ==
    /\ patch.step \in Nat
    /\ patch.step # 0 => \E e \in heard : e.kind = "Advanced" /\ e.step = patch.step
    /\ patch.settled = FALSE /\ patch.step # 0 =>
         patch.state = patch.step /\ patch.phase \in WaitingPhases
    /\ patch.settled = TRUE => \E e \in heard : e.kind = "Settled"

\* One more event heard of keeps a patch to what was heard of.
LEMMA PatchSaysMore ==
    ASSUME NEW patch, DOMAIN patch = PatchFields, patch.settled \in BOOLEAN, NEW heard,
           PatchSays(patch, heard),
           NEW e, WellFormed(e), NEW prior, Continues(e, prior),
           NEW out, out = Patched(patch, e)
    PROVE  PatchSays(out, heard \cup {e})
  <1>1. PatchBecomes(patch, e, out)
    BY PatchedBecomes DEF WellFormed
  <1>2. e.step \in Nat
    BY DEF WellFormed
  <1>3. CASE out = patch
    BY <1>3 DEF PatchSays
  <1>4. CASE e.kind = "Advanced" /\ patch.settled = FALSE /\ ~(e.step <= patch.step)
    <2>1. /\ out.step = e.step /\ out.state = e.state /\ out.settled = FALSE
          /\ out.phase = e.phase
      BY <1>1, <1>4 DEF PatchBecomes
    <2>2. e.state = e.step /\ e.phase \in WaitingPhases
      BY <1>4 DEF Continues, WellFormed
    <2> QED
      BY <1>2, <1>4, <2>1, <2>2 DEF PatchSays
  <1>5. CASE e.kind = "Settled" /\ patch.settled = FALSE
    <2>1. out.step = patch.step /\ out.settled = TRUE
      BY <1>1, <1>5 DEF PatchBecomes
    <2> QED
      BY <1>5, <2>1 DEF PatchSays
  <1> QED
    BY <1>1, <1>3, <1>4, <1>5 DEF WellFormed, PatchBecomes

\* With the channels in order a patch that has a step has the last one pushed,
\* and its word answers the request it is recorded with.
PatchAsks(patch, heard) ==
    /\ patch.step # 0 => \A e \in heard : e.step <= patch.step
    /\ patch.step = 0 => patch.request = 0 /\ (patch.settled = FALSE => patch.fulfilledNonce = 0)
    /\ patch.request \in {0} \cup Asked(heard)
    /\ patch.step \in Asked(heard) => patch.request = patch.step
    /\ patch.word \in {0} \cup Answered(heard)
    /\ patch.fulfilledNonce # 0 => /\ patch.word = patch.fulfilledNonce
                                   /\ patch.fulfilledId \in {0, patch.fulfilledNonce}
    /\ patch.fulfilledNonce = 0 /\ patch.word # 0 => patch.step = 0 /\ patch.settled = TRUE

\* One more event heard of keeps the request of a patch to those heard of.
LEMMA PatchAsksMore ==
    ASSUME NEW patch, DOMAIN patch = PatchFields, patch.settled = FALSE, NEW heard,
           PatchSays(patch, heard), PatchAsks(patch, heard),
           \A x \in heard : x.step \in Nat /\ x.word \in Nat /\ (Asks(x) => x.step # 0),
           NEW e, WellFormed(e), Continues(e, heard),
           NEW out, out = Patched(patch, e)
    PROVE  PatchAsks(out, heard \cup {e})
  <1>a. patch.settled \in BOOLEAN /\ e.kind \in {"Opened", "Advanced", "Settled"}
    BY DEF WellFormed
  <1>1. PatchBecomes(patch, e, out)
    BY <1>a, PatchedBecomes
  <1>2. e.step \in Nat /\ e.word \in Nat /\ patch.step \in Nat
    BY DEF WellFormed, Continues, PatchSays
  <1> DEFINE A == Asked(heard)
             W == Answered(heard)
             all == heard \cup {e}
  <1>3. Asked(all) = IF Asks(e) THEN A \cup {e.step} ELSE A
    BY DEF Asked
  <1>4. Answered(all) = IF e.word # 0 THEN W \cup {e.word} ELSE W
    BY DEF Answered
  <1>5. 0 \notin A /\ \A n \in A : \E x \in heard : x.step = n
    BY DEF Asked
  <1>6. CASE e.kind = "Opened"
    <2>1. out = patch
      BY <1>1, <1>6 DEF PatchBecomes
    <2>2. e.step = 0 /\ e.word = 0 /\ ~Asks(e)
      BY <1>6 DEF Continues
    <2>3. Asked(all) = A /\ Answered(all) = W
      BY <1>3, <1>4, <2>2
    <2>4. patch.step # 0 => \A x \in all : x.step <= patch.step
      BY <1>2, <2>2 DEF PatchAsks
    <2> QED
      BY <2>1, <2>3, <2>4 DEF PatchAsks
  <1>7. CASE e.kind = "Advanced"
    <2>1. /\ e.step # 0 /\ e.word \in {0, e.step - 1}
          /\ \A p \in heard : p.step < e.step
      BY <1>7 DEF Continues
    <2>2. ~(e.step <= patch.step)
      BY <1>2, <2>1 DEF PatchSays
    <2>3. /\ out.step = e.step /\ out.settled = FALSE
          /\ out.request = IF Asks(e) THEN e.step ELSE patch.request
          /\ IF e.word = 0
             THEN /\ out.word = patch.word /\ out.fulfilledNonce = patch.fulfilledNonce
                  /\ out.fulfilledId = patch.fulfilledId
             ELSE FulfillmentSets(patch, e.step - 1, e.word, out)
      BY <1>1, <1>7, <2>2 DEF PatchBecomes
    <2>4. \A x \in all : x.step <= out.step
      BY <1>2, <2>1, <2>3
    <2>5. out.request \in {0} \cup Asked(all)
      BY <1>3, <2>3 DEF PatchAsks
    <2>6. out.step \in Asked(all) => out.request = out.step
      <3>1. e.step \notin A
        BY <1>2, <1>5, <2>1
      <3> QED
        BY <1>3, <2>3, <3>1
    <2>7. CASE e.word = 0
      <3>1. Answered(all) = W
        BY <1>4, <2>7
      <3>2. /\ out.word = patch.word /\ out.fulfilledNonce = patch.fulfilledNonce
            /\ out.fulfilledId = patch.fulfilledId
        BY <2>3, <2>7
      <3> QED
        BY <2>1, <2>3, <2>4, <2>5, <2>6, <3>1, <3>2 DEF PatchAsks
    <2>8. CASE e.word # 0
      <3>1. e.word = e.step - 1 /\ e.word \in Answered(all)
        BY <1>4, <2>1, <2>8
      <3>2. /\ out.word = e.word /\ out.fulfilledNonce = e.word
            /\ out.fulfilledId \in {0, e.word}
        BY <2>3, <2>8, <3>1 DEF FulfillmentSets
      <3> QED
        BY <2>1, <2>3, <2>4, <2>5, <2>6, <2>8, <3>1, <3>2 DEF PatchAsks
    <2> QED
      BY <2>7, <2>8
  <1>8. CASE e.kind = "Settled"
    <2>1. e.step = 0 /\ ~Asks(e)
      BY <1>8 DEF Continues
    <2> DEFINE n == IF patch.request # 0 THEN patch.request ELSE patch.step
    <2>2. /\ out.step = patch.step /\ out.settled = TRUE /\ out.request = patch.request
          /\ IF e.word = 0
             THEN /\ out.word = patch.word /\ out.fulfilledNonce = patch.fulfilledNonce
                  /\ out.fulfilledId = patch.fulfilledId
             ELSE FulfillmentSets(patch, n, e.word, out)
      BY <1>1, <1>8 DEF PatchBecomes
    <2>3. out.step # 0 => \A x \in all : x.step <= out.step
      BY <1>2, <2>1, <2>2 DEF PatchAsks
    <2>4. Asked(all) = A
      BY <1>3, <2>1
    <2>5. /\ out.step = 0 => out.request = 0
          /\ out.request \in {0} \cup Asked(all)
          /\ out.step \in Asked(all) => out.request = out.step
      BY <2>2, <2>4 DEF PatchAsks
    <2>6. CASE e.word = 0
      <3>1. Answered(all) = W
        BY <1>4, <2>6
      <3>2. /\ out.word = patch.word /\ out.fulfilledNonce = patch.fulfilledNonce
            /\ out.fulfilledId = patch.fulfilledId
        BY <2>2, <2>6
      <3> QED
        BY <2>2, <2>3, <2>5, <3>1, <3>2 DEF PatchAsks
    <2>7. CASE e.word # 0
      <3>1. /\ \E p \in heard : p.kind = "Advanced" /\ Asks(p) /\ p.step = e.word
            /\ \A p \in heard : p.step <= e.word
        BY <2>7 DEF Continues
      <3>2. n \in {0, e.word} /\ (n = 0 => patch.step = 0)
        <4>1. e.word \in A
          BY <3>1 DEF Asked
        <4>2. patch.step # 0 => patch.step = e.word
          BY <1>2, <3>1 DEF PatchAsks, PatchSays
        <4> QED
          BY <2>7, <4>1, <4>2 DEF PatchAsks
      <3> HIDE DEF n
      <3>3. /\ out.word = e.word
            /\ out.fulfilledNonce = IF n = 0 THEN patch.fulfilledNonce ELSE n
            /\ out.fulfilledId = IF n = 0 THEN patch.fulfilledId
                                 ELSE IF patch.request = n THEN n ELSE 0
        BY <2>2, <2>7 DEF FulfillmentSets
      <3>4. n = 0 => patch.fulfilledNonce = 0
        BY <3>2 DEF PatchAsks
      <3>5. e.word \in Answered(all)
        BY <1>4, <2>7
      <3> QED
        BY <2>2, <2>3, <2>5, <2>7, <3>2, <3>3, <3>4, <3>5 DEF PatchAsks
    <2> QED
      BY <2>6, <2>7
  <1> QED
    BY <1>6, <1>7, <1>8 DEF WellFormed

\* A patch that was dropped.
LEMMA NothingPatched ==
    ASSUME NEW heard, \A x \in heard : Asks(x) => x.step # 0
    PROVE  PatchSays(NoPatch, heard) /\ PatchAsks(NoPatch, heard)
  BY DEF PatchSays, PatchAsks, NoPatch, Asked

\* What the patches of the player's sessions say.
PatchesInv ==
    \A sid \in SessionIds :
        /\ PatchSays(patches[sid], Heard(sid, flashed))
        /\ inOrder => PatchAsks(patches[sid], Heard(sid, flashed))

\* In order nothing was heard after the settlement of a session.
LEMMA NothingAfterSettled ==
    ASSUME LogInv, EventInv, NEW l \in 1..Len(log)
    PROVE  \A x \in Prior(l) : x.kind # "Settled"
  <1> SUFFICES ASSUME NEW i \in 1..(l - 1), log[i].sid = log[l].sid, log[i].kind = "Settled"
               PROVE  FALSE
    BY DEF Prior, Before
  <1>1. Len(log) \in Nat
    BY OpeningsAreFinite
  <1>2. i \in 1..Len(log)
    BY <1>1
  <1>3. l <= i
    BY <1>2 DEF EventInv
  <1> QED
    BY <1>1, <1>3

\* PatchesInv is inductive.
LEMMA PatchesNextInv ==
    ASSUME OpenInv, EventInv, LayerInv, StepInv, ArriveInv, PatchesInv, [Next]_vars
    PROVE  PatchesInv'
  <1>1. ASSUME UNCHANGED flashed
        PROVE  \A sid : Heard(sid, flashed)' = Heard(sid, flashed)
    <2>1. \A sid : Heard(sid, flashed') = Heard(sid, flashed)
      BY <1>1
    <2> QED
      BY <1>1, <2>1, LogGrows DEF Heard, ArriveInv, Arrives
  <1>2. UNCHANGED inOrder
    BY LogGrows
  <1>3. CASE UNCHANGED <<flashed, patches>>
    BY <1>1, <1>2, <1>3 DEF PatchesInv
  <1>4. ASSUME NEW l \in 1..Len(log), Flash(l) PROVE PatchesInv'
    <2>0. PICK e, s : e = log[l] /\ s = e.sid
      OBVIOUS
    <2>1. /\ flashed' = flashed \cup {l} /\ MayArrive(l, flashed)
          /\ patches' = [patches EXCEPT ![s] = Patched(@, e)]
          /\ UNCHANGED log
      BY <1>4, <2>0 DEF Flash, chainVars
    <2>2. /\ \A sid : Heard(sid, flashed') =
                         IF sid = s THEN Heard(sid, flashed) \cup {e} ELSE Heard(sid, flashed)
          /\ inOrder => Heard(s, flashed) = Prior(l)
      <3>1. LogInv /\ Arrives(flashed)
        BY DEF OpenInv, ArriveInv
      <3>2. /\ \A sid : Heard(sid, flashed \cup {l}) =
                            IF sid = log[l].sid THEN Heard(sid, flashed) \cup {log[l]}
                                                ELSE Heard(sid, flashed)
            /\ inOrder => Heard(log[l].sid, flashed) = Prior(l)
        BY <2>1, <3>1, HeardGrows
      <3> QED
        BY <2>0, <2>1, <3>2
    <2>3. \A sid : Heard(sid, flashed)' = Heard(sid, flashed')
      BY <2>1 DEF Heard
    <2>4. WellFormed(e) /\ Continues(e, Prior(l)) /\ s \in SessionIds
      BY <2>0 DEF EventInv, StepInv, Continues
    <2>5. PICK patch, out, heard :
            patch = patches[s] /\ out = Patched(patch, e) /\ heard = Heard(s, flashed)
      OBVIOUS
    <2>6. DOMAIN patch = PatchFields /\ patch.settled \in BOOLEAN
      BY <2>4, <2>5 DEF LayerInv, LayerTells
    <2>7. \A x \in heard : x.step \in Nat /\ x.word \in Nat /\ (Asks(x) => x.step # 0)
      BY <2>5, HeardAreEvents DEF ArriveInv
    <2>8. PatchSays(out, heard \cup {e})
      BY <2>4, <2>5, <2>6, PatchSaysMore DEF PatchesInv
    <2>9. ASSUME inOrder PROVE PatchAsks(out, heard \cup {e})
      <3>1. heard = Prior(l)
        BY <2>2, <2>5, <2>9
      <3>2. \A x \in heard : x.kind # "Settled"
        BY <3>1, NothingAfterSettled DEF OpenInv
      <3>3. PatchSays(patch, heard) /\ PatchAsks(patch, heard)
        BY <2>4, <2>5, <2>9 DEF PatchesInv
      <3>4. patch.settled = FALSE
        BY <2>6, <3>2, <3>3 DEF PatchSays
      <3>5. Continues(e, heard)
        BY <2>4, <3>1
      <3> QED
        BY <2>4, <2>5, <2>6, <2>7, <3>3, <3>4, <3>5, PatchAsksMore
    <2>10. \A sid \in SessionIds : patches'[sid] = IF sid = s THEN out ELSE patches[sid]
      BY <2>1, <2>5 DEF LayerInv
    <2> QED
      BY <1>2, <2>2, <2>3, <2>5, <2>8, <2>9, <2>10 DEF PatchesInv
  <1>5. CASE Render
    <2>1. \A sid \in SessionIds : patches'[sid] \in {NoPatch, patches[sid]}
      BY <1>5 DEF Render
    <2>2. UNCHANGED flashed
      BY <1>5 DEF Render
    <2>3. \A sid : \A x \in Heard(sid, flashed) : Asks(x) => x.step # 0
      BY HeardAreEvents DEF ArriveInv
    <2>4. \A sid : PatchSays(NoPatch, Heard(sid, flashed))
                   /\ PatchAsks(NoPatch, Heard(sid, flashed))
      BY <2>3, NothingPatched
    <2> QED
      BY <1>1, <1>2, <2>1, <2>2, <2>4 DEF PatchesInv
  <1> QED
    BY <1>3, <1>4, <1>5 DEF Next, Step, vars, MineOpen, MineForeignOpen, MineStep, Index,
       OpenSession, Accept, Receipt, Fail, ToggleWallet

\* RowsInv and PatchesInv hold at first.
LEMMA HeardInitInv == Init => RowsInv /\ PatchesInv
  <1> SUFFICES ASSUME Init PROVE RowsInv /\ PatchesInv
    OBVIOUS
  <1>1. EventInv /\ StepInv /\ ArriveInv
    BY EventInitInv, StepInitInv, ArriveInitInv
  <1>2. \A sid : Heard(sid, indexed) = {}
    BY DEF Init, Heard
  <1>3. RowsInv
    BY <1>2, NothingHeard DEF Init, RowsInv
  <1>4. \A sid : \A x \in Heard(sid, flashed) : Asks(x) => x.step # 0
    BY <1>1, HeardAreEvents DEF ArriveInv
  <1>5. PatchesInv
    BY <1>4, NothingPatched DEF Init, PatchesInv
  <1> QED
    BY <1>3, <1>5

-----------------------------------------------------------------------------
(***************************************************************************)
(* What is shown once everything has come                                  *)
(***************************************************************************)

\* The patch has nothing that is new to the row.
OldNews(row, patch) == IsTerminal(row) \/ (patch.settled = FALSE /\ patch.step <= row.step)

\* A row that has caught up with its patch stays as it is.
LEMMA MergedStays ==
    ASSUME NEW row, DOMAIN row = RowFields, row.settled \in BOOLEAN,
           NEW patch, patch.settled \in BOOLEAN,
           OldNews(row, patch),
           NEW out, out = MergedRow(row, patch)
    PROVE  /\ out.phase = row.phase /\ out.state = row.state /\ out.payout = row.payout
           /\ out.settled = row.settled
           /\ patch.fulfilledNonce = 0 \/ Recorded(row, patch.fulfilledNonce) => out = row
  <1> DEFINE nonce == patch.fulfilledNonce
             current == row.requests = <<>> \/ nonce >= Max(DOMAIN row.requests)
             c == Upserted(row.requests, nonce, patch.fulfilledId, patch.word)
             d == IF current /\ ~row.fulfilled /\ row.request = 0
                  THEN patch.fulfilledId ELSE row.request
             e == row.fulfilled \/ (current /\ ~row.fulfilled)
  <1>1. out = IF nonce = 0 \/ Recorded(row, nonce) THEN row
              ELSE [row EXCEPT !.requests = c, !.request = d, !.fulfilled = e]
    <2>1. CASE IsTerminal(row)
      BY <2>1, Zenon DEF MergedRow
    <2>2. CASE ~IsTerminal(row) /\ patch.settled = FALSE /\ patch.step <= row.step
      BY <2>2, Zenon DEF MergedRow
    <2> QED
      BY <2>1, <2>2 DEF OldNews
  <1> HIDE DEF c, d, e
  <1> QED
    BY <1>1 DEF RowFields

\* The sessions that were opened.
OpenedIds == 1..(NewSession - 1)

\* All that a session said.
AllHeard(sid) == Heard(sid, 1..Len(log))

\* Everything has come.
AllCame == flashed = 1..Len(log) /\ indexed = 1..Len(log)

\* The invariant of the layers.
HeardInv == StepInv /\ ArriveInv /\ RowsInv /\ PatchesInv

\* Once everything has come the row of a session tells what its last event does.
LEMMA RowTellsLast ==
    ASSUME OpenInv, EventInv, LayerInv, HeardInv, AllCame, NEW sid \in OpenedIds
    PROVE  /\ sid \in SessionIds /\ rows[sid].listed = TRUE
           /\ rows[sid].phase = LastEvent(sid).phase /\ rows[sid].state = LastEvent(sid).state
           /\ rows[sid].payout = LastEvent(sid).payout
           /\ LastEvent(sid).kind = "Settled" => rows[sid].settled = TRUE
           /\ LastEvent(sid).kind # "Settled" =>
                /\ rows[sid].settled = FALSE /\ rows[sid].phase \in WaitingPhases
                /\ patches[sid].settled = FALSE /\ patches[sid].step <= rows[sid].step
  <1>0. PICK row, patch, heard :
          row = rows[sid] /\ patch = patches[sid] /\ heard = AllHeard(sid)
    OBVIOUS
  <1>1. PICK i, j \in EventsOf(sid) : log[i].kind = "Opened" /\ log[j].kind # "Opened"
    BY DEF HeardInv, StepInv, OpenedIds
  <1>2. /\ EventsOf(sid) # {}
        /\ \A l \in EventsOf(sid) : /\ l \in 1..Len(log) /\ log[l] \in heard
                                    /\ WellFormed(log[l]) /\ Continues(log[l], Prior(l))
                                    /\ log[l].sid = sid
    BY <1>0, <1>1 DEF EventsOf, EventInv, HeardInv, StepInv, AllHeard, Heard
  <1>3. \A e \in heard : \E l \in EventsOf(sid) : e = log[l]
    BY <1>0 DEF AllHeard, Heard, EventsOf
  <1>4. sid \in SessionIds
    BY <1>1, <1>2 DEF Continues
  <1>5. /\ RowSays(row, heard) /\ PatchSays(patch, heard)
        /\ row.settled \in BOOLEAN /\ patch.settled \in BOOLEAN
        /\ row.settled = TRUE => Final(sid, row)
    BY <1>0, <1>4 DEF HeardInv, RowsInv, PatchesInv, AllCame, AllHeard, LayerInv, LayerTells
  <1>6. row.listed = TRUE
    BY <1>1, <1>2, <1>5 DEF RowSays
  <1>7. PICK m : m = Max(EventsOf(sid))
    OBVIOUS
  <1>8. m \in EventsOf(sid) /\ (\A l \in EventsOf(sid) : l <= m) /\ LastEvent(sid) = log[m]
    BY <1>2, <1>7, LastEventIsLast DEF OpenInv, LastEvent
  <1>9. log[m].kind # "Opened"
    <2> SUFFICES ASSUME log[m].kind = "Opened" PROVE FALSE
      OBVIOUS
    <2>1. Before(m) = {}
      BY <1>2, <1>8 DEF Continues, Prior
    <2>2. Len(log) \in Nat
      BY OpeningsAreFinite DEF OpenInv
    <2>3. j # m /\ j <= m /\ j \in 1..Len(log) /\ m \in 1..Len(log)
      BY <1>1, <1>2, <1>8
    <2>4. j \in 1..(m - 1)
      BY <2>2, <2>3
    <2> QED
      BY <1>1, <1>2, <1>8, <2>1, <2>4 DEF Before
  <1>10. CASE log[m].kind = "Settled"
    <2>1. row.settled = TRUE
      BY <1>2, <1>5, <1>8, <1>10 DEF RowSays
    <2>2. Final(sid, row) /\ Final(sid, log[m])
      BY <1>2, <1>5, <1>8, <1>10, <2>1 DEF Final
    <2>3. /\ row.phase = log[m].phase /\ row.state = log[m].state
          /\ row.payout = log[m].payout
      BY <2>2, OneSettlement DEF OpenInv
    <2> QED
      BY <1>0, <1>4, <1>6, <1>8, <1>10, <2>1, <2>3
  <1>11. CASE log[m].kind = "Advanced"
    <2>1. /\ log[m].step \in Nat \ {0}
          /\ \A l \in EventsOf(sid) : /\ log[l].kind # "Settled"
                                      /\ log[l].step < log[m].step \/ log[l] = log[m]
      <3>1. LastEvent(sid).kind = "Advanced"
        BY <1>8, <1>11
      <3>2. PICK k \in EventsOf(sid) :
              /\ LastEvent(sid) = log[k] /\ log[k].step \in Nat \ {0}
              /\ \A l \in EventsOf(sid) : /\ log[l].kind # "Settled"
                                          /\ l = k \/ log[l].step < log[k].step
        BY <1>2, <3>1, LastIsHighest DEF HeardInv
      <3>3. log[k] = log[m]
        BY <1>8, <3>2
      <3> QED
        BY <3>2, <3>3
    <2>2. row.settled = FALSE /\ patch.settled = FALSE
      BY <1>3, <1>5, <2>1 DEF RowSays, PatchSays
    <2>3. log[m] \in heard /\ log[m].step <= row.step
      BY <1>2, <1>5, <1>8, <2>2 DEF RowSays
    <2>4. row.step \in Nat /\ patch.step \in Nat
      BY <1>5 DEF RowSays, PatchSays
    <2>5. PICK e \in heard : /\ e.kind = "Advanced" /\ e.step = row.step
                             /\ row.state = row.step /\ e.phase = row.phase
      BY <1>5, <2>1, <2>2, <2>3, <2>4 DEF RowSays
    <2>6. e = log[m]
      BY <1>3, <2>1, <2>3, <2>4, <2>5
    <2>7. log[m].state = log[m].step /\ log[m].payout = NoPayout
          /\ log[m].phase \in WaitingPhases
      BY <1>2, <1>8, <1>11 DEF Continues, WellFormed
    <2>8. row.payout = NoPayout
      BY <1>5, <2>2 DEF RowSays
    <2>9. patch.step <= row.step
      BY <1>5, <2>2, <2>4 DEF RowSays, PatchSays
    <2> QED
      BY <1>0, <1>4, <1>6, <1>8, <1>11, <2>2, <2>5, <2>6, <2>7, <2>8, <2>9
  <1> QED
    BY <1>2, <1>8, <1>9, <1>10, <1>11 DEF WellFormed

\* The item of the row of a session.
RowItem(sid) == ProjectedItem(sid, MergedRow(rows[sid], patches[sid]), patches[sid])

\* Once everything has come the item of a session tells what the chain does.
LEMMA ItemTellsLast ==
    ASSUME OpenInv, EventInv, LayerInv, HeardInv, AllCame, NEW sid \in OpenedIds
    PROVE  /\ RowItem(sid).sid = sid
           /\ Tells(RowItem(sid)) = Told(sid)
           /\ RowItem(sid).phase # "NONE"
           /\ IF LastEvent(sid).kind = "Settled"
              THEN IsComplete(RowItem(sid)) /\ sid \in SessionIds /\ IsTerminal(rows[sid])
                   /\ rows[sid].payout # NoPayout
              ELSE RowItem(sid).settled = FALSE /\ RowItem(sid).phase \in WaitingPhases
                   /\ ~\E x : Final(sid, x)
  <1>0. PICK row, patch, out, item, last :
          /\ row = rows[sid] /\ patch = patches[sid] /\ out = MergedRow(row, patch)
          /\ item = RowItem(sid) /\ last = LastEvent(sid)
    OBVIOUS
  <1>1. /\ sid \in SessionIds /\ row.phase = last.phase /\ row.state = last.state
        /\ row.payout = last.payout
        /\ last.kind = "Settled" => row.settled = TRUE
        /\ last.kind # "Settled" =>
             /\ row.settled = FALSE /\ row.phase \in WaitingPhases
             /\ patch.settled = FALSE /\ patch.step <= row.step
    BY <1>0, RowTellsLast
  <1>2. /\ DOMAIN row = RowFields /\ row.settled \in BOOLEAN /\ patch.settled \in BOOLEAN
        /\ row.settled = TRUE => Final(sid, row)
    BY <1>0, <1>1 DEF LayerInv, LayerTells
  <1>3. /\ item.sid = sid /\ item.phase = out.phase /\ item.state = out.state
        /\ item.payout = out.payout /\ item.settled = IsTerminal(out)
    BY <1>0 DEF RowItem, ProjectedItem
  <1>4. OldNews(row, patch)
    BY <1>1 DEF IsTerminal, OldNews
  <1>5. /\ out.phase = row.phase /\ out.state = row.state /\ out.payout = row.payout
        /\ out.settled = row.settled
    <2>1. /\ DOMAIN row = RowFields /\ row.settled \in BOOLEAN
          /\ patch.settled \in BOOLEAN /\ out = MergedRow(row, patch)
      BY <1>0, <1>2
    <2> QED
      BY <1>4, <2>1, MergedStays
  <1>6. CASE last.kind = "Settled"
    <2>1. row.settled = TRUE /\ item.settled = TRUE
      BY <1>1, <1>3, <1>5, <1>6 DEF IsTerminal
    <2>2. IsTerminalPhase(row.phase) /\ row.payout # NoPayout
          /\ (row.phase = "SETTLED" => row.state # 0)
      BY <1>2, <2>1, OneSettlement DEF OpenInv
    <2>3. Tells(item) = Told(sid)
      BY <1>0, <1>1, <1>3, <1>5, <1>6, <2>1 DEF Tells, Told
    <2>4. IsComplete(item)
      BY <1>3, <1>5, <2>1, <2>2 DEF IsComplete
    <2>5. item.phase # "NONE"
      BY <1>3, <1>5, <2>2 DEF IsTerminalPhase
    <2>6. IsTerminal(row)
      BY <2>1 DEF IsTerminal
    <2> QED
      BY <1>0, <1>1, <1>3, <1>6, <2>2, <2>3, <2>4, <2>5, <2>6
  <1>7. CASE last.kind # "Settled"
    <2>1. row.settled = FALSE /\ row.phase \in WaitingPhases
      BY <1>1, <1>7
    <2>2. item.settled = FALSE /\ item.phase \in WaitingPhases /\ item.phase # "NONE"
      BY <1>3, <1>5, <2>1 DEF IsTerminal, IsTerminalPhase, WaitingPhases
    <2>3. (last.kind = "Settled") = FALSE
      BY <1>7
    <2>4. Tells(item) = Told(sid)
      BY <1>0, <1>1, <1>3, <1>5, <2>2, <2>3 DEF Tells, Told
    <2>5. ~\E x : Final(sid, x)
      <3> SUFFICES ASSUME NEW l \in 1..Len(log), log[l].kind = "Settled", log[l].sid = sid
                   PROVE  FALSE
        BY DEF Final
      <3>1. log[l] \in Heard(sid, indexed)
        BY DEF Heard, AllCame
      <3> QED
        BY <1>0, <1>1, <2>1, <3>1 DEF HeardInv, RowsInv, RowSays
    <2> QED
      BY <1>0, <1>3, <1>7, <2>2, <2>4, <2>5
  <1> QED
    BY <1>6, <1>7

\* What the reconciler shows of items that are complete or in flight, when all
\* it remembers is among them and of the results it remembers none is better.
LEMMA ReconcilerShowsItems ==
    ASSUME NEW items, NEW released, NEW known,
           \A i \in items : IsComplete(i) \/ (i.settled = FALSE /\ ~IsTerminalPhase(i.phase)),
           \A k \in known.settled \cup known.open : k.sid \in Ids(items),
           \A s \in known.settled, i \in items : s.sid = i.sid => IsComplete(i)
    PROVE  Reconciled(items, released, known).items = items
  <1> DEFINE settled == {s \in known.settled : s.sid \notin released}
             open == {o \in known.open : o.sid \notin released}
             kept == {s \in settled : \E item \in items :
                                         item.sid = s.sid /\ ~IsComplete(item)}
             complete == {item \in items : IsComplete(item)}
             Shape(item) == IF item.settled \/ IsTerminalPhase(item.phase)
                            THEN Demoted(item) ELSE item
             unsettled == {i \in items : ~IsComplete(i) /\ i.sid \notin Ids(kept)}
             waiting == {Shape(item) : item \in unsettled}
             settledNow == complete \cup {s \in settled : s.sid \notin Ids(complete)}
             openNow == {w \in waiting : w.sid > 0}
                          \cup {o \in open : o.sid \notin Ids(complete) \cup Ids(waiting)}
             rest == {p \in settledNow \cup openNow : p.sid \notin Ids(items)}
  <1>1. Reconciled(items, released, known).items = kept \cup complete \cup waiting \cup rest
    BY DEF Reconciled
  <1>2. kept = {}
    OBVIOUS
  <1>3. \A i \in unsettled : Shape(i) = i
    OBVIOUS
  <1> HIDE DEF Shape
  <1>4. waiting = unsettled
    BY <1>3
  <1>5. unsettled = items \ complete
    BY <1>2 DEF Ids
  <1>6. rest = {}
    BY <1>4, <1>5 DEF Ids
  <1> HIDE DEF kept, waiting, rest, unsettled
  <1> QED
    BY <1>1, <1>2, <1>4, <1>5, <1>6

\* What is remembered is of sessions that were opened.
KeptInv == \A x \in published.settled \cup published.open : x.sid \in OpenedIds

\* Once everything has come and every call has returned, the layers show the
\* items of the rows, one for each session.
LEMMA LayersShowRows ==
    ASSUME OpenInv, EventInv, LayerInv, HeardInv, AllCame, ready,
           \A r \in Requests : call[r] \in {"idle", "opened", "failed"}
    PROVE  /\ SessionRowIds = OpenedIds
           /\ Layers = {RowItem(sid) : sid \in OpenedIds}
  <1>1. SessionRowIds = OpenedIds
    <2>1. \A sid \in OpenedIds : sid \in SessionIds /\ rows[sid].listed
      BY RowTellsLast
    <2>2. ASSUME NEW sid \in SessionIds, rows[sid].listed = TRUE PROVE sid \in OpenedIds
      <3>1. Heard(sid, indexed) # {}
        BY <2>2 DEF HeardInv, RowsInv, RowSays
      <3>2. PICK l \in 1..Len(log) : log[l].sid = sid
        BY <3>1 DEF Heard, AllCame
      <3> QED
        BY <3>2 DEF EventInv, OpenedIds
    <2>3. \A sid \in SessionIds : rows[sid].listed => rows[sid].listed = TRUE
      OBVIOUS
    <2> QED
      BY <2>1, <2>2, <2>3 DEF SessionRowIds
  <1>2. Projected = {RowItem(sid) : sid \in OpenedIds}
    BY <1>1 DEF Projected, RowItem
  <1>3. ASSUME NEW item \in OptimisticItems
        PROVE  \E p \in Projected : p.sid = item.sid /\ p.phase # "NONE"
    <2> DEFINE Base(o) == [PendingItem(o.request) EXCEPT !.sid = o.sid]
    <2>1. PICK o \in optimistic :
            item = IF o.sid \in {-o.request} \cup SessionRowIds THEN Base(o)
                   ELSE MergedItem(Base(o), patches[o.sid])
      BY DEF OptimisticItems
    <2>2. Named(o) /\ o.request \in Requests
      BY DEF OpenInv, ItemInv, Item
    <2>3. o.sid \in OpenedIds
      <3>1. NewSession \in Nat
        BY OpeningsAreFinite DEF OpenInv
      <3> QED
        BY <2>2, <3>1 DEF Named, OpenInv, TxInv, NoSession, OpenedIds
    <2>4. item = Base(o)
      BY <1>1, <2>1, <2>3
    <2>5. item.sid = o.sid
      BY <2>4 DEF PendingItem
    <2>6. RowItem(o.sid).sid = o.sid /\ RowItem(o.sid).phase # "NONE"
      BY <2>3, ItemTellsLast
    <2> QED
      BY <1>2, <2>3, <2>5, <2>6
  <1>4. Layers = Projected
    BY <1>3 DEF Layers, MergedItems, Ids
  <1> QED
    BY <1>1, <1>2, <1>4

\* The snapshot shows the items of the rows then.
LEMMA QuietShowsRows ==
    ASSUME OpenInv, EventInv, LayerInv, HeardInv, RenderInv, PublishedInv, KeptInv, Quiet
    PROVE  AllCame /\ pushed.items = {RowItem(sid) : sid \in OpenedIds}
  <1>1. AllCame /\ ready /\ \A r \in Requests : call[r] \in {"idle", "opened", "failed"}
    BY DEF Quiet, AllCame
  <1>2. Layers = {RowItem(sid) : sid \in OpenedIds}
    BY <1>1, LayersShowRows
  <1>3. pushed.items = Reconciled(Layers, Released, published).items
    BY DEF Quiet, Reconciliation, Layers, Released
  <1>4. \A i \in Layers : IsComplete(i) \/ (i.settled = FALSE /\ ~IsTerminalPhase(i.phase))
    <2>1. \A sid \in OpenedIds :
            \/ IsComplete(RowItem(sid))
            \/ RowItem(sid).settled = FALSE /\ RowItem(sid).phase \in WaitingPhases
      BY <1>1, ItemTellsLast
    <2> QED
      BY <1>2, <2>1 DEF IsTerminalPhase, WaitingPhases
  <1>5. \A k \in published.settled \cup published.open : k.sid \in Ids(Layers)
    <2>1. \A sid \in OpenedIds : RowItem(sid).sid = sid
      BY <1>1, ItemTellsLast
    <2> QED
      BY <1>2, <2>1 DEF KeptInv, Ids
  <1>6. ASSUME NEW s \in published.settled, NEW i \in Layers, s.sid = i.sid
        PROVE  IsComplete(i)
    <2>1. PICK sid \in OpenedIds : i = RowItem(sid)
      BY <1>2
    <2>2. i.sid = sid /\ sid \in SessionIds
      BY <1>1, <2>1, ItemTellsLast, RowTellsLast
    <2>3. Final(sid, s)
      BY <1>6, <2>2 DEF PublishedInv, Truthful
    <2> QED
      BY <1>1, <2>1, <2>3, ItemTellsLast
  <1> DEFINE items == Layers
             released == Released
             known == published
  <1>7. Reconciled(items, released, known).items = items
    <2> HIDE DEF items, released, known
    <2>1. /\ \A i \in items : IsComplete(i) \/ (i.settled = FALSE /\ ~IsTerminalPhase(i.phase))
          /\ \A k \in known.settled \cup known.open : k.sid \in Ids(items)
          /\ \A s \in known.settled, i \in items : s.sid = i.sid => IsComplete(i)
      BY <1>4, <1>5, <1>6 DEF items, known
    <2> QED
      BY <2>1, ReconcilerShowsItems
  <1> QED
    BY <1>1, <1>2, <1>3, <1>7

\* What the layers show is of sessions that were opened, or of requests.
LEMMA LayersAreOpened ==
    ASSUME OpenInv, EventInv, LayerInv, HeardInv, NEW item \in Layers
    PROVE  \/ item.sid \in OpenedIds
           \/ /\ item.sid \in Int /\ item.sid < 0 /\ item.settled = FALSE
              /\ item.sid \in {-r : r \in Requests}
  <1>0. NewSession \in Nat
    BY OpeningsAreFinite DEF OpenInv
  <1>1. CASE item \in Projected
    <2>1. PICK sid \in SessionRowIds :
            item = ProjectedItem(sid, MergedRow(rows[sid], patches[sid]), patches[sid])
      BY <1>1 DEF Projected
    <2>2. item.sid = sid
      BY <2>1 DEF ProjectedItem
    <2>3. sid \in SessionIds /\ rows[sid].listed
      BY <2>1 DEF SessionRowIds
    <2>4. rows[sid].listed = TRUE
      BY <2>3
    <2>5. Heard(sid, indexed) # {}
      BY <2>3, <2>4 DEF HeardInv, RowsInv, RowSays
    <2>6. PICK l \in 1..Len(log) : log[l].sid = sid
      BY <2>5 DEF Heard, HeardInv, ArriveInv, Arrives
    <2> QED
      BY <2>2, <2>6 DEF EventInv, OpenedIds
  <1>2. CASE item \in OptimisticItems
    <2> DEFINE Base(o) == [PendingItem(o.request) EXCEPT !.sid = o.sid]
    <2>1. PICK o \in optimistic :
            item = IF o.sid \in {-o.request} \cup SessionRowIds THEN Base(o)
                   ELSE MergedItem(Base(o), patches[o.sid])
      BY <1>2 DEF OptimisticItems
    <2>2. PICK base : base = Base(o)
      OBVIOUS
    <2>3. base.sid = o.sid /\ base.settled = FALSE
      BY <2>2 DEF PendingItem
    <2>4. o.request \in Nat \ {0} /\ o.request \in Requests
      BY SnapshotAssumption DEF OpenInv, ItemInv, Item
    <2>5. CASE o.sid = -o.request
      <3>1. item = base
        BY <2>1, <2>2, <2>5
      <3> QED
        BY <2>3, <2>4, <2>5, <3>1
    <2>6. CASE o.sid # -o.request
      <3>1. o.sid = tx[o.request] /\ o.sid # 0
        BY <2>6 DEF OpenInv, ItemInv, Named, NoSession
      <3>2. o.sid \in OpenedIds
        BY <1>0, <2>4, <3>1 DEF OpenInv, TxInv, OpenedIds
      <3> HIDE DEF Base
      <3>3. \A patch : base.sid = o.sid => MergedItem(base, patch).sid = o.sid
        BY DEF MergedItem
      <3>4. item.sid = o.sid
        BY <2>1, <2>2, <2>3, <3>3
      <3> QED
        BY <3>2, <3>4
    <2> QED
      BY <2>5, <2>6
  <1> QED
    BY <1>1, <1>2 DEF Layers, MergedItems

\* What the reconciler remembers is of the layers or was remembered before.
LEMMA ReconcilerRemembers ==
    ASSUME NEW items, NEW released, NEW known, NEW out,
           out = Reconciled(items, released, known)
    PROVE  /\ \A s \in out.settled : s \in known.settled \/ (s \in items /\ IsComplete(s))
           /\ \A o \in out.open :
                o \in known.open \/ \E i \in items : i.sid = o.sid /\ i.sid > 0
  <1> DEFINE Shape(item) == IF item.settled \/ IsTerminalPhase(item.phase)
                            THEN Demoted(item) ELSE item
  <1>1. \A item : Shape(item).sid = item.sid
    BY DEF Demoted
  <1>2. \A s \in out.settled : s \in known.settled \/ (s \in items /\ IsComplete(s))
    BY DEF Reconciled
  <1>3. \A o \in out.open :
          o \in known.open \/ \E i \in items : o = Shape(i) /\ o.sid > 0
    BY DEF Reconciled
  <1> HIDE DEF Shape
  <1> QED
    BY <1>1, <1>2, <1>3

\* KeptInv is inductive.
LEMMA KeptNextInv ==
    ASSUME OpenInv, EventInv, LayerInv, HeardInv, PublishedInv, KeptInv, [Next]_vars
    PROVE  KeptInv'
  <1>1. NewSession \in Nat /\ NewSession' \in Nat /\ NewSession <= NewSession'
    <2>1. /\ Len(log) \in Nat /\ Len(log') \in Nat /\ Len(log') >= Len(log)
          /\ \A l \in 1..Len(log) : log'[l] = log[l]
      BY LogGrows
    <2>2. 1..Len(log) \subseteq 1..Len(log')
      BY <2>1
    <2>3. Openings \subseteq Openings'
      BY <2>1, <2>2 DEF Openings
    <2>4. IsFiniteSet(1..Len(log'))
      BY <2>1, FS_Interval
    <2>5. IsFiniteSet(Openings')
      BY <2>4, FS_Subset DEF Openings
    <2>6. /\ Cardinality(Openings) \in Nat /\ Cardinality(Openings') \in Nat
          /\ Cardinality(Openings) <= Cardinality(Openings')
      BY <2>3, <2>5, FS_Subset, FS_CardinalityType
    <2>7. NewSession = Cardinality(Openings) + 1 /\ NewSession' = Cardinality(Openings') + 1
      BY DEF NewSession, Openings
    <2> QED
      BY <2>6, <2>7
  <1>2. OpenedIds \subseteq OpenedIds'
    <2>1. PICK m, n : m = NewSession /\ n = NewSession'
      OBVIOUS
    <2>2. m \in Nat /\ n \in Nat /\ m <= n
      BY <1>1, <2>1
    <2>3. 1..(m - 1) \subseteq 1..(n - 1)
      BY <2>2
    <2> QED
      BY <2>1, <2>3 DEF OpenedIds
  <1>3. CASE UNCHANGED renderVars
    BY <1>2, <1>3 DEF KeptInv, renderVars
  <1>4. CASE Render
    <2>1. PICK out : out = Reconciled(Layers, Released, published)
      OBVIOUS
    <2>2. published' = [settled |-> out.settled, open |-> out.open]
      BY <1>4, <2>1 DEF Render, Reconciliation, Layers, Released
    <2>3. /\ \A s \in out.settled :
               s \in published.settled \/ (s \in Layers /\ IsComplete(s))
          /\ \A o \in out.open :
               o \in published.open \/ \E i \in Layers : i.sid = o.sid /\ i.sid > 0
      <3>1. PICK items, released, known :
              items = Layers /\ released = Released /\ known = published
        OBVIOUS
      <3>2. out = Reconciled(items, released, known)
        BY <2>1, <3>1
      <3>3. /\ \A s \in out.settled : s \in known.settled \/ (s \in items /\ IsComplete(s))
            /\ \A o \in out.open :
                 o \in known.open \/ \E i \in items : i.sid = o.sid /\ i.sid > 0
        BY <3>2, ReconcilerRemembers
      <3> QED
        BY <3>1, <3>3
    <2>4. \A s \in out.settled : s.sid \in OpenedIds
      BY <2>3, LayersAreOpened DEF KeptInv, IsComplete
    <2>5. \A o \in out.open : o.sid \in OpenedIds
      <3>1. ASSUME NEW i \in Layers, i.sid > 0 PROVE i.sid \in OpenedIds
        <4>1. i.sid \in OpenedIds \/ (i.sid \in Int /\ i.sid < 0)
          BY LayersAreOpened
        <4> QED
          BY <3>1, <4>1
      <3> QED
        BY <2>3, <3>1 DEF KeptInv
    <2> QED
      BY <1>2, <2>2, <2>4, <2>5 DEF KeptInv
  <1> QED
    BY <1>3, <1>4, PublishedNextInv DEF Next, Step, vars, MineOpen, MineForeignOpen,
       MineStep, Index, Flash, OpenSession, Accept, Receipt, Fail, ToggleWallet

\* All that the layers and the reconciler keep to.
SnapInv ==
    OpenInv /\ EventInv /\ LayerInv /\ HeardInv /\ RenderInv /\ PublishedInv /\ KeptInv

\* Nothing is shown before anything happened.
LEMMA SnapInitInv == Init => SnapInv
  <1>1. Init => HeardInv
    BY StepInitInv, ArriveInitInv, HeardInitInv DEF HeardInv
  <1>2. Init => KeptInv
    BY DEF Init, KeptInv
  <1> QED
    BY <1>1, <1>2, OpenInitInv, EventInitInv, LayerInitInv, PublishedInitInv DEF SnapInv

\* Each step keeps to it.
LEMMA SnapNextInv ==
    ASSUME SnapInv, [Next]_vars
    PROVE  SnapInv'
  <1>1. /\ OpenInv /\ EventInv /\ LayerInv /\ HeardInv /\ RenderInv /\ PublishedInv /\ KeptInv
        /\ StepInv /\ ArriveInv /\ RowsInv /\ PatchesInv
    BY DEF SnapInv, HeardInv
  <1>2. OpenInv' /\ EventInv' /\ LayerInv'
    BY <1>1, NextOpenInv, EventNextInv, LayerNextInv
  <1>3. RenderInv' /\ PublishedInv' /\ KeptInv'
    BY <1>1, PublishedNextInv, KeptNextInv
  <1>4. StepInv' /\ ArriveInv' /\ RowsInv' /\ PatchesInv'
    BY <1>1, StepNextInv, ArriveNextInv, RowsNextInv, PatchesNextInv
  <1> QED
    BY <1>2, <1>3, <1>4 DEF SnapInv, HeardInv

\* Once both channels are through and every call has returned, the snapshot
\* shows the sessions of the player and what the chain says of them, and no
\* bet that has not become one of them, in whatever order the layers heard of
\* them.  Code: all of the pipeline in useHostSnapshot.
THEOREM SnapshotConverges == Spec => []Converges
  <1>1. SnapInv => Converges
    <2> SUFFICES ASSUME SnapInv, Quiet
                 PROVE  {[sid |-> item.sid, tells |-> Tells(item)] : item \in pushed.items}
                          = {[sid |-> sid, tells |-> Told(sid)] : sid \in OpenedIds}
      BY DEF Converges, OpenedIds
    <2>1. /\ OpenInv /\ EventInv /\ LayerInv /\ HeardInv
          /\ RenderInv /\ PublishedInv /\ KeptInv
      BY DEF SnapInv
    <2>2. AllCame /\ pushed.items = {RowItem(sid) : sid \in OpenedIds}
      BY <2>1, QuietShowsRows
    <2>3. \A sid \in OpenedIds : RowItem(sid).sid = sid /\ Tells(RowItem(sid)) = Told(sid)
      BY <2>1, <2>2, ItemTellsLast
    <2> QED
      BY <2>2, <2>3
  <1> QED
    BY <1>1, SnapInitInv, SnapNextInv, PTL DEF Spec

-----------------------------------------------------------------------------
(***************************************************************************)
(* The words and the requests of an item                                   *)
(***************************************************************************)

\* Each word and each id is that of the step that asked, if there is one.
Matches(requests) ==
    \A n \in DOMAIN requests :
        /\ requests[n].word \in {0, n}
        /\ n # 0 => requests[n].id \in {0, n}

\* A request or its answer is recorded.
LEMMA UpsertedMatches ==
    ASSUME NEW requests, Matches(requests), NEW n, NEW id \in {0, n}, NEW word \in {0, n}
    PROVE  Matches(Upserted(requests, n, id, word))
  BY DEF Matches, Upserted

\* What was asked and answered so far is matched word by word.
LEMMA KnownMatches ==
    ASSUME NEW asked, NEW answered
    PROVE  Matches(Known(asked, answered))
  BY DEF Matches, Known

\* What a row becomes under a patch.
MergeBecomes(row, patch, out) ==
    /\ IsTerminal(row) => out.state = row.state /\ out.phase = row.phase
    /\ ~IsTerminal(row) /\ patch.settled = TRUE =>
         out.state = patch.state /\ out.phase = patch.phase
    /\ ~IsTerminal(row) /\ patch.settled = FALSE /\ patch.step <= row.step =>
         out.state = row.state /\ out.phase = row.phase
    /\ ~IsTerminal(row) /\ patch.settled = FALSE /\ ~(patch.step <= row.step) =>
         out.state = patch.state /\ out.phase = patch.phase
    /\ out.requests =
         IF patch.fulfilledNonce = 0 \/ Recorded(row, patch.fulfilledNonce) THEN row.requests
         ELSE Upserted(row.requests, patch.fulfilledNonce, patch.fulfilledId, patch.word)

\* The merged row, field by field.  Code: mergePatch.
LEMMA MergedBecomes ==
    ASSUME NEW row, DOMAIN row = RowFields, row.settled \in BOOLEAN,
           NEW patch, patch.settled \in BOOLEAN,
           NEW out, out = MergedRow(row, patch)
    PROVE  MergeBecomes(row, patch, out)
  <1> DEFINE a == IF patch.request = patch.step THEN patch.step ELSE row.request
             b == row.fulfilled /\ patch.request # patch.step
             nonce == patch.fulfilledNonce
             current == row.requests = <<>> \/ nonce >= Max(DOMAIN row.requests)
             advanced == IF IsTerminal(row) \/ patch.step <= row.step THEN row
                         ELSE [row EXCEPT !.step = patch.step, !.phase = patch.phase,
                                          !.state = patch.state, !.encoded = patch.encoded,
                                          !.request = a, !.fulfilled = b]
             settled == IF IsTerminal(row) \/ ~patch.settled THEN advanced
                        ELSE [advanced EXCEPT !.settled = TRUE, !.phase = patch.phase,
                                              !.payout = patch.payout, !.state = patch.state]
             c == Upserted(settled.requests, nonce, patch.fulfilledId, patch.word)
             d == IF current /\ ~row.fulfilled /\ settled.request = 0
                  THEN patch.fulfilledId ELSE settled.request
             e == settled.fulfilled \/ (current /\ ~row.fulfilled)
  <1>1. /\ advanced.requests = row.requests /\ DOMAIN advanced = RowFields
        /\ IsTerminal(row) \/ patch.step <= row.step =>
             advanced.state = row.state /\ advanced.phase = row.phase
        /\ ~(IsTerminal(row) \/ patch.step <= row.step) =>
             advanced.state = patch.state /\ advanced.phase = patch.phase
    <2> HIDE DEF a, b
    <2> QED
      BY DEF RowFields
  <1>2. out = IF nonce = 0 \/ Recorded(row, nonce) THEN settled
              ELSE [settled EXCEPT !.requests = c, !.request = d, !.fulfilled = e]
    BY Zenon DEF MergedRow
  <1> HIDE DEF advanced, c, d, e
  <1>3. /\ settled.requests = row.requests /\ DOMAIN settled = RowFields
        /\ IsTerminal(row) \/ patch.settled = FALSE =>
             settled.state = advanced.state /\ settled.phase = advanced.phase
        /\ ~(IsTerminal(row) \/ patch.settled = FALSE) =>
             settled.state = patch.state /\ settled.phase = patch.phase
    BY <1>1 DEF RowFields
  <1> HIDE DEF settled
  <1>4. /\ out.requests = IF nonce = 0 \/ Recorded(row, nonce) THEN row.requests ELSE c
        /\ out.state = settled.state /\ out.phase = settled.phase
    BY <1>2, <1>3 DEF RowFields
  <1> QED
    BY <1>1, <1>3, <1>4 DEF MergeBecomes, c

\* The requests of a row that is merged with its patch.
LEMMA MergedRequests ==
    ASSUME NEW row, DOMAIN row = RowFields, row.settled \in BOOLEAN, Matches(row.requests),
           NEW patch, patch.settled \in BOOLEAN,
           patch.fulfilledNonce # 0 => /\ patch.word = patch.fulfilledNonce
                                       /\ patch.fulfilledId \in {0, patch.fulfilledNonce},
           NEW out, out = MergedRow(row, patch)
    PROVE  Matches(out.requests)
  <1>1. MergeBecomes(row, patch, out)
    BY MergedBecomes
  <1>2. CASE patch.fulfilledNonce = 0 \/ Recorded(row, patch.fulfilledNonce)
    BY <1>1, <1>2 DEF MergeBecomes
  <1>3. CASE ~(patch.fulfilledNonce = 0 \/ Recorded(row, patch.fulfilledNonce))
    <2>1. PICK nonce, id, word : /\ nonce = patch.fulfilledNonce /\ id = patch.fulfilledId
                                 /\ word = patch.word
      OBVIOUS
    <2>2. out.requests = Upserted(row.requests, nonce, id, word)
      BY <1>1, <1>3, <2>1 DEF MergeBecomes
    <2> QED
      BY <1>3, <2>1, <2>2, UpsertedMatches
  <1> QED
    BY <1>2, <1>3

\* The request a row adds for its own step has no word of its own.
LEMMA RequestsOfMatch ==
    ASSUME NEW row, Matches(row.requests)
    PROVE  Matches(RequestsOf(row))
  BY DEF Matches, RequestsOf

\* With the channels in order the requests of what the layers show match.
LEMMA LayersMatch ==
    ASSUME OpenInv, LayerInv, HeardInv, inOrder, NEW item \in Layers
    PROVE  Matches(item.requests)
  <1>1. CASE item \in Projected
    <2>1. PICK sid \in SessionRowIds :
            item = ProjectedItem(sid, MergedRow(rows[sid], patches[sid]), patches[sid])
      BY <1>1 DEF Projected
    <2>2. PICK row, patch, out :
            row = rows[sid] /\ patch = patches[sid] /\ out = MergedRow(row, patch)
      OBVIOUS
    <2>3. sid \in SessionIds
      BY DEF SessionRowIds
    <2>4. /\ DOMAIN row = RowFields /\ row.settled \in BOOLEAN /\ patch.settled \in BOOLEAN
          /\ out = MergedRow(row, patch)
      BY <2>2, <2>3 DEF LayerInv, LayerTells
    <2>5. Matches(row.requests)
      BY <2>2, <2>3, KnownMatches DEF HeardInv, RowsInv, RowAsks
    <2>6. patch.fulfilledNonce # 0 => /\ patch.word = patch.fulfilledNonce
                                      /\ patch.fulfilledId \in {0, patch.fulfilledNonce}
      BY <2>2, <2>3 DEF HeardInv, PatchesInv, PatchAsks
    <2>7. Matches(out.requests)
      BY <2>4, <2>5, <2>6, MergedRequests
    <2>8. item.requests = RequestsOf(out)
      BY <2>1, <2>2 DEF ProjectedItem
    <2> QED
      BY <2>7, <2>8, RequestsOfMatch
  <1>2. CASE item \in OptimisticItems
    <2> DEFINE Base(o) == [PendingItem(o.request) EXCEPT !.sid = o.sid]
    <2>1. PICK o \in optimistic :
            item = IF o.sid \in {-o.request} \cup SessionRowIds THEN Base(o)
                   ELSE MergedItem(Base(o), patches[o.sid])
      BY <1>2 DEF OptimisticItems
    <2>2. PICK base : base = Base(o)
      OBVIOUS
    <2>3. /\ DOMAIN base = {"sid", "phase", "settled", "state", "payout", "word", "requests"}
          /\ base.requests = <<>>
      BY <2>2 DEF PendingItem
    <2> HIDE DEF Base
    <2>4. \A patch : MergedItem(base, patch).requests = <<>>
      BY <2>3 DEF MergedItem
    <2>5. item.requests = <<>>
      BY <2>1, <2>2, <2>3, <2>4
    <2> QED
      BY <2>5 DEF Matches
  <1> QED
    BY <1>1, <1>2 DEF Layers, MergedItems

\* The reconciler leaves the requests of an item alone.
LEMMA ReconcilerKeepsRequests ==
    ASSUME NEW items, NEW released, NEW known, NEW out,
           out = Reconciled(items, released, known),
           NEW x \in out.items \cup out.settled \cup out.open
    PROVE  \E y \in items \cup known.settled \cup known.open : x.requests = y.requests
  <1> DEFINE Shape(item) == IF item.settled \/ IsTerminalPhase(item.phase)
                            THEN Demoted(item) ELSE item
  <1>1. \A item : Shape(item).requests = item.requests
    BY DEF Demoted
  <1>2. x \in items \cup known.settled \cup known.open \/ \E i \in items : x = Shape(i)
    BY DEF Reconciled
  <1> HIDE DEF Shape
  <1> QED
    BY <1>1, <1>2

\* What is shown or remembered matches.
MatchInv ==
    inOrder => \A x \in pushed.items \cup published.settled \cup published.open :
                   Matches(x.requests)

\* Each step keeps the words with their requests.
LEMMA MatchNextInv ==
    ASSUME SnapInv, MatchInv, [Next]_vars
    PROVE  MatchInv'
  <1>1. OpenInv /\ EventInv /\ LayerInv /\ HeardInv /\ RenderInv /\ PublishedInv
    BY DEF SnapInv
  <1>2. UNCHANGED inOrder
    BY <1>1, LogGrows
  <1>3. CASE UNCHANGED renderVars
    BY <1>2, <1>3 DEF MatchInv, renderVars
  <1>4. CASE Render
    <2> SUFFICES ASSUME inOrder,
                        NEW x \in pushed'.items \cup published'.settled \cup published'.open
                 PROVE  Matches(x.requests)
      BY <1>2 DEF MatchInv
    <2>1. PICK items, released, known, out :
            /\ items = Layers /\ released = Released /\ known = published
            /\ out = Reconciled(items, released, known)
      OBVIOUS
    <2>2. /\ published' = [settled |-> out.settled, open |-> out.open]
          /\ pushed'.items = out.items
      BY <1>4, <2>1 DEF Render, Reconciliation, Layers, Released
    <2>3. x \in out.items \cup out.settled \cup out.open
      BY <2>2
    <2>4. PICK y \in items \cup known.settled \cup known.open : x.requests = y.requests
      BY <2>1, <2>3, ReconcilerKeepsRequests
    <2>5. Matches(y.requests)
      BY <1>1, <2>1, LayersMatch DEF MatchInv
    <2> QED
      BY <2>4, <2>5
  <1> QED
    BY <1>1, <1>3, <1>4, PublishedNextInv

\* Once everything has come in order an item has the requests of its session.
LEMMA ItemAsksAll ==
    ASSUME OpenInv, EventInv, LayerInv, HeardInv, AllCame, inOrder, NEW sid \in OpenedIds
    PROVE  RowItem(sid).requests = Known(Asked(AllHeard(sid)), Answered(AllHeard(sid)))
  <1>1. PICK row, patch, out, heard :
          /\ row = rows[sid] /\ patch = patches[sid] /\ out = MergedRow(row, patch)
          /\ heard = AllHeard(sid)
    OBVIOUS
  <1>2. /\ sid \in SessionIds
        /\ LastEvent(sid).kind = "Settled" => row.settled = TRUE
        /\ LastEvent(sid).kind # "Settled" =>
             patch.settled = FALSE /\ patch.step <= row.step
    BY <1>1, RowTellsLast
  <1>3. /\ RowAsks(row, heard) /\ PatchAsks(patch, heard)
        /\ DOMAIN row = RowFields /\ row.settled \in BOOLEAN /\ patch.settled \in BOOLEAN
    BY <1>1, <1>2 DEF HeardInv, RowsInv, PatchesInv, AllCame, AllHeard, LayerInv, LayerTells
  <1>4. OldNews(row, patch)
    BY <1>2 DEF IsTerminal, OldNews
  <1>5. Answered(heard) \subseteq Asked(heard)
    <2> SUFFICES ASSUME NEW e \in heard, e.word # 0 PROVE e.word \in Asked(heard)
      BY DEF Answered
    <2>1. PICK l \in 1..Len(log) : e = log[l] /\ log[l].sid = sid
      BY <1>1 DEF AllHeard, Heard
    <2>2. PICK p \in Prior(l) : Asks(p) /\ p.step = e.word
      BY <2>1 DEF HeardInv, StepInv, Continues
    <2>3. PICK i \in 1..(l - 1) : p = log[i] /\ log[i].sid = sid
      BY <2>1, <2>2 DEF Prior, Before
    <2>4. i \in 1..Len(log)
      BY OpeningsAreFinite DEF OpenInv
    <2>5. p \in heard
      BY <1>1, <2>3, <2>4 DEF AllHeard, Heard
    <2> QED
      BY <2>2, <2>5 DEF Asked
  <1> DEFINE asked == Asked(heard)
             answered == Answered(heard)
  <1>6. /\ row.requests = Known(asked, answered) /\ row.request \in {0} \cup asked
        /\ answered \subseteq asked
        /\ patch.fulfilledNonce \in {0} \cup answered
    BY <1>3, <1>5 DEF RowAsks, PatchAsks
  <1> HIDE DEF asked, answered
  <1>7. DOMAIN row.requests = asked /\ \A n \in answered : row.requests[n].word = n
    BY <1>6 DEF Known
  <1>8. patch.fulfilledNonce = 0 \/ Recorded(row, patch.fulfilledNonce)
    BY <1>6, <1>7 DEF Recorded
  <1>9. out = row
    BY <1>1, <1>3, <1>4, <1>8, MergedStays
  <1>10. row.requests = <<>> => row.request = 0
    BY <1>6, <1>7
  <1>11. RequestsOf(row) = row.requests
    BY <1>10 DEF RequestsOf
  <1>12. RowItem(sid).requests = RequestsOf(row)
    BY <1>1, <1>9 DEF RowItem, ProjectedItem
  <1> QED
    BY <1>1, <1>6, <1>11, <1>12 DEF asked, answered

\* With the channels in order, the words and request ids of an item belong to
\* the step that asked for them, for the frame verifies each word against its
\* request; and once all is through the item has every request of its session.
\* Code: the nonces kept by recordFulfillment and withFulfillment, and the
\* merge of rows and patches.
THEOREM EveryWordAnswersItsRequest == Spec => []RequestsMatch
  <1>1. Init => MatchInv
    BY DEF Init, MatchInv
  <1>2. SnapInv /\ MatchInv => RequestsMatch
    <2> SUFFICES ASSUME SnapInv, MatchInv, inOrder, NEW item \in pushed.items
                 PROVE  /\ \A n \in DOMAIN item.requests :
                            /\ item.requests[n].word \in {0, n}
                            /\ n # 0 => item.requests[n].id \in {0, n}
                        /\ Quiet => item.requests =
                            [n \in {log[l].step : l \in {k \in 1..Len(log) : log[k].sid = item.sid
                                                             /\ log[k].request}} |->
                               [id |-> n,
                                word |-> IF \E l \in 1..Len(log) : log[l].sid = item.sid /\ log[l].word = n
                                         THEN n ELSE 0]]
      BY DEF RequestsMatch
    <2>1. /\ OpenInv /\ EventInv /\ LayerInv /\ HeardInv
          /\ RenderInv /\ PublishedInv /\ KeptInv
      BY DEF SnapInv
    <2>2. \A n \in DOMAIN item.requests :
            /\ item.requests[n].word \in {0, n}
            /\ n # 0 => item.requests[n].id \in {0, n}
      BY DEF MatchInv, Matches
    <2>3. ASSUME Quiet
          PROVE  item.requests =
                   [n \in {log[l].step : l \in {k \in 1..Len(log) : log[k].sid = item.sid
                                                             /\ log[k].request}} |->
                      [id |-> n,
                       word |-> IF \E l \in 1..Len(log) : log[l].sid = item.sid /\ log[l].word = n
                                THEN n ELSE 0]]
      <3>1. AllCame /\ pushed.items = {RowItem(sid) : sid \in OpenedIds}
        BY <2>1, <2>3, QuietShowsRows
      <3>2. PICK sid \in OpenedIds : item = RowItem(sid)
        BY <3>1
      <3>3. item.sid = sid
        BY <2>1, <3>1, <3>2, ItemTellsLast
      <3>4. item.requests = Known(Asked(AllHeard(sid)), Answered(AllHeard(sid)))
        BY <2>1, <3>1, <3>2, ItemAsksAll
      <3>5. Asked(AllHeard(sid))
              = {log[l].step : l \in {k \in 1..Len(log) : log[k].sid = sid /\ log[k].request}}
        BY DEF Asked, AllHeard, Heard, Asks
      <3>6. \A n : n \in Answered(AllHeard(sid)) <=>
                n # 0 /\ \E l \in 1..Len(log) : log[l].sid = sid /\ log[l].word = n
        BY DEF Answered, AllHeard, Heard
      <3> QED
        BY <3>3, <3>4, <3>5, <3>6 DEF Known
    <2> QED
      BY <2>2, <2>3
  <1>3. SnapInv /\ MatchInv /\ [Next]_vars => SnapInv' /\ MatchInv'
    BY SnapNextInv, MatchNextInv
  <1> QED
    BY <1>1, <1>2, <1>3, SnapInitInv, PTL DEF Spec

-----------------------------------------------------------------------------
(***************************************************************************)
(* With the channels in order and the wallet connected nothing goes back   *)
(***************************************************************************)

\* A bounded set of numbers has a highest one.
LEMMA HighestOfBounded ==
    ASSUME NEW N, NEW b \in Nat, N \subseteq 0..b, N # {}
    PROVE  Max(N) \in N /\ \A n \in N : n <= Max(N)
  <1> DEFINE C == {T \in SUBSET (0..b) : N \subseteq T /\ \E k \in 0..b : T = 0..k}
  <1>1. IsFiniteSet(0..b)
    BY FS_Interval
  <1>2. C \in SUBSET (SUBSET (0..b)) /\ 0..b \in C
    <2>1. C \in SUBSET (SUBSET (0..b))
      BY Zenon
    <2>2. b \in 0..b /\ N \subseteq 0..b /\ 0..b \in SUBSET (0..b)
      OBVIOUS
    <2>3. \E k \in 0..b : 0..b = 0..k
      BY <2>2, Zenon
    <2>4. 0..b \in C
      BY <2>2, <2>3
    <2> HIDE DEF C
    <2> QED
      BY <2>1, <2>4
  <1> HIDE DEF C
  <1>3. PICK T \in C : \A U \in C : ~(U \subseteq T /\ U # T)
    <2>1. PICK S : S = 0..b
      OBVIOUS
    <2>2. IsFiniteSet(S) /\ C \in SUBSET (SUBSET S) /\ C # {}
      BY <1>1, <1>2, <2>1
    <2> QED
      BY <2>2, MinimalSubset
  <1>4. PICK k \in 0..b : T = 0..k
    BY <1>3 DEF C
  <1>5. N \subseteq 0..k
    BY <1>3, <1>4 DEF C
  <1>6. k \in N
    <2> SUFFICES ASSUME k \notin N PROVE FALSE
      OBVIOUS
    <2>1. k # 0
      <3>1. PICK x \in N : x \in 0..k
        BY <1>5
      <3> QED
        BY <3>1
    <2>2. k - 1 \in 0..b /\ N \subseteq 0..(k - 1)
      BY <1>5, <2>1
    <2>3. 0..(k - 1) \in C
      BY <2>2 DEF C
    <2>4. 0..(k - 1) \subseteq T /\ 0..(k - 1) # T
      BY <1>4
    <2> QED
      BY <1>3, <2>3, <2>4
  <1>7. k \in N /\ \A n \in N : k >= n
    BY <1>5, <1>6
  <1>8. Max(N) \in N /\ \A n \in N : Max(N) >= n
    BY <1>7 DEF Max
  <1> QED
    BY <1>8

\* A set of numbers that grows or gets a higher one has no lower highest one.
LEMMA HighestGrows ==
    ASSUME NEW M, NEW N, NEW b \in Nat, M \cup N \subseteq 0..b, M # {},
           \A m \in M : \E n \in N : m <= n
    PROVE  Max(M) <= Max(N) /\ N # {}
  <1>1. N # {}
    OBVIOUS
  <1>2. Max(M) \in M /\ M \subseteq 0..b
    BY HighestOfBounded
  <1>3. Max(N) \in N /\ N \subseteq 0..b /\ \A n \in N : n <= Max(N)
    BY <1>1, HighestOfBounded
  <1>4. PICK n \in N : Max(M) <= n
    BY <1>2
  <1>5. PICK x, y : x = Max(M) /\ y = Max(N)
    OBVIOUS
  <1>6. x \in 0..b /\ n \in 0..b /\ y \in 0..b /\ x <= n /\ n <= y
    BY <1>2, <1>3, <1>4, <1>5
  <1> QED
    BY <1>1, <1>5, <1>6

\* The state and the words that a row shows under its patch.
ShowsState(row, patch) ==
    IF row.settled = TRUE THEN row.state
    ELSE IF patch.settled = TRUE THEN patch.state
    ELSE IF patch.step <= row.step THEN row.state ELSE patch.state

KnownWords(row, patch) ==
    {n \in DOMAIN row.requests : row.requests[n].word # 0}
        \cup ({patch.fulfilledNonce} \ {0})

ShowsWord(row, patch) ==
    IF KnownWords(row, patch) = {} THEN patch.word ELSE Max(KnownWords(row, patch))

\* All that is known in order of the row and the patch of a session.
InOrderSays(row, patch, heard, pushedEvents) ==
    /\ RowSays(row, heard) /\ RowAsks(row, heard) /\ row.settled \in BOOLEAN
    /\ PatchSays(patch, pushedEvents) /\ PatchAsks(patch, pushedEvents)
    /\ patch.settled \in BOOLEAN
    /\ Answered(heard) \subseteq Asked(heard)
    /\ Answered(pushedEvents) \subseteq Asked(pushedEvents)
    /\ \A x \in heard \cup pushedEvents : x.step \in Nat /\ x.word \in Nat

\* The words that are shown, which are bounded.
LEMMA KnownWordsAre ==
    ASSUME NEW row, NEW patch, NEW heard, NEW came, InOrderSays(row, patch, heard, came)
    PROVE  /\ KnownWords(row, patch) = Answered(heard) \cup ({patch.fulfilledNonce} \ {0})
           /\ patch.fulfilledNonce \in {0} \cup Answered(came)
           /\ patch.word \in Nat /\ patch.fulfilledNonce \in Nat
           /\ Answered(heard) \subseteq 0..row.step /\ 0 \notin Answered(heard)
           /\ row.step \in Nat
           /\ KnownWords(row, patch) \subseteq 0..(row.step + patch.fulfilledNonce)
           /\ KnownWords(row, patch) # {} =>
                /\ Max(KnownWords(row, patch)) \in KnownWords(row, patch)
                /\ \A n \in KnownWords(row, patch) : n <= Max(KnownWords(row, patch))
           /\ ShowsWord(row, patch) \in Nat
  <1>1. /\ row.requests = Known(Asked(heard), Answered(heard))
        /\ Answered(heard) \subseteq Asked(heard) /\ 0 \notin Answered(heard)
    BY DEF InOrderSays, RowAsks, Answered
  <1>2. {n \in DOMAIN row.requests : row.requests[n].word # 0} = Answered(heard)
    <2>1. PICK asked, answered, requests :
            asked = Asked(heard) /\ answered = Answered(heard) /\ requests = row.requests
      OBVIOUS
    <2>2. requests = Known(asked, answered) /\ answered \subseteq asked /\ 0 \notin answered
      BY <1>1, <2>1
    <2>3. DOMAIN requests = asked /\ \A n \in asked :
             requests[n].word = IF n \in answered THEN n ELSE 0
      BY <2>2 DEF Known
    <2>4. {n \in DOMAIN requests : requests[n].word # 0} = answered
      BY <2>2, <2>3
    <2> QED
      BY <2>1, <2>4
  <1>3. KnownWords(row, patch) = Answered(heard) \cup ({patch.fulfilledNonce} \ {0})
    BY <1>2 DEF KnownWords
  <1>4. patch.word \in {0} \cup Answered(came)
    BY DEF InOrderSays, PatchAsks
  <1>5. patch.fulfilledNonce \in {0} \cup Answered(came)
    BY <1>4 DEF InOrderSays, PatchAsks
  <1>6. \A a \in Answered(came) : a \in Nat
    BY DEF InOrderSays, Answered
  <1>7. patch.word \in Nat /\ patch.fulfilledNonce \in Nat
    BY <1>4, <1>5, <1>6
  <1>8. row.step \in Nat
    BY DEF InOrderSays, RowSays
  <1>9. Answered(heard) \subseteq 0..row.step
    <2>1. \A a \in Asked(heard) : a \in Nat /\ a <= row.step
      BY DEF InOrderSays, RowAsks, Asked
    <2> QED
      BY <1>1, <1>8, <2>1
  <1>10. PICK k, n, b, N : /\ k = row.step /\ n = patch.fulfilledNonce /\ b = k + n
                          /\ N = KnownWords(row, patch)
    OBVIOUS
  <1>11. N \subseteq 0..b /\ b \in Nat
    BY <1>3, <1>7, <1>8, <1>9, <1>10
  <1>12. N # {} => Max(N) \in N /\ \A x \in N : x <= Max(N)
    BY <1>11, HighestOfBounded
  <1>13. ShowsWord(row, patch) \in Nat
    BY <1>7, <1>10, <1>11, <1>12 DEF ShowsWord
  <1> QED
    BY <1>1, <1>3, <1>5, <1>7, <1>8, <1>9, <1>10, <1>11, <1>12, <1>13

\* What is shown grows.
Grows(a, b) == a \in Nat /\ b \in Nat /\ a <= b

\* More words show a word that is not lower.
LEMMA MoreWords ==
    ASSUME NEW row, NEW patch, NEW heard, NEW came, InOrderSays(row, patch, heard, came),
           NEW row2, NEW patch2, NEW heard2, NEW came2,
           InOrderSays(row2, patch2, heard2, came2),
           \A m \in KnownWords(row, patch) : \E n \in KnownWords(row2, patch2) : m <= n,
           KnownWords(row, patch) = {} => patch.word <= ShowsWord(row2, patch2)
    PROVE  Grows(ShowsWord(row, patch), ShowsWord(row2, patch2))
  <1>1. PICK M, N, b, c : /\ M = KnownWords(row, patch) /\ N = KnownWords(row2, patch2)
                          /\ b = row.step + patch.fulfilledNonce
                          /\ c = row2.step + patch2.fulfilledNonce
    OBVIOUS
  <1>2. M \subseteq 0..b /\ N \subseteq 0..c /\ b \in Nat /\ c \in Nat
    BY <1>1, KnownWordsAre
  <1>3. ShowsWord(row, patch) \in Nat /\ ShowsWord(row2, patch2) \in Nat
    BY KnownWordsAre
  <1>4. CASE M = {}
    BY <1>1, <1>3, <1>4 DEF ShowsWord, Grows
  <1>5. CASE M # {}
    <2>1. PICK d : d = b + c
      OBVIOUS
    <2>2. M \cup N \subseteq 0..d /\ d \in Nat
      BY <1>2, <2>1
    <2>3. Max(M) <= Max(N) /\ N # {}
      BY <1>1, <1>5, <2>2, HighestGrows
    <2>4. ShowsWord(row, patch) = Max(M) /\ ShowsWord(row2, patch2) = Max(N)
      BY <1>1, <1>5, <2>3 DEF ShowsWord
    <2> QED
      BY <1>3, <2>3, <2>4 DEF Grows
  <1> QED
    BY <1>4, <1>5

\* Every word that was pushed is in the row, or is not above the one that the
\* patch is recorded with, or is the only one.
WordsStay(row, patch, heard, came) ==
    \A a \in Answered(came) :
        \/ a \in Answered(heard)
        \/ patch.fulfilledNonce # 0 /\ a <= patch.fulfilledNonce
        \/ patch.fulfilledNonce = 0 /\ a = patch.word

\* What is shown of a row and a patch, and of what they become.
ShowsMore(row, patch, row2, patch2) ==
    /\ Grows(ShowsState(row, patch), ShowsState(row2, patch2))
    /\ Grows(ShowsWord(row, patch), ShowsWord(row2, patch2))

\* An event of the indexed channel.
LEMMA RowShowsMore ==
    ASSUME NEW row, NEW patch, NEW heard, NEW came, InOrderSays(row, patch, heard, came),
           WordsStay(row, patch, heard, came),
           NEW e, WellFormed(e), Continues(e, heard), \A x \in heard : x.kind # "Settled",
           NEW out, RowBecomes(row, e, out), InOrderSays(out, patch, heard \cup {e}, came),
           patch.settled = TRUE => e \in came /\ patch.state \in Nat,
           e.kind = "Settled" => IF patch.settled = TRUE THEN patch.state = e.state
                                                        ELSE patch.step <= e.state
    PROVE  /\ ShowsMore(row, patch, out, patch)
           /\ WordsStay(out, patch, heard \cup {e}, came)
  <1>1. /\ row.settled = FALSE /\ row.step \in Nat /\ patch.step \in Nat
        /\ row.state = row.step /\ patch.settled \in BOOLEAN
        /\ patch.settled = FALSE /\ patch.step # 0 => patch.state = patch.step
        /\ e.step \in Nat
    BY DEF InOrderSays, RowSays, PatchSays, WellFormed
  <1>2. Grows(ShowsState(row, patch), ShowsState(out, patch))
    <2>1. CASE e.kind = "Opened"
      <3>1. out.settled = FALSE /\ out.state = row.state /\ out.step = row.step
        BY <1>1, <2>1 DEF RowBecomes
      <3> QED
        BY <1>1, <3>1 DEF ShowsState, Grows
    <2>2. CASE e.kind = "Advanced"
      <3>1. row.step < e.step /\ e.state = e.step
        BY <1>1, <2>2 DEF Continues, InOrderSays, RowAsks
      <3>2. out.settled = FALSE /\ out.state = e.step /\ out.step = e.step
        BY <1>1, <2>2, <3>1 DEF RowBecomes
      <3> QED
        BY <1>1, <3>1, <3>2 DEF ShowsState, Grows
    <2>3. CASE e.kind = "Settled"
      <3>1. e.state \in Nat /\ row.step <= e.state
        BY <1>1, <2>3 DEF Continues, InOrderSays, RowAsks
      <3>2. out.settled = TRUE /\ out.state = e.state
        BY <2>3 DEF RowBecomes
      <3> QED
        BY <1>1, <2>3, <3>1, <3>2 DEF ShowsState, Grows
    <2> QED
      BY <2>1, <2>2, <2>3 DEF WellFormed
  <1>3. Answered(heard \cup {e}) = Answered(heard) \cup ({e.word} \ {0})
    BY DEF Answered
  <1>4. Grows(ShowsWord(row, patch), ShowsWord(out, patch))
    <2>1. /\ KnownWords(row, patch) = Answered(heard) \cup ({patch.fulfilledNonce} \ {0})
          /\ KnownWords(out, patch)
               = Answered(heard) \cup ({e.word} \ {0}) \cup ({patch.fulfilledNonce} \ {0})
          /\ KnownWords(row, patch) \subseteq 0..(row.step + patch.fulfilledNonce)
      BY <1>3, KnownWordsAre
    <2>2. \A m \in KnownWords(row, patch) : \E n \in KnownWords(out, patch) : m <= n
      BY <2>1
    <2>3. ASSUME KnownWords(row, patch) = {} PROVE patch.word <= ShowsWord(out, patch)
      <3>1. patch.word \in Nat /\ ShowsWord(out, patch) \in Nat
        BY KnownWordsAre
      <3>2. CASE patch.word = 0
        BY <3>1, <3>2
      <3>3. CASE KnownWords(out, patch) = {}
        BY <3>1, <3>3 DEF ShowsWord
      <3>4. CASE patch.word # 0 /\ KnownWords(out, patch) # {}
        <4>1. patch.fulfilledNonce = 0 /\ Answered(heard) = {}
          BY <2>1, <2>3
        <4>2. patch.settled = TRUE
          BY <3>4, <4>1 DEF InOrderSays, PatchAsks
        <4>3. e.word # 0 /\ KnownWords(out, patch) = {e.word}
          BY <2>1, <3>4, <4>1
        <4>4. e.word \in Answered(came)
          BY <4>2, <4>3 DEF Answered
        <4>5. e.word = patch.word
          BY <4>1, <4>4 DEF WordsStay
        <4>6. Max(KnownWords(out, patch)) \in KnownWords(out, patch)
          BY <3>4, KnownWordsAre
        <4>7. ShowsWord(out, patch) = e.word
          BY <3>4, <4>3, <4>6 DEF ShowsWord
        <4> QED
          BY <3>1, <4>5, <4>7
      <3> QED
        BY <3>2, <3>3, <3>4
    <2> QED
      BY <2>2, <2>3, MoreWords
  <1>5. WordsStay(out, patch, heard \cup {e}, came)
    BY <1>3 DEF WordsStay
  <1> QED
    BY <1>2, <1>4, <1>5 DEF ShowsMore

\* An event of the flashblock channel.
LEMMA PatchShowsMore ==
    ASSUME NEW row, NEW patch, NEW heard, NEW came, InOrderSays(row, patch, heard, came),
           WordsStay(row, patch, heard, came),
           NEW e, WellFormed(e), Continues(e, came), \A x \in came : x.kind # "Settled",
           NEW out, PatchBecomes(patch, e, out), InOrderSays(row, out, heard, came \cup {e}),
           row.settled = TRUE => row.state \in Nat,
           e.kind = "Settled" => row.settled = TRUE \/ row.step <= e.state
    PROVE  /\ ShowsMore(row, patch, row, out)
           /\ WordsStay(row, out, heard, came \cup {e})
  <1>1. /\ row.settled \in BOOLEAN /\ row.step \in Nat /\ patch.step \in Nat
        /\ row.settled = FALSE => row.state = row.step
        /\ patch.settled = FALSE
        /\ patch.step # 0 => patch.state = patch.step
        /\ e.step \in Nat
    BY DEF InOrderSays, RowSays, PatchSays, WellFormed
  <1>2. Grows(ShowsState(row, patch), ShowsState(row, out))
    <2>1. CASE e.kind = "Opened"
      <3>1. out = patch
        BY <2>1 DEF PatchBecomes
      <3> QED
        BY <1>1, <3>1 DEF ShowsState, Grows
    <2>2. CASE e.kind = "Advanced"
      <3>1. patch.step < e.step /\ e.state = e.step
        BY <1>1, <2>2 DEF Continues, InOrderSays, PatchSays
      <3>2. out.settled = FALSE /\ out.state = e.step /\ out.step = e.step
        BY <1>1, <2>2, <3>1 DEF PatchBecomes
      <3> QED
        BY <1>1, <3>1, <3>2 DEF ShowsState, Grows
    <2>3. CASE e.kind = "Settled"
      <3>1. e.state \in Nat
        BY <2>3 DEF Continues
      <3>2. patch.step <= e.state
        BY <1>1, <2>3, <3>1 DEF Continues, InOrderSays, PatchSays
      <3>3. out.settled = TRUE /\ out.state = e.state
        BY <1>1, <2>3 DEF PatchBecomes
      <3> QED
        BY <1>1, <2>3, <3>1, <3>2, <3>3 DEF ShowsState, Grows
    <2> QED
      BY <2>1, <2>2, <2>3 DEF WellFormed
  <1>3. Answered(came \cup {e}) = Answered(came) \cup ({e.word} \ {0})
    BY DEF Answered
  <1>4. e.word \in Nat /\ \A a \in Answered(came) : a \in Nat /\ (e.word # 0 => a < e.word)
    BY DEF Continues, InOrderSays, Answered
  <1>5. /\ patch.fulfilledNonce = 0 => patch.word = 0
        /\ patch.fulfilledNonce \in {0} \cup Answered(came)
        /\ patch.word \in Nat /\ patch.fulfilledNonce \in Nat
    BY <1>1, KnownWordsAre DEF InOrderSays, PatchAsks
  <1>6. \/ out.word = patch.word /\ out.fulfilledNonce = patch.fulfilledNonce /\ e.word = 0
        \/ out.word = e.word /\ e.word # 0
           /\ (\/ out.fulfilledNonce = e.word
               \/ out.fulfilledNonce = 0 /\ patch.fulfilledNonce = 0)
    <2>1. CASE out = patch /\ e.kind = "Opened"
      BY <2>1 DEF Continues
    <2>2. CASE e.kind = "Advanced"
      <3>1. patch.step < e.step /\ e.word \in {0, e.step - 1}
        BY <1>1, <2>2 DEF Continues, InOrderSays, PatchSays
      <3> QED
        BY <1>1, <2>2, <3>1 DEF PatchBecomes, FulfillmentSets
    <2>3. CASE e.kind = "Settled"
      <3>1. CASE e.word = 0
        BY <1>1, <2>3, <3>1 DEF PatchBecomes
      <3>2. CASE e.word # 0
        <4>1. /\ out.word = e.word
              /\ out.fulfilledNonce = 0 => patch.fulfilledNonce = 0
          BY <1>1, <2>3, <3>2 DEF PatchBecomes, FulfillmentSets
        <4>2. out.fulfilledNonce # 0 => out.word = out.fulfilledNonce
          BY DEF InOrderSays, PatchAsks
        <4> QED
          BY <3>2, <4>1, <4>2
      <3> QED
        BY <3>1, <3>2
    <2> QED
      BY <2>1, <2>2, <2>3 DEF WellFormed, PatchBecomes
  <1>7. WordsStay(row, out, heard, came \cup {e})
    <2> SUFFICES ASSUME NEW a \in Answered(came) \cup ({e.word} \ {0})
                 PROVE  \/ a \in Answered(heard)
                        \/ out.fulfilledNonce # 0 /\ a <= out.fulfilledNonce
                        \/ out.fulfilledNonce = 0 /\ a = out.word
      BY <1>3 DEF WordsStay
    <2>1. 0 \notin Answered(came)
      BY DEF Answered
    <2>2. CASE a \in Answered(came)
      BY <1>4, <1>5, <1>6, <2>1, <2>2 DEF WordsStay
    <2>3. CASE a = e.word /\ e.word # 0
      BY <1>4, <1>6, <2>3
    <2> QED
      BY <2>2, <2>3
  <1>8. Grows(ShowsWord(row, patch), ShowsWord(row, out))
    <2>1. /\ KnownWords(row, patch) = Answered(heard) \cup ({patch.fulfilledNonce} \ {0})
          /\ KnownWords(row, out) = Answered(heard) \cup ({out.fulfilledNonce} \ {0})
          /\ Answered(heard) \subseteq 0..row.step /\ row.step \in Nat
      BY KnownWordsAre
    <2>2. \A m \in KnownWords(row, patch) : \E n \in KnownWords(row, out) : m <= n
      <3>1. \A m \in Answered(heard) : m <= m /\ m \in KnownWords(row, out)
        BY <2>1
      <3>2. ASSUME patch.fulfilledNonce # 0
            PROVE  \E n \in KnownWords(row, out) : patch.fulfilledNonce <= n
        BY <1>4, <1>5, <1>6, <2>1, <3>2
      <3> QED
        BY <2>1, <3>1, <3>2
    <2>3. ASSUME KnownWords(row, patch) = {} PROVE patch.word <= ShowsWord(row, out)
      <3>1. ShowsWord(row, out) \in Nat
        BY KnownWordsAre
      <3>2. patch.word = 0
        BY <1>5, <2>1, <2>3
      <3> QED
        BY <3>1, <3>2
    <2> QED
      BY <2>2, <2>3, MoreWords
  <1> QED
    BY <1>2, <1>7, <1>8 DEF ShowsMore

\* A patch that is dropped.
LEMMA DroppedShowsSame ==
    ASSUME NEW row, NEW patch, NEW heard, NEW came, InOrderSays(row, patch, heard, came),
           WordsStay(row, patch, heard, came), InOrderSays(row, NoPatch, heard, came),
           CaughtUp(patch, row), ~IsTerminalPhase(row.phase) \/ row.settled = TRUE,
           row.settled = TRUE => row.state \in Nat /\ came \subseteq heard,
           \A a \in Answered(came), n \in Answered(heard) : a <= n => a \in Answered(heard)
    PROVE  /\ ShowsMore(row, patch, row, NoPatch)
           /\ WordsStay(row, NoPatch, heard, came)
  <1>1. /\ row.settled \in BOOLEAN /\ row.step \in Nat /\ patch.step \in Nat
        /\ row.settled = FALSE => row.state = row.step
        /\ patch.settled \in BOOLEAN
    BY DEF InOrderSays, RowSays, PatchSays
  <1>2. /\ patch.step <= row.step /\ (patch.settled = TRUE => row.settled = TRUE)
        /\ patch.fulfilledNonce # 0 => Recorded(row, patch.fulfilledNonce)
    BY <1>1 DEF CaughtUp, IsTerminal
  <1>3. NoPatch.step = 0 /\ NoPatch.settled = FALSE /\ NoPatch.fulfilledNonce = 0
        /\ NoPatch.word = 0
    BY DEF NoPatch
  <1>4. Grows(ShowsState(row, patch), ShowsState(row, NoPatch))
    BY <1>1, <1>2, <1>3 DEF ShowsState, Grows
  <1>5. /\ KnownWords(row, patch) = Answered(heard) \cup ({patch.fulfilledNonce} \ {0})
        /\ KnownWords(row, NoPatch) = Answered(heard)
        /\ Answered(heard) \subseteq 0..row.step
    <2>1. PICK none : none = NoPatch
      OBVIOUS
    <2>2. KnownWords(row, none) = Answered(heard) \cup ({none.fulfilledNonce} \ {0})
      BY <2>1, KnownWordsAre
    <2>3. KnownWords(row, none) = Answered(heard)
      BY <1>3, <2>1, <2>2
    <2> QED
      BY <2>1, <2>3, KnownWordsAre
  <1>6. patch.fulfilledNonce # 0 => patch.fulfilledNonce \in Answered(heard)
    <2>1. patch.fulfilledNonce # 0 => patch.fulfilledNonce \in KnownWords(row, NoPatch)
      BY <1>2 DEF Recorded, KnownWords
    <2> QED
      BY <1>5, <2>1
  <1>7. WordsStay(row, NoPatch, heard, came)
    <2> SUFFICES ASSUME NEW a \in Answered(came) PROVE a \in Answered(heard)
      BY DEF WordsStay
    <2>1. CASE patch.fulfilledNonce # 0 /\ a <= patch.fulfilledNonce
      BY <1>6, <2>1
    <2>2. CASE patch.fulfilledNonce = 0 /\ a = patch.word
      <3>1. patch.word # 0
        BY <2>2 DEF Answered
      <3>2. patch.settled = TRUE
        BY <2>2, <3>1 DEF InOrderSays, PatchAsks
      <3>3. came \subseteq heard
        BY <1>2, <3>2
      <3> QED
        BY <3>3 DEF Answered
    <2> QED
      BY <2>1, <2>2 DEF WordsStay
  <1>8. Grows(ShowsWord(row, patch), ShowsWord(row, NoPatch))
    <2>1. \A m \in KnownWords(row, patch) : m \in KnownWords(row, NoPatch) /\ m <= m
      BY <1>1, <1>5, <1>6
    <2>2. ASSUME KnownWords(row, patch) = {}
          PROVE  patch.word <= ShowsWord(row, NoPatch)
      <3>1. ShowsWord(row, NoPatch) \in Nat /\ patch.word \in {0} \cup Answered(came)
        BY KnownWordsAre DEF InOrderSays, PatchAsks
      <3>2. Answered(heard) = {}
        BY <1>5, <2>2
      <3>3. patch.word \notin Answered(came)
        BY <1>3, <1>7, <3>2 DEF WordsStay, Answered
      <3> QED
        BY <3>1, <3>3
    <2> QED
      BY <2>1, <2>2, MoreWords
  <1> QED
    BY <1>4, <1>7, <1>8 DEF ShowsMore

-----------------------------------------------------------------------------

\* In order a word that came answers a request that came.
LEMMA AnsweredWereAsked ==
    ASSUME StepInv, NEW arrived, Arrives(arrived), inOrder, NEW sid
    PROVE  Answered(Heard(sid, arrived)) \subseteq Asked(Heard(sid, arrived))
  <1> SUFFICES ASSUME NEW e \in Heard(sid, arrived), e.word # 0
               PROVE  e.word \in Asked(Heard(sid, arrived))
    BY DEF Answered
  <1>1. PICK l \in arrived : e = log[l] /\ log[l].sid = sid /\ l \in 1..Len(log)
                            /\ 1..l \subseteq arrived
    BY DEF Heard, Arrives
  <1>2. PICK p \in Prior(l) : Asks(p) /\ p.step = e.word
    BY <1>1 DEF StepInv, Continues
  <1>3. PICK i \in 1..(l - 1) : p = log[i] /\ log[i].sid = sid
    BY <1>1, <1>2 DEF Prior, Before
  <1>4. i \in arrived
    <2>1. i \in 1..l
      BY <1>1, <1>3
    <2> QED
      BY <1>1, <2>1
  <1> QED
    BY <1>2, <1>3, <1>4 DEF Heard, Asked

\* The settlement of a session tells no earlier state than a step of it.
LEMMA SettlementIsHighest ==
    ASSUME OpenInv, EventInv, StepInv,
           NEW l \in 1..Len(log), log[l].kind = "Settled",
           NEW i \in 1..Len(log), log[i].sid = log[l].sid
    PROVE  log[l].state \in Nat /\ log[i].step <= log[l].state
  <1>1. Len(log) \in Nat
    BY OpeningsAreFinite DEF OpenInv
  <1>2. i <= l /\ WellFormed(log[i]) /\ Continues(log[l], Prior(l))
    BY DEF EventInv, StepInv
  <1>3. CASE i = l
    BY <1>2, <1>3 DEF Continues
  <1>4. CASE i # l
    <2>1. i \in 1..(l - 1)
      BY <1>1, <1>2, <1>4
    <2>2. log[i] \in Prior(l)
      BY <2>1 DEF Prior, Before
    <2> QED
      BY <1>2, <2>2 DEF Continues
  <1> QED
    BY <1>3, <1>4

\* In order the row and the patch of a session say what is known of them.
InOrderInv ==
    inOrder => \A sid \in SessionIds :
        InOrderSays(rows[sid], patches[sid], Heard(sid, indexed), Heard(sid, flashed))

\* The invariants of the two layers, taken together for channels in order.
LEMMA InOrderHolds == SnapInv => InOrderInv
  <1> SUFFICES ASSUME SnapInv, inOrder, NEW sid \in SessionIds
               PROVE  InOrderSays(rows[sid], patches[sid],
                                  Heard(sid, indexed), Heard(sid, flashed))
    BY DEF InOrderInv
  <1>1. Arrives(indexed) /\ Arrives(flashed) /\ StepInv /\ EventInv /\ LayerInv
    BY DEF SnapInv, HeardInv, ArriveInv
  <1>2. \A x \in Heard(sid, indexed) \cup Heard(sid, flashed) : x.step \in Nat /\ x.word \in Nat
    BY <1>1, HeardAreEvents
  <1>3. /\ Answered(Heard(sid, indexed)) \subseteq Asked(Heard(sid, indexed))
        /\ Answered(Heard(sid, flashed)) \subseteq Asked(Heard(sid, flashed))
    BY <1>1, AnsweredWereAsked
  <1>4. rows[sid].settled \in BOOLEAN /\ patches[sid].settled \in BOOLEAN
    BY <1>1 DEF LayerInv, LayerTells
  <1> QED
    BY <1>2, <1>3, <1>4 DEF InOrderSays, SnapInv, HeardInv, RowsInv, PatchesInv

\* They hold after a step too.
LEMMA InOrderNext == SnapInv /\ [Next]_vars => InOrderInv'
  <1>1. SnapInv /\ [Next]_vars => SnapInv'
    BY SnapNextInv
  <1>2. SnapInv' => InOrderInv'
    BY InOrderHolds, PTL
  <1> QED
    BY <1>1, <1>2

\* The words that were pushed are those that are shown, or lower.
WordsInv ==
    inOrder => \A sid \in SessionIds :
        WordsStay(rows[sid], patches[sid], Heard(sid, indexed), Heard(sid, flashed))

\* A row or a patch that tells a settlement tells its state.
LEMMA FinalStates ==
    ASSUME OpenInv, EventInv, StepInv, NEW sid, NEW x, Final(sid, x)
    PROVE  /\ x.state \in Nat
           /\ \A l \in 1..Len(log) : log[l].sid = sid => log[l].step <= x.state
           /\ \A l \in 1..Len(log) : log[l].kind = "Settled" /\ log[l].sid = sid =>
                x.state = log[l].state
  <1>1. PICK l \in 1..Len(log) : /\ log[l].kind = "Settled" /\ log[l].sid = sid
                                 /\ x.state = log[l].state
    BY DEF Final
  <1>2. ASSUME NEW m \in 1..Len(log), log[m].kind = "Settled", log[m].sid = sid
        PROVE  x.state = log[m].state
    <2>1. Final(sid, log[m])
      BY <1>2 DEF Final
    <2> QED
      BY <2>1, OneSettlement DEF OpenInv
  <1> QED
    BY <1>1, <1>2, SettlementIsHighest

\* The event that came of a session that has settled is its settlement.
LEMMA SettledHeardAll ==
    ASSUME OpenInv, EventInv, NEW arrived, Arrives(arrived), inOrder, NEW sid,
           NEW e \in Heard(sid, arrived), e.kind = "Settled",
           NEW l \in 1..Len(log), log[l].sid = sid
    PROVE  l \in arrived
  <1>1. PICK i \in arrived : i \in 1..Len(log) /\ e = log[i] /\ log[i].sid = sid
                            /\ 1..i \subseteq arrived
    BY DEF Heard, Arrives
  <1>2. l <= i
    BY <1>1 DEF EventInv
  <1> QED
    BY <1>1, <1>2

\* What a step makes of what is shown of a session.
StepShowsMore(sid) ==
    /\ ShowsMore(rows[sid], patches[sid], rows'[sid], patches'[sid])
    /\ WordsStay(rows'[sid], patches'[sid], Heard(sid, indexed)', Heard(sid, flashed)')

\* What is shown are numbers.
LEMMA ShowsSame ==
    ASSUME SnapInv, InOrderInv, inOrder, NEW sid \in SessionIds
    PROVE  /\ ShowsMore(rows[sid], patches[sid], rows[sid], patches[sid])
           /\ rows[sid].settled = TRUE => Final(sid, rows[sid]) /\ rows[sid].state \in Nat
           /\ patches[sid].settled = TRUE =>
                Final(sid, patches[sid]) /\ patches[sid].state \in Nat
  <1>1. PICK row, patch, heard, came :
          /\ row = rows[sid] /\ patch = patches[sid]
          /\ heard = Heard(sid, indexed) /\ came = Heard(sid, flashed)
    OBVIOUS
  <1>2. InOrderSays(row, patch, heard, came)
    BY <1>1 DEF InOrderInv
  <1>3. /\ row.settled = TRUE => Final(sid, row)
        /\ patch.settled = TRUE => Final(sid, patch)
    BY <1>1 DEF SnapInv, LayerInv, LayerTells
  <1>4. OpenInv /\ EventInv /\ StepInv
    BY DEF SnapInv, HeardInv
  <1>5. /\ row.settled = TRUE => row.state \in Nat
        /\ patch.settled = TRUE => patch.state \in Nat
    BY <1>3, <1>4, FinalStates
  <1>6. ShowsState(row, patch) \in Nat
    <2>1. /\ row.step \in Nat /\ row.settled \in BOOLEAN /\ patch.settled \in BOOLEAN
          /\ row.settled = FALSE => row.state = row.step
          /\ patch.step \in Nat
          /\ patch.settled = FALSE /\ patch.step # 0 => patch.state = patch.step
      BY <1>2 DEF InOrderSays, RowSays, PatchSays
    <2> QED
      BY <1>5, <2>1 DEF ShowsState
  <1>7. ShowsWord(row, patch) \in Nat
    BY <1>2, KnownWordsAre
  <1> QED
    BY <1>1, <1>3, <1>5, <1>6, <1>7 DEF ShowsMore, Grows

\* A log comes on the indexed channel.
LEMMA IndexShowsMore ==
    ASSUME SnapInv, InOrderInv, InOrderInv', WordsInv, inOrder, inOrder',
           NEW l \in 1..Len(log), Index(l), NEW sid \in SessionIds
    PROVE  StepShowsMore(sid)
  <1>0. /\ OpenInv /\ LogInv /\ EventInv /\ LayerInv /\ StepInv /\ Arrives(indexed)
        /\ Arrives(flashed)
    BY DEF SnapInv, OpenInv, HeardInv, ArriveInv
  <1>1. PICK row, patch, heard, came, e :
          /\ row = rows[sid] /\ patch = patches[sid] /\ e = log[l]
          /\ heard = Heard(sid, indexed) /\ came = Heard(sid, flashed)
    OBVIOUS
  <1>2. /\ MayArrive(l, indexed) /\ indexed' = indexed \cup {l} /\ patches' = patches
        /\ log' = log /\ flashed' = flashed
        /\ rows' = [rows EXCEPT ![log[l].sid] = Evolve(@, log[l])]
    BY DEF Index, chainVars
  <1>3. /\ InOrderSays(row, patch, heard, came) /\ WordsStay(row, patch, heard, came)
        /\ came = Heard(sid, flashed)' /\ patch = patches'[sid]
    BY <1>1, <1>2 DEF InOrderInv, WordsInv, Heard
  <1>4. /\ Heard(sid, indexed)' = IF sid = e.sid THEN heard \cup {e} ELSE heard
        /\ sid = e.sid => heard = Prior(l)
    <2>1. Heard(sid, indexed)' = Heard(sid, indexed \cup {l})
      BY <1>2 DEF Heard
    <2>2. PICK arrived : arrived = indexed
      OBVIOUS
    <2>3. LogInv /\ Arrives(arrived) /\ MayArrive(l, arrived)
      BY <1>0, <1>2, <2>2
    <2>4. /\ Heard(sid, arrived \cup {l}) =
               IF sid = log[l].sid THEN Heard(sid, arrived) \cup {log[l]}
                                   ELSE Heard(sid, arrived)
          /\ Heard(log[l].sid, arrived) = Prior(l)
      BY <2>3, HeardGrows, ZenonT(60)
    <2>5. PICK s : s = log[l].sid
      OBVIOUS
    <2>6. /\ Heard(sid, indexed)' = IF sid = s THEN heard \cup {e} ELSE heard
          /\ sid = s => heard = Prior(l)
      BY <1>1, <2>1, <2>2, <2>4, <2>5
    <2> QED
      BY <1>1, <2>5, <2>6
  <1>5. CASE sid # e.sid
    <2>1. rows'[sid] = row
      BY <1>0, <1>1, <1>2, <1>5 DEF LayerInv
    <2>2. ShowsMore(row, patch, row, patch)
      BY <1>1, ShowsSame
    <2> QED
      BY <1>1, <1>3, <1>4, <1>5, <2>1, <2>2 DEF StepShowsMore
  <1>6. CASE sid = e.sid
    <2>1. PICK out : out = rows'[sid]
      OBVIOUS
    <2>2. out = Evolve(row, e) /\ DOMAIN row = RowFields /\ row.settled \in BOOLEAN
      BY <1>0, <1>1, <1>2, <1>6, <2>1 DEF LayerInv, LayerTells
    <2>3. WellFormed(e) /\ Continues(e, heard) /\ \A x \in heard : x.kind # "Settled"
      BY <1>0, <1>1, <1>4, <1>6, NothingAfterSettled DEF EventInv, StepInv
    <2>4. RowBecomes(row, e, out)
      BY <2>2, <2>3, EvolveBecomes DEF WellFormed
    <2>5. InOrderSays(out, patch, heard \cup {e}, came)
      BY <1>3, <1>4, <1>6, <2>1 DEF InOrderInv
    <2>6. patch.settled = TRUE =>
            /\ e \in came /\ patch.state \in Nat
            /\ e.kind = "Settled" => patch.state = e.state
      <3> SUFFICES ASSUME patch.settled = TRUE
                   PROVE  /\ e \in came /\ patch.state \in Nat
                          /\ e.kind = "Settled" => patch.state = e.state
        OBVIOUS
      <3>1. Final(sid, patch) /\ patch.state \in Nat
        BY <1>1, ShowsSame
      <3>2. e.kind = "Settled" => patch.state = e.state
        BY <1>0, <1>1, <1>6, <3>1, FinalStates
      <3>3. PICK x \in came : x.kind = "Settled"
        BY <1>3 DEF InOrderSays, PatchSays
      <3>4. l \in flashed
        BY <1>0, <1>1, <1>6, <3>3, SettledHeardAll
      <3> QED
        BY <1>1, <1>6, <3>1, <3>2, <3>4 DEF Heard
    <2>7. e.kind = "Settled" => patch.step <= e.state
      <3> SUFFICES ASSUME e.kind = "Settled" PROVE patch.step <= e.state
        OBVIOUS
      <3>1. e.state \in Nat /\ patch.step \in Nat
        BY <1>3, <2>3 DEF Continues, InOrderSays, PatchSays
      <3>2. CASE patch.step # 0
        <4>1. PICK x \in came : x.step = patch.step
          BY <1>3, <3>2 DEF InOrderSays, PatchSays
        <4>2. PICK i \in 1..Len(log) : x = log[i] /\ log[i].sid = sid
          BY <1>0, <1>1, <4>1 DEF Heard, Arrives
        <4>3. log[i].sid = log[l].sid /\ log[l].kind = "Settled"
          BY <1>1, <1>6, <4>2
        <4> QED
          BY <1>0, <1>1, <4>1, <4>2, <4>3, SettlementIsHighest
      <3> QED
        BY <3>1, <3>2
    <2>8. e.kind = "Settled" => IF patch.settled = TRUE THEN patch.state = e.state
                                                        ELSE patch.step <= e.state
      BY <2>6, <2>7
    <2>9. /\ ShowsMore(row, patch, out, patch)
          /\ WordsStay(out, patch, heard \cup {e}, came)
      BY <1>3, <2>3, <2>4, <2>5, <2>6, <2>8, RowShowsMore
    <2> QED
      BY <1>1, <1>3, <1>4, <1>6, <2>1, <2>9 DEF StepShowsMore
  <1> QED
    BY <1>5, <1>6

\* A log comes on the flashblock channel.
LEMMA FlashShowsMore ==
    ASSUME SnapInv, InOrderInv, InOrderInv', WordsInv, inOrder, inOrder',
           NEW l \in 1..Len(log), Flash(l), NEW sid \in SessionIds
    PROVE  StepShowsMore(sid)
  <1>0. /\ OpenInv /\ LogInv /\ EventInv /\ LayerInv /\ StepInv /\ Arrives(indexed)
        /\ Arrives(flashed)
    BY DEF SnapInv, OpenInv, HeardInv, ArriveInv
  <1>1. PICK row, patch, heard, came, e :
          /\ row = rows[sid] /\ patch = patches[sid] /\ e = log[l]
          /\ heard = Heard(sid, indexed) /\ came = Heard(sid, flashed)
    OBVIOUS
  <1>2. /\ MayArrive(l, flashed) /\ flashed' = flashed \cup {l} /\ rows' = rows
        /\ log' = log /\ indexed' = indexed
        /\ patches' = [patches EXCEPT ![log[l].sid] = Patched(@, log[l])]
    BY DEF Flash, chainVars
  <1>3. /\ InOrderSays(row, patch, heard, came) /\ WordsStay(row, patch, heard, came)
        /\ heard = Heard(sid, indexed)' /\ row = rows'[sid]
    BY <1>1, <1>2 DEF InOrderInv, WordsInv, Heard
  <1>4. /\ Heard(sid, flashed)' = IF sid = e.sid THEN came \cup {e} ELSE came
        /\ sid = e.sid => came = Prior(l)
    <2>1. Heard(sid, flashed)' = Heard(sid, flashed \cup {l})
      BY <1>2 DEF Heard
    <2>2. PICK arrived : arrived = flashed
      OBVIOUS
    <2>3. LogInv /\ Arrives(arrived) /\ MayArrive(l, arrived)
      BY <1>0, <1>2, <2>2
    <2>4. /\ Heard(sid, arrived \cup {l}) =
               IF sid = log[l].sid THEN Heard(sid, arrived) \cup {log[l]}
                                   ELSE Heard(sid, arrived)
          /\ Heard(log[l].sid, arrived) = Prior(l)
      BY <2>3, HeardGrows, ZenonT(60)
    <2>5. PICK s : s = log[l].sid
      OBVIOUS
    <2>6. /\ Heard(sid, flashed)' = IF sid = s THEN came \cup {e} ELSE came
          /\ sid = s => came = Prior(l)
      BY <1>1, <2>1, <2>2, <2>4, <2>5
    <2> QED
      BY <1>1, <2>5, <2>6
  <1>5. CASE sid # e.sid
    <2>1. patches'[sid] = patch
      BY <1>0, <1>1, <1>2, <1>5 DEF LayerInv
    <2>2. ShowsMore(row, patch, row, patch)
      BY <1>1, ShowsSame
    <2> QED
      BY <1>1, <1>3, <1>4, <1>5, <2>1, <2>2 DEF StepShowsMore
  <1>6. CASE sid = e.sid
    <2>1. PICK out : out = patches'[sid]
      OBVIOUS
    <2>2. out = Patched(patch, e) /\ DOMAIN patch = PatchFields /\ patch.settled \in BOOLEAN
      BY <1>0, <1>1, <1>2, <1>6, <2>1 DEF LayerInv, LayerTells
    <2>3. WellFormed(e) /\ Continues(e, came) /\ \A x \in came : x.kind # "Settled"
      BY <1>0, <1>1, <1>4, <1>6, NothingAfterSettled DEF EventInv, StepInv
    <2>4. PatchBecomes(patch, e, out)
      BY <2>2, <2>3, PatchedBecomes DEF WellFormed
    <2>5. InOrderSays(row, out, heard, came \cup {e})
      BY <1>3, <1>4, <1>6, <2>1 DEF InOrderInv
    <2>6. row.settled = TRUE => row.state \in Nat
      BY <1>1, ShowsSame
    <2>7. e.kind = "Settled" => row.settled = TRUE \/ row.step <= e.state
      <3> SUFFICES ASSUME e.kind = "Settled", row.settled = FALSE PROVE row.step <= e.state
        BY <1>3 DEF InOrderSays
      <3>1. e.state \in Nat /\ row.step \in Nat
        BY <1>3, <2>3 DEF Continues, InOrderSays, RowSays
      <3>2. CASE row.step # 0
        <4>1. PICK x \in heard : x.step = row.step
          BY <1>3, <3>2 DEF InOrderSays, RowAsks
        <4>2. PICK i \in 1..Len(log) : x = log[i] /\ log[i].sid = sid
          BY <1>0, <1>1, <4>1 DEF Heard, Arrives
        <4>3. log[i].sid = log[l].sid /\ log[l].kind = "Settled"
          BY <1>1, <1>6, <3>1, <4>2
        <4> QED
          BY <1>0, <1>1, <4>1, <4>2, <4>3, SettlementIsHighest
      <3> QED
        BY <3>1, <3>2
    <2>8. /\ ShowsMore(row, patch, row, out)
          /\ WordsStay(row, out, heard, came \cup {e})
      BY <1>3, <2>3, <2>4, <2>5, <2>6, <2>7, PatchShowsMore
    <2> QED
      BY <1>1, <1>3, <1>4, <1>6, <2>1, <2>8 DEF StepShowsMore
  <1> QED
    BY <1>5, <1>6

\* In order the words go up, so that those before one that came have come.
LEMMA EarlierWordsCame ==
    ASSUME OpenInv, StepInv, inOrder, NEW sid, NEW some, NEW arrived,
           Arrives(some), Arrives(arrived),
           NEW a \in Answered(Heard(sid, some)), NEW n \in Answered(Heard(sid, arrived)), a <= n
    PROVE  a \in Answered(Heard(sid, arrived))
  <1>1. Len(log) \in Nat
    BY OpeningsAreFinite DEF OpenInv
  <1>2. PICK i \in 1..Len(log) : log[i].sid = sid /\ log[i].word = a /\ a # 0
    BY DEF Answered, Heard, Arrives
  <1>3. PICK j \in 1..Len(log) : log[j].sid = sid /\ log[j].word = n /\ 1..j \subseteq arrived
    BY DEF Answered, Heard, Arrives
  <1>4. Continues(log[i], Prior(i)) /\ Continues(log[j], Prior(j))
    BY DEF StepInv
  <1>5. a \in Nat /\ n \in Nat
    BY <1>2, <1>3, <1>4 DEF Continues
  <1>6. i <= j
    <2> SUFFICES ASSUME ~(i <= j) PROVE FALSE
      OBVIOUS
    <2>1. j \in 1..(i - 1)
      BY <1>1
    <2>2. log[j] \in Prior(i)
      BY <1>2, <1>3, <2>1 DEF Prior, Before
    <2>3. log[j].word < a
      BY <1>2, <1>4, <2>2 DEF Continues
    <2> QED
      BY <1>3, <1>5, <2>3
  <1>7. i \in arrived
    <2>1. i \in 1..j
      BY <1>1, <1>6
    <2> QED
      BY <1>3, <2>1
  <1> QED
    BY <1>2, <1>7 DEF Answered, Heard

\* A render, which may drop a patch.
LEMMA RenderShowsMore ==
    ASSUME SnapInv, InOrderInv, InOrderInv', WordsInv, inOrder, inOrder',
           Render, NEW sid \in SessionIds
    PROVE  StepShowsMore(sid)
  <1>0. /\ OpenInv /\ EventInv /\ LayerInv /\ StepInv /\ Arrives(indexed) /\ Arrives(flashed)
    BY DEF SnapInv, HeardInv, ArriveInv
  <1>1. PICK row, patch, heard, came, none :
          /\ row = rows[sid] /\ patch = patches[sid] /\ none = patches'[sid]
          /\ heard = Heard(sid, indexed) /\ came = Heard(sid, flashed)
    OBVIOUS
  <1>2. /\ row = rows'[sid] /\ heard = Heard(sid, indexed)' /\ came = Heard(sid, flashed)'
        /\ none = patch \/ (none = NoPatch /\ CaughtUp(patch, row))
    BY <1>1 DEF Render, chainVars, Heard
  <1>3. InOrderSays(row, patch, heard, came) /\ WordsStay(row, patch, heard, came)
    BY <1>1 DEF InOrderInv, WordsInv
  <1>4. CASE none = patch
    <2>1. ShowsMore(row, patch, row, patch)
      BY <1>1, ShowsSame
    <2> QED
      BY <1>1, <1>2, <1>3, <1>4, <2>1 DEF StepShowsMore
  <1>5. CASE none = NoPatch /\ CaughtUp(patch, row)
    <2>1. InOrderSays(row, NoPatch, heard, came)
      BY <1>1, <1>2, <1>5 DEF InOrderInv
    <2>2. ~IsTerminalPhase(row.phase) \/ row.settled = TRUE
      BY <1>0, <1>1 DEF LayerInv, LayerTells
    <2>3. row.settled = TRUE => row.state \in Nat /\ came \subseteq heard
      <3> SUFFICES ASSUME row.settled = TRUE PROVE row.state \in Nat /\ came \subseteq heard
        OBVIOUS
      <3>1. row.state \in Nat
        BY <1>1, ShowsSame
      <3>2. PICK e \in heard : e.kind = "Settled"
        BY <1>3 DEF InOrderSays, RowSays
      <3>3. ASSUME NEW x \in came PROVE x \in heard
        <4>1. PICK l \in 1..Len(log) : x = log[l] /\ log[l].sid = sid
          BY <1>0, <1>1 DEF Heard, Arrives
        <4>2. l \in indexed
          BY <1>0, <1>1, <3>2, <4>1, SettledHeardAll
        <4> QED
          BY <1>1, <4>1, <4>2 DEF Heard
      <3> QED
        BY <3>1, <3>3
    <2>4. \A a \in Answered(came), n \in Answered(heard) : a <= n => a \in Answered(heard)
      BY <1>0, <1>1, EarlierWordsCame
    <2>5. ShowsMore(row, patch, row, NoPatch) /\ WordsStay(row, NoPatch, heard, came)
      BY <1>3, <1>5, <2>1, <2>2, <2>3, <2>4, DroppedShowsSame
    <2> QED
      BY <1>1, <1>2, <1>5, <2>5 DEF StepShowsMore
  <1> QED
    BY <1>2, <1>4, <1>5

\* In order what is known of a session never shows less than before.
LEMMA EveryStepShowsMore ==
    ASSUME SnapInv, WordsInv, [Next]_vars, inOrder
    PROVE  \A sid \in SessionIds : StepShowsMore(sid)
  <1> SUFFICES ASSUME NEW sid \in SessionIds PROVE StepShowsMore(sid)
    OBVIOUS
  <1>1. InOrderInv /\ InOrderInv' /\ OpenInv /\ Arrives(indexed) /\ Arrives(flashed)
    BY InOrderHolds, InOrderNext DEF SnapInv, HeardInv, ArriveInv
  <1>2. /\ Len(log) \in Nat /\ Len(log') \in Nat /\ Len(log') >= Len(log)
        /\ \A l \in 1..Len(log) : log'[l] = log[l]
        /\ UNCHANGED inOrder
    BY <1>1, LogGrows
  <1>3. inOrder'
    BY <1>2
  <1>4. CASE UNCHANGED <<indexed, flashed, rows, patches>>
    <2>1. PICK row, patch, heard, came, known, heardNow :
            /\ row = rows[sid] /\ patch = patches[sid]
            /\ heard = Heard(sid, indexed) /\ came = Heard(sid, flashed)
            /\ known = indexed /\ heardNow = flashed
      OBVIOUS
    <2>2. known = indexed' /\ heardNow = flashed' /\ row = rows'[sid] /\ patch = patches'[sid]
      BY <1>4, <2>1
    <2>3. Arrives(known) /\ Arrives(heardNow)
      BY <1>1, <2>1
    <2>4. Heard(sid, known)' = Heard(sid, known) /\ Heard(sid, heardNow)' = Heard(sid, heardNow)
      BY <1>2, <2>3, HeardStays
    <2>5. Heard(sid, indexed)' = heard /\ Heard(sid, flashed)' = came
      BY <2>1, <2>2, <2>4 DEF Heard
    <2>6. ShowsMore(row, patch, row, patch)
      BY <1>1, <2>1, ShowsSame
    <2>7. WordsStay(row, patch, heard, came)
      BY <2>1 DEF WordsInv
    <2> QED
      BY <2>1, <2>2, <2>5, <2>6, <2>7 DEF StepShowsMore
  <1>5. ASSUME NEW l \in 1..Len(log), Index(l) PROVE StepShowsMore(sid)
    BY <1>1, <1>3, <1>5, IndexShowsMore
  <1>6. ASSUME NEW l \in 1..Len(log), Flash(l) PROVE StepShowsMore(sid)
    BY <1>1, <1>3, <1>6, FlashShowsMore
  <1>7. CASE Render
    BY <1>1, <1>3, <1>7, RenderShowsMore
  <1> QED
    BY <1>4, <1>5, <1>6, <1>7 DEF Next, Step, vars, MineOpen, MineForeignOpen,
       MineStep, OpenSession, Accept, Receipt, Fail, ToggleWallet

\* WordsInv is inductive.
LEMMA WordsNextInv ==
    ASSUME SnapInv, WordsInv, [Next]_vars
    PROVE  WordsInv'
  <1>1. UNCHANGED inOrder
    BY LogGrows DEF SnapInv
  <1>2. inOrder => \A sid \in SessionIds : StepShowsMore(sid)
    BY EveryStepShowsMore
  <1> QED
    BY <1>1, <1>2 DEF WordsInv, StepShowsMore

\* No word was pushed yet.
LEMMA WordsInitInv == Init => WordsInv
  <1> SUFFICES ASSUME Init, NEW sid \in SessionIds
               PROVE  WordsStay(rows[sid], patches[sid], Heard(sid, indexed), Heard(sid, flashed))
    BY DEF WordsInv
  <1>1. \A l \in 1..Len(log) : log[l].word = 0
    <2>1. log = <<>> \/ \E phase \in WaitingPhases : log = <<Opened(1), Advanced(1, 1, phase, 0)>>
      BY DEF Init, Histories
    <2>2. CASE log = <<>>
      BY <2>2
    <2>3. ASSUME NEW phase \in WaitingPhases, log = <<Opened(1), Advanced(1, 1, phase, 0)>>
          PROVE  \A l \in 1..Len(log) : log[l].word = 0
      <3>1. PICK d, e : d = Opened(1) /\ e = Advanced(1, 1, phase, 0)
        OBVIOUS
      <3>2. d.word = 0 /\ e.word = 0
        BY <3>1, OpenedFields, AdvancedFields
      <3>3. log = <<d, e>>
        BY <2>3, <3>1
      <3> QED
        BY <3>2, <3>3
    <2> QED
      BY <2>1, <2>2, <2>3
  <1>2. flashed = 1..Len(log)
    BY DEF Init
  <1>3. Answered(Heard(sid, flashed)) = {}
    BY <1>1, <1>2 DEF Answered, Heard
  <1> QED
    BY <1>3 DEF WordsStay

\* The item of a row shows the state and the word of the row under its patch.
LEMMA ItemShows ==
    ASSUME LayerInv, InOrderInv, inOrder, NEW sid \in SessionIds
    PROVE  /\ RowItem(sid).sid = sid
           /\ RowItem(sid).state = ShowsState(rows[sid], patches[sid])
           /\ RowItem(sid).word = ShowsWord(rows[sid], patches[sid])
  <1>0. PICK row, patch, heard, came, out, item :
          /\ row = rows[sid] /\ patch = patches[sid] /\ out = MergedRow(row, patch)
          /\ item = RowItem(sid)
          /\ heard = Heard(sid, indexed) /\ came = Heard(sid, flashed)
    OBVIOUS
  <1>1. /\ InOrderSays(row, patch, heard, came)
        /\ DOMAIN row = RowFields /\ row.settled \in BOOLEAN /\ patch.settled \in BOOLEAN
        /\ row.settled = FALSE => ~IsTerminalPhase(row.phase)
    BY <1>0 DEF InOrderInv, LayerInv, LayerTells
  <1>2. MergeBecomes(row, patch, out)
    BY <1>0, <1>1, MergedBecomes
  <1>3. item.sid = sid /\ item.state = out.state
    BY <1>0 DEF RowItem, ProjectedItem
  <1>4. out.state = ShowsState(row, patch)
    <2>1. CASE row.settled = TRUE
      <3>1. IsTerminal(row)
        BY <2>1 DEF IsTerminal
      <3> QED
        BY <1>2, <2>1, <3>1 DEF MergeBecomes, ShowsState
    <2>2. CASE row.settled = FALSE
      <3>1. ~IsTerminal(row)
        BY <1>1, <2>2 DEF IsTerminal
      <3> QED
        BY <1>1, <1>2, <2>2, <3>1 DEF MergeBecomes, ShowsState
    <2> QED
      BY <1>1, <2>1, <2>2
  <1>5. /\ patch.fulfilledNonce # 0 => patch.word = patch.fulfilledNonce
                                       /\ patch.fulfilledId \in {0, patch.fulfilledNonce}
        /\ Matches(row.requests)
    BY <1>1, KnownMatches DEF InOrderSays, PatchAsks, RowAsks
  <1>6. Matches(out.requests)
    BY <1>0, <1>1, <1>5, MergedRequests
  <1>7. {n \in DOMAIN out.requests : out.requests[n].word # 0} = KnownWords(row, patch)
    <2>1. PICK nonce, word, before, after, id :
            /\ nonce = patch.fulfilledNonce /\ word = patch.word /\ id = patch.fulfilledId
            /\ before = row.requests /\ after = out.requests
      OBVIOUS
    <2>2. CASE nonce = 0 \/ Recorded(row, nonce)
      <3>1. after = before
        BY <1>2, <2>1, <2>2 DEF MergeBecomes
      <3>2. nonce = 0 \/ (nonce \in DOMAIN before /\ before[nonce].word # 0)
        BY <2>1, <2>2 DEF Recorded
      <3> QED
        BY <2>1, <3>1, <3>2 DEF KnownWords
    <2>3. CASE nonce # 0 /\ ~Recorded(row, nonce)
      <3>1. after = Upserted(before, nonce, id, word)
        BY <1>2, <2>1, <2>3 DEF MergeBecomes
      <3>2. /\ ~(nonce \in DOMAIN before /\ before[nonce].word # 0)
            /\ word # 0
        BY <1>5, <2>1, <2>3 DEF Recorded
      <3>3. /\ DOMAIN after = DOMAIN before \cup {nonce}
            /\ \A n \in DOMAIN before \ {nonce} : after[n] = before[n]
            /\ after[nonce].word = word
        BY <3>1, <3>2 DEF Upserted
      <3>4. {n \in DOMAIN after : after[n].word # 0}
              = {n \in DOMAIN before : before[n].word # 0} \cup {nonce}
        BY <3>2, <3>3
      <3> QED
        BY <2>1, <2>3, <3>4 DEF KnownWords
    <2> QED
      BY <2>2, <2>3
  <1>8. item.word = ShowsWord(row, patch)
    <2>1. PICK words, requests : words = KnownWords(row, patch) /\ requests = out.requests
      OBVIOUS
    <2>2. item.word = IF words = {} THEN patch.word ELSE requests[Max(words)].word
      BY <1>0, <1>7, <2>1 DEF RowItem, ProjectedItem
    <2>3. words # {} => Max(words) \in words
      BY <1>1, <2>1, KnownWordsAre
    <2>4. \A n \in words : requests[n].word = n
      BY <1>6, <1>7, <2>1 DEF Matches
    <2>5. words # {} => requests[Max(words)].word = Max(words)
      BY <2>3, <2>4
    <2> QED
      BY <2>1, <2>2, <2>5 DEF ShowsWord
  <1> QED
    BY <1>0, <1>3, <1>4, <1>8

\* A row that shows no phase has no step and no word.
LEMMA IdleShowsNothing ==
    ASSUME EventInv, LayerInv, InOrderInv, Arrives(indexed), inOrder, NEW sid \in SessionIds,
           RowItem(sid).phase = "NONE"
    PROVE  ShowsState(rows[sid], patches[sid]) = 0 /\ ShowsWord(rows[sid], patches[sid]) = 0
  <1>0. PICK row, patch, heard, came, out :
          /\ row = rows[sid] /\ patch = patches[sid] /\ out = MergedRow(row, patch)
          /\ heard = Heard(sid, indexed) /\ came = Heard(sid, flashed)
    OBVIOUS
  <1>1. /\ InOrderSays(row, patch, heard, came)
        /\ DOMAIN row = RowFields /\ row.settled \in BOOLEAN /\ patch.settled \in BOOLEAN
        /\ row.settled = FALSE => ~IsTerminalPhase(row.phase)
        /\ row.settled = TRUE => Final(sid, row)
        /\ patch.settled = TRUE => Final(sid, patch)
    BY <1>0 DEF InOrderInv, LayerInv, LayerTells
  <1>2. MergeBecomes(row, patch, out) /\ out.phase = "NONE"
    BY <1>0, <1>1, MergedBecomes DEF RowItem, ProjectedItem
  <1>3. ASSUME NEW x, Final(sid, x) PROVE x.phase # "NONE"
    BY <1>3 DEF Final, EventInv, WellFormed, IsTerminalPhase
  <1>4. row.settled = FALSE
    <2>1. row.settled = TRUE => IsTerminal(row)
      BY DEF IsTerminal
    <2> QED
      BY <1>1, <1>2, <1>3, <2>1 DEF MergeBecomes
  <1>5. ~IsTerminal(row)
    BY <1>1, <1>4 DEF IsTerminal
  <1>6. patch.settled = FALSE
    BY <1>1, <1>2, <1>3, <1>5 DEF MergeBecomes
  <1>7. patch.step \in Nat /\ row.step \in Nat
        /\ (patch.step # 0 => patch.phase \in WaitingPhases)
    BY <1>1, <1>6 DEF InOrderSays, PatchSays, RowSays
  <1>8. patch.step <= row.step /\ row.phase = "NONE"
    <2>1. patch.step # 0 => patch.phase # "NONE"
      BY <1>7 DEF WaitingPhases
    <2>2. patch.step <= row.step
      <3> SUFFICES ASSUME ~(patch.step <= row.step) PROVE FALSE
        OBVIOUS
      <3>1. patch.step # 0
        BY <1>7
      <3>2. out.phase = patch.phase
        BY <1>2, <1>5, <1>6 DEF MergeBecomes
      <3> QED
        BY <1>2, <2>1, <3>1, <3>2
    <2>3. out.phase = row.phase
      BY <1>2, <1>5, <1>6, <2>2 DEF MergeBecomes
    <2> QED
      BY <1>2, <2>2, <2>3
  <1>9. row.step = 0 /\ row.state = 0
    <2>1. ASSUME NEW e \in heard, e.kind = "Advanced" PROVE e.phase # "NONE"
      <3>1. PICK l \in 1..Len(log) : e = log[l]
        BY <1>0, <2>1 DEF Heard, Arrives
      <3> QED
        BY <2>1, <3>1 DEF EventInv, WellFormed, WaitingPhases
    <2> QED
      BY <1>1, <1>4, <1>8, <2>1 DEF InOrderSays, RowSays
  <1>10. patch.step = 0
    BY <1>7, <1>8, <1>9
  <1>11. patch.fulfilledNonce = 0 /\ patch.word = 0
    BY <1>1, <1>6, <1>10 DEF InOrderSays, PatchAsks
  <1>12. KnownWords(row, patch) = {}
    <2>1. /\ KnownWords(row, patch) = Answered(heard) \cup ({patch.fulfilledNonce} \ {0})
          /\ Answered(heard) \subseteq 0..row.step /\ 0 \notin Answered(heard)
      BY <1>1, KnownWordsAre
    <2> QED
      BY <1>9, <1>11, <2>1
  <1>13. ShowsState(row, patch) = 0 /\ ShowsWord(row, patch) = 0
    BY <1>4, <1>6, <1>8, <1>9, <1>11, <1>12 DEF ShowsState, ShowsWord
  <1> QED
    BY <1>0, <1>13

\* A session that is not listed has nothing indexed, with the channels in order.
LEMMA UnlistedIsUnheard ==
    ASSUME EventInv, StepInv, InOrderInv, Arrives(indexed), inOrder, NEW sid \in SessionIds,
           rows[sid].listed # TRUE
    PROVE  Heard(sid, indexed) = {}
  <1>1. RowSays(rows[sid], Heard(sid, indexed))
    BY DEF InOrderInv, InOrderSays
  <1>2. ASSUME NEW e \in Heard(sid, indexed) PROVE FALSE
    <2>1. PICK l \in 1..Len(log) : e = log[l] /\ log[l].sid = sid /\ 1..l \subseteq indexed
      BY <1>2 DEF Heard, Arrives
    <2>2. e.kind = "Advanced"
      BY <1>1 DEF RowSays
    <2>3. PICK p \in Prior(l) : p.kind = "Opened"
      BY <2>1, <2>2 DEF StepInv, Continues
    <2>4. PICK i \in 1..(l - 1) : p = log[i] /\ log[i].sid = sid
      BY <2>1, <2>3 DEF Prior, Before
    <2>5. i \in 1..l
      BY <2>1, <2>4
    <2>6. p \in Heard(sid, indexed)
      BY <2>1, <2>4, <2>5 DEF Heard
    <2> QED
      BY <1>1, <2>3, <2>6 DEF RowSays
  <1> QED
    BY <1>2

\* What an optimistic item shows of a patch.
OptimisticTold(item, patch) ==
    /\ item.state = IF patch.settled = TRUE \/ patch.step # 0 THEN patch.state ELSE 0
    /\ item.word = patch.word

Blank(item) ==
    /\ DOMAIN item = {"sid", "phase", "settled", "state", "payout", "word", "requests"}
    /\ item.settled = FALSE /\ item.state = 0 /\ item.word = 0

\* The patch of a session that is not projected is merged into it.
LEMMA OptimisticShows ==
    ASSUME NEW base, Blank(base), NEW patch, patch.settled \in BOOLEAN,
           NEW item, item = MergedItem(base, patch)
    PROVE  OptimisticTold(item, patch)
  <1> DEFINE word == IF base.word = 0 THEN patch.word ELSE base.word
             p == IF patch.step = 0 THEN base.phase ELSE patch.phase
             q == IF patch.step = 0 THEN base.state ELSE patch.state
  <1>1. item = IF patch.settled
               THEN [base EXCEPT !.phase = patch.phase, !.payout = patch.payout,
                                 !.settled = TRUE, !.state = patch.state, !.word = word]
               ELSE [base EXCEPT !.phase = p, !.state = q, !.word = word]
    BY DEF MergedItem, Blank
  <1>2. word = patch.word /\ q = IF patch.step = 0 THEN 0 ELSE patch.state
    BY DEF Blank
  <1> HIDE DEF word, p, q
  <1>3. CASE patch.settled = TRUE
    BY <1>1, <1>2, <1>3 DEF OptimisticTold, Blank
  <1>4. CASE patch.settled = FALSE
    BY <1>1, <1>2, <1>4 DEF OptimisticTold, Blank
  <1> QED
    BY <1>3, <1>4

\* With the wallet connected the layers show of a session what its row and its
\* patch do, even while it is only an optimistic item.
LEMMA LayersShow ==
    ASSUME OpenInv, EventInv, LayerInv, StepInv, InOrderInv, Arrives(indexed), inOrder, ready,
           NEW item \in Layers, item.sid \in SessionIds
    PROVE  /\ item.state = ShowsState(rows[item.sid], patches[item.sid])
           /\ item.word = ShowsWord(rows[item.sid], patches[item.sid])
  <1>1. CASE item \in Projected
    <2>1. PICK sid \in SessionRowIds : item = RowItem(sid)
      BY <1>1 DEF Projected, RowItem
    <2>2. sid \in SessionIds
      BY DEF SessionRowIds
    <2> QED
      BY <2>1, <2>2, ItemShows
  <1>2. CASE item \in OptimisticItems /\ item \notin Projected
    <2> DEFINE Base(o) == [PendingItem(o.request) EXCEPT !.sid = o.sid]
    <2>1. PICK o \in optimistic :
            item = IF o.sid \in {-o.request} \cup SessionRowIds THEN Base(o)
                   ELSE MergedItem(Base(o), patches[o.sid])
      BY <1>2 DEF OptimisticItems
    <2>2. PICK base : base = Base(o)
      OBVIOUS
    <2>3. Blank(base) /\ base.sid = o.sid
      BY <2>2 DEF PendingItem, Blank
    <2> HIDE DEF Base
    <2>4. \A patch : MergedItem(base, patch).sid = base.sid
      BY <2>3 DEF MergedItem, Blank
    <2>5. PICK sid \in SessionIds : sid = item.sid
      OBVIOUS
    <2>6. o.sid = sid
      BY <2>1, <2>2, <2>3, <2>4, <2>5
    <2>7. sid # -o.request
      <3>1. o.request \in Requests
        BY DEF OpenInv, ItemInv, Item
      <3>2. o.request \in Nat /\ o.request # 0
        BY <3>1, SnapshotAssumption DEF SnapshotAssumption
      <3>3. sid \in Nat
        BY SnapshotAssumption DEF SnapshotAssumption, SessionIds
      <3> QED
        BY <3>2, <3>3
    <2>8. CASE sid \in SessionRowIds
      <3>1. item = base
        BY <2>1, <2>2, <2>6, <2>8
      <3>2. RowItem(sid) \in Projected
        BY <2>8 DEF Projected, RowItem
      <3>3. RowItem(sid).sid = sid
        BY <2>5, ItemShows
      <3>4. RowItem(sid).phase = "NONE"
        BY <1>2, <2>5, <3>2, <3>3 DEF Layers, MergedItems
      <3>5. ShowsState(rows[sid], patches[sid]) = 0 /\ ShowsWord(rows[sid], patches[sid]) = 0
        BY <2>5, <3>4, IdleShowsNothing
      <3> QED
        BY <2>3, <2>5, <3>1, <3>5 DEF Blank
    <2>9. CASE sid \notin SessionRowIds
      <3>0. PICK row, patch, came :
              row = rows[sid] /\ patch = patches[sid] /\ came = Heard(sid, flashed)
        OBVIOUS
      <3>1. item = MergedItem(base, patch)
        BY <2>1, <2>2, <2>6, <2>7, <2>9, <3>0
      <3>2. row.listed # TRUE
        BY <2>5, <2>9, <3>0 DEF SessionRowIds
      <3>3. Heard(sid, indexed) = {}
        BY <2>5, <3>0, <3>2, UnlistedIsUnheard
      <3>4. InOrderSays(row, patch, {}, came)
        BY <2>5, <3>0, <3>3 DEF InOrderInv
      <3>5. row.settled = FALSE /\ row.step = 0 /\ row.state = 0 /\ patch.settled \in BOOLEAN
            /\ patch.step \in Nat
        BY <3>4 DEF InOrderSays, RowSays, PatchSays
      <3>6. /\ item.state = IF patch.settled = TRUE \/ patch.step # 0 THEN patch.state ELSE 0
            /\ item.word = patch.word
        <4>1. OptimisticTold(item, patch)
          BY <2>3, <3>1, <3>5, OptimisticShows
        <4> QED
          BY <4>1 DEF OptimisticTold
      <3>7. item.state = ShowsState(row, patch)
        BY <3>5, <3>6 DEF ShowsState
      <3>8. ShowsWord(row, patch) = patch.word
        <4>1. KnownWords(row, patch) = {patch.fulfilledNonce} \ {0}
          <5>1. KnownWords(row, patch) = Answered({}) \cup ({patch.fulfilledNonce} \ {0})
            BY <3>4, KnownWordsAre
          <5> QED
            BY <5>1 DEF Answered
        <4>2. CASE patch.fulfilledNonce = 0
          BY <4>1, <4>2 DEF ShowsWord
        <4>3. CASE patch.fulfilledNonce # 0
          <5>1. patch.word = patch.fulfilledNonce
            BY <3>4, <4>3 DEF InOrderSays, PatchAsks
          <5>2. Max(KnownWords(row, patch)) \in KnownWords(row, patch)
            BY <3>4, <4>1, <4>3, KnownWordsAre
          <5>3. Max(KnownWords(row, patch)) = patch.word
            BY <4>1, <4>3, <5>1, <5>2
          <5> QED
            BY <4>1, <4>3, <5>3 DEF ShowsWord
        <4> QED
          BY <4>2, <4>3
      <3> QED
        BY <2>5, <3>0, <3>6, <3>7, <3>8
    <2> QED
      BY <2>8, <2>9
  <1> QED
    BY <1>1, <1>2 DEF Layers, MergedItems

\* An item of the layers is complete, or is of a round in flight.
LEMMA LayersAreSound ==
    ASSUME OpenInv, EventInv, LayerInv, NEW item \in Layers, item.sid \in SessionIds
    PROVE  IsComplete(item) \/ (item.settled = FALSE /\ ~IsTerminalPhase(item.phase))
  <1>1. Truthful(item)
    BY LayersTell
  <1>2. CASE item.settled = TRUE
    <2>1. Final(item.sid, item)
      BY <1>1, <1>2 DEF Truthful
    <2>2. item.payout # NoPayout /\ (item.phase = "SETTLED" => item.state # 0)
      BY <2>1, OneSettlement DEF OpenInv
    <2> QED
      BY <1>2, <2>2 DEF IsComplete
  <1>3. CASE item.settled = FALSE /\ item \in Projected
    <2>1. PICK sid : item = RowItem(sid)
      BY <1>3 DEF Projected, RowItem
    <2>2. PICK out, row, patch : item = ProjectedItem(sid, out, patch)
      BY <2>1 DEF RowItem
    <2>3. item.settled = IsTerminal(out) /\ item.phase = out.phase
      BY <2>2 DEF ProjectedItem
    <2> QED
      BY <1>3, <2>3 DEF IsTerminal
  <1>4. CASE item.settled = FALSE /\ item \in OptimisticItems
    <2> DEFINE Base(o) == [PendingItem(o.request) EXCEPT !.sid = o.sid]
    <2>1. PICK o \in optimistic :
            item = IF o.sid \in {-o.request} \cup SessionRowIds THEN Base(o)
                   ELSE MergedItem(Base(o), patches[o.sid])
      BY <1>4 DEF OptimisticItems
    <2>2. PICK base : base = Base(o)
      OBVIOUS
    <2>3. /\ DOMAIN base = {"sid", "phase", "settled", "state", "payout", "word", "requests"}
          /\ base.sid = o.sid /\ base.phase = "WAITING_RANDOMNESS" /\ base.settled = FALSE
      BY <2>2 DEF PendingItem
    <2>4. ~IsTerminalPhase(base.phase)
      BY <2>3 DEF IsTerminalPhase
    <2> HIDE DEF Base
    <2>5. CASE item = base
      BY <1>4, <2>4, <2>5
    <2>6. CASE item = MergedItem(base, patches[o.sid])
      <3>1. \A patch : MergedItem(base, patch).sid = base.sid
        BY <2>3 DEF MergedItem
      <3>2. o.sid \in SessionIds
        BY <2>3, <2>6, <3>1
      <3>3. PICK patch : patch = patches[o.sid]
        OBVIOUS
      <3>4. /\ patch.settled \in BOOLEAN
            /\ patch.settled = FALSE => ~IsTerminalPhase(patch.phase)
        BY <3>2, <3>3 DEF LayerInv, LayerTells
      <3> DEFINE word == IF base.word = 0 THEN patch.word ELSE base.word
                 p == IF patch.step = 0 THEN base.phase ELSE patch.phase
                 q == IF patch.step = 0 THEN base.state ELSE patch.state
      <3>5. item = IF patch.settled
                   THEN [base EXCEPT !.phase = patch.phase, !.payout = patch.payout,
                                     !.settled = TRUE, !.state = patch.state, !.word = word]
                   ELSE [base EXCEPT !.phase = p, !.state = q, !.word = word]
        BY <2>3, <2>6, <3>3 DEF MergedItem
      <3>6. p \in {base.phase, patch.phase}
        OBVIOUS
      <3> HIDE DEF word, p, q
      <3>7. patch.settled = FALSE
        <4>1. patch.settled = TRUE => item.settled = TRUE
          BY <2>3, <3>5
        <4> QED
          BY <1>4, <3>4, <4>1
      <3>8. item.phase = p
        BY <2>3, <3>5, <3>7
      <3> QED
        BY <1>4, <2>4, <3>4, <3>6, <3>7, <3>8
    <2> QED
      BY <2>1, <2>2, <2>5, <2>6
  <1> QED
    BY <1>1, <1>2, <1>3, <1>4 DEF Truthful, Layers, MergedItems

\* An item that is complete or in flight is remembered as it is.
Sound(item) == IsComplete(item) \/ (item.settled = FALSE /\ ~IsTerminalPhase(item.phase))
ComesFrom(items, x) == \E i \in items : i.sid = x.sid /\ (Sound(i) => x = i)

\* What the reconciler shows of the rounds of the chain it remembers, and what
\* is neither complete nor in flight is the only thing it changes.
LEMMA ReconcilerShows ==
    ASSUME NEW items, NEW released, NEW known, NEW out,
           out = Reconciled(items, released, known), Unique(items)
    PROVE  /\ \A x \in out.items : x.sid > 0 => x \in out.settled \cup out.open
           /\ \A x \in out.settled \cup out.open :
                x \in known.settled \cup known.open \/ ComesFrom(items, x)
  <1> DEFINE Shape(item) == IF item.settled \/ IsTerminalPhase(item.phase)
                            THEN Demoted(item) ELSE item
             settled == {s \in known.settled : s.sid \notin released}
             open == {o \in known.open : o.sid \notin released}
             kept == {s \in settled : \E item \in items : item.sid = s.sid /\ ~IsComplete(item)}
             complete == {item \in items : IsComplete(item)}
             rest == {i \in items : ~IsComplete(i) /\ i.sid \notin Ids(kept)}
             waiting == {Shape(item) : item \in rest}
             settledNow == complete \cup {s \in settled : s.sid \notin Ids(complete)}
             openNow == {w \in waiting : w.sid > 0}
                          \cup {o \in open : o.sid \notin Ids(complete) \cup Ids(waiting)}
  <1>1. /\ out.settled = settledNow /\ out.open = openNow
        /\ out.items = kept \cup complete \cup waiting
                         \cup {p \in settledNow \cup openNow : p.sid \notin Ids(items)}
    BY Zenon DEF Reconciled
  <1>2. \A item : /\ Shape(item).sid = item.sid
                  /\ item.settled = FALSE /\ ~IsTerminalPhase(item.phase) => Shape(item) = item
    BY DEF Demoted
  <1> HIDE DEF Shape
  <1>3. kept \subseteq settledNow
    BY DEF Unique, Ids
  <1>4. \A x \in out.items : x.sid > 0 => x \in settledNow \cup openNow
    BY <1>1, <1>3
  <1>5. ASSUME NEW x \in settledNow \cup openNow, x \notin known.settled \cup known.open
        PROVE  ComesFrom(items, x)
    <2>1. x \in complete \/ x \in waiting
      BY <1>5
    <2>2. CASE x \in complete
      BY <2>2 DEF ComesFrom
    <2>3. CASE x \in waiting
      <3>1. PICK i \in items : x = Shape(i) /\ ~IsComplete(i)
        BY <2>3
      <3> QED
        BY <1>2, <3>1 DEF ComesFrom, Sound
    <2> QED
      BY <2>1, <2>2, <2>3
  <1> HIDE DEF settledNow, openNow
  <1> QED
    BY <1>1, <1>4, <1>5

\* A round of the chain that is shown is remembered as it is shown.
ShownInv ==
    \A x \in pushed.items : x.sid \in SessionIds => x \in published.settled \cup published.open

\* While the channels keep the order the wallet stays.
Connected == inOrder => ready

\* In order nothing was shown that the row and the patch of a session do not
\* show, or something later.
BestInv ==
    inOrder => \A x \in published.settled \cup published.open :
        x.sid \in SessionIds =>
            /\ Grows(x.state, ShowsState(rows[x.sid], patches[x.sid]))
            /\ Grows(x.word, ShowsWord(rows[x.sid], patches[x.sid]))

\* What a render remembers was remembered before, or shows what the row and
\* the patch of the session do.
LEMMA RenderRemembers ==
    ASSUME SnapInv, Connected, inOrder, Render,
           NEW x \in published'.settled \cup published'.open, x.sid \in SessionIds
    PROVE  \/ x \in published.settled \cup published.open
           \/ /\ x.state = ShowsState(rows[x.sid], patches[x.sid])
              /\ x.word = ShowsWord(rows[x.sid], patches[x.sid])
  <1>1. /\ OpenInv /\ EventInv /\ LayerInv /\ StepInv /\ InOrderInv /\ Arrives(indexed) /\ ready
    BY InOrderHolds DEF SnapInv, HeardInv, ArriveInv, Connected
  <1>2. PICK items, released, known, out :
          /\ items = Layers /\ released = Released /\ known = published
          /\ out = Reconciled(items, released, known)
    OBVIOUS
  <1>3. published' = [settled |-> out.settled, open |-> out.open]
    BY <1>2 DEF Render, Reconciliation, Layers, Released
  <1>4. Unique(items)
    BY <1>1, <1>2, OptimisticItemsAreUnique, ProjectedIsUnique, MergeKeepsUnique DEF Layers
  <1>5. x \in out.settled \cup out.open
    BY <1>3
  <1>6. x \in known.settled \cup known.open \/ ComesFrom(items, x)
    BY <1>2, <1>4, <1>5, ReconcilerShows
  <1>7. CASE x \in known.settled \cup known.open
    BY <1>2, <1>7
  <1>8. ASSUME NEW i \in items, i.sid = x.sid, Sound(i) => x = i
        PROVE  /\ x.state = ShowsState(rows[x.sid], patches[x.sid])
               /\ x.word = ShowsWord(rows[x.sid], patches[x.sid])
    <2>1. x = i /\ x \in Layers
      BY <1>1, <1>2, <1>8, LayersAreSound DEF Sound
    <2> QED
      BY <1>1, <2>1, LayersShow
  <1> QED
    BY <1>6, <1>7, <1>8 DEF ComesFrom

\* ShownInv is inductive.
LEMMA ShownNextInv ==
    ASSUME SnapInv, ShownInv, [Next]_vars
    PROVE  ShownInv'
  <1>1. OpenInv /\ EventInv /\ LayerInv /\ RenderInv /\ PublishedInv
    BY DEF SnapInv
  <1>2. CASE UNCHANGED renderVars
    BY <1>2 DEF ShownInv, renderVars
  <1>3. CASE Render
    <2>1. PICK items, released, known, out :
            /\ items = Layers /\ released = Released /\ known = published
            /\ out = Reconciled(items, released, known)
      OBVIOUS
    <2>2. /\ published' = [settled |-> out.settled, open |-> out.open]
          /\ pushed'.items = out.items
      BY <1>3, <2>1 DEF Render, Reconciliation, Layers, Released
    <2>3. Unique(items)
      BY <1>1, <2>1, OptimisticItemsAreUnique, ProjectedIsUnique, MergeKeepsUnique DEF Layers
    <2>4. \A x \in out.items : x.sid > 0 => x \in out.settled \cup out.open
      BY <2>1, <2>3, ReconcilerShows
    <2>5. \A sid \in SessionIds : sid > 0
      BY SnapshotAssumption DEF SnapshotAssumption, SessionIds
    <2> QED
      BY <2>2, <2>4, <2>5 DEF ShownInv
  <1> QED
    BY <1>1, <1>2, <1>3, PublishedNextInv

\* BestInv is inductive while the wallet stays.
LEMMA BestNextInv ==
    ASSUME SnapInv, WordsInv, BestInv, Connected, [Next]_vars
    PROVE  BestInv'
  <1>1. OpenInv /\ EventInv /\ LayerInv /\ RenderInv /\ PublishedInv /\ UNCHANGED inOrder
    BY LogGrows DEF SnapInv
  <1> SUFFICES ASSUME inOrder,
                      NEW x \in published'.settled \cup published'.open, x.sid \in SessionIds
               PROVE  /\ Grows(x.state, ShowsState(rows'[x.sid], patches'[x.sid]))
                      /\ Grows(x.word, ShowsWord(rows'[x.sid], patches'[x.sid]))
    BY <1>1 DEF BestInv, ShowsState, ShowsWord, KnownWords, SessionIds
  <1>2. PICK row, patch, row2, patch2 :
          /\ row = rows[x.sid] /\ patch = patches[x.sid]
          /\ row2 = rows'[x.sid] /\ patch2 = patches'[x.sid]
    OBVIOUS
  <1>3. ShowsMore(row, patch, row2, patch2)
    BY <1>2, EveryStepShowsMore DEF StepShowsMore
  <1>4. \/ x \in published.settled \cup published.open
        \/ x.state = ShowsState(row, patch) /\ x.word = ShowsWord(row, patch)
    <2>1. CASE UNCHANGED renderVars
      BY <2>1 DEF renderVars
    <2>2. CASE Render
      BY <1>2, <2>2, RenderRemembers
    <2> QED
      BY <1>1, <2>1, <2>2, PublishedNextInv
  <1>5. /\ x.state = ShowsState(row, patch) \/ Grows(x.state, ShowsState(row, patch))
        /\ x.word = ShowsWord(row, patch) \/ Grows(x.word, ShowsWord(row, patch))
    BY <1>2, <1>4 DEF BestInv
  <1>6. PICK a, b, c, d : /\ a = ShowsState(row, patch) /\ b = ShowsState(row2, patch2)
                          /\ c = ShowsWord(row, patch) /\ d = ShowsWord(row2, patch2)
    OBVIOUS
  <1>7. Grows(a, b) /\ Grows(c, d) /\ (x.state = a \/ Grows(x.state, a))
        /\ (x.word = c \/ Grows(x.word, c))
    BY <1>3, <1>5, <1>6 DEF ShowsMore
  <1>8. Grows(x.state, b) /\ Grows(x.word, d)
    BY <1>7 DEF Grows
  <1> QED
    BY <1>2, <1>6, <1>8

\* With the channels in order and as long as the wallet stays connected, a
\* round is not shown at an earlier step than before, nor without the word it
\* had, whichever layer shows it.  Code: mergeFlashblockPatchIntoRow, the
\* confirmed optimistic items under it, and the pruning of the patches.
THEOREM NeverAStepBack == Spec /\ []Connected => NoStepBack
  <1> DEFINE Inv == SnapInv /\ WordsInv /\ ShownInv /\ BestInv
             Ahead == inOrder => \A sid \in Kept :
                        /\ ShownNext(sid).state >= Shown(sid).state
                        /\ ShownNext(sid).word >= Shown(sid).word
  <1>1. Init => Inv
    BY SnapInitInv, WordsInitInv DEF Init, ShownInv, BestInv
  <1>2. Inv /\ Connected /\ [Next]_vars => Inv'
    BY SnapNextInv, WordsNextInv, ShownNextInv, BestNextInv
  <1>3. ASSUME Inv, Connected, [Next]_vars PROVE Ahead
    <2> SUFFICES ASSUME inOrder, NEW sid \in Kept
                 PROVE  /\ ShownNext(sid).state >= Shown(sid).state
                        /\ ShownNext(sid).word >= Shown(sid).word
      OBVIOUS
    <2>1. PICK x, y : x = Shown(sid) /\ y = ShownNext(sid)
      OBVIOUS
    <2>2. /\ sid \in SessionIds
          /\ \E i \in pushed.items : i.sid = sid
          /\ \E i \in pushed'.items : i.sid = sid
      BY DEF Kept, OnChain, Ids
    <2>3. x \in pushed.items /\ x.sid = sid /\ y \in pushed'.items /\ y.sid = sid
      BY <2>1, <2>2 DEF Shown, ShownNext
    <2>4. x \in published.settled \cup published.open
      BY <1>3, <2>2, <2>3 DEF ShownInv
    <2>5. y \in published'.settled \cup published'.open
      <3>1. ShownInv'
        BY <1>2, <1>3
      <3>2. SessionIds' = SessionIds
        BY DEF SessionIds
      <3> QED
        BY <2>2, <2>3, <3>1, <3>2 DEF ShownInv
    <2>6. PICK a, b : /\ a = ShowsState(rows[sid], patches[sid])
                      /\ b = ShowsWord(rows[sid], patches[sid])
      OBVIOUS
    <2>7. Grows(x.state, a) /\ Grows(x.word, b)
      BY <1>3, <2>2, <2>3, <2>4, <2>6 DEF BestInv
    <2>8. y \in published.settled \cup published.open \/ (y.state = a /\ y.word = b)
      <3>1. CASE Render
        BY <1>3, <2>2, <2>3, <2>5, <2>6, <3>1, RenderRemembers
      <3>2. CASE UNCHANGED renderVars
        BY <2>5, <3>2 DEF renderVars
      <3> QED
        BY <1>3, <3>1, <3>2, PublishedNextInv DEF SnapInv
    <2>9. CASE y \in published.settled \cup published.open
      <3>1. x = y
        BY <1>3, <2>3, <2>4, <2>9 DEF SnapInv, RenderInv, Unique, Apart
      <3>2. y.state >= x.state /\ y.word >= x.word
        BY <2>7, <3>1 DEF Grows
      <3> QED
        BY <2>1, <3>2
    <2>10. CASE y.state = a /\ y.word = b
      <3>1. y.state >= x.state /\ y.word >= x.word
        BY <2>7, <2>10 DEF Grows
      <3> QED
        BY <2>1, <3>1
    <2> QED
      BY <2>8, <2>9, <2>10
  <1>4. Inv /\ Connected /\ [Next]_vars => [Ahead]_vars
    BY <1>3
  <1> HIDE DEF Inv, Ahead
  <1>5. Spec /\ []Connected => [][Ahead]_vars
    BY <1>1, <1>2, <1>4, PTL DEF Spec
  <1> QED
    BY <1>5 DEF NoStepBack, Ahead

-----------------------------------------------------------------------------
(***************************************************************************)
(* Types                                                                   *)
(***************************************************************************)

\* What is Boolean, and what the items that are shown are of.
ShownTypes ==
    /\ ready \in BOOLEAN /\ rowsChanged \in BOOLEAN
    /\ \A item \in pushed.items : item.sid \in SessionIds \cup {-r : r \in Requests}

\* The sessions that were opened are within the bound.
LEMMA OpenedWithinBound ==
    ASSUME StepInv
    PROVE  OpenedIds \subseteq SessionIds
  <1> SUFFICES ASSUME NEW sid \in OpenedIds PROVE sid \in SessionIds
    OBVIOUS
  <1>1. PICK i \in EventsOf(sid) : log[i].kind = "Opened"
    BY DEF OpenedIds, StepInv
  <1>2. i \in 1..Len(log) /\ log[i].sid = sid
    BY DEF EventsOf
  <1> QED
    BY <1>2 DEF StepInv, Continues

\* ShownTypes is inductive.
LEMMA ShownTypesNext ==
    ASSUME SnapInv, ShownTypes, [Next]_vars
    PROVE  ShownTypes'
  <1>1. /\ OpenInv /\ EventInv /\ LayerInv /\ HeardInv /\ StepInv
        /\ RenderInv /\ PublishedInv /\ KeptInv
    BY DEF SnapInv, HeardInv
  <1>2. ready' \in BOOLEAN /\ rowsChanged' \in BOOLEAN
    BY DEF ShownTypes, Next, Step, vars, walletVars, MineOpen, MineForeignOpen, MineStep,
       Index, Flash, OpenSession, Accept, Receipt, Fail, ToggleWallet, Render
  <1>3. CASE UNCHANGED renderVars
    BY <1>2, <1>3 DEF ShownTypes, renderVars, SessionIds
  <1>4. CASE Render
    <2>1. PICK items, released, known, out :
            /\ items = Layers /\ released = Released /\ known = published
            /\ out = Reconciled(items, released, known)
      OBVIOUS
    <2>2. pushed'.items = out.items
      BY <1>4, <2>1 DEF Render, Reconciliation, Layers, Released
    <2>3. \A x \in out.items : \E y \in items \cup known.settled \cup known.open : x.sid = y.sid
      <3> DEFINE Shape(item) == IF item.settled \/ IsTerminalPhase(item.phase)
                                THEN Demoted(item) ELSE item
      <3>1. \A item : Shape(item).sid = item.sid
        BY DEF Demoted
      <3>2. \A x \in out.items : \/ x \in items \cup known.settled \cup known.open
                                 \/ \E i \in items : x = Shape(i)
        BY <2>1 DEF Reconciled
      <3> HIDE DEF Shape
      <3> QED
        BY <3>1, <3>2
    <2>4. OpenedIds \subseteq SessionIds
      BY <1>1, OpenedWithinBound
    <2>5. \A y \in items : y.sid \in SessionIds \cup {-r : r \in Requests}
      BY <1>1, <2>1, <2>4, LayersAreOpened
    <2>6. \A y \in known.settled \cup known.open : y.sid \in SessionIds
      BY <1>1, <2>1, <2>4 DEF KeptInv
    <2>7. \A x \in pushed'.items : x.sid \in SessionIds \cup {-r : r \in Requests}
      BY <2>2, <2>3, <2>5, <2>6
    <2> QED
      BY <1>2, <2>7 DEF ShownTypes, SessionIds
  <1> QED
    BY <1>1, <1>3, <1>4, PublishedNextInv

\* Each variable keeps its type: a request is in the correlation maps under
\* its own name, and the items that are shown are of sessions or of requests.
\* Code: the refs of use-simulated-sessions.ts.
THEOREM SnapshotTypes == Spec => []TypeOK
  <1>1. Init => ShownTypes
    <2> SUFFICES ASSUME Init PROVE ShownTypes
      OBVIOUS
    <2>1. ready = TRUE /\ rowsChanged = FALSE /\ pushed.items = {}
      BY DEF Init
    <2> QED
      BY <2>1 DEF ShownTypes
  <1>2. SnapInv /\ ShownTypes => TypeOK
    <2> SUFFICES ASSUME SnapInv, ShownTypes PROVE TypeOK
      OBVIOUS
    <2>1. /\ OpenInv /\ LogInv /\ TxInv /\ CallInv /\ ItemInv /\ EventInv /\ StepInv
          /\ Arrives(indexed) /\ Arrives(flashed)
      BY DEF SnapInv, OpenInv, HeardInv, ArriveInv
    <2>2. tx \in [Requests -> {NoSession} \cup SessionIds]
      BY <2>1 DEF TxInv, EventInv
    <2>3. flashed \cup indexed \subseteq 1..Len(log)
      BY <2>1 DEF Arrives
    <2>4. \A o \in optimistic : o.request \in Requests /\ o.sid \in {-o.request, tx[o.request]}
      BY <2>1 DEF ItemInv, Item, Named
    <2>5. /\ call \in [Requests -> {"idle", "sending", "accepted", "opened", "failed"}]
          /\ pendingOpens \cup confirmedOpens \subseteq Requests
      BY <2>1 DEF CallInv
    <2>6. recentOpens \subseteq SessionIds
      <3> SUFFICES ASSUME NEW sid \in recentOpens PROVE sid \in SessionIds
        OBVIOUS
      <3>1. PICK l \in flashed : log[l].sid = sid
        BY <2>1 DEF CallInv, WasFlashed
      <3> QED
        BY <2>1, <2>3, <3>1 DEF StepInv, Continues
    <2>7. {ready, rowsChanged} \subseteq BOOLEAN
      BY DEF ShownTypes
    <2> QED
      BY <2>2, <2>3, <2>4, <2>5, <2>6, <2>7 DEF TypeOK, ShownTypes
  <1>3. SnapInv /\ ShownTypes /\ [Next]_vars => SnapInv' /\ ShownTypes'
    BY SnapNextInv, ShownTypesNext
  <1> QED
    BY <1>1, <1>2, <1>3, SnapInitInv, PTL DEF Spec

=============================================================================
