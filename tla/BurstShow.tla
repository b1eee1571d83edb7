------------------------------- MODULE BurstShow -------------------------------
(***************************************************************************)
(* One firework of Ember Festival frame by frame: the canvas engine        *)
(* (BurstReveal.tsx) and the sounds it schedules (audio.ts).  EmberFrame   *)
(* abstracts a show to its phases; this module has its clocks.             *)
(*                                                                         *)
(* Time is in units of 20 ms.  A frame knows two times: the real one since *)
(* the phase began, and the step by which things move and age, which is    *)
(* capped at 40 ms.  Particles that are spawned together are one group     *)
(* that lives as long as the last of them; where a particle is and how it  *)
(* looks is left out, and so are the embers and the sky, which the end of  *)
(* a show does not wait for.                                               *)
(***************************************************************************)
EXTENDS Integers, Sequences, FiniteSets

CONSTANTS
    ShownTiers,     \* the tiers that are shown
    Frames,         \* the times a frame may come after the last one
    Ascents,        \* how long the rocket may climb, by the capped step
    MaxChanges      \* bound: changes of the tier and of the sound

\* What the constants are assumed to be.
AllTiers == {"Fizzle", "SmallBloom", "BrightBurst", "Cascade", "GoldenWillow",
             "PhoenixFinale"}
BurstAssumption ==
    /\ ShownTiers \subseteq AllTiers
    /\ Frames \cup Ascents \subseteq Nat \ {0}
    /\ MaxChanges \in Nat

NoShow == [phase |-> "none"]
Cap == 2            \* the longest step of one frame
Settle == 23        \* the first time beyond every deadline of a phase

SlowMo(tier) == IF tier = "PhoenixFinale" THEN 13 ELSE 0
SecondWaveAt == 17

-----------------------------------------------------------------------------
(***************************************************************************)
(* Groups: their age when spawned, and the span of the longest life.       *)
(* `long' says which end of the span the draw takes.                       *)
(***************************************************************************)

Group(age, low, high, long) == [age |-> age, life |-> IF long THEN high ELSE low]

Fizzle(long) == {Group(0, 42, 62, long)}
SmallBloom(long) == {Group(0, 42, 57, long)}
BrightBurst(long) == {Group(0, 57, 75, long), Group(0, 67, 80, long)}
\* Three rings from one centre; the second and the third are born later.
Cascade(long) ==
    {Group(0, 80, 95, long), Group(-7, 90, 107, long), Group(-14, 105, 125, long)}
\* Short, medium and long strands.
GoldenWillow(long) ==
    {Group(0, 130, 155, long), Group(0, 170, 200, long), Group(0, 210, 240, long)}
PhoenixFinale(long) == {Group(0, 120, 160, long)}
SecondWave(long) == {Group(0, 110, 140, long)}
CometBurst(long) == {Group(0, 55, 70, long)}
CometLife == 24

Spawned(tier, long) ==
    CASE tier = "Fizzle" -> Fizzle(long)
      [] tier = "SmallBloom" -> SmallBloom(long)
      [] tier = "BrightBurst" -> BrightBurst(long)
      [] tier = "Cascade" -> Cascade(long)
      [] tier = "GoldenWillow" -> GoldenWillow(long)
      [] tier = "PhoenixFinale" -> PhoenixFinale(long)

(***************************************************************************)
(* Sounds: for how long each cue schedules its oscillators and noises.     *)
(***************************************************************************)

LaunchWhoosh == 35
FizzleSound == 20
SmallBloomSound == 20
BrightBurstSound == 22
CascadeSound == 34
GoldenWillowSound == 125
PhoenixSlowMo == 13
PhoenixDetonation == 165
PhoenixSecondWave == 95

TierSound(tier) ==
    CASE tier = "Fizzle" -> FizzleSound
      [] tier = "SmallBloom" -> SmallBloomSound
      [] tier = "BrightBurst" -> BrightBurstSound
      [] tier = "Cascade" -> CascadeSound
      [] tier = "GoldenWillow" -> GoldenWillowSound
      [] tier = "PhoenixFinale" -> PhoenixDetonation

LengthOf(cue, tier) ==
    CASE cue = "whoosh" -> LaunchWhoosh
      [] cue = "beat" -> PhoenixSlowMo
      [] cue = "burst" -> TierSound(tier)
      [] cue = "wave" -> PhoenixSecondWave

-----------------------------------------------------------------------------
VARIABLES
    tierProp,       \* the tier the parent shows, or "none"
    soundEnabled,   \* the sound setting of the page
    anim,           \* the engine: phase, its clock and what is alive
    heard,          \* history: the cues of this show so far
    audible,        \* for how long what this show scheduled still sounds
    changes         \* changes of the props so far

vars == <<tierProp, soundEnabled, anim, heard, audible, changes>>

Smaller(a, b) == IF a < b THEN a ELSE b
Larger(a, b) == IF a > b THEN a ELSE b

Init ==
    /\ tierProp = "none"
    /\ soundEnabled \in BOOLEAN
    /\ anim = NoShow
    /\ heard = <<>>
    /\ audible = 0
    /\ changes = 0

\* The cues a handler starts, if the sound is on.
Cues(new) == IF soundEnabled THEN new ELSE <<>>

LongestOf(cues, tier) ==
    LET lengths == {LengthOf(cues[i], tier) : i \in DOMAIN cues}
    IN  IF lengths = {} THEN 0 ELSE CHOOSE n \in lengths : \A k \in lengths : k <= n

\* The engine is set up anew whenever the tier or the sound changes.
Started(tier, climb) ==
    [phase |-> "launch", tier |-> tier, elapsed |-> 0, climb |-> climb,
     groups |-> {}, comets |-> CometLife, wave |-> FALSE]

Initiate(tier, sound) ==
    /\ tierProp' = tier
    /\ soundEnabled' = sound
    /\ changes < MaxChanges
    /\ changes' = changes + 1
    /\ IF tier = "none"
       THEN anim' = NoShow /\ heard' = <<>> /\ audible' = 0
       ELSE /\ \E climb \in Ascents : anim' = Started(tier, climb)
            /\ heard' = IF sound THEN <<"whoosh">> ELSE <<>>
            /\ audible' = IF sound THEN LaunchWhoosh ELSE 0

\* The parent shows another tier or none.
SetTier(tier) ==
    /\ tier # tierProp
    /\ Initiate(tier, soundEnabled)

\* The player turns the sound on or off; a show that runs, or that is over,
\* starts again.
ToggleSound == Initiate(tierProp, ~soundEnabled)

-----------------------------------------------------------------------------
(***************************************************************************)
(* One frame: a block for each phase, in their order, on the same engine   *)
(* record.  `elapsed' was taken at the start of the frame; a block that    *)
(* sets the phase and its start does not change it.                        *)
(***************************************************************************)

\* triggerBurst.
TriggerBurst(e, long) ==
    [e EXCEPT !.phase = "burst", !.elapsed = 0, !.wave = FALSE,
              !.groups = Spawned(e.tier, long),
              !.comets = IF e.tier = "PhoenixFinale" THEN 0 ELSE CometLife]

Launch(e, dt, long) ==
    LET risen == [e EXCEPT !.climb = Larger(0, e.climb - dt)]
    IN  IF e.phase # "launch" THEN e
        ELSE IF risen.climb > 0 THEN risen
        ELSE IF SlowMo(e.tier) > 0
        THEN [risen EXCEPT !.phase = "slowmo", !.elapsed = 0]
        ELSE TriggerBurst(risen, long)

SlowMoBlock(e, elapsed, long) ==
    IF e.phase = "slowmo" /\ elapsed >= SlowMo(e.tier) THEN TriggerBurst(e, long) ELSE e

\* The second wave of the finale, once.
FireWave(e, elapsed, long) ==
    IF e.tier = "PhoenixFinale" /\ elapsed >= SecondWaveAt /\ ~e.wave
    THEN [e EXCEPT !.wave = TRUE, !.groups = @ \cup SecondWave(long)]
    ELSE e

\* The comets burst at the end of their flight.
FlyComets(e, dt, long) ==
    IF e.comets >= CometLife THEN e
    ELSE [e EXCEPT !.comets = Smaller(CometLife, @ + dt),
                   !.groups = IF e.comets + dt >= CometLife THEN @ \cup CometBurst(long)
                              ELSE @]

\* What is over is not looked at again.
AgeGroups(e, dt) ==
    [e EXCEPT !.groups = {g \in {[h EXCEPT !.age = @ + dt] : h \in e.groups} :
                              g.age < g.life}]

\* A group that is not born yet does not count.
Alive(e) == {g \in e.groups : g.age >= 0}

\* Mutant: the end of the phase counts from the start of the show alone.
CompletesByTime(e, elapsed) ==
    IF 2 * elapsed > 45 THEN [e EXCEPT !.phase = "done"] ELSE e

Completes(e, elapsed) ==
    IF Alive(e) = {} /\ 2 * elapsed > 45 THEN [e EXCEPT !.phase = "done"] ELSE e

BurstBlock(e, elapsed, dt, long) ==
    IF e.phase # "burst" THEN e
    ELSE Completes(AgeGroups(FlyComets(FireWave(e, elapsed, long), dt, long), dt), elapsed)

\* The cues of a frame, in their order.
FrameCues(old, mid, new) ==
    (IF old.phase = "launch" /\ mid.phase = "slowmo" THEN <<"beat">> ELSE <<>>)
    \o (IF old.phase # "burst" /\ new.phase \in {"burst", "done"} THEN <<"burst">> ELSE <<>>)
    \o (IF ~old.wave /\ new.wave THEN <<"wave">> ELSE <<>>)

Frame(d) ==
    /\ anim.phase \notin {"none", "done"}
    /\ \E long \in BOOLEAN :
         LET dt == Smaller(d, Cap)
             elapsed == Smaller(Settle, anim.elapsed + d)
             launched == Launch([anim EXCEPT !.elapsed = elapsed], dt, long)
             beaten == SlowMoBlock(launched, elapsed, long)
             new == BurstBlock(beaten, elapsed, dt, long)
             cues == Cues(FrameCues(anim, launched, new))
         IN  /\ anim' = new
             /\ heard' = heard \o cues
             /\ audible' = Larger(Larger(0, audible - d), LongestOf(cues, anim.tier))
    /\ UNCHANGED <<tierProp, soundEnabled, changes>>

\* A frame after the show: only the sky, the embers and what still sounds.
IdleFrame(d) ==
    /\ anim.phase = "done"
    /\ audible > 0
    /\ audible' = Larger(0, audible - d)
    /\ UNCHANGED <<tierProp, soundEnabled, anim, heard, changes>>

Next ==
    \/ \E tier \in ShownTiers \cup {"none"} : SetTier(tier)
    \/ ToggleSound
    \/ \E d \in Frames : Frame(d)
    \/ \E d \in Frames : IdleFrame(d)

Spec == Init /\ [][Next]_vars

\* requestAnimationFrame calls back as long as the page is shown.
Fairness == WF_vars(\E d \in Frames : Frame(d) \/ IdleFrame(d))

FairSpec == Spec /\ Fairness

-----------------------------------------------------------------------------
(***************************************************************************)
(* Properties                                                              *)
(***************************************************************************)

\* The end of a show is announced when all of it was seen: the rings that are
\* born late, the second wave and the stars of the comets are over, too.  The
\* check at the end of a frame counts what is alive and nothing that is to come.
ShowIsWhole ==
    anim.phase = "done" =>
        /\ anim.groups = {}
        /\ anim.comets = CometLife
        /\ anim.tier = "PhoenixFinale" => anim.wave

Score(tier) ==
    IF tier = "PhoenixFinale" THEN <<"whoosh", "beat", "burst", "wave">>
    ELSE <<"whoosh", "burst">>

\* A show with sound plays its whole score once and in order, a show without
\* none of it, whenever the player turns the sound on or off: the closures of
\* the frame and of the effect agree on the setting.
ScoreIsWhole ==
    anim.phase # "none" =>
        /\ ~soundEnabled => heard = <<>>
        /\ soundEnabled => \E n \in 1..Len(Score(anim.tier)) :
                               heard = SubSeq(Score(anim.tier), 1, n)
        /\ anim.phase = "done" /\ soundEnabled => heard = Score(anim.tier)

\* When the end of a show is announced, its sounds are over within a second:
\* what the cues schedule and what the particles live are chosen apart, in
\* audio.ts and in the spawners.
QuietAfterShow == anim.phase = "done" => audible <= 50

\* A show comes to its end, or is taken down; the round of EmberFrame waits
\* for it to be settled.
ShowEnds == anim.phase \in {"launch", "slowmo", "burst"} ~> anim.phase \in {"done", "none"}

\* The finale hesitates before it bursts: BurstReveal.tsx:12 promises a slow-mo
\* beat of 260 ms, so some frame is to show it.
HesitationBeat ==
    [][anim'.phase = "burst" /\ anim.phase # "burst" /\ SlowMo(anim'.tier) > 0
           => anim.phase = "slowmo"]_vars

=============================================================================
