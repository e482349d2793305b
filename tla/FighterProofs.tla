--------------------------- MODULE FighterProofs ---------------------------
(***************************************************************************)
(* Proofs about Fighter for every arena that satisfies FighterAssumption.  *)
(*                                                                         *)
(* That a Fighter implements Respawn rests on Fresh: while the death flag  *)
(* is up the fighter is where it was respawned, or still where the reset   *)
(* button put it, so that the pending motion cannot carry it out again.    *)
(***************************************************************************)
EXTENDS Fighter, TLAPS

Fresh ==
  death => \/ x = XRespawn /\ y = YRespawn
           \/ x = XReset /\ y = YReset /\ dx = 0 /\ dy = 0

IInv == TypeOK /\ Fresh

\* How the geometry enters the proofs, in a form without sets.
LEMMA Geometry ==
  /\ Word \in Nat /\ XMax \in Nat /\ YMax \in Nat
  /\ XRespawn \in Nat /\ YRespawn \in Nat
  /\ XMax + 127 <= Word /\ YMax + 3 <= Word
  /\ XReset \in Nat /\ 0 < XReset /\ XReset < XMax
  /\ YReset \in Nat /\ 0 < YReset /\ YReset < YMax
  /\ 127 < XRespawn /\ XRespawn + 127 < XMax
  /\ 3 < YRespawn /\ YRespawn + 3 < YMax
<1>1. {Word, XReset, YReset, XMax, YMax, XRespawn, YRespawn,
       Center, Width, Ceiling} \subseteq Nat
  BY FighterAssumption
<1>2. /\ Word \in Nat /\ XMax \in Nat /\ YMax \in Nat
      /\ XRespawn \in Nat /\ YRespawn \in Nat
      /\ XReset \in Nat /\ YReset \in Nat
  BY <1>1
<1> QED
  BY <1>2, FighterAssumption DEF InBounds, MaxLaunch, Speed

\* A motion moves a coordinate by its distance either way; a negative one
\* that is larger than the coordinate wraps to the end of the word.
LEMMA StepX ==
  ASSUME NEW l \in 0..127, NEW a \in Nat, 0 < a, a < XMax
  PROVE  /\ Plus(a, l) = a + l
         /\ l <= a => Plus(a, Minus(l)) = a - l
         /\ a < l => Plus(a, Minus(l)) = a + Word - l
BY Geometry DEF Plus, Minus

LEMMA StepY ==
  ASSUME NEW l \in 0..3, NEW a \in Nat, 0 < a, a < YMax
  PROVE  /\ Plus(a, l) = a + l
         /\ l <= a => Plus(a, Minus(l)) = a - l
         /\ a < l => Plus(a, Minus(l)) = a + Word - l
BY Geometry DEF Plus, Minus

\* Sums of register values are register values.
LEMMA PlusType ==
  ASSUME NEW a \in 0..Word-1, NEW b \in 0..Word-1
  PROVE  Plus(a, b) \in 0..Word-1
BY Geometry DEF Plus

LEMMA MotionType ==
  /\ Motions \subseteq 0..Word-1
  /\ {0, Speed, Minus(Speed)} \subseteq 0..Word-1
<1>1. \A l \in 0..127 : l \in 0..Word-1 /\ Minus(l) \in 0..Word-1
  BY Geometry DEF Minus
<1>2. Launches \subseteq 0..127 /\ Speed \in 0..127 /\ 0 \in 0..127
  BY FighterAssumption DEF Speed, MaxLaunch
<1> QED
  BY <1>1, <1>2 DEF Motions

\* Every x motion is a distance of at most MaxLaunch to one side, every
\* y motion one of at most Speed.
LEMMA MotionSign ==
  /\ \A m \in Motions : \E l \in 0..127 : m = l \/ m = Minus(l)
  /\ \A m \in {0, Speed, Minus(Speed)} :
       \E l \in 0..3 : m = l \/ m = Minus(l)
BY FighterAssumption DEF Motions, Speed, MaxLaunch

-----------------------------------------------------------------------------

LEMMA InitInv == Init => IInv
BY Geometry DEF Init, IInv, TypeOK, Fresh, Motions

LEMMA FrameTypes ==
  ASSUME TypeOK, NEW k \in Chords, NEW h \in BOOLEAN, NEW l \in Launches,
         Frame(k, h, l)
  PROVE  TypeOK'
<1>1. x' \in 0..Word-1 /\ y' \in 0..Word-1
  <2>1. dx \in 0..Word-1 /\ dy \in 0..Word-1
    BY MotionType DEF TypeOK
  <2>2. Plus(x, dx) \in 0..Word-1 /\ Plus(y, dy) \in 0..Word-1
    BY <2>1, PlusType DEF TypeOK
  <2>3. XRespawn \in 0..Word-1 /\ YRespawn \in 0..Word-1
    BY Geometry
  <2> QED
    BY <2>2, <2>3 DEF Frame
<1>2. dx' \in Motions
  BY DEF Frame, XMotion, Motions
<1>3. dy' \in {0, Speed, Minus(Speed)}
  BY DEF Frame, YMotion, Fall
<1>4. death' \in BOOLEAN
  BY DEF Frame, Out
<1> QED
  BY <1>1, <1>2, <1>3, <1>4 DEF TypeOK, Motions

LEMMA InvStep == IInv /\ [Next]_vars => IInv'
<1> SUFFICES ASSUME IInv, [Next]_vars
             PROVE  IInv'
  OBVIOUS
<1>1. ASSUME NEW k \in Chords, NEW h \in BOOLEAN, NEW l \in Launches,
             Frame(k, h, l)
      PROVE  IInv'
  <2>1. TypeOK'
    BY <1>1, FrameTypes DEF IInv
  <2>2. Fresh'
    BY <1>1 DEF Frame, Fresh
  <2> QED
    BY <2>1, <2>2 DEF IInv
<1>2. CASE Reset
  BY <1>2, Geometry DEF Reset, IInv, TypeOK, Fresh, Motions
<1>3. CASE UNCHANGED vars
  BY <1>3 DEF vars, IInv, TypeOK, Fresh, Motions
<1> QED
  BY <1>1, <1>2, <1>3 DEF Next

\* The inductive invariant holds in every reachable state.
LEMMA Invariance == Spec => []IInv
  BY InitInv, InvStep, PTL DEF Spec

\* Positions keep ten bits and motions are among those the code assigns
\* (ball.sv, all registers).
THEOREM TypeCorrect == Spec => []TypeOK
<1>1. IInv => TypeOK
  BY DEF IInv
<1> QED
  BY Invariance, <1>1, PTL

-----------------------------------------------------------------------------

\* How far a frame moves a fighter that is in bounds.
LEMMA Move ==
  ASSUME TypeOK, ~ Out
  PROVE  /\ \/ Abs(Plus(x, dx) - x) <= MaxLaunch
            \/ Plus(x, dx) >= XMax
         /\ \/ Abs(Plus(y, dy) - y) <= Speed
            \/ Plus(y, dy) >= YMax
<1>1. x \in Nat /\ 0 < x /\ x < XMax /\ y \in Nat /\ 0 < y /\ y < YMax
  BY Geometry DEF TypeOK, Out
<1>2. \/ Abs(Plus(x, dx) - x) <= MaxLaunch
      \/ Plus(x, dx) >= XMax
  <2>1. PICK l \in 0..127 : dx = l \/ dx = Minus(l)
    BY MotionSign DEF TypeOK
  <2>2. /\ Plus(x, l) = x + l
        /\ l <= x => Plus(x, Minus(l)) = x - l
        /\ x < l => Plus(x, Minus(l)) = x + Word - l
    BY <1>1, StepX
  <2> QED
    BY <1>1, <2>1, <2>2, Geometry DEF Abs, MaxLaunch
<1>3. \/ Abs(Plus(y, dy) - y) <= Speed
      \/ Plus(y, dy) >= YMax
  <2>1. PICK l \in 0..3 : dy = l \/ dy = Minus(l)
    BY MotionSign DEF TypeOK
  <2>2. /\ Plus(y, l) = y + l
        /\ l <= y => Plus(y, Minus(l)) = y - l
        /\ y < l => Plus(y, Minus(l)) = y + Word - l
    BY <1>1, StepY
  <2> QED
    BY <1>1, <2>1, <2>2, Geometry DEF Abs, Speed
<1> QED
  BY <1>2, <1>3

\* A fighter that leaves through one border is out, and not on the far side
\* of the arena, when its ten-bit position wraps.
THEOREM BordersHold == Spec => NoTeleport
<1>1. IInv /\ [Next]_vars =>
        [~ Out /\ (Abs(x' - x) > MaxLaunch \/ Abs(y' - y) > Speed) =>
           \/ Out'
           \/ <<x', y'>> = <<XReset, YReset>>]_vars
  <2> SUFFICES ASSUME IInv, [Next]_vars, ~ Out,
                      Abs(x' - x) > MaxLaunch \/ Abs(y' - y) > Speed
               PROVE  \/ Out'
                      \/ <<x', y'>> = <<XReset, YReset>>
    OBVIOUS
  <2>1. ASSUME NEW k \in Chords, NEW h \in BOOLEAN, NEW l \in Launches,
               Frame(k, h, l)
        PROVE  Out'
    <3>1. x' = Plus(x, dx) /\ y' = Plus(y, dy)
      BY <2>1 DEF Frame
    <3>2. /\ Abs(Plus(x, dx) - x) <= MaxLaunch \/ x' >= XMax
          /\ Abs(Plus(y, dy) - y) <= Speed \/ y' >= YMax
      BY <3>1, Move DEF IInv
    <3>3. x' \in Int /\ y' \in Int /\ x \in Int /\ y \in Int
      BY <2>1, FrameTypes DEF IInv, TypeOK
    <3> QED
      BY <3>1, <3>2, <3>3 DEF Out, Abs, MaxLaunch, Speed
  <2>2. CASE Reset
    BY <2>2 DEF Reset
  <2>3. CASE UNCHANGED vars
    <3>1. x' - x = 0 /\ y' - y = 0
      BY <2>3 DEF vars, IInv, TypeOK
    <3> QED
      BY <3>1 DEF Abs, MaxLaunch, Speed
  <2> QED
    BY <2>1, <2>2, <2>3 DEF Next
<1> QED
  BY Invariance, <1>1, PTL DEF Spec, NoTeleport

-----------------------------------------------------------------------------

\* While the flag is up, the pending motion keeps the fighter in bounds.
LEMMA Grace ==
  ASSUME IInv, death
  PROVE  InBounds(Plus(x, dx), Plus(y, dy))
<1>1. CASE x = XReset /\ y = YReset /\ dx = 0 /\ dy = 0
  BY <1>1, Geometry DEF Plus, InBounds
<1>2. CASE x = XRespawn /\ y = YRespawn
  <2>1. PICK l \in 0..127 : dx = l \/ dx = Minus(l)
    BY MotionSign DEF IInv, TypeOK
  <2>2. PICK m \in 0..3 : dy = m \/ dy = Minus(m)
    BY MotionSign DEF IInv, TypeOK
  <2>3. Plus(x, dx) \in {x + l, x - l}
    <3>1. x \in Nat /\ 0 < x /\ x < XMax /\ l <= x
      BY <1>2, Geometry
    <3>2. Plus(x, l) = x + l /\ Plus(x, Minus(l)) = x - l
      BY <3>1, StepX
    <3> QED
      BY <2>1, <3>2
  <2>4. Plus(y, dy) \in {y + m, y - m}
    <3>1. y \in Nat /\ 0 < y /\ y < YMax /\ m <= y
      BY <1>2, Geometry
    <3>2. Plus(y, m) = y + m /\ Plus(y, Minus(m)) = y - m
      BY <3>1, StepY
    <3> QED
      BY <2>2, <3>2
  <2> QED
    BY <1>2, <2>3, <2>4, Geometry DEF InBounds
<1> QED
  BY <1>1, <1>2 DEF IInv, Fresh

\* In bounds is the opposite of out.
LEMMA NotOut ==
  ASSUME NEW a \in Nat, NEW b \in Nat, x' = a, y' = b, InBounds(a, b)
  PROVE  ~ Out'
BY Geometry DEF Out, InBounds

\* A fighter implements Respawn: it is out of bounds for one frame, its
\* death flag is up for one frame, and then it is in bounds (ball.sv, the
\* final decisions).
THEOREM FighterImplementsRespawn == Spec => RespawnSpec
<1>1. Init => Respawns!Init
  BY Geometry DEF Init, Respawns!Init, Out
<1>2. IInv /\ [Next]_vars => [Respawns!Next]_(Respawns!vars)
  <2> SUFFICES ASSUME IInv, [Next]_vars
               PROVE  [Respawns!Next]_(Respawns!vars)
    OBVIOUS
  <2> USE DEF Respawns!Next, Respawns!Frame, Respawns!vars
  <2>1. ASSUME NEW k \in Chords, NEW h \in BOOLEAN, NEW l \in Launches,
               Frame(k, h, l)
        PROVE  Respawns!Frame
    <3>1. CASE Out
      <4>1. ~ Out'
        BY <2>1, <3>1, Geometry, NotOut DEF Frame, InBounds
      <4> QED
        BY <2>1, <3>1, <4>1 DEF Frame, Respawns!Die
    <3>2. CASE ~ Out
      <4>1. x' = Plus(x, dx) /\ y' = Plus(y, dy) /\ death' = FALSE
        BY <2>1, <3>2 DEF Frame
      <4>2. x' \in Nat /\ y' \in Nat
        BY <2>1, FrameTypes, Geometry DEF IInv, TypeOK
      <4>3. death => ~ Out'
        BY <4>1, <4>2, Grace, NotOut
      <4>4. Out' \in BOOLEAN
        BY DEF Out
      <4> QED
        BY <3>2, <4>1, <4>3, <4>4 DEF Respawns!Survive
    <3> QED
      BY <3>1, <3>2
  <2>2. CASE Reset
    <3>1. ~ Out'
      BY <2>2, Geometry, NotOut DEF Reset, InBounds
    <3> QED
      BY <2>2, <3>1 DEF Reset, Respawns!Reset
  <2>3. CASE UNCHANGED vars
    BY <2>3 DEF vars, Out
  <2> QED
    BY <2>1, <2>2, <2>3 DEF Next
<1> QED
  BY <1>1, <1>2, Invariance, PTL DEF Spec, RespawnSpec, Respawns!Spec

-----------------------------------------------------------------------------
(* Left alone, a fighter comes to rest.  A fall is caught by a platform     *)
(* below it, and outside the columns of the platforms it leads over the     *)
(* lower border and to the respawn point, which is above a platform.        *)

Platforms == Small \union {Big}

\* The pending motion is that of a fighter left alone.
Settled == dx = 0 /\ dy \in {0, Speed}

\* Over the rows of p that still stop the fall: a fighter that moves on
\* lands one frame later.
Over(p) ==
  /\ x > p.left /\ x < p.right /\ y < p.bottom
  /\ dy = Speed => y <= p.top + Speed

Caught == Settled /\ ~ Out /\ \E p \in Platforms : Over(p)

\* Frames left of a fall, counted generously.
Depth ==
  2 * (Word - y) + (IF dy = 0 THEN 1 ELSE 0) + (IF death THEN 1 ELSE 0)

\* A fighter that moves sideways or upwards will stop, one that stopped will
\* fall, one that falls out will respawn, and one that is caught will rest.
Rank ==
  IF Caught THEN Depth
  ELSE IF ~ Settled THEN 4 * Word + 6
  ELSE IF Out THEN 2 * Word + 3
  ELSE 2 * Word + 3 + Depth

LEMMA PlatformFacts ==
  ASSUME NEW p \in Platforms
  PROVE  /\ p.left \in Nat /\ p.right \in Nat /\ p.top \in Nat /\ p.bottom \in Nat
         /\ p.top + 6 < p.bottom /\ p.bottom <= YMax /\ p.right <= XMax
<1>1. p \in Platform
  BY FighterAssumption DEF Platforms
<1>2. p.top + 2 * Speed < p.bottom /\ p.bottom <= YMax /\ p.right <= XMax
  BY LandingAssumption DEF Platforms
<1> QED
  BY <1>1, <1>2 DEF Platform, Speed

LEMMA Standing == ~ falling <=> \E p \in Platforms : On(p)
BY DEF falling, OnSmall, Platforms

\* A frame alone: the motion that was pending is made, and the next one is a
\* fall or none.
LEMMA IdleStep ==
  ASSUME IInv, Idle
  PROVE  /\ dx' = 0
         /\ dy' = IF falling THEN Speed ELSE 0
         /\ death' = Out
         /\ x' = IF Out THEN XRespawn ELSE Plus(x, dx)
         /\ y' = IF Out THEN YRespawn ELSE Plus(y, dy)
BY DEF Idle, Frame, XMotion, YMotion, Key, Fall

\* A pending motion of a settled fighter in bounds does not wrap.
LEMMA SettledStep ==
  ASSUME IInv, Idle, Settled, ~ Out
  PROVE  x' = x /\ y' = y + dy /\ death' = FALSE
<1>1. x \in Nat /\ 0 < x /\ x < XMax /\ y \in Nat /\ 0 < y /\ y < YMax
  BY Geometry DEF IInv, TypeOK, Out
<1>2. Plus(x, dx) = x
  BY <1>1, Geometry DEF Settled, Plus
<1>3. Plus(y, dy) = y + dy
  BY <1>1, StepY DEF Settled, Speed
<1> QED
  BY <1>2, <1>3, IdleStep

LEMMA DepthStep ==
  ASSUME IInv, Settled, ~ Out, Settled', y' = y + dy, death' = FALSE,
         dy = 0 => dy' # 0 \/ death
  PROVE  Depth \in Nat /\ Depth' \in Int /\ Depth' < Depth
<1>1. y \in Nat /\ y < Word /\ Word \in Nat
  BY Geometry DEF IInv, TypeOK
<1>2. CASE dy = Speed
  BY <1>1, <1>2 DEF Depth, Settled, Speed
<1>3. CASE dy = 0
  <2>1. y' = y
    BY <1>1, <1>3
  <2> QED
    BY <1>1, <1>3, <2>1 DEF Depth, Settled, Speed
<1> QED
  BY <1>2, <1>3 DEF Settled

\* The ranks of the four stages do not overlap.
LEMMA DepthType ==
  ASSUME IInv
  PROVE  Depth \in 0 .. 2 * Word + 2
<1>1. y \in Nat /\ y < Word /\ Word \in Nat
  BY Geometry DEF IInv, TypeOK
<1> QED
  BY <1>1 DEF Depth

LEMMA RankType ==
  ASSUME IInv
  PROVE  /\ Rank \in 0 .. 4 * Word + 6
         /\ Settled => Rank < 4 * Word + 6
         /\ Caught => Rank < 2 * Word + 3
BY DepthType, Geometry DEF Rank, Caught

LEMMA DepthBounds ==
  ASSUME NEW a \in Nat, a < Word, NEW b \in {0, 1}, NEW c \in {0, 1}
  PROVE  2 * (Word - a) + b + c \in 0 .. 2 * Word + 2
BY Geometry

LEMMA Shift ==
  ASSUME NEW a \in Int, NEW b \in Int, a < b
  PROVE  2 * Word + 3 + a < 2 * Word + 3 + b
BY Geometry

LEMMA FarShift ==
  ASSUME NEW a \in 0 .. 2 * Word + 2
  PROVE  2 * Word + 3 + a < 4 * Word + 6
BY Geometry

LEMMA NextRankType ==
  ASSUME IInv'
  PROVE  /\ Settled' => Rank' < 4 * Word + 6
         /\ Caught' => Rank' < 2 * Word + 3
<1>1. y' \in Nat /\ y' < Word /\ Word \in Nat
  BY Geometry DEF IInv, TypeOK
<1>2. Depth' \in 0 .. 2 * Word + 2
  <2> DEFINE b == IF dy' = 0 THEN 1 ELSE 0
             c == IF death' THEN 1 ELSE 0
  <2>1. Depth' = 2 * (Word - y') + b + c
    BY DEF Depth
  <2>2. b \in {0, 1} /\ c \in {0, 1}
    OBVIOUS
  <2> QED
    BY <1>1, <2>1, <2>2, DepthBounds
<1>3. CASE Caught'
  <2>1. Rank' = Depth'
    BY <1>3 DEF Rank
  <2> QED
    BY <1>1, <1>2, <2>1
<1>4. CASE ~ Caught' /\ Settled' /\ Out'
  <2>1. Rank' = 2 * Word + 3
    BY <1>4 DEF Rank
  <2> QED
    BY <1>1, <1>4, <2>1, Geometry
<1>5. CASE ~ Caught' /\ Settled' /\ ~ Out'
  <2>1. Rank' = 2 * Word + 3 + Depth'
    BY <1>5 DEF Rank
  <2>2. 2 * Word + 3 + Depth' < 4 * Word + 6
    BY <1>2, FarShift
  <2> QED
    BY <1>1, <1>5, <2>1, <2>2
<1> QED
  BY <1>3, <1>4, <1>5

\* Whoever respawns is caught.
LEMMA RespawnIsCaught ==
  ASSUME IInv, IInv', Idle, Out
  PROVE  Caught'
<1>1. x' = XRespawn /\ y' = YRespawn /\ dx' = 0 /\ dy' \in {0, Speed}
  BY IdleStep
<1>2. ~ Out'
  BY <1>1, Geometry, NotOut DEF InBounds
<1>3. PICK p \in Platforms :
        p.left < XRespawn /\ XRespawn < p.right /\ YRespawn <= p.top
  BY LandingAssumption DEF Platforms
<1>4. YRespawn < p.bottom /\ YRespawn <= p.top + Speed
  BY <1>3, PlatformFacts, Geometry DEF Speed
<1>5. Over(p)'
  BY <1>1, <1>3, <1>4, PlatformFacts, Geometry DEF Over
<1> QED
  BY <1>1, <1>2, <1>5 DEF Caught, Settled

\* A fall that is caught stays caught: no platform is thinner than it takes.
LEMMA StaysCaught ==
  ASSUME IInv, IInv', Idle, Caught
  PROVE  Caught'
<1> PICK p \in Platforms : Over(p)
  BY DEF Caught
<1>1. x' = x /\ y' = y + dy /\ dx' = 0 /\ dy' = IF falling THEN Speed ELSE 0
  BY IdleStep, SettledStep DEF Caught
<1>2. /\ x \in Nat /\ 0 < x /\ x < XMax /\ y \in Nat /\ 0 < y /\ y < YMax
      /\ x > p.left /\ x < p.right /\ y < p.bottom
  BY Geometry DEF IInv, TypeOK, Out, Caught, Over
<1>3. ~ On(p) => y <= p.top
  BY <1>2, PlatformFacts DEF On
<1>4. ~ On(p) \/ ~ falling
  BY Standing
<1>5. y + dy < p.bottom /\ (falling => y + dy <= p.top + Speed)
  <2>1. CASE dy = 0
    BY <2>1, <1>2, <1>3, <1>4, PlatformFacts DEF Speed
  <2>2. CASE dy = Speed
    BY <2>2, <1>2, <1>3, <1>4, PlatformFacts DEF Speed, Over
  <2> QED
    BY <2>1, <2>2 DEF Caught, Settled
<1>6. dy' = Speed => falling
  BY <1>1 DEF Speed
<1>7. Over(p)'
  BY <1>1, <1>2, <1>5, <1>6 DEF Over
<1>8. ~ Out'
  <2>1. y + dy \in Nat /\ 0 < y + dy /\ y + dy < YMax
    <3>1. dy \in Nat
      BY DEF Caught, Settled, Speed
    <3> QED
      BY <3>1, <1>2, <1>5, PlatformFacts, Geometry
  <2> QED
    BY <1>1, <1>2, <2>1, NotOut DEF InBounds
<1> QED
  BY <1>1, <1>7, <1>8 DEF Caught, Settled

\* A fighter at rest is on a platform and inside the borders.
LEMMA RestIsCaught ==
  ASSUME IInv, AtRest
  PROVE  Caught
<1> PICK p \in Platforms : On(p)
  BY Standing DEF AtRest
<1>1. x \in Nat /\ y \in Nat /\ x > p.left /\ x < p.right /\ y > p.top /\ y < p.bottom
  BY Geometry DEF On, IInv, TypeOK
<1>2. ~ Out
  BY <1>1, PlatformFacts, Geometry DEF Out
<1> QED
  BY <1>1, <1>2 DEF AtRest, Caught, Settled, Over, Speed

LEMMA IdleProgress ==
  ASSUME IInv, IInv', Idle
  PROVE  IF AtRest THEN UNCHANGED vars ELSE Rank' < Rank
<1>0. Settled'
  BY IdleStep DEF Settled
<1>1. CASE AtRest
  <2>1. Caught /\ dx = 0 /\ dy = 0
    BY <1>1, RestIsCaught DEF AtRest
  <2>2. x' = x /\ y' = y /\ death' = FALSE /\ dx' = 0 /\ dy' = 0
    <3>1. x' = x /\ y' = y + dy /\ death' = FALSE
      BY <2>1, SettledStep DEF Caught
    <3>2. dx' = 0 /\ dy' = 0
      BY <1>1, IdleStep DEF AtRest
    <3>3. y + dy = y
      BY <2>1 DEF IInv, TypeOK
    <3> QED
      BY <3>1, <3>2, <3>3
  <2>3. death = FALSE
    BY <1>1 DEF AtRest, IInv, TypeOK
  <2> QED
    BY <1>1, <2>1, <2>2, <2>3 DEF vars
<1>2. CASE Caught /\ ~ AtRest
  <2>1. Caught'
    BY <1>2, StaysCaught
  <2>2. y' = y + dy /\ death' = FALSE
    BY <1>2, SettledStep DEF Caught
  <2>3. dy = 0 => dy' # 0 \/ death
    BY <1>2, IdleStep DEF AtRest, Caught, Settled, Speed
  <2>4. Depth' < Depth
    BY <1>0, <1>2, <2>2, <2>3, DepthStep DEF Caught
  <2> QED
    BY <1>2, <2>1, <2>4 DEF Rank
<1>3. CASE ~ Caught /\ ~ Settled
  <2>1. Rank' < 4 * Word + 6
    BY <1>0, NextRankType
  <2>2. Rank = 4 * Word + 6
    BY <1>3 DEF Rank
  <2> QED
    BY <1>3, <2>1, <2>2, RestIsCaught
<1>4. CASE ~ Caught /\ Settled /\ Out
  <2>1. Rank' < 2 * Word + 3
    BY <1>4, RespawnIsCaught, NextRankType
  <2>2. Rank = 2 * Word + 3
    BY <1>4 DEF Rank
  <2> QED
    BY <1>4, <2>1, <2>2, RestIsCaught
<1>5. CASE ~ Caught /\ Settled /\ ~ Out
  <2>1. x' = x /\ y' = y + dy /\ death' = FALSE
    BY <1>5, SettledStep
  <2>2. dy = 0 => dy' # 0
    <3> SUFFICES ASSUME dy = 0 PROVE falling
      BY IdleStep DEF Speed
    <3>1. \A p \in Platforms : On(p) => Over(p)
      BY DEF On, Over, Speed
    <3> QED
      BY <1>5, <3>1, Standing DEF Caught
  <2>3. Depth \in Nat /\ Depth' \in Int /\ Depth' < Depth
    BY <1>0, <1>5, <2>1, <2>2, DepthStep
  <2>4. Depth > 0
    <3>1. y \in Nat /\ y < Word /\ Word \in Nat
      BY Geometry DEF IInv, TypeOK
    <3> QED
      BY <3>1 DEF Depth
  <2>5. Rank = 2 * Word + 3 + Depth
    BY <1>5 DEF Rank
  <2>6. CASE Caught'
    <3>1. Rank' < 2 * Word + 3
      BY <2>6, NextRankType
    <3>2. Rank' \in Int
      BY <2>3, <2>6 DEF Rank
    <3> QED
      BY <1>5, <2>3, <2>5, <3>1, <3>2, RestIsCaught, Geometry
  <2>7. CASE ~ Caught' /\ Out'
    <3>1. Rank' = 2 * Word + 3
      BY <1>0, <2>7 DEF Rank
    <3> QED
      BY <1>5, <2>3, <2>4, <2>5, <3>1, RestIsCaught, Geometry
  <2>8. CASE ~ Caught' /\ ~ Out'
    <3>1. Rank' = 2 * Word + 3 + Depth'
      BY <1>0, <2>8 DEF Rank
    <3> QED
      BY <1>5, <2>3, <2>5, <3>1, RestIsCaught, Shift
  <2> QED
    BY <2>6, <2>7, <2>8
<1> QED
  BY <1>1, <1>2, <1>3, <1>4, <1>5, RestIsCaught

\* How long the fighter may take, and that no frame is lost on the way: the
\* part of Landing that holds frame by frame (ball.sv, the motion of a frame
\* in which no key is down).  At rest such a frame changes nothing, so the
\* fairness of FairSpec asks for no step there.
THEOREM FallsEnd ==
  Spec => /\ [](Rank \in 0 .. 4 * Word + 6)
          /\ [][Idle => ~ AtRest /\ Rank' < Rank]_vars
<1>1. IInv => Rank \in 0 .. 4 * Word + 6
  BY RankType
<1>2. IInv /\ IInv' /\ [Next]_vars =>
        [Idle => ~ AtRest /\ Rank' < Rank]_vars
  BY IdleProgress
<1> QED
  BY <1>1, <1>2, Invariance, PTL DEF Spec

\* A fall does not slip through a platform, whatever the player does: a frame
\* that begins over a platform's rows and stays between its borders ends
\* over its lower edge (ball.sv, the eight rows of each platform).
THEOREM FallsAreCaught ==
  Spec => [][\A p \in Platforms :
               /\ ~ Out /\ y <= p.top
               /\ \E k \in Chords, h \in BOOLEAN, l \in Launches : Frame(k, h, l)
               => y' < p.bottom \/ Out']_vars
<1>1. ASSUME IInv, NEW p \in Platforms, ~ Out, y <= p.top,
             NEW k \in Chords, NEW h \in BOOLEAN, NEW l \in Launches,
             Frame(k, h, l)
      PROVE  y' < p.bottom \/ Out'
  <2>1. y' = Plus(y, dy) /\ y' \in Int /\ y \in Int
    BY <1>1, FrameTypes DEF Frame, IInv, TypeOK
  <2>2. Abs(Plus(y, dy) - y) <= Speed \/ Plus(y, dy) >= YMax
    BY <1>1, Move DEF IInv
  <2>3. CASE y' >= YMax
    BY <2>3 DEF Out
  <2>4. CASE Abs(y' - y) <= Speed
    BY <1>1, <2>1, <2>4, PlatformFacts DEF Abs, Speed
  <2> QED
    BY <2>1, <2>2, <2>3, <2>4
<1>2. IInv /\ [Next]_vars =>
        [\A p \in Platforms :
           /\ ~ Out /\ y <= p.top
           /\ \E k \in Chords, h \in BOOLEAN, l \in Launches : Frame(k, h, l)
           => y' < p.bottom \/ Out']_vars
  BY <1>1
<1> QED
  BY <1>2, Invariance, PTL DEF Spec
=============================================================================
