------------------------------ MODULE Fighter ------------------------------
(***************************************************************************)
(* A fighter: modules ball (ball.sv, player 1) and ball2 (ball2.sv, player *)
(* 2), which differ in their parameters and keys only.                     *)
(*                                                                         *)
(* Frame is one rising edge of frame_clk, the VGA vertical sync.  All      *)
(* registers are read before any is written, so the position moves by the  *)
(* motion computed one frame earlier, and the motion follows from the keys *)
(* and the position of this one.  x and y are the sprite's top left corner *)
(* and y grows downwards; registers are unsigned, so a motion to the left  *)
(* or upwards is a large number and the sum with the position wraps.       *)
(***************************************************************************)
EXTENDS Integers

CONSTANTS
  Word,                 \* values of a position register: 2^10
  XReset, YReset,       \* Ball_X_reset, Ball_Y_reset
  XMax, YMax,           \* Ball_X_Max, Ball_Y_Max; the minima are 0
  XRespawn, YRespawn,   \* Ball_X_revive - 30, Ball_Y_revive
  Center,               \* hits push away from this column
  Width,                \* Ball_Width
  Big,                  \* the big platform
  Small,                \* the small platforms
  Ceiling,              \* below this line the big platform blocks flight
  Launches,             \* the values launch_dist[11:5] may have
  Chords                \* the sets of keys that may be down together

Speed == 3

\* Columns and rows on which a fighter stands: left < x < right and
\* top < y < bottom, the rows being one sprite height above the platform.
Platform == [left : Nat, right : Nat, top : Nat, bottom : Nat]

Directions == {"left", "right", "down", "up"}

MaxLaunch == 127        \* launch_dist[11:5] has seven bits

InBounds(a, b) == a > 0 /\ a < XMax /\ b > 0 /\ b < YMax

\* A launch may carry a fighter over a border, but no launch is long enough
\* to wrap around to the far side, nor to kill right after a respawn.
ASSUME FighterAssumption ==
  /\ {Word, XReset, YReset, XMax, YMax, XRespawn, YRespawn,
      Center, Width, Ceiling} \subseteq Nat
  /\ XMax + MaxLaunch <= Word /\ YMax + Speed <= Word
  /\ InBounds(XReset, YReset)
  /\ InBounds(XRespawn - MaxLaunch, YRespawn - Speed)
  /\ InBounds(XRespawn + MaxLaunch, YRespawn + Speed)
  /\ Big \in Platform /\ Small \subseteq Platform
  /\ Launches \subseteq 0..MaxLaunch
  /\ Chords \subseteq SUBSET Directions

\* A platform has rows enough to stop a fall, whose motion is one frame late,
\* and lies inside the borders; the fighters respawn above one.
ASSUME LandingAssumption ==
  /\ \A p \in Small \union {Big} :
       p.top + 2 * Speed < p.bottom /\ p.bottom <= YMax /\ p.right <= XMax
  /\ \E p \in Small \union {Big} :
       p.left < XRespawn /\ XRespawn < p.right /\ YRespawn <= p.top

VARIABLES
  x, y,       \* Ball_X_Pos, Ball_Y_Pos
  dx, dy,     \* Ball_X_Motion, Ball_Y_Motion
  death       \* death

vars == <<x, y, dx, dy, death>>

-----------------------------------------------------------------------------

\* Sum and negation of two register values, modulo Word.
Plus(a, b) == IF a + b >= Word THEN a + b - Word ELSE a + b

Minus(a) == IF a = 0 THEN 0 ELSE Word - a

\* Plausible bug: the rows of a platform are fewer than Speed.
On_Narrow(p) == x > p.left /\ x < p.right /\ y = p.bottom - 1

On(p) == x > p.left /\ x < p.right /\ y > p.top /\ y < p.bottom

OnSmall == \E p \in Small : On(p)

falling == ~ (On(Big) \/ OnSmall)

\* Plausible bug: the borders are compared for equality.
Out_Equal == y = YMax \/ y = 0 \/ x = XMax \/ x = 0

\* Out of bounds: over one of the four borders.
Out == y >= YMax \/ y = 0 \/ x >= XMax \/ x = 0

\* Under the big platform, where a fighter cannot rise.
Blocked == x > Big.left /\ x < Big.right - Width /\ y > Ceiling

\* The key that counts when several are down.
Key(k) ==
  IF "left" \in k THEN "left" ELSE IF "right" \in k THEN "right"
  ELSE IF "down" \in k THEN "down" ELSE IF "up" \in k THEN "up" ELSE "none"

\* A hit overrides the keys and pushes away from the center.
XMotion(key, hit, launch) ==
  IF hit THEN IF x >= Center THEN launch ELSE Minus(launch)
  ELSE CASE key = "left"  -> Minus(Speed)
         [] key = "right" -> Speed
         [] OTHER         -> 0

Fall == IF falling THEN Speed ELSE 0

YMotion(key) ==
  CASE key = "up"   -> IF Blocked THEN 0 ELSE Minus(Speed)
    [] key = "down" -> IF OnSmall THEN Speed ELSE Fall
    [] OTHER        -> Fall

-----------------------------------------------------------------------------

\* The reset button was pressed; it does not clear the death flag.
Init ==
  /\ x = XReset /\ y = YReset
  /\ dx = 0 /\ dy = 0
  /\ death \in BOOLEAN

\* Plausible bug: a fall does not bring the fighter back to the middle.
Frame_KeepsColumn(k, hit, launch) ==
  /\ dx' = XMotion(Key(k), hit, launch)
  /\ dy' = YMotion(Key(k))
  /\ death' = Out
  /\ x' = IF x >= XMax \/ x = 0 THEN XRespawn ELSE Plus(x, dx)
  /\ y' = IF Out THEN YRespawn ELSE Plus(y, dy)

Frame(k, hit, launch) ==
  /\ dx' = XMotion(Key(k), hit, launch)
  /\ dy' = YMotion(Key(k))
  /\ death' = Out
  /\ x' = IF Out THEN XRespawn ELSE Plus(x, dx)
  /\ y' = IF Out THEN YRespawn ELSE Plus(y, dy)

Reset ==
  /\ x' = XReset /\ y' = YReset
  /\ dx' = 0 /\ dy' = 0
  /\ UNCHANGED death

\* A frame in which the player touches nothing and nobody hits.
Idle == Frame({}, FALSE, 0)

Next ==
  \/ \E k \in Chords, h \in BOOLEAN, l \in Launches : Frame(k, h, l)
  \/ Reset

Spec == Init /\ [][Next]_vars

\* Frames keep coming, and a fighter left alone gets the one it is due.  Idle
\* changes nothing at rest, so a fighter may rest for ever; a player who never
\* lets go of the keys is left out, and Landing says nothing of those.
FairSpec == Spec /\ WF_vars(Idle)

-----------------------------------------------------------------------------
(* Properties.                                                             *)

\* Registers keep their width, motions are one of the few the code sets.
Motions ==
  {0, Speed, Minus(Speed)} \union Launches \union {Minus(l) : l \in Launches}

TypeOK ==
  /\ x \in 0..Word-1 /\ y \in 0..Word-1
  /\ dx \in Motions /\ dy \in {0, Speed, Minus(Speed)}
  /\ death \in BOOLEAN

Abs(n) == IF n < 0 THEN -n ELSE n

\* A fighter who leaves the arena through one border never reappears alive
\* on the far side: when the ten-bit position wraps, it lands where the
\* next frame counts it as out.
NoTeleport ==
  [][~ Out /\ (Abs(x' - x) > MaxLaunch \/ Abs(y' - y) > Speed) =>
       \/ Out'
       \/ <<x', y'>> = <<XReset, YReset>>]_vars

\* Seen from outside, a fighter is a Respawn: see there.
Respawns == INSTANCE Respawn WITH out <- Out

RespawnSpec == Respawns!Spec

\* Left alone, a fighter comes to rest on a platform, wherever it is in the
\* arena and however fast it flies: no fall slips through a platform's
\* rows, and whoever falls past the platforms is respawned above one.
AtRest == ~ falling /\ dx = 0 /\ dy = 0 /\ ~ death

Landing == <>[][Idle]_vars => <>[]AtRest
=============================================================================
