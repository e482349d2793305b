-------------------------------- MODULE Game --------------------------------
(***************************************************************************)
(* The game of lab62.sv: the referee, the two fighters and the clocks that *)
(* drive them.  The fighters are abstracted to Respawn, which Fighter is   *)
(* shown to implement, so a Frame here may be any frame there.             *)
(*                                                                         *)
(* The referee runs on the pixel clock and sees the fighters' flags as     *)
(* levels; the fighters run on the vertical sync, which itself rises on a  *)
(* pixel clock edge: once per frame, and on the first edge after a reset,  *)
(* because the reset drives the sync low.  clock counts the edges left     *)
(* until the sync rises; at 0 it has risen and the fighters move next.     *)
(***************************************************************************)
EXTENDS Control

CONSTANT FramePeriod  \* pixel clock edges in a frame: 800 * 525 = 420000

\* Ball_X_reset and Ball_Y_reset of the two fighters.
Spawn == <<[x |-> 460, y |-> 230], [x |-> 150, y |-> 230]>>

\* A frame is long enough for the debouncer to see a flag fall and settle.
ASSUME GameAssumption ==
  /\ FramePeriod \in Nat /\ FramePeriod >= 3
  /\ \A p \in Players : Spawn[p] \in Positions

VARIABLES
  out,      \* whether each fighter is out of bounds
  clock,    \* pixel clock edges until the vertical sync rises
  deaths    \* history: deaths of each player that count in this match, mod 4

gameVars == <<vars, out, clock, deaths>>

Fighter(p) == INSTANCE Respawn WITH out <- out[p], death <- death[p]

\* A death flag is up, or its fall has not yet reached the life counter.
Pending(p) == death[p] \/ debounce[p] # 0

-----------------------------------------------------------------------------

GameInit ==
  /\ Init
  /\ pos = Spawn
  /\ out = [p \in Players |-> FALSE]
  /\ clock = 1
  /\ deaths = [p \in Players |-> 0]

PixelClock ==
  /\ clock > 0
  /\ clock' = clock - 1
  /\ Tick
  /\ deaths' = [p \in Players |-> IF ~ Start THEN deaths[p]
                                  ELSE IF Pending(p)' THEN 1 ELSE 0]
  /\ UNCHANGED out

\* The sync rose: both fighters run one frame.
Frame ==
  /\ clock = 0
  /\ clock' = FramePeriod
  /\ out' \in [Players -> BOOLEAN]
  /\ \E d \in [Players -> BOOLEAN], q \in [Players -> Positions] :
       MoveFighters(d, q)
  /\ \A p \in Players : Fighter(p)!Frame
  /\ deaths' = [p \in Players |-> IF death'[p] /\ ~ Start
                                  THEN (deaths[p] + 1) % 4 ELSE deaths[p]]

\* KEY[0] resets all modules of lab62.sv but the processor.  The fighters
\* keep their death flags, the counters their lives.
ResetButton ==
  /\ Reset
  /\ pos' = Spawn
  /\ out' = [p \in Players |-> FALSE]
  /\ \A p \in Players : Fighter(p)!Reset
  /\ clock' = 1
  /\ UNCHANGED deaths

Type(k) == WriteKeys(k) /\ UNCHANGED <<out, clock, deaths>>

GameNext ==
  \/ PixelClock
  \/ Frame
  \/ ResetButton
  \/ \E k \in Chords : Type(k)

GameSpec == GameInit /\ [][GameNext]_gameVars

\* The oscillator never stops.
GameFairSpec == GameSpec /\ WF_gameVars(PixelClock) /\ WF_gameVars(Frame)

-----------------------------------------------------------------------------
(* Properties.                                                             *)

\* In a match (and on its end screen) every player has exactly three lives
\* less one for each death, modulo the two bits of the counter: no death is
\* missed and none counted twice, although the counter watches a level that
\* another clock raises and drops.  Flags that were up when the match began
\* count as deaths of the match: the start screen does not clear them.
OneLifePerDeath ==
  state # "ready" =>
    \A p \in Players :
      (lives[p] + deaths[p]) % 4 = IF Pending(p) THEN 0 ELSE 3

\* A fighter comes back without damage: from the first clock edge that sees
\* the death flag until the flag falls, no blow counts.
NoDamageWhileDead ==
  \A p \in Players : death[p] /\ debounce[p] = 1 => hp[p] = 0

\* A match in which a player keeps dying ends: every death reaches the life
\* counter, and the counter reaches zero before it could wrap.
DyingEndsMatch ==
  \A p \in Players : []<>death[p] => (state = "play" ~> state # "play")

\* Type invariant of the composition.
GameTypeOK ==
  /\ TypeOK
  /\ out \in [Players -> BOOLEAN]
  /\ clock \in 0..FramePeriod
  /\ deaths \in [Players -> 0..3]
=============================================================================
