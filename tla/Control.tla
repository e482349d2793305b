------------------------------ MODULE Control ------------------------------
(***************************************************************************)
(* The referee of the game: module controllogic of control.sv with its two *)
(* life_counter, two hp_counter and two signal_debounce instances.         *)
(*                                                                         *)
(* One Tick is one rising edge of VGA_Clk: every register takes the value  *)
(* its combinational logic computed from the values before the edge.  The  *)
(* inputs change between edges: the four keycode registers are written by  *)
(* the processor, positions and death flags by the fighters, and Reset is  *)
(* the asynchronous push button.  While the button is held the pixel clock *)
(* is frozen (VGA_controller.sv drives clkdiv, which is VGA_Clk, to 0), so *)
(* press, hold and release are one step.                                   *)
(***************************************************************************)
EXTENDS Integers

CONSTANTS
  HpWord,     \* number of values of the hp register: 2^12 in the hardware
  Positions,  \* the sprite positions [x, y] the fighters may report
  Chords      \* the sets of keys that may be down together

\* The keys the referee looks for: 8'h2C, 8'h15, 8'h08 and 8'h38.
Keys == {"space", "R", "E", "slash"}

ASSUME ControlAssumption ==
  /\ HpWord \in Nat \ {0}
  /\ Positions \subseteq [x : Nat, y : Nat]
  /\ Chords \subseteq SUBSET Keys

Players == {1, 2}

VARIABLES
  state,      \* enum {ready, play, endgame} current_state
  lives,      \* life_counter.data of each player, two bits
  hp,         \* hp_counter.data of each player
  debounce,   \* signal_debounce.current_state of each player
  keys,       \* keys found in keycode_1 .. keycode_4
  death,      \* death_c1, death_c2
  pos         \* c1x, c1y and c2x, c2y

registers == <<state, lives, hp, debounce>>
inputs    == <<keys, death, pos>>
vars      == <<registers, inputs>>

-----------------------------------------------------------------------------
(* Combinational logic.                                                    *)

\* Bounding boxes overlap.  The literals are 32 bits wide, so the sums of
\* 10-bit positions do not wrap.
Touching(p, q) ==
  /\ p.x + 40 >= q.x /\ p.x <= q.x + 60
  /\ p.y + 60 >= q.y /\ p.y <= q.y + 60

\* hit_c1 needs '/' (player 2 attacks), hit_c2 needs E (player 1 attacks).
Hit(p) ==
  /\ (IF p = 1 THEN "slash" ELSE "E") \in keys
  /\ Touching(pos[1], pos[2])

Trigger(p) == debounce[p] = 2

\* gameover_c1, gameover_c2.  The FSM's own signal gameover, which would
\* clear the counters, is 0 in every state.
Dead(p) == lives[p] = 0

Start == state = "ready"

Screen ==
  CASE state = "ready"   -> 0
    [] state = "play"    -> 1
    [] state = "endgame" -> IF Dead(1) THEN 2 ELSE 3

NextState ==
  CASE state = "ready"   -> IF "space" \in keys THEN "play" ELSE "ready"
    [] state = "play"    -> IF \E p \in Players : Dead(p)
                            THEN "endgame" ELSE "play"
    [] state = "endgame" -> IF "R" \in keys THEN "ready" ELSE "endgame"

NextLives(p) ==
  IF Start THEN 3
  ELSE IF Trigger(p) THEN (lives[p] + 3) % 4   \* data - 1, two bits
  ELSE lives[p]

\* Plausible bug: the start screen does not clear the damage.
NextHp_KeepsDamage(p) ==
  IF death[p] THEN 0
  ELSE IF Hit(p) THEN (hp[p] + 1) % HpWord ELSE hp[p]

\* Plausible bug: a death does not clear the damage.
NextHp_SurvivesDeath(p) ==
  IF Start THEN 0 ELSE IF Hit(p) THEN (hp[p] + 1) % HpWord ELSE hp[p]

NextHp(p) ==
  IF death[p] \/ Start THEN 0
  ELSE IF Hit(p) THEN (hp[p] + 1) % HpWord
  ELSE hp[p]

\* Plausible bug: the debouncer fires while the flag is high.
NextDebounce_Level(p) ==
  CASE debounce[p] = 0 -> IF death[p] THEN 1 ELSE 0
    [] debounce[p] = 1 -> IF death[p] THEN 2 ELSE 0
    [] debounce[p] = 2 -> IF death[p] THEN 2 ELSE 0
    [] OTHER           -> 0

\* Plausible bug: a fall of the flag does not fire.
NextDebounce_Deaf(p) ==
  IF debounce[p] = 0 /\ death[p] THEN 1
  ELSE IF debounce[p] = 1 /\ death[p] THEN 1 ELSE 0

\* Waits for the signal to rise, then to fall, then fires for one clock.
NextDebounce(p) ==
  CASE debounce[p] = 0 -> IF death[p] THEN 1 ELSE 0
    [] debounce[p] = 1 -> IF death[p] THEN 1 ELSE 2
    [] OTHER           -> 0

-----------------------------------------------------------------------------
(* The registers without a reset (lives, hp, and the fighters' death       *)
(* flags) hold an unspecified value when the button is released.           *)

Init ==
  /\ state = "ready"
  /\ debounce = [p \in Players |-> 0]
  /\ lives \in [Players -> 0..3]
  /\ hp \in [Players -> 0..HpWord-1]
  /\ keys = {}
  /\ death \in [Players -> BOOLEAN]
  /\ pos \in [Players -> Positions]

Tick ==
  /\ state' = NextState
  /\ lives' = [p \in Players |-> NextLives(p)]
  /\ hp' = [p \in Players |-> NextHp(p)]
  /\ debounce' = [p \in Players |-> NextDebounce(p)]
  /\ UNCHANGED inputs

\* KEY[0]: clears the registers that have an asynchronous reset, only those,
\* and moves the fighters.
Reset ==
  /\ state' = "ready"
  /\ debounce' = [p \in Players |-> 0]
  /\ pos' \in [Players -> Positions]
  /\ UNCHANGED <<lives, hp, keys, death>>

\* The processor writes a keycode register.
WriteKeys(k) ==
  /\ keys' = k
  /\ UNCHANGED <<registers, death, pos>>

\* A frame clock edge: the fighters publish new positions and death flags.
MoveFighters(d, q) ==
  /\ death' = d
  /\ pos' = q
  /\ UNCHANGED <<registers, keys>>

Next ==
  \/ Tick
  \/ Reset
  \/ \E k \in Chords : WriteKeys(k)
  \/ \E d \in [Players -> BOOLEAN], q \in [Players -> Positions] :
       MoveFighters(d, q)

Spec == Init /\ [][Next]_vars

-----------------------------------------------------------------------------
(* Properties.                                                             *)

\* Every register holds a value of its width; debounce value 3 is unused.
TypeOK ==
  /\ state \in {"ready", "play", "endgame"}
  /\ lives \in [Players -> 0..3]
  /\ hp \in [Players -> 0..HpWord-1]
  /\ debounce \in [Players -> 0..2]
  /\ keys \subseteq Keys
  /\ death \in [Players -> BOOLEAN]
  /\ pos \in [Players -> Positions]

\* While a match is on, the two-bit life counters never wrap: a clock edge
\* leaves a player's lives alone or takes exactly one away.  The play state
\* lasts one clock longer than the last life, and the counter has no guard
\* of its own; what saves it is that the debouncer cannot fire twice in a row.
NoWrapInPlay ==
  [][state = "play" =>
       \A p \in Players : lives'[p] \in {lives[p], lives[p] - 1}]_vars

\* A match begins with three lives and no damage on both sides, whatever the
\* counters held before, even if space was already down when R or the reset
\* button led back to the start screen.
FreshMatch ==
  [][state # "play" /\ state' = "play" =>
       \A p \in Players : lives'[p] = 3 /\ hp'[p] = 0]_vars

\* The verdict shown when a match ends is one the lives justify: screen 2
\* (player 1 lost) or 3 (player 2 lost) names a player without lives, also
\* when the other one loses the last life on that very clock edge.
JustVerdict ==
  [][state = "play" /\ state' = "endgame" =>
       /\ Screen' = 2 => lives'[1] = 0
       /\ Screen' = 3 => lives'[2] = 0]_vars
=============================================================================
