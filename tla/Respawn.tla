------------------------------ MODULE Respawn ------------------------------
(***************************************************************************)
(* What the rest of the game may rely on about a fighter, whatever its     *)
(* keys, the hits it takes and the arena it moves in: once out of bounds   *)
(* it is back in bounds one frame later, the death flag is up for exactly  *)
(* the frame after that, and it is not out again as soon as the flag falls.*)
(***************************************************************************)

VARIABLES
  out,     \* the position is outside the borders
  death    \* the death flag

vars == <<out, death>>

Init == out = FALSE /\ death \in BOOLEAN

Die == out /\ out' = FALSE /\ death' = TRUE

Survive ==
  /\ ~ out
  /\ out' \in BOOLEAN
  /\ death => ~ out'
  /\ death' = FALSE

Frame == Die \/ Survive

\* The reset button: back to the start position, the flag as it was.
Reset == out' = FALSE /\ UNCHANGED death

Next == Frame \/ Reset

Spec == Init /\ [][Next]_vars
=============================================================================
