------------------------------- MODULE MCGame -------------------------------
(* Model of Game for TLC: the two spawn points as positions (on the same one *)
(* the fighters touch) and a frame of three clock edges, the shortest that   *)
(* GameAssumption allows.                                                    *)
EXTENDS Game

MCPositions == {[x |-> 460, y |-> 230], [x |-> 150, y |-> 230]}

MCChords == {{}, {"space"}, {"R", "slash"}, {"E", "slash"}}
=============================================================================
