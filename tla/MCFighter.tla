----------------------------- MODULE MCFighter -----------------------------
(* Model of Fighter for TLC, with the real arena of ball.sv. *)
EXTENDS Fighter

MarioBig   == [left |-> 102, right |-> 494, top |-> 226, bottom |-> 234]
MarioSmall == {[left |-> 153, right |-> 255, top |-> 156, bottom |-> 164],
               [left |-> 324, right |-> 443, top |-> 156, bottom |-> 164]}

MCChords == {{}, {"left"}, {"right"}, {"down"}, {"left", "up"}, {"up"}}
=============================================================================
