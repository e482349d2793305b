------------------------------- MODULE MCKeys -------------------------------
(* Instances of Keys for TLC.                                              *)
EXTENDS Keys, TLC

\* Three keys, then the last two of them and a new one, then the new one alone
\* with nothing; from there all are released or pressed again.
MCContents == (0 :> <<11, 12, 13, 0>>) @@ (1 :> <<12, 13, 14, 15>>) @@ (2 :> <<0, 0, 0, 0>>)
=============================================================================
