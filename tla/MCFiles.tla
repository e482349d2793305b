------------------------------ MODULE MCFiles ------------------------------
(***************************************************************************)
(* Three descriptors beyond the standard streams, two devices, one file      *)
(* system.                                                                 *)
(***************************************************************************)
EXTENDS Files
=============================================================================
