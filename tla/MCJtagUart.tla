----------------------------- MODULE MCJtagUart -----------------------------
(***************************************************************************)
(* A small instance of JtagUart for TLC: a ring of three bytes, of which   *)
(* two can be used, so that runs wrap and split and the buffers fill, a    *)
(* FIFO of one, and calls of up to two bytes.                              *)
(***************************************************************************)
EXTENDS JtagUart
=============================================================================
