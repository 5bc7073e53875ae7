------------------------------ MODULE MCStream ------------------------------
(***************************************************************************)
(* Stream for TLC: the console and the terminal, and pages of two entries. *)
(***************************************************************************)
EXTENDS Stream
=============================================================================
