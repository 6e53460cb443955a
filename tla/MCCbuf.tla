------------------------------- MODULE MCCbuf -------------------------------
(* Instances of Cbuf for TLC: a ring of a few items of two bytes, whose    *)
(* counters wrap after a few operations.                                   *)
EXTENDS Cbuf
=============================================================================
