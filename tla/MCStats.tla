------------------------------ MODULE MCStats -------------------------------
(* Instance of Stats for TLC: a window of three periods, an idx that wraps *)
(* to a slot out of turn and accumulators that a few periods overflow.     *)
EXTENDS Stats
=============================================================================
