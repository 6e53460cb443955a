-------------------------------- MODULE Sums --------------------------------
(***************************************************************************)
(* Sums of numbers, as recursive functions: what the accumulators of       *)
(* module Stats and the byte counts of module Page are compared with.      *)
(***************************************************************************)
EXTENDS Integers, Sequences

\* f[1] + ... + f[n]
SumUpTo(f, n) ==
  LET sum[i \in Nat] == IF i = 0 THEN 0 ELSE sum[i - 1] + f[i]
  IN  sum[n]

\* The sum of a sequence of numbers.
Total(s) == SumUpTo(s, Len(s))
=============================================================================
