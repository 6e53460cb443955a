-------------------------------- MODULE Stats --------------------------------
(***************************************************************************)
(* struct stats_bucket of src/src/scheduler.c: a rolling window over the   *)
(* last len periods of the status job.  Completions add to the current     *)
(* slot; background_status closes the period, which reuses the oldest      *)
(* slot.  Two accumulators are kept up to date by adding and subtracting,  *)
(* and are never recomputed.                                               *)
(***************************************************************************)
EXTENDS Integers, Sequences, Sums

CONSTANTS
  len,          \* slots of the window (STATS_BUF_LEN)
  U64,          \* number of values of a __u64
  U32,          \* number of values of a __u32
  Vals,         \* values that are added (1, or a latency)
  Elapsed,      \* lengths of a period
  MaxVal        \* bound: a period adds no more than this

ASSUME StatsAssumption ==
  /\ len \in Nat \ {0}
  /\ U64 \in Nat \ {0}
  /\ U32 \in Nat \ {0}
  /\ Vals \subseteq Nat
  /\ Elapsed \subseteq Nat
  /\ MaxVal \in Nat

VARIABLES
  buf,          \* the slots
  acc_val, acc_time,
  idx,          \* free running, a __u32
  current,      \* ghost: what was added in the current period
  closed,       \* ghost: the closed periods, newest first, at most len
  wrapped       \* ghost: idx has wrapped

bucket == <<buf, acc_val, acc_time, idx>>
ghosts == <<current, closed, wrapped>>
vars == <<bucket, ghosts>>

-----------------------------------------------------------------------------
slot(i) == i % len

\* stats_bucket_init
Init ==
  /\ buf = [i \in 0 .. len - 1 |-> [val |-> 0, elapsed |-> 0]]
  /\ acc_val = 0
  /\ acc_time = 0
  /\ idx = 0
  /\ current = 0
  /\ closed = << >>
  /\ wrapped = FALSE

stats_bucket_add(val) ==
  /\ current + val <= MaxVal
  /\ acc_val' = (acc_val + val) % U64
  /\ buf' = [buf EXCEPT ![slot(idx)].val = (@ + val) % U64]
  /\ current' = current + val
  /\ UNCHANGED <<acc_time, idx, closed, wrapped>>

Newest(s) == SubSeq(s, 1, IF Len(s) < len THEN Len(s) ELSE len)

\* The ghosts when a period of length e ends.
Close(e) ==
  /\ closed' = Newest(<<[val |-> current, elapsed |-> e]>> \o closed)
  /\ current' = 0
  /\ wrapped' = (wrapped \/ idx' = 0)

\* Mutant: clears the slot that was just filled, idx++ instead of ++idx.
move_old_slot(e) ==
  LET next_idx == slot(idx)
  IN  /\ idx' = (idx + 1) % U32
      /\ acc_val' = (acc_val - buf[next_idx].val) % U64
      /\ acc_time' = (acc_time - buf[next_idx].elapsed + e) % U64
      /\ buf' = [buf EXCEPT ![next_idx] = [val |-> 0, elapsed |-> e]]
      /\ Close(e)

\* Mutant: does not subtract the value of the slot it reuses.
move_no_subtract(e) ==
  LET next_idx == slot(idx')
  IN  /\ idx' = (idx + 1) % U32
      /\ acc_val' = acc_val
      /\ acc_time' = (acc_time - buf[next_idx].elapsed + e) % U64
      /\ buf' = [buf EXCEPT ![next_idx] = [val |-> 0, elapsed |-> e]]
      /\ Close(e)

stats_bucket_move(e) ==
  LET next_idx == slot(idx')
  IN  /\ idx' = (idx + 1) % U32
      /\ acc_val' = (acc_val - buf[next_idx].val) % U64
      /\ acc_time' = (acc_time - buf[next_idx].elapsed + e) % U64
      /\ buf' = [buf EXCEPT ![next_idx] = [val |-> 0, elapsed |-> e]]
      /\ Close(e)

Next ==
  \/ \E val \in Vals : stats_bucket_add(val)
  \/ \E e \in Elapsed : stats_bucket_move(e)

Spec == Init /\ [][Next]_vars

-----------------------------------------------------------------------------
(* Properties *)

Slots == 0 .. len - 1

slot_vals == [i \in 1 .. len |-> buf[i - 1].val]
slot_times == [i \in 1 .. len |-> buf[i - 1].elapsed]

\* The accumulators are the sums over the slots, after any number of
\* subtractions, whichever slot is reused: no value is forgotten and no
\* subtraction takes away what was not added.  (idx would come to a slot out of
\* turn only where it wraps, after 2^32 periods.)
AccumulatorsAreSums ==
  /\ acc_val = Total(slot_vals) % U64
  /\ acc_time = Total(slot_times) % U64

closed_vals == [i \in DOMAIN closed |-> closed[i].val]
closed_times == [i \in DOMAIN closed |-> closed[i].elapsed]

\* The closed periods whose values are still in the window: the current period
\* has a slot too.
recent == IF Len(closed) < len THEN Len(closed) ELSE len - 1

\* Until idx wraps the window is exact: acc_val is what was added in the
\* current and the len - 1 periods before, acc_time the length of the last len
\* closed periods.  The two windows are one period apart: background_status
\* divides values that include the ending period by times that do not.
WindowIsRecent ==
  ~wrapped =>
    /\ acc_val = (current + SumUpTo(closed_vals, recent)) % U64
    /\ acc_time = Total(closed_times) % U64
=============================================================================
