---------------------------- MODULE StatsProofs -----------------------------
(***************************************************************************)
(* Proofs about module Stats, for a window of any length, integers of any  *)
(* width, and any values and periods.                                      *)
(***************************************************************************)
EXTENDS Stats, Arithmetic

-----------------------------------------------------------------------------
(* The inductive invariant *)

Entry == [val : Nat, elapsed : Nat]

TypeOK ==
  /\ buf \in [Slots -> Entry]
  /\ acc_val \in 0 .. U64 - 1
  /\ acc_time \in 0 .. U64 - 1
  /\ idx \in 0 .. U32 - 1
  /\ current \in Nat
  /\ closed \in Seq(Entry) /\ Len(closed) <= len
  /\ wrapped \in BOOLEAN

\* What the slot that was current i periods ago holds.
ValueAgo(i) ==
  IF i = 0 THEN current % U64
  ELSE IF i <= Len(closed) THEN closed[i].val % U64
  ELSE 0

\* A slot gets the length of the period before its own.
TimeAgo(i) == IF i + 1 <= Len(closed) THEN closed[i + 1].elapsed ELSE 0

\* Until idx wraps every slot holds the period that is as far back as the slot
\* is behind the current one.
SlotsInTurn ==
  ~wrapped => \A i \in Slots : /\ buf[slot(idx - i)].val = ValueAgo(i)
                               /\ buf[slot(idx - i)].elapsed = TimeAgo(i)

IndInv == TypeOK /\ AccumulatorsAreSums /\ SlotsInTurn /\ WindowIsRecent

-----------------------------------------------------------------------------
(* Slots *)

\* What the proofs need of the constants.
LEMMA Constants ==
  /\ len \in Nat \ {0}
  /\ U64 \in Nat \ {0}
  /\ U32 \in Nat \ {0}
  /\ \A v \in Vals : v \in Nat
  /\ \A e \in Elapsed : e \in Nat
  BY StatsAssumption DEF StatsAssumption

\* Every index has a slot.
LEMMA SlotType ==
  ASSUME NEW i \in Int
  PROVE  slot(i) \in Slots
  BY ModRange, Constants DEF slot, Slots

\* The slots of the last len periods are different.
LEMMA SlotsDiffer ==
  ASSUME NEW x \in Int, NEW i \in Slots, NEW j \in Slots, i # j
  PROVE  slot(x - i) # slot(x - j)
  BY ModApart, Constants DEF slot, Slots

\* The next slot is the one that was current len - 1 periods ago.
LEMMA NextSlot ==
  ASSUME NEW x \in Int
  PROVE  slot(x + 1) = slot(x - (len - 1))
  <1> DEFINE y == x - (len - 1)
  <1> PICK k \in Int : k = 1
    OBVIOUS
  <1>1. y \in Int /\ x + 1 = len * k + y
    BY Constants
  <1> HIDE DEF y
  <1>2. (len * k + y) % len = y % len
    BY <1>1, ModShift, Constants
  <1> QED
    BY <1>1, <1>2 DEF slot, y

\* The slots' values and times are numbers, and so are their sums.
LEMMA SlotTotals ==
  ASSUME TypeOK
  PROVE  /\ Len(slot_vals) = len /\ Len(slot_times) = len
         /\ \A i \in 1 .. len : slot_vals[i] \in Int /\ slot_times[i] \in Int
         /\ Total(slot_vals) \in Int /\ Total(slot_times) \in Int
  <1>1. \A i \in 1 .. len : i - 1 \in Slots
    BY Constants DEF Slots
  <1>2. \A i \in 1 .. len : buf[i - 1] \in Entry
    BY <1>1 DEF TypeOK
  <1>3. \A i \in 1 .. len : slot_vals[i] \in Int /\ slot_times[i] \in Int
    BY <1>2 DEF slot_vals, slot_times, Entry
  <1>4. Len(slot_vals) = len /\ Len(slot_times) = len
    BY Constants DEF slot_vals, slot_times
  <1> QED
    BY <1>3, <1>4, SumInt, Constants DEF Total

\* Overwriting a slot changes the sums by the difference.
LEMMA SlotReplaced ==
  ASSUME TypeOK, TypeOK', NEW s \in Slots, NEW e \in Entry,
         buf' = [buf EXCEPT ![s] = e]
  PROVE  /\ Total(slot_vals)' = Total(slot_vals) + e.val - buf[s].val
         /\ Total(slot_times)' = Total(slot_times) + e.elapsed - buf[s].elapsed
  <1> DEFINE j == s + 1
  <1>1. j \in 1 .. len /\ j - 1 = s
    BY Constants DEF Slots
  <1>2. e.val \in Int /\ e.elapsed \in Int
    BY DEF Entry
  <1>3. \A i \in 1 .. len : i - 1 \in Slots /\ (i # j => i - 1 # s)
    BY Constants DEF Slots
  <1>4. /\ slot_vals'[j] = e.val /\ slot_vals[j] = buf[s].val
        /\ slot_times'[j] = e.elapsed /\ slot_times[j] = buf[s].elapsed
    BY <1>1, <1>3 DEF slot_vals, slot_times, TypeOK
  <1>5. \A i \in 1 .. len : i # j => /\ slot_vals'[i] = slot_vals[i]
                                     /\ slot_times'[i] = slot_times[i]
    BY <1>3 DEF slot_vals, slot_times, TypeOK
  <1> HIDE DEF j
  <1>6. SumUpTo(slot_vals', len) = SumUpTo(slot_vals, len) + e.val - buf[s].val
    <2> DEFINE f == slot_vals
               g == slot_vals'
               x == e.val
    <2>1. x \in Int /\ g[j] = x /\ \A i \in 1 .. len : i # j => g[i] = f[i]
      BY <1>2, <1>4, <1>5
    <2>2. \A i \in 1 .. len : f[i] \in Int
      BY SlotTotals
    <2> HIDE DEF f, g, x
    <2>3. SumUpTo(g, len) = SumUpTo(f, len) + x - f[j]
      BY <1>1, <2>1, <2>2, SumReplace, Constants
    <2> QED
      BY <1>4, <2>3 DEF f, g, x
  <1>7. SumUpTo(slot_times', len)
          = SumUpTo(slot_times, len) + e.elapsed - buf[s].elapsed
    <2> DEFINE f == slot_times
               g == slot_times'
               x == e.elapsed
    <2>1. x \in Int /\ g[j] = x /\ \A i \in 1 .. len : i # j => g[i] = f[i]
      BY <1>2, <1>4, <1>5
    <2>2. \A i \in 1 .. len : f[i] \in Int
      BY SlotTotals
    <2> HIDE DEF f, g, x
    <2>3. SumUpTo(g, len) = SumUpTo(f, len) + x - f[j]
      BY <1>1, <2>1, <2>2, SumReplace, Constants
    <2> QED
      BY <1>4, <2>3 DEF f, g, x
  <1>8. Len(slot_vals') = len /\ Len(slot_times') = len
    BY Constants DEF slot_vals, slot_times
  <1> QED
    BY <1>6, <1>7, <1>8, SlotTotals DEF Total

-----------------------------------------------------------------------------
(* Initial states *)

\* stats_bucket_init establishes the invariant.
LEMMA InitHolds ==
  ASSUME Init
  PROVE  IndInv
  <1>1. TypeOK
    <2>1. [val |-> 0, elapsed |-> 0] \in Entry
      BY DEF Entry
    <2>2. buf \in [Slots -> Entry]
      BY <2>1 DEF Init, Slots
    <2>3. closed \in Seq(Entry) /\ Len(closed) = 0
      BY DEF Init
    <2> QED
      BY <2>2, <2>3, Constants DEF Init, TypeOK
  <1>2. SlotsInTurn
    <2>1. \A i \in Slots : slot(idx - i) \in Slots /\ i \in Nat
      BY SlotType, Constants DEF Init, Slots
    <2>2. \A i \in Slots : ValueAgo(i) = 0 /\ TimeAgo(i) = 0
      BY <2>1, Constants DEF Init, ValueAgo, TimeAgo
    <2> QED
      BY <2>1, <2>2 DEF Init, SlotsInTurn, Slots
  <1>3. AccumulatorsAreSums
    <2> DEFINE zero == [i \in 1 .. len |-> 0]
    <2>1. slot_vals = zero /\ slot_times = zero
      <3>1. \A i \in 1 .. len : i - 1 \in 0 .. len - 1
        BY Constants
      <3> QED
        BY <3>1 DEF Init, slot_vals, slot_times
    <2>2. SumUpTo(zero, len) = 0
      <3> DEFINE T == {k \in Nat : k <= len /\ SumUpTo(zero, k) # 0}
      <3>1. SUFFICES ASSUME T # {} PROVE FALSE
        BY Constants
      <3>2. PICK k \in T : \A l \in T : k <= l
        BY <3>1, LeastNat
      <3>3. k # 0
        BY SumRecursion
      <3>4. k - 1 \in Nat /\ k - 1 \notin T /\ (k - 1) + 1 = k /\ k \in 1 .. len
        BY <3>2, <3>3, Constants
      <3>5. SumUpTo(zero, k) = SumUpTo(zero, k - 1) + zero[k]
        BY <3>4, SumRecursion
      <3> QED
        BY <3>4, <3>5, Constants
    <2>3. Total(slot_vals) = 0 /\ Total(slot_times) = 0
      BY <1>1, <2>1, <2>2, SlotTotals DEF Total
    <2> QED
      BY <2>3, Constants DEF Init, AccumulatorsAreSums
  <1>4. WindowIsRecent
    <2>1. recent = 0 /\ Len(closed_times) = 0
      BY Constants DEF Init, recent, closed_times
    <2>2. SumUpTo(closed_vals, recent) = 0 /\ Total(closed_times) = 0
      BY <2>1, SumRecursion DEF Total
    <2> QED
      BY <2>2, Constants DEF Init, WindowIsRecent
  <1> QED
    BY <1>1, <1>2, <1>3, <1>4 DEF IndInv

\* The closed periods are numbers.
LEMMA ClosedType ==
  ASSUME TypeOK
  PROVE  /\ Len(closed) \in Nat
         /\ \A i \in 1 .. Len(closed) :
              /\ closed[i] \in Entry
              /\ closed_vals[i] = closed[i].val
              /\ closed_times[i] = closed[i].elapsed
              /\ closed_vals[i] \in Int /\ closed_times[i] \in Int
         /\ Len(closed_times) = Len(closed)
  <1>1. closed \in Seq(Entry) /\ Len(closed) \in Nat
        /\ DOMAIN closed = 1 .. Len(closed)
    BY DEF TypeOK
  <1>2. \A i \in 1 .. Len(closed) : closed[i] \in Entry
    BY <1>1
  <1>3. \A i \in 1 .. Len(closed) : /\ closed_vals[i] = closed[i].val
                                    /\ closed_times[i] = closed[i].elapsed
    BY <1>1 DEF closed_vals, closed_times
  <1>4. \A x \in Entry : x.val \in Int /\ x.elapsed \in Int
    BY DEF Entry
  <1>5. Len(closed_times) = Len(closed)
    BY <1>1 DEF closed_times
  <1> QED
    BY <1>1, <1>2, <1>3, <1>4, <1>5

-----------------------------------------------------------------------------
(* stats_bucket_add *)

\* What the call does to the current slot, and that types are kept.
LEMMA AddSlot ==
  ASSUME TypeOK, NEW val \in Vals, stats_bucket_add(val)
  PROVE  /\ val \in Nat /\ idx \in Int /\ slot(idx) \in Slots
         /\ buf[slot(idx)] \in Entry
         /\ buf' = [buf EXCEPT ![slot(idx)] =
                      [val |-> (buf[slot(idx)].val + val) % U64,
                       elapsed |-> buf[slot(idx)].elapsed]]
         /\ TypeOK'
  <1> DEFINE s == slot(idx)
             e == [val |-> (buf[s].val + val) % U64, elapsed |-> buf[s].elapsed]
  <1>1. val \in Nat /\ idx \in Int
    BY Constants DEF TypeOK
  <1>2. s \in Slots
    BY <1>1, SlotType
  <1> HIDE DEF s
  <1>3. buf[s] \in Entry
    BY <1>2 DEF TypeOK
  <1>4. buf' = [buf EXCEPT ![s] = e]
    <2>1. buf' = [buf EXCEPT ![s] = [buf[s] EXCEPT !.val = (buf[s].val + val) % U64]]
      BY <1>2 DEF stats_bucket_add, TypeOK, s
    <2>2. [buf[s] EXCEPT !.val = (buf[s].val + val) % U64] = e
      BY <1>3 DEF Entry
    <2> QED
      BY <2>1, <2>2
  <1>5. (buf[s].val + val) % U64 \in Nat
    BY <1>1, <1>3, Constants DEF Entry
  <1>6. e \in Entry
    BY <1>3, <1>5 DEF Entry
  <1>7. buf' \in [Slots -> Entry]
    BY <1>2, <1>4, <1>6 DEF TypeOK
  <1>8. acc_val' \in 0 .. U64 - 1
    <2>1. acc_val + val \in Int /\ U64 \in Nat \ {0}
      BY <1>1, Constants DEF TypeOK
    <2> QED
      BY <2>1, ModRange DEF stats_bucket_add
  <1>9. current' \in Nat
    BY <1>1 DEF stats_bucket_add, TypeOK
  <1>10. TypeOK'
    BY <1>7, <1>8, <1>9 DEF stats_bucket_add, TypeOK
  <1> QED
    BY <1>1, <1>2, <1>3, <1>4, <1>10 DEF s

\* Adding to the slot and to the accumulator agree, whichever wraps.
LEMMA AddSums ==
  ASSUME TypeOK, AccumulatorsAreSums, NEW val \in Vals, stats_bucket_add(val)
  PROVE  AccumulatorsAreSums'
  <1> DEFINE s == slot(idx)
             o == buf[s].val
             e == [val |-> (o + val) % U64, elapsed |-> buf[s].elapsed]
             t == Total(slot_vals)
  <1>1. val \in Nat /\ s \in Slots /\ o \in Nat /\ buf[s].elapsed \in Nat
    BY AddSlot DEF Entry
  <1>2. t \in Int /\ Total(slot_times) \in Int
    BY SlotTotals
  <1>3. buf' = [buf EXCEPT ![s] = e] /\ TypeOK'
    BY AddSlot
  <1>4. (o + val) % U64 \in Nat
    BY <1>1, Constants
  <1>5. e \in Entry
    BY <1>1, <1>4 DEF Entry
  <1>6. /\ Total(slot_vals)' = t + ((o + val) % U64) - o
        /\ Total(slot_times)' = Total(slot_times)
    <2> HIDE DEF t
    <2>1. /\ Total(slot_vals)' = Total(slot_vals) + e.val - buf[s].val
          /\ Total(slot_times)' = Total(slot_times) + e.elapsed - buf[s].elapsed
      <3> HIDE DEF s, e
      <3> QED
        BY <1>1, <1>3, <1>5, SlotReplaced
    <2> QED
      BY <1>1, <1>2, <2>1 DEF t
  <1> HIDE DEF s, o, e, t
  <1>7. (t + ((o + val) % U64) - o) % U64 = (t + val) % U64
    <2>1. (((o + val) % U64) + (t - o)) % U64 = ((o + val) + (t - o)) % U64
      <3>1. o + val \in Int /\ t - o \in Int
        BY <1>1, <1>2
      <3> QED
        BY <3>1, ModAdd, Constants
    <2>2. /\ ((o + val) % U64) + (t - o) = t + ((o + val) % U64) - o
          /\ (o + val) + (t - o) = t + val
      BY <1>1, <1>2, <1>4
    <2> QED
      BY <2>1, <2>2
  <1>8. acc_val' = ((t % U64) + val) % U64
    BY DEF stats_bucket_add, AccumulatorsAreSums, t
  <1>9. ((t % U64) + val) % U64 = (t + val) % U64
    <2>1. val \in Int /\ U64 \in Nat \ {0}
      BY <1>1, Constants
    <2> QED
      BY <1>2, <2>1, ModAdd
  <1>10. acc_time' = Total(slot_times)' % U64
    BY <1>6 DEF stats_bucket_add, AccumulatorsAreSums
  <1> QED
    BY <1>6, <1>7, <1>8, <1>9, <1>10 DEF AccumulatorsAreSums

\* Only the current slot, and the current period, change.
LEMMA AddWindow ==
  ASSUME TypeOK, SlotsInTurn, WindowIsRecent, NEW val \in Vals,
         stats_bucket_add(val)
  PROVE  SlotsInTurn' /\ WindowIsRecent'
  <1>1. val \in Nat /\ idx \in Int /\ slot(idx) \in Slots /\ current \in Nat
    BY AddSlot DEF TypeOK
  <1>2. SUFFICES ASSUME ~wrapped
                 PROVE  SlotsInTurn' /\ WindowIsRecent'
    BY DEF stats_bucket_add, SlotsInTurn, WindowIsRecent
  <1>3. /\ idx' = idx /\ closed' = closed /\ current' = current + val
        /\ wrapped' = wrapped
    BY DEF stats_bucket_add
  <1>4. ASSUME NEW i \in Slots
        PROVE  /\ buf'[slot(idx - i)].val = ValueAgo(i)'
               /\ buf'[slot(idx - i)].elapsed = TimeAgo(i)'
    <2>1. i \in Int /\ slot(idx - i) \in Slots
      BY <1>1, SlotType, Constants DEF Slots
    <2>2. /\ buf[slot(idx - i)].val = ValueAgo(i)
          /\ buf[slot(idx - i)].elapsed = TimeAgo(i)
      BY <1>2 DEF SlotsInTurn
    <2>3. TimeAgo(i)' = TimeAgo(i)
      BY <1>3 DEF TimeAgo
    <2>4. CASE i = 0
      <3>1. slot(idx - i) = slot(idx)
        BY <1>1, <2>4
      <3>2. /\ buf'[slot(idx)].val = (buf[slot(idx)].val + val) % U64
            /\ buf'[slot(idx)].elapsed = buf[slot(idx)].elapsed
        BY <1>1, AddSlot DEF TypeOK
      <3>3. buf[slot(idx)].val = current % U64
        BY <2>2, <2>4, <3>1 DEF ValueAgo
      <3>4. ((current % U64) + val) % U64 = (current + val) % U64
        <4>1. current \in Int /\ val \in Int /\ U64 \in Nat \ {0}
          BY <1>1, Constants
        <4> QED
          BY <4>1, ModAdd
      <3>5. ValueAgo(i)' = (current + val) % U64
        BY <1>3, <2>4 DEF ValueAgo
      <3> QED
        BY <2>2, <2>3, <3>1, <3>2, <3>3, <3>4, <3>5
    <2>5. CASE i # 0
      <3>1. 0 \in Slots /\ slot(idx - 0) = slot(idx)
        BY <1>1, Constants DEF Slots
      <3>2. slot(idx - i) # slot(idx)
        BY <1>1, <2>5, <3>1, SlotsDiffer
      <3>3. buf'[slot(idx - i)] = buf[slot(idx - i)]
        BY <2>1, <3>2, AddSlot DEF TypeOK
      <3>4. ValueAgo(i)' = ValueAgo(i)
        BY <1>3, <2>5 DEF ValueAgo
      <3> QED
        BY <2>2, <2>3, <3>3, <3>4
    <2> QED
      BY <2>4, <2>5
  <1>5. SlotsInTurn'
    BY <1>3, <1>4 DEF SlotsInTurn
  <1>6. WindowIsRecent'
    <2> DEFINE t == SumUpTo(closed_vals, recent)
    <2>1. t \in Int
      <3>1. recent \in Nat /\ recent <= Len(closed)
        BY Constants DEF TypeOK, recent
      <3>2. \A i \in 1 .. recent : closed_vals[i] \in Int
        BY <3>1, ClosedType
      <3> QED
        BY <3>1, <3>2, SumInt
    <2>2. SumUpTo(closed_vals, recent)' = t /\ closed_times' = closed_times
      BY <1>3 DEF closed_vals, closed_times, recent
    <2> HIDE DEF t
    <2>3. acc_val' = (((current + t) % U64) + val) % U64
      BY <1>2 DEF stats_bucket_add, WindowIsRecent, t
    <2>4. acc_val' = ((current + t) + val) % U64
      <3>1. current + t \in Int
        BY <1>1, <2>1
      <3> QED
        BY <1>1, <2>3, <3>1, ModAdd, Constants
    <2>5. (current + t) + val = current' + t
      BY <1>1, <1>3, <2>1
    <2>6. acc_time' = Total(closed_times') % U64
      BY <1>2, <2>2 DEF stats_bucket_add, WindowIsRecent
    <2> QED
      BY <2>2, <2>4, <2>5, <2>6 DEF WindowIsRecent
  <1> QED
    BY <1>5, <1>6

-----------------------------------------------------------------------------
(* stats_bucket_move *)

\* The closed periods after one more: it is in front, and the oldest is dropped
\* when there are len already.
LEMMA ClosedNext ==
  ASSUME TypeOK, NEW e \in Nat, Close(e)
  PROVE  /\ closed' \in Seq(Entry)
         /\ Len(closed') = IF Len(closed) < len THEN Len(closed) + 1 ELSE len
         /\ closed'[1] = [val |-> current, elapsed |-> e]
         /\ \A i \in 1 .. Len(closed') - 1 : closed'[i + 1] = closed[i]
  <1> DEFINE p == [val |-> current, elapsed |-> e]
             s == <<p>> \o closed
             n == IF Len(s) < len THEN Len(s) ELSE len
  <1>1. p \in Entry /\ closed \in Seq(Entry) /\ Len(closed) \in Nat
        /\ Len(closed) <= len /\ len \in Nat \ {0}
    BY Constants DEF TypeOK, Entry
  <1> HIDE DEF p
  <1>2. /\ s \in Seq(Entry) /\ Len(s) = Len(closed) + 1 /\ s[1] = p
        /\ \A i \in 1 .. Len(closed) : s[i + 1] = closed[i]
    BY <1>1
  <1> HIDE DEF s
  <1>3. n \in 1 .. Len(s)
        /\ n = IF Len(closed) < len THEN Len(closed) + 1 ELSE len
    BY <1>1, <1>2
  <1>4. closed' = SubSeq(s, 1, n)
    BY DEF Close, Newest, p, s
  <1> HIDE DEF n
  <1>5. /\ closed' \in Seq(Entry) /\ Len(closed') = n
        /\ \A i \in 1 .. n : closed'[i] = s[i]
    BY <1>2, <1>3, <1>4
  <1>6. \A i \in 1 .. n - 1 : i + 1 \in 1 .. n /\ i \in 1 .. Len(closed)
    BY <1>1, <1>2, <1>3
  <1> QED
    BY <1>2, <1>3, <1>5, <1>6 DEF p

\* What the call does to the slot it reuses, and that types are kept.
LEMMA MoveSlot ==
  ASSUME TypeOK, NEW e \in Elapsed, stats_bucket_move(e)
  PROVE  /\ e \in Nat /\ slot(idx') \in Slots /\ buf[slot(idx')] \in Entry
         /\ [val |-> 0, elapsed |-> e] \in Entry
         /\ buf' = [buf EXCEPT ![slot(idx')] = [val |-> 0, elapsed |-> e]]
         /\ acc_val' = (acc_val - buf[slot(idx')].val) % U64
         /\ acc_time' = (acc_time - buf[slot(idx')].elapsed + e) % U64
         /\ TypeOK'
  <1> DEFINE s == slot(idx')
  <1>1. e \in Nat /\ U32 \in Nat \ {0} /\ U64 \in Nat \ {0} /\ idx + 1 \in Int
        /\ acc_val \in Int /\ acc_time \in Int
    BY Constants DEF TypeOK
  <1>2. idx' \in 0 .. U32 - 1
    BY <1>1, ModRange DEF stats_bucket_move
  <1>3. s \in Slots
    BY <1>1, <1>2, SlotType
  <1>4. buf[s] \in Entry /\ [val |-> 0, elapsed |-> e] \in Entry
    BY <1>1, <1>3 DEF TypeOK, Entry
  <1>5. /\ buf' = [buf EXCEPT ![s] = [val |-> 0, elapsed |-> e]]
        /\ acc_val' = (acc_val - buf[s].val) % U64
        /\ acc_time' = (acc_time - buf[s].elapsed + e) % U64
    BY DEF stats_bucket_move
  <1> HIDE DEF s
  <1>6. acc_val - buf[s].val \in Int /\ acc_time - buf[s].elapsed + e \in Int
    BY <1>1, <1>4 DEF Entry
  <1>7. acc_val' \in 0 .. U64 - 1 /\ acc_time' \in 0 .. U64 - 1
    BY <1>1, <1>5, <1>6, ModRange
  <1>8. buf' \in [Slots -> Entry]
    BY <1>3, <1>4, <1>5 DEF TypeOK
  <1>9. closed' \in Seq(Entry) /\ Len(closed') <= len
    <2>1. Close(e)
      BY DEF stats_bucket_move
    <2>2. /\ closed' \in Seq(Entry)
          /\ Len(closed') = IF Len(closed) < len THEN Len(closed) + 1 ELSE len
      BY <1>1, <2>1, ClosedNext
    <2> QED
      BY <2>2, ClosedType, Constants
  <1>10. current' \in Nat /\ wrapped' \in BOOLEAN
    BY DEF stats_bucket_move, Close
  <1>11. TypeOK'
    BY <1>2, <1>7, <1>8, <1>9, <1>10 DEF TypeOK
  <1> QED
    BY <1>1, <1>3, <1>4, <1>5, <1>11 DEF s

\* What is subtracted is what leaves the sums, wherever idx has wrapped to.
LEMMA MoveSums ==
  ASSUME TypeOK, AccumulatorsAreSums, NEW e \in Elapsed, stats_bucket_move(e)
  PROVE  AccumulatorsAreSums'
  <1> DEFINE s == slot(idx')
             x == [val |-> 0, elapsed |-> e]
             v == buf[s].val
             d == buf[s].elapsed
             tv == Total(slot_vals)
             tt == Total(slot_times)
  <1>1. e \in Int /\ s \in Slots /\ x \in Entry /\ U64 \in Nat \ {0}
    BY MoveSlot, Constants
  <1>2. v \in Int /\ d \in Int
    BY MoveSlot DEF Entry
  <1>3. tv \in Int /\ tt \in Int
    BY SlotTotals
  <1>4. buf' = [buf EXCEPT ![s] = x] /\ TypeOK'
    BY MoveSlot
  <1>5. Total(slot_vals)' = tv + x.val - v /\ Total(slot_times)' = tt + x.elapsed - d
    <2> HIDE DEF s, x
    <2> QED
      BY <1>1, <1>4, SlotReplaced
  <1>6. Total(slot_vals)' = tv + (0 - v) /\ Total(slot_times)' = tt + (e - d)
    BY <1>1, <1>2, <1>3, <1>5
  <1>7. acc_val' = ((tv % U64) - v) % U64 /\ acc_time' = ((tt % U64) - d + e) % U64
    BY MoveSlot DEF AccumulatorsAreSums
  <1> HIDE DEF s, x, v, d, tv, tt
  <1> DEFINE nv == 0 - v
             nd == e - d
  <1>8. /\ nv \in Int /\ nd \in Int
        /\ (tv % U64) - v = (tv % U64) + nv
        /\ (tt % U64) - d + e = (tt % U64) + nd
    BY <1>1, <1>2, <1>3
  <1>9. acc_val' = ((tv % U64) + nv) % U64 /\ acc_time' = ((tt % U64) + nd) % U64
    BY <1>7, <1>8
  <1>10. Total(slot_vals)' = tv + nv /\ Total(slot_times)' = tt + nd
    BY <1>6
  <1> HIDE DEF nv, nd
  <1>11. /\ ((tv % U64) + nv) % U64 = (tv + nv) % U64
         /\ ((tt % U64) + nd) % U64 = (tt + nd) % U64
    BY <1>1, <1>3, <1>8, ModAdd
  <1> QED
    BY <1>9, <1>10, <1>11 DEF AccumulatorsAreSums

\* The slots move on by one place, and the one that is reused is the oldest.
LEMMA MoveTurns ==
  ASSUME TypeOK, SlotsInTurn, NEW e \in Elapsed, stats_bucket_move(e), ~wrapped'
  PROVE  /\ ~wrapped /\ idx' = idx + 1 /\ idx \in Int
         /\ slot(idx') = slot(idx - (len - 1))
         /\ SlotsInTurn'
  <1>1. ~wrapped /\ idx' # 0
    BY DEF stats_bucket_move, Close
  <1>2. idx \in Int /\ idx + 1 \in 0 .. U32
    BY Constants DEF TypeOK
  <1>3. idx' = idx + 1
    BY <1>1, <1>2, Constants DEF stats_bucket_move
  <1>4. slot(idx') = slot(idx - (len - 1))
    BY <1>2, <1>3, NextSlot
  <1>5. ASSUME NEW i \in Slots
        PROVE  /\ buf'[slot(idx' - i)].val = ValueAgo(i)'
               /\ buf'[slot(idx' - i)].elapsed = TimeAgo(i)'
    <2>1. /\ i \in Nat /\ i < len /\ Len(closed) \in Nat /\ current' = 0
          /\ len \in Nat \ {0}
      BY ClosedType, Constants DEF Slots, stats_bucket_move, Close
    <2>2. /\ Len(closed') = IF Len(closed) < len THEN Len(closed) + 1 ELSE len
          /\ closed'[1] = [val |-> current, elapsed |-> e]
          /\ \A j \in 1 .. Len(closed') - 1 : closed'[j + 1] = closed[j]
      BY MoveSlot, ClosedNext DEF stats_bucket_move
    <2>3. CASE i = 0
      <3>1. slot(idx' - i) = slot(idx')
        BY <1>2, <1>3, <2>3
      <3>2. buf'[slot(idx')] = [val |-> 0, elapsed |-> e]
        BY MoveSlot DEF TypeOK
      <3>3. ValueAgo(i)' = 0
        BY <2>1, <2>3, Constants DEF ValueAgo
      <3>4. TimeAgo(i)' = e
        <4>1. i + 1 <= Len(closed') /\ i + 1 = 1
          BY <2>1, <2>2, <2>3
        <4> QED
          BY <2>2, <4>1 DEF TimeAgo
      <3> QED
        BY <3>1, <3>2, <3>3, <3>4
    <2>4. CASE i # 0
      <3> DEFINE j == i - 1
      <3>1. j \in Slots /\ j \in Nat /\ j # len - 1 /\ len - 1 \in Slots /\ i = j + 1
        BY <2>1, <2>4 DEF Slots
      <3>2. idx' - i = idx - j /\ idx - j \in Int
        BY <1>2, <1>3, <2>1
      <3> HIDE DEF j
      <3>3. slot(idx - j) # slot(idx') /\ slot(idx - j) \in Slots
        BY <1>2, <1>4, <3>1, <3>2, SlotsDiffer, SlotType
      <3>4. buf'[slot(idx - j)] = buf[slot(idx - j)]
        BY <3>3, MoveSlot DEF TypeOK
      <3>5. /\ buf[slot(idx - j)].val = ValueAgo(j)
            /\ buf[slot(idx - j)].elapsed = TimeAgo(j)
        BY <1>1, <3>1 DEF SlotsInTurn
      <3>6. ValueAgo(i)' = ValueAgo(j)
        <4>1. CASE j = 0
          <5>1. i = 1 /\ i <= Len(closed')
            BY <2>1, <2>2, <3>1, <4>1
          <5>2. ValueAgo(i)' = closed'[1].val % U64
            BY <5>1 DEF ValueAgo
          <5> QED
            BY <2>2, <4>1, <5>2 DEF ValueAgo
        <4>2. CASE j # 0 /\ j <= Len(closed)
          <5>1. i <= Len(closed') /\ j \in 1 .. Len(closed') - 1
            BY <2>1, <2>2, <3>1, <4>2
          <5>2. closed'[i] = closed[j]
            BY <2>2, <3>1, <5>1
          <5> QED
            BY <2>4, <4>2, <5>1, <5>2 DEF ValueAgo
        <4>3. CASE j # 0 /\ ~(j <= Len(closed))
          <5>1. ~(i <= Len(closed'))
            BY <2>1, <2>2, <3>1, <4>3
          <5> QED
            BY <2>4, <4>3, <5>1 DEF ValueAgo
        <4> QED
          BY <4>1, <4>2, <4>3
      <3>7. TimeAgo(i)' = TimeAgo(j)
        <4>1. CASE i <= Len(closed)
          <5>1. i + 1 <= Len(closed') /\ i \in 1 .. Len(closed') - 1
            BY <2>1, <2>2, <2>4, <4>1
          <5> QED
            BY <2>2, <3>1, <4>1, <5>1 DEF TimeAgo
        <4>2. CASE ~(i <= Len(closed))
          <5>1. ~(i + 1 <= Len(closed'))
            BY <2>1, <2>2, <4>2
          <5> QED
            BY <3>1, <4>2, <5>1 DEF TimeAgo
        <4> QED
          BY <4>1, <4>2
      <3> QED
        BY <3>2, <3>4, <3>5, <3>6, <3>7
    <2> QED
      BY <2>3, <2>4
  <1> QED
    BY <1>1, <1>2, <1>3, <1>4, <1>5 DEF SlotsInTurn

\* Sums over the closed periods after one more.
LEMMA ClosedSums ==
  ASSUME TypeOK, NEW e \in Nat, Close(e), TypeOK',
         NEW n \in Nat, n + 1 <= Len(closed')
  PROVE  /\ SumUpTo(closed_vals', n + 1) = current + SumUpTo(closed_vals, n)
         /\ SumUpTo(closed_times', n + 1) = e + SumUpTo(closed_times, n)
         /\ SumUpTo(closed_vals, n) \in Int
         /\ SumUpTo(closed_times, n) \in Int
  <1> DEFINE fv == closed_vals
             gv == closed_vals'
             ft == closed_times
             gt == closed_times'
  <1>1. /\ Len(closed') = IF Len(closed) < len THEN Len(closed) + 1 ELSE len
        /\ closed'[1] = [val |-> current, elapsed |-> e]
        /\ \A i \in 1 .. Len(closed') - 1 : closed'[i + 1] = closed[i]
    BY ClosedNext
  <1>2. Len(closed) \in Nat /\ Len(closed') \in Nat /\ Len(closed) <= len
        /\ len \in Nat /\ current \in Int /\ e \in Int
    BY Constants DEF TypeOK
  <1>3. n <= Len(closed)
    BY <1>1, <1>2
  <1>4. \A i \in 1 .. n : fv[i] \in Int /\ ft[i] \in Int
    BY <1>2, <1>3, ClosedType
  <1>5. \A i \in 1 .. Len(closed') : /\ gv[i] = closed'[i].val
                                     /\ gt[i] = closed'[i].elapsed
    <2>1. DOMAIN closed' = 1 .. Len(closed')
      BY DEF TypeOK
    <2> QED
      BY <2>1 DEF closed_vals, closed_times
  <1>6. gv[1] = current /\ gt[1] = e
    BY <1>1, <1>2, <1>5
  <1>7. ASSUME NEW i \in 1 .. n
        PROVE  gv[i + 1] = fv[i] /\ gt[i + 1] = ft[i]
    <2>1. /\ i \in 1 .. Len(closed') - 1 /\ i + 1 \in 1 .. Len(closed')
          /\ i \in 1 .. Len(closed)
      BY <1>2, <1>3
    <2>2. closed'[i + 1] = closed[i]
      BY <1>1, <2>1
    <2>3. fv[i] = closed[i].val /\ ft[i] = closed[i].elapsed
      BY <2>1, ClosedType
    <2> QED
      BY <1>5, <2>1, <2>2, <2>3
  <1> HIDE DEF fv, gv, ft, gt
  <1>8. SumUpTo(gv, n + 1) = current + SumUpTo(fv, n)
    BY <1>2, <1>4, <1>6, <1>7, SumShift, SMTT(30)
  <1>9. SumUpTo(gt, n + 1) = e + SumUpTo(ft, n)
    BY <1>2, <1>4, <1>6, <1>7, SumShift
  <1>10. SumUpTo(fv, n) \in Int /\ SumUpTo(ft, n) \in Int
    BY <1>4, SumInt
  <1> QED
    BY <1>8, <1>9, <1>10 DEF fv, gv, ft, gt

\* The period that leaves the window leaves acc_val.
LEMMA MoveValues ==
  ASSUME IndInv, NEW e \in Elapsed, stats_bucket_move(e), ~wrapped'
  PROVE  acc_val' = (current' + SumUpTo(closed_vals', recent')) % U64
  <1> DEFINE o == buf[slot(idx')].val
  <1>1. TypeOK /\ TypeOK' /\ e \in Nat /\ Close(e) /\ ~wrapped
    BY MoveSlot, MoveTurns DEF IndInv, stats_bucket_move
  <1>2. /\ len \in Nat \ {0} /\ U64 \in Nat \ {0} /\ current \in Nat
        /\ Len(closed) \in Nat /\ Len(closed) <= len
        /\ Len(closed') = IF Len(closed) < len THEN Len(closed) + 1 ELSE len
    BY <1>1, ClosedNext, ClosedType, Constants DEF TypeOK
  <1>3. o = ValueAgo(len - 1)
    <2>1. len - 1 \in Slots /\ slot(idx') = slot(idx - (len - 1))
      BY <1>2, MoveTurns DEF IndInv, Slots
    <2> QED
      BY <1>1, <2>1 DEF IndInv, SlotsInTurn
  <1>4. acc_val = (current + SumUpTo(closed_vals, recent)) % U64
    BY <1>1 DEF IndInv, WindowIsRecent
  <1>5. acc_val' = (acc_val - o) % U64 /\ current' = 0
    BY <1>1, MoveSlot DEF Close
  <1> HIDE DEF o
  <1>6. CASE Len(closed) < len - 1
    <2> DEFINE n == Len(closed)
               t == SumUpTo(closed_vals, n)
    <2>1. recent = n /\ recent' = n + 1 /\ o = 0
      BY <1>2, <1>3, <1>6 DEF recent, ValueAgo
    <2>2. SumUpTo(closed_vals', n + 1) = current + t /\ t \in Int
      BY <1>1, <1>2, <1>6, ClosedSums
    <2> HIDE DEF n, t
    <2>3. acc_val = (current + t) % U64 /\ current + t \in Int
      BY <1>2, <1>4, <2>1, <2>2 DEF t
    <2>4. (acc_val - o) % U64 = acc_val
      <3>1. acc_val \in 0 .. U64 - 1 /\ acc_val - o = acc_val
        BY <1>1, <1>2, <2>1 DEF TypeOK
      <3>2. \A x \in 0 .. U64 - 1 : x % U64 = x
        BY <1>2
      <3> QED
        BY <3>1, <3>2
    <2> QED
      BY <1>5, <2>1, <2>2, <2>3, <2>4
  <1>7. CASE Len(closed) >= len - 1 /\ len = 1
    <2>1. recent = 0 /\ recent' = 0
      BY <1>2, <1>7 DEF recent
    <2>2. SumUpTo(closed_vals, 0) = 0 /\ SumUpTo(closed_vals', 0) = 0
      BY SumRecursion
    <2>3. o = current % U64
      BY <1>3, <1>7 DEF ValueAgo
    <2>4. acc_val - o = 0
      BY <1>2, <1>4, <2>1, <2>2, <2>3
    <2> QED
      BY <1>2, <1>5, <2>1, <2>2, <2>4
  <1>8. CASE Len(closed) >= len - 1 /\ len # 1
    <2> PICK n \in Nat : len = n + 2
      <3>1. len - 2 \in Nat /\ len = (len - 2) + 2
        BY <1>2, <1>8
      <3> QED
        BY <3>1
    <2> DEFINE t == SumUpTo(closed_vals, n)
               c == closed[n + 1].val
               a == current + t + c
    <2>1. recent = n + 1 /\ recent' = n + 1
      BY <1>2, <1>8 DEF recent
    <2>2. n + 1 <= Len(closed') /\ n + 1 \in 1 .. Len(closed) /\ len - 1 = n + 1
      BY <1>2, <1>8
    <2>3. SumUpTo(closed_vals', n + 1) = current + t /\ t \in Int
      BY <1>1, <2>2, ClosedSums
    <2>4. SumUpTo(closed_vals, n + 1) = t + c /\ c \in Int
      <3>1. closed_vals[n + 1] = c /\ closed_vals[n + 1] \in Int
        BY <1>1, <2>2, ClosedType
      <3> QED
        BY <3>1, SumRecursion
    <2>5. o = c % U64
      BY <1>3, <2>2 DEF ValueAgo
    <2> HIDE DEF t, c
    <2>6. acc_val = a % U64 /\ a \in Int
      <3>1. current + (t + c) = a /\ a \in Int
        BY <1>2, <2>3, <2>4
      <3> QED
        BY <1>4, <2>1, <2>4, <3>1
    <2>7. a - c = current + t
      BY <1>2, <2>3, <2>4
    <2> HIDE DEF a
    <2>8. ((a % U64) - (c % U64)) % U64 = (a - c) % U64
      <3> DEFINE m == 0 - c
                 b == a % U64
      <3>1. m \in Int /\ b \in Int /\ b - c = b + m /\ a - c = a + m
        BY <1>2, <2>4, <2>6
      <3>2. (b - (c % U64)) % U64 = (b - c) % U64
        <4> HIDE DEF b
        <4> QED
          BY <1>2, <2>4, <3>1, ModSub
      <3>3. (b + m) % U64 = (a + m) % U64
        <4> HIDE DEF m
        <4> QED
          BY <1>2, <2>6, <3>1, ModAdd
      <3> HIDE DEF m
      <3> QED
        BY <3>1, <3>2, <3>3
    <2>9. acc_val' = (current + t) % U64
      BY <1>5, <2>5, <2>6, <2>7, <2>8
    <2>10. current' + SumUpTo(closed_vals', recent') = current + t
      BY <1>2, <1>5, <2>1, <2>3
    <2> QED
      BY <2>9, <2>10
  <1> QED
    BY <1>2, <1>6, <1>7, <1>8

\* The length that leaves the window leaves acc_time.
LEMMA MoveTimes ==
  ASSUME IndInv, NEW e \in Elapsed, stats_bucket_move(e), ~wrapped'
  PROVE  acc_time' = Total(closed_times') % U64
  <1> DEFINE o == buf[slot(idx')].elapsed
  <1>1. TypeOK /\ TypeOK' /\ e \in Nat /\ Close(e) /\ ~wrapped
    BY MoveSlot, MoveTurns DEF IndInv, stats_bucket_move
  <1>2. /\ len \in Nat \ {0} /\ U64 \in Nat \ {0}
        /\ Len(closed) \in Nat /\ Len(closed) <= len
        /\ Len(closed') = IF Len(closed) < len THEN Len(closed) + 1 ELSE len
    BY <1>1, ClosedNext, ClosedType, Constants DEF TypeOK
  <1>3. o = TimeAgo(len - 1)
    <2>1. len - 1 \in Slots /\ slot(idx') = slot(idx - (len - 1))
      BY <1>2, MoveTurns DEF IndInv, Slots
    <2> QED
      BY <1>1, <2>1 DEF IndInv, SlotsInTurn
  <1>4. acc_time = SumUpTo(closed_times, Len(closed)) % U64
    BY <1>1, ClosedType DEF IndInv, WindowIsRecent, Total
  <1>5. acc_time' = (acc_time - o + e) % U64
    BY <1>1, MoveSlot
  <1>6. Total(closed_times') = SumUpTo(closed_times', Len(closed'))
    <2>1. Len(closed_times') = Len(closed')
      BY <1>1 DEF TypeOK, closed_times
    <2> QED
      BY <2>1 DEF Total
  <1> HIDE DEF o
  <1>7. PICK n \in Nat : n + 1 = Len(closed') /\ n <= Len(closed)
    <2>1. Len(closed') - 1 \in Nat /\ Len(closed') - 1 <= Len(closed)
          /\ (Len(closed') - 1) + 1 = Len(closed')
      BY <1>2
    <2> QED
      BY <2>1
  <1> DEFINE t == SumUpTo(closed_times, n)
             a == SumUpTo(closed_times, Len(closed))
  <1>8. SumUpTo(closed_times', n + 1) = e + t /\ t \in Int
    BY <1>1, <1>2, <1>7, ClosedSums
  <1>9. a = t + o /\ o \in Int
    <2>1. CASE Len(closed) < len
      <3>1. o = 0 /\ n = Len(closed)
        BY <1>2, <1>3, <1>7, <2>1 DEF TimeAgo
      <3> QED
        BY <1>8, <3>1
    <2>2. CASE ~(Len(closed) < len)
      <3>1. Len(closed) = n + 1 /\ len = n + 1 /\ n + 1 \in 1 .. Len(closed)
        BY <1>2, <1>7, <2>2
      <3>2. o = closed[n + 1].elapsed
        BY <1>2, <1>3, <3>1 DEF TimeAgo
      <3>3. closed_times[n + 1] = o /\ closed_times[n + 1] \in Int
        BY <1>1, <3>1, <3>2, ClosedType
      <3> QED
        BY <3>1, <3>3, SumRecursion
    <2> QED
      BY <2>1, <2>2
  <1> HIDE DEF t, a
  <1> DEFINE m == e - o
  <1>10. m \in Int /\ a \in Int /\ e + t = a + m /\ (a % U64) - o + e = (a % U64) + m
    BY <1>1, <1>2, <1>8, <1>9
  <1> HIDE DEF m
  <1>11. ((a % U64) + m) % U64 = (a + m) % U64
    BY <1>2, <1>10, ModAdd
  <1> QED
    BY <1>4, <1>5, <1>6, <1>7, <1>8, <1>10, <1>11 DEF a

-----------------------------------------------------------------------------
(* Theorems *)

\* Every step keeps the invariant.
LEMMA StepHolds ==
  ASSUME IndInv, [Next]_vars
  PROVE  IndInv'
  <1>1. ASSUME NEW val \in Vals, stats_bucket_add(val)
        PROVE  IndInv'
    BY <1>1, AddSlot, AddSums, AddWindow DEF IndInv
  <1>2. ASSUME NEW e \in Elapsed, stats_bucket_move(e)
        PROVE  IndInv'
    <2>1. TypeOK' /\ AccumulatorsAreSums'
      BY <1>2, MoveSlot, MoveSums DEF IndInv
    <2>2. SlotsInTurn'
      BY <1>2, MoveTurns DEF IndInv, SlotsInTurn
    <2>3. WindowIsRecent'
      BY <1>2, MoveValues, MoveTimes DEF WindowIsRecent
    <2> QED
      BY <2>1, <2>2, <2>3 DEF IndInv
  <1>3. CASE UNCHANGED vars
    BY <1>3 DEF vars, bucket, ghosts, IndInv, TypeOK, AccumulatorsAreSums,
                SlotsInTurn, WindowIsRecent, slot_vals, slot_times, ValueAgo,
                TimeAgo, closed_vals, closed_times, recent
  <1> QED
    BY <1>1, <1>2, <1>3 DEF Next

\* Types, sums, slots and window together are an invariant of the bucket.
THEOREM Inductive == Spec => []IndInv
  BY InitHolds, StepHolds, PTL DEF Spec

\* acc_val and acc_time, which the code only ever adds to and subtracts from,
\* are the sums over the slots for ever.
THEOREM SumsNeverDrift == Spec => []AccumulatorsAreSums
  <1>1. IndInv => AccumulatorsAreSums
    BY DEF IndInv
  <1> QED
    BY <1>1, Inductive, PTL

\* Until idx wraps, the accumulators are of the last len periods.
THEOREM WindowIsExact == Spec => []WindowIsRecent
  <1>1. IndInv => WindowIsRecent
    BY DEF IndInv
  <1> QED
    BY <1>1, Inductive, PTL
=============================================================================
