----------------------------- MODULE CbufProofs -----------------------------
(***************************************************************************)
(* Proofs about module Cbuf, for a ring of any length, items of any size,  *)
(* counters of any width above the length and any page size.               *)
(***************************************************************************)
EXTENDS Cbuf, Arithmetic, SequenceTheorems, TLAPS

-----------------------------------------------------------------------------
(* The inductive invariant *)

Byte == (Items \X (0 .. item_size - 1)) \cup {<<0, 0>>}

TypeOK ==
  /\ head \in 0 .. U32 - 1
  /\ tail \in 0 .. U32 - 1
  /\ mem \in [0 .. sz - 1 -> Byte]
  /\ got \in Nat
  /\ fifo \in Seq(Items)
  /\ puts \in 0 .. 2

\* The tail is ahead of the head by the items in the ring, which are never more
\* than it holds; what cbuf_get handed out is still there.
CountInv ==
  /\ tail = (head + Len(fifo)) % U32
  /\ Len(fifo) <= len
  /\ got <= Len(fifo)

\* Items that one call put are handed out and released together.
ContentInv ==
  /\ puts = 0 => fifo = << >>
  /\ puts = 1 => got = 0 \/ got = Len(fifo)
  /\ SinglePutRoundTrip

IndInv == TypeOK /\ CountInv /\ ContentInv

-----------------------------------------------------------------------------
(* Sizes *)

\* What the proofs need of the constants.
LEMMA Constants ==
  /\ len \in Nat /\ len >= 2
  /\ U32 \in Nat \ {0} /\ len < U32
  /\ item_size \in Nat \ {0}
  /\ PAGE_SZ \in Nat \ {0}
  BY CbufAssumption DEF CbufAssumption

\* Rounding up to pages rounds up.
LEMMA AlignUp ==
  ASSUME NEW x \in Nat
  PROVE  PAGE_ALIGN(x) \in Nat /\ x <= PAGE_ALIGN(x)
  <1> DEFINE y == x + PAGE_SZ - 1
             q == y \div PAGE_SZ
  <1>1. y \in Nat
    BY Constants
  <1>2. q \in Nat /\ y < q * PAGE_SZ + PAGE_SZ
    BY <1>1, Constants
  <1> HIDE DEF q
  <1>3. q * PAGE_SZ \in Nat
    BY <1>2, Constants
  <1> QED
    BY <1>2, <1>3, Constants DEF PAGE_ALIGN, q

\* A mapping holds the items.
LEMMA SzHoldsItems == sz \in Nat \ {0} /\ len * item_size <= sz
  <1>1. len * item_size \in Nat /\ len * item_size > 0
    BY Constants
  <1> QED
    BY <1>1, AlignUp DEF sz

\* No more bytes are used by fewer items.
LEMMA ItemsMonotone ==
  ASSUME NEW n \in Nat, n <= len
  PROVE  n * item_size \in Nat /\ n * item_size <= len * item_size
  BY Constants

\* An offset is below the mapping's size.
LEMMA IdxInRing ==
  ASSUME NEW i \in Nat
  PROVE  cbuf_idx(i) \in Nat /\ cbuf_idx(i) < len - 1
  BY Constants DEF cbuf_idx

\* The items of the ring are at most as many as its bytes.
LEMMA LenInSz == len <= sz
  <1>1. len <= len * item_size
    BY Constants
  <1> QED
    BY <1>1, SzHoldsItems, Constants

-----------------------------------------------------------------------------
(* Counters *)

\* The counters tell the number of items.
LEMMA Counted ==
  ASSUME TypeOK, CountInv
  PROVE  /\ cbuf_used_count = Len(fifo)
         /\ cbuf_free_count = len - Len(fifo)
         /\ Len(fifo) \in Nat
  <1>1. Len(fifo) \in Nat /\ Len(fifo) <= len
    BY DEF TypeOK, CountInv
  <1>2. Len(fifo) \in 0 .. U32 - 1
    BY <1>1, Constants
  <1>3. cbuf_used_count = Len(fifo)
    BY <1>2, ModDiff, Constants DEF cbuf_used_count, TypeOK, CountInv
  <1>4. (len - Len(fifo)) % U32 = len - Len(fifo)
    BY <1>1, Constants
  <1> QED
    BY <1>1, <1>3, <1>4 DEF cbuf_free_count

\* What is in a batch.
LEMMA BatchType ==
  ASSUME NEW items \in Batches
  PROVE  items \in Seq(Items) /\ Len(items) \in 1 .. len
  <1>1. PICK n \in 1 .. len : items \in [1 .. n -> Items]
    BY DEF Batches
  <1> QED
    BY <1>1, Constants

\* The invariant implies that the counts are exact.
LEMMA CountsImplied ==
  ASSUME TypeOK, CountInv
  PROVE  CountsExact
  <1>1. cbuf_is_full <=> Len(fifo) = len
    BY Counted, Constants DEF cbuf_is_full
  <1>2. ASSUME Len(fifo) = 0 PROVE tail = head
    BY <1>2, Constants DEF TypeOK, CountInv
  <1>3. ASSUME tail = head PROVE Len(fifo) = 0
    <2>1. (tail - head) % U32 = 0
      BY <1>3, Constants DEF TypeOK
    <2> QED
      BY <2>1, Counted DEF cbuf_used_count
  <1>4. fifo = << >> <=> Len(fifo) = 0
    BY DEF TypeOK
  <1> QED
    BY <1>1, <1>2, <1>3, <1>4, Counted DEF CountsExact, cbuf_is_empty, CountInv

\* The invariant implies that neither region leaves the mappings.
LEMMA MappingImplied ==
  ASSUME TypeOK, CountInv
  PROVE  InMapping
  <1>1. ASSUME NEW i \in Nat, NEW n \in Nat, n <= len
        PROVE  cbuf_idx(i) + n * item_size <= mapped
    BY <1>1, IdxInRing, ItemsMonotone, SzHoldsItems, LenInSz, Constants
       DEF mapped
  <1>2. cbuf_free_count \in Nat /\ cbuf_free_count <= len
    BY Counted, Constants DEF CountInv
  <1>3. cbuf_used_count \in Nat /\ cbuf_used_count <= len
    BY Counted, Constants DEF CountInv
  <1>4. head \in Nat /\ tail \in Nat
    BY Constants DEF TypeOK
  <1> QED
    BY <1>1, <1>2, <1>3, <1>4 DEF InMapping, out

-----------------------------------------------------------------------------
(* Content *)

\* Where a byte of the k-th item lies, counted from the start of the items.
LEMMA ByteOffset ==
  ASSUME NEW n \in Nat, n <= len, NEW k \in 0 .. n - 1,
         NEW b \in 0 .. item_size - 1
  PROVE  /\ k * item_size + b \in Nat
         /\ k * item_size + b < n * item_size
         /\ k * item_size + b < sz
         /\ (k * item_size + b) \div item_size = k
         /\ (k * item_size + b) % item_size = b
  <1>1. k * item_size + b \in Nat
    BY Constants
  <1>2. (k + 1) * item_size <= n * item_size
    BY Constants
  <1>3. (k + 1) * item_size = k * item_size + item_size
    BY Constants
  <1>4. k * item_size + b < n * item_size
    BY <1>1, <1>2, <1>3, Constants
  <1>5. n * item_size \in Nat /\ n * item_size <= sz
    BY ItemsMonotone, SzHoldsItems, Constants
  <1>6. k * item_size + b < sz
    BY <1>1, <1>4, <1>5, SzHoldsItems
  <1> QED
    BY <1>1, <1>4, <1>6, DivModUnique, Constants

\* An address and the start of the items give the offset back, wherever the
\* items wrap around the ring.
LEMMA OffsetBack ==
  ASSUME NEW start \in Nat, start < sz, NEW x \in Nat, x < sz
  PROVE  /\ (start + x) % sz \in 0 .. sz - 1
         /\ (((start + x) % sz) - start) % sz = x
  <1>1. sz \in Nat \ {0} /\ start \in 0 .. sz - 1 /\ x \in 0 .. sz - 1
    BY SzHoldsItems
  <1>2. (start + x) % sz \in 0 .. sz - 1
    BY <1>1, ModRange
  <1> QED
    BY <1>1, <1>2, ModDiff

\* A client that fills items finds them there.
LEMMA FilledHolds ==
  ASSUME NEW start \in Nat, start < sz,
         NEW items \in Seq(Items), Len(items) <= len,
         mem' = Filled(start, items),
         NEW k \in 0 .. Len(items) - 1
  PROVE  ItemAt(start, k)' = Bytes(items[k + 1])
  <1>1. SUFFICES ASSUME NEW b \in 0 .. item_size - 1
                 PROVE  mem'[(start + k * item_size + b) % sz] = <<items[k + 1], b>>
    BY DEF ItemAt, Bytes
  <1> DEFINE x == k * item_size + b
             a == (start + x) % sz
  <1>2. /\ x \in Nat /\ x < Len(items) * item_size /\ x < sz
        /\ x \div item_size = k /\ x % item_size = b
    BY ByteOffset
  <1>3. a \in 0 .. sz - 1 /\ (a - start) % sz = x
    BY <1>2, OffsetBack
  <1>4. start + k * item_size + b = start + x
    BY Constants
  <1> HIDE DEF x, a
  <1>5. mem'[a] = Bytes(items[x \div item_size + 1])[x % item_size]
    BY <1>2, <1>3 DEF Filled
  <1>6. mem'[a] = <<items[k + 1], b>>
    BY <1>2, <1>5 DEF Bytes
  <1> QED
    BY <1>4, <1>6 DEF a

-----------------------------------------------------------------------------
(* Initial states and steps *)

\* cbuf_init establishes the invariant.
LEMMA InitHolds ==
  ASSUME Init
  PROVE  IndInv
  <1>1. sz \in Nat \ {0}
    BY SzHoldsItems
  <1>2. TypeOK
    BY <1>1, Constants DEF Init, TypeOK, Byte
  <1>3. CountInv
    BY Constants DEF Init, CountInv
  <1>4. ContentInv
    BY DEF Init, ContentInv, SinglePutRoundTrip
  <1> QED
    BY <1>2, <1>3, <1>4 DEF IndInv

\* Memory holds bytes of items after a client filled some.
LEMMA FilledType ==
  ASSUME mem \in [0 .. sz - 1 -> Byte], NEW start \in Nat,
         NEW items \in Seq(Items)
  PROVE  Filled(start, items) \in [0 .. sz - 1 -> Byte]
  <1>1. SUFFICES ASSUME NEW a \in 0 .. sz - 1
                 PROVE  Filled(start, items)[a] \in Byte
    BY DEF Filled
  <1> DEFINE o == (a - start) % sz
             k == o \div item_size
  <1>2. o \in Nat
    BY SzHoldsItems, ModRange
  <1> HIDE DEF o
  <1>3. CASE o < Len(items) * item_size
    <2>1. k \in Nat /\ o % item_size \in 0 .. item_size - 1
      BY <1>2, Constants
    <2>2. k < Len(items)
      <3>1. o = k * item_size + (o % item_size)
        BY <1>2, Constants
      <3>2. CASE k >= Len(items)
        <4>1. k * item_size >= Len(items) * item_size
          BY <2>1, <3>2, Constants, SMTT(30)
        <4> QED
          BY <1>3, <2>1, <3>1, <4>1, Constants
      <3> QED
        BY <2>1, <3>2
    <2>3. items[k + 1] \in Items
      BY <2>1, <2>2
    <2> QED
      BY <1>3, <2>1, <2>3 DEF Filled, Bytes, Byte, o
  <1>4. CASE ~(o < Len(items) * item_size)
    BY <1>4 DEF Filled, o
  <1> QED
    BY <1>3, <1>4

\* Putting items keeps types and counts.
LEMMA PutCounts ==
  ASSUME IndInv, NEW items \in Batches, cbuf_put(items)
  PROVE  TypeOK' /\ CountInv'
  <1>1. items \in Seq(Items) /\ Len(items) \in Nat
    BY BatchType, Constants
  <1>2. fifo \in Seq(Items) /\ head \in 0 .. U32 - 1 /\ tail \in 0 .. U32 - 1
        /\ Len(fifo) \in Nat /\ got \in Nat /\ puts \in 0 .. 2
    BY DEF IndInv, TypeOK
  <1>3. fifo' \in Seq(Items) /\ Len(fifo') = Len(fifo) + Len(items)
    BY <1>1, <1>2 DEF cbuf_put
  <1>4. Len(fifo') <= len
    BY <1>1, <1>2, <1>3, Counted, Constants DEF cbuf_put, IndInv
  <1>5. tail' = (head' + Len(fifo')) % U32
    <2>1. tail' = (((head + Len(fifo)) % U32) + Len(items)) % U32
      BY DEF cbuf_put, IndInv, CountInv
    <2>2. head + Len(fifo) \in Int /\ head' = head
      BY <1>2, Constants DEF cbuf_put
    <2>3. tail' = (head + Len(fifo) + Len(items)) % U32
      BY <1>1, <2>1, <2>2, ModAdd, Constants
    <2>4. head + Len(fifo) + Len(items) = head' + Len(fifo')
      BY <1>1, <1>2, <1>3, <2>2, Constants
    <2> QED
      BY <2>3, <2>4
  <1>6. head' \in 0 .. U32 - 1 /\ tail' \in 0 .. U32 - 1
    BY <1>1, <1>2, ModRange, Constants DEF cbuf_put
  <1>7. mem' \in [0 .. sz - 1 -> Byte]
    <2>1. PICK start \in Nat : start = cbuf_idx(tail)
      BY <1>2, IdxInRing, Constants
    <2> QED
      BY <1>1, <2>1, FilledType DEF cbuf_put, IndInv, TypeOK
  <1> QED
    BY <1>2, <1>3, <1>4, <1>5, <1>6, <1>7
       DEF cbuf_put, IndInv, TypeOK, CountInv

\* The first items put into an empty ring are found there.
LEMMA PutContent ==
  ASSUME IndInv, NEW items \in Batches, cbuf_put(items)
  PROVE  ContentInv'
  <1>1. items \in Seq(Items) /\ Len(items) \in Nat /\ Len(items) <= len
    BY BatchType, Constants
  <1>2. puts \in 0 .. 2 /\ puts' # 0
    BY DEF IndInv, TypeOK, cbuf_put
  <1>3. SUFFICES ASSUME puts' <= 1
                 PROVE  /\ got' = 0
                        /\ \A k \in 1 .. Len(fifo') :
                             ItemAt(out, k - 1)' = Bytes(fifo'[k])
    BY <1>2 DEF ContentInv, SinglePutRoundTrip, Bytes
  <1>4. puts = 0 /\ fifo = << >>
    BY <1>2, <1>3 DEF cbuf_put, IndInv, ContentInv
  <1>5. tail = head /\ got = 0
    BY <1>4, Constants DEF IndInv, TypeOK, CountInv
  <1>6. fifo' = items
    BY <1>1, <1>4 DEF cbuf_put
  <1>7. PICK start \in Nat : start = cbuf_idx(tail)
    BY IdxInRing, Constants DEF IndInv, TypeOK
  <1>8. start < sz
    BY <1>7, IdxInRing, LenInSz, SzHoldsItems, Constants DEF IndInv, TypeOK
  <1>9. mem' = Filled(start, items)
    BY <1>7 DEF cbuf_put
  <1>10. out' = start
    BY <1>5, <1>7 DEF cbuf_put, out, cbuf_idx
  <1>11. ASSUME NEW k \in 1 .. Len(items)
         PROVE  ItemAt(out, k - 1)' = Bytes(items[k])
    <2>1. k - 1 \in 0 .. Len(items) - 1 /\ (k - 1) + 1 = k
      BY <1>1
    <2>2. ItemAt(start, k - 1)' = Bytes(items[k])
      BY <1>1, <1>8, <1>9, <2>1, FilledHolds
    <2> QED
      BY <1>10, <2>2 DEF ItemAt
  <1> QED
    BY <1>5, <1>6, <1>11 DEF cbuf_put

\* Releasing items keeps types and counts.
LEMMA ReleaseCounts ==
  ASSUME IndInv, cbuf_advance_head
  PROVE  TypeOK' /\ CountInv'
  <1>1. fifo \in Seq(Items) /\ head \in 0 .. U32 - 1 /\ tail \in 0 .. U32 - 1
        /\ Len(fifo) \in Nat /\ got \in Nat /\ got <= Len(fifo) /\ got > 0
    BY DEF IndInv, TypeOK, CountInv, cbuf_advance_head
  <1>2. fifo' \in Seq(Items) /\ Len(fifo') = Len(fifo) - got
    BY <1>1, SubSeqProperties DEF cbuf_advance_head
  <1>3. tail' = (head' + Len(fifo')) % U32
    <2>1. head' = (head + got) % U32 /\ tail' = tail
      BY DEF cbuf_advance_head
    <2>2. (((head + got) % U32) + Len(fifo')) % U32
            = ((head + got) + Len(fifo')) % U32
      <3>1. head + got \in Int /\ Len(fifo') \in Int
        BY <1>1, <1>2, Constants
      <3> QED
        BY <3>1, ModAdd, Constants
    <2>3. (head + got) + Len(fifo') = head + Len(fifo)
      BY <1>1, <1>2, Constants
    <2> QED
      BY <2>1, <2>2, <2>3 DEF IndInv, CountInv
  <1>4. head' \in 0 .. U32 - 1
    BY <1>1, ModRange, Constants DEF cbuf_advance_head
  <1>5. Len(fifo') <= len /\ got' <= Len(fifo')
    BY <1>1, <1>2, Constants DEF cbuf_advance_head, IndInv, CountInv
  <1> QED
    BY <1>1, <1>2, <1>3, <1>4, <1>5
       DEF cbuf_advance_head, IndInv, TypeOK, CountInv

\* One call's items are released all at once: what is left was put by others.
LEMMA ReleaseContent ==
  ASSUME IndInv, cbuf_advance_head
  PROVE  ContentInv'
  <1>1. fifo \in Seq(Items) /\ Len(fifo) \in Nat /\ got \in Nat
        /\ got <= Len(fifo) /\ got > 0 /\ puts \in 0 .. 2
    BY DEF IndInv, TypeOK, CountInv, cbuf_advance_head
  <1>2. CASE got = Len(fifo)
    <2>1. fifo' = << >> /\ puts' = 0
      BY <1>1, <1>2 DEF cbuf_advance_head
    <2> QED
      BY <2>1 DEF ContentInv, SinglePutRoundTrip
  <1>3. CASE got # Len(fifo)
    <2>1. puts # 0
      BY <1>1 DEF IndInv, ContentInv
    <2>2. puts = 2 /\ puts' = 2
      BY <1>1, <1>3, <2>1 DEF IndInv, ContentInv, cbuf_advance_head
    <2> QED
      BY <2>2 DEF ContentInv, SinglePutRoundTrip
  <1> QED
    BY <1>2, <1>3

\* Every step keeps the invariant.
LEMMA StepHolds ==
  ASSUME IndInv, [Next]_vars
  PROVE  IndInv'
  <1>1. ASSUME NEW items \in Batches, cbuf_put(items)
        PROVE  IndInv'
    BY <1>1, PutCounts, PutContent DEF IndInv
  <1>2. CASE cbuf_get
    <2>1. TypeOK' /\ CountInv'
      BY <1>2, Counted, Constants DEF cbuf_get, IndInv, TypeOK, CountInv
    <2>2. ContentInv'
      BY <1>2, Counted DEF cbuf_get, IndInv, ContentInv, SinglePutRoundTrip,
                           ItemAt, out, cbuf_idx, Bytes
    <2> QED
      BY <2>1, <2>2 DEF IndInv
  <1>3. CASE cbuf_advance_head
    BY <1>3, ReleaseCounts, ReleaseContent DEF IndInv
  <1>4. CASE UNCHANGED vars
    BY <1>4 DEF vars, IndInv, TypeOK, CountInv, ContentInv, SinglePutRoundTrip,
                ItemAt, out, cbuf_idx, Bytes
  <1> QED
    BY <1>1, <1>2, <1>3, <1>4 DEF Next

-----------------------------------------------------------------------------
(* Theorems *)

\* The conjunction of types, counts and content is an invariant of the ring.
THEOREM Inductive == Spec => []IndInv
  BY InitHolds, StepHolds, PTL DEF Spec

\* cbuf_used_count, cbuf_free_count, cbuf_is_full and cbuf_is_empty are exact
\* at every position of the wrapping counters.
THEOREM CountsAreExact == Spec => []CountsExact
  <1>1. IndInv => CountsExact
    BY CountsImplied DEF IndInv
  <1> QED
    BY <1>1, Inductive, PTL

\* Clients of cbuf_put and cbuf_get stay inside the two mappings.
THEOREM MappingSuffices == Spec => []InMapping
  <1>1. IndInv => InMapping
    BY MappingImplied DEF IndInv
  <1> QED
    BY <1>1, Inductive, PTL

\* What one call put into an empty ring comes out of cbuf_get unchanged.
THEOREM SinglePutIsRead == Spec => []SinglePutRoundTrip
  <1>1. IndInv => SinglePutRoundTrip
    BY DEF IndInv, ContentInv
  <1> QED
    BY <1>1, Inductive, PTL
=============================================================================
