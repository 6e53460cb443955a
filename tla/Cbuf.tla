-------------------------------- MODULE Cbuf --------------------------------
(***************************************************************************)
(* The ring of src/src/cbuf.c: sz bytes mapped twice in a row, so that a   *)
(* client may use up to len items in place from any start without wrapping *)
(* by hand, and two free-running __u32 counters.  A client calls cbuf_put, *)
(* fills items in place and advances the tail; it calls cbuf_get, uses the *)
(* items in place for as long as it likes (the kernel does, in             *)
(* dump_tracing_items) and advances the head later, by the count it got.   *)
(*                                                                         *)
(* Memory is modelled by the byte: <<v, b>> is byte b of item v.           *)
(***************************************************************************)
EXTENDS Integers, Sequences

CONSTANTS
  len,          \* items the ring holds
  item_size,    \* bytes of an item
  PAGE_SZ,      \* alignment of the mapping
  U32,          \* number of values of a __u32
  Items         \* the items clients put

ASSUME CbufAssumption ==
  /\ len \in Nat /\ len >= 2
  /\ item_size \in Nat \ {0}
  /\ PAGE_SZ \in Nat \ {0}
  /\ U32 \in Nat /\ U32 > len

VARIABLES
  head, tail,   \* the counters
  mem,          \* the bytes of the memfd that is mapped twice
  got,          \* items handed out by cbuf_get and not yet released
  fifo,         \* ghost: the items put and not yet released
  puts          \* ghost: the calls of cbuf_put that fifo stems from

vars == <<head, tail, mem, got, fifo, puts>>

-----------------------------------------------------------------------------
PAGE_ALIGN(x) == ((x + PAGE_SZ - 1) \div PAGE_SZ) * PAGE_SZ

sz == PAGE_ALIGN(len * item_size)

\* Mutant: maps the file once.
mapped_once == sz

\* The bytes from cbuf->buf on that may be accessed.
mapped == 2 * sz

\* Mutant: the counters are reduced modulo len before they are compared.
used_masked == (tail - head) % len

cbuf_used_count == (tail - head) % U32

cbuf_free_count == (len - cbuf_used_count) % U32

cbuf_is_full == cbuf_free_count = 0

cbuf_is_empty == tail = head

\* buf is a void pointer: the index counts bytes, not items.
cbuf_idx(index) == index % (len - 1)

Bytes(v) == [b \in 0 .. item_size - 1 |-> <<v, b>>]

\* What a client finds in its k-th item (from 0) at address start.
ItemAt(start, k) ==
  [b \in 0 .. item_size - 1 |-> mem[(start + k * item_size + b) % sz]]

\* The memory after a client filled the items at address start.
Filled(start, items) ==
  [a \in 0 .. sz - 1 |->
     LET o == (a - start) % sz
     IN  IF o < Len(items) * item_size
         THEN Bytes(items[o \div item_size + 1])[o % item_size]
         ELSE mem[a]]

\* cbuf_init.  A fresh memfd is all zeroes, which is no byte of any item.
Init ==
  /\ head = 0
  /\ tail = 0
  /\ mem = [a \in 0 .. sz - 1 |-> <<0, 0>>]
  /\ got = 0
  /\ fifo = << >>
  /\ puts = 0

\* cbuf_put, the client's stores into the room it was given, and
\* cbuf_advance_tail.
cbuf_put(items) ==
  /\ Len(items) <= cbuf_free_count
  /\ mem' = Filled(cbuf_idx(tail), items)
  /\ tail' = (tail + Len(items)) % U32
  /\ fifo' = fifo \o items
  /\ puts' = IF puts = 2 THEN 2 ELSE puts + 1
  /\ UNCHANGED <<head, got>>

\* Mutant: hands out the items of another index.
out_masked == head % len

\* The address that cbuf_get hands out.
out == cbuf_idx(head)

cbuf_get ==
  /\ got = 0
  /\ cbuf_used_count > 0
  /\ got' = cbuf_used_count
  /\ UNCHANGED <<head, tail, mem, fifo, puts>>

cbuf_advance_head ==
  /\ got > 0
  /\ head' = (head + got) % U32
  /\ fifo' = SubSeq(fifo, got + 1, Len(fifo))
  /\ puts' = IF got = Len(fifo) THEN 0 ELSE puts
  /\ got' = 0
  /\ UNCHANGED <<tail, mem>>

Batches == UNION {[1 .. n -> Items] : n \in 1 .. len}

Next ==
  \/ \E items \in Batches : cbuf_put(items)
  \/ cbuf_get
  \/ cbuf_advance_head

Spec == Init /\ [][Next]_vars

-----------------------------------------------------------------------------
(* Properties *)

\* The counters tell exactly how many items are in the ring and how many more
\* fit, empty and full included, also after either counter has wrapped.
CountsExact ==
  /\ cbuf_used_count = Len(fifo)
  /\ cbuf_free_count = len - Len(fifo)
  /\ cbuf_is_full <=> Len(fifo) = len
  /\ cbuf_is_empty <=> fifo = << >>
  /\ got <= Len(fifo)

\* Neither the room that cbuf_put promises nor the items that cbuf_get hands
\* out reach past the two mappings, wherever in the ring they start.
InMapping ==
  /\ cbuf_idx(tail) + cbuf_free_count * item_size <= mapped
  /\ out + cbuf_used_count * item_size <= mapped

\* Items that were put into an empty ring by one call come out as they went in,
\* at every position of the counters: the case that test_cbuf.c tests.
SinglePutRoundTrip ==
  puts <= 1 => \A k \in 1 .. Len(fifo) : ItemAt(out, k - 1) = Bytes(fifo[k])

\* Items come out as they went in, whatever calls put them: what the ASSERTs on
\* buf[0].a and buf[1].a in test_cbuf.c demand, and what background_tracing,
\* which puts one item at a time, relies on.
FifoContent ==
  \A k \in 1 .. Len(fifo) : ItemAt(out, k - 1) = Bytes(fifo[k])
=============================================================================
