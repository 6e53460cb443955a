-------------------------------- MODULE Page --------------------------------
(***************************************************************************)
(* The slotted page of src/src/tree/node.c as a value, and its operations  *)
(* as operators on it.  A page has, from low to high offsets, the struct   *)
(* node, the array of cell pointers, a gap, and from cell_offset on the    *)
(* cells; cells that were given up are linked into a list of tombstones.   *)
(*                                                                         *)
(* A cell pointer and the cell it points to are one record.  Keys are      *)
(* sequences of bytes; of a value only its size is kept.  Sequences count  *)
(* from 1, the code's idx from 0: idx is kept as in the code.              *)
(***************************************************************************)
EXTENDS Sums, SequencesExt

CONSTANTS
  NODE_SIZE,
  sizeof_node,    \* struct node
  sizeof_cell,    \* struct cell
  sizeof_ptr,     \* struct cell_ptr, one __u32; also the alignment of cells
  U32             \* number of values of a __u32

ASSUME PageAssumption ==
  /\ sizeof_ptr \in Nat \ {0}
  /\ sizeof_cell \in Nat \ {0}
  /\ sizeof_node \in Nat \ {0}
  /\ NODE_SIZE \in Nat /\ NODE_SIZE \div 2 > sizeof_node
  /\ U32 \in Nat /\ U32 > NODE_SIZE

\* No node: page ids are positive.
NULL == 0

ALIGN(x, a) == ((x + a - 1) \div a) * a

-----------------------------------------------------------------------------
(* Cells and the space they take *)

\* What a cell uses of the page, and what its tombstone will offer.
used_size(cell) == sizeof_cell + Len(cell.key) + cell.value_size

\* What an insertion takes from the gap.
new_cell_size(key_size, value_size) ==
  ALIGN(key_size + value_size + sizeof_cell, sizeof_ptr)

hdr_offset_limit(n) == sizeof_node + sizeof_ptr * Len(n.cells)

\* An unsigned difference: it wraps once the pointers have passed cell_offset.
free_space(n) == (n.cell_offset - hdr_offset_limit(n)) % U32

node_init(leaf) ==
  [leaf |-> leaf, cells |-> << >>, tombs |-> << >>, cell_offset |-> NODE_SIZE,
   tombstone_bytes |-> 0, rightmost |-> NULL]

-----------------------------------------------------------------------------
(* Search *)

\* Mutant: a key and a prefix of it compare equal.
key_compare_prefix(cell_key, key) ==
  LET differ == {i \in 1 .. Min({Len(cell_key), Len(key)}) :
                   cell_key[i] # key[i]}
  IN  IF differ = {} THEN 0 ELSE cell_key[Min(differ)] - key[Min(differ)]

\* memcmp on what both have, then the sizes, cell after key: of a key and a
\* proper prefix of it, the longer one comes first.
key_compare(cell_key, key) ==
  LET differ == {i \in 1 .. Min({Len(cell_key), Len(key)}) :
                   cell_key[i] # key[i]}
  IN  IF differ = {}
      THEN Len(key) - Len(cell_key)
      ELSE cell_key[Min(differ)] - key[Min(differ)]

\* A turn of the loop; where the key is found, low is left at its place.
search_turn(n, key, s) ==
  LET mid == (s.low + s.high) \div 2
      cmp == key_compare(n.cells[mid + 1].key, key)
  IN  IF s.found \/ s.low >= s.high THEN s
      ELSE CASE cmp = 0 -> [s EXCEPT !.found = TRUE, !.low = mid]
             [] cmp > 0 -> [s EXCEPT !.high = mid]
             [] cmp < 0 -> [s EXCEPT !.low = mid + 1]

\* Every turn shortens the range: there are at most as many as there are cells.
node_bin_search(n, key) ==
  LET loop[i \in Nat] ==
        IF i = 0 THEN [low |-> 0, high |-> Len(n.cells), found |-> FALSE]
        ELSE search_turn(n, key, loop[i - 1])
      end == loop[Len(n.cells)]
  IN  [found |-> end.found, idx |-> end.low]

-----------------------------------------------------------------------------
(* Room for a cell *)

in_gap(n, size) == free_space(n) >= size

\* The list is searched to its end.
node_is_full(n, key_size, value_size) ==
  LET size == new_cell_size(key_size, value_size)
  IN  ~in_gap(n, size) /\ \A t \in Range(n.tombs) : t.size < size

\* Mutant: a tombstone of just the size is passed over.
fits_tombstone_larger(n, size) == n.tombs # << >> /\ size < n.tombs[1].size

\* Only the first tombstone is considered.
fits_tombstone(n, size) == n.tombs # << >> /\ size <= n.tombs[1].size

\* 0, the place of the struct node, if there is no room.
node_get_free_offset(n, key_size, value_size) ==
  LET size == new_cell_size(key_size, value_size)
  IN  IF in_gap(n, size) THEN n.cell_offset - size
      ELSE IF fits_tombstone(n, size) THEN n.tombs[1].off
      ELSE 0

\* Mutant: all that is left of the tombstone is given to the remainder, which
\* starts one cell header late.
remainder_late(t, size) ==
  IF t.size - size > ALIGN(sizeof_cell, sizeof_ptr)
  THEN <<[off |-> t.off + size + sizeof_cell, size |-> t.size - size]>>
  ELSE << >>

\* The tombstone made of what a cell of this size leaves of tombstone t.
remainder(t, size) ==
  IF t.size - size > ALIGN(sizeof_cell, sizeof_ptr)
  THEN <<[off |-> t.off + size, size |-> t.size - size - sizeof_cell]>>
  ELSE << >>

\* What node_get_free_offset does to the page.
take_free_offset(n, key_size, value_size) ==
  LET size == new_cell_size(key_size, value_size)
  IN  IF ~in_gap(n, size) /\ fits_tombstone(n, size)
      THEN [n EXCEPT !.tombs = remainder(@[1], size) \o Tail(@),
                     !.tombstone_bytes = (@ - size) % U32]
      ELSE n

-----------------------------------------------------------------------------
(* Changes of a page *)

Cell(off, key, value_size, child) ==
  [off |-> off, key |-> key, value_size |-> value_size, child |-> child]

\* Mutant: the pointers do not move up.
node_insert_cell_over(n, idx, cell) ==
  [n EXCEPT !.cells = SubSeq(@, 1, idx) \o <<cell>>
                        \o SubSeq(@, idx + 2, Len(@)),
            !.cell_offset = cell.off]

\* Pointers from idx on move up; the cell is written; cell_offset becomes its
\* offset, wherever in the page that is.
node_insert_cell(n, idx, cell) ==
  [n EXCEPT !.cells = InsertAt(@, idx + 1, cell), !.cell_offset = cell.off]

node_insert_leaf_cell(n, idx, key, value_size) ==
  LET off == node_get_free_offset(n, Len(key), value_size)
  IN  node_insert_cell(take_free_offset(n, Len(key), value_size), idx,
                       Cell(off, key, value_size, NULL))

node_insert_internal_cell(n, idx, key, child) ==
  LET off == node_get_free_offset(n, Len(key), 0)
  IN  node_insert_cell(take_free_offset(n, Len(key), 0), idx,
                       Cell(off, key, 0, child))

tombstone(cell) == [off |-> cell.off, size |-> used_size(cell)]

\* Mutant: counts only the newest tombstone.
set_tombstone_assigned(n, cell) ==
  [n EXCEPT !.tombs = <<tombstone(cell)>> \o @,
            !.tombstone_bytes = used_size(cell)]

\* The cell becomes the head of the list.  Its pointer is left to the caller.
node_tuple_set_tombstone(n, cell) ==
  [n EXCEPT !.tombs = <<tombstone(cell)>> \o @,
            !.tombstone_bytes = (@ + used_size(cell)) % U32]

\* node_delete_key, for the idx at which the key was found.
node_delete_idx(n, idx) ==
  LET buried == node_tuple_set_tombstone(n, n.cells[idx + 1])
  IN  [buried EXCEPT !.cells = RemoveAt(@, idx + 1)]

-----------------------------------------------------------------------------
(* Splits *)

\* Bytes of the first i cells.
bytes_upto(cells, i) == SumUpTo([j \in DOMAIN cells |-> used_size(cells[j])], i)

\* The first index at which half a page has been seen, or the size.
node_partition_idx(n) ==
  Min({i \in 0 .. Len(n.cells) :
         \/ i = Len(n.cells)
         \/ bytes_upto(n.cells, i) >= NODE_SIZE \div 2 - sizeof_node})

\* The new node with these cells, each written below the one before it, without
\* alignment.
node_of(leaf, cells) ==
  LET off(i) == NODE_SIZE - bytes_upto(cells, i)
  IN  [node_init(leaf) EXCEPT
         !.cells = @ \o [i \in DOMAIN cells |-> [cells[i] EXCEPT !.off = off(i)]],
         !.cell_offset = off(Len(cells))]

\* Mutant: keeps the partition cell as well.
node_cut_after(n, partition_idx) ==
  LET dead == SubSeq(n.cells, partition_idx + 1, Len(n.cells))
  IN  [n EXCEPT !.cells = SubSeq(@, 1, partition_idx + 1),
                !.tombs = Reverse([i \in DOMAIN dead |-> tombstone(dead[i])]) \o @,
                !.tombstone_bytes = (@ + bytes_upto(dead, Len(dead))) % U32]

\* The node that keeps the cells before partition_idx: node_tuple_set_tombstone
\* has been called for the others, in their order.
node_cut(n, partition_idx) ==
  LET dead == SubSeq(n.cells, partition_idx + 1, Len(n.cells))
  IN  [n EXCEPT !.cells = SubSeq(@, 1, partition_idx),
                !.tombs = Reverse([i \in DOMAIN dead |-> tombstone(dead[i])]) \o @,
                !.tombstone_bytes = (@ + bytes_upto(dead, Len(dead))) % U32]

\* Mutant: the partition tuple is not copied, as in an internal node.
leaf_moved_after(n, partition_idx) ==
  SubSeq(n.cells, partition_idx + 2, Len(n.cells))

\* The cells that leaf_node_split and internal_node_split copy.  The partition
\* cell of an internal node is not among them, nor is its child kept.
leaf_moved(n, partition_idx) ==
  SubSeq(n.cells, partition_idx + 1, Len(n.cells))

internal_moved(n, partition_idx) ==
  SubSeq(n.cells, partition_idx + 2, Len(n.cells))

leaf_node_split(n, partition_idx) ==
  <<node_cut(n, partition_idx), node_of(TRUE, leaf_moved(n, partition_idx))>>

\* rightmost of the node stays, rightmost of the new node is NULL.
internal_node_split(n, partition_idx) ==
  <<node_cut(n, partition_idx),
    node_of(FALSE, internal_moved(n, partition_idx))>>

-----------------------------------------------------------------------------
(* Order *)

\* The order of keys, said without comparing sizes: a is before b if it is less
\* at the first place where they differ or goes on where b ends.
Before(a, b) ==
  \E i \in DOMAIN a :
    /\ \A j \in 1 .. i - 1 : j <= Len(b) /\ a[j] = b[j]
    /\ i > Len(b) \/ a[i] < b[i]

-----------------------------------------------------------------------------
(* Layout *)

Apart(lo1, size1, lo2, size2) == lo1 + size1 <= lo2 \/ lo2 + size2 <= lo1

\* No two live cells share a byte.
CellsApart(n) ==
  \A i, j \in DOMAIN n.cells : i # j =>
    Apart(n.cells[i].off, used_size(n.cells[i]),
          n.cells[j].off, used_size(n.cells[j]))

\* Live cells are between the pointers and the end of the page.
CellsInside(n) ==
  \A i \in DOMAIN n.cells :
    /\ hdr_offset_limit(n) <= n.cells[i].off
    /\ n.cells[i].off + used_size(n.cells[i]) <= NODE_SIZE

\* The tombstones that are linked are inside the page and used by nothing else.
TombsIntact(n) ==
  \A i \in DOMAIN n.tombs : LET t == n.tombs[i] IN
    /\ hdr_offset_limit(n) <= t.off
    /\ t.off + t.size <= NODE_SIZE
    /\ \A j \in DOMAIN n.tombs \ {i} :
         Apart(t.off, t.size, n.tombs[j].off, n.tombs[j].size)
    /\ \A j \in DOMAIN n.cells :
         Apart(t.off, t.size, n.cells[j].off, used_size(n.cells[j]))

Intact(n) == CellsApart(n) /\ CellsInside(n) /\ TombsIntact(n)

\* cell_offset has been set above something that is in use: the gap below it is
\* no longer free.
Raised(n) == \/ \E i \in DOMAIN n.cells : n.cells[i].off < n.cell_offset
             \/ \E i \in DOMAIN n.tombs : n.tombs[i].off < n.cell_offset
=============================================================================
