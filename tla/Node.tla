-------------------------------- MODULE Node --------------------------------
(***************************************************************************)
(* One leaf page and the calls that the tests in src/tests/test_btree_node *)
(* make of it, in any order: node_bin_search and node_insert_nonfull of a  *)
(* new key, and node_delete_key.  As the name says, node_insert_nonfull is *)
(* called when node_is_full denies.                                        *)
(*                                                                         *)
(* Once cells overlap, what the page holds depends on the bytes of keys    *)
(* and values: the model stops there.                                      *)
(***************************************************************************)
EXTENDS Page

CONSTANTS
  Keys,           \* keys that are inserted, sequences of bytes
  ValueSizes      \* sizes of the values

ASSUME NodeAssumption ==
  /\ Keys \subseteq Seq(Nat)
  /\ ValueSizes \subseteq Nat
  \* A __u32 can count all bytes as often as a page has bytes.
  /\ NODE_SIZE * NODE_SIZE < U32

VARIABLE node

-----------------------------------------------------------------------------
Init == node = node_init(TRUE)

insert(key, value_size) ==
  LET at == node_bin_search(node, key) IN
  /\ Intact(node)
  /\ ~at.found
  /\ ~node_is_full(node, Len(key), value_size)
  /\ node' = node_insert_leaf_cell(node, at.idx, key, value_size)

node_delete_key(key) ==
  LET at == node_bin_search(node, key) IN
  /\ Intact(node)
  /\ at.found
  /\ node' = node_delete_idx(node, at.idx)

Next == \E key \in Keys :
  \/ \E value_size \in ValueSizes : insert(key, value_size)
  \/ node_delete_key(key)

Spec == Init /\ [][Next]_node

-----------------------------------------------------------------------------
(* Properties *)

\* The tuples of the page, as the abstract store has them.
Abstract == INSTANCE TupleStore WITH
  Tuples <- Keys \X ValueSizes,
  store <- ToBag([i \in DOMAIN node.cells |->
                    <<node.cells[i].key, node.cells[i].value_size>>]),
  count <- Len(node.cells)

\* An insertion adds its tuple and a deletion removes it, and nothing else comes
\* or goes with either, tombstones reused or not.
ImplementsStore == Abstract!StoreSpec

\* On an intact page the binary search finds exactly the keys that are there,
\* and for any other key the one place that keeps the cells in order.
SearchExact ==
  Intact(node) => \A key \in Keys :
    LET at == node_bin_search(node, key)
        keys == [i \in DOMAIN node.cells |-> node.cells[i].key]
    IN  /\ at.found <=> key \in Range(keys)
        /\ at.found => keys[at.idx + 1] = key
        /\ at.idx = Cardinality({i \in DOMAIN keys : Before(keys[i], key)})

\* tombstone_bytes never falls below what the list offers, so that taking from
\* the list never wraps it; what it is above that is what reuse has leaked.
TombstonesCounted ==
  Total([i \in DOMAIN node.tombs |-> node.tombs[i].size])
    <= node.tombstone_bytes

\* The pointer that an insertion adds does not fit, which no test looks at.
PointerForgotten(n, size) ==
  free_space(n) < sizeof_ptr + (IF in_gap(n, size) THEN size ELSE 0)

\* node_is_full has seen a tombstone that node_get_free_offset does not look at.
OffsetMissing(n, size) == ~in_gap(n, size) /\ ~fits_tombstone(n, size)

\* The three ways, and the only ones, in which a call damages an intact page:
\* cell_offset was left above something in use, the pointer had no room, or
\* there was no offset for the cell.  Deletions and reuse as such never do.
DamageOrigin ==
  [][Intact(node) /\ ~Intact(node)' =>
       \E key \in Keys, value_size \in ValueSizes :
         LET size == new_cell_size(Len(key), value_size) IN
         /\ insert(key, value_size)
         /\ \/ Raised(node)
            \/ PointerForgotten(node, size)
            \/ OffsetMissing(node, size)]_node

\* What insert_and_test asserts of a key it has just inserted, that its value is
\* what was stored, for all keys and from then on: no cell is written over
\* another one.
TuplesKept == CellsApart(node)
=============================================================================
