------------------------------- MODULE Btree -------------------------------
(***************************************************************************)
(* The tree of src/src/tree/btree.c over the pages of module Page.         *)
(* btree_insert walks down to a leaf and keeps the nodes it passes as      *)
(* breadcrumbs; if the leaf is full it goes up, marking the nodes that the *)
(* new separators will not fit in and allocating their siblings, puts a    *)
(* new root above a full one, and goes down again splitting and writing.   *)
(* One action is one step of one of its loops.  Nothing else runs in the   *)
(* meantime; pc = "idle" are the states that a caller sees.                *)
(*                                                                         *)
(* Left out: parent_pid and the root flag, which nothing reads, values,    *)
(* and a malloc that fails.  As in Node, the model stops when a page has   *)
(* been damaged.                                                           *)
(***************************************************************************)
EXTENDS Page

CONSTANTS
  Tuples,         \* tuples that are inserted: key and size of the value
  MaxInserts      \* bound on the tuples that are inserted

ASSUME BtreeAssumption == Tuples \subseteq Seq(Nat) \X Nat /\ MaxInserts \in Nat

VARIABLES
  root,           \* btree->root
  count,          \* btree->count
  nodes,          \* pages that were allocated, by page id
  pc,             \* where btree_insert is
  key, value_size,  \* its arguments
  breadcrumbs,    \* from the root down
  bc_idx,         \* index into breadcrumbs, from 1
  leaf_node       \* where the tuple will go

vars == <<root, count, nodes, pc, key, value_size, breadcrumbs, bc_idx,
          leaf_node>>

args == <<key, value_size>>
locals == <<breadcrumbs, bc_idx, leaf_node>>

-----------------------------------------------------------------------------
Crumb(pid) ==
  [node |-> pid, new_node |-> NULL, f_node |-> NULL, partition_idx |-> 0,
   is_full |-> FALSE]

\* btree_node_alloc: the id of the next page.
fresh == Len(nodes) + 1

\* The cell at idx, from 0, of a page.
cell_at(n, idx) == n.cells[idx + 1]

\* The key of the cell at which the node of a breadcrumb is to be split.
partition_key(bc) == cell_at(nodes[bc.node], bc.partition_idx).key

\* btree_init
Init ==
  /\ root = 1
  /\ count = 0
  /\ nodes = <<node_init(TRUE)>>
  /\ pc = "idle"
  /\ key = << >> /\ value_size = 0
  /\ breadcrumbs = << >> /\ bc_idx = 0 /\ leaf_node = NULL

\* btree_insert is called.
btree_insert(k, size) ==
  /\ pc = "idle" /\ count < MaxInserts
  /\ \A pid \in DOMAIN nodes : Intact(nodes[pid])
  /\ pc' = "descend"
  /\ key' = k /\ value_size' = size
  /\ breadcrumbs' = <<Crumb(root)>>
  /\ UNCHANGED <<root, count, nodes, bc_idx, leaf_node>>

\* btree_insert returns.
return ==
  /\ pc' = "idle"
  /\ key' = << >> /\ value_size' = 0
  /\ breadcrumbs' = << >> /\ bc_idx' = 0 /\ leaf_node' = NULL

\* The call ends in a failed ASSERT, or where the code no longer says what
\* happens.
stop(how) == pc' = how /\ UNCHANGED <<args, locals>>

-----------------------------------------------------------------------------
(* Down to the leaf *)

here == nodes[Last(breadcrumbs).node]

\* An internal node has the key: the key "already exists".
refuse ==
  /\ pc = "descend" /\ ~here.leaf
  /\ node_bin_search(here, key).found
  /\ return
  /\ UNCHANGED <<root, count, nodes>>

\* The child of node n that idx leads to.
child_at(n, idx) ==
  IF idx < Len(n.cells) THEN cell_at(n, idx).child ELSE n.rightmost

follow ==
  LET at == node_bin_search(here, key)
      child == child_at(here, at.idx)
  IN
  /\ pc = "descend" /\ ~here.leaf /\ ~at.found
  /\ IF child = NULL
     THEN stop("abort")
     ELSE /\ breadcrumbs' = Append(breadcrumbs, Crumb(child))
          /\ UNCHANGED <<pc, bc_idx, leaf_node, args>>
  /\ UNCHANGED <<root, count, nodes>>

leaf_has_room ==
  /\ pc = "descend" /\ here.leaf
  /\ ~node_is_full(here, Len(key), value_size)
  /\ pc' = "insert"
  /\ leaf_node' = Last(breadcrumbs).node
  /\ UNCHANGED <<root, count, nodes, breadcrumbs, bc_idx, args>>

\* Mutant: a key above the partition stays in the old leaf.
leaf_side_old(partition, pid) ==
  IF key_compare(partition, key) > 0 THEN fresh ELSE pid

\* The half that the new tuple goes to.
leaf_side(partition, pid) ==
  IF key_compare(partition, key) < 0 THEN fresh ELSE pid

\* With partition_idx = size there is no cell to take the separator from, and
\* nothing to move: on the way down leaf_node_split asserts that the new leaf is
\* not empty.
leaf_is_full ==
  LET partition_idx == node_partition_idx(here)
      pid == Last(breadcrumbs).node
      last == Len(breadcrumbs)
  IN
  /\ pc = "descend" /\ here.leaf
  /\ node_is_full(here, Len(key), value_size)
  /\ IF partition_idx = Len(here.cells)
     THEN stop("abort") /\ UNCHANGED nodes
     ELSE LET side == leaf_side(cell_at(here, partition_idx).key, pid) IN
          /\ pc' = "propagate"
          /\ nodes' = Append(nodes, node_init(TRUE))
          /\ leaf_node' = side
          /\ breadcrumbs' = [breadcrumbs EXCEPT ![last] =
               [node |-> pid, new_node |-> fresh, f_node |-> side,
                partition_idx |-> partition_idx, is_full |-> TRUE]]
          /\ bc_idx' = last - 1
          /\ UNCHANGED args
  /\ UNCHANGED <<root, count>>

-----------------------------------------------------------------------------
(* Up, as far as nodes are full *)

more_up == bc_idx >= 1 /\ breadcrumbs[bc_idx + 1].is_full

\* The separator that the child's split will bring fits.
mark_room ==
  LET pid == breadcrumbs[bc_idx].node
      ckey == partition_key(breadcrumbs[bc_idx + 1])
  IN
  /\ pc = "propagate" /\ more_up
  /\ ~node_is_full(nodes[pid], Len(ckey), 0)
  /\ breadcrumbs' = [breadcrumbs EXCEPT ![bc_idx] =
       [node |-> pid, new_node |-> NULL, f_node |-> pid,
        partition_idx |-> node_partition_idx(nodes[pid]), is_full |-> FALSE]]
  /\ bc_idx' = bc_idx - 1
  /\ UNCHANGED <<root, count, nodes, pc, leaf_node, args>>

\* It does not: the node is to be split.  internal_node_split asserts that both
\* halves have cells, but not that there is a partition cell: without one the
\* size of the new node wraps to 2^32 - 1.
mark_full ==
  LET pid == breadcrumbs[bc_idx].node
      n == nodes[pid]
      ckey == partition_key(breadcrumbs[bc_idx + 1])
      partition_idx == node_partition_idx(n)
  IN
  /\ pc = "propagate" /\ more_up
  /\ node_is_full(n, Len(ckey), 0)
  /\ IF partition_idx + 1 >= Len(n.cells)
     THEN /\ stop(IF partition_idx = Len(n.cells) THEN "wild" ELSE "abort")
          /\ UNCHANGED nodes
     ELSE LET below == key_compare(cell_at(n, partition_idx).key, ckey) < 0 IN
          /\ nodes' = Append(nodes, node_init(FALSE))
          /\ breadcrumbs' = [breadcrumbs EXCEPT ![bc_idx] =
               [node |-> pid, new_node |-> fresh,
                f_node |-> IF below THEN fresh ELSE pid,
                partition_idx |-> partition_idx, is_full |-> TRUE]]
          /\ bc_idx' = bc_idx - 1
          /\ UNCHANGED <<pc, leaf_node, args>>
  /\ UNCHANGED <<root, count>>

\* The topmost node to be written is not full.
top_has_room ==
  /\ pc = "propagate" /\ ~more_up
  /\ ~breadcrumbs[bc_idx + 1].is_full
  /\ pc' = "write"
  /\ bc_idx' = bc_idx + 1
  /\ UNCHANGED <<root, count, nodes, breadcrumbs, leaf_node, args>>

\* Mutant: the leaf that takes the tuple becomes the right child.
new_root_leaf(bc) ==
  node_insert_internal_cell([node_init(FALSE) EXCEPT !.rightmost = leaf_node],
                            0, partition_key(bc), bc.node)

\* Mutant: the new root has no rightmost child.
new_root_left(bc) ==
  node_insert_internal_cell(node_init(FALSE), 0, partition_key(bc), bc.node)

\* A root above the node of bc, which is to be split, and its sibling.
new_root(bc) ==
  node_insert_internal_cell([node_init(FALSE) EXCEPT !.rightmost = bc.new_node],
                            0, partition_key(bc), bc.node)

\* The root is full.
split_root ==
  LET bc == breadcrumbs[1] IN
  /\ pc = "propagate" /\ bc_idx = 0 /\ bc.is_full
  /\ nodes' = Append(nodes, new_root(bc))
  /\ root' = fresh
  /\ pc' = "write"
  /\ bc_idx' = 1
  /\ UNCHANGED <<count, breadcrumbs, leaf_node, args>>

-----------------------------------------------------------------------------
(* Down again *)

\* The pages with the node of bc split, if it is to be.
split_nodes(bc) ==
  LET n == nodes[bc.node]
      halves == IF n.leaf THEN leaf_node_split(n, bc.partition_idx)
                          ELSE internal_node_split(n, bc.partition_idx)
  IN  IF bc.is_full
      THEN [nodes EXCEPT ![bc.node] = halves[1], ![bc.new_node] = halves[2]]
      ELSE nodes


\* Node f with the child at idx exchanged for the child's new sibling.
redirect(f, idx, sibling) ==
  IF idx < Len(f.cells)
  THEN [f EXCEPT !.cells[idx + 1].child = sibling]
  ELSE [f EXCEPT !.rightmost = sibling]

\* Node f with the separator of the child's halves and both of them.
linked(f, idx, ckey, child, sibling) ==
  node_insert_internal_cell(redirect(f, idx, sibling), idx, ckey, child)

write_internal ==
  LET bc == breadcrumbs[bc_idx]
      below == breadcrumbs[bc_idx + 1]
      ckey == partition_key(below)
      split == split_nodes(bc)
      f == split[bc.f_node]
      idx == node_bin_search(f, ckey).idx
  IN
  /\ pc = "write" /\ ~nodes[bc.node].leaf
  /\ IF node_get_free_offset(f, Len(ckey), 0) = 0
     THEN stop("abort") /\ UNCHANGED nodes
     ELSE /\ nodes' = [split EXCEPT ![bc.f_node] =
                         linked(f, idx, ckey, below.node, below.new_node)]
          /\ bc_idx' = bc_idx + 1
          /\ UNCHANGED <<pc, breadcrumbs, leaf_node, args>>
  /\ UNCHANGED <<root, count>>

write_leaf ==
  LET bc == breadcrumbs[bc_idx] IN
  /\ pc = "write" /\ nodes[bc.node].leaf
  /\ nodes' = split_nodes(bc)
  /\ pc' = "insert"
  /\ UNCHANGED <<root, count, breadcrumbs, bc_idx, leaf_node, args>>

\* The tuple goes into the leaf, whether or not its key is there.
insert_tuple ==
  LET n == nodes[leaf_node]
      idx == node_bin_search(n, key).idx
  IN
  /\ pc = "insert"
  /\ IF node_get_free_offset(n, Len(key), value_size) = 0
     THEN stop("abort") /\ UNCHANGED <<nodes, count>>
     ELSE /\ nodes' = [nodes EXCEPT ![leaf_node] =
                         node_insert_leaf_cell(n, idx, key, value_size)]
          /\ count' = count + 1
          /\ return
  /\ UNCHANGED root

Next ==
  \/ \E t \in Tuples : btree_insert(t[1], t[2])
  \/ refuse \/ follow \/ leaf_has_room \/ leaf_is_full
  \/ mark_room \/ mark_full \/ top_has_room \/ split_root
  \/ write_internal \/ write_leaf \/ insert_tuple

Spec == Init /\ [][Next]_vars

-----------------------------------------------------------------------------
(* Properties *)

Leaves == {pid \in DOMAIN nodes : nodes[pid].leaf}

\* The tuples of all leaves, reachable or not, as the abstract store has them.
Cells == UNION {{<<pid, i>> : i \in DOMAIN nodes[pid].cells} : pid \in Leaves}

TupleAt(c) == LET cell == nodes[c[1]].cells[c[2]]
              IN  <<cell.key, cell.value_size>>

Abstract == INSTANCE TupleStore WITH
  store <- [t \in {TupleAt(c) : c \in Cells} |->
              Cardinality({c \in Cells : TupleAt(c) = t})]

\* Splits move tuples from leaf to leaf and neither lose nor double one; a call
\* adds the tuple it was given, once, or none.
ImplementsStore == Abstract!StoreSpec

Children(n) == Range([i \in DOMAIN n.cells |-> n.cells[i].child])
                 \cup ({n.rightmost} \ {NULL})

\* The internal nodes and leaves at each depth below the root.
Level(d) ==
  LET level[e \in Nat] ==
        IF e = 0 THEN {root}
        ELSE UNION {Children(nodes[pid]) : pid \in level[e - 1] \ Leaves}
  IN  level[d]

\* The tuples that tree_info of test_btree.c counts: a leaf once for every path.
tuple ==
  LET below[pid \in DOMAIN nodes] ==
        LET n == nodes[pid]
            under == Append([i \in DOMAIN n.cells |-> n.cells[i].child],
                            n.rightmost)
        IN  IF n.leaf THEN Len(n.cells)
            ELSE Total([i \in DOMAIN under |->
                          IF under[i] = NULL THEN 0 ELSE below[under[i]]])
  IN  below[root]

\* The leaf to which a search for k goes down, and whether k was met on the way.
Descent(k) ==
  LET from[pid \in DOMAIN nodes] ==
        LET n == nodes[pid]
            at == node_bin_search(n, k)
        IN  IF at.found THEN TRUE
            ELSE IF n.leaf THEN FALSE
            ELSE from[child_at(n, at.idx)]
  IN  from[root]

Depths == 0 .. Len(nodes)

Reachable == UNION {Level(d) : d \in Depths}

\* Internal nodes that were split: all but the first of each level are halves.
InternalSplits == Cardinality(DOMAIN nodes \ Leaves)
                    - Cardinality({d \in Depths : Level(d) \ Leaves # {}})

\* Every path from the root down to a leaf has the same length, whatever splits
\* have lost or linked twice.
LevelsUniform ==
  \A d \in Depths : Level(d) \subseteq Leaves \/ Level(d) \cap Leaves = {}

\* No separator came twice.  One that does, from a leaf with several tuples of
\* its key, is found in the node it goes to, and the child there is overwritten.
SeparatorsDiffer ==
  \A p, q \in DOMAIN nodes \ Leaves :
    \A i \in DOMAIN nodes[p].cells, j \in DOMAIN nodes[q].cells :
      nodes[p].cells[i].key = nodes[q].cells[j].key => p = q /\ i = j

Separators ==
  UNION {{<<pid, i>> : i \in DOMAIN nodes[pid].cells} :
           pid \in DOMAIN nodes \ Leaves}

\* How often a separator has come again: none is ever dropped, the one of an
\* internal partition cell moves up.
Repeats == Cardinality(Separators)
             - Cardinality({nodes[c[1]].cells[c[2]].key : c \in Separators})

\* Pages that no page refers to any more.
Orphans == DOMAIN nodes \ ({root} \cup
                              UNION {Children(nodes[pid]) : pid \in DOMAIN nodes})


\* The root is a leaf, or has only leaves below it.
TwoLevels == Level(1) \subseteq Leaves

\* A tree of at most two levels is a search tree unless a separator came twice:
\* it has every tuple once, and every key that was accepted is found from the
\* root, also keys equal to a separator and keys inserted twice.
TwoLevelsSound ==
  pc = "idle" /\ TwoLevels /\ SeparatorsDiffer =>
    /\ tuple = count
    /\ \A c \in Cells : Descent(TupleAt(c)[1])

\* The call has failed at the separator of a node that was found to have room
\* for it, or was split to make it: f_node had been chosen.
LinkFailed ==
  bc_idx \in 1 .. Len(breadcrumbs) - 1 /\ breadcrumbs[bc_idx].f_node # NULL

\* On a tree of at most two levels no assertion fails on the way down (there is
\* a child to follow for every key) and none while the separators are written
\* (a node that is not full has room where node_get_free_offset looks),
\* whatever separators came twice.  What is left is a full leaf or root without
\* a place to split it at, and a leaf without room for the tuple.
PathNeverFails ==
  pc = "abort" /\ TwoLevels => here.leaf /\ ~LinkFailed

\* All tuples, stored or to be inserted, have keys and values of one size.
OneSize ==
  \A c \in Cells : Len(TupleAt(c)[1]) = Len(key) /\ TupleAt(c)[2] = value_size

\* Cells of this size need no padding, and in a page that is full of them the
\* partition cell is found before the last ones.
Even(size, last) ==
  LET full == (NODE_SIZE - sizeof_node) \div (size + sizeof_ptr)
  IN  /\ size % sizeof_ptr = 0
      /\ (full - last) * size >= NODE_SIZE \div 2 - sizeof_node

\* With tuples of one size, which several of fit in a page, no assertion fails
\* in a tree of at most two levels: a full leaf or root has a partition cell,
\* and of the tombstones a split leaves behind each has room for a tuple, the
\* first one included.  (With padding, or with sizes that differ, calls do
\* abort.)
EqualTuplesNeverAbort ==
  /\ pc \in {"abort", "wild"} /\ TwoLevels /\ OneSize
  /\ Even(sizeof_cell + Len(key) + value_size, 1)
  => ~Even(sizeof_cell + Len(key), 2)

\* A call is refused, as the key "already exists", only if a tuple with the key
\* is stored: every separator, those that splits dropped included, was copied
\* from a tuple that is still in some leaf.
RefusalsTrue ==
  \A pid \in DOMAIN nodes \ Leaves : \A i \in DOMAIN nodes[pid].cells :
    \E c \in Cells : TupleAt(c)[1] = nodes[pid].cells[i].key

\* tree_info counts what was inserted.
TuplesReachable == pc = "idle" => tuple = count
=============================================================================
