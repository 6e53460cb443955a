----------------------------- MODULE NodeProofs -----------------------------
(***************************************************************************)
(* Proofs about module Node, for pages of any size, any keys and any       *)
(* values, and any sequence of insertions and deletions.                   *)
(***************************************************************************)
EXTENDS Node, PageProofs

-----------------------------------------------------------------------------
(* The inductive invariant *)

\* The keys and values are of the types that the code has.
LEMMA Inputs ==
  /\ \A key \in Keys : key \in Key
  /\ \A v \in ValueSizes : v \in Nat
  BY NodeAssumption DEF NodeAssumption, Key

\* Every cell is of a key and a value that were inserted.
FromInputs ==
  \A i \in 1 .. Len(node.cells) : /\ node.cells[i].key \in Keys
                                  /\ node.cells[i].value_size \in ValueSizes

\* On an intact page cell_offset is between the pointers and the end: the
\* unsigned difference that is tested does not wrap.
GapInv ==
  Intact(node) => /\ hdr_offset_limit(node) <= node.cell_offset
                  /\ node.cell_offset <= NODE_SIZE

IndInv == node \in PageType /\ Sorted(node.cells) /\ FromInputs /\ GapInv

-----------------------------------------------------------------------------
(* The effect of the calls *)

\* What inserting a key does: the search was right, and the cell is in place.
LEMMA InsertEffect ==
  ASSUME node \in PageType, Sorted(node.cells),
         NEW key \in Keys, NEW v \in ValueSizes, insert(key, v)
  PROVE  \E p \in 1 .. Len(node.cells) + 1, c \in CellType :
           /\ c = Cell(node_get_free_offset(node, Len(key), v), key, v, NULL)
           /\ node'.cells = InsertAt(node.cells, p, c)
           /\ node'.cell_offset = c.off
           /\ node'.tombs = take_free_offset(node, Len(key), v).tombs
           /\ node'.tombstone_bytes
                = take_free_offset(node, Len(key), v).tombstone_bytes
           /\ node' \in PageType
           /\ \A i \in 1 .. p - 1 : Before(node.cells[i].key, key)
           /\ \A i \in p .. Len(node.cells) : Before(key, node.cells[i].key)
  <1> DEFINE at == node_bin_search(node, key)
             p == at.idx + 1
             off == node_get_free_offset(node, Len(key), v)
             m == take_free_offset(node, Len(key), v)
             c == Cell(off, key, v, NULL)
  <1>1. key \in Key /\ Len(key) \in Nat /\ v \in Nat
    BY Inputs DEF Key
  <1>2. Placed(node.cells, key, at)
    BY <1>1, SearchPlaces, SortedOrdered, PageFields
  <1>3. ~at.found /\ node' = node_insert_cell(m, at.idx, c)
    BY DEF insert, node_insert_leaf_cell
  <1> HIDE DEF at
  <1>4. /\ p \in 1 .. Len(node.cells) + 1
        /\ \A i \in 1 .. p - 1 : Before(node.cells[i].key, key)
        /\ \A i \in p .. Len(node.cells) : Before(key, node.cells[i].key)
    <2>1. at.idx \in 0 .. Len(node.cells) /\ p - 1 = at.idx
      BY <1>2, PageFields DEF Placed
    <2> QED
      BY <1>2, <1>3, <2>1, PageFields DEF Placed
  <1>5. m \in PageType /\ m.cells = node.cells /\ off \in Int
    BY <1>1, TakenEffect
  <1> HIDE DEF off
  <1>6. c \in CellType /\ c.off = off
    BY <1>1, <1>5 DEF Cell, CellType, NULL
  <1> HIDE DEF c, m, p
  <1>7. node' = [m EXCEPT !.cells = InsertAt(m.cells, p, c), !.cell_offset = c.off]
    BY <1>3 DEF node_insert_cell, p
  <1>8. InsertAt(node.cells, p, c) \in Seq(CellType)
    BY <1>4, <1>6, Inserted, PageFields
  <1>9. /\ node' \in PageType
        /\ node'.cells = InsertAt(node.cells, p, c)
        /\ node'.cell_offset = c.off
        /\ node'.tombs = m.tombs
        /\ node'.tombstone_bytes = m.tombstone_bytes
    BY <1>5, <1>6, <1>7, <1>8 DEF PageType
  <1>10. c = Cell(off, key, v, NULL)
    BY DEF c
  <1> QED
    BY <1>4, <1>6, <1>9, <1>10 DEF off, m

\* What deleting a key does: its cell becomes the first tombstone.
LEMMA DeleteEffect ==
  ASSUME node \in PageType, Sorted(node.cells),
         NEW key \in Keys, node_delete_key(key)
  PROVE  \E p \in 1 .. Len(node.cells), t \in TombType :
           /\ node.cells[p].key = key
           /\ node.cells[p] \in CellType
           /\ node'.cells = RemoveAt(node.cells, p)
           /\ t.off = node.cells[p].off
           /\ t.size = used_size(node.cells[p])
           /\ node'.tombs = <<t>> \o node.tombs
           /\ node'.cell_offset = node.cell_offset
           /\ node'.tombstone_bytes = (node.tombstone_bytes + t.size) % U32
           /\ node' \in PageType
  <1> DEFINE at == node_bin_search(node, key)
             p == at.idx + 1
             c == node.cells[p]
             t == [off |-> c.off, size |-> used_size(c)]
             tb == (node.tombstone_bytes + used_size(c)) % U32
  <1>1. key \in Key
    BY Inputs
  <1>2. Placed(node.cells, key, at)
    BY <1>1, SearchPlaces, SortedOrdered, PageFields
  <1>3. at.found /\ node' = node_delete_idx(node, at.idx)
    BY DEF node_delete_key
  <1> HIDE DEF at
  <1>4. p \in 1 .. Len(node.cells) /\ c.key = key
    BY <1>2, <1>3, PageFields DEF Placed
  <1>5. c \in CellType
    BY <1>4, PageFields
  <1>6. used_size(c) \in Nat
    BY <1>5, Constants DEF used_size, CellType, Key
  <1>7. t \in TombType
    BY <1>5, <1>6 DEF TombType, CellType
  <1>8. tb \in 0 .. U32 - 1
    <2>1. node.tombstone_bytes + used_size(c) \in Int
      BY <1>6, PageFields, Constants
    <2> QED
      BY <2>1, ModRange, Constants
  <1>9. RemoveAt(node.cells, p) \in Seq(CellType) /\ <<t>> \o node.tombs \in Seq(TombType)
    BY <1>4, <1>7, Removed, PageFields
  <1>10. node' = [node EXCEPT !.tombs = <<t>> \o node.tombs,
                              !.tombstone_bytes = tb,
                              !.cells = RemoveAt(node.cells, p)]
    BY <1>3 DEF node_delete_idx, node_tuple_set_tombstone, tombstone, PageType
  <1>11. t.off = c.off /\ t.size = used_size(c)
    OBVIOUS
  <1> HIDE DEF t, p
  <1>12. tb = (node.tombstone_bytes + t.size) % U32
    BY <1>11
  <1> HIDE DEF tb
  <1>13. /\ node' \in PageType
         /\ node'.cells = RemoveAt(node.cells, p)
         /\ node'.cell_offset = node.cell_offset
         /\ node'.tombs = <<t>> \o node.tombs
         /\ node'.tombstone_bytes = tb
    BY <1>8, <1>9, <1>10 DEF PageType
  <1> QED
    BY <1>4, <1>5, <1>7, <1>11, <1>12, <1>13

-----------------------------------------------------------------------------
(* Order *)

\* An insertion keeps the order and adds its key.
LEMMA InsertSorted ==
  ASSUME NEW s \in Seq(CellType), Sorted(s), NEW c \in CellType,
         NEW p \in 1 .. Len(s) + 1,
         \A i \in 1 .. p - 1 : Before(s[i].key, c.key),
         \A i \in p .. Len(s) : Before(c.key, s[i].key)
  PROVE  Sorted(InsertAt(s, p, c))
  <1> DEFINE t == InsertAt(s, p, c)
             n == Len(s)
  <1>1. n \in Nat /\ p \in 1 .. n + 1
    OBVIOUS
  <1>2. /\ Len(t) = n + 1
        /\ t[p] = c
        /\ \A i \in 1 .. p - 1 : t[i] = s[i]
        /\ \A i \in p + 1 .. n + 1 : t[i] = s[i - 1]
    BY Inserted
  <1> HIDE DEF t
  <1>3. SUFFICES ASSUME NEW i \in 1 .. n + 1, NEW j \in 1 .. n + 1, i < j
                 PROVE  Before(t[i].key, t[j].key)
    BY <1>2 DEF Sorted, t
  <1>4. \A k, l \in 1 .. n : k < l => Before(s[k].key, s[l].key)
    BY DEF Sorted
  <1> HIDE DEF n
  <1>5. CASE j < p
    <2>1. t[i] = s[i] /\ t[j] = s[j] /\ i \in 1 .. n /\ j \in 1 .. n
      BY <1>1, <1>2, <1>3, <1>5
    <2> QED
      BY <1>3, <1>4, <2>1
  <1>6. CASE j = p
    <2>1. t[i] = s[i] /\ i \in 1 .. p - 1
      BY <1>1, <1>2, <1>3, <1>6
    <2> QED
      BY <1>2, <1>6, <2>1
  <1>7. CASE j > p /\ i < p
    <2>1. t[i] = s[i] /\ i \in 1 .. n /\ t[j] = s[j - 1] /\ j - 1 \in 1 .. n /\ i < j - 1
      BY <1>1, <1>2, <1>3, <1>7
    <2> QED
      BY <1>4, <2>1
  <1>8. CASE j > p /\ i = p
    <2>1. t[j] = s[j - 1] /\ j - 1 \in p .. n
      BY <1>1, <1>2, <1>3, <1>8
    <2> QED
      BY <1>2, <1>8, <2>1 DEF n
  <1>9. CASE j > p /\ i > p
    <2>1. /\ t[i] = s[i - 1] /\ i - 1 \in 1 .. n /\ t[j] = s[j - 1]
          /\ j - 1 \in 1 .. n /\ i - 1 < j - 1
      BY <1>1, <1>2, <1>3, <1>9
    <2> QED
      BY <1>4, <2>1
  <1> QED
    BY <1>1, <1>5, <1>6, <1>7, <1>8, <1>9

\* A deletion keeps the order.
LEMMA RemoveSorted ==
  ASSUME NEW s \in Seq(CellType), Sorted(s), NEW p \in 1 .. Len(s)
  PROVE  Sorted(RemoveAt(s, p))
  <1> DEFINE t == RemoveAt(s, p)
             n == Len(s)
  <1>1. n \in Nat /\ p \in 1 .. n
    OBVIOUS
  <1>2. /\ Len(t) = n - 1
        /\ \A i \in 1 .. p - 1 : t[i] = s[i]
        /\ \A i \in p .. n - 1 : t[i] = s[i + 1]
    BY Removed
  <1> HIDE DEF t
  <1>3. SUFFICES ASSUME NEW i \in 1 .. n - 1, NEW j \in 1 .. n - 1, i < j
                 PROVE  Before(t[i].key, t[j].key)
    BY <1>2 DEF Sorted, t
  <1>4. \A k, l \in 1 .. n : k < l => Before(s[k].key, s[l].key)
    BY DEF Sorted
  <1> HIDE DEF n
  <1>5. CASE j < p
    <2>1. t[i] = s[i] /\ t[j] = s[j] /\ i \in 1 .. n /\ j \in 1 .. n
      BY <1>1, <1>2, <1>3, <1>5
    <2> QED
      BY <1>3, <1>4, <2>1
  <1>6. CASE j >= p /\ i < p
    <2>1. t[i] = s[i] /\ i \in 1 .. n /\ t[j] = s[j + 1] /\ j + 1 \in 1 .. n /\ i < j + 1
      BY <1>1, <1>2, <1>3, <1>6
    <2> QED
      BY <1>4, <2>1
  <1>7. CASE j >= p /\ i >= p
    <2>1. /\ t[i] = s[i + 1] /\ i + 1 \in 1 .. n /\ t[j] = s[j + 1]
          /\ j + 1 \in 1 .. n /\ i + 1 < j + 1
      BY <1>1, <1>2, <1>3, <1>7
    <2> QED
      BY <1>4, <2>1
  <1> QED
    BY <1>1, <1>5, <1>6, <1>7

-----------------------------------------------------------------------------
(* Layout *)

\* Two regions that are apart are so in either order, and so are parts of them.
LEMMA ApartSymmetric ==
  ASSUME NEW a \in Int, NEW b \in Int, NEW c \in Int, NEW d \in Int
  PROVE  Apart(a, b, c, d) <=> Apart(c, d, a, b)
  BY DEF Apart

\* A part of a range is apart from what the range is apart from.
LEMMA ApartWithin ==
  ASSUME NEW a \in Int, NEW b \in Int, NEW c \in Int, NEW d \in Int,
         NEW x \in Int, NEW y \in Int, Apart(a, b, c, d), a <= x, x + y <= a + b
  PROVE  Apart(x, y, c, d)
  BY DEF Apart

\* The end of the pointers is a number.
LEMMA HdrType ==
  ASSUME NEW n \in PageType
  PROVE  hdr_offset_limit(n) \in Nat
  <1>1. sizeof_ptr * Len(n.cells) \in Nat
    BY PageFields, Constants
  <1> QED
    BY <1>1, Constants DEF hdr_offset_limit

\* What an intact page is, place by place.
LEMMA IntactFacts ==
  ASSUME NEW n \in PageType
  PROVE  Intact(n) <=>
         /\ \A i, j \in 1 .. Len(n.cells) : i # j =>
              Apart(n.cells[i].off, used_size(n.cells[i]),
                    n.cells[j].off, used_size(n.cells[j]))
         /\ \A i \in 1 .. Len(n.cells) :
              /\ hdr_offset_limit(n) <= n.cells[i].off
              /\ n.cells[i].off + used_size(n.cells[i]) <= NODE_SIZE
         /\ \A i \in 1 .. Len(n.tombs) :
              /\ hdr_offset_limit(n) <= n.tombs[i].off
              /\ n.tombs[i].off + n.tombs[i].size <= NODE_SIZE
         /\ \A i, j \in 1 .. Len(n.tombs) : i # j =>
              Apart(n.tombs[i].off, n.tombs[i].size,
                    n.tombs[j].off, n.tombs[j].size)
         /\ \A i \in 1 .. Len(n.tombs), j \in 1 .. Len(n.cells) :
              Apart(n.tombs[i].off, n.tombs[i].size,
                    n.cells[j].off, used_size(n.cells[j]))
  <1>1. DOMAIN n.cells = 1 .. Len(n.cells) /\ DOMAIN n.tombs = 1 .. Len(n.tombs)
    BY PageFields
  <1> QED
    BY <1>1, Zenon DEF Intact, CellsApart, CellsInside, TombsIntact

\* A deletion leaves an intact page intact.
LEMMA DeleteIntact ==
  ASSUME node \in PageType, Sorted(node.cells), Intact(node),
         NEW key \in Keys, node_delete_key(key)
  PROVE  Intact(node)'
  <1> DEFINE s == node.cells
             n == Len(s)
             u == node'.cells
             m == Len(node.tombs)
             h == hdr_offset_limit(node)
             hp == hdr_offset_limit(node')
  <1>1. PICK p \in 1 .. n, t \in TombType :
           /\ s[p] \in CellType
           /\ u = RemoveAt(s, p)
           /\ t.off = s[p].off
           /\ t.size = used_size(s[p])
           /\ node'.tombs = <<t>> \o node.tombs
           /\ node' \in PageType
    BY DeleteEffect
  <1>2. /\ n \in Nat /\ s \in Seq(CellType) /\ \A i \in 1 .. n : s[i] \in CellType
        /\ m \in Nat /\ node.tombs \in Seq(TombType)
        /\ \A i \in 1 .. m : node.tombs[i] \in TombType
    BY PageFields
  <1> DEFINE o == [i \in 1 .. n - 1 |-> IF i < p THEN i ELSE i + 1]
  <1>3. /\ Len(u) = n - 1
        /\ \A i \in 1 .. p - 1 : u[i] = s[i]
        /\ \A i \in p .. n - 1 : u[i] = s[i + 1]
    BY <1>1, <1>2, Removed, ZenonT(30)
  <1> HIDE DEF n, s, u
  <1>4. ASSUME NEW i \in 1 .. n - 1
        PROVE  o[i] \in 1 .. n /\ o[i] # p /\ u[i] = s[o[i]]
    <2>1. CASE i < p
      <3>1. o[i] = i /\ i \in 1 .. p - 1
        BY <2>1
      <3> QED
        BY <1>2, <1>3, <2>1, <3>1
    <2>2. CASE i >= p
      <3>1. o[i] = i + 1 /\ i \in p .. n - 1
        BY <1>2, <2>2
      <3> QED
        BY <1>2, <1>3, <2>2, <3>1
    <2> QED
      BY <2>1, <2>2
  <1>5. \A i, j \in 1 .. n - 1 : i # j => o[i] # o[j]
    BY <1>2
  <1> USE DEF n, s, u
  <1>6. /\ Len(node'.tombs) = m + 1
        /\ node'.tombs[1] = t
        /\ \A i \in 2 .. m + 1 : node'.tombs[i] = node.tombs[i - 1]
    BY <1>1, <1>2
  <1>7. h \in Int /\ hp \in Int /\ hp <= h
    <2>1. sizeof_ptr * Len(u) <= sizeof_ptr * n
      BY <1>2, <1>3, Constants
    <2>2. sizeof_ptr * Len(u) \in Int /\ sizeof_ptr * n \in Int
      BY <1>2, <1>3, Constants
    <2> QED
      BY <2>1, <2>2, Constants DEF hdr_offset_limit
  <1> DEFINE ts == node.tombs
             tp == node'.tombs
  <1>8. /\ \A i, j \in 1 .. n : i # j =>
              Apart(s[i].off, used_size(s[i]), s[j].off, used_size(s[j]))
        /\ \A i \in 1 .. n : h <= s[i].off /\ s[i].off + used_size(s[i]) <= NODE_SIZE
        /\ \A i \in 1 .. m : h <= ts[i].off /\ ts[i].off + ts[i].size <= NODE_SIZE
        /\ \A i, j \in 1 .. m : i # j =>
              Apart(ts[i].off, ts[i].size, ts[j].off, ts[j].size)
        /\ \A i \in 1 .. m, j \in 1 .. n :
              Apart(ts[i].off, ts[i].size, s[j].off, used_size(s[j]))
    BY IntactFacts
  <1> HIDE DEF s, n, u, m, h, hp, o, ts, tp
  <1>9. ASSUME NEW i \in 1 .. n - 1, NEW j \in 1 .. n - 1, i # j
        PROVE  Apart(u[i].off, used_size(u[i]), u[j].off, used_size(u[j]))
    BY <1>4, <1>5, <1>8, <1>9
  <1>10. ASSUME NEW i \in 1 .. n - 1
         PROVE  hp <= u[i].off /\ u[i].off + used_size(u[i]) <= NODE_SIZE
    <2>1. h <= s[o[i]].off /\ s[o[i]].off + used_size(s[o[i]]) <= NODE_SIZE
          /\ s[o[i]] \in CellType /\ u[i] = s[o[i]]
      BY <1>2, <1>4, <1>8
    <2> QED
      BY <1>7, <2>1, CellNumbers
  <1>11. \A i \in 2 .. m + 1 : i - 1 \in 1 .. m /\ tp[i] = ts[i - 1]
    BY <1>2, <1>6 DEF tp, ts
  <1>12. tp[1] = t /\ Len(tp) = m + 1
    BY <1>6 DEF tp
  <1>13. ASSUME NEW i \in 1 .. m + 1
         PROVE  hp <= tp[i].off /\ tp[i].off + tp[i].size <= NODE_SIZE
    <2>1. CASE i = 1
      <3>1. h <= s[p].off /\ s[p].off + used_size(s[p]) <= NODE_SIZE
        BY <1>8
      <3> QED
        BY <1>1, <1>7, <1>12, <2>1, <3>1, CellNumbers
    <2>2. CASE i # 1
      <3>1. i \in 2 .. m + 1
        BY <1>2, <2>2
      <3>2. /\ h <= ts[i - 1].off /\ ts[i - 1].off + ts[i - 1].size <= NODE_SIZE
            /\ ts[i - 1] \in TombType /\ tp[i] = ts[i - 1]
        BY <1>2, <1>8, <1>11, <3>1 DEF ts
      <3> QED
        BY <1>7, <3>2, TombNumbers
    <2> QED
      BY <2>1, <2>2
  <1>14. ASSUME NEW i \in 1 .. m
         PROVE  /\ Apart(ts[i].off, ts[i].size, t.off, t.size)
                /\ Apart(t.off, t.size, ts[i].off, ts[i].size)
    <2>1. Apart(ts[i].off, ts[i].size, s[p].off, used_size(s[p]))
      BY <1>8
    <2>2. ts[i] \in TombType
      BY <1>2 DEF ts
    <2> QED
      BY <1>1, <2>1, <2>2, TombNumbers, ApartSymmetric
  <1>15. ASSUME NEW i \in 1 .. m + 1, NEW j \in 1 .. m + 1, i # j
         PROVE  Apart(tp[i].off, tp[i].size, tp[j].off, tp[j].size)
    <2>1. CASE i = 1
      <3>1. j \in 2 .. m + 1
        BY <1>2, <1>15, <2>1
      <3> QED
        BY <1>11, <1>12, <1>14, <2>1, <3>1
    <2>2. CASE j = 1
      <3>1. i \in 2 .. m + 1
        BY <1>2, <1>15, <2>2
      <3> QED
        BY <1>11, <1>12, <1>14, <2>2, <3>1
    <2>3. CASE i # 1 /\ j # 1
      <3>1. i \in 2 .. m + 1 /\ j \in 2 .. m + 1 /\ i - 1 # j - 1
        BY <1>2, <1>15, <2>3
      <3> QED
        BY <1>8, <1>11, <3>1
    <2> QED
      BY <2>1, <2>2, <2>3
  <1>16. ASSUME NEW i \in 1 .. m + 1, NEW j \in 1 .. n - 1
         PROVE  Apart(tp[i].off, tp[i].size, u[j].off, used_size(u[j]))
    <2>1. o[j] \in 1 .. n /\ o[j] # p /\ u[j] = s[o[j]]
      BY <1>4
    <2>2. CASE i = 1
      <3>1. Apart(s[p].off, used_size(s[p]), s[o[j]].off, used_size(s[o[j]]))
        BY <1>8, <2>1
      <3> QED
        BY <1>1, <1>12, <2>1, <2>2, <3>1
    <2>3. CASE i # 1
      <3>1. i \in 2 .. m + 1
        BY <1>2, <2>3
      <3>2. Apart(ts[i - 1].off, ts[i - 1].size, s[o[j]].off, used_size(s[o[j]]))
        BY <1>8, <1>11, <2>1, <3>1
      <3> QED
        BY <1>11, <2>1, <3>1, <3>2
    <2> QED
      BY <2>2, <2>3
  <1>17. node' \in PageType
    BY <1>1
  <1>18. Len(node'.cells) = n - 1 /\ Len(node'.tombs) = m + 1
    BY <1>3, <1>6 DEF u
  <1>19. Intact(node')
    BY <1>9, <1>10, <1>13, <1>15, <1>16, <1>17, <1>18, IntactFacts DEF u, tp, hp
  <1> QED
    BY <1>19

\* A page with one cell more is intact if the cell is apart from all that the
\* page had, and every tombstone lies within one that the page had.
LEMMA OneMoreIntact ==
  ASSUME NEW n \in PageType, NEW q \in PageType, Intact(n),
         NEW p \in 1 .. Len(n.cells) + 1, NEW c \in CellType,
         q.cells = InsertAt(n.cells, p, c),
         hdr_offset_limit(q) <= c.off, c.off + used_size(c) <= NODE_SIZE,
         \A i \in 1 .. Len(n.cells) :
           /\ hdr_offset_limit(q) <= n.cells[i].off
           /\ Apart(c.off, used_size(c), n.cells[i].off, used_size(n.cells[i])),
         NEW k \in [1 .. Len(q.tombs) -> 1 .. Len(n.tombs)],
         \A i, j \in 1 .. Len(q.tombs) : i # j => k[i] # k[j],
         \A i \in 1 .. Len(q.tombs) :
           /\ hdr_offset_limit(q) <= q.tombs[i].off
           /\ n.tombs[k[i]].off <= q.tombs[i].off
           /\ q.tombs[i].off + q.tombs[i].size
                <= n.tombs[k[i]].off + n.tombs[k[i]].size
           /\ Apart(q.tombs[i].off, q.tombs[i].size, c.off, used_size(c))
  PROVE  Intact(q)
  <1> DEFINE s == n.cells
             a == Len(s)
             u == q.cells
             ts == n.tombs
             m == Len(ts)
             tp == q.tombs
             mp == Len(tp)
             hp == hdr_offset_limit(q)
  <1>1. /\ a \in Nat /\ s \in Seq(CellType) /\ \A i \in 1 .. a : s[i] \in CellType
        /\ m \in Nat /\ \A i \in 1 .. m : ts[i] \in TombType
        /\ mp \in Nat /\ \A i \in 1 .. mp : tp[i] \in TombType
    BY PageFields
  <1>2. /\ Len(u) = a + 1
        /\ u[p] = c
        /\ \A i \in 1 .. p - 1 : u[i] = s[i]
        /\ \A i \in p + 1 .. a + 1 : u[i] = s[i - 1]
    <2>1. s \in Seq(CellType) /\ u = InsertAt(s, p, c) /\ p \in 1 .. Len(s) + 1
      BY <1>1
    <2> HIDE DEF s, u
    <2> QED
      BY <2>1, Inserted
  <1>3. /\ \A i, j \in 1 .. a : i # j =>
              Apart(s[i].off, used_size(s[i]), s[j].off, used_size(s[j]))
        /\ \A i \in 1 .. a : s[i].off + used_size(s[i]) <= NODE_SIZE
        /\ \A i \in 1 .. m : ts[i].off + ts[i].size <= NODE_SIZE
        /\ \A i, j \in 1 .. m : i # j =>
              Apart(ts[i].off, ts[i].size, ts[j].off, ts[j].size)
        /\ \A i \in 1 .. m, j \in 1 .. a :
              Apart(ts[i].off, ts[i].size, s[j].off, used_size(s[j]))
    BY IntactFacts
  <1>4. /\ p \in 1 .. a + 1
        /\ hp <= c.off /\ c.off + used_size(c) <= NODE_SIZE
        /\ \A i \in 1 .. a :
             hp <= s[i].off /\ Apart(c.off, used_size(c), s[i].off, used_size(s[i]))
        /\ \A i \in 1 .. mp : k[i] \in 1 .. m
        /\ \A i, j \in 1 .. mp : i # j => k[i] # k[j]
        /\ \A i \in 1 .. mp :
             /\ hp <= tp[i].off
             /\ ts[k[i]].off <= tp[i].off
             /\ tp[i].off + tp[i].size <= ts[k[i]].off + ts[k[i]].size
             /\ Apart(tp[i].off, tp[i].size, c.off, used_size(c))
    OBVIOUS
  <1>5. NODE_SIZE \in Nat
    BY Constants
  <1> DEFINE o == [i \in 1 .. a + 1 |-> IF i < p THEN i ELSE i - 1]
  <1> HIDE DEF s, a, u, ts, m, tp, mp, hp
  <1>6. ASSUME NEW i \in 1 .. a + 1, i # p
        PROVE  o[i] \in 1 .. a /\ u[i] = s[o[i]]
    <2>1. CASE i < p
      <3>1. o[i] = i /\ i \in 1 .. p - 1
        BY <2>1
      <3> QED
        BY <1>1, <1>2, <1>4, <2>1, <3>1
    <2>2. CASE i >= p
      <3>1. o[i] = i - 1 /\ i \in p + 1 .. a + 1
        BY <1>1, <1>4, <1>6, <2>2
      <3> QED
        BY <1>1, <1>2, <1>4, <2>2, <3>1
    <2> QED
      BY <1>4, <2>1, <2>2
  <1>7. \A i, j \in 1 .. a + 1 : i # j /\ i # p /\ j # p => o[i] # o[j]
    BY <1>1, <1>4
  <1> HIDE DEF o
  <1>8. ASSUME NEW i \in 1 .. a + 1, NEW j \in 1 .. a + 1, i # j
        PROVE  Apart(u[i].off, used_size(u[i]), u[j].off, used_size(u[j]))
    <2>1. CASE i = p
      BY <1>2, <1>4, <1>6, <1>8, <2>1
    <2>2. CASE j = p
      <3>1. o[i] \in 1 .. a /\ u[i] = s[o[i]] /\ s[o[i]] \in CellType
        BY <1>1, <1>6, <1>8, <2>2
      <3>2. Apart(c.off, used_size(c), s[o[i]].off, used_size(s[o[i]]))
        BY <1>4, <3>1
      <3>3. Apart(s[o[i]].off, used_size(s[o[i]]), c.off, used_size(c))
        BY <3>1, <3>2, ApartSymmetric, CellNumbers
      <3> QED
        BY <1>2, <2>2, <3>1, <3>3
    <2>3. CASE i # p /\ j # p
      BY <1>3, <1>6, <1>7, <1>8, <2>3
    <2> QED
      BY <2>1, <2>2, <2>3
  <1>9. ASSUME NEW i \in 1 .. a + 1
        PROVE  hp <= u[i].off /\ u[i].off + used_size(u[i]) <= NODE_SIZE
    BY <1>2, <1>3, <1>4, <1>6
  <1>10. ASSUME NEW i \in 1 .. mp
         PROVE  /\ tp[i].off \in Int /\ tp[i].size \in Int
                /\ ts[k[i]].off \in Int /\ ts[k[i]].size \in Int
    BY <1>1, <1>4, TombNumbers
  <1>11. ASSUME NEW i \in 1 .. mp
         PROVE  hp <= tp[i].off /\ tp[i].off + tp[i].size <= NODE_SIZE
    <2>1. ts[k[i]].off + ts[k[i]].size <= NODE_SIZE
      BY <1>3, <1>4
    <2> QED
      BY <1>4, <1>5, <1>10, <2>1, SMTT(30)
  <1>12. ASSUME NEW i \in 1 .. mp, NEW j \in 1 .. mp, i # j
         PROVE  Apart(tp[i].off, tp[i].size, tp[j].off, tp[j].size)
    <2>1. Apart(ts[k[i]].off, ts[k[i]].size, ts[k[j]].off, ts[k[j]].size)
      BY <1>3, <1>4, <1>12
    <2>2. Apart(tp[i].off, tp[i].size, ts[k[j]].off, ts[k[j]].size)
      BY <1>4, <1>10, <2>1, ApartWithin
    <2>3. Apart(ts[k[j]].off, ts[k[j]].size, tp[i].off, tp[i].size)
      BY <1>10, <2>2, ApartSymmetric
    <2>4. Apart(tp[j].off, tp[j].size, tp[i].off, tp[i].size)
      <3>1. /\ ts[k[j]].off <= tp[j].off
            /\ tp[j].off + tp[j].size <= ts[k[j]].off + ts[k[j]].size
        BY <1>4
      <3>2. /\ tp[i].off \in Int /\ tp[i].size \in Int
            /\ tp[j].off \in Int /\ tp[j].size \in Int
            /\ ts[k[j]].off \in Int /\ ts[k[j]].size \in Int
        BY <1>10
      <3> QED
        BY <2>3, <3>1, <3>2, ApartWithin, SMTT(30)
    <2> QED
      BY <1>10, <2>4, ApartSymmetric
  <1>13. ASSUME NEW i \in 1 .. mp, NEW j \in 1 .. a + 1
         PROVE  Apart(tp[i].off, tp[i].size, u[j].off, used_size(u[j]))
    <2>1. CASE j = p
      BY <1>2, <1>4, <2>1
    <2>2. CASE j # p
      <3>1. o[j] \in 1 .. a /\ u[j] = s[o[j]] /\ s[o[j]] \in CellType
        BY <1>1, <1>6, <2>2
      <3>2. Apart(ts[k[i]].off, ts[k[i]].size, u[j].off, used_size(u[j]))
        BY <1>3, <1>4, <3>1
      <3>3. u[j].off \in Int /\ used_size(u[j]) \in Int
        BY <3>1, CellNumbers
      <3> QED
        BY <1>4, <1>10, <3>2, <3>3, ApartWithin, SMTT(30)
    <2> QED
      BY <2>1, <2>2
  <1> QED
    BY <1>2, <1>8, <1>9, <1>11, <1>12, <1>13, IntactFacts DEF u, tp, hp, mp

\* An insertion that fits leaves an intact page intact: the gap is free where
\* cell_offset was not raised, and a tombstone has room for the cell and for
\* what is left of it.
LEMMA InsertIntact ==
  ASSUME IndInv, Intact(node), ~Raised(node),
         NEW key \in Keys, NEW v \in ValueSizes, insert(key, v),
         ~PointerForgotten(node, new_cell_size(Len(key), v)),
         ~OffsetMissing(node, new_cell_size(Len(key), v))
  PROVE  Intact(node)'
  <1> DEFINE size == new_cell_size(Len(key), v)
             s == node.cells
             n == Len(s)
             ts == node.tombs
             m == Len(ts)
             tp == node'.tombs
             h == hdr_offset_limit(node)
             hp == hdr_offset_limit(node')
             co == node.cell_offset
             mt == take_free_offset(node, Len(key), v)
             off == node_get_free_offset(node, Len(key), v)
  <1>1. node \in PageType /\ Sorted(node.cells) /\ h <= co /\ co <= NODE_SIZE
    BY DEF IndInv, GapInv
  <1>2. PICK p \in 1 .. n + 1, c \in CellType :
           /\ c = Cell(off, key, v, NULL)
           /\ node'.cells = InsertAt(s, p, c)
           /\ tp = mt.tombs
           /\ node' \in PageType
    BY <1>1, InsertEffect
  <1>3. /\ n \in Nat /\ s \in Seq(CellType) /\ \A i \in 1 .. n : s[i] \in CellType
        /\ m \in Nat /\ ts \in Seq(TombType) /\ \A i \in 1 .. m : ts[i] \in TombType
        /\ co \in Int
    BY <1>1, PageFields
  <1>4. /\ \A i \in 1 .. n : h <= s[i].off /\ s[i].off + used_size(s[i]) <= NODE_SIZE
        /\ \A i \in 1 .. m : h <= ts[i].off /\ ts[i].off + ts[i].size <= NODE_SIZE
        /\ \A i, j \in 1 .. m : i # j =>
              Apart(ts[i].off, ts[i].size, ts[j].off, ts[j].size)
        /\ \A i \in 1 .. m, j \in 1 .. n :
              Apart(ts[i].off, ts[i].size, s[j].off, used_size(s[j]))
    BY <1>1, IntactFacts
  <1>5. /\ \A i \in 1 .. n : ~(s[i].off < co)
        /\ \A i \in 1 .. m : ~(ts[i].off < co)
    BY <1>1, PageFields, Zenon DEF Raised
  <1>6. /\ Len(key) \in Nat /\ v \in Nat /\ size \in Nat
        /\ c.off = off /\ c.off \in Int
        /\ used_size(c) \in Nat /\ used_size(c) <= size
    <2>1. Len(key) \in Nat /\ v \in Nat
      BY Inputs DEF Key
    <2>2. size \in Nat /\ sizeof_cell + Len(key) + v <= size
      BY <2>1, NewCellSize
    <2>3. c.off = off /\ c.key = key /\ c.value_size = v
      BY <1>2 DEF Cell
    <2> QED
      BY <2>1, <2>2, <2>3, CellNumbers DEF used_size
  <1>7. h \in Int /\ hp \in Int /\ hp = h + sizeof_ptr
    <2>1. Len(node'.cells) = n + 1
      <3>1. n + 1 = Len(InsertAt(s, p, c))
        BY <1>2, <1>3, Inserted
      <3> QED
        BY <1>2, <3>1
    <2>2. sizeof_ptr * (n + 1) = sizeof_ptr * n + sizeof_ptr
          /\ sizeof_ptr * n \in Int
      BY <1>3, Constants
    <2> QED
      BY <2>1, <2>2, Constants DEF hdr_offset_limit
  <1>8. free_space(node) = co - h
    <2>1. co - h \in 0 .. U32 - 1
      BY <1>1, <1>3, <1>7, HdrType, Constants, SMTT(30)
    <2>2. (co - h) % U32 = co - h
      BY <2>1, Constants
    <2> QED
      BY <2>2 DEF free_space
  <1> HIDE DEF size, s, n, ts, m, tp, h, hp, co, mt, off
  <1>9. ~(co - h < sizeof_ptr + (IF in_gap(node, size) THEN size ELSE 0))
    BY <1>8 DEF PointerForgotten, size
  <1>10. in_gap(node, size) \/ fits_tombstone(node, size)
    BY DEF OffsetMissing, size
  <1>11. hp <= co
    BY <1>3, <1>6, <1>7, <1>9, Constants
  <1>12. ASSUME NEW i \in 1 .. n
         PROVE  /\ s[i].off \in Int /\ used_size(s[i]) \in Nat
                /\ co <= s[i].off /\ hp <= s[i].off
    <2>1. s[i].off \in Int /\ used_size(s[i]) \in Nat
      BY <1>3, CellNumbers
    <2> QED
      BY <1>3, <1>5, <1>7, <1>11, <2>1
  <1>13. ASSUME NEW i \in 1 .. m
         PROVE  /\ ts[i].off \in Int /\ ts[i].size \in Nat
                /\ co <= ts[i].off /\ hp <= ts[i].off
    <2>1. ts[i].off \in Int /\ ts[i].size \in Nat
      BY <1>3, TombNumbers
    <2> QED
      BY <1>3, <1>5, <1>7, <1>11, <2>1
  <1>14. tp = IF ~in_gap(node, size) /\ fits_tombstone(node, size)
              THEN remainder(ts[1], size) \o Tail(ts) ELSE ts
    BY <1>1, <1>2, <1>6, TakenEffect DEF mt, ts, size
  <1>15. off = IF in_gap(node, size) THEN co - size
               ELSE IF fits_tombstone(node, size) THEN ts[1].off ELSE 0
    BY DEF off, node_get_free_offset, size, co, ts
  <1> DEFINE Within(k) ==
               /\ k \in [1 .. Len(tp) -> 1 .. m]
               /\ \A i, j \in 1 .. Len(tp) : i # j => k[i] # k[j]
               /\ \A i \in 1 .. Len(tp) :
                    /\ hp <= tp[i].off
                    /\ ts[k[i]].off <= tp[i].off
                    /\ tp[i].off + tp[i].size <= ts[k[i]].off + ts[k[i]].size
                    /\ Apart(tp[i].off, tp[i].size, c.off, used_size(c))
             Room ==
               /\ hp <= c.off /\ c.off + used_size(c) <= NODE_SIZE
               /\ \A i \in 1 .. n :
                    Apart(c.off, used_size(c), s[i].off, used_size(s[i]))
  <1>16. ASSUME Room, NEW k, Within(k)
         PROVE  Intact(node')
    <2>1. \A i \in 1 .. n :
             /\ hp <= s[i].off
             /\ Apart(c.off, used_size(c), s[i].off, used_size(s[i]))
      BY <1>12, <1>16
    <2>2. node'.cells = InsertAt(s, p, c) /\ node' \in PageType
      BY <1>2
    <2> QED
      BY <1>1, <1>2, <1>16, <2>1, <2>2, OneMoreIntact DEF s, n, ts, m, tp, hp
  <1>17. CASE in_gap(node, size)
    <2>1. c.off = co - size /\ tp = ts /\ co - h >= sizeof_ptr + size
      <3>1. c.off = co - size /\ tp = ts
        BY <1>6, <1>14, <1>15, <1>17
      <3>2. ~(co - h < sizeof_ptr + size)
        BY <1>9, <1>17
      <3> QED
        BY <1>3, <1>6, <1>7, <3>1, <3>2, Constants
    <2>2. Room
      <3>1. hp <= c.off /\ c.off + used_size(c) <= co
        BY <1>3, <1>6, <1>7, <2>1, Constants
      <3>2. c.off + used_size(c) <= NODE_SIZE
        BY <1>1, <1>3, <1>6, <3>1, Constants DEF co
      <3>3. ASSUME NEW i \in 1 .. n
            PROVE  Apart(c.off, used_size(c), s[i].off, used_size(s[i]))
        BY <1>3, <1>6, <1>12, <3>1 DEF Apart
      <3> QED
        BY <3>1, <3>2, <3>3
    <2> DEFINE k == [i \in 1 .. m |-> i]
    <2>3. Within(k)
      <3>1. Len(tp) = m
        BY <2>1 DEF m
      <3>2. k \in [1 .. Len(tp) -> 1 .. m] /\ \A i \in 1 .. m : k[i] = i
        BY <3>1
      <3> HIDE DEF k
      <3>3. ASSUME NEW i \in 1 .. m
            PROVE  /\ hp <= tp[i].off
                   /\ ts[k[i]].off <= tp[i].off
                   /\ tp[i].off + tp[i].size <= ts[k[i]].off + ts[k[i]].size
                   /\ Apart(tp[i].off, tp[i].size, c.off, used_size(c))
        <4>1. c.off + used_size(c) <= ts[i].off
          <5>1. ts[i].off \in Int /\ co <= ts[i].off
            BY <1>13
          <5> HIDE DEF Within, Room
          <5> QED
            BY <1>3, <1>6, <2>1, <5>1, SMTT(30)
        <4>2. Apart(ts[i].off, ts[i].size, c.off, used_size(c))
          BY <4>1 DEF Apart
        <4>3. ts[i].off <= ts[i].off /\ ts[i].off + ts[i].size <= ts[i].off + ts[i].size
          BY <1>13
        <4> QED
          BY <1>13, <2>1, <3>2, <4>2, <4>3
      <3> QED
        BY <3>1, <3>2, <3>3
    <2> HIDE DEF k, Within, Room
    <2> QED
      BY <1>16, <2>2, <2>3
  <1>18. CASE ~in_gap(node, size)
    <2>1. fits_tombstone(node, size)
      BY <1>10, <1>18
    <2>2. ts # << >> /\ size <= ts[1].size
      BY <2>1 DEF fits_tombstone, ts
    <2>3. 1 \in 1 .. m /\ m >= 1 /\ ts[1] \in TombType
      BY <1>3, <2>2 DEF m
    <2>4. c.off = ts[1].off
      BY <1>6, <1>15, <1>18, <2>1
    <2>5. tp = remainder(ts[1], size) \o Tail(ts)
      BY <1>14, <1>18, <2>1
    <2>6. /\ ts[1].off \in Int /\ ts[1].size \in Nat /\ hp <= ts[1].off
          /\ ts[1].off + ts[1].size <= NODE_SIZE
      BY <1>4, <1>13, <2>3
    <2>7. Room
      <3>1. hp <= c.off /\ c.off + used_size(c) <= ts[1].off + ts[1].size
        BY <1>6, <1>7, <2>2, <2>4, <2>6, SMTT(30)
      <3>2. c.off + used_size(c) <= NODE_SIZE
        BY <1>6, <2>6, <3>1, Constants
      <3>3. ASSUME NEW i \in 1 .. n
            PROVE  Apart(c.off, used_size(c), s[i].off, used_size(s[i]))
        <4>1. Apart(ts[1].off, ts[1].size, s[i].off, used_size(s[i]))
          BY <1>4, <2>3
        <4> QED
          BY <1>6, <1>12, <2>4, <2>6, <3>1, <4>1, SMTT(30) DEF Apart
      <3> QED
        BY <3>1, <3>2, <3>3
    <2>8. ASSUME NEW i \in 2 .. m
          PROVE  Apart(ts[i].off, ts[i].size, c.off, used_size(c))
      <3>1. i \in 1 .. m /\ i # 1
        BY <1>3
      <3>2. Apart(ts[i].off, ts[i].size, ts[1].off, ts[1].size)
        BY <1>4, <2>3, <3>1
      <3> QED
        BY <1>6, <1>13, <2>2, <2>4, <2>6, <3>1, <3>2, SMTT(30) DEF Apart
    <2>9. /\ Tail(ts) \in Seq(TombType) /\ Len(Tail(ts)) = m - 1
          /\ \A i \in 1 .. m - 1 : Tail(ts)[i] = ts[i + 1]
      BY <1>3, <2>2 DEF m
    <2>10. CASE remainder(ts[1], size) = << >>
      <3> DEFINE k == [i \in 1 .. m - 1 |-> i + 1]
      <3>1. tp = Tail(ts)
        BY <2>5, <2>9, <2>10
      <3>2. Within(k)
        <4>1. Len(tp) = m - 1
          BY <2>9, <3>1
        <4>2. /\ \A i \in 1 .. m - 1 : k[i] = i + 1 /\ k[i] \in 1 .. m /\ k[i] \in 2 .. m
              /\ k \in [1 .. Len(tp) -> 1 .. m]
          BY <1>3, <4>1
        <4>3. \A i, j \in 1 .. m - 1 : i # j => k[i] # k[j]
          BY <1>3
        <4> HIDE DEF k
        <4>4. ASSUME NEW i \in 1 .. m - 1
              PROVE  /\ hp <= tp[i].off
                     /\ ts[k[i]].off <= tp[i].off
                     /\ tp[i].off + tp[i].size <= ts[k[i]].off + ts[k[i]].size
                     /\ Apart(tp[i].off, tp[i].size, c.off, used_size(c))
          <5>1. tp[i] = ts[k[i]] /\ k[i] \in 1 .. m /\ k[i] \in 2 .. m
            BY <2>9, <3>1, <4>2
          <5>2. /\ ts[k[i]].off \in Int /\ ts[k[i]].size \in Nat /\ hp <= ts[k[i]].off
                /\ Apart(ts[k[i]].off, ts[k[i]].size, c.off, used_size(c))
            BY <1>13, <2>8, <5>1
          <5> QED
            BY <5>1, <5>2
        <4> QED
          BY <4>1, <4>2, <4>3, <4>4
      <3> HIDE DEF k, Within, Room
      <3> QED
        BY <1>16, <2>7, <3>2
    <2>11. ASSUME NEW r \in TombType, remainder(ts[1], size) = <<r>>,
                  r.off = ts[1].off + size, r.size = ts[1].size - size - sizeof_cell
           PROVE  Intact(node')
      <3> DEFINE k == [i \in 1 .. m |-> i]
      <3>1. tp = <<r>> \o Tail(ts)
        BY <2>5, <2>11
      <3>2. /\ Len(tp) = m /\ tp[1] = r
            /\ \A i \in 2 .. m : tp[i] = ts[i]
        <4>1. /\ Len(tp) = m /\ tp[1] = r
              /\ \A i \in 2 .. m : tp[i] = Tail(ts)[i - 1]
          BY <1>3, <2>3, <2>9, <3>1
        <4>2. \A i \in 2 .. m : Tail(ts)[i - 1] = ts[i]
          BY <1>3, <2>9
        <4> QED
          BY <4>1, <4>2
      <3>3. Within(k)
        <4>1. k \in [1 .. Len(tp) -> 1 .. m] /\ \A i \in 1 .. m : k[i] = i
          BY <3>2
        <4> HIDE DEF k
        <4>2. ASSUME NEW i \in 1 .. m
              PROVE  /\ hp <= tp[i].off
                     /\ ts[i].off <= tp[i].off
                     /\ tp[i].off + tp[i].size <= ts[i].off + ts[i].size
                     /\ Apart(tp[i].off, tp[i].size, c.off, used_size(c))
          <5>1. CASE i = 1
            <6>1. tp[i] = r /\ ts[i] = ts[1]
              BY <3>2, <5>1
            <6>2. r.off \in Int /\ r.size \in Nat /\ r.off = ts[1].off + size
                  /\ r.size = ts[1].size - size - sizeof_cell
              BY <2>11, TombNumbers
            <6>3. hp <= r.off /\ ts[1].off <= r.off
              BY <1>6, <1>7, <2>6, <6>2, SMTT(30)
            <6>4. r.off + r.size <= ts[1].off + ts[1].size
              <7>1. sizeof_cell \in Nat
                BY Constants
              <7>2. \A a, b \in Int, x, y \in Nat : (a + x) + (b - x - y) <= a + b
                OBVIOUS
              <7>3. ts[1].off \in Int /\ ts[1].size \in Int /\ size \in Nat
                BY <1>6, <2>6
              <7>4. (ts[1].off + size) + (ts[1].size - size - sizeof_cell)
                      <= ts[1].off + ts[1].size
                BY <7>1, <7>2, <7>3, Zenon
              <7> QED
                BY <6>2, <7>4, Zenon
            <6>5. c.off + used_size(c) <= r.off
              BY <1>6, <2>4, <2>6, <6>2
            <6> QED
              BY <6>1, <6>3, <6>4, <6>5 DEF Apart
          <5>2. CASE i # 1
            <6>1. i \in 2 .. m
              BY <1>3, <5>2
            <6> QED
              BY <1>13, <2>8, <3>2, <6>1
          <5> QED
            BY <5>1, <5>2
        <4> QED
          BY <3>2, <4>1, <4>2
      <3> HIDE DEF k, Within, Room
      <3> QED
        BY <1>16, <2>7, <3>3
    <2> QED
      BY <1>6, <2>2, <2>3, <2>10, <2>11, RemainderType
  <1> QED
    BY <1>17, <1>18

-----------------------------------------------------------------------------
(* The invariant *)

\* A new page satisfies the invariant.
LEMMA InitHolds == Init => IndInv
  <1>1. SUFFICES ASSUME Init PROVE IndInv
    OBVIOUS
  <1>2. node = node_init(TRUE)
    BY <1>1 DEF Init
  <1>3. node \in PageType
    BY <1>2, Constants DEF node_init, PageType, NULL
  <1>4. node.cells = << >> /\ node.cell_offset = NODE_SIZE
    BY <1>2 DEF node_init
  <1>5. Sorted(node.cells) /\ FromInputs
    BY <1>4 DEF Sorted, FromInputs
  <1>6. GapInv
    <2>1. hdr_offset_limit(node) = sizeof_node
      BY <1>4, Constants DEF hdr_offset_limit
    <2>2. sizeof_node <= NODE_SIZE
      BY PageAssumption DEF PageAssumption
    <2> QED
      BY <1>4, <2>1, <2>2, Constants DEF GapInv
  <1> QED
    BY <1>3, <1>5, <1>6 DEF IndInv

\* An insertion keeps the invariant: the cell is where the search has placed it,
\* and on a page that is still intact it is above the pointers.
LEMMA InsertStep ==
  ASSUME IndInv, NEW key \in Keys, NEW v \in ValueSizes, insert(key, v)
  PROVE  IndInv'
  <1>1. node \in PageType /\ Sorted(node.cells) /\ FromInputs
    BY DEF IndInv
  <1> DEFINE s == node.cells
             n == Len(s)
             u == node'.cells
  <1>2. PICK p \in 1 .. n + 1, c \in CellType :
           /\ c = Cell(node_get_free_offset(node, Len(key), v), key, v, NULL)
           /\ u = InsertAt(s, p, c)
           /\ node'.cell_offset = c.off
           /\ node' \in PageType
           /\ \A i \in 1 .. p - 1 : Before(s[i].key, key)
           /\ \A i \in p .. n : Before(key, s[i].key)
    BY <1>1, InsertEffect
  <1>3. c.key = key /\ c.value_size = v
    BY <1>2 DEF Cell
  <1>4. s \in Seq(CellType) /\ n \in Nat
    BY <1>1, PageFields
  <1>5. Sorted(u)
    <2>1. /\ \A i \in 1 .. p - 1 : Before(s[i].key, c.key)
          /\ \A i \in p .. Len(s) : Before(c.key, s[i].key)
      BY <1>2, <1>3
    <2>2. Sorted(InsertAt(s, p, c))
      BY <1>1, <1>4, <2>1, InsertSorted
    <2> QED
      BY <1>2, <2>2
  <1>6. /\ Len(u) = n + 1
        /\ u[p] = c
        /\ \A i \in 1 .. p - 1 : u[i] = s[i]
        /\ \A i \in p + 1 .. n + 1 : u[i] = s[i - 1]
    <2> DEFINE t == InsertAt(s, p, c)
    <2>1. u = t /\ p \in 1 .. Len(s) + 1 /\ c \in CellType
      BY <1>2
    <2> HIDE DEF s, u
    <2>2. /\ Len(t) = n + 1
          /\ t[p] = c
          /\ \A i \in 1 .. p - 1 : t[i] = s[i]
          /\ \A i \in p + 1 .. n + 1 : t[i] = s[i - 1]
      <3>1. \A q \in Seq(CellType) : p \in 1 .. Len(q) + 1 =>
              /\ Len(InsertAt(q, p, c)) = Len(q) + 1
              /\ InsertAt(q, p, c)[p] = c
              /\ \A i \in 1 .. p - 1 : InsertAt(q, p, c)[i] = q[i]
              /\ \A i \in p + 1 .. Len(q) + 1 : InsertAt(q, p, c)[i] = q[i - 1]
        BY Inserted
      <3> QED
        BY <1>4, <2>1, <3>1
    <2> HIDE DEF t
    <2> QED
      BY <2>1, <2>2
  <1>7. FromInputs'
    <2>1. \A i \in 1 .. n : s[i].key \in Keys /\ s[i].value_size \in ValueSizes
      BY <1>1 DEF FromInputs
    <2>2. ASSUME NEW i \in 1 .. n + 1
          PROVE  u[i].key \in Keys /\ u[i].value_size \in ValueSizes
      <3> HIDE DEF s, n, u
      <3>1. CASE i < p
        BY <1>4, <1>6, <2>1, <3>1
      <3>2. CASE i = p
        BY <1>3, <1>6, <3>2
      <3>3. CASE i > p
        <4>1. i - 1 \in 1 .. n /\ u[i] = s[i - 1]
          BY <1>4, <1>6, <3>3
        <4> QED
          BY <2>1, <4>1
      <3> QED
        BY <1>4, <3>1, <3>2, <3>3
    <2> QED
      BY <1>6, <2>2 DEF FromInputs
  <1>8. GapInv'
    <2>1. SUFFICES ASSUME Intact(node')
                   PROVE  /\ hdr_offset_limit(node') <= node'.cell_offset
                          /\ node'.cell_offset <= NODE_SIZE
      BY DEF GapInv
    <2>2. \A i \in 1 .. Len(u) : /\ hdr_offset_limit(node') <= u[i].off
                                 /\ u[i].off + used_size(u[i]) <= NODE_SIZE
      BY <1>2, <2>1, IntactFacts
    <2>3. p \in 1 .. Len(u) /\ u[p] = c
      BY <1>4, <1>6
    <2>4. hdr_offset_limit(node') <= c.off /\ c.off + used_size(c) <= NODE_SIZE
      BY <2>2, <2>3
    <2>5. c.off <= NODE_SIZE
      BY <2>4, CellNumbers, Constants
    <2> QED
      BY <1>2, <2>4, <2>5
  <1> QED
    BY <1>2, <1>5, <1>7, <1>8 DEF IndInv

\* A deletion keeps the invariant.
LEMMA DeleteStep ==
  ASSUME IndInv, NEW key \in Keys, node_delete_key(key)
  PROVE  IndInv'
  <1>1. node \in PageType /\ Sorted(node.cells) /\ FromInputs
    BY DEF IndInv
  <1> DEFINE s == node.cells
             n == Len(s)
             u == node'.cells
  <1>2. PICK p \in 1 .. n :
           /\ u = RemoveAt(s, p)
           /\ node'.cell_offset = node.cell_offset
           /\ node' \in PageType
    BY <1>1, DeleteEffect
  <1>3. s \in Seq(CellType) /\ n \in Nat
    BY <1>1, PageFields
  <1>4. Sorted(u)
    <2>1. Sorted(RemoveAt(s, p))
      BY <1>1, <1>3, RemoveSorted
    <2> QED
      BY <1>2, <2>1
  <1>5. /\ Len(u) = n - 1
        /\ \A i \in 1 .. p - 1 : u[i] = s[i]
        /\ \A i \in p .. n - 1 : u[i] = s[i + 1]
    <2>1. u = RemoveAt(s, p) /\ p \in 1 .. Len(s)
      BY <1>2
    <2> HIDE DEF u, s
    <2> QED
      BY <1>3, <2>1, Removed
  <1>6. FromInputs'
    <2>1. \A i \in 1 .. n : s[i].key \in Keys /\ s[i].value_size \in ValueSizes
      BY <1>1 DEF FromInputs
    <2>2. ASSUME NEW i \in 1 .. n - 1
          PROVE  u[i].key \in Keys /\ u[i].value_size \in ValueSizes
      <3> HIDE DEF s, n, u
      <3>1. CASE i < p
        <4>1. i \in 1 .. n /\ u[i] = s[i]
          BY <1>3, <1>5, <3>1
        <4> QED
          BY <2>1, <4>1
      <3>2. CASE i >= p
        <4>1. i + 1 \in 1 .. n /\ u[i] = s[i + 1]
          BY <1>3, <1>5, <3>2
        <4> QED
          BY <2>1, <4>1
      <3> QED
        BY <1>3, <3>1, <3>2
    <2> QED
      BY <1>5, <2>2 DEF FromInputs
  <1>7. GapInv'
    <2>1. /\ hdr_offset_limit(node) <= node.cell_offset
          /\ node.cell_offset <= NODE_SIZE
      BY DEF IndInv, GapInv, node_delete_key
    <2>2. /\ hdr_offset_limit(node') \in Int /\ hdr_offset_limit(node) \in Int
          /\ hdr_offset_limit(node') <= hdr_offset_limit(node)
      <3>1. sizeof_ptr * Len(u) <= sizeof_ptr * n
        BY <1>3, <1>5, Constants
      <3>2. sizeof_ptr * Len(u) \in Int /\ sizeof_ptr * n \in Int
        BY <1>3, <1>5, Constants
      <3> QED
        BY <3>1, <3>2, Constants DEF hdr_offset_limit
    <2>3. hdr_offset_limit(node') <= node.cell_offset
      BY <1>1, <2>1, <2>2, PageFields
    <2> QED
      BY <1>2, <2>1, <2>3 DEF GapInv
  <1> QED
    BY <1>2, <1>4, <1>6, <1>7 DEF IndInv

\* The cells of a page are in the order of their keys, no key twice, and on an
\* intact page cell_offset is between the pointers and the end of the page.
THEOREM Inductive == Spec => []IndInv
  <1>1. IndInv /\ [Next]_node => IndInv'
    <2>1. SUFFICES ASSUME IndInv, [Next]_node PROVE IndInv'
      OBVIOUS
    <2>2. ASSUME NEW key \in Keys, NEW v \in ValueSizes, insert(key, v)
          PROVE  IndInv'
      BY <2>1, <2>2, InsertStep
    <2>3. ASSUME NEW key \in Keys, node_delete_key(key)
          PROVE  IndInv'
      BY <2>1, <2>3, DeleteStep
    <2>4. CASE UNCHANGED node
      BY <2>1, <2>4 DEF IndInv, FromInputs, GapInv
    <2> QED
      BY <2>1, <2>2, <2>3, <2>4 DEF Next
  <1> QED
    BY <1>1, InitHolds, PTL DEF Spec

-----------------------------------------------------------------------------
(* Properties *)

\* Only the three ways of DamageOrigin damage a page, whatever the keys, the
\* sizes and the size of a page: a deletion never does, nor does an insertion
\* for which cell_offset was not raised, the pointer had room and there was an
\* offset.
THEOREM DamageHasOrigin == Spec => DamageOrigin
  <1> DEFINE Origin ==
        \E key \in Keys, value_size \in ValueSizes :
          LET size == new_cell_size(Len(key), value_size) IN
          /\ insert(key, value_size)
          /\ \/ Raised(node)
             \/ PointerForgotten(node, size)
             \/ OffsetMissing(node, size)
  <1>1. IndInv /\ [Next]_node => [Intact(node) /\ ~Intact(node)' => Origin]_node
    <2>1. SUFFICES ASSUME IndInv, Next, Intact(node), ~Intact(node)'
                   PROVE  Origin
      OBVIOUS
    <2>2. ASSUME NEW key \in Keys, node_delete_key(key)
          PROVE  FALSE
      BY <2>1, <2>2, DeleteIntact DEF IndInv
    <2>3. ASSUME NEW key \in Keys, NEW v \in ValueSizes, insert(key, v)
          PROVE  Origin
      BY <2>1, <2>3, InsertIntact
    <2> QED
      BY <2>1, <2>2, <2>3 DEF Next
  <1>2. Spec => [][Intact(node) /\ ~Intact(node)' => Origin]_node
    BY <1>1, Inductive, PTL DEF Spec
  <1> QED
    BY <1>2 DEF DamageOrigin

\* The search finds exactly the keys that are on the page, and counts those that
\* come before: for any number of keys of any sizes, a key and a prefix of it
\* included.
THEOREM SearchIsExact == Spec => []SearchExact
  <1>1. IndInv => SearchExact
    <2>1. SUFFICES ASSUME IndInv, NEW key \in Keys
                   PROVE  LET at == node_bin_search(node, key)
                              keys == [i \in DOMAIN node.cells |-> node.cells[i].key]
                          IN  /\ at.found <=> key \in Range(keys)
                              /\ at.found => keys[at.idx + 1] = key
                              /\ at.idx = Cardinality({i \in DOMAIN keys :
                                                         Before(keys[i], key)})
      BY DEF SearchExact
    <2> DEFINE at == node_bin_search(node, key)
               s == node.cells
               n == Len(s)
               keys == [i \in DOMAIN node.cells |-> node.cells[i].key]
               before == {i \in DOMAIN keys : Before(keys[i], key)}
    <2>2. key \in Key
      BY <2>1, Inputs
    <2>3. node \in PageType /\ Sorted(s)
      BY <2>1 DEF IndInv
    <2>4. /\ s \in Seq(CellType) /\ n \in Nat /\ DOMAIN s = 1 .. n
          /\ \A i \in 1 .. n : s[i].key \in Key
      <3>1. \A c \in CellType : c.key \in Key
        BY DEF CellType
      <3> QED
        BY <2>3, <3>1, PageFields
    <2>5. Placed(s, key, at)
      BY <2>2, <2>3, <2>4, SearchPlaces, SortedOrdered
    <2>6. \A i, j \in 1 .. n : i < j => Before(s[i].key, s[j].key)
      BY <2>3 DEF Sorted
    <2>7. /\ DOMAIN keys = 1 .. n
          /\ \A i \in 1 .. n : keys[i] = s[i].key
      BY <2>4
    <2>8. /\ at.found \in BOOLEAN /\ at.idx \in 0 .. n
          /\ at.found => at.idx < n /\ s[at.idx + 1].key = key
          /\ ~at.found => /\ \A i \in 1 .. at.idx : Before(s[i].key, key)
                          /\ \A i \in at.idx + 1 .. n : Before(key, s[i].key)
      BY <2>5 DEF Placed
    <2> HIDE DEF at, s, n, keys
    <2>9. ASSUME NEW i \in 1 .. n
          PROVE  Before(keys[i], key) <=> i <= at.idx
      <3>1. s[i].key \in Key /\ keys[i] = s[i].key
        BY <2>4, <2>7
      <3>2. CASE ~at.found
        <4>1. CASE i <= at.idx
          <5>1. i \in 1 .. at.idx
            BY <2>4, <2>8, <4>1
          <5> QED
            BY <2>8, <3>1, <3>2, <4>1, <5>1
        <4>2. CASE ~(i <= at.idx)
          <5>1. i \in at.idx + 1 .. n
            BY <2>4, <2>8, <4>2
          <5>2. Before(key, s[i].key)
            BY <2>8, <3>2, <5>1
          <5> QED
            BY <2>2, <3>1, <4>2, <5>2, BeforeAsymmetric
        <4> QED
          BY <4>1, <4>2
      <3>3. CASE at.found
        <4>1. at.idx + 1 \in 1 .. n /\ s[at.idx + 1].key = key
          BY <2>4, <2>8, <3>3
        <4>2. CASE i <= at.idx
          <5>1. Before(s[i].key, s[at.idx + 1].key)
            BY <2>4, <2>6, <2>8, <4>1, <4>2
          <5> QED
            BY <3>1, <4>1, <4>2, <5>1
        <4>3. CASE i = at.idx + 1
          BY <2>2, <2>8, <3>1, <4>1, <4>3, BeforeIrreflexive
        <4>4. CASE i > at.idx + 1
          <5>1. Before(s[at.idx + 1].key, s[i].key)
            BY <2>6, <4>1, <4>4
          <5>2. Before(key, s[i].key)
            BY <4>1, <5>1
          <5>3. ~(i <= at.idx)
            BY <2>4, <2>8, <4>4
          <5> QED
            BY <2>2, <3>1, <5>2, <5>3, BeforeAsymmetric
        <4> QED
          BY <2>8, <4>2, <4>3, <4>4
      <3> QED
        BY <2>8, <3>2, <3>3
    <2>10. at.found <=> key \in Range(keys)
      <3>1. CASE at.found
        <4>1. at.idx + 1 \in 1 .. n /\ keys[at.idx + 1] = key
          BY <2>4, <2>7, <2>8, <3>1
        <4> QED
          BY <2>7, <3>1, <4>1 DEF Range
      <3>2. CASE ~at.found
        <4>1. ASSUME NEW i \in 1 .. n PROVE keys[i] # key
          <5>1. i \in 1 .. at.idx \/ i \in at.idx + 1 .. n
            BY <2>4, <2>8
          <5>2. Before(s[i].key, key) \/ Before(key, s[i].key)
            BY <2>8, <3>2, <5>1
          <5> QED
            BY <2>2, <2>4, <2>7, <5>2, BeforeAsymmetric
        <4> QED
          BY <2>7, <3>2, <4>1 DEF Range
      <3> QED
        BY <2>8, <3>1, <3>2
    <2>11. at.found => keys[at.idx + 1] = key
      BY <2>4, <2>7, <2>8
    <2>12. at.idx = Cardinality(before)
      <3>1. before = 1 .. at.idx
        <4>1. \A i \in 1 .. n : i \in 1 .. at.idx <=> i <= at.idx
          BY <2>4, <2>8
        <4>2. 1 .. at.idx \subseteq 1 .. n
          BY <2>4, <2>8
        <4> QED
          BY <2>7, <2>9, <4>1, <4>2
      <3>2. Cardinality(1 .. at.idx) = IF 1 > at.idx THEN 0 ELSE at.idx - 1 + 1
        BY <2>8, FS_Interval
      <3>3. Cardinality(1 .. at.idx) = at.idx
        BY <2>8, <3>2
      <3> QED
        BY <3>1, <3>3
    <2> QED
      BY <2>10, <2>11, <2>12 DEF at, keys
  <1> QED
    BY <1>1, Inductive, PTL

-----------------------------------------------------------------------------
(* The page implements a store of tuples *)

CellTuple(cell) == <<cell.key, cell.value_size>>

TuplesOf(cells) == {CellTuple(cells[i]) : i \in 1 .. Len(cells)}

\* No key is twice on a sorted page.
LEMMA KeysDiffer ==
  ASSUME NEW s \in Seq(CellType), Sorted(s),
         NEW i \in 1 .. Len(s), NEW j \in 1 .. Len(s), s[i].key = s[j].key
  PROVE  i = j
  <1>1. s[i].key \in Key /\ s[j].key \in Key
    <2>1. \A c \in CellType : c.key \in Key
      BY DEF CellType
    <2> QED
      BY <2>1
  <1>2. CASE i < j
    BY <1>1, <1>2, BeforeIrreflexive DEF Sorted
  <1>3. CASE j < i
    BY <1>1, <1>3, BeforeIrreflexive DEF Sorted
  <1> QED
    BY <1>2, <1>3

\* The bag of the tuples of a sorted page has each of them once.
LEMMA StoreIsSet ==
  ASSUME NEW s \in Seq(CellType), Sorted(s)
  PROVE  ToBag([i \in DOMAIN s |-> <<s[i].key, s[i].value_size>>])
           = SetToBag(TuplesOf(s))
  <1> DEFINE n == Len(s)
             t == [i \in 1 .. n |-> CellTuple(s[i])]
             at(x) == {i \in 1 .. n : t[i] = x}
  <1>1. DOMAIN s = 1 .. n /\ n \in Nat
    OBVIOUS
  <1>2. [i \in DOMAIN s |-> <<s[i].key, s[i].value_size>>] = t
    BY <1>1 DEF CellTuple
  <1>3. Range(t) = TuplesOf(s)
    BY DEF Range, TuplesOf
  <1>4. ASSUME NEW x \in TuplesOf(s)
        PROVE  Cardinality(at(x)) = 1
    <2>1. PICK k \in 1 .. n : x = CellTuple(s[k])
      BY DEF TuplesOf
    <2>2. ASSUME NEW i \in 1 .. n, t[i] = x
          PROVE  i = k
      <3>1. s[i].key = s[k].key
        BY <2>1, <2>2 DEF CellTuple
      <3> QED
        BY <3>1, KeysDiffer
    <2>3. at(x) = {k}
      BY <2>1, <2>2
    <2> QED
      BY <2>3, FS_Singleton
  <1>5. ToBag(t) = [x \in Range(t) |-> Cardinality({i \in DOMAIN t : t[i] = x})]
    BY DEF ToBag
  <1>6. DOMAIN t = 1 .. n
    OBVIOUS
  <1> HIDE DEF t
  <1>7. ToBag(t) = [x \in TuplesOf(s) |-> Cardinality(at(x))]
    BY <1>3, <1>5, <1>6
  <1> HIDE DEF at
  <1>8. [x \in TuplesOf(s) |-> Cardinality(at(x))] = [x \in TuplesOf(s) |-> 1]
    BY <1>4
  <1> QED
    BY <1>2, <1>7, <1>8 DEF SetToBag

\* Adding a tuple to a bag that has not got it, and taking one that it has.
LEMMA BagPut ==
  ASSUME NEW S, NEW x, x \notin S
  PROVE  SetToBag(S) (+) SetToBag({x}) = SetToBag(S \cup {x})
  BY DEF SetToBag, (+)

\* A set less an element, as bags.
LEMMA BagTake ==
  ASSUME NEW S, NEW x, x \in S
  PROVE  SetToBag(S) (-) SetToBag({x}) = SetToBag(S \ {x})
  BY DEF SetToBag, (-)

\* The tuples of a page with one cell more.
LEMMA TuplesInserted ==
  ASSUME NEW s \in Seq(CellType), NEW p \in 1 .. Len(s) + 1, NEW c \in CellType
  PROVE  /\ Len(InsertAt(s, p, c)) = Len(s) + 1
         /\ TuplesOf(InsertAt(s, p, c)) = TuplesOf(s) \cup {CellTuple(c)}
  <1> DEFINE n == Len(s)
             u == InsertAt(s, p, c)
  <1>1. n \in Nat
    OBVIOUS
  <1>2. /\ Len(u) = n + 1
        /\ u[p] = c
        /\ \A i \in 1 .. p - 1 : u[i] = s[i]
        /\ \A i \in p + 1 .. n + 1 : u[i] = s[i - 1]
    BY Inserted
  <1> HIDE DEF u, n
  <1>3. p \in 1 .. n + 1
    BY DEF n
  <1>4. TuplesOf(u) = {CellTuple(u[i]) : i \in 1 .. n + 1}
    BY <1>2 DEF TuplesOf
  <1>5. TuplesOf(s) = {CellTuple(s[i]) : i \in 1 .. n}
    BY DEF TuplesOf, n
  <1>6. ASSUME NEW i \in 1 .. n + 1
        PROVE  CellTuple(u[i]) \in TuplesOf(s) \cup {CellTuple(c)}
    <2>1. CASE i < p
      <3>1. i \in 1 .. n /\ u[i] = s[i]
        BY <1>1, <1>2, <1>3, <2>1
      <3> QED
        BY <1>5, <3>1
    <2>2. CASE i = p
      BY <1>2, <2>2
    <2>3. CASE i > p
      <3>1. i - 1 \in 1 .. n /\ u[i] = s[i - 1]
        BY <1>1, <1>2, <1>3, <2>3
      <3> QED
        BY <1>5, <3>1
    <2> QED
      BY <1>3, <2>1, <2>2, <2>3
  <1>7. ASSUME NEW i \in 1 .. n
        PROVE  CellTuple(s[i]) \in TuplesOf(u)
    <2>1. CASE i < p
      <3>1. i \in 1 .. n + 1 /\ u[i] = s[i]
        BY <1>1, <1>2, <1>3, <2>1
      <3> QED
        BY <1>4, <3>1
    <2>2. CASE i >= p
      <3>1. i + 1 \in 1 .. n + 1 /\ i + 1 \in p + 1 .. n + 1 /\ i + 1 - 1 = i
        BY <1>1, <1>3, <2>2
      <3>2. u[i + 1] = s[i]
        BY <1>2, <3>1
      <3> QED
        BY <1>4, <3>1, <3>2
    <2> QED
      BY <1>3, <2>1, <2>2
  <1>8. CellTuple(c) \in TuplesOf(u)
    BY <1>2, <1>3, <1>4
  <1>9. TuplesOf(u) \subseteq TuplesOf(s) \cup {CellTuple(c)}
    BY <1>4, <1>6
  <1>10. TuplesOf(s) \subseteq TuplesOf(u)
    BY <1>5, <1>7
  <1> QED
    BY <1>2, <1>8, <1>9, <1>10 DEF u, n

\* The tuples of a sorted page with one cell less.
LEMMA TuplesRemoved ==
  ASSUME NEW s \in Seq(CellType), Sorted(s), NEW p \in 1 .. Len(s)
  PROVE  /\ Len(RemoveAt(s, p)) = Len(s) - 1
         /\ TuplesOf(RemoveAt(s, p)) = TuplesOf(s) \ {CellTuple(s[p])}
  <1> DEFINE n == Len(s)
             u == RemoveAt(s, p)
  <1>1. n \in Nat
    OBVIOUS
  <1>2. /\ Len(u) = n - 1
        /\ \A i \in 1 .. p - 1 : u[i] = s[i]
        /\ \A i \in p .. n - 1 : u[i] = s[i + 1]
    BY Removed
  <1>3. \A i \in 1 .. n : i # p => CellTuple(s[i]) # CellTuple(s[p])
    BY KeysDiffer DEF CellTuple
  <1> HIDE DEF u, n
  <1>4. p \in 1 .. n
    BY DEF n
  <1>5. TuplesOf(u) = {CellTuple(u[i]) : i \in 1 .. n - 1}
    BY <1>2 DEF TuplesOf
  <1>6. TuplesOf(s) = {CellTuple(s[i]) : i \in 1 .. n}
    BY DEF TuplesOf, n
  <1>7. ASSUME NEW i \in 1 .. n - 1
        PROVE  CellTuple(u[i]) \in TuplesOf(s) \ {CellTuple(s[p])}
    <2>1. CASE i < p
      <3>1. i \in 1 .. n /\ i # p /\ u[i] = s[i]
        BY <1>1, <1>2, <1>4, <2>1
      <3> QED
        BY <1>3, <1>6, <3>1
    <2>2. CASE i >= p
      <3>1. i + 1 \in 1 .. n /\ i + 1 # p /\ u[i] = s[i + 1]
        BY <1>1, <1>2, <1>4, <2>2
      <3> QED
        BY <1>3, <1>6, <3>1
    <2> QED
      BY <1>4, <2>1, <2>2
  <1>8. ASSUME NEW i \in 1 .. n, i # p
        PROVE  CellTuple(s[i]) \in TuplesOf(u)
    <2>1. CASE i < p
      <3>1. i \in 1 .. n - 1 /\ u[i] = s[i]
        BY <1>1, <1>2, <1>4, <2>1
      <3> QED
        BY <1>5, <3>1
    <2>2. CASE i > p
      <3>1. i - 1 \in 1 .. n - 1 /\ i - 1 \in p .. n - 1 /\ i - 1 + 1 = i
        BY <1>1, <1>4, <2>2
      <3>2. u[i - 1] = s[i]
        BY <1>2, <3>1
      <3> QED
        BY <1>5, <3>1, <3>2
    <2> QED
      BY <1>4, <1>8, <2>1, <2>2
  <1>9. TuplesOf(u) \subseteq TuplesOf(s) \ {CellTuple(s[p])}
    BY <1>5, <1>7
  <1>10. TuplesOf(s) \ {CellTuple(s[p])} \subseteq TuplesOf(u)
    BY <1>6, <1>8
  <1> QED
    BY <1>2, <1>9, <1>10 DEF u, n

\* A page implements the store of its tuples: an insertion puts one and a
\* deletion removes one, with whatever tombstones, on pages of any size.
THEOREM PageIsStore == Spec => ImplementsStore
  <1> DEFINE St == ToBag([i \in DOMAIN node.cells |->
                            <<node.cells[i].key, node.cells[i].value_size>>])
             Ct == Len(node.cells)
  <1>1. Init => Abstract!StoreInit
    <2>1. SUFFICES ASSUME Init PROVE Abstract!StoreInit
      OBVIOUS
    <2>2. node.cells = << >>
      BY <2>1 DEF Init, node_init
    <2>3. << >> \in Seq(CellType) /\ Sorted(<< >>) /\ TuplesOf(<< >>) = {}
      BY DEF Sorted, TuplesOf
    <2>4. St = SetToBag({})
      <3>1. \A s \in Seq(CellType) : Sorted(s) =>
              ToBag([i \in DOMAIN s |-> <<s[i].key, s[i].value_size>>])
                = SetToBag(TuplesOf(s))
        BY StoreIsSet
      <3> QED
        BY <2>2, <2>3, <3>1
    <2>5. Ct = 0
      BY <2>2
    <2> HIDE DEF St, Ct
    <2>6. St = [x \in {} |-> 1]
      BY <2>4 DEF SetToBag
    <2> QED
      BY <2>5, <2>6, Zenon DEF St, Ct, Abstract!StoreInit, Abstract!EmptyBag, Abstract!SetToBag
  <1>2. IndInv /\ IndInv' /\ [Next]_node => [Abstract!StoreNext]_<<St, Ct>>
    <2>1. SUFFICES ASSUME IndInv, IndInv', [Next]_node
                   PROVE  [Abstract!StoreNext]_<<St, Ct>>
      OBVIOUS
    <2> DEFINE s == node.cells
               u == node'.cells
    <2>2. /\ node \in PageType /\ node' \in PageType /\ Sorted(s) /\ Sorted(u)
          /\ s \in Seq(CellType) /\ u \in Seq(CellType) /\ Len(s) \in Nat
      BY <2>1, PageFields DEF IndInv
    <2>3. St = SetToBag(TuplesOf(s)) /\ St' = SetToBag(TuplesOf(u))
      <3>1. \A q \in Seq(CellType) : Sorted(q) =>
              ToBag([i \in DOMAIN q |-> <<q[i].key, q[i].value_size>>])
                = SetToBag(TuplesOf(q))
        BY StoreIsSet
      <3> QED
        BY <2>2, <3>1
    <2>4. ASSUME NEW key \in Keys, NEW v \in ValueSizes, insert(key, v)
          PROVE  Abstract!StoreNext
      <3>1. PICK p \in 1 .. Len(s) + 1, c \in CellType :
               /\ c = Cell(node_get_free_offset(node, Len(key), v), key, v, NULL)
               /\ u = InsertAt(s, p, c)
               /\ \A i \in 1 .. p - 1 : Before(s[i].key, key)
               /\ \A i \in p .. Len(s) : Before(key, s[i].key)
        BY <2>2, <2>4, InsertEffect
      <3> DEFINE t == <<key, v>>
      <3>2. CellTuple(c) = t
        BY <3>1 DEF Cell, CellTuple
      <3>3. Ct' = Ct + 1 /\ TuplesOf(u) = TuplesOf(s) \cup {t}
        <4>1. /\ Len(InsertAt(s, p, c)) = Len(s) + 1
              /\ TuplesOf(InsertAt(s, p, c)) = TuplesOf(s) \cup {CellTuple(c)}
          BY <2>2, TuplesInserted
        <4> QED
          BY <3>1, <3>2, <4>1
      <3>4. t \notin TuplesOf(s)
        <4>1. SUFFICES ASSUME NEW i \in 1 .. Len(s), CellTuple(s[i]) = t PROVE FALSE
          BY DEF TuplesOf
        <4>2. s[i].key = key
          BY <4>1 DEF CellTuple
        <4>3. i \in 1 .. p - 1 \/ i \in p .. Len(s)
          BY <2>2
        <4>4. Before(key, key)
          BY <3>1, <4>2, <4>3
        <4> QED
          BY <4>4, BeforeIrreflexive, Inputs
      <3>5. t \in Keys \X ValueSizes
        OBVIOUS
      <3> HIDE DEF St, Ct, t, s, u
      <3>6. St' = St (+) SetToBag({t})
        BY <2>3, <3>3, <3>4, BagPut
      <3>7. Abstract!put(t)
        BY <3>3, <3>6, Zenon DEF Abstract!put, Abstract!(+), (+), Abstract!SetToBag, SetToBag, St, Ct
      <3> QED
        BY <3>5, <3>7, Zenon DEF Abstract!StoreNext
    <2>5. ASSUME NEW key \in Keys, node_delete_key(key)
          PROVE  Abstract!StoreNext
      <3>1. PICK p \in 1 .. Len(s) : s[p].key = key /\ u = RemoveAt(s, p)
        BY <2>2, <2>5, DeleteEffect
      <3> DEFINE t == CellTuple(s[p])
      <3>2. Ct' = Ct - 1 /\ TuplesOf(u) = TuplesOf(s) \ {t}
        <4>1. /\ Len(RemoveAt(s, p)) = Len(s) - 1
              /\ TuplesOf(RemoveAt(s, p)) = TuplesOf(s) \ {CellTuple(s[p])}
          BY <2>2, TuplesRemoved
        <4> QED
          BY <3>1, <4>1
      <3>3. t \in TuplesOf(s)
        BY DEF TuplesOf
      <3>4. t \in Keys \X ValueSizes
        BY <2>1 DEF IndInv, FromInputs, CellTuple
      <3> HIDE DEF St, Ct, t, s, u
      <3>5. St' = St (-) SetToBag({t})
        BY <2>3, <3>2, <3>3, BagTake
      <3>6. t \in DOMAIN St
        BY <2>3, <3>3 DEF SetToBag
      <3>7. Abstract!remove(t)
        BY <3>2, <3>5, <3>6, Zenon
           DEF Abstract!remove, Abstract!(-), (-), Abstract!SetToBag, SetToBag,
               Abstract!BagIn, Abstract!BagToSet, St, Ct
      <3> QED
        BY <3>4, <3>7, Zenon DEF Abstract!StoreNext
    <2>6. CASE UNCHANGED node
      BY <2>6
    <2> QED
      BY <2>1, <2>4, <2>5, <2>6 DEF Next
  <1>3. Spec => Abstract!StoreInit /\ [][Abstract!StoreNext]_<<St, Ct>>
    BY <1>1, <1>2, Inductive, PTL DEF Spec
  <1> QED
    BY <1>3, PTL DEF ImplementsStore, Abstract!StoreSpec

-----------------------------------------------------------------------------
(* The count of tombstone bytes *)

\* The bytes of live cells, and those that the list of tombstones offers.
Live(cells) == Total([i \in DOMAIN cells |-> used_size(cells[i])])

Offered(tombs) == Total([i \in DOMAIN tombs |-> tombs[i].size])

\* The numbers that are added up.
LEMMA LiveNumbers ==
  ASSUME NEW s \in Seq(CellType)
  PROVE  /\ Live(s) \in Nat
         /\ LET f == [i \in DOMAIN s |-> used_size(s[i])] IN
            /\ f \in Seq(Nat) /\ Len(f) = Len(s)
            /\ \A i \in 1 .. Len(s) : f[i] = used_size(s[i]) /\ f[i] \in Nat
  <1> DEFINE f == [i \in 1 .. Len(s) |-> used_size(s[i])]
  <1>1. DOMAIN s = 1 .. Len(s) /\ Len(s) \in Nat
    OBVIOUS
  <1>2. \A i \in 1 .. Len(s) : used_size(s[i]) \in Nat
    <2>1. \A c \in CellType : used_size(c) \in Nat
      BY CellNumbers
    <2> QED
      BY <2>1
  <1>3. f \in Seq(Nat) /\ Len(f) = Len(s)
    BY <1>1, <1>2
  <1>4. Total(f) \in Nat
    BY <1>3, TotalType
  <1> QED
    BY <1>1, <1>2, <1>3, <1>4 DEF Live

\* The same for tombstones.
LEMMA OfferedNumbers ==
  ASSUME NEW s \in Seq(TombType)
  PROVE  /\ Offered(s) \in Nat
         /\ LET f == [i \in DOMAIN s |-> s[i].size] IN
            /\ f \in Seq(Nat) /\ Len(f) = Len(s)
            /\ \A i \in 1 .. Len(s) : f[i] = s[i].size /\ f[i] \in Nat
  <1> DEFINE f == [i \in 1 .. Len(s) |-> s[i].size]
  <1>1. DOMAIN s = 1 .. Len(s) /\ Len(s) \in Nat
    OBVIOUS
  <1>2. \A i \in 1 .. Len(s) : s[i].size \in Nat
    <2>1. \A t \in TombType : t.size \in Nat
      BY TombNumbers
    <2> QED
      BY <2>1
  <1>3. f \in Seq(Nat) /\ Len(f) = Len(s)
    BY <1>1, <1>2
  <1>4. Total(f) \in Nat
    BY <1>3, TotalType
  <1> QED
    BY <1>1, <1>2, <1>3, <1>4 DEF Offered

\* A cell more, wherever it is.
LEMMA LiveInserted ==
  ASSUME NEW s \in Seq(CellType), NEW p \in 1 .. Len(s) + 1, NEW c \in CellType
  PROVE  Live(InsertAt(s, p, c)) = Live(s) + used_size(c)
  <1> DEFINE u == InsertAt(s, p, c)
             n == Len(s)
             f == [i \in DOMAIN s |-> used_size(s[i])]
             g == [i \in DOMAIN u |-> used_size(u[i])]
  <1>1. /\ u \in Seq(CellType) /\ Len(u) = n + 1 /\ u[p] = c
        /\ \A i \in 1 .. p - 1 : u[i] = s[i]
        /\ \A i \in p + 1 .. n + 1 : u[i] = s[i - 1]
    BY Inserted
  <1> HIDE DEF u
  <1>2. /\ n \in Nat /\ Len(f) = n
        /\ \A i \in 1 .. n : f[i] = used_size(s[i]) /\ f[i] \in Int
    BY LiveNumbers
  <1>3. Len(g) = n + 1 /\ \A i \in 1 .. n + 1 : g[i] = used_size(u[i])
    BY <1>1, LiveNumbers
  <1>4. Live(s) = SumUpTo(f, n) /\ Live(u) = SumUpTo(g, n + 1)
    BY <1>2, <1>3 DEF Live, Total
  <1>5. p \in 1 .. n + 1
    OBVIOUS
  <1> HIDE DEF f, g, n
  <1>6. g[p] = used_size(c) /\ \A i \in 1 .. p - 1 : g[i] = f[i]
    <2>1. \A i \in 1 .. p - 1 : i \in 1 .. n /\ i \in 1 .. n + 1
      BY <1>2, <1>5
    <2> QED
      BY <1>1, <1>2, <1>3, <1>5, <2>1
  <1>7. \A i \in p .. n : g[i + 1] = f[i]
    <2>1. \A i \in p .. n : /\ i \in 1 .. n /\ i + 1 \in p + 1 .. n + 1
                            /\ i + 1 \in 1 .. n + 1 /\ i + 1 - 1 = i
      BY <1>2, <1>5
    <2> QED
      BY <1>1, <1>2, <1>3, <2>1
  <1>8. used_size(c) \in Int
    BY CellNumbers
  <1>9. SumUpTo(g, n + 1) = SumUpTo(f, n) + used_size(c)
    BY <1>2, <1>5, <1>6, <1>7, <1>8, SumInserted, ZenonT(30)
  <1> QED
    BY <1>4, <1>9 DEF u

\* A cell less.
LEMMA LiveRemoved ==
  ASSUME NEW s \in Seq(CellType), NEW p \in 1 .. Len(s)
  PROVE  Live(s) = Live(RemoveAt(s, p)) + used_size(s[p])
  <1> DEFINE u == RemoveAt(s, p)
             n == Len(s)
             m == n - 1
             f == [i \in DOMAIN u |-> used_size(u[i])]
             g == [i \in DOMAIN s |-> used_size(s[i])]
  <1>1. /\ u \in Seq(CellType) /\ Len(u) = m
        /\ \A i \in 1 .. p - 1 : u[i] = s[i]
        /\ \A i \in p .. m : u[i] = s[i + 1]
    BY Removed
  <1>2. n \in Nat /\ m \in Nat /\ p \in 1 .. m + 1 /\ m + 1 = n
    OBVIOUS
  <1> HIDE DEF u
  <1>3. /\ Len(g) = n
        /\ \A i \in 1 .. n : g[i] = used_size(s[i]) /\ g[i] \in Int
    BY LiveNumbers
  <1>4. Len(f) = m /\ \A i \in 1 .. m : f[i] = used_size(u[i]) /\ f[i] \in Int
    BY <1>1, LiveNumbers
  <1>5. Live(s) = SumUpTo(g, m + 1) /\ Live(u) = SumUpTo(f, m)
    BY <1>2, <1>3, <1>4 DEF Live, Total
  <1> HIDE DEF f, g, n, m
  <1>6. g[p] = used_size(s[p]) /\ used_size(s[p]) \in Int
    BY <1>2, <1>3
  <1>7. \A i \in 1 .. p - 1 : g[i] = f[i]
    <2>1. \A i \in 1 .. p - 1 : i \in 1 .. n /\ i \in 1 .. m
      BY <1>2
    <2> QED
      BY <1>1, <1>3, <1>4, <2>1
  <1>8. \A i \in p .. m : g[i + 1] = f[i]
    <2>1. \A i \in p .. m : i \in 1 .. m /\ i + 1 \in 1 .. n
      BY <1>2
    <2> QED
      BY <1>1, <1>3, <1>4, <2>1
  <1>9. SumUpTo(g, m + 1) = SumUpTo(f, m) + used_size(s[p])
    <2> DEFINE x == used_size(s[p])
    <2>1. g[p] = x /\ x \in Int /\ p \in 1 .. m + 1 /\ m \in Nat
      BY <1>2, <1>6
    <2>2. \A i \in 1 .. m : f[i] \in Int
      BY <1>4
    <2> HIDE DEF x
    <2>3. SumUpTo(g, m + 1) = SumUpTo(f, m) + x
      BY <1>7, <1>8, <2>1, <2>2, SumInserted
    <2> QED
      BY <2>3 DEF x
  <1> QED
    BY <1>5, <1>9 DEF u

\* A tombstone at the head of the list.
LEMMA OfferedCons ==
  ASSUME NEW ts \in Seq(TombType), NEW t \in TombType
  PROVE  Offered(<<t>> \o ts) = t.size + Offered(ts)
  <1> DEFINE u == <<t>> \o ts
             m == Len(ts)
             f == [i \in DOMAIN ts |-> ts[i].size]
             g == [i \in DOMAIN u |-> u[i].size]
  <1>1. /\ u \in Seq(TombType) /\ Len(u) = m + 1 /\ u[1] = t
        /\ m \in Nat /\ \A i \in 1 .. m : u[i + 1] = ts[i]
    OBVIOUS
  <1> HIDE DEF u
  <1>2. Len(f) = m /\ \A i \in 1 .. m : f[i] = ts[i].size /\ f[i] \in Int
    BY OfferedNumbers
  <1>3. Len(g) = m + 1 /\ \A i \in 1 .. m + 1 : g[i] = u[i].size
    BY <1>1, OfferedNumbers
  <1>4. Offered(ts) = SumUpTo(f, m) /\ Offered(u) = SumUpTo(g, m + 1)
    BY <1>2, <1>3 DEF Offered, Total
  <1> HIDE DEF f, g, m
  <1>5. g[1] = t.size /\ t.size \in Int
    BY <1>1, <1>3, TombNumbers
  <1>6. \A i \in 1 .. m : g[i + 1] = f[i]
    BY <1>1, <1>2, <1>3, SMTT(30)
  <1>7. SumUpTo(g, m + 1) = t.size + SumUpTo(f, m)
    BY <1>1, <1>2, <1>5, <1>6, SumShift
  <1> QED
    BY <1>4, <1>7 DEF u

\* The list without its head.
LEMMA OfferedTail ==
  ASSUME NEW ts \in Seq(TombType), ts # << >>
  PROVE  Offered(ts) = ts[1].size + Offered(Tail(ts))
  <1>1. /\ ts = <<ts[1]>> \o Tail(ts) /\ ts[1] \in TombType
        /\ Tail(ts) \in Seq(TombType)
    OBVIOUS
  <1> QED
    BY <1>1, OfferedCons

\* No tombstone of the list is empty.
TombsUsed(n) == \A i \in 1 .. Len(n.tombs) : n.tombs[i].size >= 1

\* An intact page has no more cells and tombstones than bytes: no two of them
\* start at the same one.
LEMMA ItemsBounded ==
  ASSUME NEW n \in PageType, Intact(n), TombsUsed(n)
  PROVE  Len(n.cells) + Len(n.tombs) <= NODE_SIZE
  <1> DEFINE s == n.cells
             a == Len(s)
             ts == n.tombs
             m == Len(ts)
             h == hdr_offset_limit(n)
             f == [i \in 1 .. a + m |-> IF i <= a THEN s[i].off ELSE ts[i - a].off]
             z == [i \in 1 .. a + m |-> IF i <= a THEN used_size(s[i])
                                        ELSE ts[i - a].size]
  <1>1. /\ a \in Nat /\ m \in Nat
        /\ \A i \in 1 .. a : s[i].off \in Int /\ used_size(s[i]) \in Nat
        /\ \A i \in 1 .. m : ts[i].off \in Int /\ ts[i].size \in Nat
    <2>1. /\ \A c \in CellType : c.off \in Int /\ used_size(c) \in Nat
          /\ \A t \in TombType : t.off \in Int /\ t.size \in Nat
      BY CellNumbers, TombNumbers
    <2> QED
      BY <2>1, PageFields
  <1>2. \A i \in 1 .. a : used_size(s[i]) >= 1
    <2>1. \A c \in CellType : used_size(c) >= 1
      BY Constants DEF CellType, Key, used_size
    <2> QED
      BY <2>1, PageFields
  <1>3. \A i \in 1 .. m : ts[i].size >= 1
    BY DEF TombsUsed
  <1>4. /\ \A i, j \in 1 .. a : i # j =>
              Apart(s[i].off, used_size(s[i]), s[j].off, used_size(s[j]))
        /\ \A i \in 1 .. a : h <= s[i].off /\ s[i].off + used_size(s[i]) <= NODE_SIZE
        /\ \A i \in 1 .. m : h <= ts[i].off /\ ts[i].off + ts[i].size <= NODE_SIZE
        /\ \A i, j \in 1 .. m : i # j =>
              Apart(ts[i].off, ts[i].size, ts[j].off, ts[j].size)
        /\ \A i \in 1 .. m, j \in 1 .. a :
              Apart(ts[i].off, ts[i].size, s[j].off, used_size(s[j]))
    BY IntactFacts
  <1>5. h \in Nat /\ NODE_SIZE \in Nat
    BY HdrType, Constants
  <1> HIDE DEF s, a, ts, m, h
  <1>6. ASSUME NEW i \in 1 .. a + m
        PROVE  \/ i \in 1 .. a /\ f[i] = s[i].off /\ z[i] = used_size(s[i])
               \/ /\ i - a \in 1 .. m /\ i \notin 1 .. a
                  /\ f[i] = ts[i - a].off /\ z[i] = ts[i - a].size
    <2>1. CASE i <= a
      BY <1>1, <2>1
    <2>2. CASE ~(i <= a)
      BY <1>1, <2>2
    <2> QED
      BY <2>1, <2>2
  <1>7. DOMAIN f = 1 .. a + m /\ f = [i \in 1 .. a + m |-> f[i]]
    OBVIOUS
  <1> HIDE DEF f, z
  <1>8. ASSUME NEW i \in 1 .. a + m
        PROVE  /\ f[i] \in Int /\ z[i] \in Nat /\ z[i] >= 1
               /\ h <= f[i] /\ f[i] + z[i] <= NODE_SIZE
    BY <1>1, <1>2, <1>3, <1>4, <1>6
  <1>9. ASSUME NEW i \in 1 .. a + m, NEW j \in 1 .. a + m, i # j
        PROVE  Apart(f[i], z[i], f[j], z[j])
    <2>1. CASE i \in 1 .. a /\ j \in 1 .. a
      <3>1. Apart(s[i].off, used_size(s[i]), s[j].off, used_size(s[j]))
        BY <1>4, <1>9, <2>1
      <3> QED
        BY <1>6, <2>1, <3>1
    <2>2. CASE i \in 1 .. a /\ j \notin 1 .. a
      <3>1. j - a \in 1 .. m /\ f[j] = ts[j - a].off /\ z[j] = ts[j - a].size
        BY <1>6, <2>2
      <3>2. f[i] = s[i].off /\ z[i] = used_size(s[i])
        BY <1>6, <2>2
      <3>3. Apart(f[j], z[j], f[i], z[i])
        BY <1>4, <2>2, <3>1, <3>2
      <3> QED
        BY <1>8, <3>3, ApartSymmetric
    <2>3. CASE i \notin 1 .. a /\ j \in 1 .. a
      <3>1. i - a \in 1 .. m /\ f[i] = ts[i - a].off /\ z[i] = ts[i - a].size
        BY <1>6, <2>3
      <3>2. f[j] = s[j].off /\ z[j] = used_size(s[j])
        BY <1>6, <2>3
      <3> QED
        BY <1>4, <2>3, <3>1, <3>2
    <2>4. CASE i \notin 1 .. a /\ j \notin 1 .. a
      <3>1. /\ i - a \in 1 .. m /\ f[i] = ts[i - a].off /\ z[i] = ts[i - a].size
            /\ j - a \in 1 .. m /\ f[j] = ts[j - a].off /\ z[j] = ts[j - a].size
        BY <1>6, <2>4
      <3>2. i - a # j - a
        BY <1>1, <1>9
      <3> QED
        BY <1>4, <3>1, <3>2
    <2> QED
      BY <2>1, <2>2, <2>3, <2>4
  <1>10. ASSUME NEW i \in 1 .. a + m, NEW j \in 1 .. a + m, i # j
         PROVE  f[i] # f[j]
    <2>1. Apart(f[i], z[i], f[j], z[j])
      BY <1>9, <1>10
    <2> QED
      BY <1>8, <2>1 DEF Apart
  <1>11. f \in [1 .. a + m -> 0 .. NODE_SIZE - 1]
    <2>1. \A i \in 1 .. a + m : f[i] \in 0 .. NODE_SIZE - 1
      BY <1>5, <1>8
    <2> QED
      BY <1>7, <2>1
  <1>12. /\ IsFiniteSet(1 .. a + m) /\ Cardinality(1 .. a + m) = a + m
         /\ IsFiniteSet(0 .. NODE_SIZE - 1)
         /\ Cardinality(0 .. NODE_SIZE - 1) = NODE_SIZE
    <2>1. a + m \in Int /\ NODE_SIZE - 1 \in Int
      BY <1>1, <1>5
    <2>2. /\ IsFiniteSet(1 .. a + m)
          /\ Cardinality(1 .. a + m) = IF 1 > a + m THEN 0 ELSE (a + m) - 1 + 1
          /\ IsFiniteSet(0 .. NODE_SIZE - 1)
          /\ Cardinality(0 .. NODE_SIZE - 1)
               = IF 0 > NODE_SIZE - 1 THEN 0 ELSE (NODE_SIZE - 1) - 0 + 1
      BY <2>1, FS_Interval
    <2> QED
      BY <1>1, <1>5, <2>2
  <1>13. ASSUME ~(a + m <= NODE_SIZE) PROVE FALSE
    <2>1. Cardinality(0 .. NODE_SIZE - 1) < Cardinality(1 .. a + m)
      BY <1>1, <1>5, <1>12, <1>13
    <2>2. \E i, j \in 1 .. a + m : i # j /\ f[i] = f[j]
      BY <1>11, <1>12, <2>1, FS_PigeonHole
    <2> QED
      BY <1>10, <2>2
  <1> QED
    BY <1>13 DEF s, a, ts, m

\* A cell for which an intact page is not full is not larger than the page.
LEMMA RoomFits ==
  ASSUME NEW n \in PageType, Intact(n), n.cell_offset <= NODE_SIZE,
         hdr_offset_limit(n) <= n.cell_offset,
         NEW k \in Nat, NEW v \in Nat, ~node_is_full(n, k, v)
  PROVE  new_cell_size(k, v) <= NODE_SIZE
  <1> DEFINE size == new_cell_size(k, v)
             ts == n.tombs
             h == hdr_offset_limit(n)
  <1>1. size \in Nat /\ h \in Nat /\ n.cell_offset \in Int /\ NODE_SIZE \in Nat
    BY NewCellSize, HdrType, PageFields, Constants
  <1>2. in_gap(n, size) \/ \E t \in Range(ts) : ~(t.size < size)
    BY DEF node_is_full
  <1> HIDE DEF size
  <1>3. CASE in_gap(n, size)
    <2>1. n.cell_offset - h \in 0 .. U32 - 1
      BY <1>1, Constants
    <2>2. (n.cell_offset - h) % U32 = n.cell_offset - h
      BY <2>1, Constants
    <2>3. n.cell_offset - h >= size
      BY <1>3, <2>2 DEF in_gap, free_space
    <2>4. size <= NODE_SIZE
      BY <1>1, <2>3
    <2> QED
      BY <2>4 DEF size
  <1>4. CASE \E t \in Range(ts) : ~(t.size < size)
    <2>1. PICK i \in 1 .. Len(ts) : ~(ts[i].size < size)
      BY <1>4, PageFields DEF Range
    <2>2. h <= ts[i].off /\ ts[i].off + ts[i].size <= NODE_SIZE
      BY IntactFacts
    <2>3. ts[i].off \in Int /\ ts[i].size \in Nat
      <3>1. ts[i] \in TombType
        BY PageFields
      <3> QED
        BY <3>1, TombNumbers
    <2> HIDE DEF h
    <2>4. size <= NODE_SIZE
      BY <1>1, <2>1, <2>2, <2>3
    <2> QED
      BY <2>4 DEF size
  <1> QED
    BY <1>2, <1>3, <1>4

\* What the counter and the live cells have together: each cell and tombstone
\* stands for at most a page of it.  Reuse leaks bytes, but not more than it got.
Budget(n) ==
  n.tombstone_bytes + Live(n.cells)
    <= (Len(n.cells) + Len(n.tombs)) * NODE_SIZE

CountInv ==
  /\ TombsUsed(node)
  /\ Offered(node.tombs) <= node.tombstone_bytes
  /\ Budget(node)

\* An insertion keeps it: what is taken from the counter was in the list.
LEMMA InsertCounts ==
  ASSUME IndInv, CountInv, NEW key \in Keys, NEW v \in ValueSizes, insert(key, v)
  PROVE  CountInv'
  <1> DEFINE size == new_cell_size(Len(key), v)
             s == node.cells
             u == node'.cells
             n == Len(s)
             ts == node.tombs
             m == Len(ts)
             tp == node'.tombs
             tb == node.tombstone_bytes
             tbp == node'.tombstone_bytes
             mt == take_free_offset(node, Len(key), v)
             reused == ~in_gap(node, size) /\ fits_tombstone(node, size)
  <1>1. /\ node \in PageType /\ Sorted(s) /\ Intact(node)
        /\ hdr_offset_limit(node) <= node.cell_offset
        /\ node.cell_offset <= NODE_SIZE
    BY DEF IndInv, GapInv, insert
  <1>2. PICK p \in 1 .. n + 1, c \in CellType :
           /\ c = Cell(node_get_free_offset(node, Len(key), v), key, v, NULL)
           /\ u = InsertAt(s, p, c)
           /\ tp = mt.tombs
           /\ tbp = mt.tombstone_bytes
           /\ node' \in PageType
    BY <1>1, InsertEffect
  <1>3. Len(key) \in Nat /\ v \in Nat
    BY Inputs DEF Key
  <1>4. size \in Nat /\ size <= NODE_SIZE
    <2>1. ~node_is_full(node, Len(key), v)
      BY DEF insert
    <2> QED
      BY <1>1, <1>3, <2>1, NewCellSize, RoomFits
  <1>5. used_size(c) \in Nat /\ used_size(c) <= size
    <2>1. c.key = key /\ c.value_size = v
      BY <1>2 DEF Cell
    <2>2. sizeof_cell + Len(key) + v <= size
      BY <1>3, NewCellSize
    <2> QED
      BY <2>1, <2>2, CellNumbers DEF used_size
  <1>6. /\ s \in Seq(CellType) /\ n \in Nat /\ ts \in Seq(TombType) /\ m \in Nat
        /\ tb \in 0 .. U32 - 1 /\ \A i \in 1 .. m : ts[i] \in TombType
    BY <1>1, PageFields
  <1>7. /\ tp = IF reused THEN remainder(ts[1], size) \o Tail(ts) ELSE ts
        /\ tbp = IF reused THEN (tb - size) % U32 ELSE tb
    BY <1>1, <1>2, <1>3, TakenEffect
  <1>8. Len(u) = n + 1 /\ Live(u) = Live(s) + used_size(c)
    <2>1. Live(InsertAt(s, p, c)) = Live(s) + used_size(c)
      BY <1>6, LiveInserted
    <2>2. Len(InsertAt(s, p, c)) = n + 1
      BY <1>6, TuplesInserted
    <2> QED
      BY <1>2, <2>1, <2>2
  <1>9. Live(s) \in Nat /\ Offered(ts) \in Nat
    BY <1>6, LiveNumbers, OfferedNumbers
  <1>10. /\ \A i \in 1 .. m : ts[i].size >= 1
         /\ Offered(ts) <= tb
         /\ tb + Live(s) <= (n + m) * NODE_SIZE
    BY DEF CountInv, TombsUsed, Budget
  <1>11. NODE_SIZE \in Nat /\ U32 \in Nat \ {0} /\ sizeof_cell \in Nat
    BY Constants
  <1>12. SUFFICES /\ \A i \in 1 .. Len(tp) : tp[i].size >= 1
                  /\ Offered(tp) <= tbp
                  /\ tbp + Live(u) <= (Len(u) + Len(tp)) * NODE_SIZE
    BY DEF CountInv, TombsUsed, Budget
  <1> HIDE DEF size, s, u, n, ts, m, tp, tb, tbp, mt, reused
  <1>13. (n + 1 + m) * NODE_SIZE = (n + m) * NODE_SIZE + NODE_SIZE
         /\ (n + m) * NODE_SIZE \in Int
    BY <1>6, <1>11
  <1>14. CASE ~reused
    <2>1. tp = ts /\ tbp = tb
      BY <1>7, <1>14
    <2>2. tb + Live(u) <= (n + 1 + m) * NODE_SIZE
      BY <1>4, <1>5, <1>6, <1>8, <1>9, <1>10, <1>11, <1>13
    <2>3. \A i \in 1 .. Len(tp) : tp[i].size >= 1
      BY <1>10, <2>1 DEF m
    <2>4. Len(tp) = m
      BY <2>1 DEF m
    <2> QED
      BY <1>8, <1>10, <2>1, <2>2, <2>3, <2>4
  <1>15. CASE reused
    <2>1. ts # << >> /\ size <= ts[1].size
      BY <1>15 DEF reused, fits_tombstone, ts
    <2>2. /\ ts[1] \in TombType /\ ts[1].size \in Nat /\ m >= 1
          /\ Tail(ts) \in Seq(TombType) /\ Len(Tail(ts)) = m - 1
          /\ \A i \in 1 .. m - 1 : Tail(ts)[i] = ts[i + 1]
      <3>1. /\ ts[1] \in TombType /\ m >= 1
            /\ Tail(ts) \in Seq(TombType) /\ Len(Tail(ts)) = m - 1
            /\ \A i \in 1 .. m - 1 : Tail(ts)[i] = ts[i + 1]
        BY <1>6, <2>1 DEF m
      <3> QED
        BY <3>1, TombNumbers
    <2>3. /\ Offered(ts) = ts[1].size + Offered(Tail(ts))
          /\ Offered(Tail(ts)) \in Nat
      BY <1>6, <2>1, <2>2, OfferedTail, OfferedNumbers
    <2>4. tbp = tb - size
      <3>1. tb - size \in 0 .. U32 - 1
        BY <1>4, <1>6, <1>9, <1>10, <1>11, <2>1, <2>2, <2>3
      <3>2. (tb - size) % U32 = tb - size
        BY <1>11, <3>1
      <3> QED
        BY <1>7, <1>15, <3>2
    <2>5. tbp + Live(u) <= (n + m) * NODE_SIZE
      BY <1>4, <1>5, <1>6, <1>8, <1>9, <1>10, <1>13, <2>4
    <2>6. \A i \in 1 .. m - 1 : Tail(ts)[i].size >= 1
      <3>1. \A i \in 1 .. m - 1 : i + 1 \in 1 .. m
        BY <1>6
      <3> QED
        BY <1>10, <2>2, <3>1
    <2>7. CASE remainder(ts[1], size) = << >>
      <3>1. tp = Tail(ts)
        BY <1>7, <1>15, <2>2, <2>7
      <3>2. Len(tp) = m - 1 /\ Len(u) + Len(tp) = n + m
        <4>1. Len(tp) = m - 1 /\ Len(u) = n + 1
          BY <1>8, <2>2, <3>1
        <4> QED
          BY <1>6, <4>1
      <3>3. Offered(tp) <= tbp
        BY <1>4, <1>6, <1>9, <1>10, <2>1, <2>2, <2>3, <2>4, <3>1
      <3> QED
        BY <2>5, <2>6, <3>1, <3>2, <3>3
    <2>8. ASSUME NEW r \in TombType, remainder(ts[1], size) = <<r>>,
                 r.size = ts[1].size - size - sizeof_cell
          PROVE  /\ \A i \in 1 .. Len(tp) : tp[i].size >= 1
                 /\ Offered(tp) <= tbp
                 /\ tbp + Live(u) <= (Len(u) + Len(tp)) * NODE_SIZE
      <3>1. tp = <<r>> \o Tail(ts)
        BY <1>7, <1>15, <2>8
      <3>2. /\ Len(tp) = m /\ tp[1] = r
            /\ \A i \in 2 .. m : tp[i] = Tail(ts)[i - 1]
        BY <1>6, <2>2, <3>1
      <3>3. Offered(tp) = r.size + Offered(Tail(ts))
        BY <2>2, <3>1, OfferedCons
      <3>4. Offered(tp) <= tbp
        BY <1>4, <1>6, <1>9, <1>10, <1>11, <2>1, <2>2, <2>3, <2>4, <2>8, <3>3,
           SMTT(30)
      <3>5. r.size >= 1
        <4>1. ts[1].size - size > ALIGN(sizeof_cell, sizeof_ptr)
          BY <2>8 DEF remainder
        <4>2. /\ ALIGN(sizeof_cell, sizeof_ptr) \in Nat
              /\ sizeof_cell <= ALIGN(sizeof_cell, sizeof_ptr)
          BY AlignUp, Constants
        <4> QED
          BY <1>4, <1>11, <2>2, <2>8, <4>1, <4>2
      <3>6. ASSUME NEW i \in 1 .. m PROVE tp[i].size >= 1
        <4>1. CASE i = 1
          BY <3>2, <3>5, <4>1
        <4>2. CASE i # 1
          <5>1. i \in 2 .. m /\ i - 1 \in 1 .. m - 1
            BY <1>6, <4>2
          <5> QED
            BY <2>6, <3>2, <5>1
        <4> QED
          BY <4>1, <4>2
      <3>7. tbp + Live(u) <= (n + 1 + m) * NODE_SIZE
        <4>1. tbp + Live(u) \in Int
          BY <1>4, <1>5, <1>6, <1>8, <1>9, <2>4
        <4> QED
          BY <1>11, <1>13, <2>5, <4>1
      <3> QED
        BY <1>8, <3>2, <3>4, <3>6, <3>7
    <2> QED
      BY <1>4, <2>1, <2>2, <2>7, <2>8, RemainderType
  <1> QED
    BY <1>14, <1>15

\* A deletion keeps it: the counter has room for the bytes of the cell, which
\* were in the budget while it was live.
LEMMA DeleteCounts ==
  ASSUME IndInv, CountInv, NEW key \in Keys, node_delete_key(key)
  PROVE  CountInv'
  <1> DEFINE s == node.cells
             u == node'.cells
             n == Len(s)
             ts == node.tombs
             m == Len(ts)
             tp == node'.tombs
             tb == node.tombstone_bytes
             tbp == node'.tombstone_bytes
  <1>1. node \in PageType /\ Sorted(s) /\ Intact(node)
    BY DEF IndInv, node_delete_key
  <1>2. PICK p \in 1 .. n, t \in TombType :
           /\ s[p] \in CellType
           /\ u = RemoveAt(s, p)
           /\ t.size = used_size(s[p])
           /\ tp = <<t>> \o ts
           /\ tbp = (tb + t.size) % U32
    BY <1>1, DeleteEffect
  <1>3. /\ s \in Seq(CellType) /\ n \in Nat /\ ts \in Seq(TombType) /\ m \in Nat
        /\ tb \in 0 .. U32 - 1
    BY <1>1, PageFields
  <1>4. t.size \in Nat /\ t.size >= 1
    <2>1. used_size(s[p]) >= 1
      BY <1>2, Constants DEF CellType, Key, used_size
    <2> QED
      BY <1>2, <2>1, TombNumbers
  <1>5. Len(u) = n - 1 /\ Live(s) = Live(u) + t.size /\ Live(u) \in Nat
    <2>1. Live(s) = Live(RemoveAt(s, p)) + used_size(s[p])
      BY <1>3, LiveRemoved
    <2>2. Len(RemoveAt(s, p)) = n - 1
      BY <1>1, <1>3, TuplesRemoved
    <2>3. RemoveAt(s, p) \in Seq(CellType)
      BY <1>3, Removed
    <2>4. Live(RemoveAt(s, p)) \in Nat
      BY <2>3, LiveNumbers
    <2> QED
      BY <1>2, <2>1, <2>2, <2>4
  <1>6. /\ \A i \in 1 .. m : ts[i].size >= 1
        /\ Offered(ts) <= tb /\ Offered(ts) \in Nat
        /\ tb + Live(s) <= (n + m) * NODE_SIZE
        /\ n + m <= NODE_SIZE
    <2>1. n + m <= NODE_SIZE
      BY <1>1, ItemsBounded DEF CountInv
    <2>2. Offered(ts) \in Nat
      BY <1>3, OfferedNumbers
    <2> QED
      BY <2>1, <2>2 DEF CountInv, TombsUsed, Budget
  <1>7. NODE_SIZE \in Nat /\ U32 \in Nat \ {0} /\ NODE_SIZE * NODE_SIZE < U32
    BY Constants, NodeAssumption DEF NodeAssumption
  <1>8. SUFFICES /\ \A i \in 1 .. Len(tp) : tp[i].size >= 1
                 /\ Offered(tp) <= tbp
                 /\ tbp + Live(u) <= (Len(u) + Len(tp)) * NODE_SIZE
    BY DEF CountInv, TombsUsed, Budget
  <1>9. /\ Len(tp) = m + 1 /\ tp[1] = t
        /\ \A i \in 2 .. m + 1 : tp[i] = ts[i - 1]
    BY <1>2, <1>3
  <1>10. Offered(tp) = t.size + Offered(ts)
    BY <1>2, <1>3, OfferedCons
  <1>11. /\ tb + Live(u) + t.size <= (n + m) * NODE_SIZE
         /\ (n + m) * NODE_SIZE \in Int
    <2> HIDE DEF s, u, n, ts, m, tp, tb, tbp
    <2>1. n + m \in Int /\ tb \in Int
      BY <1>3, <1>7
    <2>2. (n + m) * NODE_SIZE \in Int
      BY <1>7, <2>1
    <2>3. tb + Live(u) + t.size = tb + Live(s)
      BY <1>4, <1>5, <2>1
    <2> QED
      BY <1>6, <2>2, <2>3
  <1> HIDE DEF s, u, n, ts, m, tp, tb, tbp
  <1>12. tbp = tb + t.size
    <2>1. (n + m) * NODE_SIZE <= NODE_SIZE * NODE_SIZE
      <3>1. \A a, b \in Nat : a <= b => a * b <= b * b
        OBVIOUS
      <3> QED
        BY <1>3, <1>6, <1>7, <3>1
    <2>2. NODE_SIZE * NODE_SIZE \in Int
      BY <1>7
    <2>3. tb + t.size \in 0 .. U32 - 1
      <3>1. tb \in Nat
        BY <1>3, <1>7
      <3>2. tb + t.size <= (n + m) * NODE_SIZE
        BY <1>4, <1>5, <1>11, <3>1
      <3>3. tb + t.size < U32
        BY <1>4, <1>7, <1>11, <2>1, <2>2, <3>1, <3>2
      <3> QED
        BY <1>4, <1>7, <3>1, <3>3
    <2>4. (tb + t.size) % U32 = tb + t.size
      BY <1>7, <2>3
    <2> QED
      BY <1>2, <2>4
  <1>13. Offered(tp) <= tbp
    BY <1>3, <1>4, <1>6, <1>10, <1>12
  <1>14. tbp + Live(u) <= (Len(u) + Len(tp)) * NODE_SIZE
    <2>1. Len(u) + Len(tp) = n + m
      BY <1>3, <1>5, <1>9
    <2>2. tbp + Live(u) = tb + Live(u) + t.size
      BY <1>3, <1>4, <1>5, <1>12
    <2> QED
      BY <1>11, <2>1, <2>2
  <1>15. ASSUME NEW i \in 1 .. m + 1 PROVE tp[i].size >= 1
    <2>1. CASE i = 1
      BY <1>4, <1>9, <2>1
    <2>2. CASE i # 1
      <3>1. i \in 2 .. m + 1 /\ i - 1 \in 1 .. m
        BY <1>3, <2>2
      <3> QED
        BY <1>6, <1>9, <3>1
    <2> QED
      BY <2>1, <2>2
  <1> QED
    BY <1>9, <1>13, <1>14, <1>15

\* The counter of tombstone bytes never falls below what the list offers, and
\* never wraps, however long keys are inserted and deleted.
THEOREM CounterCovers == Spec => []TombstonesCounted
  <1>1. Init => CountInv
    <2>1. SUFFICES ASSUME Init PROVE CountInv
      OBVIOUS
    <2>2. node.cells = << >> /\ node.tombs = << >> /\ node.tombstone_bytes = 0
      BY <2>1 DEF Init, node_init
    <2>3. Live(<< >>) = 0 /\ Offered(<< >>) = 0
      <3>1. /\ [i \in DOMAIN << >> |-> used_size(<< >>[i])] = << >>
            /\ [i \in DOMAIN << >> |-> << >>[i].size] = << >>
        OBVIOUS
      <3> QED
        BY <3>1, TotalEmpty DEF Live, Offered
    <2> QED
      BY <2>2, <2>3, Constants DEF CountInv, TombsUsed, Budget
  <1>2. IndInv /\ CountInv /\ [Next]_node => CountInv'
    <2>1. SUFFICES ASSUME IndInv, CountInv, [Next]_node PROVE CountInv'
      OBVIOUS
    <2>2. ASSUME NEW key \in Keys, NEW v \in ValueSizes, insert(key, v)
          PROVE  CountInv'
      BY <2>1, <2>2, InsertCounts
    <2>3. ASSUME NEW key \in Keys, node_delete_key(key)
          PROVE  CountInv'
      BY <2>1, <2>3, DeleteCounts
    <2>4. CASE UNCHANGED node
      BY <2>1, <2>4 DEF CountInv
    <2> QED
      BY <2>1, <2>2, <2>3, <2>4 DEF Next
  <1>3. CountInv => TombstonesCounted
    BY DEF CountInv, Offered, TombstonesCounted
  <1> QED
    BY <1>1, <1>2, <1>3, Inductive, PTL DEF Spec
=============================================================================
