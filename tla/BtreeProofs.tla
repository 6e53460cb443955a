---------------------------- MODULE BtreeProofs -----------------------------
(***************************************************************************)
(* Proofs about module Btree, for pages of any size, any tuples and any    *)
(* sequence of insertions, trees of any depth included.                    *)
(***************************************************************************)
EXTENDS Btree, PageProofs

-----------------------------------------------------------------------------
(* The inductive invariant *)

CrumbType == [node : Nat, new_node : Nat, f_node : Nat, partition_idx : Nat,
              is_full : BOOLEAN]

TypeInv ==
  /\ nodes \in Seq(PageType)
  /\ root \in 1 .. Len(nodes)
  /\ count \in Nat
  /\ pc \in {"idle", "descend", "propagate", "write", "insert", "abort", "wild"}
  /\ pc # "idle" => <<key, value_size>> \in Tuples
  /\ breadcrumbs \in Seq(CrumbType) /\ bc_idx \in Nat /\ leaf_node \in Nat

\* The keys of the tuples in all leaves of ns.
LeafKeys(ns) ==
  {k \in Key : \E q \in 1 .. Len(ns) :
     ns[q].leaf /\ \E j \in 1 .. Len(ns[q].cells) : ns[q].cells[j].key = k}

\* By the heights h, node c is one level below height e.
Below(h, e, c) == c \in DOMAIN h /\ e = h[c] + 1

\* A page at height e above the leaves: its cells are in order; those of an
\* internal node have keys of K, and children of the next level.
PageOk(m, e, h, K) ==
  /\ m \in PageType /\ Ordered(m.cells)
  /\ m.leaf <=> e = 0
  /\ ~m.leaf => /\ \A i \in 1 .. Len(m.cells) :
                     m.cells[i].key \in K /\ Below(h, e, m.cells[i].child)
                /\ m.rightmost # NULL => Below(h, e, m.rightmost)

\* h gives the pages ns their heights.  Every separator is the key of a tuple.
PagesOk(ns, h) ==
  /\ h \in [1 .. Len(ns) -> Nat]
  /\ \A p \in 1 .. Len(ns) : PageOk(ns[p], h[p], h, LeafKeys(ns))

\* The breadcrumbs go down one level at a time.
PathInv(h) ==
  pc # "idle" =>
    /\ Len(breadcrumbs) >= 1
    /\ \A i \in 1 .. Len(breadcrumbs) :
         /\ breadcrumbs[i].node \in DOMAIN h
         /\ h[breadcrumbs[i].node] + i = h[breadcrumbs[1].node] + 1

\* What is known of a breadcrumb that was marked: its sibling is empty and of
\* its level.
Marked(ns, h, bc) ==
  /\ bc.is_full => /\ bc.new_node \in DOMAIN h
                   /\ h[bc.new_node] = h[bc.node]
                   /\ bc.new_node # bc.node
                   /\ ns[bc.new_node].cells = << >>
                   /\ bc.partition_idx < Len(ns[bc.node].cells)
                   /\ bc.f_node \in {bc.node, bc.new_node}
  /\ ~bc.is_full => bc.f_node = bc.node

\* The first breadcrumb that is marked and not yet written.
low == IF pc = "propagate" THEN bc_idx + 1 ELSE bc_idx

\* All from there on are marked, and all behind it are full, down to a leaf.
MarkInv(h) ==
  pc \in {"propagate", "write"} =>
    /\ low \in 1 .. Len(breadcrumbs)
    /\ \A i \in low .. Len(breadcrumbs) : Marked(nodes, h, breadcrumbs[i])
    /\ \A i \in low + 1 .. Len(breadcrumbs) : breadcrumbs[i].is_full
    /\ breadcrumbs[Len(breadcrumbs)].is_full
    /\ h[breadcrumbs[Len(breadcrumbs)].node] = 0
    /\ leaf_node \in {breadcrumbs[Len(breadcrumbs)].node,
                      breadcrumbs[Len(breadcrumbs)].new_node}

\* The tuple goes to a leaf.
LeafInv ==
  pc = "insert" => leaf_node \in 1 .. Len(nodes) /\ nodes[leaf_node].leaf

Shape(h) == PagesOk(nodes, h) /\ PathInv(h) /\ MarkInv(h) /\ LeafInv

IndInv == TypeInv /\ \E h : Shape(h)

-----------------------------------------------------------------------------
(* Types *)

\* What a tuple is.
LEMMA TupleType ==
  ASSUME NEW t \in Tuples
  PROVE  t = <<t[1], t[2]>> /\ t[1] \in Key /\ t[2] \in Nat
  BY BtreeAssumption DEF BtreeAssumption, Key

\* How many pages there are.
LEMMA NodesLen ==
  ASSUME TypeInv
  PROVE  Len(nodes) \in Nat /\ DOMAIN nodes = 1 .. Len(nodes)
         /\ fresh = Len(nodes) + 1
  BY DEF TypeInv, fresh

\* The breadcrumbs.
LEMMA CrumbFields ==
  ASSUME NEW bc \in CrumbType
  PROVE  /\ bc.node \in Nat /\ bc.new_node \in Nat /\ bc.f_node \in Nat
         /\ bc.partition_idx \in Nat /\ bc.is_full \in BOOLEAN
  BY DEF CrumbType

\* The arguments of a call.
LEMMA ArgsType ==
  ASSUME TypeInv, pc # "idle"
  PROVE  key \in Key /\ Len(key) \in Nat /\ value_size \in Nat
  <1>1. <<key, value_size>> \in Tuples
    BY DEF TypeInv
  <1>2. key \in Key /\ value_size \in Nat
    BY <1>1, TupleType
  <1> QED
    BY <1>2 DEF Key

\* The pages, with their heights.
LEMMA PageFacts ==
  ASSUME NEW ns \in Seq(PageType), NEW h, PagesOk(ns, h), NEW p \in 1 .. Len(ns)
  PROVE  /\ Len(ns) \in Nat /\ DOMAIN ns = 1 .. Len(ns) /\ DOMAIN h = 1 .. Len(ns)
         /\ p \in Nat /\ h[p] \in Nat
         /\ PageOk(ns[p], h[p], h, LeafKeys(ns))
         /\ ns[p] \in PageType /\ ns[p].leaf \in BOOLEAN
         /\ ns[p].rightmost \in Nat
         /\ ns[p].cells \in Seq(CellType) /\ Len(ns[p].cells) \in Nat
         /\ DOMAIN ns[p].cells = 1 .. Len(ns[p].cells)
         /\ Ordered(ns[p].cells)
  <1>1. h \in [1 .. Len(ns) -> Nat] /\ PageOk(ns[p], h[p], h, LeafKeys(ns))
    BY DEF PagesOk
  <1>2. ns[p] \in PageType
    OBVIOUS
  <1>3. ns[p].leaf \in BOOLEAN /\ ns[p].rightmost \in Nat
    BY <1>2 DEF PageType
  <1>4. Ordered(ns[p].cells)
    BY <1>1 DEF PageOk
  <1>5. DOMAIN h = 1 .. Len(ns) /\ h[p] \in Nat
    BY <1>1
  <1>6. Len(ns) \in Nat /\ p \in Nat /\ DOMAIN ns = 1 .. Len(ns)
    OBVIOUS
  <1> QED
    BY <1>1, <1>2, <1>3, <1>4, <1>5, <1>6, PageFields

-----------------------------------------------------------------------------
(* Pages that stay sound *)

\* g has the heights of h, and of more pages.
Extends(h, g) == DOMAIN h \subseteq DOMAIN g /\ \A p \in DOMAIN h : g[p] = h[p]

\* More pages and more tuples do no harm.
LEMMA OkMonotone ==
  ASSUME NEW m, NEW e, NEW h, NEW g, Extends(h, g), NEW K, NEW J, K \subseteq J,
         PageOk(m, e, h, K)
  PROVE  PageOk(m, e, g, J)
  BY DEF PageOk, Extends, Below

\* An empty page.
LEMMA EmptyOk ==
  ASSUME NEW leaf \in BOOLEAN, NEW e, leaf <=> e = 0, NEW h, NEW K
  PROVE  PageOk(node_init(leaf), e, h, K)
  <1> DEFINE m == node_init(leaf)
  <1>1. m \in PageType /\ m.leaf = leaf /\ m.cells = << >> /\ m.rightmost = NULL
    BY EmptyPage
  <1> HIDE DEF m
  <1>2. Len(m.cells) = 0
    BY <1>1
  <1>3. PageOk(m, e, h, K)
    BY <1>1, <1>2 DEF PageOk, Ordered
  <1> QED
    BY <1>3 DEF m

\* The half of a page that stays.
LEMMA CutOk ==
  ASSUME NEW n, NEW e, NEW h, NEW K, PageOk(n, e, h, K), NEW p \in 0 .. Len(n.cells)
  PROVE  PageOk(node_cut(n, p), e, h, K)
  <1> DEFINE m == node_cut(n, p)
  <1>1. n \in PageType /\ Len(n.cells) \in Nat
    BY PageFields DEF PageOk
  <1>2. /\ m \in PageType /\ m.leaf = n.leaf /\ m.rightmost = n.rightmost
        /\ Len(m.cells) = p
        /\ \A i \in 1 .. p : m.cells[i] = n.cells[i]
    BY <1>1, CutPage
  <1> HIDE DEF m
  <1>3. \A i \in 1 .. p : i \in 1 .. Len(n.cells)
    BY <1>1
  <1>4. Ordered(m.cells)
    BY <1>2, <1>3 DEF PageOk, Ordered
  <1>5. PageOk(m, e, h, K)
    BY <1>2, <1>3, <1>4 DEF PageOk
  <1> QED
    BY <1>5 DEF m

\* The half that is moved.
LEMMA MovedOk ==
  ASSUME NEW n, NEW e, NEW h, NEW K, PageOk(n, e, h, K),
         NEW p \in 1 .. Len(n.cells) + 1
  PROVE  LET s == SubSeq(n.cells, p, Len(n.cells))
             m == node_of(n.leaf, s)
         IN  /\ PageOk(m, e, h, K) /\ m.rightmost = NULL
             /\ Len(m.cells) = Len(n.cells) + 1 - p
             /\ \A i \in 1 .. Len(n.cells) + 1 - p :
                  /\ m.cells[i].key = n.cells[i + p - 1].key
                  /\ m.cells[i].value_size = n.cells[i + p - 1].value_size
                  /\ m.cells[i].child = n.cells[i + p - 1].child
  <1> DEFINE s == SubSeq(n.cells, p, Len(n.cells))
             m == node_of(n.leaf, s)
             L == Len(n.cells) + 1 - p
  <1>1. n \in PageType /\ n.cells \in Seq(CellType) /\ Len(n.cells) \in Nat
        /\ n.leaf \in BOOLEAN
    BY PageFields DEF PageOk, PageType
  <1>2. L \in Nat /\ \A i \in 1 .. L : i + p - 1 \in 1 .. Len(n.cells)
    BY <1>1
  <1>3. /\ s \in Seq(CellType) /\ Len(s) = L
        /\ \A i \in 1 .. L : s[i] = n.cells[i + p - 1]
    <2>1. s \in Seq(CellType) /\ Len(s) = L
      BY <1>1
    <2>2. ASSUME NEW i \in 1 .. L PROVE s[i] = n.cells[i + p - 1]
      <3>1. s[i] = n.cells[p + i - 1] /\ p + i - 1 = i + p - 1
        BY <1>1
      <3> QED
        BY <3>1
    <2> QED
      BY <2>1, <2>2
  <1> HIDE DEF s
  <1>4. /\ m \in PageType /\ m.leaf = n.leaf /\ m.rightmost = NULL
        /\ Len(m.cells) = L
        /\ \A i \in 1 .. L : /\ m.cells[i].key = n.cells[i + p - 1].key
                             /\ m.cells[i].value_size = n.cells[i + p - 1].value_size
                             /\ m.cells[i].child = n.cells[i + p - 1].child
    <2>1. /\ m \in PageType /\ m.leaf = n.leaf /\ m.rightmost = NULL
          /\ Len(m.cells) = Len(s)
          /\ \A i \in 1 .. Len(s) : /\ m.cells[i].key = s[i].key
                                    /\ m.cells[i].value_size = s[i].value_size
                                    /\ m.cells[i].child = s[i].child
      BY <1>1, <1>3, NewPage
    <2> HIDE DEF m
    <2> QED
      BY <1>3, <2>1
  <1> HIDE DEF m, L
  <1>5. Ordered(m.cells)
    <2>1. ASSUME NEW i \in 1 .. L, NEW j \in 1 .. L, i < j
          PROVE  ~Before(m.cells[j].key, m.cells[i].key)
      <3>1. /\ i + p - 1 \in 1 .. Len(n.cells) /\ j + p - 1 \in 1 .. Len(n.cells)
            /\ i + p - 1 < j + p - 1
        BY <1>1, <1>2, <2>1
      <3> QED
        BY <1>4, <3>1 DEF PageOk, Ordered
    <2> QED
      BY <1>4, <2>1 DEF Ordered
  <1>6. ASSUME ~m.leaf, NEW i \in 1 .. Len(m.cells)
        PROVE  m.cells[i].key \in K /\ Below(h, e, m.cells[i].child)
    BY <1>2, <1>4, <1>6 DEF PageOk
  <1>7. PageOk(m, e, h, K)
    BY <1>4, <1>5, <1>6 DEF PageOk
  <1> QED
    BY <1>4, <1>7 DEF m, s, L

\* A child is exchanged for its sibling.
LEMMA RedirectOk ==
  ASSUME NEW f, NEW e, NEW h, NEW K, PageOk(f, e, h, K), ~f.leaf,
         NEW idx \in 0 .. Len(f.cells), NEW sibling \in Nat, Below(h, e, sibling)
  PROVE  LET r == redirect(f, idx, sibling)
         IN  /\ PageOk(r, e, h, K) /\ ~r.leaf
             /\ Len(r.cells) = Len(f.cells)
             /\ \A i \in 1 .. Len(f.cells) : r.cells[i].key = f.cells[i].key
  <1> DEFINE r == redirect(f, idx, sibling)
  <1>1. f \in PageType /\ f.cells \in Seq(CellType) /\ Len(f.cells) \in Nat
    BY PageFields DEF PageOk
  <1>2. /\ r \in PageType /\ r.leaf = f.leaf /\ Len(r.cells) = Len(f.cells)
        /\ \A i \in 1 .. Len(f.cells) :
             /\ r.cells[i].key = f.cells[i].key
             /\ r.cells[i].child \in {f.cells[i].child, sibling}
        /\ r.rightmost \in {f.rightmost, sibling}
    <2>1. CASE idx < Len(f.cells)
      <3> DEFINE c == [f.cells[idx + 1] EXCEPT !.child = sibling]
                 s == [f.cells EXCEPT ![idx + 1] = c]
      <3>1. r = [f EXCEPT !.cells = s]
        BY <2>1 DEF redirect
      <3>2. idx + 1 \in 1 .. Len(f.cells) /\ f.cells[idx + 1] \in CellType
        BY <1>1, <2>1
      <3>3. c \in CellType /\ c.key = f.cells[idx + 1].key /\ c.child = sibling
        BY <3>2 DEF CellType
      <3> HIDE DEF c
      <3>4. /\ s \in Seq(CellType) /\ Len(s) = Len(f.cells)
            /\ s[idx + 1] = c
            /\ \A i \in 1 .. Len(f.cells) : i # idx + 1 => s[i] = f.cells[i]
        BY <1>1, <3>2, <3>3
      <3> HIDE DEF s, r
      <3>5. r \in PageType /\ r.leaf = f.leaf /\ r.rightmost = f.rightmost
            /\ r.cells = s
        BY <1>1, <3>1, <3>4 DEF PageType
      <3> QED
        BY <3>3, <3>4, <3>5
    <2>2. CASE ~(idx < Len(f.cells))
      <3>1. r = [f EXCEPT !.rightmost = sibling]
        BY <2>2 DEF redirect
      <3> HIDE DEF r
      <3>2. r \in PageType /\ r.leaf = f.leaf /\ r.rightmost = sibling
            /\ r.cells = f.cells
        BY <1>1, <3>1 DEF PageType
      <3> QED
        BY <3>2
    <2> QED
      BY <2>1, <2>2
  <1> HIDE DEF r
  <1>3. Ordered(r.cells)
    BY <1>2 DEF PageOk, Ordered
  <1>4. ASSUME NEW i \in 1 .. Len(r.cells)
        PROVE  r.cells[i].key \in K /\ Below(h, e, r.cells[i].child)
    BY <1>2 DEF PageOk
  <1>5. r.rightmost # NULL => Below(h, e, r.rightmost)
    BY <1>2 DEF PageOk
  <1>6. PageOk(r, e, h, K)
    BY <1>2, <1>3, <1>4, <1>5 DEF PageOk
  <1> QED
    BY <1>2, <1>6 DEF r

\* The page with a new cell at idx.
WithCell(n, idx, k, v, child) ==
  node_insert_cell(take_free_offset(n, Len(k), v), idx,
                   Cell(node_get_free_offset(n, Len(k), v), k, v, child))

\* A cell with key k may come in behind idx cells.
Between(s, idx, k) ==
  /\ \A i \in 1 .. idx : ~Before(k, s[i].key)
  /\ \A i \in idx + 1 .. Len(s) : ~Before(s[i].key, k)

\* Page m is page n with such a cell.
CellIn(m, n, idx, k, v, child) ==
  /\ m \in PageType /\ m.leaf = n.leaf /\ m.rightmost = n.rightmost
  /\ Ordered(m.cells) /\ Len(m.cells) = Len(n.cells) + 1
  /\ m.cells[idx + 1].key = k /\ m.cells[idx + 1].child = child
  /\ m.cells[idx + 1].value_size = v
  /\ \A i \in 1 .. idx : m.cells[i] = n.cells[i]
  /\ \A i \in idx + 2 .. Len(n.cells) + 1 : m.cells[i] = n.cells[i - 1]

\* A cell comes in at the place that a search for its key returns.
LEMMA CellInOk ==
  ASSUME NEW n \in PageType, NEW k \in Key, NEW v \in Nat, NEW child \in Nat,
         NEW idx \in 0 .. Len(n.cells), Ordered(n.cells),
         Between(n.cells, idx, k)
  PROVE  CellIn(WithCell(n, idx, k, v, child), n, idx, k, v, child)
  <1> DEFINE c == Cell(node_get_free_offset(n, Len(k), v), k, v, child)
             m == node_insert_cell(take_free_offset(n, Len(k), v), idx, c)
             p == idx + 1
             s == n.cells
  <1>1. /\ c \in CellType /\ c.key = k /\ c.value_size = v /\ c.child = child
        /\ m \in PageType /\ m.leaf = n.leaf /\ m.rightmost = n.rightmost
        /\ m.cells = InsertAt(n.cells, idx + 1, c)
    BY InsertedPage
  <1>2. s \in Seq(CellType) /\ Len(s) \in Nat
    BY PageFields
  <1>3. p \in 1 .. Len(s) + 1 /\ p - 1 = idx /\ p + 1 = idx + 2
    BY <1>2
  <1> HIDE DEF c, m
  <1>4. \A i \in 1 .. p - 1 : ~Before(c.key, s[i].key)
    BY <1>1, <1>3 DEF Between
  <1>5. \A i \in p .. Len(s) : ~Before(s[i].key, c.key)
    BY <1>1, <1>3 DEF Between
  <1>6. Ordered(s)
    OBVIOUS
  <1> HIDE DEF p, s
  <1>7. Ordered(InsertAt(s, p, c))
    BY <1>1, <1>2, <1>3, <1>4, <1>5, <1>6, InsertOrdered
  <1>8. /\ Len(InsertAt(s, p, c)) = Len(s) + 1 /\ InsertAt(s, p, c)[p] = c
        /\ \A i \in 1 .. p - 1 : InsertAt(s, p, c)[i] = s[i]
        /\ \A i \in p + 1 .. Len(s) + 1 : InsertAt(s, p, c)[i] = s[i - 1]
    <2>1. c \in CellType /\ s \in Seq(CellType) /\ p \in 1 .. Len(s) + 1
      BY <1>1, <1>2, <1>3
    <2> QED
      BY ONLY <2>1, Inserted, SMTT(30)
  <1>9. m.cells = InsertAt(s, p, c)
    BY <1>1 DEF s, p
  <1>10. /\ Ordered(m.cells) /\ Len(m.cells) = Len(s) + 1 /\ m.cells[p] = c
         /\ \A i \in 1 .. idx : m.cells[i] = s[i]
         /\ \A i \in idx + 2 .. Len(s) + 1 : m.cells[i] = s[i - 1]
    BY <1>3, <1>7, <1>8, <1>9
  <1> QED
    BY <1>1, <1>10 DEF c, m, p, s, WithCell, CellIn

\* A separator and the halves it is between come into an internal node.
LEMMA LinkedOk ==
  ASSUME NEW f, NEW e, NEW h, NEW K, PageOk(f, e, h, K), ~f.leaf,
         NEW ckey \in K, ckey \in Key, NEW child \in Nat, Below(h, e, child),
         NEW sibling \in Nat, Below(h, e, sibling)
  PROVE  LET m == linked(f, node_bin_search(f, ckey).idx, ckey, child, sibling)
         IN  PageOk(m, e, h, K) /\ ~m.leaf
  <1> DEFINE at == node_bin_search(f, ckey)
             idx == at.idx
             r == redirect(f, idx, sibling)
             m == WithCell(r, idx, ckey, 0, child)
  <1>1. f \in PageType /\ f.cells \in Seq(CellType) /\ Len(f.cells) \in Nat
        /\ Ordered(f.cells)
    BY PageFields DEF PageOk
  <1>2. Placed(f.cells, ckey, at)
    BY <1>1, SearchPlaces
  <1>3. idx \in 0 .. Len(f.cells)
    BY <1>2 DEF Placed
  <1>4. /\ \A i \in 1 .. idx : ~Before(ckey, f.cells[i].key)
        /\ \A i \in idx + 1 .. Len(f.cells) : ~Before(f.cells[i].key, ckey)
    BY <1>1, <1>2, PlaceBetween
  <1> HIDE DEF at
  <1>5. /\ PageOk(r, e, h, K) /\ ~r.leaf /\ Len(r.cells) = Len(f.cells)
        /\ \A i \in 1 .. Len(f.cells) : r.cells[i].key = f.cells[i].key
    BY <1>3, RedirectOk
  <1> HIDE DEF r
  <1>6. r \in PageType /\ Ordered(r.cells) /\ idx \in 0 .. Len(r.cells)
    BY <1>3, <1>5 DEF PageOk
  <1>7. /\ \A i \in 1 .. idx : ~Before(ckey, r.cells[i].key)
        /\ \A i \in idx + 1 .. Len(r.cells) : ~Before(r.cells[i].key, ckey)
    <2>1. /\ \A i \in 1 .. idx : i \in 1 .. Len(f.cells)
          /\ \A i \in idx + 1 .. Len(f.cells) : i \in 1 .. Len(f.cells)
      BY <1>1, <1>3
    <2> QED
      BY <1>4, <1>5, <2>1
  <1> HIDE DEF idx
  <1>8. /\ m \in PageType /\ m.leaf = r.leaf /\ m.rightmost = r.rightmost
        /\ Ordered(m.cells) /\ Len(m.cells) = Len(r.cells) + 1
        /\ m.cells[idx + 1].key = ckey /\ m.cells[idx + 1].child = child
        /\ \A i \in 1 .. idx : m.cells[i] = r.cells[i]
        /\ \A i \in idx + 2 .. Len(r.cells) + 1 : m.cells[i] = r.cells[i - 1]
    <2>1. Between(r.cells, idx, ckey)
      BY <1>7 DEF Between
    <2> DEFINE none == 0
    <2>2. none \in Nat
      OBVIOUS
    <2> HIDE DEF none
    <2>3. CellIn(WithCell(r, idx, ckey, none, child), r, idx, ckey, none, child)
      BY <1>6, <2>1, <2>2, CellInOk
    <2> QED
      BY <2>3 DEF CellIn, none
  <1> HIDE DEF m
  <1>9. ASSUME NEW i \in 1 .. Len(m.cells)
        PROVE  m.cells[i].key \in K /\ Below(h, e, m.cells[i].child)
    <2>1. \A j \in 1 .. Len(r.cells) :
             r.cells[j].key \in K /\ Below(h, e, r.cells[j].child)
      BY <1>5 DEF PageOk
    <2>2. \/ i = idx + 1
          \/ i \in 1 .. idx /\ i \in 1 .. Len(r.cells)
          \/ i \in idx + 2 .. Len(r.cells) + 1 /\ i - 1 \in 1 .. Len(r.cells)
      BY <1>1, <1>5, <1>6, <1>8
    <2> QED
      BY <1>8, <2>1, <2>2
  <1>10. PageOk(m, e, h, K)
    BY <1>5, <1>8, <1>9 DEF PageOk
  <1>11. m = linked(f, at.idx, ckey, child, sibling)
    BY DEF linked, node_insert_internal_cell, WithCell, m, r, idx
  <1> QED
    BY <1>5, <1>8, <1>10, <1>11 DEF at

\* A tuple comes into a leaf.
LEMMA LeafInOk ==
  ASSUME NEW n, NEW h, NEW K, PageOk(n, 0, h, K), NEW k \in Key, NEW v \in Nat
  PROVE  LET idx == node_bin_search(n, k).idx
             m == node_insert_leaf_cell(n, idx, k, v)
         IN  /\ idx \in 0 .. Len(n.cells)
             /\ PageOk(m, 0, h, K) /\ m.leaf
             /\ Len(m.cells) = Len(n.cells) + 1
             /\ m.cells[idx + 1].key = k /\ m.cells[idx + 1].value_size = v
             /\ \A i \in 1 .. idx : m.cells[i] = n.cells[i]
             /\ \A i \in idx + 2 .. Len(n.cells) + 1 : m.cells[i] = n.cells[i - 1]
  <1> DEFINE at == node_bin_search(n, k)
             idx == at.idx
             m == WithCell(n, idx, k, v, NULL)
  <1>1. n \in PageType /\ n.cells \in Seq(CellType) /\ Len(n.cells) \in Nat
        /\ Ordered(n.cells)
    BY PageFields DEF PageOk
  <1>2. Placed(n.cells, k, at)
    BY <1>1, SearchPlaces
  <1>3. idx \in 0 .. Len(n.cells)
    BY <1>2 DEF Placed
  <1>4. /\ \A i \in 1 .. idx : ~Before(k, n.cells[i].key)
        /\ \A i \in idx + 1 .. Len(n.cells) : ~Before(n.cells[i].key, k)
    BY <1>1, <1>2, PlaceBetween
  <1>5. NULL \in Nat /\ k \in Key /\ v \in Nat
    BY DEF NULL
  <1> HIDE DEF at, idx
  <1>6. /\ m \in PageType /\ m.leaf = n.leaf /\ Ordered(m.cells)
        /\ Len(m.cells) = Len(n.cells) + 1
        /\ m.cells[idx + 1].key = k /\ m.cells[idx + 1].value_size = v
        /\ \A i \in 1 .. idx : m.cells[i] = n.cells[i]
        /\ \A i \in idx + 2 .. Len(n.cells) + 1 : m.cells[i] = n.cells[i - 1]
    <2>1. Between(n.cells, idx, k)
      BY <1>4 DEF Between
    <2>2. CellIn(m, n, idx, k, v, NULL)
      BY <1>1, <1>3, <1>5, <2>1, CellInOk
    <2> QED
      BY <2>2 DEF CellIn
  <1> HIDE DEF m
  <1>7. PageOk(m, 0, h, K) /\ m.leaf
    BY <1>1, <1>6 DEF PageOk
  <1>8. m = node_insert_leaf_cell(n, at.idx, k, v)
    BY DEF node_insert_leaf_cell, WithCell, m, idx
  <1> QED
    BY <1>1, <1>3, <1>6, <1>7, <1>8 DEF idx, at

-----------------------------------------------------------------------------
(* Steps that leave the pages alone *)

\* What is said of the pages alone is said of the new pages.
LEMMA Primed ==
  ASSUME NEW h
  PROVE  /\ PagesOk(nodes, h)' <=> PagesOk(nodes', h)
         /\ \A bc : Marked(nodes, h, bc)' <=> Marked(nodes', h, bc)
  OBVIOUS

\* At first there is an empty leaf.
LEMMA InitHolds == Init => IndInv
  <1>1. SUFFICES ASSUME Init PROVE IndInv
    OBVIOUS
  <1> DEFINE h == [p \in 1 .. 1 |-> 0]
             n == node_init(TRUE)
  <1>2. n \in PageType /\ PageOk(n, 0, h, LeafKeys(nodes))
    BY EmptyPage, EmptyOk
  <1> HIDE DEF n
  <1>3. nodes = <<n>> /\ root = 1 /\ pc = "idle"
    BY <1>1 DEF Init, n
  <1>4. Len(nodes) = 1 /\ nodes[1] = n /\ nodes \in Seq(PageType)
    BY <1>2, <1>3
  <1>5. TypeInv
    <2>1. << >> \in Seq(CrumbType)
      OBVIOUS
    <2>2. breadcrumbs = << >> /\ bc_idx = 0 /\ leaf_node = 0 /\ count = 0
      BY <1>1 DEF Init, NULL
    <2>3. root \in 1 .. Len(nodes)
      BY <1>3, <1>4
    <2> QED
      BY <1>3, <1>4, <2>1, <2>2, <2>3, Zenon DEF TypeInv
  <1>6. PagesOk(nodes, h)
    BY <1>2, <1>4 DEF PagesOk
  <1>7. Shape(h)
    BY <1>3, <1>6 DEF Shape, PathInv, MarkInv, LeafInv
  <1> QED
    BY <1>5, <1>7 DEF IndInv

\* A call begins at the root.
LEMMA CallStep ==
  ASSUME IndInv, NEW t \in Tuples, btree_insert(t[1], t[2])
  PROVE  IndInv'
  <1>1. PICK h : Shape(h)
    BY DEF IndInv
  <1>2. /\ nodes' = nodes /\ root' = root /\ count' = count /\ pc' = "descend"
        /\ key' = t[1] /\ value_size' = t[2] /\ breadcrumbs' = <<Crumb(root)>>
        /\ bc_idx' = bc_idx /\ leaf_node' = leaf_node
    BY DEF btree_insert
  <1>3. TypeInv
    BY DEF IndInv
  <1>4. root \in 1 .. Len(nodes) /\ Len(nodes) \in Nat /\ h \in [1 .. Len(nodes) -> Nat]
    BY <1>1, <1>3, NodesLen DEF TypeInv, Shape, PagesOk
  <1>5. Crumb(root) \in CrumbType /\ Crumb(root).node = root
    BY <1>4 DEF Crumb, CrumbType, NULL
  <1>6. <<key', value_size'>> \in Tuples
    <2>1. t = <<t[1], t[2]>>
      BY TupleType
    <2> QED
      BY <1>2, <2>1, Zenon
  <1>7. breadcrumbs' \in Seq(CrumbType) /\ Len(breadcrumbs') = 1
        /\ breadcrumbs'[1] = Crumb(root)
    BY <1>2, <1>5
  <1>8. TypeInv'
    BY <1>2, <1>3, <1>6, <1>7 DEF TypeInv
  <1>9. PagesOk(nodes, h)'
    BY <1>1, <1>2, Primed DEF Shape
  <1>10. PathInv(h)'
    BY <1>2, <1>4, <1>5, <1>7 DEF PathInv
  <1>11. MarkInv(h)' /\ LeafInv'
    BY <1>2 DEF MarkInv, LeafInv
  <1> QED
    BY <1>8, <1>9, <1>10, <1>11 DEF IndInv, Shape

\* A call ends, refused.
LEMMA RefuseStep ==
  ASSUME IndInv, refuse
  PROVE  IndInv'
  <1>1. PICK h : Shape(h)
    BY DEF IndInv
  <1>2. /\ nodes' = nodes /\ root' = root /\ count' = count /\ pc' = "idle"
        /\ breadcrumbs' = << >> /\ bc_idx' = 0 /\ leaf_node' = 0
    BY DEF refuse, return, NULL
  <1>3. TypeInv'
    BY <1>2 DEF TypeInv, IndInv
  <1>4. PagesOk(nodes, h)'
    BY <1>1, <1>2, Primed DEF Shape
  <1>5. PathInv(h)' /\ MarkInv(h)' /\ LeafInv'
    BY <1>2 DEF PathInv, MarkInv, LeafInv
  <1> QED
    BY <1>3, <1>4, <1>5 DEF IndInv, Shape

\* A call stops where it is.
LEMMA StopStep ==
  ASSUME IndInv, NEW how \in {"abort", "wild"}, stop(how), pc # "idle",
         nodes' = nodes, root' = root, count' = count
  PROVE  IndInv'
  <1>1. PICK h : Shape(h)
    BY DEF IndInv
  <1>2. /\ pc' = how /\ key' = key /\ value_size' = value_size
        /\ breadcrumbs' = breadcrumbs /\ bc_idx' = bc_idx
        /\ leaf_node' = leaf_node
    BY DEF stop, args, locals
  <1>3. TypeInv'
    BY <1>2 DEF TypeInv, IndInv
  <1>4. PagesOk(nodes, h)'
    BY <1>1, Primed DEF Shape
  <1>5. PathInv(h)'
    BY <1>1, <1>2 DEF PathInv, Shape
  <1>6. MarkInv(h)' /\ LeafInv'
    BY <1>2 DEF MarkInv, LeafInv
  <1> QED
    BY <1>3, <1>4, <1>5, <1>6 DEF IndInv, Shape

\* The path of a call, with the heights of its nodes.
LEMMA PathFacts ==
  ASSUME TypeInv, NEW h, Shape(h), pc # "idle"
  PROVE  /\ Len(nodes) \in Nat /\ h \in [1 .. Len(nodes) -> Nat]
         /\ DOMAIN h = 1 .. Len(nodes)
         /\ Len(breadcrumbs) \in Nat /\ Len(breadcrumbs) >= 1
         /\ 1 \in 1 .. Len(breadcrumbs)
         /\ Len(breadcrumbs) \in 1 .. Len(breadcrumbs)
         /\ Last(breadcrumbs) = breadcrumbs[Len(breadcrumbs)]
         /\ \A i \in 1 .. Len(breadcrumbs) :
              /\ breadcrumbs[i] \in CrumbType
              /\ breadcrumbs[i].node \in 1 .. Len(nodes)
              /\ h[breadcrumbs[i].node] \in Nat
              /\ h[breadcrumbs[i].node] + i = h[breadcrumbs[1].node] + 1
  <1>1. Len(nodes) \in Nat /\ h \in [1 .. Len(nodes) -> Nat]
        /\ DOMAIN h = 1 .. Len(nodes)
    BY NodesLen DEF Shape, PagesOk
  <1>2. breadcrumbs \in Seq(CrumbType)
    BY DEF TypeInv
  <1>3. /\ Len(breadcrumbs) >= 1
        /\ \A i \in 1 .. Len(breadcrumbs) :
              /\ breadcrumbs[i].node \in 1 .. Len(nodes)
              /\ h[breadcrumbs[i].node] + i = h[breadcrumbs[1].node] + 1
    BY <1>1 DEF Shape, PathInv
  <1>4. Len(breadcrumbs) \in Nat
        /\ \A i \in 1 .. Len(breadcrumbs) : breadcrumbs[i] \in CrumbType
    BY <1>2
  <1> QED
    BY <1>1, <1>3, <1>4 DEF Last

\* Two nodes of the path: the later one is lower.
LEMMA PathDrops ==
  ASSUME TypeInv, NEW h, Shape(h), pc # "idle",
         NEW i \in 1 .. Len(breadcrumbs), NEW j \in 1 .. Len(breadcrumbs)
  PROVE  h[breadcrumbs[i].node] + i = h[breadcrumbs[j].node] + j
  BY PathFacts

\* The path stays, whatever becomes of the breadcrumbs' other fields.
LEMMA PathKept ==
  ASSUME TypeInv, NEW h, Shape(h), pc # "idle", NEW g, Extends(h, g),
         Len(breadcrumbs') = Len(breadcrumbs),
         \A i \in 1 .. Len(breadcrumbs) : breadcrumbs'[i].node = breadcrumbs[i].node
  PROVE  PathInv(g)'
  <1>1. \A i \in 1 .. Len(breadcrumbs) : breadcrumbs[i].node \in DOMAIN h
    BY PathFacts
  <1> QED
    BY <1>1, PathFacts DEF PathInv, Extends

\* A search of a page ends at one of its cells, or behind the last.
LEMMA PageSearch ==
  ASSUME NEW ns \in Seq(PageType), NEW h, PagesOk(ns, h), NEW p \in 1 .. Len(ns),
         NEW k \in Key
  PROVE  Placed(ns[p].cells, k, node_bin_search(ns[p], k))
  BY PageFacts, SearchPlaces

\* The child that a search leads to is of the next level, if there is one.
LEMMA ChildBelow ==
  ASSUME NEW n, NEW e, NEW h, NEW K, PageOk(n, e, h, K), ~n.leaf, NEW k \in Key
  PROVE  LET child == child_at(n, node_bin_search(n, k).idx)
         IN  child # NULL => Below(h, e, child)
  <1> DEFINE at == node_bin_search(n, k)
             child == child_at(n, at.idx)
  <1>1. n.cells \in Seq(CellType) /\ Len(n.cells) \in Nat /\ Ordered(n.cells)
    BY PageFields DEF PageOk
  <1>2. at.idx \in 0 .. Len(n.cells)
    BY <1>1, SearchPlaces DEF Placed
  <1> HIDE DEF at
  <1>3. CASE at.idx < Len(n.cells)
    <2>1. at.idx + 1 \in 1 .. Len(n.cells)
      BY <1>1, <1>2, <1>3
    <2>2. child = n.cells[at.idx + 1].child
      BY <1>3 DEF child_at, cell_at
    <2>3. Below(h, e, child)
      BY <2>1, <2>2 DEF PageOk
    <2> QED
      BY <2>3 DEF at
  <1>4. CASE ~(at.idx < Len(n.cells))
    <2>1. child = n.rightmost
      BY <1>4 DEF child_at
    <2>2. child # NULL => Below(h, e, child)
      BY <2>1 DEF PageOk
    <2> QED
      BY <2>2 DEF at
  <1> QED
    BY <1>3, <1>4

\* A call goes down to the child that the search leads to.
LEMMA FollowStep ==
  ASSUME IndInv, follow
  PROVE  IndInv'
  <1>1. PICK h : Shape(h)
    BY DEF IndInv
  <1>2. TypeInv /\ pc = "descend" /\ PagesOk(nodes, h) /\ nodes \in Seq(PageType)
    BY <1>1 DEF IndInv, follow, Shape, TypeInv
  <1> DEFINE L == Len(breadcrumbs)
             p == breadcrumbs[L].node
             at == node_bin_search(nodes[p], key)
             child == child_at(nodes[p], at.idx)
  <1>3. /\ L \in Nat /\ L >= 1 /\ here = nodes[p] /\ p \in 1 .. Len(nodes)
        /\ Len(nodes) \in Nat /\ h \in [1 .. Len(nodes) -> Nat]
        /\ DOMAIN h = 1 .. Len(nodes)
        /\ h[p] \in Nat /\ h[p] + L = h[breadcrumbs[1].node] + 1
    BY <1>1, <1>2, PathFacts DEF here
  <1>4. /\ ~nodes[p].leaf
        /\ root' = root /\ count' = count /\ nodes' = nodes
        /\ IF child = NULL
           THEN stop("abort")
           ELSE /\ breadcrumbs' = Append(breadcrumbs, Crumb(child))
                /\ UNCHANGED <<pc, bc_idx, leaf_node, args>>
    BY <1>3, Zenon DEF follow
  <1>5. CASE child = NULL
    BY <1>2, <1>4, <1>5, StopStep
  <1>6. CASE child # NULL
    <2>1. /\ breadcrumbs' = Append(breadcrumbs, Crumb(child)) /\ pc' = "descend"
          /\ bc_idx' = bc_idx /\ leaf_node' = leaf_node
          /\ key' = key /\ value_size' = value_size
      BY <1>2, <1>4, <1>6 DEF args
    <2>2. child \in 1 .. Len(nodes) /\ h[p] = h[child] + 1
      <3>1. PageOk(nodes[p], h[p], h, LeafKeys(nodes)) /\ key \in Key
        BY <1>2, <1>3, PageFacts, ArgsType
      <3> QED
        BY <1>3, <1>4, <1>6, <3>1, ChildBelow DEF Below
    <2> HIDE DEF child, at
    <2>3. Crumb(child) \in CrumbType /\ Crumb(child).node = child
      BY <1>3, <2>2 DEF Crumb, CrumbType, NULL
    <2>4. breadcrumbs \in Seq(CrumbType)
      BY <1>2 DEF TypeInv
    <2>5. /\ breadcrumbs' \in Seq(CrumbType) /\ Len(breadcrumbs') = L + 1
          /\ breadcrumbs'[L + 1] = Crumb(child)
          /\ \A i \in 1 .. L : breadcrumbs'[i] = breadcrumbs[i]
      BY <1>3, <2>1, <2>3, <2>4
    <2>6. TypeInv'
      BY <1>2, <1>4, <2>1, <2>5 DEF TypeInv
    <2>7. PagesOk(nodes, h)'
      BY <1>2, <1>4, Primed
    <2>8. ASSUME NEW i \in 1 .. L + 1
          PROVE  /\ breadcrumbs'[i].node \in DOMAIN h
                 /\ h[breadcrumbs'[i].node] + i = h[breadcrumbs'[1].node] + 1
      <3>1. breadcrumbs'[1] = breadcrumbs[1] /\ h[breadcrumbs[1].node] \in Nat
        BY <1>1, <1>2, <1>3, <2>5, PathFacts
      <3>2. CASE i = L + 1
        <4>1. breadcrumbs'[i].node = child /\ h[child] \in Nat
          BY <1>3, <2>2, <2>3, <2>5, <3>2
        <4>2. h[child] + (L + 1) = h[breadcrumbs[1].node] + 1
          BY <1>3, <2>2, <4>1, <3>1
        <4> QED
          BY <1>3, <2>2, <3>1, <3>2, <4>1, <4>2
      <3>3. CASE i # L + 1
        <4>1. i \in 1 .. L /\ breadcrumbs'[i] = breadcrumbs[i]
          BY <1>3, <2>5, <3>3
        <4> QED
          BY <1>1, <1>2, <1>3, <3>1, <4>1, PathFacts
      <3> QED
        BY <3>2, <3>3
    <2>9. PathInv(h)'
      BY <1>3, <2>5, <2>8 DEF PathInv
    <2>10. MarkInv(h)' /\ LeafInv'
      BY <2>1 DEF MarkInv, LeafInv
    <2> QED
      BY <2>6, <2>7, <2>9, <2>10 DEF IndInv, Shape
  <1> QED
    BY <1>5, <1>6

\* The leaf has room.
LEMMA RoomStep ==
  ASSUME IndInv, leaf_has_room
  PROVE  IndInv'
  <1>1. PICK h : Shape(h)
    BY DEF IndInv
  <1>2. TypeInv /\ pc = "descend"
    BY DEF IndInv, leaf_has_room
  <1> DEFINE L == Len(breadcrumbs)
             p == breadcrumbs[L].node
  <1>3. p \in 1 .. Len(nodes) /\ Last(breadcrumbs) = breadcrumbs[L]
    BY <1>1, <1>2, PathFacts
  <1>4. /\ nodes[p].leaf /\ pc' = "insert" /\ leaf_node' = p
        /\ root' = root /\ count' = count /\ nodes' = nodes
        /\ breadcrumbs' = breadcrumbs /\ bc_idx' = bc_idx
        /\ key' = key /\ value_size' = value_size
    BY <1>3 DEF leaf_has_room, here, args
  <1>5. TypeInv'
    <2>1. p \in Nat
      BY <1>3, <1>2, NodesLen
    <2> QED
      BY <1>2, <1>4, <2>1 DEF TypeInv
  <1>6. PagesOk(nodes, h)'
    BY <1>1, <1>4, Primed DEF Shape
  <1>7. PathInv(h)'
    BY <1>1, <1>2, <1>4 DEF PathInv, Shape
  <1>8. MarkInv(h)' /\ LeafInv'
    BY <1>3, <1>4 DEF MarkInv, LeafInv
  <1> QED
    BY <1>5, <1>6, <1>7, <1>8 DEF IndInv, Shape

\* What is known of the marked breadcrumbs.
LEMMA MarkFacts ==
  ASSUME TypeInv, NEW h, Shape(h), pc \in {"propagate", "write"}
  PROVE  LET L == Len(breadcrumbs) IN
         /\ low \in 1 .. L
         /\ \A i \in low .. L : Marked(nodes, h, breadcrumbs[i])
         /\ \A i \in low + 1 .. L : breadcrumbs[i].is_full
         /\ breadcrumbs[L].is_full
         /\ h[breadcrumbs[L].node] = 0
         /\ leaf_node \in {breadcrumbs[L].node, breadcrumbs[L].new_node}
  BY DEF Shape, MarkInv

\* The topmost node to be written has room.
LEMMA TopStep ==
  ASSUME IndInv, top_has_room
  PROVE  IndInv'
  <1>1. PICK h : Shape(h)
    BY DEF IndInv
  <1>2. TypeInv /\ pc = "propagate"
    BY DEF IndInv, top_has_room
  <1>3. /\ pc' = "write" /\ bc_idx' = bc_idx + 1
        /\ root' = root /\ count' = count /\ nodes' = nodes
        /\ breadcrumbs' = breadcrumbs /\ leaf_node' = leaf_node
        /\ key' = key /\ value_size' = value_size
    BY DEF top_has_room, args
  <1>4. low' = low
    BY <1>2, <1>3 DEF low
  <1>5. TypeInv'
    BY <1>2, <1>3 DEF TypeInv
  <1>6. PagesOk(nodes, h)'
    BY <1>1, <1>3, Primed DEF Shape
  <1>7. PathInv(h)'
    BY <1>1, <1>2, <1>3 DEF PathInv, Shape
  <1>8. MarkInv(h)'
    BY <1>1, <1>2, <1>3, <1>4, Primed DEF MarkInv, Shape
  <1>9. LeafInv'
    BY <1>3 DEF LeafInv
  <1> QED
    BY <1>5, <1>6, <1>7, <1>8, <1>9 DEF IndInv, Shape

\* The node that the call is at while it goes up, and the one below it.
LEMMA UpFacts ==
  ASSUME TypeInv, NEW h, Shape(h), pc = "propagate", more_up
  PROVE  /\ bc_idx \in 1 .. Len(breadcrumbs) - 1
         /\ bc_idx + 1 \in 1 .. Len(breadcrumbs)
         /\ bc_idx \in 1 .. Len(breadcrumbs)
         /\ low = bc_idx + 1
         /\ breadcrumbs[bc_idx].node \in 1 .. Len(nodes)
         /\ breadcrumbs[bc_idx + 1].node \in 1 .. Len(nodes)
         /\ breadcrumbs[bc_idx + 1].is_full
         /\ Marked(nodes, h, breadcrumbs[bc_idx + 1])
         /\ h[breadcrumbs[bc_idx].node] = h[breadcrumbs[bc_idx + 1].node] + 1
         /\ ~nodes[breadcrumbs[bc_idx].node].leaf
  <1> DEFINE L == Len(breadcrumbs)
  <1>1. bc_idx >= 1 /\ breadcrumbs[bc_idx + 1].is_full
    BY DEF more_up
  <1>2. low = bc_idx + 1 /\ bc_idx \in Nat /\ L \in Nat
    BY PathFacts DEF low, TypeInv
  <1>3. low \in 1 .. L /\ \A i \in low .. L : Marked(nodes, h, breadcrumbs[i])
    BY MarkFacts
  <1>4. bc_idx \in 1 .. L - 1 /\ bc_idx + 1 \in 1 .. L /\ bc_idx \in 1 .. L
        /\ bc_idx + 1 \in low .. L
    BY <1>1, <1>2, <1>3
  <1>5. /\ breadcrumbs[bc_idx].node \in 1 .. Len(nodes)
        /\ breadcrumbs[bc_idx + 1].node \in 1 .. Len(nodes)
        /\ h[breadcrumbs[bc_idx].node] \in Nat
        /\ h[breadcrumbs[bc_idx + 1].node] \in Nat
    BY <1>4, PathFacts
  <1>6. h[breadcrumbs[bc_idx].node] = h[breadcrumbs[bc_idx + 1].node] + 1
    <2> DEFINE x == h[breadcrumbs[bc_idx].node]
               y == h[breadcrumbs[bc_idx + 1].node]
    <2>1. x \in Nat /\ y \in Nat /\ bc_idx \in Nat /\ x + bc_idx = y + (bc_idx + 1)
      BY <1>2, <1>4, <1>5, PathDrops
    <2> HIDE DEF x, y
    <2>2. x = y + 1
      BY <2>1
    <2> QED
      BY <2>2 DEF x, y
  <1>7. ~nodes[breadcrumbs[bc_idx].node].leaf
    <2>1. h[breadcrumbs[bc_idx].node] # 0
      BY <1>5, <1>6
    <2>2. PageOk(nodes[breadcrumbs[bc_idx].node], h[breadcrumbs[bc_idx].node], h,
                 LeafKeys(nodes))
      BY <1>5 DEF Shape, PagesOk
    <2> QED
      BY <2>1, <2>2 DEF PageOk
  <1> QED
    BY <1>1, <1>2, <1>3, <1>4, <1>5, <1>6, <1>7

\* A breadcrumb is replaced.
LEMMA Recrumbed ==
  ASSUME TypeInv, NEW i \in 1 .. Len(breadcrumbs), NEW bc \in CrumbType,
         breadcrumbs' = [breadcrumbs EXCEPT ![i] = bc]
  PROVE  /\ breadcrumbs' \in Seq(CrumbType)
         /\ Len(breadcrumbs') = Len(breadcrumbs)
         /\ breadcrumbs'[i] = bc
         /\ \A j \in 1 .. Len(breadcrumbs) : j # i => breadcrumbs'[j] = breadcrumbs[j]
  BY DEF TypeInv

\* What holds of marked breadcrumbs stays while pages are only added.
LEMMA MarkedKept ==
  ASSUME NEW ns, NEW ms, NEW h, NEW g, Extends(h, g), NEW bc, Marked(ns, h, bc),
         bc.node \in DOMAIN h, \A p \in DOMAIN h : ms[p] = ns[p]
  PROVE  Marked(ms, g, bc)
  BY DEF Marked, Extends

\* One more breadcrumb is marked on the way up.
LEMMA MarkedUp ==
  ASSUME TypeInv, NEW h, Shape(h), pc = "propagate", more_up,
         pc' = "propagate", bc_idx' = bc_idx - 1, leaf_node' = leaf_node,
         NEW g, Extends(h, g), \A p \in DOMAIN h : nodes'[p] = nodes[p],
         NEW bc \in CrumbType, bc.node = breadcrumbs[bc_idx].node,
         Marked(nodes', g, bc),
         breadcrumbs' = [breadcrumbs EXCEPT ![bc_idx] = bc]
  PROVE  PathInv(g)' /\ MarkInv(g)' /\ LeafInv'
         /\ breadcrumbs' \in Seq(CrumbType)
  <1> DEFINE L == Len(breadcrumbs)
             b == bc_idx
  <1>1. /\ b \in 1 .. L - 1 /\ b \in 1 .. L /\ low = b + 1 /\ L \in Nat
        /\ breadcrumbs[b + 1].is_full
        /\ \A i \in 1 .. L : breadcrumbs[i].node \in DOMAIN h
    BY UpFacts, PathFacts
  <1>2. /\ breadcrumbs' \in Seq(CrumbType) /\ Len(breadcrumbs') = L
        /\ breadcrumbs'[b] = bc
        /\ \A j \in 1 .. L : j # b => breadcrumbs'[j] = breadcrumbs[j]
    BY <1>1, Recrumbed
  <1>3. \A j \in 1 .. L : breadcrumbs'[j].node = breadcrumbs[j].node
    BY <1>2
  <1>4. PathInv(g)'
    BY <1>2, <1>3, PathKept
  <1>5. /\ \A i \in low .. L : Marked(nodes, h, breadcrumbs[i])
        /\ \A i \in low + 1 .. L : breadcrumbs[i].is_full
        /\ breadcrumbs[L].is_full
        /\ h[breadcrumbs[L].node] = 0
        /\ leaf_node \in {breadcrumbs[L].node, breadcrumbs[L].new_node}
    BY MarkFacts
  <1>6. low' = b
    BY <1>1 DEF low
  <1>7. breadcrumbs'[L] = breadcrumbs[L] /\ L \in 1 .. L
    <2>1. L \in 1 .. L /\ L # b
      BY <1>1
    <2> QED
      BY <1>2, <2>1
  <1>8. ASSUME NEW i \in b .. L PROVE Marked(nodes', g, breadcrumbs'[i])
    <2>1. CASE i = b
      BY <1>2, <2>1
    <2>2. CASE i # b
      <3>1. i \in low .. L /\ i \in 1 .. L
        BY <1>1, <2>2
      <3>2. Marked(nodes', g, breadcrumbs[i])
        BY <1>1, <1>5, <3>1, MarkedKept
      <3> QED
        BY <1>2, <2>2, <3>1, <3>2
    <2> QED
      BY <2>1, <2>2
  <1>9. ASSUME NEW i \in b + 1 .. L PROVE breadcrumbs'[i].is_full
    <2>1. i \in 1 .. L /\ i # b /\ (i = b + 1 \/ i \in low + 1 .. L)
      BY <1>1
    <2> QED
      BY <1>1, <1>2, <1>5, <2>1
  <1>10. g[breadcrumbs[L].node] = 0
    BY <1>1, <1>5, <1>7 DEF Extends
  <1>11. MarkInv(g)'
    BY <1>1, <1>2, <1>5, <1>6, <1>7, <1>8, <1>9, <1>10, Primed DEF MarkInv
  <1>12. LeafInv'
    BY DEF LeafInv
  <1> QED
    BY <1>2, <1>4, <1>11, <1>12

\* A node on the way up has room for the separator.
LEMMA MarkRoomStep ==
  ASSUME IndInv, mark_room
  PROVE  IndInv'
  <1>1. PICK h : Shape(h)
    BY DEF IndInv
  <1>2. TypeInv /\ pc = "propagate" /\ more_up /\ nodes \in Seq(PageType)
        /\ PagesOk(nodes, h)
    BY <1>1 DEF IndInv, mark_room, TypeInv, Shape
  <1> DEFINE b == bc_idx
             pid == breadcrumbs[b].node
             bc == [node |-> pid, new_node |-> NULL, f_node |-> pid,
                    partition_idx |-> node_partition_idx(nodes[pid]),
                    is_full |-> FALSE]
  <1>3. pid \in 1 .. Len(nodes) /\ b \in Nat /\ b >= 1
    BY <1>1, <1>2, UpFacts DEF TypeInv, more_up
  <1>4. /\ breadcrumbs' = [breadcrumbs EXCEPT ![b] = bc]
        /\ bc_idx' = b - 1
        /\ root' = root /\ count' = count /\ nodes' = nodes /\ pc' = "propagate"
        /\ leaf_node' = leaf_node /\ key' = key /\ value_size' = value_size
    BY <1>2 DEF mark_room, args
  <1>5. bc \in CrumbType /\ bc.node = pid /\ bc.f_node = pid /\ ~bc.is_full
    <2>1. node_partition_idx(nodes[pid]) \in Nat
      BY <1>2, <1>3, PageFacts, PartitionRange
    <2>2. pid \in Nat
      BY <1>2, <1>3, PageFacts
    <2> QED
      BY <2>1, <2>2 DEF CrumbType, NULL
  <1> HIDE DEF bc
  <1>6. Marked(nodes', h, bc) /\ Extends(h, h)
    BY <1>5 DEF Marked, Extends
  <1>7. PathInv(h)' /\ MarkInv(h)' /\ LeafInv' /\ breadcrumbs' \in Seq(CrumbType)
    BY <1>1, <1>2, <1>4, <1>5, <1>6, MarkedUp
  <1>8. TypeInv'
    <2>1. b - 1 \in Nat
      BY <1>3
    <2> QED
      BY <1>2, <1>4, <1>7, <2>1 DEF TypeInv
  <1>9. PagesOk(nodes, h)'
    BY <1>2, <1>4, Primed
  <1> QED
    BY <1>7, <1>8, <1>9 DEF IndInv, Shape

-----------------------------------------------------------------------------
(* Steps that add a page *)

\* Keys of leaves are keys of leaves as long as their pages are kept.
LEMMA KeysKept ==
  ASSUME NEW ns, NEW ms, Len(ns) \in Nat, Len(ms) \in Nat, Len(ns) <= Len(ms),
         \A p \in 1 .. Len(ns) : ms[p] = ns[p]
  PROVE  LeafKeys(ns) \subseteq LeafKeys(ms)
  <1>1. \A p \in 1 .. Len(ns) : p \in 1 .. Len(ms)
    OBVIOUS
  <1> QED
    BY <1>1 DEF LeafKeys

\* A sound page is added.
LEMMA PageAdded ==
  ASSUME NEW ns \in Seq(PageType), NEW h, PagesOk(ns, h), NEW e \in Nat, NEW n,
         PageOk(n, e, h, LeafKeys(ns))
  PROVE  LET ms == Append(ns, n)
         IN  /\ ms \in Seq(PageType) /\ Len(ms) = Len(ns) + 1
             /\ \A p \in 1 .. Len(ns) : ms[p] = ns[p]
             /\ ms[Len(ns) + 1] = n
             /\ \E g : /\ Extends(h, g) /\ PagesOk(ms, g) /\ g[Len(ns) + 1] = e
  <1> DEFINE ms == Append(ns, n)
             N == Len(ns)
             g == [p \in 1 .. N + 1 |-> IF p = N + 1 THEN e ELSE h[p]]
  <1>1. n \in PageType
    BY DEF PageOk
  <1>2. /\ N \in Nat /\ ms \in Seq(PageType) /\ Len(ms) = N + 1
        /\ \A p \in 1 .. N : ms[p] = ns[p]
        /\ ms[N + 1] = n
    BY <1>1
  <1>3. h \in [1 .. N -> Nat] /\ \A p \in 1 .. N : PageOk(ns[p], h[p], h, LeafKeys(ns))
    BY DEF PagesOk
  <1> HIDE DEF ms
  <1>4. LeafKeys(ns) \subseteq LeafKeys(ms)
    BY <1>2, KeysKept
  <1>5. /\ g \in [1 .. N + 1 -> Nat] /\ g[N + 1] = e
        /\ \A p \in 1 .. N : g[p] = h[p]
    BY <1>2, <1>3
  <1>6. \A p \in 1 .. N + 1 : p \in 1 .. N \/ p = N + 1
    BY <1>2
  <1>7. 1 .. N \subseteq 1 .. N + 1
    BY <1>2
  <1> HIDE DEF g, N
  <1>8. Extends(h, g)
    BY <1>3, <1>5, <1>7 DEF Extends
  <1>9. ASSUME NEW p \in 1 .. N + 1 PROVE PageOk(ms[p], g[p], g, LeafKeys(ms))
    <2>1. CASE p \in 1 .. N
      BY <1>2, <1>3, <1>4, <1>5, <1>8, <2>1, OkMonotone
    <2>2. CASE p = N + 1
      BY <1>2, <1>4, <1>5, <1>8, <2>2, OkMonotone
    <2> QED
      BY <1>6, <2>1, <2>2
  <1>10. PagesOk(ms, g)
    BY <1>2, <1>5, <1>9 DEF PagesOk
  <1> QED
    BY <1>2, <1>5, <1>8, <1>10 DEF ms, N

\* The leaf is full: its sibling is allocated.
LEMMA FullStep ==
  ASSUME IndInv, leaf_is_full
  PROVE  IndInv'
  <1>1. PICK h : Shape(h)
    BY DEF IndInv
  <1>2. TypeInv /\ pc = "descend" /\ nodes \in Seq(PageType) /\ PagesOk(nodes, h)
    BY <1>1 DEF IndInv, leaf_is_full, TypeInv, Shape
  <1> DEFINE N == Len(nodes)
             L == Len(breadcrumbs)
             pid == breadcrumbs[L].node
             p == node_partition_idx(nodes[pid])
             side == leaf_side(cell_at(nodes[pid], p).key, pid)
             bc == [node |-> pid, new_node |-> N + 1, f_node |-> side,
                    partition_idx |-> p, is_full |-> TRUE]
             n == node_init(TRUE)
  <1>3. /\ N \in Nat /\ L \in Nat /\ L \in 1 .. L /\ pid \in 1 .. N /\ fresh = N + 1
        /\ here = nodes[pid] /\ Last(breadcrumbs) = breadcrumbs[L]
        /\ DOMAIN h = 1 .. N
    BY <1>1, <1>2, PathFacts, NodesLen DEF here
  <1>4. p \in 0 .. Len(nodes[pid].cells) /\ Len(nodes[pid].cells) \in Nat
    BY <1>2, <1>3, PageFacts, PartitionRange
  <1> HIDE DEF p
  <1>5. nodes[pid].leaf /\ root' = root /\ count' = count
        /\ IF p = Len(nodes[pid].cells)
           THEN stop("abort") /\ UNCHANGED nodes
           ELSE /\ pc' = "propagate"
                /\ nodes' = Append(nodes, n)
                /\ leaf_node' = side
                /\ breadcrumbs' = [breadcrumbs EXCEPT ![L] = bc]
                /\ bc_idx' = L - 1
                /\ UNCHANGED args
    BY <1>3, Zenon DEF leaf_is_full, p
  <1>6. CASE p = Len(nodes[pid].cells)
    BY <1>2, <1>5, <1>6, StopStep
  <1>7. CASE p # Len(nodes[pid].cells)
    <2>1. /\ pc' = "propagate" /\ nodes' = Append(nodes, n) /\ leaf_node' = side
          /\ breadcrumbs' = [breadcrumbs EXCEPT ![L] = bc]
          /\ bc_idx' = L - 1 /\ key' = key /\ value_size' = value_size
      BY <1>5, <1>7 DEF args
    <2>2. side \in {pid, N + 1}
      BY <1>3 DEF leaf_side
    <2>3. bc \in CrumbType
      BY <1>3, <1>4, <2>2 DEF CrumbType
    <2>8. /\ bc.node = pid /\ bc.new_node = N + 1 /\ bc.f_node = side
          /\ bc.partition_idx = p /\ bc.is_full
      OBVIOUS
    <2> HIDE DEF bc, side, n
    <2>4. PageOk(n, h[pid], h, LeafKeys(nodes)) /\ n.cells = << >> /\ h[pid] \in Nat
      <3>1. PageOk(nodes[pid], h[pid], h, LeafKeys(nodes))
        BY <1>2, <1>3, PageFacts
      <3>2. h[pid] = 0
        BY <1>5, <3>1 DEF PageOk
      <3>3. PageOk(n, h[pid], h, LeafKeys(nodes))
        BY <3>2, EmptyOk DEF n
      <3>4. n.cells = << >>
        BY EmptyPage DEF n
      <3> QED
        BY <3>2, <3>3, <3>4
    <2>5. /\ nodes' \in Seq(PageType) /\ Len(nodes') = N + 1
          /\ \A q \in 1 .. N : nodes'[q] = nodes[q]
          /\ nodes'[N + 1] = n
          /\ \E g : Extends(h, g) /\ PagesOk(nodes', g) /\ g[N + 1] = h[pid]
      <3> DEFINE e == h[pid]
      <3>1. e \in Nat /\ PageOk(n, e, h, LeafKeys(nodes))
        BY <2>4
      <3> HIDE DEF e
      <3>2. /\ nodes' \in Seq(PageType) /\ Len(nodes') = N + 1
            /\ \A q \in 1 .. N : nodes'[q] = nodes[q]
            /\ nodes'[N + 1] = n
            /\ \E g : Extends(h, g) /\ PagesOk(nodes', g) /\ g[N + 1] = e
        BY <1>2, <2>1, <3>1, PageAdded
      <3> QED
        BY <3>2 DEF e
    <2>6. PICK g : Extends(h, g) /\ PagesOk(nodes', g) /\ g[N + 1] = h[pid]
      BY <2>5
    <2>7. /\ breadcrumbs' \in Seq(CrumbType) /\ Len(breadcrumbs') = L
          /\ breadcrumbs'[L] = bc
          /\ \A j \in 1 .. L : j # L => breadcrumbs'[j] = breadcrumbs[j]
      BY <1>2, <1>3, <2>1, <2>3, Recrumbed
    <2>9. g[pid] = 0 /\ g[N + 1] = 0 /\ DOMAIN g = 1 .. N + 1
      <3>1. PageOk(nodes[pid], h[pid], h, LeafKeys(nodes))
        BY <1>2, <1>3, PageFacts
      <3>2. h[pid] = 0
        BY <1>5, <3>1 DEF PageOk
      <3> QED
        BY <1>3, <2>5, <2>6, <3>2 DEF Extends, PagesOk
    <2>10. Marked(nodes', g, bc)
      <3>1. N + 1 \in DOMAIN g /\ N + 1 # pid /\ p < Len(nodes'[pid].cells)
        BY <1>3, <1>4, <1>7, <2>5, <2>9
      <3> QED
        BY <2>2, <2>4, <2>5, <2>6, <2>8, <2>9, <3>1 DEF Marked
    <2>11. TypeInv'
      <3>1. L - 1 \in Nat /\ side \in Nat /\ root \in 1 .. Len(nodes')
        BY <1>2, <1>3, <2>2, <2>5 DEF TypeInv
      <3> QED
        BY <1>2, <1>5, <2>1, <2>5, <2>7, <3>1 DEF TypeInv
    <2>12. PathInv(g)'
      <3>1. \A j \in 1 .. L : breadcrumbs'[j].node = breadcrumbs[j].node
        BY <2>7, <2>8
      <3> QED
        BY <1>1, <1>2, <2>6, <2>7, <3>1, PathKept
    <2>13. MarkInv(g)'
      <3>1. low' = L
        BY <1>3, <2>1 DEF low
      <3>2. \A i \in L .. L : i = L
        BY <1>3
      <3>3. ~ \E i \in L + 1 .. L : TRUE
        BY <1>3
      <3>4. leaf_node' \in {bc.node, bc.new_node}
        BY <2>1, <2>2, <2>8
      <3> QED
        BY <1>3, <2>7, <2>8, <2>9, <2>10, <3>1, <3>2, <3>3, <3>4, Primed DEF MarkInv
    <2>14. LeafInv'
      BY <2>1 DEF LeafInv
    <2>15. PagesOk(nodes, g)'
      BY <2>6, Primed
    <2> QED
      BY <2>11, <2>12, <2>13, <2>14, <2>15 DEF IndInv, Shape
  <1> QED
    BY <1>6, <1>7

\* A node on the way up is full: its sibling is allocated.
LEMMA MarkFullStep ==
  ASSUME IndInv, mark_full
  PROVE  IndInv'
  <1>1. PICK h : Shape(h)
    BY DEF IndInv
  <1>2. TypeInv /\ pc = "propagate" /\ more_up /\ nodes \in Seq(PageType)
        /\ PagesOk(nodes, h)
    BY <1>1 DEF IndInv, mark_full, TypeInv, Shape
  <1> DEFINE N == Len(nodes)
             b == bc_idx
             pid == breadcrumbs[b].node
             p == node_partition_idx(nodes[pid])
             ckey == partition_key(breadcrumbs[b + 1])
             below == key_compare(cell_at(nodes[pid], p).key, ckey) < 0
             side == IF below THEN N + 1 ELSE pid
             bc == [node |-> pid, new_node |-> N + 1, f_node |-> side,
                    partition_idx |-> p, is_full |-> TRUE]
             n == node_init(FALSE)
  <1>3. /\ N \in Nat /\ pid \in 1 .. N /\ b \in Nat /\ b >= 1 /\ fresh = N + 1
        /\ DOMAIN h = 1 .. N /\ h[pid] \in Nat /\ h[pid] # 0
    <2>1. /\ N \in Nat /\ pid \in 1 .. N /\ b \in Nat /\ b >= 1 /\ fresh = N + 1
          /\ DOMAIN h = 1 .. N /\ h[pid] \in Nat /\ ~nodes[pid].leaf
      BY <1>1, <1>2, UpFacts, PageFacts, NodesLen DEF TypeInv, more_up
    <2>2. PageOk(nodes[pid], h[pid], h, LeafKeys(nodes))
      BY <1>2, <2>1, PageFacts
    <2> QED
      BY <2>1, <2>2 DEF PageOk
  <1>4. p \in 0 .. Len(nodes[pid].cells) /\ Len(nodes[pid].cells) \in Nat
    BY <1>2, <1>3, PageFacts, PartitionRange
  <1> HIDE DEF p
  <1>5. root' = root /\ count' = count
        /\ IF p + 1 >= Len(nodes[pid].cells)
           THEN /\ stop(IF p = Len(nodes[pid].cells) THEN "wild" ELSE "abort")
                /\ UNCHANGED nodes
           ELSE /\ nodes' = Append(nodes, n)
                /\ breadcrumbs' = [breadcrumbs EXCEPT ![b] = bc]
                /\ bc_idx' = b - 1
                /\ UNCHANGED <<pc, leaf_node, args>>
    BY <1>3, Zenon DEF mark_full, p
  <1>6. CASE p + 1 >= Len(nodes[pid].cells)
    <2> DEFINE how == IF p = Len(nodes[pid].cells) THEN "wild" ELSE "abort"
    <2>1. how \in {"abort", "wild"}
      OBVIOUS
    <2>2. stop(how) /\ nodes' = nodes
      BY <1>5, <1>6
    <2> HIDE DEF how
    <2> QED
      BY <1>2, <1>5, <2>1, <2>2, StopStep
  <1>7. CASE ~(p + 1 >= Len(nodes[pid].cells))
    <2>1. /\ pc' = "propagate" /\ nodes' = Append(nodes, n) /\ leaf_node' = leaf_node
          /\ breadcrumbs' = [breadcrumbs EXCEPT ![b] = bc]
          /\ bc_idx' = b - 1 /\ key' = key /\ value_size' = value_size
      BY <1>2, <1>5, <1>7 DEF args
    <2>2. side \in {pid, N + 1}
      OBVIOUS
    <2> HIDE DEF side
    <2>3. bc \in CrumbType
      BY <1>3, <1>4, <2>2 DEF CrumbType
    <2>4. PageOk(n, h[pid], h, LeafKeys(nodes)) /\ n.cells = << >>
      BY <1>3, EmptyOk, EmptyPage
    <2> HIDE DEF n
    <2>5. /\ nodes' \in Seq(PageType) /\ Len(nodes') = N + 1
          /\ \A q \in 1 .. N : nodes'[q] = nodes[q]
          /\ nodes'[N + 1] = n
          /\ \E g : Extends(h, g) /\ PagesOk(nodes', g) /\ g[N + 1] = h[pid]
      BY <1>2, <1>3, <2>1, <2>4, PageAdded
    <2>6. PICK g : Extends(h, g) /\ PagesOk(nodes', g) /\ g[N + 1] = h[pid]
      BY <2>5
    <2>7. /\ bc.node = pid /\ bc.new_node = N + 1 /\ bc.f_node = side
          /\ bc.partition_idx = p /\ bc.is_full
      OBVIOUS
    <2> HIDE DEF bc
    <2>8. g[pid] = h[pid] /\ DOMAIN g = 1 .. N + 1
      BY <1>3, <2>5, <2>6 DEF Extends, PagesOk
    <2>9. Marked(nodes', g, bc)
      <3>1. N + 1 \in DOMAIN g /\ N + 1 # pid /\ p < Len(nodes'[pid].cells)
        BY <1>3, <1>4, <1>7, <2>5, <2>8
      <3> QED
        BY <2>2, <2>4, <2>5, <2>6, <2>7, <2>8, <3>1 DEF Marked
    <2>10. PathInv(g)' /\ MarkInv(g)' /\ LeafInv' /\ breadcrumbs' \in Seq(CrumbType)
      BY <1>1, <1>2, <1>3, <2>1, <2>3, <2>5, <2>6, <2>7, <2>9, MarkedUp
    <2>11. TypeInv'
      <3>1. b - 1 \in Nat /\ root \in 1 .. Len(nodes')
        BY <1>2, <1>3, <2>5 DEF TypeInv
      <3> QED
        BY <1>2, <1>5, <2>1, <2>5, <2>10, <3>1 DEF TypeInv
    <2>12. PagesOk(nodes, g)'
      BY <2>6, Primed
    <2> QED
      BY <2>10, <2>11, <2>12 DEF IndInv, Shape
  <1> QED
    BY <1>6, <1>7

\* The separator that a split brings is the key of a tuple.
LEMMA PartitionKey ==
  ASSUME TypeInv, NEW h, PagesOk(nodes, h), NEW bc \in CrumbType, bc.is_full,
         Marked(nodes, h, bc), bc.node \in 1 .. Len(nodes)
  PROVE  partition_key(bc) \in LeafKeys(nodes) /\ partition_key(bc) \in Key
  <1> DEFINE n == nodes[bc.node]
             i == bc.partition_idx + 1
             k == n.cells[i].key
  <1>1. partition_key(bc) = k
    BY DEF partition_key, cell_at
  <1>2. nodes \in Seq(PageType)
    BY DEF TypeInv
  <1>3. /\ PageOk(n, h[bc.node], h, LeafKeys(nodes)) /\ n.cells \in Seq(CellType)
        /\ Len(n.cells) \in Nat
    BY <1>2, PageFacts
  <1>4. i \in 1 .. Len(n.cells)
    BY <1>3, CrumbFields DEF Marked
  <1>5. k \in Key
    BY <1>3, <1>4, CellKeys
  <1>6. CASE n.leaf
    BY <1>1, <1>4, <1>5, <1>6 DEF LeafKeys
  <1>7. CASE ~n.leaf
    BY <1>1, <1>3, <1>4, <1>5, <1>7 DEF PageOk
  <1> QED
    BY <1>6, <1>7

\* A new root is sound.
LEMMA RootOk ==
  ASSUME NEW e \in Nat, NEW h, NEW K, NEW k \in K, k \in Key, NEW child \in Nat,
         Below(h, e, child), NEW right \in Nat, Below(h, e, right), e # 0
  PROVE  PageOk(WithCell([node_init(FALSE) EXCEPT !.rightmost = right],
                         0, k, 0, child), e, h, K)
  <1> DEFINE n == [node_init(FALSE) EXCEPT !.rightmost = right]
             m == WithCell(n, 0, k, 0, child)
  <1>1. n \in PageType /\ n.cells = << >> /\ n.rightmost = right
    BY EmptyPage DEF PageType
  <1>2. ~n.leaf
    BY DEF node_init
  <1> HIDE DEF n
  <1>3. Len(n.cells) = 0 /\ Ordered(n.cells)
    BY <1>1 DEF Ordered
  <1> DEFINE z == 0
  <1>4. /\ z \in 0 .. Len(n.cells) /\ z \in Nat
        /\ \A i \in 1 .. z : ~Before(k, n.cells[i].key)
        /\ \A i \in z + 1 .. Len(n.cells) : ~Before(n.cells[i].key, k)
    BY <1>3
  <1>5. /\ m \in PageType /\ m.leaf = n.leaf /\ m.rightmost = n.rightmost
        /\ Ordered(m.cells) /\ Len(m.cells) = Len(n.cells) + 1
        /\ m.cells[z + 1].key = k /\ m.cells[z + 1].child = child
    <2>1. m = WithCell(n, z, k, z, child)
      OBVIOUS
    <2>2. n \in PageType /\ Ordered(n.cells) /\ k \in Key /\ child \in Nat
      BY <1>1, <1>3
    <2> HIDE DEF m, z
    <2>3. Between(n.cells, z, k)
      BY <1>4 DEF Between
    <2>4. CellIn(WithCell(n, z, k, z, child), n, z, k, z, child)
      BY <1>4, <2>2, <2>3, CellInOk
    <2> QED
      BY <2>1, <2>4 DEF CellIn
  <1> HIDE DEF m
  <1>6. Len(m.cells) = 1 /\ m.cells[1].key = k /\ m.cells[1].child = child
    BY <1>3, <1>5
  <1>7. \A i \in 1 .. Len(m.cells) : i = 1
    BY <1>6
  <1>8. PageOk(m, e, h, K)
    BY <1>1, <1>2, <1>5, <1>6, <1>7 DEF PageOk
  <1> QED
    BY <1>8 DEF m, n

\* A new root above the one that is full.
LEMMA RootStep ==
  ASSUME IndInv, split_root
  PROVE  IndInv'
  <1>1. PICK h : Shape(h)
    BY DEF IndInv
  <1> DEFINE N == Len(nodes)
             bc == breadcrumbs[1]
             e == h[bc.node] + 1
             k == partition_key(bc)
             n == WithCell([node_init(FALSE) EXCEPT !.rightmost = bc.new_node],
                           0, k, 0, bc.node)
  <1>2. TypeInv /\ pc = "propagate" /\ bc_idx = 0 /\ nodes \in Seq(PageType)
        /\ PagesOk(nodes, h) /\ bc.is_full
    BY <1>1 DEF IndInv, split_root, TypeInv, Shape
  <1>3. /\ nodes' = Append(nodes, n) /\ root' = N + 1 /\ pc' = "write"
        /\ bc_idx' = 1 /\ count' = count /\ breadcrumbs' = breadcrumbs
        /\ leaf_node' = leaf_node /\ key' = key /\ value_size' = value_size
    BY DEF split_root, fresh, args, new_root, node_insert_internal_cell, WithCell
  <1>4. /\ N \in Nat /\ bc.node \in 1 .. N /\ bc \in CrumbType
        /\ DOMAIN h = 1 .. N /\ h[bc.node] \in Nat
    BY <1>1, <1>2, PathFacts
  <1>5. Marked(nodes, h, bc)
    <2>1. low = 1 /\ low \in 1 .. Len(breadcrumbs)
      BY <1>1, <1>2, MarkFacts DEF low
    <2>2. 1 \in low .. Len(breadcrumbs)
      BY <2>1
    <2> QED
      BY <1>1, <1>2, <2>2, MarkFacts
  <1>6. bc.new_node \in 1 .. N /\ h[bc.new_node] = h[bc.node]
    BY <1>2, <1>4, <1>5 DEF Marked
  <1>7. e \in Nat /\ e # 0 /\ Below(h, e, bc.node) /\ Below(h, e, bc.new_node)
        /\ bc.node \in Nat /\ bc.new_node \in Nat
    BY <1>4, <1>6 DEF Below
  <1>8. k \in LeafKeys(nodes) /\ k \in Key
    BY <1>2, <1>4, <1>5, PartitionKey
  <1> HIDE DEF k, e, bc
  <1>9. PageOk(n, e, h, LeafKeys(nodes))
    BY <1>7, <1>8, RootOk
  <1> HIDE DEF n
  <1>10. /\ nodes' \in Seq(PageType) /\ Len(nodes') = N + 1
         /\ \A q \in 1 .. N : nodes'[q] = nodes[q]
         /\ \E g : Extends(h, g) /\ PagesOk(nodes', g) /\ g[N + 1] = e
    BY <1>2, <1>3, <1>7, <1>9, PageAdded
  <1>11. PICK g : Extends(h, g) /\ PagesOk(nodes', g)
    BY <1>10
  <1>12. TypeInv'
    <2>1. N + 1 \in 1 .. N + 1 /\ 1 \in Nat
      BY <1>4
    <2> QED
      BY <1>2, <1>3, <1>10, <2>1 DEF TypeInv
  <1>13. PathInv(g)'
    BY <1>1, <1>2, <1>3, <1>11, PathKept
  <1>14. MarkInv(g)'
    <2> DEFINE L == Len(breadcrumbs)
    <2>1. /\ low \in 1 .. L
          /\ \A i \in low .. L : Marked(nodes, h, breadcrumbs[i])
          /\ \A i \in low + 1 .. L : breadcrumbs[i].is_full
          /\ breadcrumbs[L].is_full
          /\ h[breadcrumbs[L].node] = 0
          /\ leaf_node \in {breadcrumbs[L].node, breadcrumbs[L].new_node}
      BY <1>1, <1>2, MarkFacts
    <2>2. low = 1 /\ low' = 1
      BY <1>2, <1>3 DEF low
    <2>3. \A i \in 1 .. L : breadcrumbs[i].node \in DOMAIN h
      BY <1>1, <1>2, PathFacts
    <2>4. ASSUME NEW i \in 1 .. L PROVE Marked(nodes', g, breadcrumbs[i])
      <3>1. Marked(nodes, h, breadcrumbs[i]) /\ breadcrumbs[i].node \in DOMAIN h
        BY <2>1, <2>2, <2>3
      <3>2. Extends(h, g) /\ \A q \in DOMAIN h : nodes'[q] = nodes[q]
        BY <1>4, <1>10, <1>11
      <3> QED
        BY ONLY <3>1, <3>2, MarkedKept
    <2>5. g[breadcrumbs[L].node] = 0
      BY <1>1, <1>2, <1>11, <2>1, <2>3, PathFacts DEF Extends
    <2> QED
      BY <1>3, <2>1, <2>2, <2>4, <2>5, Primed DEF MarkInv
  <1>15. LeafInv'
    BY <1>3 DEF LeafInv
  <1>16. PagesOk(nodes, g)'
    BY <1>11, Primed
  <1> QED
    BY <1>12, <1>13, <1>14, <1>15, <1>16 DEF IndInv, Shape

-----------------------------------------------------------------------------
(* Steps that write pages *)

\* Two pages are replaced.
LEMMA TwoReplaced ==
  ASSUME NEW ns \in Seq(PageType), NEW a \in 1 .. Len(ns), NEW b \in 1 .. Len(ns),
         a # b, NEW x \in PageType, NEW y \in PageType
  PROVE  LET ms == [ns EXCEPT ![a] = x, ![b] = y]
         IN  /\ ms \in Seq(PageType) /\ Len(ms) = Len(ns)
             /\ ms[a] = x /\ ms[b] = y
             /\ \A p \in 1 .. Len(ns) : p # a /\ p # b => ms[p] = ns[p]
  OBVIOUS

\* One page is replaced.
LEMMA OneReplaced ==
  ASSUME NEW ns \in Seq(PageType), NEW a \in 1 .. Len(ns), NEW x \in PageType
  PROVE  LET ms == [ns EXCEPT ![a] = x]
         IN  /\ ms \in Seq(PageType) /\ Len(ms) = Len(ns)
             /\ ms[a] = x
             /\ \A p \in 1 .. Len(ns) : p # a => ms[p] = ns[p]
  OBVIOUS

\* Pages of the same heights, with at least the same tuples.
LEMMA PagesReplaced ==
  ASSUME NEW ns, NEW ms, NEW h, PagesOk(ns, h), Len(ms) = Len(ns),
         LeafKeys(ns) \subseteq LeafKeys(ms),
         \A p \in 1 .. Len(ns) : PageOk(ms[p], h[p], h, LeafKeys(ns))
  PROVE  PagesOk(ms, h)
  <1>1. Extends(h, h)
    BY DEF Extends
  <1>2. ASSUME NEW p \in 1 .. Len(ns) PROVE PageOk(ms[p], h[p], h, LeafKeys(ms))
    BY <1>1, OkMonotone
  <1> QED
    BY <1>2 DEF PagesOk

\* Keys of leaves are kept by writes to internal nodes.
LEMMA InternalKeys ==
  ASSUME NEW ns, NEW ms, Len(ms) = Len(ns),
         \A p \in 1 .. Len(ns) : ns[p].leaf => ms[p] = ns[p]
  PROVE  LeafKeys(ns) \subseteq LeafKeys(ms)
  BY DEF LeafKeys

\* The pages of a full breadcrumb.
LEMMA CrumbPages ==
  ASSUME TypeInv, NEW h, PagesOk(nodes, h), NEW bc \in CrumbType, bc.is_full,
         Marked(nodes, h, bc), bc.node \in 1 .. Len(nodes)
  PROVE  /\ nodes \in Seq(PageType) /\ DOMAIN h = 1 .. Len(nodes)
         /\ bc.new_node \in 1 .. Len(nodes) /\ bc.new_node # bc.node
         /\ h[bc.new_node] = h[bc.node] /\ h[bc.node] \in Nat
         /\ nodes[bc.new_node].cells = << >>
         /\ bc.partition_idx \in 0 .. Len(nodes[bc.node].cells) - 1
         /\ PageOk(nodes[bc.node], h[bc.node], h, LeafKeys(nodes))
         /\ nodes[bc.node].leaf \in BOOLEAN
         /\ nodes[bc.new_node].leaf <=> nodes[bc.node].leaf
         /\ Len(nodes[bc.node].cells) \in Nat
  <1>1. nodes \in Seq(PageType)
    BY DEF TypeInv
  <1>2. /\ DOMAIN h = 1 .. Len(nodes) /\ h[bc.node] \in Nat
        /\ PageOk(nodes[bc.node], h[bc.node], h, LeafKeys(nodes))
        /\ nodes[bc.node].leaf \in BOOLEAN
        /\ Len(nodes[bc.node].cells) \in Nat
    BY <1>1, PageFacts
  <1>3. /\ bc.new_node \in 1 .. Len(nodes) /\ bc.new_node # bc.node
        /\ h[bc.new_node] = h[bc.node]
        /\ nodes[bc.new_node].cells = << >>
        /\ bc.partition_idx < Len(nodes[bc.node].cells)
    BY <1>2 DEF Marked
  <1>4. PageOk(nodes[bc.new_node], h[bc.node], h, LeafKeys(nodes))
    BY <1>1, <1>3, PageFacts
  <1>5. nodes[bc.new_node].leaf <=> nodes[bc.node].leaf
    BY <1>2, <1>4 DEF PageOk
  <1>6. bc.partition_idx \in 0 .. Len(nodes[bc.node].cells) - 1
    BY <1>2, <1>3, CrumbFields
  <1> QED
    BY <1>1, <1>2, <1>3, <1>5, <1>6

\* What a leaf that is split has in its halves.
LEMMA LeafHalves ==
  ASSUME TypeInv, NEW h, PagesOk(nodes, h), NEW bc \in CrumbType, bc.is_full,
         Marked(nodes, h, bc), bc.node \in 1 .. Len(nodes), nodes[bc.node].leaf
  PROVE  LET ms == split_nodes(bc)
             a == bc.node
             b == bc.new_node
             P == bc.partition_idx
         IN  /\ ms \in Seq(PageType) /\ Len(ms) = Len(nodes)
             /\ \A p \in 1 .. Len(nodes) : p # a /\ p # b => ms[p] = nodes[p]
             /\ PageOk(ms[a], h[a], h, LeafKeys(nodes))
             /\ PageOk(ms[b], h[a], h, LeafKeys(nodes))
             /\ Len(ms[a].cells) = P
             /\ \A i \in 1 .. P : ms[a].cells[i] = nodes[a].cells[i]
             /\ Len(ms[b].cells) = Len(nodes[a].cells) - P
             /\ \A i \in 1 .. Len(nodes[a].cells) - P :
                  /\ ms[b].cells[i].key = nodes[a].cells[i + P].key
                  /\ ms[b].cells[i].value_size = nodes[a].cells[i + P].value_size
  <1> DEFINE ms == split_nodes(bc)
             a == bc.node
             b == bc.new_node
             P == bc.partition_idx
             n == nodes[a]
             M == Len(n.cells)
             K == LeafKeys(nodes)
             x == node_cut(n, P)
             y == node_of(TRUE, SubSeq(n.cells, P + 1, M))
  <1>1. /\ nodes \in Seq(PageType) /\ b \in 1 .. Len(nodes) /\ a # b
        /\ P \in 0 .. M - 1 /\ PageOk(n, h[a], h, K) /\ M \in Nat
    BY CrumbPages
  <1>2. ms = [nodes EXCEPT ![a] = x, ![b] = y]
    BY DEF split_nodes, leaf_node_split, leaf_moved
  <1>3. /\ PageOk(x, h[a], h, K) /\ Len(x.cells) = P
        /\ \A i \in 1 .. P : x.cells[i] = n.cells[i]
    <2>1. P \in 0 .. Len(n.cells) /\ n \in PageType
      BY <1>1 DEF PageOk
    <2> QED
      BY <1>1, <2>1, CutOk, CutPage
  <1>4. /\ PageOk(y, h[a], h, K) /\ Len(y.cells) = M - P
        /\ \A i \in 1 .. M - P : /\ y.cells[i].key = n.cells[i + P].key
                                 /\ y.cells[i].value_size = n.cells[i + P].value_size
    <2> DEFINE q == P + 1
               w == node_of(n.leaf, SubSeq(n.cells, q, M))
    <2>1. q \in 1 .. Len(n.cells) + 1 /\ M + 1 - q = M - P
          /\ \A i \in 1 .. M - P : i + q - 1 = i + P
      BY <1>1
    <2>2. w = y
      <3>1. n.leaf = TRUE
        BY <1>1 DEF PageOk, PageType
      <3> QED
        BY <3>1
    <2> HIDE DEF q, y
    <2>3. /\ PageOk(w, h[a], h, K)
          /\ Len(w.cells) = Len(n.cells) + 1 - q
          /\ \A i \in 1 .. Len(n.cells) + 1 - q :
               /\ w.cells[i].key = n.cells[i + q - 1].key
               /\ w.cells[i].value_size = n.cells[i + q - 1].value_size
      <3> HIDE DEF n, K
      <3> QED
        BY ONLY <1>1, <2>1, MovedOk
    <2> QED
      BY <2>1, <2>2, <2>3
  <1>5. x \in PageType /\ y \in PageType
    BY <1>3, <1>4 DEF PageOk
  <1> HIDE DEF x, y, ms
  <1>6. /\ ms \in Seq(PageType) /\ Len(ms) = Len(nodes) /\ ms[a] = x /\ ms[b] = y
        /\ \A p \in 1 .. Len(nodes) : p # a /\ p # b => ms[p] = nodes[p]
    BY <1>1, <1>2, <1>5, TwoReplaced
  <1> QED
    BY <1>3, <1>4, <1>6 DEF ms

\* What an internal node that is split, or has room, has in its halves.
LEMMA InternalHalves ==
  ASSUME TypeInv, NEW h, PagesOk(nodes, h), NEW bc \in CrumbType,
         Marked(nodes, h, bc), bc.node \in 1 .. Len(nodes), ~nodes[bc.node].leaf
  PROVE  LET ms == split_nodes(bc)
         IN  /\ ms \in Seq(PageType) /\ Len(ms) = Len(nodes)
             /\ \A p \in 1 .. Len(nodes) :
                  /\ h[p] # h[bc.node] => ms[p] = nodes[p]
                  /\ PageOk(ms[p], h[p], h, LeafKeys(nodes))
             /\ bc.f_node \in 1 .. Len(nodes) /\ h[bc.f_node] = h[bc.node]
  <1> DEFINE ms == split_nodes(bc)
             a == bc.node
             b == bc.new_node
             P == bc.partition_idx
             n == nodes[a]
             M == Len(n.cells)
             K == LeafKeys(nodes)
             x == node_cut(n, P)
             y == node_of(FALSE, SubSeq(n.cells, P + 2, M))
  <1>1. nodes \in Seq(PageType) /\ \A p \in 1 .. Len(nodes) : PageOk(nodes[p], h[p], h, K)
    BY DEF TypeInv, PagesOk
  <1>2. bc.is_full \in BOOLEAN
    BY CrumbFields
  <1>3. CASE ~bc.is_full
    <2>1. ms = nodes /\ bc.f_node = bc.node
      BY <1>3 DEF split_nodes, Marked
    <2> QED
      BY <1>1, <2>1
  <1>4. CASE bc.is_full
    <2>1. /\ b \in 1 .. Len(nodes) /\ a # b /\ P \in 0 .. M - 1 /\ M \in Nat
          /\ PageOk(n, h[a], h, K) /\ h[b] = h[a]
      BY <1>4, CrumbPages
    <2>2. ms = [nodes EXCEPT ![a] = x, ![b] = y]
      BY <1>4 DEF split_nodes, internal_node_split, internal_moved
    <2>3. PageOk(x, h[a], h, K)
      <3>1. P \in 0 .. Len(n.cells)
        BY <2>1
      <3> QED
        BY <2>1, <3>1, CutOk
    <2>4. PageOk(y, h[a], h, K)
      <3> DEFINE q == P + 2
                 w == node_of(n.leaf, SubSeq(n.cells, q, M))
      <3>1. q \in 1 .. Len(n.cells) + 1
        BY <2>1
      <3>2. w = y
        <4>1. n.leaf = FALSE
          BY <2>1 DEF PageOk, PageType
        <4> QED
          BY <4>1
      <3> HIDE DEF q, y
      <3>3. PageOk(w, h[a], h, K)
        BY <2>1, <3>1, MovedOk
      <3> QED
        BY <3>2, <3>3
    <2>5. x \in PageType /\ y \in PageType
      BY <2>3, <2>4 DEF PageOk
    <2> HIDE DEF x, y, ms
    <2>6. /\ ms \in Seq(PageType) /\ Len(ms) = Len(nodes) /\ ms[a] = x /\ ms[b] = y
          /\ \A p \in 1 .. Len(nodes) : p # a /\ p # b => ms[p] = nodes[p]
      BY <1>1, <2>1, <2>2, <2>5, TwoReplaced
    <2>7. \A p \in 1 .. Len(nodes) : PageOk(ms[p], h[p], h, K)
      BY <1>1, <2>1, <2>3, <2>4, <2>6
    <2>8. \A p \in 1 .. Len(nodes) : h[p] # h[bc.node] => ms[p] = nodes[p]
      BY <2>1, <2>6
    <2>9. bc.f_node \in 1 .. Len(nodes) /\ h[bc.f_node] = h[bc.node]
      BY <1>4, <2>1 DEF Marked
    <2> QED
      BY <2>6, <2>7, <2>8, <2>9 DEF ms
  <1> QED
    BY <1>2, <1>3, <1>4

\* Where a call is that writes.
LEMMA WriteFacts ==
  ASSUME TypeInv, NEW h, Shape(h), pc = "write"
  PROVE  /\ nodes \in Seq(PageType) /\ PagesOk(nodes, h) /\ DOMAIN h = 1 .. Len(nodes)
         /\ low = bc_idx /\ bc_idx \in 1 .. Len(breadcrumbs) /\ bc_idx \in Nat
         /\ Len(breadcrumbs) \in Nat
         /\ breadcrumbs[bc_idx] \in CrumbType
         /\ breadcrumbs[bc_idx].node \in 1 .. Len(nodes)
         /\ Marked(nodes, h, breadcrumbs[bc_idx])
         /\ h[breadcrumbs[bc_idx].node] + bc_idx = Len(breadcrumbs)
         /\ h[breadcrumbs[bc_idx].node] \in Nat
         /\ nodes[breadcrumbs[bc_idx].node].leaf <=> bc_idx = Len(breadcrumbs)
  <1> DEFINE L == Len(breadcrumbs)
             b == bc_idx
             e == h[breadcrumbs[b].node]
  <1>1. nodes \in Seq(PageType) /\ PagesOk(nodes, h) /\ DOMAIN h = 1 .. Len(nodes)
    BY PathFacts DEF TypeInv, Shape
  <1>2. low = b /\ b \in 1 .. L /\ L \in Nat
    BY MarkFacts, PathFacts DEF low
  <1>3. b \in Nat /\ b \in low .. L /\ L \in 1 .. L
    BY <1>2
  <1>4. Marked(nodes, h, breadcrumbs[b]) /\ h[breadcrumbs[L].node] = 0
    BY <1>3, MarkFacts
  <1>5. breadcrumbs[b] \in CrumbType /\ breadcrumbs[b].node \in 1 .. Len(nodes)
        /\ e \in Nat
    BY <1>2, PathFacts
  <1>6. e + b = L
    BY <1>2, <1>3, <1>4, PathDrops
  <1>7. PageOk(nodes[breadcrumbs[b].node], e, h, LeafKeys(nodes))
    BY <1>1, <1>5, PageFacts
  <1> HIDE DEF e
  <1>8. e = 0 <=> b = L
    BY <1>2, <1>3, <1>5, <1>6
  <1>9. nodes[breadcrumbs[b].node].leaf <=> b = L
    BY <1>7, <1>8 DEF PageOk
  <1> QED
    BY <1>1, <1>2, <1>3, <1>4, <1>5, <1>6, <1>9 DEF e

\* What a call that writes an internal node takes from the breadcrumb below.
LEMMA WriteBelow ==
  ASSUME TypeInv, NEW h, Shape(h), pc = "write", ~nodes[breadcrumbs[bc_idx].node].leaf
  PROVE  LET e == h[breadcrumbs[bc_idx].node]
             below == breadcrumbs[bc_idx + 1]
         IN  /\ bc_idx + 1 \in 1 .. Len(breadcrumbs)
             /\ below.is_full /\ below \in CrumbType
             /\ Marked(nodes, h, below) /\ below.node \in 1 .. Len(nodes)
             /\ below.node \in Nat /\ Below(h, e, below.node)
             /\ below.new_node \in Nat /\ Below(h, e, below.new_node)
             /\ partition_key(below) \in LeafKeys(nodes)
             /\ partition_key(below) \in Key
  <1> DEFINE L == Len(breadcrumbs)
             b == bc_idx
             e == h[breadcrumbs[b].node]
             below == breadcrumbs[b + 1]
  <1>1. /\ b \in 1 .. L /\ b # L /\ low = b /\ L \in Nat /\ PagesOk(nodes, h)
        /\ DOMAIN h = 1 .. Len(nodes) /\ e \in Nat
    BY WriteFacts
  <1>2. b + 1 \in 1 .. L /\ b + 1 \in low .. L /\ b + 1 \in low + 1 .. L
    BY <1>1
  <1>3. below.is_full /\ Marked(nodes, h, below)
    BY <1>2, MarkFacts
  <1>4. below \in CrumbType /\ below.node \in 1 .. Len(nodes) /\ h[below.node] \in Nat
    BY <1>2, PathFacts
  <1>5. h[below.node] + (b + 1) = e + b
    BY <1>1, <1>2, PathDrops
  <1> DEFINE d == h[below.node]
  <1>6. d \in Nat /\ d + (b + 1) = e + b /\ b \in Nat
    BY <1>1, <1>4, <1>5
  <1> HIDE DEF d, e
  <1>7. e = d + 1
    BY <1>1, <1>6
  <1>8. Below(h, e, below.node)
    BY <1>1, <1>4, <1>7 DEF Below, d
  <1>9. below.new_node \in 1 .. Len(nodes) /\ h[below.new_node] = d
    BY <1>1, <1>3, <1>4, CrumbPages DEF d
  <1>10. Below(h, e, below.new_node)
    BY <1>1, <1>7, <1>9 DEF Below
  <1>11. below.node \in Nat /\ below.new_node \in Nat
    BY <1>4, CrumbFields
  <1>12. partition_key(below) \in LeafKeys(nodes) /\ partition_key(below) \in Key
    BY <1>1, <1>3, <1>4, PartitionKey
  <1> QED
    BY <1>2, <1>3, <1>4, <1>8, <1>10, <1>11, <1>12 DEF e

\* A mark stays while the two pages stay.
LEMMA MarkedUnchanged ==
  ASSUME NEW ns, NEW ms, NEW h, NEW bc, Marked(ns, h, bc),
         ms[bc.node] = ns[bc.node], bc.is_full => ms[bc.new_node] = ns[bc.new_node]
  PROVE  Marked(ms, h, bc)
  BY DEF Marked

\* The pages after a write to an internal node.
LEMMA InternalWritten ==
  ASSUME TypeInv, NEW h, Shape(h), pc = "write",
         ~nodes[breadcrumbs[bc_idx].node].leaf
  PROVE  LET bc == breadcrumbs[bc_idx]
             below == breadcrumbs[bc_idx + 1]
             ckey == partition_key(below)
             split == split_nodes(bc)
             f == split[bc.f_node]
             idx == node_bin_search(f, ckey).idx
             ms == [split EXCEPT ![bc.f_node] =
                      linked(f, idx, ckey, below.node, below.new_node)]
         IN  /\ ms \in Seq(PageType) /\ Len(ms) = Len(nodes)
             /\ \A p \in 1 .. Len(nodes) :
                  /\ h[p] # h[bc.node] => ms[p] = nodes[p]
                  /\ PageOk(ms[p], h[p], h, LeafKeys(nodes))
  <1> DEFINE bc == breadcrumbs[bc_idx]
             e == h[bc.node]
             below == breadcrumbs[bc_idx + 1]
             ckey == partition_key(below)
             split == split_nodes(bc)
             f == split[bc.f_node]
             idx == node_bin_search(f, ckey).idx
             m == linked(f, idx, ckey, below.node, below.new_node)
             ms == [split EXCEPT ![bc.f_node] = m]
             K == LeafKeys(nodes)
  <1>1. /\ nodes \in Seq(PageType) /\ PagesOk(nodes, h) /\ bc \in CrumbType
        /\ bc.node \in 1 .. Len(nodes) /\ Marked(nodes, h, bc) /\ e \in Nat
    BY WriteFacts
  <1>2. /\ below.node \in Nat /\ Below(h, e, below.node)
        /\ below.new_node \in Nat /\ Below(h, e, below.new_node)
        /\ ckey \in K /\ ckey \in Key
    BY WriteBelow
  <1>3. /\ split \in Seq(PageType) /\ Len(split) = Len(nodes)
        /\ \A p \in 1 .. Len(nodes) : /\ h[p] # e => split[p] = nodes[p]
                                      /\ PageOk(split[p], h[p], h, K)
        /\ bc.f_node \in 1 .. Len(nodes) /\ h[bc.f_node] = e
    BY <1>1, InternalHalves
  <1> HIDE DEF split, ckey, below
  <1>4. PageOk(f, e, h, K)
    BY <1>3
  <1>5. ~f.leaf
    <2>1. PageOk(nodes[bc.node], e, h, K)
      BY <1>1, PageFacts
    <2> QED
      BY <1>4, <2>1 DEF PageOk
  <1> HIDE DEF f, e, bc
  <1>6. PageOk(m, e, h, K)
    BY <1>2, <1>4, <1>5, LinkedOk
  <1>7. m \in PageType
    BY <1>6 DEF PageOk
  <1> HIDE DEF m
  <1>8. /\ ms \in Seq(PageType) /\ Len(ms) = Len(nodes) /\ ms[bc.f_node] = m
        /\ \A p \in 1 .. Len(nodes) : p # bc.f_node => ms[p] = split[p]
    BY <1>3, <1>7, OneReplaced
  <1> HIDE DEF ms
  <1>9. ASSUME NEW p \in 1 .. Len(nodes)
        PROVE  /\ h[p] # e => ms[p] = nodes[p]
               /\ PageOk(ms[p], h[p], h, K)
    BY <1>3, <1>6, <1>8
  <1> QED
    BY <1>8, <1>9 DEF ms, m, idx, f, split, ckey, below, e, bc

\* An internal node, or one of its halves, takes the separator.
LEMMA WriteInternalStep ==
  ASSUME IndInv, write_internal
  PROVE  IndInv'
  <1>1. PICK h : Shape(h)
    BY DEF IndInv
  <1> DEFINE L == Len(breadcrumbs)
             b == bc_idx
             bc == breadcrumbs[b]
             below == breadcrumbs[b + 1]
             ckey == partition_key(below)
             split == split_nodes(bc)
             f == split[bc.f_node]
             idx == node_bin_search(f, ckey).idx
             ms == [split EXCEPT ![bc.f_node] =
                      linked(f, idx, ckey, below.node, below.new_node)]
             e == h[bc.node]
  <1>2. TypeInv /\ pc = "write" /\ ~nodes[bc.node].leaf
    BY DEF IndInv, write_internal
  <1>3. /\ root' = root /\ count' = count
        /\ IF node_get_free_offset(f, Len(ckey), 0) = 0
           THEN stop("abort") /\ UNCHANGED nodes
           ELSE /\ nodes' = ms
                /\ bc_idx' = b + 1
                /\ UNCHANGED <<pc, breadcrumbs, leaf_node, args>>
    BY Zenon DEF write_internal
  <1>4. CASE node_get_free_offset(f, Len(ckey), 0) = 0
    BY <1>2, <1>3, <1>4, StopStep
  <1>5. CASE node_get_free_offset(f, Len(ckey), 0) # 0
    <2>1. /\ nodes' = ms /\ bc_idx' = b + 1 /\ pc' = "write"
          /\ breadcrumbs' = breadcrumbs /\ leaf_node' = leaf_node
          /\ key' = key /\ value_size' = value_size
      BY <1>2, <1>3, <1>5 DEF args
    <2>2. /\ ms \in Seq(PageType) /\ Len(ms) = Len(nodes)
          /\ \A p \in 1 .. Len(nodes) : /\ h[p] # e => ms[p] = nodes[p]
                                        /\ PageOk(ms[p], h[p], h, LeafKeys(nodes))
      BY <1>1, <1>2, InternalWritten
    <2> HIDE DEF ms
    <2>3. /\ nodes \in Seq(PageType) /\ PagesOk(nodes, h) /\ low = b /\ b \in Nat
          /\ e + b = L /\ e \in Nat /\ L \in Nat /\ b \in 1 .. L
          /\ bc.node \in 1 .. Len(nodes) /\ DOMAIN h = 1 .. Len(nodes)
      BY <1>1, <1>2, WriteFacts
    <2>4. b + 1 \in 1 .. L
      BY <1>1, <1>2, WriteBelow
    <2>5. LeafKeys(nodes) \subseteq LeafKeys(ms)
      <3>1. e # 0
        <4>1. PageOk(nodes[bc.node], e, h, LeafKeys(nodes))
          BY <2>3, PageFacts
        <4> QED
          BY <1>2, <4>1 DEF PageOk
      <3>2. \A p \in 1 .. Len(nodes) : nodes[p].leaf => ms[p] = nodes[p]
        BY <2>2, <2>3, <3>1 DEF PagesOk, PageOk
      <3> QED
        BY <2>2, <3>2, InternalKeys
    <2>6. PagesOk(nodes, h)'
      <3>1. PagesOk(ms, h)
        BY <2>2, <2>3, <2>5, PagesReplaced
      <3> QED
        BY <2>1, <3>1, Primed
    <2>7. TypeInv'
      BY <1>2, <1>3, <2>1, <2>2, <2>3 DEF TypeInv
    <2>8. PathInv(h)'
      BY <1>1, <1>2, <2>1 DEF PathInv, Shape
    <2>9. MarkInv(h)'
      <3>1. low' = b + 1
        BY <2>1 DEF low
      <3>2. /\ \A i \in low .. L : Marked(nodes, h, breadcrumbs[i])
            /\ \A i \in low + 1 .. L : breadcrumbs[i].is_full
            /\ breadcrumbs[L].is_full
            /\ h[breadcrumbs[L].node] = 0
            /\ leaf_node \in {breadcrumbs[L].node, breadcrumbs[L].new_node}
        BY <1>1, <1>2, MarkFacts
      <3>3. ASSUME NEW i \in b + 1 .. L PROVE Marked(nodes', h, breadcrumbs[i])
        <4> DEFINE c == breadcrumbs[i]
                   d == h[c.node]
        <4>1. i \in 1 .. L /\ i \in low .. L /\ i \in low + 1 .. L /\ i # b
          BY <2>3
        <4>2. Marked(nodes, h, c) /\ c.is_full
          BY <3>2, <4>1
        <4>3. c \in CrumbType /\ c.node \in 1 .. Len(nodes) /\ d \in Nat
          BY <1>1, <1>2, <4>1, PathFacts
        <4>4. d + i = e + b
          BY <1>1, <1>2, <2>3, <4>1, PathDrops
        <4>5. c.new_node \in 1 .. Len(nodes) /\ h[c.new_node] = d
          BY <1>2, <2>3, <4>2, <4>3, CrumbPages
        <4> HIDE DEF d, c, e
        <4>6. d # e
          BY <2>3, <4>1, <4>3, <4>4
        <4>7. ms[c.node] = nodes[c.node] /\ ms[c.new_node] = nodes[c.new_node]
          BY <2>2, <4>3, <4>5, <4>6 DEF d
        <4>8. Marked(nodes', h, c)
          BY <2>1, <4>2, <4>7, MarkedUnchanged
        <4> QED
          BY <4>8 DEF c
      <3>4. \A i \in b + 1 + 1 .. L : i \in low + 1 .. L
        BY <2>3
      <3> QED
        BY <2>1, <2>4, <3>1, <3>2, <3>3, <3>4, Primed DEF MarkInv
    <2>10. LeafInv'
      BY <2>1 DEF LeafInv
    <2> QED
      BY <2>6, <2>7, <2>8, <2>9, <2>10 DEF IndInv, Shape
  <1> QED
    BY <1>4, <1>5

\* The keys of a leaf that is split are in its halves.
LEMMA SplitKeys ==
  ASSUME TypeInv, NEW h, PagesOk(nodes, h), NEW bc \in CrumbType, bc.is_full,
         Marked(nodes, h, bc), bc.node \in 1 .. Len(nodes), nodes[bc.node].leaf
  PROVE  LeafKeys(nodes) \subseteq LeafKeys(split_nodes(bc))
  <1> DEFINE ms == split_nodes(bc)
             a == bc.node
             b == bc.new_node
             P == bc.partition_idx
             M == Len(nodes[a].cells)
  <1>1. /\ b \in 1 .. Len(nodes) /\ a # b /\ P \in 0 .. M - 1 /\ M \in Nat
        /\ nodes[b].cells = << >> /\ h[b] = h[a]
        /\ PageOk(nodes[a], h[a], h, LeafKeys(nodes))
    BY CrumbPages
  <1>2. /\ Len(ms) = Len(nodes)
        /\ \A p \in 1 .. Len(nodes) : p # a /\ p # b => ms[p] = nodes[p]
        /\ PageOk(ms[a], h[a], h, LeafKeys(nodes))
        /\ PageOk(ms[b], h[a], h, LeafKeys(nodes))
        /\ Len(ms[a].cells) = P
        /\ \A i \in 1 .. P : ms[a].cells[i] = nodes[a].cells[i]
        /\ Len(ms[b].cells) = M - P
        /\ \A i \in 1 .. M - P : ms[b].cells[i].key = nodes[a].cells[i + P].key
    BY LeafHalves
  <1> HIDE DEF ms
  <1>3. ms[a].leaf /\ ms[b].leaf
    BY <1>1, <1>2 DEF PageOk
  <1>4. SUFFICES ASSUME NEW k \in LeafKeys(nodes) PROVE k \in LeafKeys(ms)
    BY DEF ms
  <1>5. PICK q \in 1 .. Len(nodes) :
          nodes[q].leaf /\ \E j \in 1 .. Len(nodes[q].cells) : nodes[q].cells[j].key = k
    BY DEF LeafKeys
  <1>6. PICK j \in 1 .. Len(nodes[q].cells) : nodes[q].cells[j].key = k
    BY <1>5
  <1>7. k \in Key
    BY DEF LeafKeys
  <1>8. CASE q # a /\ q # b
    BY <1>2, <1>5, <1>6, <1>7, <1>8 DEF LeafKeys
  <1>9. CASE q = b
    <2>1. Len(nodes[q].cells) = 0
      BY <1>1, <1>9
    <2> QED
      BY <1>6, <2>1
  <1>10. CASE q = a /\ j <= P
    <2>1. j \in 1 .. P
      BY <1>1, <1>6, <1>10
    <2>2. j \in 1 .. Len(ms[a].cells) /\ ms[a].cells[j].key = k
      BY <1>2, <1>6, <1>10, <2>1
    <2> QED
      BY <1>2, <1>3, <1>7, <2>2 DEF LeafKeys
  <1>11. CASE q = a /\ ~(j <= P)
    <2>1. j - P \in 1 .. M - P /\ (j - P) + P = j
      BY <1>1, <1>6, <1>11
    <2>2. j - P \in 1 .. Len(ms[b].cells) /\ ms[b].cells[j - P].key = k
      BY <1>2, <1>6, <1>11, <2>1
    <2> QED
      BY <1>1, <1>2, <1>3, <1>7, <2>2 DEF LeafKeys
  <1> QED
    BY <1>8, <1>9, <1>10, <1>11

\* The leaf is split.
LEMMA WriteLeafStep ==
  ASSUME IndInv, write_leaf
  PROVE  IndInv'
  <1>1. PICK h : Shape(h)
    BY DEF IndInv
  <1> DEFINE L == Len(breadcrumbs)
             bc == breadcrumbs[bc_idx]
             ms == split_nodes(bc)
  <1>2. TypeInv /\ pc = "write" /\ nodes[bc.node].leaf
    BY DEF IndInv, write_leaf
  <1>3. /\ root' = root /\ count' = count /\ nodes' = ms /\ pc' = "insert"
        /\ breadcrumbs' = breadcrumbs /\ bc_idx' = bc_idx /\ leaf_node' = leaf_node
        /\ key' = key /\ value_size' = value_size
    BY DEF write_leaf, args
  <1>4. /\ nodes \in Seq(PageType) /\ PagesOk(nodes, h) /\ bc \in CrumbType
        /\ bc.node \in 1 .. Len(nodes) /\ Marked(nodes, h, bc) /\ bc_idx = L
    BY <1>1, <1>2, WriteFacts
  <1>5. bc.is_full /\ h[bc.node] = 0 /\ leaf_node \in {bc.node, bc.new_node}
    BY <1>1, <1>2, <1>4, MarkFacts
  <1>6. bc.new_node \in 1 .. Len(nodes) /\ h[bc.new_node] = h[bc.node]
    BY <1>2, <1>4, <1>5, CrumbPages
  <1>7. /\ ms \in Seq(PageType) /\ Len(ms) = Len(nodes)
        /\ \A p \in 1 .. Len(nodes) : p # bc.node /\ p # bc.new_node => ms[p] = nodes[p]
        /\ PageOk(ms[bc.node], h[bc.node], h, LeafKeys(nodes))
        /\ PageOk(ms[bc.new_node], h[bc.node], h, LeafKeys(nodes))
    BY <1>2, <1>4, <1>5, LeafHalves
  <1>8. LeafKeys(nodes) \subseteq LeafKeys(ms)
    BY <1>2, <1>4, <1>5, SplitKeys
  <1> HIDE DEF ms, bc
  <1>9. \A p \in 1 .. Len(nodes) : PageOk(ms[p], h[p], h, LeafKeys(nodes))
    BY <1>4, <1>6, <1>7 DEF PagesOk
  <1>10. PagesOk(ms, h)
    BY <1>4, <1>7, <1>8, <1>9, PagesReplaced
  <1>11. PagesOk(nodes, h)'
    BY <1>3, <1>10, Primed
  <1>12. TypeInv'
    BY <1>2, <1>3, <1>7 DEF TypeInv
  <1>13. PathInv(h)'
    BY <1>1, <1>2, <1>3 DEF PathInv, Shape
  <1>14. MarkInv(h)'
    BY <1>3 DEF MarkInv
  <1>15. LeafInv'
    <2>1. ms[bc.node].leaf /\ ms[bc.new_node].leaf
      BY <1>5, <1>7 DEF PageOk
    <2> QED
      BY <1>3, <1>4, <1>5, <1>6, <1>7, <2>1 DEF LeafInv
  <1> QED
    BY <1>11, <1>12, <1>13, <1>14, <1>15 DEF IndInv, Shape

\* The pages after the tuple has gone into its leaf.
LEMMA TupleIn ==
  ASSUME TypeInv, NEW h, Shape(h), pc = "insert"
  PROVE  LET n == nodes[leaf_node]
             idx == node_bin_search(n, key).idx
             m == node_insert_leaf_cell(n, idx, key, value_size)
             ms == [nodes EXCEPT ![leaf_node] = m]
         IN  /\ leaf_node \in 1 .. Len(nodes) /\ n.leaf /\ m.leaf
             /\ ms \in Seq(PageType) /\ Len(ms) = Len(nodes)
             /\ PageOk(m, h[leaf_node], h, LeafKeys(nodes))
             /\ ms[leaf_node] = m
             /\ \A p \in 1 .. Len(nodes) : p # leaf_node => ms[p] = nodes[p]
             /\ idx \in 0 .. Len(n.cells) /\ Len(n.cells) \in Nat
             /\ Len(m.cells) = Len(n.cells) + 1
             /\ m.cells[idx + 1].key = key /\ m.cells[idx + 1].value_size = value_size
             /\ \A i \in 1 .. idx : m.cells[i] = n.cells[i]
             /\ \A i \in idx + 2 .. Len(n.cells) + 1 : m.cells[i] = n.cells[i - 1]
  <1> DEFINE n == nodes[leaf_node]
             K == LeafKeys(nodes)
             idx == node_bin_search(n, key).idx
             m == node_insert_leaf_cell(n, idx, key, value_size)
             ms == [nodes EXCEPT ![leaf_node] = m]
  <1>1. nodes \in Seq(PageType) /\ PagesOk(nodes, h)
    BY DEF Shape, TypeInv
  <1>2. leaf_node \in 1 .. Len(nodes) /\ n.leaf
    BY DEF Shape, LeafInv
  <1>3. PageOk(n, h[leaf_node], h, K) /\ Len(n.cells) \in Nat
    BY <1>1, <1>2, PageFacts
  <1>4. h[leaf_node] = 0
    BY <1>2, <1>3 DEF PageOk
  <1>5. PageOk(n, 0, h, K)
    BY <1>3, <1>4
  <1>6. key \in Key /\ value_size \in Nat
    BY ArgsType
  <1>7. /\ idx \in 0 .. Len(n.cells)
        /\ PageOk(m, 0, h, K) /\ m.leaf
        /\ Len(m.cells) = Len(n.cells) + 1
        /\ m.cells[idx + 1].key = key /\ m.cells[idx + 1].value_size = value_size
        /\ \A i \in 1 .. idx : m.cells[i] = n.cells[i]
        /\ \A i \in idx + 2 .. Len(n.cells) + 1 : m.cells[i] = n.cells[i - 1]
    <2> HIDE DEF n, K
    <2> QED
      BY ONLY <1>5, <1>6, LeafInOk, SMTT(30)
  <1>8. m \in PageType
    BY <1>7 DEF PageOk
  <1> HIDE DEF m, idx
  <1>9. /\ ms \in Seq(PageType) /\ Len(ms) = Len(nodes)
        /\ ms[leaf_node] = m
        /\ \A p \in 1 .. Len(nodes) : p # leaf_node => ms[p] = nodes[p]
    BY <1>1, <1>2, <1>8, OneReplaced
  <1> QED
    BY <1>2, <1>3, <1>4, <1>7, <1>9 DEF m, idx

\* The tuple goes into its leaf, and the call ends.
LEMMA InsertStep ==
  ASSUME IndInv, insert_tuple
  PROVE  IndInv'
  <1>1. PICK h : Shape(h)
    BY DEF IndInv
  <1> DEFINE n == nodes[leaf_node]
             idx == node_bin_search(n, key).idx
             m == node_insert_leaf_cell(n, idx, key, value_size)
             ms == [nodes EXCEPT ![leaf_node] = m]
  <1>2. TypeInv /\ pc = "insert" /\ PagesOk(nodes, h)
    BY <1>1 DEF IndInv, insert_tuple, Shape
  <1>3. /\ root' = root
        /\ IF node_get_free_offset(n, Len(key), value_size) = 0
           THEN stop("abort") /\ UNCHANGED <<nodes, count>>
           ELSE nodes' = ms /\ count' = count + 1 /\ return
    BY Zenon DEF insert_tuple
  <1>4. CASE node_get_free_offset(n, Len(key), value_size) = 0
    BY <1>2, <1>3, <1>4, StopStep
  <1>5. CASE node_get_free_offset(n, Len(key), value_size) # 0
    <2>1. /\ nodes' = ms /\ count' = count + 1 /\ pc' = "idle"
          /\ breadcrumbs' = << >> /\ bc_idx' = 0 /\ leaf_node' = 0
      BY <1>3, <1>5 DEF return, NULL
    <2>2. /\ leaf_node \in 1 .. Len(nodes) /\ n.leaf /\ m.leaf
          /\ ms \in Seq(PageType) /\ Len(ms) = Len(nodes)
          /\ PageOk(m, h[leaf_node], h, LeafKeys(nodes))
          /\ ms[leaf_node] = m
          /\ \A p \in 1 .. Len(nodes) : p # leaf_node => ms[p] = nodes[p]
          /\ idx \in 0 .. Len(n.cells) /\ Len(n.cells) \in Nat
          /\ Len(m.cells) = Len(n.cells) + 1
          /\ \A i \in 1 .. idx : m.cells[i] = n.cells[i]
          /\ \A i \in idx + 2 .. Len(n.cells) + 1 : m.cells[i] = n.cells[i - 1]
      BY <1>1, <1>2, TupleIn
    <2> HIDE DEF ms, m, idx
    <2>3. LeafKeys(nodes) \subseteq LeafKeys(ms)
      <3>1. SUFFICES ASSUME NEW k \in LeafKeys(nodes) PROVE k \in LeafKeys(ms)
        OBVIOUS
      <3>2. PICK q \in 1 .. Len(nodes) :
              nodes[q].leaf /\ \E j \in 1 .. Len(nodes[q].cells) : nodes[q].cells[j].key = k
        BY DEF LeafKeys
      <3>3. PICK j \in 1 .. Len(nodes[q].cells) : nodes[q].cells[j].key = k
        BY <3>2
      <3>4. k \in Key
        BY DEF LeafKeys
      <3>5. CASE q # leaf_node
        BY <2>2, <3>2, <3>3, <3>4, <3>5 DEF LeafKeys
      <3>6. CASE q = leaf_node /\ j <= idx
        <4>1. j \in 1 .. idx /\ j \in 1 .. Len(m.cells)
          BY <2>2, <3>3, <3>6
        <4>2. m.cells[j].key = k
          BY <2>2, <3>3, <3>6, <4>1
        <4> QED
          BY <2>2, <3>4, <4>1, <4>2 DEF LeafKeys
      <3>7. CASE q = leaf_node /\ ~(j <= idx)
        <4>1. j + 1 \in idx + 2 .. Len(n.cells) + 1 /\ j + 1 \in 1 .. Len(m.cells)
              /\ (j + 1) - 1 = j
          BY <2>2, <3>3, <3>7
        <4>2. m.cells[j + 1].key = k
          BY <2>2, <3>3, <3>7, <4>1
        <4> QED
          BY <2>2, <3>4, <4>1, <4>2 DEF LeafKeys
      <3> QED
        BY <3>5, <3>6, <3>7
    <2>4. \A p \in 1 .. Len(nodes) : PageOk(ms[p], h[p], h, LeafKeys(nodes))
      BY <1>2, <2>2 DEF PagesOk
    <2>5. PagesOk(nodes, h)'
      <3>1. PagesOk(ms, h)
        BY <1>2, <2>2, <2>3, <2>4, PagesReplaced
      <3> QED
        BY <2>1, <3>1, Primed
    <2>6. TypeInv'
      BY <1>2, <1>3, <2>1, <2>2 DEF TypeInv
    <2>7. PathInv(h)' /\ MarkInv(h)' /\ LeafInv'
      BY <2>1 DEF PathInv, MarkInv, LeafInv
    <2> QED
      BY <2>5, <2>6, <2>7 DEF IndInv, Shape
  <1> QED
    BY <1>4, <1>5

\* Nothing happens.
LEMMA StutterStep ==
  ASSUME IndInv, UNCHANGED vars
  PROVE  IndInv'
  <1>1. PICK h : Shape(h)
    BY DEF IndInv
  <1>2. /\ nodes' = nodes /\ root' = root /\ count' = count /\ pc' = pc
        /\ breadcrumbs' = breadcrumbs /\ bc_idx' = bc_idx /\ leaf_node' = leaf_node
        /\ key' = key /\ value_size' = value_size
    BY DEF vars
  <1>3. TypeInv'
    BY <1>2 DEF IndInv, TypeInv
  <1>4. PagesOk(nodes, h)' /\ PathInv(h)' /\ LeafInv'
    BY <1>1, <1>2, Primed DEF Shape, PathInv, LeafInv
  <1>5. low' = low
    BY <1>2 DEF low
  <1>6. MarkInv(h)'
    BY <1>1, <1>2, <1>5, Primed DEF Shape, MarkInv
  <1> QED
    BY <1>3, <1>4, <1>6 DEF IndInv, Shape

-----------------------------------------------------------------------------
(* Theorems *)

\* Pages keep their heights and order, separators their tuples, and a call its
\* path, in every state of btree_insert and whatever it has lost before.
THEOREM Inductive == Spec => []IndInv
  <1>1. IndInv /\ [Next]_vars => IndInv'
    <2>1. SUFFICES ASSUME IndInv, [Next]_vars PROVE IndInv'
      OBVIOUS
    <2>2. ASSUME NEW t \in Tuples, btree_insert(t[1], t[2]) PROVE IndInv'
      BY <2>1, <2>2, CallStep
    <2>3. CASE refuse
      BY <2>1, <2>3, RefuseStep
    <2>4. CASE follow
      BY <2>1, <2>4, FollowStep
    <2>5. CASE leaf_has_room
      BY <2>1, <2>5, RoomStep
    <2>6. CASE leaf_is_full
      BY <2>1, <2>6, FullStep
    <2>7. CASE mark_room
      BY <2>1, <2>7, MarkRoomStep
    <2>8. CASE mark_full
      BY <2>1, <2>8, MarkFullStep
    <2>9. CASE top_has_room
      BY <2>1, <2>9, TopStep
    <2>10. CASE split_root
      BY <2>1, <2>10, RootStep
    <2>11. CASE write_internal
      BY <2>1, <2>11, WriteInternalStep
    <2>12. CASE write_leaf
      BY <2>1, <2>12, WriteLeafStep
    <2>13. CASE insert_tuple
      BY <2>1, <2>13, InsertStep
    <2>14. CASE UNCHANGED vars
      BY <2>1, <2>14, StutterStep
    <2> QED
      BY <2>1, <2>2, <2>3, <2>4, <2>5, <2>6, <2>7, <2>8, <2>9, <2>10, <2>11,
         <2>12, <2>13, <2>14 DEF Next
  <1> QED
    BY <1>1, InitHolds, PTL DEF Spec

\* A call is refused only if a tuple with its key is stored.
THEOREM RefusalsAreTrue == Spec => []RefusalsTrue
  <1>1. IndInv => RefusalsTrue
    <2>1. SUFFICES ASSUME IndInv PROVE RefusalsTrue
      OBVIOUS
    <2>2. PICK h : Shape(h)
      BY <2>1 DEF IndInv
    <2>3. /\ TypeInv /\ nodes \in Seq(PageType) /\ PagesOk(nodes, h)
          /\ DOMAIN nodes = 1 .. Len(nodes)
      BY <2>1, <2>2, NodesLen DEF IndInv, TypeInv, Shape
    <2>4. SUFFICES ASSUME NEW p \in 1 .. Len(nodes), ~nodes[p].leaf,
                          NEW i \in DOMAIN nodes[p].cells
                   PROVE  \E c \in Cells : TupleAt(c)[1] = nodes[p].cells[i].key
      BY <2>3 DEF RefusalsTrue, Leaves
    <2>5. i \in 1 .. Len(nodes[p].cells) /\ PageOk(nodes[p], h[p], h, LeafKeys(nodes))
      BY <2>3, PageFacts
    <2>6. nodes[p].cells[i].key \in LeafKeys(nodes)
      BY <2>4, <2>5 DEF PageOk
    <2>7. PICK q \in 1 .. Len(nodes) :
            nodes[q].leaf /\ \E j \in 1 .. Len(nodes[q].cells) :
                               nodes[q].cells[j].key = nodes[p].cells[i].key
      BY <2>6 DEF LeafKeys
    <2>8. PICK j \in 1 .. Len(nodes[q].cells) :
            nodes[q].cells[j].key = nodes[p].cells[i].key
      BY <2>7
    <2>9. j \in DOMAIN nodes[q].cells /\ q \in Leaves
      BY <2>3, <2>7, <2>8, PageFacts DEF Leaves
    <2>10. <<q, j>> \in Cells
      BY <2>9 DEF Cells
    <2>11. TupleAt(<<q, j>>)[1] = nodes[p].cells[i].key
      BY <2>8 DEF TupleAt
    <2> QED
      BY <2>10, <2>11
  <1> QED
    BY <1>1, Inductive, PTL

-----------------------------------------------------------------------------
(* The levels of the tree *)

\* The children of the internal nodes among S.
NextLevel(S) == UNION {Children(nodes[pid]) : pid \in S \ Leaves}

\* f holds the levels down to depth d.
LevelsOf(f, d) ==
  \A i \in 0 .. d : f[i] = IF i = 0 THEN {root} ELSE NextLevel(f[i - 1])

\* The levels can be followed to any depth.
LEMMA LevelsExist ==
  ASSUME NEW m \in Nat
  PROVE  \E f : LevelsOf(f, m)
  <1> DEFINE T == {k \in Nat : ~ \E f : LevelsOf(f, k)}
  <1>1. SUFFICES ASSUME T # {} PROVE FALSE
    OBVIOUS
  <1>2. PICK k \in T : \A l \in T : k <= l
    BY <1>1, LeastNat
  <1>3. CASE k = 0
    <2>1. LevelsOf([i \in {0} |-> {root}], 0)
      BY DEF LevelsOf
    <2> QED
      BY <1>3, <2>1
  <1>4. CASE k # 0
    <2>1. k - 1 \in Nat /\ k - 1 \notin T
      BY <1>2, <1>4
    <2>2. PICK f : LevelsOf(f, k - 1)
      BY <2>1
    <2> DEFINE g == [i \in 0 .. k |-> IF i = k THEN NextLevel(f[k - 1]) ELSE f[i]]
    <2>3. ASSUME NEW i \in 0 .. k
          PROVE  g[i] = IF i = 0 THEN {root} ELSE NextLevel(g[i - 1])
      <3>1. CASE i = k
        <4>1. g[i] = NextLevel(f[k - 1]) /\ g[i - 1] = f[k - 1] /\ i # 0
          BY <1>4, <2>1, <3>1
        <4> QED
          BY <4>1
      <3>2. CASE i # k
        <4>1. i \in 0 .. k - 1 /\ g[i] = f[i] /\ (i # 0 => g[i - 1] = f[i - 1])
          BY <2>1, <3>2
        <4> QED
          BY <2>2, <4>1 DEF LevelsOf
      <3> QED
        BY <3>1, <3>2
    <2>4. LevelsOf(g, k)
      BY <2>3 DEF LevelsOf
    <2> QED
      BY <2>4
  <1> QED
    BY <1>3, <1>4

\* In one way.
LEMMA LevelsUnique ==
  ASSUME NEW f, NEW g, NEW m \in Nat, NEW l \in Nat, LevelsOf(f, m), LevelsOf(g, l),
         NEW i \in Nat, i <= m, i <= l
  PROVE  f[i] = g[i]
  <1> DEFINE T == {k \in Nat : k <= m /\ k <= l /\ f[k] # g[k]}
  <1>1. SUFFICES ASSUME T # {} PROVE FALSE
    OBVIOUS
  <1>2. PICK k \in T : \A j \in T : k <= j
    BY <1>1, LeastNat
  <1>3. CASE k = 0
    BY <1>3 DEF LevelsOf
  <1>4. CASE k # 0
    <2>1. k - 1 \in Nat /\ k - 1 \notin T
      BY <1>2, <1>4
    <2>2. f[k - 1] = g[k - 1]
      BY <2>1
    <2>3. f[k] = NextLevel(f[k - 1]) /\ g[k] = NextLevel(g[k - 1])
      BY <1>4 DEF LevelsOf
    <2> QED
      BY <2>2, <2>3
  <1> QED
    BY <1>3, <1>4

\* Level is what its recursive definition says.
LEMMA LevelIs ==
  /\ Level(0) = {root}
  /\ \A d \in Nat : Level(d + 1) = NextLevel(Level(d))
  <1> DEFINE H(k) == CHOOSE f : LevelsOf(f, k)
             s == [k \in Nat |-> H(k)[k]]
             P(f) == f = [e \in Nat |->
                       IF e = 0 THEN {root}
                       ELSE UNION {Children(nodes[pid]) : pid \in f[e - 1] \ Leaves}]
             F == CHOOSE f : P(f)
  <1>1. ASSUME NEW k \in Nat PROVE LevelsOf(H(k), k)
    BY LevelsExist
  <1> HIDE DEF H
  <1>2. ASSUME NEW k \in Nat
        PROVE  s[k] = IF k = 0 THEN {root} ELSE NextLevel(s[k - 1])
    <2>1. CASE k = 0
      BY <1>1, <2>1 DEF LevelsOf
    <2>2. CASE k # 0
      <3>1. k - 1 \in Nat /\ k - 1 <= k
        BY <2>2
      <3>2. H(k)[k - 1] = H(k - 1)[k - 1]
        BY <1>1, <3>1, LevelsUnique
      <3>3. H(k)[k] = NextLevel(H(k)[k - 1])
        BY <1>1, <2>2 DEF LevelsOf
      <3> QED
        BY <2>2, <3>1, <3>2, <3>3
    <2> QED
      BY <2>1, <2>2
  <1>3. P(s)
    BY <1>2 DEF NextLevel
  <1>4. P(F)
    BY <1>3
  <1>5. \A d \in Nat : F[d] = IF d = 0 THEN {root} ELSE NextLevel(F[d - 1])
    BY <1>4 DEF NextLevel
  <1>6. \A d : Level(d) = F[d]
    BY DEF Level
  <1> HIDE DEF F
  <1>7. ASSUME NEW d \in Nat PROVE d + 1 \in Nat /\ d + 1 # 0 /\ (d + 1) - 1 = d
    OBVIOUS
  <1> QED
    BY <1>5, <1>6, <1>7

\* The children of a node are of the next level.
LEMMA ChildrenBelow ==
  ASSUME NEW n, NEW e, NEW h, NEW K, PageOk(n, e, h, K), ~n.leaf,
         NEW c \in Children(n)
  PROVE  Below(h, e, c)
  <1>1. n \in PageType
    BY DEF PageOk
  <1>2. DOMAIN n.cells = 1 .. Len(n.cells)
    BY <1>1, PageFields
  <1>3. CASE c \in {n.rightmost} \ {NULL}
    BY <1>3 DEF PageOk
  <1>4. CASE c \in Range([i \in DOMAIN n.cells |-> n.cells[i].child])
    <2>1. PICK i \in DOMAIN n.cells : c = n.cells[i].child
      BY <1>4 DEF Range
    <2> QED
      BY <1>2, <2>1 DEF PageOk
  <1> QED
    BY <1>3, <1>4 DEF Children

\* The nodes at a depth all have the height that is left.
LEMMA LevelHeights ==
  ASSUME TypeInv, NEW h, PagesOk(nodes, h), NEW d \in Nat
  PROVE  \A p \in Level(d) : p \in 1 .. Len(nodes) /\ h[p] + d = h[root]
  <1> DEFINE Ok(k) == \A p \in Level(k) : p \in 1 .. Len(nodes) /\ h[p] + k = h[root]
             T == {k \in Nat : ~Ok(k)}
  <1>1. SUFFICES ASSUME T # {} PROVE FALSE
    OBVIOUS
  <1>2. PICK k \in T : \A l \in T : k <= l
    BY <1>1, LeastNat
  <1>3. /\ root \in 1 .. Len(nodes) /\ nodes \in Seq(PageType) /\ h[root] \in Nat
        /\ DOMAIN nodes = 1 .. Len(nodes) /\ DOMAIN h = 1 .. Len(nodes)
    BY PageFacts DEF TypeInv
  <1>4. CASE k = 0
    <2>1. Level(k) = {root}
      BY <1>4, LevelIs
    <2>2. Ok(k)
      BY <1>3, <1>4, <2>1
    <2> QED
      BY <1>2, <2>2
  <1>5. CASE k # 0
    <2>1. k - 1 \in Nat /\ (k - 1) + 1 = k /\ Ok(k - 1)
      BY <1>2, <1>5
    <2>2. Level(k) = NextLevel(Level(k - 1))
      BY <2>1, LevelIs
    <2>3. ASSUME NEW c \in Level(k) PROVE c \in 1 .. Len(nodes) /\ h[c] + k = h[root]
      <3>1. PICK p \in Level(k - 1) \ Leaves : c \in Children(nodes[p])
        BY <2>2, <2>3 DEF NextLevel
      <3>2. p \in 1 .. Len(nodes) /\ h[p] + (k - 1) = h[root] /\ ~nodes[p].leaf
        BY <1>3, <2>1, <3>1 DEF Leaves
      <3>3. PageOk(nodes[p], h[p], h, LeafKeys(nodes)) /\ h[p] \in Nat
        BY <1>3, <3>2, PageFacts
      <3>4. c \in 1 .. Len(nodes) /\ h[p] = h[c] + 1
        BY <1>3, <3>1, <3>2, <3>3, ChildrenBelow DEF Below
      <3>5. h[c] \in Nat
        BY <1>3, <3>4, PageFacts
      <3> DEFINE x == h[c]
                 y == h[p]
                 z == h[root]
      <3>6. x \in Nat /\ y \in Nat /\ z \in Nat /\ y = x + 1 /\ y + (k - 1) = z
        BY <1>3, <3>2, <3>3, <3>4, <3>5
      <3> HIDE DEF x, y, z
      <3>7. x + k = z
        BY <1>2, <3>6
      <3> QED
        BY <3>4, <3>7 DEF x, z
    <2> QED
      BY <1>2, <2>3
  <1> QED
    BY <1>4, <1>5

\* Every path from the root down to a leaf has the same length, in the middle of
\* a call too.
THEOREM PathsAreEqual == Spec => []LevelsUniform
  <1>1. IndInv => LevelsUniform
    <2>1. SUFFICES ASSUME IndInv, NEW d \in Depths, NEW p \in Level(d) \cap Leaves,
                          NEW q \in Level(d)
                   PROVE  q \in Leaves
      BY DEF LevelsUniform
    <2>2. PICK h : Shape(h)
      BY <2>1 DEF IndInv
    <2>3. /\ TypeInv /\ nodes \in Seq(PageType) /\ PagesOk(nodes, h)
          /\ DOMAIN nodes = 1 .. Len(nodes) /\ Len(nodes) \in Nat
      BY <2>1, <2>2, NodesLen DEF IndInv, TypeInv, Shape
    <2>4. d \in Nat
      BY <2>3 DEF Depths
    <2>5. /\ p \in 1 .. Len(nodes) /\ h[p] + d = h[root]
          /\ q \in 1 .. Len(nodes) /\ h[q] + d = h[root]
      BY <2>1, <2>3, <2>4, LevelHeights
    <2>6. /\ h[p] \in Nat /\ PageOk(nodes[p], h[p], h, LeafKeys(nodes))
          /\ h[q] \in Nat /\ PageOk(nodes[q], h[q], h, LeafKeys(nodes))
      BY <2>3, <2>5, PageFacts
    <2>7. h[p] = h[q]
      BY <2>4, <2>5, <2>6
    <2>8. nodes[p].leaf
      BY <2>1 DEF Leaves
    <2> QED
      BY <2>3, <2>5, <2>6, <2>7, <2>8 DEF PageOk, Leaves
  <1> QED
    BY <1>1, Inductive, PTL

-----------------------------------------------------------------------------
(* Counting *)

\* The values that u has in D, and the places of one of them.
Values(u, D) == {u[c] : c \in D}

Places(u, D, t) == {c \in D : u[c] = t}

\* How many times u has each of its values.
Counted(u) == [t \in Values(u, DOMAIN u) |-> Cardinality(Places(u, DOMAIN u, t))]

\* f takes the places of u one to one to those of v in D, and keeps the values.
Carries(f, u, D, v) ==
  /\ f \in [DOMAIN u -> D]
  /\ \A c, d \in DOMAIN u : f[c] = f[d] => c = d
  /\ \A d \in D : \E c \in DOMAIN u : f[c] = d
  /\ \A c \in DOMAIN u : v[f[c]] = u[c]

\* A one-to-one correspondence keeps the size.
LEMMA SameSize ==
  ASSUME NEW S, NEW T, IsFiniteSet(S), NEW f \in [S -> T],
         \A c, d \in S : f[c] = f[d] => c = d,
         \A d \in T : \E c \in S : f[c] = d
  PROVE  IsFiniteSet(T) /\ Cardinality(T) = Cardinality(S)
  <1>1. f \in Injection(S, T)
    BY DEF Injection, IsInjective
  <1>2. f \in Surjection(S, T)
    BY DEF Surjection
  <1> QED
    BY <1>1, <1>2, FS_Surjection

\* The places of one value, under such a correspondence.
LEMMA CarriedSize ==
  ASSUME NEW u, NEW v, NEW D, NEW f, Carries(f, u, D, v), IsFiniteSet(DOMAIN u), NEW t
  PROVE  /\ IsFiniteSet(Places(v, D, t))
         /\ Cardinality(Places(v, D, t)) = Cardinality(Places(u, DOMAIN u, t))
         /\ Values(v, D) = Values(u, DOMAIN u)
  <1> DEFINE S == Places(u, DOMAIN u, t)
             T == Places(v, D, t)
             g == [c \in S |-> f[c]]
  <1>1. IsFiniteSet(S)
    <2>1. S \in SUBSET DOMAIN u
      BY DEF Places
    <2> QED
      BY <2>1, FS_Subset
  <1>2. g \in [S -> T]
    BY DEF Carries, Places
  <1>3. \A c, d \in S : g[c] = g[d] => c = d
    BY DEF Carries, Places
  <1>4. \A d \in T : \E c \in S : g[c] = d
    BY DEF Carries, Places
  <1>5. Values(v, D) = Values(u, DOMAIN u)
    BY DEF Carries, Values
  <1> HIDE DEF S, T, g
  <1>6. IsFiniteSet(T) /\ Cardinality(T) = Cardinality(S)
    BY <1>1, <1>2, <1>3, <1>4, SameSize
  <1> QED
    BY <1>5, <1>6 DEF S, T

\* Moving the values to other places leaves the counts as they are.
LEMMA CountedSame ==
  ASSUME NEW u, NEW v, NEW f, Carries(f, u, DOMAIN v, v), IsFiniteSet(DOMAIN u)
  PROVE  Counted(v) = Counted(u)
  <1>1. ASSUME NEW t
        PROVE  /\ Cardinality(Places(v, DOMAIN v, t)) = Cardinality(Places(u, DOMAIN u, t))
               /\ Values(v, DOMAIN v) = Values(u, DOMAIN u)
    BY CarriedSize
  <1> QED
    BY <1>1 DEF Counted

\* A new place adds one to the count of its value.
LEMMA CountedMore ==
  ASSUME NEW u, NEW v, NEW x \in DOMAIN v, NEW D, D = DOMAIN v \ {x},
         NEW f, Carries(f, u, D, v), IsFiniteSet(DOMAIN u)
  PROVE  Counted(v) = Counted(u) (+) SetToBag({v[x]})
  <1> DEFINE y == v[x]
             U(t) == Cardinality(Places(u, DOMAIN u, t))
             V(t) == Cardinality(Places(v, DOMAIN v, t))
             R == Values(u, DOMAIN u)
             Q == Values(v, DOMAIN v)
  <1>1. ASSUME NEW t
        PROVE  /\ IsFiniteSet(Places(v, D, t))
               /\ Cardinality(Places(v, D, t)) = U(t)
               /\ Values(v, D) = R
    BY CarriedSize
  <1>2. Q = R \cup {y}
    BY <1>1 DEF Values
  <1>3. ASSUME NEW t, t # y PROVE V(t) = U(t)
    <2>1. Places(v, DOMAIN v, t) = Places(v, D, t)
      BY <1>3 DEF Places
    <2> QED
      BY <1>1, <2>1
  <1>4. V(y) = U(y) + 1
    <2>1. /\ Places(v, DOMAIN v, y) = Places(v, D, y) \cup {x}
          /\ x \notin Places(v, D, y)
      BY DEF Places
    <2> QED
      BY <1>1, <2>1, FS_AddElement
  <1>5. ASSUME NEW t, t \notin R PROVE U(t) = 0
    <2>1. Places(u, DOMAIN u, t) = {}
      BY <1>5 DEF Places, Values
    <2> QED
      BY <2>1, FS_EmptySet
  <1>6. \A t : U(t) \in Nat
    BY <1>1, FS_CardinalityType
  <1>7. Counted(u) = [t \in R |-> U(t)]
    BY DEF Counted
  <1>8. Counted(v) = [t \in Q |-> V(t)]
    BY DEF Counted
  <1>9. SetToBag({y}) = [t \in {y} |-> 1]
    BY DEF SetToBag
  <1> HIDE DEF Q, R, U, V, y
  <1> DEFINE B == Counted(u) (+) SetToBag({y})
  <1>10. B = [t \in R \cup {y} |->
                (IF t \in R THEN U(t) ELSE 0) + (IF t \in {y} THEN 1 ELSE 0)]
    BY <1>7, <1>9 DEF (+)
  <1>11. ASSUME NEW t \in R \cup {y}
         PROVE  V(t) = (IF t \in R THEN U(t) ELSE 0) + (IF t \in {y} THEN 1 ELSE 0)
    BY <1>3, <1>4, <1>5, <1>6
  <1> HIDE DEF B
  <1>12. Counted(v) = B
    BY <1>2, <1>8, <1>10, <1>11
  <1> QED
    BY <1>12 DEF B, y

-----------------------------------------------------------------------------
(* The tuples of all leaves *)

\* The cells of the leaves among the first k pages of ns.
CellsUpTo(ns, k) ==
  {c \in Nat \X Nat : /\ c[1] \in 1 .. k /\ ns[c[1]].leaf
                      /\ c[2] \in 1 .. Len(ns[c[1]].cells)}

\* The tuple in each cell of a leaf.
Held(ns) ==
  [c \in CellsUpTo(ns, Len(ns)) |->
     <<ns[c[1]].cells[c[2]].key, ns[c[1]].cells[c[2]].value_size>>]

\* There are finitely many.
LEMMA CellsFinite ==
  ASSUME NEW ns \in Seq(PageType)
  PROVE  IsFiniteSet(DOMAIN Held(ns))
  <1> DEFINE N == Len(ns)
             T == {k \in Nat : k <= N /\ ~IsFiniteSet(CellsUpTo(ns, k))}
  <1>1. N \in Nat
    OBVIOUS
  <1>2. DOMAIN Held(ns) = CellsUpTo(ns, N)
    BY DEF Held
  <1>3. SUFFICES ASSUME T # {} PROVE FALSE
    BY <1>1, <1>2
  <1>4. PICK k \in T : \A l \in T : k <= l
    BY <1>3, LeastNat
  <1>5. CASE k = 0
    <2>1. CellsUpTo(ns, k) = {}
      BY <1>5 DEF CellsUpTo
    <2> QED
      BY <1>4, <2>1, FS_EmptySet
  <1>6. CASE k # 0
    <2>1. k - 1 \in Nat /\ k - 1 \notin T /\ k \in 1 .. N /\ k \in Nat
      BY <1>1, <1>4, <1>6
    <2>2. IsFiniteSet(CellsUpTo(ns, k - 1))
      BY <1>1, <2>1
    <2>3. Len(ns[k].cells) \in Nat
      BY <2>1, PageFields
    <2> DEFINE J == {k} \X (1 .. Len(ns[k].cells))
    <2>4. IsFiniteSet(J)
      <3>1. IsFiniteSet({k})
        BY FS_Singleton
      <3> DEFINE m == Len(ns[k].cells)
      <3>2. IsFiniteSet(1 .. m)
        <4>1. 1 \in Int /\ m \in Int
          BY <2>3
        <4> HIDE DEF m
        <4> QED
          BY ONLY <4>1, FS_Interval
      <3> QED
        BY <3>1, <3>2, FS_Product
    <2>5. IsFiniteSet(CellsUpTo(ns, k - 1) \cup J)
      BY <2>2, <2>4, FS_Union
    <2>6. CellsUpTo(ns, k) \in SUBSET (CellsUpTo(ns, k - 1) \cup J)
      <3>1. SUFFICES ASSUME NEW c \in CellsUpTo(ns, k), c \notin CellsUpTo(ns, k - 1)
                     PROVE  c \in J
        OBVIOUS
      <3>2. c \in Nat \X Nat /\ c[1] \in 1 .. k /\ ns[c[1]].leaf
            /\ c[2] \in 1 .. Len(ns[c[1]].cells)
        BY DEF CellsUpTo
      <3>3. c[1] \notin 1 .. k - 1
        BY <3>1, <3>2 DEF CellsUpTo
      <3>4. c[1] = k
        BY <2>1, <3>2, <3>3
      <3> QED
        BY <3>2, <3>4
    <2>7. IsFiniteSet(CellsUpTo(ns, k))
      BY <2>5, <2>6, FS_Subset
    <2> QED
      BY <1>4, <2>7
  <1> QED
    BY <1>5, <1>6

\* The cells of the leaves, and their tuples.
LEMMA HeldFacts ==
  ASSUME NEW ns \in Seq(PageType)
  PROVE  /\ IsFiniteSet(DOMAIN Held(ns))
         /\ \A p, i : <<p, i>> \in DOMAIN Held(ns) <=>
              p \in 1 .. Len(ns) /\ ns[p].leaf /\ i \in 1 .. Len(ns[p].cells)
         /\ \A c \in DOMAIN Held(ns) :
              /\ c = <<c[1], c[2]>>
              /\ c[1] \in 1 .. Len(ns) /\ ns[c[1]].leaf
              /\ c[2] \in 1 .. Len(ns[c[1]].cells) /\ c[2] \in Nat
              /\ Held(ns)[c] = <<ns[c[1]].cells[c[2]].key,
                                 ns[c[1]].cells[c[2]].value_size>>
  <1>1. IsFiniteSet(DOMAIN Held(ns))
    BY CellsFinite
  <1>2. DOMAIN Held(ns) = CellsUpTo(ns, Len(ns))
    BY DEF Held
  <1>3. ASSUME NEW p, NEW i
        PROVE  <<p, i>> \in CellsUpTo(ns, Len(ns)) <=>
                 p \in 1 .. Len(ns) /\ ns[p].leaf /\ i \in 1 .. Len(ns[p].cells)
    <2>1. ASSUME p \in 1 .. Len(ns), i \in 1 .. Len(ns[p].cells) PROVE p \in Nat /\ i \in Nat
      <3>1. Len(ns[p].cells) \in Nat
        BY <2>1, PageFields
      <3> QED
        BY <2>1, <3>1
    <2> QED
      BY <2>1 DEF CellsUpTo
  <1>4. ASSUME NEW c \in CellsUpTo(ns, Len(ns))
        PROVE  /\ c = <<c[1], c[2]>>
               /\ c[1] \in 1 .. Len(ns) /\ ns[c[1]].leaf
               /\ c[2] \in 1 .. Len(ns[c[1]].cells) /\ c[2] \in Nat
               /\ Held(ns)[c] = <<ns[c[1]].cells[c[2]].key,
                                  ns[c[1]].cells[c[2]].value_size>>
    BY SMTT(30) DEF CellsUpTo, Held
  <1> QED
    BY <1>1, <1>2, <1>3, <1>4

\* The store is what the leaves hold.
LEMMA StoreIsHeld ==
  ASSUME NEW ns \in Seq(PageType)
  PROVE  LET Lv == {pid \in DOMAIN ns : ns[pid].leaf}
             Cs == UNION {{<<pid, i>> : i \in DOMAIN ns[pid].cells} : pid \in Lv}
             At(c) == LET cell == ns[c[1]].cells[c[2]] IN <<cell.key, cell.value_size>>
         IN  [t \in {At(c) : c \in Cs} |-> Cardinality({c \in Cs : At(c) = t})]
               = Counted(Held(ns))
  <1> DEFINE Lv == {pid \in DOMAIN ns : ns[pid].leaf}
             Cs == UNION {{<<pid, i>> : i \in DOMAIN ns[pid].cells} : pid \in Lv}
             At(c) == <<ns[c[1]].cells[c[2]].key, ns[c[1]].cells[c[2]].value_size>>
             H == Held(ns)
  <1>1. \A p \in 1 .. Len(ns) : DOMAIN ns[p].cells = 1 .. Len(ns[p].cells)
    BY PageFields
  <1>2. /\ \A p, i : <<p, i>> \in DOMAIN H <=>
              p \in 1 .. Len(ns) /\ ns[p].leaf /\ i \in 1 .. Len(ns[p].cells)
        /\ \A c \in DOMAIN H : c = <<c[1], c[2]>> /\ H[c] = At(c)
    BY HeldFacts
  <1>3. DOMAIN ns = 1 .. Len(ns)
    OBVIOUS
  <1> HIDE DEF H
  <1>4. Cs = DOMAIN H
    <2>1. Cs \subseteq DOMAIN H
      BY <1>1, <1>2, <1>3, SMTT(30)
    <2>2. ASSUME NEW c \in DOMAIN H PROVE c \in Cs
      <3>1. c = <<c[1], c[2]>> /\ <<c[1], c[2]>> \in DOMAIN H
        BY <1>2
      <3>2. c[1] \in Lv /\ c[2] \in DOMAIN ns[c[1]].cells
        BY <1>1, <1>2, <1>3, <3>1
      <3>3. <<c[1], c[2]>> \in {<<c[1], i>> : i \in DOMAIN ns[c[1]].cells}
        BY <3>2
      <3> QED
        BY <3>1, <3>2, <3>3
    <2> QED
      BY <2>1, <2>2
  <1> HIDE DEF Cs, At
  <1>5. {At(c) : c \in Cs} = Values(H, DOMAIN H)
    BY <1>2, <1>4 DEF Values
  <1>6. \A t : {c \in Cs : At(c) = t} = Places(H, DOMAIN H, t)
    BY <1>2, <1>4 DEF Places
  <1>7. [t \in {At(c) : c \in Cs} |-> Cardinality({c \in Cs : At(c) = t})] = Counted(H)
    BY <1>5, <1>6 DEF Counted
  <1> QED
    BY <1>7 DEF Cs, At, H

\* New pages without tuples, and writes to internal nodes, leave the tuples where
\* they are.
LEMMA HeldKept ==
  ASSUME NEW ns \in Seq(PageType), NEW ms \in Seq(PageType), Len(ns) <= Len(ms),
         \A p \in 1 .. Len(ns) : (ms[p].leaf <=> ns[p].leaf) /\ (ns[p].leaf => ms[p] = ns[p]),
         \A p \in 1 .. Len(ms) : p > Len(ns) => ~ms[p].leaf \/ ms[p].cells = << >>
  PROVE  Held(ms) = Held(ns)
  <1> DEFINE N == Len(ns)
             M == Len(ms)
  <1>1. N \in Nat /\ M \in Nat
    OBVIOUS
  <1>2. CellsUpTo(ms, M) = CellsUpTo(ns, N)
    <2>1. ASSUME NEW c \in CellsUpTo(ns, N) PROVE c \in CellsUpTo(ms, M)
      <3>1. c \in Nat \X Nat /\ c[1] \in 1 .. N /\ ns[c[1]].leaf
            /\ c[2] \in 1 .. Len(ns[c[1]].cells)
        BY DEF CellsUpTo
      <3>2. c[1] \in 1 .. M /\ ms[c[1]] = ns[c[1]]
        BY <1>1, <3>1
      <3> QED
        BY <3>1, <3>2 DEF CellsUpTo
    <2>2. ASSUME NEW c \in CellsUpTo(ms, M) PROVE c \in CellsUpTo(ns, N)
      <3>1. c \in Nat \X Nat /\ c[1] \in 1 .. M /\ ms[c[1]].leaf
            /\ c[2] \in 1 .. Len(ms[c[1]].cells)
        BY DEF CellsUpTo
      <3>2. ms[c[1]].cells # << >>
        BY <3>1
      <3>3. c[1] \in 1 .. N
        BY <1>1, <3>1, <3>2
      <3>4. ns[c[1]].leaf /\ ms[c[1]] = ns[c[1]]
        BY <3>1, <3>3
      <3> QED
        BY <3>1, <3>3, <3>4 DEF CellsUpTo
    <2> QED
      BY <2>1, <2>2
  <1>3. ASSUME NEW c \in CellsUpTo(ns, N) PROVE ms[c[1]] = ns[c[1]]
    BY DEF CellsUpTo
  <1> QED
    BY <1>2, <1>3 DEF Held

\* A split moves the tuples of a leaf from the partition on to its sibling.
LEMMA HeldSplit ==
  ASSUME NEW ns \in Seq(PageType), NEW ms \in Seq(PageType), Len(ms) = Len(ns),
         NEW a \in 1 .. Len(ns), NEW b \in 1 .. Len(ns), a # b,
         ns[a].leaf, ms[a].leaf, ms[b].leaf, ns[b].cells = << >>,
         \A p \in 1 .. Len(ns) : p # a /\ p # b => ms[p] = ns[p],
         NEW P \in Nat, P <= Len(ns[a].cells), Len(ms[a].cells) = P,
         Len(ms[b].cells) = Len(ns[a].cells) - P,
         \A i \in 1 .. P : ms[a].cells[i] = ns[a].cells[i],
         \A i \in 1 .. Len(ns[a].cells) - P :
           /\ ms[b].cells[i].key = ns[a].cells[i + P].key
           /\ ms[b].cells[i].value_size = ns[a].cells[i + P].value_size
  PROVE  Counted(Held(ms)) = Counted(Held(ns))
  <1> DEFINE u == Held(ns)
             v == Held(ms)
             M == Len(ns[a].cells)
             to(c) == IF c[1] = a /\ c[2] > P THEN <<b, c[2] - P>> ELSE c
             f == [c \in DOMAIN u |-> to(c)]
  <1>1. M \in Nat /\ a \in Nat /\ b \in Nat
    BY PageFields
  <1>2. /\ IsFiniteSet(DOMAIN u)
        /\ \A p, i : <<p, i>> \in DOMAIN u <=>
             p \in 1 .. Len(ns) /\ ns[p].leaf /\ i \in 1 .. Len(ns[p].cells)
        /\ \A c \in DOMAIN u :
             /\ c = <<c[1], c[2]>>
             /\ c[1] \in 1 .. Len(ns) /\ ns[c[1]].leaf
             /\ c[2] \in 1 .. Len(ns[c[1]].cells) /\ c[2] \in Nat
             /\ u[c] = <<ns[c[1]].cells[c[2]].key, ns[c[1]].cells[c[2]].value_size>>
    BY HeldFacts
  <1>3. /\ \A p, i : <<p, i>> \in DOMAIN v <=>
             p \in 1 .. Len(ns) /\ ms[p].leaf /\ i \in 1 .. Len(ms[p].cells)
        /\ \A c \in DOMAIN v :
             /\ c = <<c[1], c[2]>>
             /\ c[1] \in 1 .. Len(ns) /\ ms[c[1]].leaf
             /\ c[2] \in 1 .. Len(ms[c[1]].cells) /\ c[2] \in Nat
             /\ v[c] = <<ms[c[1]].cells[c[2]].key, ms[c[1]].cells[c[2]].value_size>>
    BY HeldFacts
  <1> HIDE DEF u, v
  <1>4. ASSUME NEW c \in DOMAIN u
        PROVE  /\ c[1] # b /\ to(c) \in DOMAIN v /\ v[to(c)] = u[c]
    <2>1. /\ c = <<c[1], c[2]>>
          /\ c[1] \in 1 .. Len(ns) /\ ns[c[1]].leaf
          /\ c[2] \in 1 .. Len(ns[c[1]].cells) /\ c[2] \in Nat
          /\ u[c] = <<ns[c[1]].cells[c[2]].key, ns[c[1]].cells[c[2]].value_size>>
      BY <1>2
    <2>2. c[1] # b
      BY <2>1
    <2>3. CASE c[1] # a
      <3>1. to(c) = c /\ ms[c[1]] = ns[c[1]]
        BY <2>1, <2>2, <2>3
      <3>2. c \in DOMAIN v
        BY <1>3, <2>1, <3>1, SMTT(30)
      <3> QED
        BY <1>3, <2>1, <2>2, <3>1, <3>2, SMTT(30)
    <2>4. CASE c[1] = a /\ ~(c[2] > P)
      <3>1. to(c) = c /\ c[2] \in 1 .. P
        BY <2>1, <2>4
      <3>2. <<a, c[2]>> \in DOMAIN v
        BY <1>3, <3>1
      <3>3. c \in DOMAIN v /\ ms[a].cells[c[2]] = ns[a].cells[c[2]]
        BY <2>1, <2>4, <3>1, <3>2
      <3>4. v[c] = <<ms[a].cells[c[2]].key, ms[a].cells[c[2]].value_size>>
        BY <1>3, <2>4, <3>3
      <3>5. v[c] = u[c]
        BY <2>1, <2>4, <3>3, <3>4
      <3> HIDE DEF to
      <3> QED
        BY <2>2, <3>1, <3>3, <3>5
    <2>5. CASE c[1] = a /\ c[2] > P
      <3> DEFINE j == c[2] - P
                 d == <<b, j>>
      <3>1. to(c) = d
        BY <2>5
      <3>2. j \in 1 .. M - P /\ j + P = c[2]
        BY <1>1, <2>1, <2>5, SMTT(30)
      <3>3. d \in DOMAIN v /\ d[1] = b /\ d[2] = j
        BY <1>3, <3>2
      <3> HIDE DEF j
      <3>4. v[d] = <<ms[b].cells[j].key, ms[b].cells[j].value_size>>
        BY <1>3, <3>3, SMTT(30)
      <3>5. /\ ms[b].cells[j].key = ns[a].cells[c[2]].key
            /\ ms[b].cells[j].value_size = ns[a].cells[c[2]].value_size
        BY <3>2
      <3>6. v[d] = u[c]
        BY <2>1, <2>5, <3>4, <3>5
      <3> HIDE DEF d, to
      <3> QED
        BY <2>2, <3>1, <3>3, <3>6
    <2> QED
      BY <2>3, <2>4, <2>5
  <1>5. ASSUME NEW c \in DOMAIN u, NEW d \in DOMAIN u, to(c) = to(d) PROVE c = d
    <2>1. /\ c = <<c[1], c[2]>> /\ c[2] \in Nat /\ c[1] # b
          /\ d = <<d[1], d[2]>> /\ d[2] \in Nat /\ d[1] # b
      BY <1>2, <1>4
    <2>2. to(c)[1] = b <=> c[1] = a /\ c[2] > P
      BY <2>1
    <2>3. to(d)[1] = b <=> d[1] = a /\ d[2] > P
      BY <2>1
    <2>4. CASE to(c)[1] = b
      <3>1. c[2] - P = d[2] - P /\ c[1] = a /\ d[1] = a
        BY <1>5, <2>2, <2>3, <2>4
      <3>2. c[2] = d[2]
        BY <2>1, <3>1
      <3> QED
        BY <2>1, <3>1, <3>2, SMTT(30)
    <2>5. CASE to(c)[1] # b
      BY <1>5, <2>2, <2>3, <2>5
    <2> QED
      BY <2>4, <2>5
  <1>6. ASSUME NEW d \in DOMAIN v PROVE \E c \in DOMAIN u : to(c) = d
    <2>1. /\ d = <<d[1], d[2]>>
          /\ d[1] \in 1 .. Len(ns) /\ ms[d[1]].leaf
          /\ d[2] \in 1 .. Len(ms[d[1]].cells) /\ d[2] \in Nat
      BY <1>3
    <2>2. CASE d[1] # a /\ d[1] # b
      <3>1. d \in DOMAIN u /\ to(d) = d
        BY <1>2, <2>1, <2>2
      <3> QED
        BY <3>1
    <2>3. CASE d[1] = a
      <3>1. d[2] \in 1 .. P /\ d[2] \in 1 .. M /\ ~(d[2] > P)
        BY <1>1, <2>1, <2>3
      <3>2. <<a, d[2]>> \in DOMAIN u
        BY <1>2, <3>1
      <3>3. d \in DOMAIN u /\ to(d) = d
        BY <2>1, <2>3, <3>1, <3>2
      <3> QED
        BY <3>3
    <2>4. CASE d[1] = b
      <3> DEFINE j == d[2] + P
                 c == <<a, j>>
      <3>1. j \in 1 .. M /\ j > P /\ j - P = d[2]
        BY <1>1, <2>1, <2>4, SMTT(30)
      <3> HIDE DEF j
      <3>2. c \in DOMAIN u
        BY <1>2, <3>1
      <3>3. to(c) = <<b, d[2]>>
        BY <3>1
      <3> QED
        BY <2>1, <2>4, <3>2, <3>3
    <2> QED
      BY <2>2, <2>3, <2>4
  <1> HIDE DEF to
  <1>7. Carries(f, u, DOMAIN v, v)
    BY <1>4, <1>5, <1>6 DEF Carries
  <1> QED
    BY <1>2, <1>7, CountedSame DEF u, v

\* A tuple that goes into a leaf moves those behind it up.
LEMMA HeldMore ==
  ASSUME NEW ns \in Seq(PageType), NEW ms \in Seq(PageType), Len(ms) = Len(ns),
         NEW a \in 1 .. Len(ns), ns[a].leaf, ms[a].leaf,
         \A p \in 1 .. Len(ns) : p # a => ms[p] = ns[p],
         NEW P \in 0 .. Len(ns[a].cells), Len(ms[a].cells) = Len(ns[a].cells) + 1,
         \A i \in 1 .. P : ms[a].cells[i] = ns[a].cells[i],
         \A i \in P + 2 .. Len(ns[a].cells) + 1 : ms[a].cells[i] = ns[a].cells[i - 1]
  PROVE  Counted(Held(ms)) = Counted(Held(ns)) (+)
           SetToBag({<<ms[a].cells[P + 1].key, ms[a].cells[P + 1].value_size>>})
  <1> DEFINE u == Held(ns)
             v == Held(ms)
             M == Len(ns[a].cells)
             x == <<a, P + 1>>
             to(c) == IF c[1] = a /\ c[2] > P THEN <<a, c[2] + 1>> ELSE c
             f == [c \in DOMAIN u |-> to(c)]
  <1>1. M \in Nat /\ a \in Nat /\ P \in Nat /\ P <= M
    BY PageFields
  <1>2. /\ IsFiniteSet(DOMAIN u)
        /\ \A p, i : <<p, i>> \in DOMAIN u <=>
             p \in 1 .. Len(ns) /\ ns[p].leaf /\ i \in 1 .. Len(ns[p].cells)
        /\ \A c \in DOMAIN u :
             /\ c = <<c[1], c[2]>>
             /\ c[1] \in 1 .. Len(ns) /\ ns[c[1]].leaf
             /\ c[2] \in 1 .. Len(ns[c[1]].cells) /\ c[2] \in Nat
             /\ u[c] = <<ns[c[1]].cells[c[2]].key, ns[c[1]].cells[c[2]].value_size>>
    BY HeldFacts
  <1>3. /\ \A p, i : <<p, i>> \in DOMAIN v <=>
             p \in 1 .. Len(ns) /\ ms[p].leaf /\ i \in 1 .. Len(ms[p].cells)
        /\ \A c \in DOMAIN v :
             /\ c = <<c[1], c[2]>>
             /\ c[1] \in 1 .. Len(ns) /\ ms[c[1]].leaf
             /\ c[2] \in 1 .. Len(ms[c[1]].cells) /\ c[2] \in Nat
             /\ v[c] = <<ms[c[1]].cells[c[2]].key, ms[c[1]].cells[c[2]].value_size>>
    BY HeldFacts
  <1> HIDE DEF u, v
  <1>4. /\ x \in DOMAIN v
        /\ v[x] = <<ms[a].cells[P + 1].key, ms[a].cells[P + 1].value_size>>
    <2>1. P + 1 \in 1 .. M + 1
      BY <1>1
    <2>2. x \in DOMAIN v /\ x[1] = a /\ x[2] = P + 1
      BY <1>3, <2>1
    <2> HIDE DEF x
    <2> QED
      BY <1>3, <2>2
  <1>5. ASSUME NEW c \in DOMAIN u
        PROVE  to(c) \in DOMAIN v \ {x} /\ v[to(c)] = u[c]
    <2>1. /\ c = <<c[1], c[2]>>
          /\ c[1] \in 1 .. Len(ns) /\ ns[c[1]].leaf
          /\ c[2] \in 1 .. Len(ns[c[1]].cells) /\ c[2] \in Nat
          /\ u[c] = <<ns[c[1]].cells[c[2]].key, ns[c[1]].cells[c[2]].value_size>>
      BY <1>2
    <2>2. CASE c[1] # a
      <3>1. to(c) = c /\ ms[c[1]] = ns[c[1]] /\ c # x
        BY <2>1, <2>2
      <3>2. c \in DOMAIN v
        BY <1>3, <2>1, <3>1
      <3> QED
        BY <1>3, <2>1, <3>1, <3>2
    <2>3. CASE c[1] = a /\ ~(c[2] > P)
      <3>1. to(c) = c /\ c[2] \in 1 .. P /\ c[2] \in 1 .. M + 1 /\ c[2] # P + 1
        BY <1>1, <2>1, <2>3
      <3>2. <<a, c[2]>> \in DOMAIN v
        BY <1>3, <3>1
      <3>3. c \in DOMAIN v /\ ms[a].cells[c[2]] = ns[a].cells[c[2]] /\ c # x
        BY <2>1, <2>3, <3>1, <3>2
      <3>4. v[c] = <<ms[a].cells[c[2]].key, ms[a].cells[c[2]].value_size>>
        BY <1>3, <2>3, <3>3
      <3>5. v[c] = u[c]
        BY <2>1, <2>3, <3>3, <3>4
      <3> HIDE DEF to, x
      <3> QED
        BY <3>1, <3>3, <3>5
    <2>4. CASE c[1] = a /\ c[2] > P
      <3> DEFINE j == c[2] + 1
                 d == <<a, j>>
      <3>1. to(c) = d
        BY <2>4
      <3>2. j \in P + 2 .. M + 1 /\ j \in 1 .. M + 1 /\ j - 1 = c[2] /\ j # P + 1
        BY <1>1, <2>1, <2>4
      <3>3. d \in DOMAIN v /\ d[1] = a /\ d[2] = j /\ d # x
        BY <1>3, <3>2
      <3> HIDE DEF j
      <3>4. v[d] = <<ms[a].cells[j].key, ms[a].cells[j].value_size>>
        BY <1>3, <3>3
      <3>5. ms[a].cells[j] = ns[a].cells[c[2]]
        BY <3>2
      <3>6. v[d] = u[c]
        BY <2>1, <2>4, <3>4, <3>5
      <3> HIDE DEF d, to, x
      <3> QED
        BY <3>1, <3>3, <3>6
    <2> QED
      BY <2>2, <2>3, <2>4
  <1>6. ASSUME NEW c \in DOMAIN u, NEW d \in DOMAIN u, to(c) = to(d) PROVE c = d
    <2>1. /\ c = <<c[1], c[2]>> /\ c[2] \in Nat
          /\ d = <<d[1], d[2]>> /\ d[2] \in Nat
      BY <1>2
    <2>2. to(c)[1] = c[1] /\ to(d)[1] = d[1]
      BY <2>1
    <2>3. CASE c[1] # a
      BY <1>6, <2>2, <2>3
    <2>4. CASE c[1] = a
      <3>1. d[1] = a
        BY <1>6, <2>2, <2>4
      <3>2. /\ to(c)[2] = IF c[2] > P THEN c[2] + 1 ELSE c[2]
            /\ to(d)[2] = IF d[2] > P THEN d[2] + 1 ELSE d[2]
        BY <2>1, <2>4, <3>1
      <3>3. c[2] = d[2]
        BY <1>1, <1>6, <2>1, <3>2
      <3> QED
        BY <2>1, <2>4, <3>1, <3>3
    <2> QED
      BY <2>3, <2>4
  <1>7. ASSUME NEW d \in DOMAIN v \ {x} PROVE \E c \in DOMAIN u : to(c) = d
    <2>1. /\ d = <<d[1], d[2]>>
          /\ d[1] \in 1 .. Len(ns) /\ ms[d[1]].leaf
          /\ d[2] \in 1 .. Len(ms[d[1]].cells) /\ d[2] \in Nat
      BY <1>3
    <2>2. CASE d[1] # a
      <3>1. d \in DOMAIN u /\ to(d) = d
        BY <1>2, <2>1, <2>2
      <3> QED
        BY <3>1
    <2>3. CASE d[1] = a /\ d[2] <= P
      <3>1. d[2] \in 1 .. M /\ ~(d[2] > P)
        BY <1>1, <2>1, <2>3
      <3>2. <<a, d[2]>> \in DOMAIN u
        BY <1>2, <3>1
      <3>3. d \in DOMAIN u /\ to(d) = d
        BY <2>1, <2>3, <3>1, <3>2
      <3> QED
        BY <3>3
    <2>4. CASE d[1] = a /\ ~(d[2] <= P)
      <3> DEFINE j == d[2] - 1
                 c == <<a, j>>
      <3>1. d[2] # P + 1
        BY <2>1, <2>4
      <3>2. j \in 1 .. M /\ j > P /\ j + 1 = d[2]
        BY <1>1, <2>1, <2>4, <3>1
      <3> HIDE DEF j
      <3>3. c \in DOMAIN u
        BY <1>2, <3>2
      <3>4. to(c) = <<a, d[2]>>
        BY <3>2
      <3> QED
        BY <2>1, <2>4, <3>3, <3>4
    <2> QED
      BY <2>2, <2>3, <2>4
  <1> HIDE DEF to, x
  <1> DEFINE D == DOMAIN v \ {x}
  <1>8. Carries(f, u, D, v)
    BY <1>5, <1>6, <1>7 DEF Carries
  <1> HIDE DEF f
  <1>9. Counted(v) = Counted(u) (+) SetToBag({v[x]})
    <2>1. D = DOMAIN v \ {x}
      OBVIOUS
    <2>2. IsFiniteSet(DOMAIN u)
      BY <1>2
    <2>3. x \in DOMAIN v
      BY <1>4
    <2> HIDE DEF D
    <2> QED
      BY ONLY <2>2, <2>3, <1>8, <2>1, CountedMore
  <1> QED
    BY <1>4, <1>9 DEF u, v

\* A step other than the two that write leaves.
LEMMA HeldByRest ==
  ASSUME IndInv, IndInv', [Next]_vars, ~write_leaf, ~insert_tuple
  PROVE  Held(nodes') = Held(nodes) /\ count' = count
  <1>1. nodes \in Seq(PageType) /\ nodes' \in Seq(PageType) /\ Len(nodes) \in Nat
    BY DEF IndInv, TypeInv
  <1>2. ASSUME nodes' = nodes PROVE Held(nodes') = Held(nodes)
    BY <1>2
  <1>3. ASSUME NEW n, n.leaf => n.cells = << >>, nodes' = Append(nodes, n)
        PROVE  Held(nodes') = Held(nodes)
    <2>1. Len(nodes') = Len(nodes) + 1 /\ nodes'[Len(nodes) + 1] = n
          /\ \A p \in 1 .. Len(nodes) : nodes'[p] = nodes[p]
      BY <1>1, <1>3
    <2>2. Len(nodes) <= Len(nodes')
          /\ \A p \in 1 .. Len(nodes') : p > Len(nodes) => nodes'[p] = n
      BY <1>1, <2>1
    <2>3. /\ \A p \in 1 .. Len(nodes) : /\ nodes'[p].leaf <=> nodes[p].leaf
                                        /\ nodes[p].leaf => nodes'[p] = nodes[p]
          /\ \A p \in 1 .. Len(nodes') :
               p > Len(nodes) => ~nodes'[p].leaf \/ nodes'[p].cells = << >>
      BY <1>3, <2>1, <2>2
    <2> QED
      BY ONLY <1>1, <2>2, <2>3, HeldKept
  <1>4. ASSUME NEW t \in Tuples, btree_insert(t[1], t[2])
        PROVE  nodes' = nodes /\ count' = count
    BY <1>4 DEF btree_insert
  <1>5. CASE refuse \/ follow \/ leaf_has_room \/ mark_room \/ top_has_room
    <2>1. nodes' = nodes /\ count' = count
      BY <1>5 DEF refuse, follow, leaf_has_room, mark_room, top_has_room
    <2> QED
      BY <1>2, <2>1
  <1>6. CASE leaf_is_full
    <2>1. count' = count /\ (nodes' = nodes \/ nodes' = Append(nodes, node_init(TRUE)))
      BY <1>6 DEF leaf_is_full
    <2>2. node_init(TRUE).cells = << >>
      BY DEF node_init
    <2> QED
      BY <1>2, <1>3, <2>1, <2>2
  <1>7. CASE mark_full
    <2>1. count' = count /\ (nodes' = nodes \/ nodes' = Append(nodes, node_init(FALSE)))
      BY <1>7 DEF mark_full
    <2>2. node_init(FALSE).cells = << >>
      BY DEF node_init
    <2> QED
      BY <1>2, <1>3, <2>1, <2>2
  <1>8. CASE split_root
    <2> DEFINE n == new_root(breadcrumbs[1])
    <2>1. count' = count /\ nodes' = Append(nodes, n)
      BY <1>8 DEF split_root
    <2>2. ~n.leaf
      BY DEF new_root, node_insert_internal_cell, node_insert_cell, take_free_offset,
             node_init
    <2> HIDE DEF n
    <2> QED
      BY <1>3, <2>1, <2>2
  <1>9. CASE write_internal
    <2>1. PICK h : Shape(h)
      BY DEF IndInv
    <2> DEFINE bc == breadcrumbs[bc_idx]
               below == breadcrumbs[bc_idx + 1]
               ckey == partition_key(below)
               split == split_nodes(bc)
               f == split[bc.f_node]
               idx == node_bin_search(f, ckey).idx
               ms == [split EXCEPT ![bc.f_node] =
                        linked(f, idx, ckey, below.node, below.new_node)]
               e == h[bc.node]
    <2>2. TypeInv /\ pc = "write" /\ ~nodes[bc.node].leaf
      BY <1>9 DEF IndInv, write_internal
    <2>3. /\ count' = count
          /\ IF node_get_free_offset(f, Len(ckey), 0) = 0
             THEN UNCHANGED nodes ELSE nodes' = ms
      BY <1>9, Zenon DEF write_internal
    <2>4. /\ ms \in Seq(PageType) /\ Len(ms) = Len(nodes)
          /\ \A p \in 1 .. Len(nodes) : /\ h[p] # e => ms[p] = nodes[p]
                                        /\ PageOk(ms[p], h[p], h, LeafKeys(nodes))
      BY <2>1, <2>2, InternalWritten
    <2>5. nodes' = nodes \/ nodes' = ms
      BY <2>3
    <2> HIDE DEF ms
    <2>6. bc.node \in 1 .. Len(nodes) /\ PagesOk(nodes, h)
      BY <2>1, <2>2, WriteFacts
    <2>7. \A p \in 1 .. Len(nodes) : nodes[p].leaf <=> h[p] = 0
      BY <2>6 DEF PagesOk, PageOk
    <2>8. e # 0
      BY <2>2, <2>6, <2>7
    <2>9. \A p \in 1 .. Len(nodes) : /\ ms[p].leaf <=> nodes[p].leaf
                                     /\ nodes[p].leaf => ms[p] = nodes[p]
      BY <2>4, <2>7, <2>8 DEF PageOk
    <2>10. Held(ms) = Held(nodes)
      <3>1. Len(nodes) <= Len(ms) /\ \A p \in 1 .. Len(ms) : ~(p > Len(nodes))
        BY <1>1, <2>4
      <3> QED
        BY <1>1, <2>4, <2>9, <3>1, HeldKept
    <2> QED
      BY <2>3, <2>5, <2>10
  <1>10. CASE UNCHANGED vars
    BY <1>10 DEF vars
  <1> QED
    BY <1>2, <1>4, <1>5, <1>6, <1>7, <1>8, <1>9, <1>10 DEF Next

\* The split of a leaf.
LEMMA HeldBySplit ==
  ASSUME IndInv, write_leaf
  PROVE  Counted(Held(nodes')) = Counted(Held(nodes)) /\ count' = count
  <1>1. PICK h : Shape(h)
    BY DEF IndInv
  <1> DEFINE bc == breadcrumbs[bc_idx]
             ms == split_nodes(bc)
             a == bc.node
             b == bc.new_node
             P == bc.partition_idx
  <1>2. TypeInv /\ pc = "write" /\ nodes[bc.node].leaf
    BY DEF IndInv, write_leaf
  <1>3. count' = count /\ nodes' = ms
    BY DEF write_leaf
  <1>4. /\ nodes \in Seq(PageType) /\ PagesOk(nodes, h) /\ bc \in CrumbType
        /\ bc.node \in 1 .. Len(nodes) /\ Marked(nodes, h, bc)
        /\ bc_idx = Len(breadcrumbs)
    BY <1>1, <1>2, WriteFacts
  <1>5. bc.is_full /\ h[bc.node] = 0
    BY <1>1, <1>2, <1>4, MarkFacts
  <1>6. /\ b \in 1 .. Len(nodes) /\ a # b /\ nodes[b].cells = << >>
        /\ P \in 0 .. Len(nodes[a].cells) - 1 /\ Len(nodes[a].cells) \in Nat
    BY <1>2, <1>4, <1>5, CrumbPages
  <1>7. /\ ms \in Seq(PageType) /\ Len(ms) = Len(nodes)
        /\ \A p \in 1 .. Len(nodes) : p # a /\ p # b => ms[p] = nodes[p]
        /\ PageOk(ms[a], h[a], h, LeafKeys(nodes))
        /\ PageOk(ms[b], h[a], h, LeafKeys(nodes))
        /\ Len(ms[a].cells) = P
        /\ \A i \in 1 .. P : ms[a].cells[i] = nodes[a].cells[i]
        /\ Len(ms[b].cells) = Len(nodes[a].cells) - P
        /\ \A i \in 1 .. Len(nodes[a].cells) - P :
             /\ ms[b].cells[i].key = nodes[a].cells[i + P].key
             /\ ms[b].cells[i].value_size = nodes[a].cells[i + P].value_size
    BY <1>2, <1>4, <1>5, LeafHalves
  <1> HIDE DEF ms
  <1>8. ms[a].leaf /\ ms[b].leaf /\ nodes[a].leaf /\ a \in 1 .. Len(nodes)
    BY <1>2, <1>4, <1>5, <1>7 DEF PageOk
  <1>9. P \in Nat /\ P <= Len(nodes[a].cells)
    BY <1>6
  <1> HIDE DEF a, b, P, bc
  <1>10. Counted(Held(ms)) = Counted(Held(nodes))
    BY ONLY <1>4, <1>6, <1>7, <1>8, <1>9, HeldSplit
  <1> QED
    BY <1>3, <1>10

\* The tuple that is inserted.
LEMMA HeldByInsert ==
  ASSUME IndInv, insert_tuple
  PROVE  \/ nodes' = nodes /\ count' = count
         \/ /\ <<key, value_size>> \in Tuples
            /\ count' = count + 1
            /\ Counted(Held(nodes'))
                 = Counted(Held(nodes)) (+) SetToBag({<<key, value_size>>})
  <1>1. PICK h : Shape(h)
    BY DEF IndInv
  <1> DEFINE a == leaf_node
             n == nodes[a]
             P == node_bin_search(n, key).idx
             m == node_insert_leaf_cell(n, P, key, value_size)
             ms == [nodes EXCEPT ![a] = m]
  <1>2. TypeInv /\ pc = "insert"
    BY DEF IndInv, insert_tuple
  <1>3. \/ nodes' = nodes /\ count' = count
        \/ nodes' = ms /\ count' = count + 1
    BY Zenon DEF insert_tuple
  <1>4. /\ a \in 1 .. Len(nodes) /\ n.leaf /\ m.leaf
        /\ ms \in Seq(PageType) /\ Len(ms) = Len(nodes)
        /\ ms[a] = m
        /\ \A p \in 1 .. Len(nodes) : p # a => ms[p] = nodes[p]
        /\ P \in 0 .. Len(n.cells) /\ Len(n.cells) \in Nat
        /\ Len(m.cells) = Len(n.cells) + 1
        /\ m.cells[P + 1].key = key /\ m.cells[P + 1].value_size = value_size
        /\ \A i \in 1 .. P : m.cells[i] = n.cells[i]
        /\ \A i \in P + 2 .. Len(n.cells) + 1 : m.cells[i] = n.cells[i - 1]
    BY <1>1, <1>2, TupleIn
  <1>5. nodes \in Seq(PageType) /\ <<key, value_size>> \in Tuples
    BY <1>2 DEF TypeInv
  <1> HIDE DEF ms, m, P
  <1>6. /\ ms[a].leaf /\ nodes[a].leaf /\ P \in 0 .. Len(nodes[a].cells)
        /\ Len(ms[a].cells) = Len(nodes[a].cells) + 1
        /\ ms[a].cells[P + 1].key = key /\ ms[a].cells[P + 1].value_size = value_size
        /\ \A i \in 1 .. P : ms[a].cells[i] = nodes[a].cells[i]
        /\ \A i \in P + 2 .. Len(nodes[a].cells) + 1 :
             ms[a].cells[i] = nodes[a].cells[i - 1]
    BY <1>4
  <1> HIDE DEF a
  <1> DEFINE t == <<ms[a].cells[P + 1].key, ms[a].cells[P + 1].value_size>>
  <1>7. Counted(Held(ms)) = Counted(Held(nodes)) (+) SetToBag({t})
    BY ONLY <1>4, <1>5, <1>6, HeldMore, ZenonT(40)
  <1>8. t = <<key, value_size>>
    BY <1>6
  <1> QED
    BY <1>3, <1>5, <1>7, <1>8

\* The tree implements the store of the tuples that its leaves hold, those that
\* splits made unreachable included: whatever a call splits, allocates and moves,
\* none is lost or doubled, and the call adds the tuple it was given, or none.
THEOREM TreeIsStore == Spec => ImplementsStore
  <1> DEFINE St == [t \in {TupleAt(c) : c \in Cells} |->
                      Cardinality({c \in Cells : TupleAt(c) = t})]
  <1>1. IndInv => St = Counted(Held(nodes))
    <2>1. SUFFICES ASSUME IndInv PROVE St = Counted(Held(nodes))
      OBVIOUS
    <2>2. nodes \in Seq(PageType)
      BY <2>1 DEF IndInv, TypeInv
    <2> QED
      BY <2>2, StoreIsHeld DEF Cells, Leaves, TupleAt
  <1>2. Init => Abstract!StoreInit
    <2>1. SUFFICES ASSUME Init PROVE Abstract!StoreInit
      OBVIOUS
    <2>2. St = Counted(Held(nodes)) /\ nodes \in Seq(PageType)
      BY <1>1, <2>1, InitHolds DEF IndInv, TypeInv
    <2>3. /\ \A c \in DOMAIN Held(nodes) :
               c[1] \in 1 .. Len(nodes) /\ c[2] \in 1 .. Len(nodes[c[1]].cells)
      BY <2>2, HeldFacts
    <2>4. Len(nodes) = 1 /\ nodes[1].cells = << >> /\ count = 0
      BY <2>1 DEF Init, node_init
    <2>5. DOMAIN Held(nodes) = {}
      BY <2>3, <2>4
    <2>6. Values(Held(nodes), DOMAIN Held(nodes)) = {}
      BY <2>5 DEF Values
    <2>7. Counted(Held(nodes)) = [x \in {} |-> 1]
      BY <2>6 DEF Counted
    <2>8. St = [x \in {} |-> 1]
      BY <2>2, <2>7
    <2> HIDE DEF St
    <2> QED
      BY <2>4, <2>8, Zenon DEF St, Abstract!StoreInit, Abstract!EmptyBag, Abstract!SetToBag
  <1>3. IndInv /\ IndInv' /\ [Next]_vars => [Abstract!StoreNext]_<<St, count>>
    <2>1. SUFFICES ASSUME IndInv, IndInv', [Next]_vars
                   PROVE  [Abstract!StoreNext]_<<St, count>>
      OBVIOUS
    <2>2. St = Counted(Held(nodes))
      BY <1>1, <2>1
    <2>3. St' = Counted(Held(nodes'))
      <3>1. nodes' \in Seq(PageType)
        BY <2>1 DEF IndInv, TypeInv
      <3> QED
        BY <3>1, StoreIsHeld DEF Cells, Leaves, TupleAt
    <2> HIDE DEF St
    <2>4. CASE ~write_leaf /\ ~insert_tuple
      BY <2>1, <2>2, <2>3, <2>4, HeldByRest
    <2>5. CASE write_leaf
      BY <2>1, <2>2, <2>3, <2>5, HeldBySplit
    <2>6. CASE insert_tuple
      <3>1. CASE nodes' = nodes /\ count' = count
        BY <2>2, <2>3, <3>1
      <3>2. CASE /\ <<key, value_size>> \in Tuples
                 /\ count' = count + 1
                 /\ Counted(Held(nodes'))
                      = Counted(Held(nodes)) (+) SetToBag({<<key, value_size>>})
        <4> DEFINE t == <<key, value_size>>
        <4>1. t \in Tuples /\ count' = count + 1 /\ St' = St (+) SetToBag({t})
          BY <2>2, <2>3, <3>2
        <4> HIDE DEF t
        <4>2. Abstract!put(t)
          BY <4>1, Zenon DEF Abstract!put, Abstract!(+), (+), Abstract!SetToBag, SetToBag, St
        <4> QED
          BY <4>1, <4>2, Zenon DEF Abstract!StoreNext
      <3> QED
        BY <2>1, <2>6, <3>1, <3>2, HeldByInsert
    <2> QED
      BY <2>4, <2>5, <2>6
  <1>4. Spec => Abstract!StoreInit /\ [][Abstract!StoreNext]_<<St, count>>
    BY <1>2, <1>3, Inductive, PTL DEF Spec
  <1> QED
    BY <1>4, PTL DEF ImplementsStore, Abstract!StoreSpec

-----------------------------------------------------------------------------
(* The root *)

\* What a call knows of the root: its breadcrumbs begin with it, until a full
\* root gets a new one above it; pages that are to be filled are not the root.
\* A root that is no leaf has a rightmost child.
RootInv ==
  /\ ~nodes[root].leaf => nodes[root].rightmost # NULL
  /\ pc \in {"descend", "propagate"} => breadcrumbs[1].node = root
  /\ pc = "descend" =>
       \A i \in 1 .. Len(breadcrumbs) : ~breadcrumbs[i].is_full
  /\ pc = "propagate" => \A i \in 1 .. bc_idx : ~breadcrumbs[i].is_full
  /\ pc \in {"propagate", "write"} =>
       \A i \in low .. Len(breadcrumbs) :
         breadcrumbs[i].is_full => breadcrumbs[i].new_node # root
  /\ pc = "write" =>
       IF breadcrumbs[1].is_full
       THEN /\ ~nodes[root].leaf /\ Len(nodes[root].cells) = 1
            /\ nodes[root].cells[1].child = breadcrumbs[1].node
            /\ nodes[root].rightmost = breadcrumbs[1].new_node
       ELSE breadcrumbs[1].node = root

-----------------------------------------------------------------------------
(* Trees of one and of two levels *)

\* The places for children of an internal node, and the children.
Slots(n) == 1 .. Len(n.cells) + 1

slot(n, j) == IF j <= Len(n.cells) THEN n.cells[j].child ELSE n.rightmost

\* Key k is between the separators on both sides of place j, or equal to one.
InRange(n, j, k) ==
  /\ j # 1 => ~Before(k, n.cells[j - 1].key)
  /\ j <= Len(n.cells) => ~Before(n.cells[j].key, k)

SlotsDiffer(n) == \A i, j \in Slots(n) : slot(n, i) = slot(n, j) => i = j

SlotsRanged(ns, n) ==
  \A j \in Slots(n) :
    /\ slot(n, j) \in 1 .. Len(ns) /\ ns[slot(n, j)].leaf
    /\ \A i \in 1 .. Len(ns[slot(n, j)].cells) :
         InRange(n, j, ns[slot(n, j)].cells[i].key)

\* Page p, if it is a leaf and not empty, is a child of n.
Linked(ns, n, p) ==
  ns[p].leaf /\ ns[p].cells # << >> => \E j \in Slots(n) : slot(n, j) = p

SlotsAll(ns, n) == \A p \in 1 .. Len(ns) : Linked(ns, n, p)

Filled(ns, n) == [j \in Slots(n) |-> Len(ns[slot(n, j)].cells)]

\* Node n and its children are a search tree of all c tuples of the pages ns.
TwoOk(ns, n, c) ==
  /\ SlotsDiffer(n) /\ SlotsRanged(ns, n) /\ SlotsAll(ns, n)
  /\ SumUpTo(Filled(ns, n), Len(n.cells) + 1) = c

\* All c tuples of the pages ns are in leaf r.
OneOk(ns, r, c) ==
  /\ Len(ns[r].cells) = c
  /\ \A p \in 1 .. Len(ns) : ns[p].leaf /\ ns[p].cells # << >> => p = r

SoundTree(ns, r, c) ==
  IF ns[r].leaf THEN OneOk(ns, r, c) ELSE TwoOk(ns, ns[r], c)

\* Page p is where key k belongs in the tree with root n, which is page r.
Leads(n, r, p, k) ==
  IF n.leaf THEN p = r ELSE \E j \in Slots(n) : slot(n, j) = p /\ InRange(n, j, k)

KeysDiffer(cells) ==
  \A i, j \in 1 .. Len(cells) : cells[i].key = cells[j].key => i = j

\* The tree with root r has at most two levels, and no separator twice.
Small(ns, r) ==
  ~ns[r].leaf => ns[ns[r].rightmost].leaf /\ KeysDiffer(ns[r].cells)

\* The pages ns after the leaf of bc was split.
SplitOf(ns, bc) ==
  [ns EXCEPT
     ![bc.node] = node_cut(ns[bc.node], bc.partition_idx),
     ![bc.new_node] = node_of(TRUE, leaf_moved(ns[bc.node], bc.partition_idx))]

\* The halves of the leaf are not in the tree yet, or are but not yet written.
leaf_crumb == breadcrumbs[Len(breadcrumbs)]

linking == pc = "propagate" \/ (pc = "write" /\ bc_idx < Len(breadcrumbs))

writing == pc = "write" /\ bc_idx = Len(breadcrumbs)

\* The leaf that is to be split is where the key belongs, the tuple will go to
\* the right half of it, and the new half is not in the tree.
LinkOk ==
  /\ Leads(nodes[root], root, leaf_crumb.node, key)
  /\ leaf_node = IF key_compare(partition_key(leaf_crumb), key) < 0
                 THEN leaf_crumb.new_node ELSE leaf_crumb.node
  /\ ~nodes[root].leaf =>
       \A j \in Slots(nodes[root]) : slot(nodes[root], j) # leaf_crumb.new_node

\* The pages, where a leaf that is about to be split is taken for its halves.
Written == IF writing THEN SplitOf(nodes, leaf_crumb) ELSE nodes

\* A small tree is a search tree throughout a call, and the call goes to the leaf
\* to which its key belongs.
SearchOk ==
  /\ SoundTree(Written, root, count)
  /\ pc = "descend" /\ here.leaf => Leads(nodes[root], root, leaf_crumb.node, key)
  /\ linking => LinkOk
  /\ writing \/ pc = "insert" => Leads(nodes[root], root, leaf_node, key)

SearchInv == Small(nodes, root) /\ pc \notin {"abort", "wild"} => SearchOk

\* ms are the pages ns after leaf a was split at P, with b as its sibling.
Halves(ns, ms, a, b, P) ==
  /\ Len(ms) = Len(ns)
  /\ \A p \in 1 .. Len(ns) : p # a /\ p # b => ms[p] = ns[p]
  /\ ms[a].leaf /\ Len(ms[a].cells) = P
  /\ \A i \in 1 .. P : ms[a].cells[i].key = ns[a].cells[i].key
  /\ ms[b].leaf /\ Len(ms[b].cells) = Len(ns[a].cells) - P
  /\ \A i \in 1 .. Len(ns[a].cells) - P : ms[b].cells[i].key = ns[a].cells[i + P].key

\* m is node f with separator k and the halves a and b in the place J of a.
Gained(f, m, J, k, a, b) ==
  /\ Len(m.cells) = Len(f.cells) + 1
  /\ \A i \in 1 .. J - 1 : m.cells[i].key = f.cells[i].key
  /\ m.cells[J].key = k
  /\ \A i \in J + 1 .. Len(f.cells) + 1 : m.cells[i].key = f.cells[i - 1].key
  /\ \A i \in 1 .. J - 1 : slot(m, i) = slot(f, i)
  /\ slot(m, J) = a /\ slot(m, J + 1) = b
  /\ \A i \in J + 2 .. Len(f.cells) + 2 : slot(m, i) = slot(f, i - 1)

\* What leaf_node_split does to the pages.
LEMMA HalvesOf ==
  ASSUME NEW ns \in Seq(PageType), NEW bc,
         bc.node \in 1 .. Len(ns), bc.new_node \in 1 .. Len(ns), bc.node # bc.new_node,
         ns[bc.node].leaf, bc.partition_idx \in 0 .. Len(ns[bc.node].cells) - 1
  PROVE  /\ SplitOf(ns, bc) \in Seq(PageType)
         /\ Halves(ns, SplitOf(ns, bc), bc.node, bc.new_node, bc.partition_idx)
  <1> DEFINE a == bc.node
             b == bc.new_node
             P == bc.partition_idx
             n == ns[a]
             M == Len(n.cells)
             s == SubSeq(n.cells, P + 1, M)
             x == node_cut(n, P)
             y == node_of(TRUE, s)
             ms == SplitOf(ns, bc)
  <1>1. n \in PageType /\ n.cells \in Seq(CellType) /\ M \in Nat /\ n.leaf
    BY PageFields
  <1>2. P \in 0 .. M /\ P \in Nat
    BY <1>1
  <1>3. x \in PageType /\ x.leaf = n.leaf /\ Len(x.cells) = P
        /\ \A i \in 1 .. P : x.cells[i] = n.cells[i]
    BY <1>1, <1>2, CutPage
  <1>4. /\ s \in Seq(CellType) /\ Len(s) = M - P
        /\ \A i \in 1 .. M - P : s[i] = n.cells[i + P]
    <2> DEFINE t == n.cells
               q == P + 1
    <2>1. t \in Seq(CellType) /\ M = Len(t) /\ q \in 1 .. Len(t) + 1 /\ P = q - 1
      BY <1>1, <1>2, SMTT(30)
    <2> HIDE DEF t, q
    <2>2. /\ SubSeq(t, q, Len(t)) \in Seq(CellType)
          /\ Len(SubSeq(t, q, Len(t))) = Len(t) + 1 - q
          /\ \A i \in 1 .. Len(t) + 1 - q : SubSeq(t, q, Len(t))[i] = t[i + q - 1]
      BY ONLY <2>1
    <2>3. s = SubSeq(t, q, Len(t))
      BY DEF t, q
    <2> HIDE DEF s, M, P
    <2>4. P \in Nat /\ M \in Nat /\ q = P + 1
      BY <1>1, <1>2 DEF q
    <2>5. M - P = Len(t) + 1 - q /\ \A i \in 1 .. M - P : i + P = i + q - 1
      BY <2>1, <2>4
    <2>6. \A i \in 1 .. M - P : s[i] = t[i + P]
      BY <2>2, <2>3, <2>5
    <2> QED
      BY <2>2, <2>3, <2>5, <2>6 DEF t
  <1> HIDE DEF s
  <1>5. /\ y \in PageType /\ y.leaf = TRUE /\ Len(y.cells) = M - P
        /\ \A i \in 1 .. M - P : y.cells[i].key = s[i].key
    <2> DEFINE l == TRUE
    <2>1. l \in BOOLEAN
      OBVIOUS
    <2> HIDE DEF l
    <2>2. /\ node_of(l, s) \in PageType /\ node_of(l, s).leaf = l
          /\ Len(node_of(l, s).cells) = Len(s)
          /\ \A i \in 1 .. Len(s) : node_of(l, s).cells[i].key = s[i].key
      BY ONLY <1>4, <2>1, NewPage
    <2> QED
      BY <1>4, <2>2 DEF l
  <1>6. ms = [ns EXCEPT ![a] = x, ![b] = y]
    BY DEF SplitOf, leaf_moved, s
  <1> HIDE DEF x, y, ms
  <1>7. /\ ms \in Seq(PageType) /\ Len(ms) = Len(ns) /\ ms[a] = x /\ ms[b] = y
        /\ \A p \in 1 .. Len(ns) : p # a /\ p # b => ms[p] = ns[p]
    BY <1>3, <1>5, <1>6, TwoReplaced
  <1>8. Halves(ns, ms, a, b, P)
    BY <1>1, <1>3, <1>4, <1>5, <1>7 DEF Halves
  <1> QED
    BY <1>7, <1>8 DEF ms

\* The children of a node depend on leaves only.
LEMMA LeavesOnly ==
  ASSUME NEW ns \in Seq(PageType), NEW ms \in Seq(PageType), NEW n \in PageType, NEW c,
         TwoOk(ns, n, c), Len(ms) >= Len(ns),
         \A p \in 1 .. Len(ns) : ns[p].leaf \/ ms[p].leaf => ms[p] = ns[p],
         \A p \in Len(ns) + 1 .. Len(ms) : ms[p].cells = << >>
  PROVE  TwoOk(ms, n, c)
  <1>1. n.cells \in Seq(CellType) /\ Len(n.cells) \in Nat
    BY PageFields
  <1>2. /\ SlotsDiffer(n) /\ SlotsRanged(ns, n) /\ SlotsAll(ns, n)
        /\ SumUpTo(Filled(ns, n), Len(n.cells) + 1) = c
    BY DEF TwoOk
  <1>3. \A j \in Slots(n) : /\ slot(n, j) \in 1 .. Len(ns) /\ ns[slot(n, j)].leaf
                            /\ ms[slot(n, j)] = ns[slot(n, j)]
    BY <1>2 DEF SlotsRanged
  <1>4. SlotsRanged(ms, n)
    <2>1. \A p \in 1 .. Len(ns) : p \in 1 .. Len(ms)
      OBVIOUS
    <2> QED
      BY <1>2, <1>3, <2>1 DEF SlotsRanged
  <1>5. SlotsAll(ms, n)
    <2>1. SUFFICES ASSUME NEW p \in 1 .. Len(ms), ms[p].leaf, ms[p].cells # << >>
                   PROVE  \E j \in Slots(n) : slot(n, j) = p
      BY DEF SlotsAll, Linked
    <2>2. p \in 1 .. Len(ns)
      BY <2>1
    <2>3. ms[p] = ns[p]
      BY <2>1, <2>2
    <2> QED
      BY <1>2, <2>1, <2>2, <2>3 DEF SlotsAll, Linked
  <1>6. Filled(ms, n) = Filled(ns, n)
    BY <1>3 DEF Filled
  <1> QED
    BY <1>2, <1>4, <1>5, <1>6 DEF TwoOk

\* The numbers of tuples below a node.
LEMMA FilledNat ==
  ASSUME NEW ns \in Seq(PageType), NEW n \in PageType, SlotsRanged(ns, n)
  PROVE  /\ Len(n.cells) \in Nat /\ n.cells \in Seq(CellType)
         /\ \A j \in 1 .. Len(n.cells) + 1 :
              /\ Filled(ns, n)[j] = Len(ns[slot(n, j)].cells)
              /\ Filled(ns, n)[j] \in Nat /\ Filled(ns, n)[j] \in Int
  <1>1. Len(n.cells) \in Nat /\ n.cells \in Seq(CellType)
    BY PageFields
  <1>2. ASSUME NEW j \in 1 .. Len(n.cells) + 1
        PROVE  Filled(ns, n)[j] = Len(ns[slot(n, j)].cells) /\ Filled(ns, n)[j] \in Nat
    <2>1. j \in Slots(n)
      BY DEF Slots
    <2>2. ns[slot(n, j)] \in PageType
      BY <2>1 DEF SlotsRanged
    <2>3. Len(ns[slot(n, j)].cells) \in Nat
      BY <2>2, PageFields
    <2> QED
      BY <2>1, <2>3 DEF Filled
  <1> QED
    BY <1>1, <1>2

\* ms are the pages ns with one tuple more in leaf p, which has key k.
TupleMore(ns, ms, p, k) ==
  /\ Len(ms) = Len(ns) /\ \A q \in 1 .. Len(ns) : q # p => ms[q] = ns[q]
  /\ ms[p].leaf /\ Len(ms[p].cells) = Len(ns[p].cells) + 1
  /\ \A i \in 1 .. Len(ms[p].cells) :
       \/ ms[p].cells[i].key = k
       \/ \E l \in 1 .. Len(ns[p].cells) : ms[p].cells[i].key = ns[p].cells[l].key

\* One more tuple in the leaf where its key belongs.
LEMMA TupleAdded ==
  ASSUME NEW ns \in Seq(PageType), NEW ms \in Seq(PageType), NEW n \in PageType,
         NEW c \in Nat, TwoOk(ns, n, c), NEW J \in Slots(n), NEW k, InRange(n, J, k),
         NEW p, slot(n, J) = p, TupleMore(ns, ms, p, k)
  PROVE  TwoOk(ms, n, c + 1)
  <1> SUFFICES ASSUME Len(ms) = Len(ns), \A q \in 1 .. Len(ns) : q # p => ms[q] = ns[q],
                      ms[p].leaf, Len(ms[p].cells) = Len(ns[p].cells) + 1,
                      \A i \in 1 .. Len(ms[p].cells) :
                        \/ ms[p].cells[i].key = k
                        \/ \E l \in 1 .. Len(ns[p].cells) :
                             ms[p].cells[i].key = ns[p].cells[l].key
               PROVE  TwoOk(ms, n, c + 1)
    BY DEF TupleMore
  <1>1. /\ SlotsDiffer(n) /\ SlotsRanged(ns, n) /\ SlotsAll(ns, n)
        /\ SumUpTo(Filled(ns, n), Len(n.cells) + 1) = c
    BY DEF TwoOk
  <1>2. \A j \in Slots(n) : /\ slot(n, j) \in 1 .. Len(ns) /\ ns[slot(n, j)].leaf
                            /\ j # J => slot(n, j) # p
    BY <1>1 DEF SlotsRanged, SlotsDiffer
  <1>3. SlotsRanged(ms, n)
    <2>1. SUFFICES ASSUME NEW j \in Slots(n)
                   PROVE  /\ slot(n, j) \in 1 .. Len(ms) /\ ms[slot(n, j)].leaf
                          /\ \A i \in 1 .. Len(ms[slot(n, j)].cells) :
                               InRange(n, j, ms[slot(n, j)].cells[i].key)
      BY DEF SlotsRanged
    <2>2. CASE j # J
      <3>1. ms[slot(n, j)] = ns[slot(n, j)]
        BY <1>2, <2>2
      <3> QED
        BY <1>1, <3>1 DEF SlotsRanged
    <2>3. CASE j = J
      <3>1. ASSUME NEW i \in 1 .. Len(ms[p].cells) PROVE InRange(n, J, ms[p].cells[i].key)
        <4>1. CASE ms[p].cells[i].key = k
          BY <4>1
        <4>2. CASE \E l \in 1 .. Len(ns[p].cells) : ms[p].cells[i].key = ns[p].cells[l].key
          BY <1>1, <4>2 DEF SlotsRanged
        <4> QED
          BY <4>1, <4>2
      <3> QED
        BY <1>2, <2>3, <3>1
    <2> QED
      BY <2>2, <2>3
  <1>4. SlotsAll(ms, n)
    BY <1>1 DEF SlotsAll, Linked
  <1> DEFINE f == Filled(ns, n)
             g == Filled(ms, n)
             N == Len(n.cells) + 1
  <1>5. /\ N \in Nat
        /\ \A j \in 1 .. N : f[j] = Len(ns[slot(n, j)].cells) /\ f[j] \in Nat
        /\ \A j \in 1 .. N : g[j] = Len(ms[slot(n, j)].cells) /\ g[j] \in Nat
    <2>1. Len(n.cells) \in Nat
      BY PageFields
    <2>2. \A j \in 1 .. N : f[j] = Len(ns[slot(n, j)].cells) /\ f[j] \in Nat
      BY <1>1, FilledNat
    <2>3. \A j \in 1 .. N : g[j] = Len(ms[slot(n, j)].cells) /\ g[j] \in Nat
      BY <1>3, FilledNat
    <2> QED
      BY <2>1, <2>2, <2>3
  <1>6. J \in 1 .. N
    BY DEF Slots
  <1>7. /\ g[J] = f[J] + 1
        /\ \A j \in 1 .. N : j # J => g[j] = f[j]
    BY <1>2, <1>5, <1>6 DEF Slots
  <1>8. f[J] \in Int /\ \A j \in 1 .. N : f[j] \in Int
    BY <1>5, <1>6
  <1> HIDE DEF f, g, N
  <1> DEFINE x == f[J] + 1
  <1>9. x \in Int /\ g[J] = x
    BY <1>7, <1>8
  <1> HIDE DEF x
  <1>10. SumUpTo(g, N) = SumUpTo(f, N) + x - f[J]
    <2>1. N \in Nat /\ \A j \in 1 .. N : j # J => g[j] = f[j]
      BY <1>5, <1>7
    <2> QED
      BY ONLY <1>6, <1>8, <1>9, <2>1, SumReplace
  <1>11. SumUpTo(f, N) = c
    BY <1>1 DEF f, N
  <1>12. SumUpTo(g, N) = c + 1
    BY <1>8, <1>10, <1>11 DEF x
  <1> QED
    BY <1>1, <1>3, <1>4, <1>12 DEF TwoOk, g, N

\* One number of a sum becomes two.
LEMMA SumParted ==
  ASSUME NEW N \in Nat, NEW u, NEW v, NEW J \in 1 .. N, NEW x \in Int, NEW y \in Int,
         \A i \in 1 .. N : u[i] \in Int, u[J] = x + y, v[J] = x, v[J + 1] = y,
         \A i \in 1 .. J - 1 : v[i] = u[i], \A i \in J + 1 .. N : v[i + 1] = u[i]
  PROVE  SumUpTo(v, N + 1) = SumUpTo(u, N)
  <1> DEFINE w == [i \in 1 .. N |-> IF i = J THEN x ELSE u[i]]
             q == J + 1
  <1>1. /\ \A i \in 1 .. N : w[i] \in Int
        /\ \A i \in 1 .. N : i # J => w[i] = u[i]
        /\ w[J] = x
    OBVIOUS
  <1>2. q \in 1 .. N + 1 /\ v[q] = y
    OBVIOUS
  <1>3. ASSUME NEW i \in 1 .. q - 1 PROVE v[i] = w[i]
    <2>1. i \in 1 .. N /\ (i = J \/ (i \in 1 .. J - 1 /\ i # J))
      OBVIOUS
    <2> QED
      BY <1>1, <2>1
  <1>4. ASSUME NEW i \in q .. N PROVE v[i + 1] = w[i]
    <2>1. i \in 1 .. N /\ i # J /\ i \in J + 1 .. N
      OBVIOUS
    <2> QED
      BY <1>1, <2>1
  <1> HIDE DEF w, q
  <1>5. SumUpTo(w, N) = SumUpTo(u, N) + x - u[J]
    BY <1>1, SumReplace
  <1>6. SumUpTo(v, N + 1) = SumUpTo(w, N) + y
    BY <1>1, <1>2, <1>3, <1>4, SumInserted
  <1>7. SumUpTo(u, N) \in Int
    BY SumInt
  <1> QED
    BY <1>5, <1>6, <1>7

\* A leaf is split and its parent gets the separator: the same tuples, in order.
LEMMA SplitLinked ==
  ASSUME NEW ns \in Seq(PageType), NEW ms \in Seq(PageType), NEW f \in PageType,
         NEW m \in PageType, NEW c \in Nat, TwoOk(ns, f, c), NEW J \in Slots(f),
         NEW a, NEW b \in 1 .. Len(ns), slot(f, J) = a,
         \A j \in Slots(f) : slot(f, j) # b, ns[b].cells = << >>,
         NEW P \in 0 .. Len(ns[a].cells) - 1, Ordered(ns[a].cells),
         Halves(ns, ms, a, b, P), Gained(f, m, J, ns[a].cells[P + 1].key, a, b)
  PROVE  TwoOk(ms, m, c)
  <1> DEFINE N == Len(f.cells)
             M == Len(ns[a].cells)
             k == ns[a].cells[P + 1].key
             u == Filled(ns, f)
  <1>1. /\ SlotsDiffer(f) /\ SlotsRanged(ns, f) /\ SlotsAll(ns, f)
        /\ SumUpTo(u, N + 1) = c
    BY DEF TwoOk
  <1>2. /\ N \in Nat /\ J \in 1 .. N + 1 /\ Slots(f) = 1 .. N + 1
        /\ Len(m.cells) = N + 1 /\ Slots(m) = 1 .. N + 2
    <2>1. N \in Nat
      BY PageFields
    <2> QED
      BY <2>1 DEF Slots, Gained
  <1>3. a \in 1 .. Len(ns) /\ ns[a].leaf /\ a # b /\ ns[a] \in PageType
    BY <1>1 DEF SlotsRanged
  <1>4. M \in Nat /\ P \in 0 .. M - 1
    BY <1>3, PageFields
  <1>n. N \in Nat /\ J \in Int /\ 1 <= J /\ J <= N + 1 /\ J \in 1 .. N + 1
    BY <1>2
  <1>m. Len(m.cells) = N + 1 /\ Len(f.cells) = N
    BY <1>2
  <1>g. /\ \A i \in 1 .. J - 1 : m.cells[i].key = f.cells[i].key
        /\ m.cells[J].key = k
        /\ \A i \in J + 1 .. N + 1 : m.cells[i].key = f.cells[i - 1].key
        /\ \A i \in 1 .. J - 1 : slot(m, i) = slot(f, i)
        /\ slot(m, J) = a /\ slot(m, J + 1) = b
        /\ \A i \in J + 2 .. N + 2 : slot(m, i) = slot(f, i - 1)
    BY DEF Gained
  <1>h. /\ Len(ms) = Len(ns)
        /\ \A p \in 1 .. Len(ns) : p # a /\ p # b => ms[p] = ns[p]
        /\ ms[a].leaf /\ Len(ms[a].cells) = P
        /\ \A i \in 1 .. P : ms[a].cells[i].key = ns[a].cells[i].key
        /\ ms[b].leaf /\ Len(ms[b].cells) = M - P
        /\ \A i \in 1 .. M - P : ms[b].cells[i].key = ns[a].cells[i + P].key
    BY DEF Halves
  <1>o. \A i, j \in 1 .. M : i < j => ~Before(ns[a].cells[j].key, ns[a].cells[i].key)
    BY DEF Ordered
  <1>s. \A j \in 1 .. N + 1 : u[j] = Len(ns[slot(f, j)].cells) /\ u[j] \in Int
    BY <1>1, FilledNat
  <1>u. u[J] = M
    <2>1. u[J] = Len(ns[slot(f, J)].cells)
      BY <1>n, <1>s
    <2> QED
      BY <2>1
  <1>t. DOMAIN u = 1 .. N + 1
    BY <1>2 DEF Filled
  <1>r. \A x \in 1 .. N + 1 :
          /\ slot(f, x) \in 1 .. Len(ns) /\ ns[slot(f, x)].leaf /\ slot(f, x) # b
          /\ x # J => slot(f, x) # a
    BY <1>1, <1>2 DEF SlotsRanged, SlotsDiffer
  <1>i. \A i \in 1 .. M : InRange(f, J, ns[a].cells[i].key)
    BY <1>1 DEF SlotsRanged
  <1>k. k \in Key
    <2>1. ns[a].cells \in Seq(CellType) /\ P + 1 \in 1 .. M
      BY <1>3, <1>4, PageFields, SMTT(30)
    <2> QED
      BY <2>1, CellKeys
  <1> HIDE DEF N, M, k, u
  \* Where the children of m come from.
  <1>5. ASSUME NEW j \in 1 .. N + 2
        PROVE  \/ j < J /\ j \in 1 .. N + 1 /\ slot(m, j) = slot(f, j)
               \/ j = J /\ slot(m, j) = a
               \/ j = J + 1 /\ slot(m, j) = b
               \/ j > J + 1 /\ j - 1 \in 1 .. N + 1 /\ slot(m, j) = slot(f, j - 1)
    <2>1. \/ j < J /\ j \in 1 .. J - 1 /\ j \in 1 .. N + 1
          \/ j = J \/ j = J + 1
          \/ j > J + 1 /\ j \in J + 2 .. N + 2 /\ j - 1 \in 1 .. N + 1
      BY <1>n
    <2> QED
      BY <2>1, <1>g
  <1>6. SlotsDiffer(m)
    <2>1. SUFFICES ASSUME NEW i \in 1 .. N + 2, NEW j \in 1 .. N + 2,
                          slot(m, i) = slot(m, j)
                   PROVE  i = j
      BY <1>2 DEF SlotsDiffer
    <2>2. \A x, y \in 1 .. N + 1 : slot(f, x) = slot(f, y) => x = y
      BY <1>1, <1>2 DEF SlotsDiffer
    <2>3. \A x \in 1 .. N + 1 : slot(f, x) # b /\ (slot(f, x) = a => x = J)
      BY <1>2, <2>2
    <2>4. \/ i < J /\ i \in 1 .. N + 1 /\ slot(m, i) = slot(f, i)
          \/ i = J /\ slot(m, i) = a
          \/ i = J + 1 /\ slot(m, i) = b
          \/ i > J + 1 /\ i - 1 \in 1 .. N + 1 /\ slot(m, i) = slot(f, i - 1)
      BY <1>5
    <2>5. \/ j < J /\ j \in 1 .. N + 1 /\ slot(m, j) = slot(f, j)
          \/ j = J /\ slot(m, j) = a
          \/ j = J + 1 /\ slot(m, j) = b
          \/ j > J + 1 /\ j - 1 \in 1 .. N + 1 /\ slot(m, j) = slot(f, j - 1)
      BY <1>5
    <2> QED
      BY <1>2, <1>3, <2>1, <2>2, <2>3, <2>4, <2>5
  <1>7. SlotsRanged(ms, m)
    <2>1. SUFFICES ASSUME NEW j \in 1 .. N + 2
                   PROVE  /\ slot(m, j) \in 1 .. Len(ms) /\ ms[slot(m, j)].leaf
                          /\ \A i \in 1 .. Len(ms[slot(m, j)].cells) :
                               InRange(m, j, ms[slot(m, j)].cells[i].key)
      BY <1>2 DEF SlotsRanged
    <2>2. ASSUME NEW x \in 1 .. N + 1, x # J
          PROVE  /\ slot(f, x) \in 1 .. Len(ns) /\ ns[slot(f, x)].leaf
                 /\ ms[slot(f, x)] = ns[slot(f, x)]
                 /\ \A i \in 1 .. Len(ns[slot(f, x)].cells) :
                      InRange(f, x, ns[slot(f, x)].cells[i].key)
      <3>1. slot(f, x) # a /\ slot(f, x) # b
        BY <1>r, <2>2
      <3>2. slot(f, x) \in 1 .. Len(ns)
        BY <1>r
      <3> QED
        BY <1>1, <1>2, <3>1, <3>2, <1>h DEF SlotsRanged
    <2>3. Len(ms) = Len(ns)
      BY <1>h
    <2>4. CASE j < J
      <3>1. j \in 1 .. N + 1 /\ j # J /\ slot(m, j) = slot(f, j)
        BY <1>2, <1>5, <2>4
      <3>2. \A q : InRange(f, j, q) => InRange(m, j, q)
        <4>1. j \in 1 .. J - 1 /\ j <= N /\ j <= N + 1
          BY <1>2, <2>4
        <4>2. m.cells[j].key = f.cells[j].key
          BY <4>1, <1>g
        <4>3. j # 1 => m.cells[j - 1].key = f.cells[j - 1].key
          <5>1. j # 1 => j - 1 \in 1 .. J - 1
            BY <1>2, <4>1
          <5> QED
            BY <5>1, <1>g
        <4> QED
          BY <1>m, <4>1, <4>2, <4>3 DEF InRange
      <3> QED
        BY <2>2, <2>3, <3>1, <3>2
    <2>5. CASE j > J + 1
      <3>1. j - 1 \in 1 .. N + 1 /\ j - 1 # J /\ slot(m, j) = slot(f, j - 1) /\ j # 1
        BY <1>2, <1>5, <2>5, SMTT(30)
      <3>2. \A q : InRange(f, j - 1, q) => InRange(m, j, q)
        <4>1. j - 1 # 1 /\ j - 1 \in J + 1 .. N + 1 /\ (j - 1) - 1 \in 1 .. N
          BY <1>2, <2>5, SMTT(30)
        <4>2. m.cells[j - 1].key = f.cells[(j - 1) - 1].key
          BY <4>1, <1>g
        <4>3. j <= N + 1 => j - 1 <= N /\ m.cells[j].key = f.cells[j - 1].key
          <5>1. j <= N + 1 => j \in J + 1 .. N + 1 /\ j - 1 <= N
            BY <1>2, <2>5
          <5> QED
            BY <5>1, <1>g
        <4> QED
          BY <1>m, <4>1, <4>2, <4>3 DEF InRange
      <3> QED
        BY <2>2, <2>3, <3>1, <3>2
    <2>6. /\ \A i \in 1 .. M : InRange(f, J, ns[a].cells[i].key)
          /\ m.cells[J].key = k
          /\ J # 1 => m.cells[J - 1].key = f.cells[J - 1].key
          /\ J <= N => m.cells[J + 1].key = f.cells[J].key
      <3>1. (J # 1 => J - 1 \in 1 .. J - 1)
            /\ (J <= N => J + 1 \in J + 1 .. N + 1 /\ (J + 1) - 1 = J)
        BY <1>n, SMTT(30)
      <3> QED
        BY <1>g, <1>i, <3>1
    <2>7. CASE j = J
      <3>1. slot(m, j) = a /\ ms[a].leaf /\ Len(ms[a].cells) = P
        BY <1>5, <2>7, <1>g, <1>h
      <3>2. ASSUME NEW i \in 1 .. P PROVE InRange(m, J, ms[a].cells[i].key)
        <4>1. i \in 1 .. M /\ P + 1 \in 1 .. M /\ i < P + 1
          BY <1>4
        <4>2. ms[a].cells[i].key = ns[a].cells[i].key
          BY <1>h
        <4>3. ~Before(k, ns[a].cells[i].key)
          BY <1>o, <4>1 DEF k
        <4>4. InRange(f, J, ns[a].cells[i].key)
          BY <2>6, <4>1
        <4> QED
          BY <1>m, <1>n, <2>6, <4>2, <4>3, <4>4 DEF InRange
      <3> QED
        BY <1>3, <2>3, <2>7, <3>1, <3>2
    <2>8. CASE j = J + 1
      <3>1. slot(m, j) = b /\ ms[b].leaf /\ Len(ms[b].cells) = M - P
        BY <1>5, <2>8, <1>g, <1>h
      <3>2. ASSUME NEW i \in 1 .. M - P PROVE InRange(m, J + 1, ms[b].cells[i].key)
        <4>1. i + P \in 1 .. M /\ P + 1 \in 1 .. M /\ (i + P = P + 1 \/ P + 1 < i + P)
          BY <1>4, SMTT(30)
        <4>2. ms[b].cells[i].key = ns[a].cells[i + P].key
          BY <1>h
        <4>3. ~Before(ns[a].cells[i + P].key, k)
          <5>1. CASE i + P = P + 1
            BY <1>k, <5>1, BeforeIrreflexive DEF k
          <5>2. CASE P + 1 < i + P
            BY <1>o, <4>1, <5>2 DEF k
          <5> QED
            BY <4>1, <5>1, <5>2
        <4>4. InRange(f, J, ns[a].cells[i + P].key)
          BY <2>6, <4>1
        <4>5. (J + 1) - 1 = J /\ (J + 1 <= Len(m.cells) => J <= N) /\ J + 1 # 1
          BY <1>m, <1>n, SMTT(30)
        <4> QED
          BY <1>m, <2>6, <4>2, <4>3, <4>4, <4>5 DEF InRange
      <3> QED
        BY <2>3, <2>8, <3>1, <3>2
    <2> QED
      BY <1>2, <2>4, <2>5, <2>7, <2>8
  <1>8. SlotsAll(ms, m)
    <2>1. SUFFICES ASSUME NEW p \in 1 .. Len(ms), ms[p].leaf, ms[p].cells # << >>
                   PROVE  \E j \in 1 .. N + 2 : slot(m, j) = p
      BY <1>2 DEF SlotsAll, Linked
    <2>2. CASE p = a
      BY <1>2, <2>2, <1>g
    <2>3. CASE p = b
      BY <1>2, <2>3, <1>g
    <2>4. CASE p # a /\ p # b
      <3>1. p \in 1 .. Len(ns) /\ ms[p] = ns[p]
        BY <2>4, <1>h
      <3>2. PICK x \in 1 .. N + 1 : slot(f, x) = p
        BY <1>1, <1>2, <2>1, <3>1 DEF SlotsAll, Linked
      <3>3. x # J
        BY <2>4, <3>2
      <3>4. CASE x < J
        <4>1. x \in 1 .. J - 1 /\ x \in 1 .. N + 2
          BY <1>2, <3>4
        <4> QED
          BY <3>2, <4>1, <1>g
      <3>5. CASE x > J
        <4>1. x + 1 \in J + 2 .. N + 2 /\ (x + 1) - 1 = x /\ x + 1 \in 1 .. N + 2
          BY <1>2, <3>5
        <4>2. slot(m, x + 1) = p
          BY <3>2, <4>1, <1>g
        <4> QED
          BY <4>1, <4>2
      <3> QED
        BY <1>2, <3>3, <3>4, <3>5
    <2> QED
      BY <2>2, <2>3, <2>4
  \* The sum: J holds P tuples instead of M, and M - P come behind it.
  <1> DEFINE v == Filled(ms, m)
  <1>10. \A j \in 1 .. N + 2 : v[j] = Len(ms[slot(m, j)].cells) /\ v[j] \in Int
    <2>1. \A j \in 1 .. Len(m.cells) + 1 : v[j] = Len(ms[slot(m, j)].cells) /\ v[j] \in Int
      BY <1>7, FilledNat
    <2>2. Len(m.cells) + 1 = N + 2
      BY <1>2
    <2> QED
      BY <2>1, <2>2
  <1>14. SumUpTo(v, N + 2) = c
    <2> DEFINE Z == N + 1
               x == M - P
    <2>1. v[J + 1] = x
      <3>1. J + 1 \in 1 .. N + 2 /\ slot(m, J + 1) = b
        BY <1>n, <1>g
      <3>2. Len(ms[b].cells) = M - P
        BY <1>h
      <3> QED
        BY <1>10, <3>1, <3>2
    <2>10. v[J] = P
      <3>1. J \in 1 .. N + 2 /\ slot(m, J) = a
        BY <1>n, <1>g
      <3> QED
        BY <1>10, <1>h, <3>1
    <2>2. ASSUME NEW j \in 1 .. J - 1 PROVE v[j] = u[j]
      <3>1. j \in 1 .. N + 2 /\ j \in 1 .. N + 1 /\ j # J
        BY <1>n
      <3>2. slot(m, j) = slot(f, j)
        BY <1>g
      <3>3. ms[slot(f, j)] = ns[slot(f, j)]
        BY <1>h, <1>r, <3>1
      <3> QED
        BY <1>s, <1>10, <3>1, <3>2, <3>3
    <2>3. ASSUME NEW j \in J + 1 .. Z PROVE v[j + 1] = u[j]
      <3>1. j \in 1 .. N + 1 /\ j # J /\ j + 1 > J + 1 /\ j + 1 \in 1 .. N + 2
            /\ (j + 1) - 1 = j
        BY <1>n, SMTT(30)
      <3>2. slot(m, j + 1) = slot(f, j)
        <4> DEFINE i == j + 1
        <4>1. i \in 1 .. N + 2 /\ i > J + 1 /\ i - 1 = j
          BY <3>1
        <4>2. slot(m, i) = slot(f, i - 1)
          <5> HIDE DEF i
          <5> QED
            BY <1>2, <1>5, <4>1
        <4> QED
          BY <4>1, <4>2
      <3>3. slot(f, j) \in 1 .. Len(ns) /\ slot(f, j) # a /\ slot(f, j) # b
        BY <1>r, <3>1
      <3>4. ms[slot(f, j)] = ns[slot(f, j)]
        BY <3>3, <1>h
      <3> QED
        BY <1>s, <1>10, <3>1, <3>2, <3>4
    <2>4. Z \in Nat /\ J \in 1 .. Z /\ P \in Int /\ x \in Int /\ Z + 1 = N + 2
      BY <1>n, <1>4
    <2>5. \A j \in 1 .. Z : u[j] \in Int
      BY <1>s
    <2>6. u[J] = P + x
      BY <1>4, <1>u
    <2> HIDE DEF Z, x, v
    <2>7. SumUpTo(v, Z + 1) = SumUpTo(u, Z)
      BY ONLY <2>1, <2>2, <2>3, <2>4, <2>5, <2>6, <2>10, SumParted, ZenonT(40)
    <2> QED
      BY <1>1, <2>4, <2>7 DEF Z
  <1>15. N + 2 = Len(m.cells) + 1
    BY <1>2
  <1> QED
    BY <1>6, <1>7, <1>8, <1>14, <1>15 DEF TwoOk

\* A root that was a leaf is split, under a new root.
LEMMA SplitRooted ==
  ASSUME NEW ns \in Seq(PageType), NEW ms \in Seq(PageType), NEW m \in PageType,
         NEW c \in Nat, NEW a \in 1 .. Len(ns), NEW b \in 1 .. Len(ns), a # b,
         OneOk(ns, a, c), ns[a].leaf, Ordered(ns[a].cells),
         NEW P \in 0 .. Len(ns[a].cells) - 1, Halves(ns, ms, a, b, P),
         Len(m.cells) = 1, m.cells[1].key = ns[a].cells[P + 1].key,
         m.cells[1].child = a, m.rightmost = b
  PROVE  TwoOk(ms, m, c)
  <1> DEFINE M == Len(ns[a].cells)
             k == ns[a].cells[P + 1].key
  <1>1. M \in Nat /\ P \in 0 .. M - 1 /\ c = M
    <2>1. M \in Nat
      BY PageFields
    <2> QED
      BY <2>1 DEF OneOk
  <1>2. Slots(m) = 1 .. 2 /\ slot(m, 1) = a /\ slot(m, 2) = b
    BY DEF Slots, slot
  <1>3. \A j \in 1 .. 2 : j = 1 \/ j = 2
    OBVIOUS
  <1>4. SlotsDiffer(m)
    BY <1>2, <1>3 DEF SlotsDiffer
  <1>5. k \in Key
    <2>1. ns[a].cells \in Seq(CellType) /\ P + 1 \in 1 .. M
      BY <1>1, PageFields
    <2> QED
      BY <2>1, CellKeys
  <1>6. /\ Len(ms) = Len(ns)
        /\ \A p \in 1 .. Len(ns) : p # a /\ p # b => ms[p] = ns[p]
        /\ ms[a].leaf /\ Len(ms[a].cells) = P
        /\ \A i \in 1 .. P : ms[a].cells[i].key = ns[a].cells[i].key
        /\ ms[b].leaf /\ Len(ms[b].cells) = M - P
        /\ \A i \in 1 .. M - P : ms[b].cells[i].key = ns[a].cells[i + P].key
    BY DEF Halves
  <1>7. \A i, j \in 1 .. M : i < j => ~Before(ns[a].cells[j].key, ns[a].cells[i].key)
    BY DEF Ordered
  <1>8. m.cells[1].key = k
    OBVIOUS
  <1> HIDE DEF M, k
  <1>9. ASSUME NEW i \in 1 .. P PROVE InRange(m, 1, ms[a].cells[i].key)
    <2>1. i \in 1 .. M /\ P + 1 \in 1 .. M /\ i < P + 1
      BY <1>1
    <2>2. ~Before(k, ns[a].cells[i].key)
      BY <1>7, <2>1 DEF k
    <2> QED
      BY <1>6, <1>8, <2>2 DEF InRange
  <1>10. ASSUME NEW i \in 1 .. M - P PROVE InRange(m, 2, ms[b].cells[i].key)
    <2>1. i + P \in 1 .. M /\ P + 1 \in 1 .. M /\ (i + P = P + 1 \/ P + 1 < i + P)
      BY <1>1
    <2>2. ~Before(ns[a].cells[i + P].key, k)
      <3>1. CASE i + P = P + 1
        BY <1>5, <3>1, BeforeIrreflexive DEF k
      <3>2. CASE P + 1 < i + P
        BY <1>7, <2>1, <3>2 DEF k
      <3> QED
        BY <2>1, <3>1, <3>2
    <2>3. ms[b].cells[i].key = ns[a].cells[i + P].key
      BY <1>6
    <2> QED
      BY <1>8, <2>2, <2>3 DEF InRange
  <1>11. SlotsRanged(ms, m)
    BY <1>2, <1>3, <1>6, <1>9, <1>10 DEF SlotsRanged
  <1>12. SlotsAll(ms, m)
    <2>1. SUFFICES ASSUME NEW p \in 1 .. Len(ms), ms[p].leaf, ms[p].cells # << >>
                   PROVE  p = a \/ p = b
      BY <1>2 DEF SlotsAll, Linked
    <2> QED
      BY <1>6, <2>1 DEF OneOk
  <1> DEFINE v == Filled(ms, m)
  <1>13. v[1] = P /\ v[2] = M - P
    BY <1>2, <1>6 DEF Filled
  <1> HIDE DEF v
  <1>14. SumUpTo(v, 2) = c
    <2>1. /\ SumUpTo(v, 0) = 0
          /\ \A n \in Nat : SumUpTo(v, n + 1) = SumUpTo(v, n) + v[n + 1]
      BY SumRecursion
    <2>2. SumUpTo(v, 0 + 1) = SumUpTo(v, 0) + v[0 + 1]
      BY <2>1
    <2>3. SumUpTo(v, 1 + 1) = SumUpTo(v, 1) + v[1 + 1]
      BY <2>1
    <2>4. 0 + 1 = 1 /\ 1 + 1 = 2
      OBVIOUS
    <2>5. SumUpTo(v, 1) = P
      <3>1. P \in Int
        BY <1>1
      <3>2. SumUpTo(v, 1) = 0 + P
        BY <1>13, <2>1, <2>2, <2>4
      <3> QED
        BY ONLY <3>1, <3>2
    <2>6. SumUpTo(v, 2) = P + (M - P)
      BY <1>13, <2>3, <2>4, <2>5
    <2> QED
      BY <1>1, <2>6
  <1>15. Len(m.cells) + 1 = 2
    OBVIOUS
  <1> QED
    BY <1>4, <1>11, <1>12, <1>14, <1>15 DEF TwoOk, v

\* The page of a new root.
RootOf(k, child, right) ==
  node_insert_internal_cell([node_init(FALSE) EXCEPT !.rightmost = right], 0, k, child)

\* What it has.
LEMMA RootPage ==
  ASSUME NEW k \in Key, NEW child \in Nat, NEW right \in Nat
  PROVE  LET m == RootOf(k, child, right)
         IN  /\ m \in PageType /\ ~m.leaf /\ Len(m.cells) = 1
             /\ m.cells[1].key = k /\ m.cells[1].child = child /\ m.rightmost = right
  <1> DEFINE m == RootOf(k, child, right)
             n == [node_init(FALSE) EXCEPT !.rightmost = right]
  <1>1. n \in PageType /\ n.cells = << >> /\ n.rightmost = right
    BY EmptyPage DEF PageType
  <1>2. ~n.leaf
    BY DEF node_init
  <1> HIDE DEF n
  <1>3. Len(n.cells) = 0 /\ Ordered(n.cells)
    BY <1>1 DEF Ordered
  <1> DEFINE z == 0
  <1>4. /\ z \in 0 .. Len(n.cells) /\ z \in Nat
        /\ \A i \in 1 .. z : ~Before(k, n.cells[i].key)
        /\ \A i \in z + 1 .. Len(n.cells) : ~Before(n.cells[i].key, k)
    BY <1>3
  <1>5. /\ m \in PageType /\ m.leaf = n.leaf /\ m.rightmost = n.rightmost
        /\ Len(m.cells) = Len(n.cells) + 1
        /\ m.cells[z + 1].key = k /\ m.cells[z + 1].child = child
    <2>1. m = WithCell(n, z, k, z, child)
      BY DEF node_insert_internal_cell, WithCell, n, RootOf
    <2>2. n \in PageType /\ Ordered(n.cells) /\ k \in Key /\ child \in Nat
      BY <1>1, <1>3
    <2> HIDE DEF z, m
    <2>3. Between(n.cells, z, k)
      BY <1>4 DEF Between
    <2>4. CellIn(WithCell(n, z, k, z, child), n, z, k, z, child)
      BY <1>4, <2>2, <2>3, CellInOk
    <2> QED
      BY <2>1, <2>4 DEF CellIn
  <1> QED
    BY <1>1, <1>2, <1>3, <1>5

\* A node with the child at idx exchanged.
LEMMA Redirected ==
  ASSUME NEW f \in PageType, NEW idx \in 0 .. Len(f.cells), NEW b \in Nat
  PROVE  LET r == redirect(f, idx, b)
         IN  /\ r \in PageType /\ r.leaf = f.leaf /\ Len(r.cells) = Len(f.cells)
             /\ \A i \in 1 .. Len(f.cells) : r.cells[i].key = f.cells[i].key
             /\ slot(r, idx + 1) = b
             /\ \A i \in Slots(f) : i # idx + 1 => slot(r, i) = slot(f, i)
  <1> DEFINE r == redirect(f, idx, b)
             N == Len(f.cells)
  <1>1. f.cells \in Seq(CellType) /\ N \in Nat /\ Slots(f) = 1 .. N + 1
    BY PageFields DEF Slots
  <1>2. CASE idx < N
    <2> DEFINE c == [f.cells[idx + 1] EXCEPT !.child = b]
               s == [f.cells EXCEPT ![idx + 1] = c]
    <2>1. r = [f EXCEPT !.cells = s]
      BY <1>2 DEF redirect
    <2>2. idx + 1 \in 1 .. N /\ f.cells[idx + 1] \in CellType
      BY <1>1, <1>2
    <2>3. c \in CellType /\ c.key = f.cells[idx + 1].key /\ c.child = b
      BY <2>2 DEF CellType
    <2> HIDE DEF c
    <2>4. /\ s \in Seq(CellType) /\ Len(s) = N
          /\ s[idx + 1] = c
          /\ \A i \in 1 .. N : i # idx + 1 => s[i] = f.cells[i]
      BY <1>1, <2>2, <2>3
    <2> HIDE DEF s, r
    <2>5. r \in PageType /\ r.leaf = f.leaf /\ r.rightmost = f.rightmost
          /\ r.cells = s
      BY <1>1, <2>1, <2>4 DEF PageType
    <2>6. \A i \in 1 .. N : r.cells[i].key = f.cells[i].key
      BY <2>3, <2>4, <2>5
    <2>7. slot(r, idx + 1) = b
      BY <2>2, <2>3, <2>4, <2>5 DEF slot
    <2>8. ASSUME NEW i \in Slots(f), i # idx + 1 PROVE slot(r, i) = slot(f, i)
      <3>1. i \in 1 .. N \/ ~(i <= N)
        BY <1>1
      <3> QED
        BY <2>4, <2>5, <2>8, <3>1 DEF slot
    <2> QED
      BY <2>4, <2>5, <2>6, <2>7, <2>8 DEF r
  <1>3. CASE ~(idx < N)
    <2>1. r = [f EXCEPT !.rightmost = b]
      BY <1>3 DEF redirect
    <2> HIDE DEF r
    <2>2. r \in PageType /\ r.leaf = f.leaf /\ r.rightmost = b /\ r.cells = f.cells
      BY <1>1, <2>1 DEF PageType
    <2>3. idx = N /\ ~(idx + 1 <= N)
      BY <1>1, <1>3
    <2>4. slot(r, idx + 1) = b
      BY <2>2, <2>3 DEF slot
    <2>5. ASSUME NEW i \in Slots(f), i # idx + 1 PROVE slot(r, i) = slot(f, i)
      <3>1. i <= N
        BY <1>1, <2>3, <2>5
      <3> QED
        BY <2>2, <3>1 DEF slot
    <2> QED
      BY <2>2, <2>4, <2>5 DEF r
  <1> QED
    BY <1>2, <1>3

\* What linked does to a node.
LEMMA LinkGained ==
  ASSUME NEW f \in PageType, Ordered(f.cells), NEW k \in Key, NEW a \in Nat,
         NEW b \in Nat
  PROVE  LET idx == node_bin_search(f, k).idx
             m == linked(f, idx, k, a, b)
         IN  /\ m \in PageType /\ m.leaf = f.leaf /\ idx \in 0 .. Len(f.cells)
             /\ Gained(f, m, idx + 1, k, a, b)
  <1> DEFINE at == node_bin_search(f, k)
             idx == at.idx
             N == Len(f.cells)
             r == redirect(f, idx, b)
             m == WithCell(r, idx, k, 0, a)
             J == idx + 1
  <1>1. f.cells \in Seq(CellType) /\ N \in Nat
    BY PageFields
  <1>2. Placed(f.cells, k, at)
    BY <1>1, SearchPlaces
  <1>3. idx \in 0 .. N
    BY <1>2 DEF Placed
  <1>4. /\ \A i \in 1 .. idx : ~Before(k, f.cells[i].key)
        /\ \A i \in idx + 1 .. N : ~Before(f.cells[i].key, k)
    BY <1>1, <1>2, PlaceBetween
  <1> HIDE DEF at
  <1>5. /\ r \in PageType /\ r.leaf = f.leaf /\ Len(r.cells) = N
        /\ \A i \in 1 .. N : r.cells[i].key = f.cells[i].key
        /\ slot(r, idx + 1) = b
        /\ \A i \in Slots(f) : i # idx + 1 => slot(r, i) = slot(f, i)
    BY <1>3, Redirected
  <1>6. Slots(f) = 1 .. N + 1
    BY DEF Slots
  <1> HIDE DEF r, N, idx
  <1>7. Ordered(r.cells)
    BY <1>5 DEF Ordered, N
  <1>8. /\ \A i \in 1 .. idx : ~Before(k, r.cells[i].key)
        /\ \A i \in idx + 1 .. N : ~Before(r.cells[i].key, k)
    <2>1. /\ \A i \in 1 .. idx : i \in 1 .. N
          /\ \A i \in idx + 1 .. N : i \in 1 .. N
      BY <1>1, <1>3
    <2> QED
      BY <1>4, <1>5, <2>1
  <1>9. /\ m \in PageType /\ m.leaf = r.leaf /\ m.rightmost = r.rightmost
        /\ Len(m.cells) = Len(r.cells) + 1
        /\ m.cells[idx + 1].key = k /\ m.cells[idx + 1].child = a
        /\ \A i \in 1 .. idx : m.cells[i] = r.cells[i]
        /\ \A i \in idx + 2 .. Len(r.cells) + 1 : m.cells[i] = r.cells[i - 1]
    <2> DEFINE z == 0
    <2>1. z \in Nat /\ a \in Nat /\ k \in Key /\ r \in PageType
          /\ idx \in 0 .. Len(r.cells) /\ m = WithCell(r, idx, k, z, a)
      BY <1>3, <1>5
    <2>2. /\ \A i \in 1 .. idx : ~Before(k, r.cells[i].key)
          /\ \A i \in idx + 1 .. Len(r.cells) : ~Before(r.cells[i].key, k)
      BY <1>5, <1>8
    <2> HIDE DEF z, m
    <2>3. Between(r.cells, idx, k)
      BY <2>2 DEF Between
    <2>4. CellIn(WithCell(r, idx, k, z, a), r, idx, k, z, a)
      BY <1>7, <2>1, <2>3, CellInOk
    <2> QED
      BY <2>1, <2>4 DEF CellIn
  <1> HIDE DEF m
  <1>10. /\ Len(m.cells) = N + 1 /\ m.cells[J].key = k /\ m.cells[J].child = a
         /\ \A i \in 1 .. J - 1 : m.cells[i] = r.cells[i]
         /\ \A i \in J + 1 .. N + 1 : m.cells[i] = r.cells[i - 1]
         /\ J \in 1 .. N + 1
    BY <1>1, <1>3, <1>5, <1>9
  <1>11. slot(r, J) = b /\ \A i \in 1 .. N + 1 : i # J => slot(r, i) = slot(f, i)
    BY <1>5, <1>6
  <1> HIDE DEF J
  <1>12. \A i \in 1 .. J - 1 : m.cells[i].key = f.cells[i].key /\ slot(m, i) = slot(f, i)
    <2>1. SUFFICES ASSUME NEW i \in 1 .. J - 1
                   PROVE  m.cells[i].key = f.cells[i].key /\ slot(m, i) = slot(f, i)
      OBVIOUS
    <2>2. i \in 1 .. N /\ i <= N /\ i <= N + 1 /\ i # J /\ i \in 1 .. N + 1
      BY <1>1, <1>10
    <2>3. slot(m, i) = slot(r, i)
      BY <1>5, <1>10, <2>2 DEF slot
    <2> QED
      BY <1>5, <1>10, <1>11, <2>2, <2>3
  <1>13. \A i \in J + 1 .. N + 1 : m.cells[i].key = f.cells[i - 1].key
    <2>1. \A i \in J + 1 .. N + 1 : i - 1 \in 1 .. N
      BY <1>1, <1>10
    <2> QED
      BY <1>5, <1>10, <2>1
  <1>14. ASSUME NEW i \in J + 1 .. N + 2 PROVE slot(m, i) = slot(r, i - 1)
    <2>1. CASE i \in J + 1 .. N + 1
      <3>1. i <= N + 1 /\ i - 1 <= N
        BY <1>1, <1>10, <2>1
      <3> QED
        BY <1>5, <1>10, <2>1, <3>1 DEF slot
    <2>2. CASE i = N + 2
      <3>1. ~(i <= N + 1) /\ ~(i - 1 <= N)
        BY <1>1, <2>2
      <3> QED
        BY <1>5, <1>9, <1>10, <3>1 DEF slot
    <2> QED
      BY <1>1, <1>10, <2>1, <2>2
  <1>15. slot(m, J) = a
    <2>1. J <= N + 1
      BY <1>10
    <2> QED
      BY <1>10, <2>1 DEF slot
  <1>16. slot(m, J + 1) = b
    <2>1. J + 1 \in J + 1 .. N + 2 /\ (J + 1) - 1 = J
      BY <1>1, <1>10
    <2> QED
      BY <1>11, <1>14, <2>1
  <1>17. \A i \in J + 2 .. N + 2 : slot(m, i) = slot(f, i - 1)
    <2>1. \A i \in J + 2 .. N + 2 :
            i \in J + 1 .. N + 2 /\ i - 1 \in 1 .. N + 1 /\ i - 1 # J
      BY <1>1, <1>10
    <2> QED
      BY <1>11, <1>14, <2>1
  <1>18. Gained(f, m, J, k, a, b)
    BY <1>10, <1>12, <1>13, <1>15, <1>16, <1>17 DEF Gained, N
  <1>19. m = linked(f, idx, k, a, b)
    BY DEF linked, node_insert_internal_cell, WithCell, m, r
  <1> QED
    BY <1>3, <1>5, <1>9, <1>18, <1>19 DEF idx, at, J, N

-----------------------------------------------------------------------------
(* The root in the steps of a call *)

\* What is said of pages, keys and the root is said of the new ones.
LEMMA Primes ==
  /\ Small(nodes, root)' <=> Small(nodes', root')
  /\ SoundTree(Written, root, count)' <=> SoundTree(Written', root', count')
  /\ Leads(nodes[root], root, leaf_crumb.node, key)'
       <=> Leads(nodes'[root'], root', leaf_crumb'.node, key')
  /\ Leads(nodes[root], root, leaf_node, key)'
       <=> Leads(nodes'[root'], root', leaf_node', key')
  /\ SplitOf(nodes, leaf_crumb)' = SplitOf(nodes', leaf_crumb')
  BY DEF Small, SoundTree, OneOk, TwoOk, SlotsDiffer, SlotsRanged, SlotsAll, Linked,
         Filled, Leads, SplitOf, KeysDiffer, Slots, slot, InRange

\* The root and its rightmost child.
LEMMA RootFacts ==
  ASSUME TypeInv, NEW h, Shape(h), RootInv
  PROVE  /\ nodes \in Seq(PageType) /\ PagesOk(nodes, h) /\ Len(nodes) \in Nat
         /\ DOMAIN h = 1 .. Len(nodes)
         /\ root \in 1 .. Len(nodes) /\ root \in Nat
         /\ nodes[root] \in PageType /\ Ordered(nodes[root].cells)
         /\ h[root] \in Nat /\ (nodes[root].leaf <=> h[root] = 0)
         /\ \A p \in 1 .. Len(nodes) : nodes[p].leaf <=> h[p] = 0
         /\ ~nodes[root].leaf => /\ nodes[root].rightmost \in 1 .. Len(nodes)
                                 /\ h[nodes[root].rightmost] \in Nat
                                 /\ h[root] = h[nodes[root].rightmost] + 1
  <1>1. nodes \in Seq(PageType) /\ PagesOk(nodes, h) /\ root \in 1 .. Len(nodes)
    BY DEF TypeInv, Shape
  <1>2. /\ Len(nodes) \in Nat /\ DOMAIN h = 1 .. Len(nodes) /\ root \in Nat
        /\ nodes[root] \in PageType /\ Ordered(nodes[root].cells)
        /\ h[root] \in Nat /\ PageOk(nodes[root], h[root], h, LeafKeys(nodes))
    BY <1>1, PageFacts
  <1>3. \A p \in 1 .. Len(nodes) : nodes[p].leaf <=> h[p] = 0
    BY <1>1 DEF PagesOk, PageOk
  <1>4. ASSUME ~nodes[root].leaf
        PROVE  nodes[root].rightmost \in 1 .. Len(nodes)
               /\ h[root] = h[nodes[root].rightmost] + 1
    <2>1. nodes[root].rightmost # NULL
      BY <1>4 DEF RootInv
    <2> QED
      BY <1>2, <1>4, <2>1 DEF PageOk, Below
  <1>5. \A p \in 1 .. Len(nodes) : h[p] \in Nat
    BY <1>1 DEF PagesOk
  <1> QED
    BY <1>1, <1>2, <1>3, <1>4, <1>5

\* The height of a small tree.
LEMMA SmallHeight ==
  ASSUME TypeInv, NEW h, Shape(h), RootInv, Small(nodes, root)
  PROVE  /\ nodes[root].leaf => h[root] = 0
         /\ ~nodes[root].leaf => h[root] = 1
  <1>1. CASE nodes[root].leaf
    BY <1>1, RootFacts
  <1>2. CASE ~nodes[root].leaf
    <2>1. nodes[nodes[root].rightmost].leaf
      BY <1>2 DEF Small
    <2>2. nodes[root].rightmost \in 1 .. Len(nodes)
          /\ h[root] = h[nodes[root].rightmost] + 1
          /\ (nodes[nodes[root].rightmost].leaf <=> h[nodes[root].rightmost] = 0)
      BY <1>2, RootFacts
    <2> QED
      BY <1>2, <2>1, <2>2
  <1> QED
    BY <1>1, <1>2

\* The sizes of sequences of pages to which one is added.
Grown(ns, ms) ==
  /\ ms \in Seq(PageType) /\ Len(ms) = Len(ns) + 1
  /\ \A p \in 1 .. Len(ns) : ms[p] = ns[p]
  /\ ms[Len(ns) + 1].cells = << >>

\* An empty page does not change a tree.
LEMMA GrownSound ==
  ASSUME TypeInv, NEW h, Shape(h), RootInv, NEW ms, Grown(nodes, ms)
  PROVE  /\ ms[root] = nodes[root]
         /\ Small(ms, root) <=> Small(nodes, root)
         /\ SoundTree(nodes, root, count) => SoundTree(ms, root, count)
  <1> DEFINE N == Len(nodes)
  <1>1. /\ nodes \in Seq(PageType) /\ N \in Nat /\ root \in 1 .. N
        /\ nodes[root] \in PageType
        /\ ~nodes[root].leaf => nodes[root].rightmost \in 1 .. N
    BY RootFacts
  <1>2. /\ ms \in Seq(PageType) /\ Len(ms) = N + 1
        /\ \A p \in 1 .. N : ms[p] = nodes[p]
        /\ ms[N + 1].cells = << >>
    BY DEF Grown
  <1>3. ms[root] = nodes[root]
    BY <1>1, <1>2
  <1>4. Small(ms, root) <=> Small(nodes, root)
    BY <1>1, <1>2, <1>3 DEF Small
  <1>5. ASSUME SoundTree(nodes, root, count) PROVE SoundTree(ms, root, count)
    <2>1. CASE nodes[root].leaf
      <3>1. OneOk(nodes, root, count)
        BY <1>5, <2>1 DEF SoundTree
      <3>2. ASSUME NEW p \in 1 .. Len(ms), ms[p].leaf, ms[p].cells # << >> PROVE p = root
        <4>1. p \in 1 .. N
          BY <1>1, <1>2, <3>2
        <4> QED
          BY <1>2, <3>1, <3>2, <4>1 DEF OneOk
      <3>3. OneOk(ms, root, count)
        BY <1>3, <3>1, <3>2 DEF OneOk
      <3> QED
        BY <1>3, <2>1, <3>3 DEF SoundTree
    <2>2. CASE ~nodes[root].leaf
      <3> DEFINE n == nodes[root]
      <3>1. TwoOk(nodes, n, count)
        BY <1>5, <2>2 DEF SoundTree
      <3>2. /\ Len(ms) >= N
            /\ \A p \in 1 .. N : nodes[p].leaf \/ ms[p].leaf => ms[p] = nodes[p]
        BY <1>1, <1>2
      <3>3. \A p \in N + 1 .. Len(ms) : ms[p].cells = << >>
        <4>1. \A p \in N + 1 .. Len(ms) : p = N + 1
          BY <1>1, <1>2
        <4> QED
          BY <1>2, <4>1
      <3>4. n \in PageType
        BY <1>1
      <3> HIDE DEF n
      <3>5. TwoOk(ms, n, count)
        BY <1>1, <1>2, <3>1, <3>2, <3>3, <3>4, LeavesOnly
      <3> QED
        BY <1>3, <2>2, <3>5 DEF SoundTree, n
    <2> QED
      BY <2>1, <2>2
  <1> QED
    BY <1>3, <1>4, <1>5

\* The invariant that is proved along with IndInv.
SoundInv == RootInv /\ SearchInv

\* The empty tree.
LEMMA SoundInit == Init => SoundInv
  <1> SUFFICES ASSUME Init PROVE SoundInv
    OBVIOUS
  <1> DEFINE n == node_init(TRUE)
  <1>1. n.leaf /\ n.cells = << >>
    BY EmptyPage DEF node_init
  <1> HIDE DEF n
  <1>2. /\ root = 1 /\ nodes = <<n>> /\ pc = "idle" /\ count = 0
        /\ Len(nodes) = 1 /\ nodes[1] = n
    BY DEF Init, n
  <1>3. RootInv
    BY <1>1, <1>2 DEF RootInv
  <1>4. ~writing /\ ~linking
    BY <1>2 DEF writing, linking
  <1>5. OneOk(nodes, root, count)
    <2>1. \A p \in 1 .. Len(nodes) : p = root
      BY <1>2
    <2> QED
      BY <1>1, <1>2, <2>1 DEF OneOk
  <1>6. SearchInv
    BY <1>1, <1>2, <1>4, <1>5 DEF SearchInv, SearchOk, SoundTree, Written
  <1> QED
    BY <1>3, <1>6 DEF SoundInv

\* A step that leaves the tree alone and stops or ends the call.
LEMMA SoundStop ==
  ASSUME SoundInv, nodes' = nodes, root' = root, count' = count,
         \/ pc' \in {"abort", "wild"}
         \/ pc' = "idle" /\ pc = "descend"
  PROVE  SoundInv'
  <1>1. RootInv'
    BY DEF SoundInv, RootInv
  <1>2. CASE pc' \in {"abort", "wild"}
    <2>1. SearchInv'
      BY <1>2 DEF SearchInv
    <2> QED
      BY <1>1, <2>1 DEF SoundInv
  <1>3. CASE pc' = "idle" /\ pc = "descend"
    <2>1. ~writing /\ ~writing' /\ ~linking'
      BY <1>3 DEF writing, linking
    <2>2. Written' = nodes /\ Written = nodes
      BY <2>1 DEF Written
    <2>3. Small(nodes, root)' => SoundTree(Written, root, count)'
      BY <1>3, <2>2, Primes DEF SoundInv, SearchInv, SearchOk
    <2>4. SearchInv'
      BY <1>3, <2>1, <2>3 DEF SearchInv, SearchOk
    <2> QED
      BY <1>1, <2>4 DEF SoundInv
  <1> QED
    BY <1>2, <1>3

\* A call begins.
LEMMA SoundCall ==
  ASSUME IndInv, SoundInv, NEW t \in Tuples, btree_insert(t[1], t[2])
  PROVE  SoundInv'
  <1>1. /\ pc = "idle" /\ pc' = "descend" /\ breadcrumbs' = <<Crumb(root)>>
        /\ root' = root /\ count' = count /\ nodes' = nodes
    BY DEF btree_insert
  <1>2. /\ Len(breadcrumbs') = 1 /\ breadcrumbs'[1].node = root
        /\ ~breadcrumbs'[1].is_full /\ breadcrumbs' \in Seq({Crumb(root)})
    BY <1>1 DEF Crumb
  <1>3. Last(breadcrumbs') = breadcrumbs'[1]
    BY <1>2 DEF Last
  <1>4. \A i \in 1 .. Len(breadcrumbs') : i = 1
    BY <1>2
  <1>5. RootInv'
    BY <1>1, <1>2, <1>4 DEF SoundInv, RootInv
  <1>6. ~writing /\ ~writing' /\ ~linking'
    BY <1>1 DEF writing, linking
  <1>7. Written' = nodes /\ Written = nodes
    BY <1>1, <1>6 DEF Written
  <1>8. Small(nodes, root)' => SoundTree(Written, root, count)'
    BY <1>1, <1>7, Primes DEF SoundInv, SearchInv, SearchOk
  <1>9. here' = nodes[root] /\ leaf_crumb'.node = root
    BY <1>1, <1>2, <1>3 DEF here, leaf_crumb
  <1>10. here'.leaf => Leads(nodes'[root'], root', leaf_crumb'.node, key')
    BY <1>1, <1>9 DEF Leads
  <1>11. SearchInv'
    BY <1>1, <1>6, <1>8, <1>10, Primes DEF SearchInv, SearchOk
  <1> QED
    BY <1>5, <1>11 DEF SoundInv

\* The leaf has room.
LEMMA SoundRoom ==
  ASSUME IndInv, SoundInv, leaf_has_room
  PROVE  SoundInv'
  <1>1. PICK h : Shape(h)
    BY DEF IndInv
  <1>2. TypeInv /\ pc = "descend"
    BY DEF IndInv, leaf_has_room
  <1>3. Last(breadcrumbs) = leaf_crumb
    BY <1>1, <1>2, PathFacts DEF leaf_crumb
  <1>4. /\ here.leaf /\ pc' = "insert" /\ leaf_node' = leaf_crumb.node
        /\ root' = root /\ count' = count /\ nodes' = nodes /\ key' = key
    BY <1>3 DEF leaf_has_room, args
  <1>5. RootInv'
    BY <1>4 DEF SoundInv, RootInv
  <1>6. ~writing /\ ~writing' /\ ~linking'
    BY <1>2, <1>4 DEF writing, linking
  <1>7. Written' = nodes /\ Written = nodes
    BY <1>4, <1>6 DEF Written
  <1>8. Small(nodes, root)' =>
          /\ SoundTree(Written, root, count)'
          /\ Leads(nodes[root], root, leaf_node, key)'
    BY <1>2, <1>4, <1>7, Primes DEF SoundInv, SearchInv, SearchOk
  <1>9. SearchInv'
    BY <1>4, <1>6, <1>8 DEF SearchInv, SearchOk
  <1> QED
    BY <1>5, <1>9 DEF SoundInv

\* The search in a node leads to the child between whose separators the key is.
LEMMA SearchLeads ==
  ASSUME NEW n \in PageType, Ordered(n.cells), NEW k \in Key
  PROVE  LET idx == node_bin_search(n, k).idx IN
         /\ idx + 1 \in Slots(n) /\ slot(n, idx + 1) = child_at(n, idx)
         /\ InRange(n, idx + 1, k)
  <1> DEFINE at == node_bin_search(n, k)
             idx == at.idx
             N == Len(n.cells)
  <1>1. n.cells \in Seq(CellType) /\ N \in Nat
    BY PageFields
  <1>2. Placed(n.cells, k, at)
    BY <1>1, SearchPlaces
  <1>3. idx \in 0 .. N
    BY <1>2 DEF Placed
  <1>4. /\ \A i \in 1 .. idx : ~Before(k, n.cells[i].key)
        /\ \A i \in idx + 1 .. N : ~Before(n.cells[i].key, k)
    BY <1>1, <1>2, PlaceBetween
  <1> HIDE DEF at
  <1>5. idx + 1 \in Slots(n)
    BY <1>1, <1>3 DEF Slots
  <1>6. slot(n, idx + 1) = child_at(n, idx)
    <2>1. (idx + 1 <= N) <=> (idx < N)
      BY <1>1, <1>3
    <2> QED
      BY <2>1 DEF slot, child_at, cell_at
  <1>7. InRange(n, idx + 1, k)
    <2>1. (idx + 1) - 1 = idx /\ (idx + 1 # 1 => idx \in 1 .. idx)
          /\ (idx + 1 <= N => idx + 1 \in idx + 1 .. N)
      BY <1>1, <1>3
    <2> QED
      BY <1>4, <2>1 DEF InRange
  <1> QED
    BY <1>5, <1>6, <1>7 DEF at

\* One node further down.
LEMMA SoundFollow ==
  ASSUME IndInv, SoundInv, follow
  PROVE  SoundInv'
  <1>1. PICK h : Shape(h)
    BY DEF IndInv
  <1>2. TypeInv /\ pc = "descend" /\ RootInv /\ SearchInv
    BY <1>1 DEF IndInv, follow, SoundInv
  <1> DEFINE L == Len(breadcrumbs)
             p == breadcrumbs[L].node
             at == node_bin_search(nodes[p], key)
             child == child_at(nodes[p], at.idx)
  <1>3. /\ L \in Nat /\ L >= 1 /\ here = nodes[p] /\ p \in 1 .. Len(nodes)
        /\ Len(nodes) \in Nat /\ DOMAIN h = 1 .. Len(nodes)
        /\ h[p] \in Nat /\ h[p] + L = h[breadcrumbs[1].node] + 1
    BY <1>1, <1>2, PathFacts DEF here
  <1>4. /\ ~nodes[p].leaf
        /\ root' = root /\ count' = count /\ nodes' = nodes
        /\ IF child = NULL
           THEN stop("abort")
           ELSE /\ breadcrumbs' = Append(breadcrumbs, Crumb(child))
                /\ UNCHANGED <<pc, bc_idx, leaf_node, args>>
    BY <1>3, Zenon DEF follow
  <1>5. CASE child = NULL
    <2>1. pc' = "abort"
      BY <1>4, <1>5 DEF stop
    <2> QED
      BY <1>4, <2>1, SoundStop
  <1>6. CASE child # NULL
    <2>1. /\ breadcrumbs' = Append(breadcrumbs, Crumb(child)) /\ pc' = "descend"
          /\ key' = key
      BY <1>2, <1>4, <1>6 DEF args
    <2>2. child \in 1 .. Len(nodes) /\ h[p] = h[child] + 1 /\ key \in Key
      <3>0. nodes \in Seq(PageType) /\ PagesOk(nodes, h)
        BY <1>1, <1>2 DEF TypeInv, Shape
      <3>1. PageOk(nodes[p], h[p], h, LeafKeys(nodes)) /\ key \in Key
        BY <1>2, <1>3, <3>0, PageFacts, ArgsType
      <3> QED
        BY <1>3, <1>4, <1>6, <3>1, ChildBelow DEF Below
    <2>3. Crumb(child) \in CrumbType /\ Crumb(child).node = child
          /\ ~Crumb(child).is_full
      BY <1>3, <2>2 DEF Crumb, CrumbType, NULL
    <2>4. breadcrumbs \in Seq(CrumbType)
      BY <1>2 DEF TypeInv
    <2>5. /\ breadcrumbs' \in Seq(CrumbType) /\ Len(breadcrumbs') = L + 1
          /\ breadcrumbs'[L + 1] = Crumb(child)
          /\ \A i \in 1 .. L : breadcrumbs'[i] = breadcrumbs[i]
      <3> HIDE DEF child
      <3> QED
        BY <1>3, <2>1, <2>3, <2>4
    <2>6. RootInv'
      <3>1. breadcrumbs[1].node = root /\ \A i \in 1 .. L : ~breadcrumbs[i].is_full
        BY <1>2 DEF RootInv
      <3>2. \A i \in 1 .. L + 1 : i \in 1 .. L \/ i = L + 1
        BY <1>3
      <3>3. 1 \in 1 .. L
        BY <1>3
      <3>4. breadcrumbs'[1].node = root
            /\ \A i \in 1 .. Len(breadcrumbs') : ~breadcrumbs'[i].is_full
        BY <2>3, <2>5, <3>1, <3>2, <3>3
      <3> QED
        BY <1>2, <1>4, <2>1, <3>4 DEF RootInv
    <2>7. ~writing /\ ~writing' /\ ~linking'
      BY <1>2, <2>1 DEF writing, linking
    <2>8. Written' = nodes /\ Written = nodes
      BY <1>4, <2>7 DEF Written
    <2>9. Small(nodes, root)' => SoundTree(Written, root, count)'
      BY <1>2, <1>4, <2>8, Primes DEF SearchInv, SearchOk
    <2>10. here' = nodes[child] /\ leaf_crumb'.node = child
      <3>1. Last(breadcrumbs') = breadcrumbs'[L + 1]
        BY <2>5 DEF Last
      <3> QED
        BY <1>4, <2>3, <2>5, <3>1 DEF here, leaf_crumb
    <2>11. ASSUME Small(nodes, root), nodes[child].leaf
           PROVE  Leads(nodes[root], root, child, key)
      <3>1. /\ nodes[root] \in PageType /\ Ordered(nodes[root].cells)
            /\ (nodes[child].leaf <=> h[child] = 0) /\ h[root] \in Nat
            /\ breadcrumbs[1].node = root
        BY <1>1, <1>2, <2>2, RootFacts DEF RootInv
      <3>2. h[root] = 0 \/ h[root] = 1
        BY <1>1, <1>2, <2>11, SmallHeight
      <3>3. L = 1
        <4>1. h[p] = 1 /\ h[breadcrumbs[1].node] = h[root]
          BY <2>2, <2>11, <3>1
        <4> DEFINE e == h[root]
        <4>2. L \in Nat /\ L >= 1 /\ e \in Nat /\ (e = 0 \/ e = 1) /\ 1 + L = e + 1
          BY <1>3, <3>1, <3>2, <4>1
        <4> HIDE DEF e, L
        <4> QED
          BY ONLY <4>2
      <3>4. p = root
        BY <3>1, <3>3
      <3> DEFINE n == nodes[root]
                 idx == node_bin_search(n, key).idx
      <3>5. child = child_at(n, idx)
        BY <3>4
      <3> HIDE DEF child, idx
      <3>6. idx + 1 \in Slots(n) /\ slot(n, idx + 1) = child /\ InRange(n, idx + 1, key)
        BY <2>2, <3>1, <3>5, SearchLeads DEF idx
      <3>7. ~n.leaf
        BY <1>4, <3>4
      <3> QED
        BY <3>6, <3>7 DEF Leads
    <2>12. SearchInv'
      BY <1>4, <2>1, <2>7, <2>9, <2>10, <2>11, Primes DEF SearchInv, SearchOk
    <2> QED
      BY <2>6, <2>12 DEF SoundInv
  <1> QED
    BY <1>5, <1>6

\* The same of the leaf that is to be split.
LEMMA LinkPrimed ==
  LinkOk' <=>
    /\ Leads(nodes'[root'], root', leaf_crumb'.node, key')
    /\ leaf_node' = IF key_compare(partition_key(leaf_crumb)', key') < 0
                    THEN leaf_crumb'.new_node ELSE leaf_crumb'.node
    /\ ~nodes'[root'].leaf =>
         \A j \in Slots(nodes'[root']) : slot(nodes'[root'], j) # leaf_crumb'.new_node
  BY Zenon DEF LinkOk, Leads, Slots, slot, InRange

\* The leaf is full: its sibling is allocated.
LEMMA SoundFull ==
  ASSUME IndInv, SoundInv, leaf_is_full
  PROVE  SoundInv'
  <1>1. PICK h : Shape(h)
    BY DEF IndInv
  <1>2. TypeInv /\ pc = "descend" /\ nodes \in Seq(PageType) /\ PagesOk(nodes, h)
        /\ RootInv /\ SearchInv
    BY <1>1 DEF IndInv, leaf_is_full, TypeInv, Shape, SoundInv
  <1> DEFINE N == Len(nodes)
             L == Len(breadcrumbs)
             pid == breadcrumbs[L].node
             p == node_partition_idx(nodes[pid])
             side == leaf_side(cell_at(nodes[pid], p).key, pid)
             bc == [node |-> pid, new_node |-> N + 1, f_node |-> side,
                    partition_idx |-> p, is_full |-> TRUE]
             n == node_init(TRUE)
  <1>3. /\ N \in Nat /\ L \in Nat /\ L \in 1 .. L /\ 1 \in 1 .. L
        /\ pid \in 1 .. N /\ fresh = N + 1
        /\ here = nodes[pid] /\ Last(breadcrumbs) = breadcrumbs[L]
    BY <1>1, <1>2, PathFacts, NodesLen DEF here
  <1>4. p \in 0 .. Len(nodes[pid].cells) /\ Len(nodes[pid].cells) \in Nat
    BY <1>2, <1>3, PageFacts, PartitionRange
  <1> HIDE DEF p
  <1>5. nodes[pid].leaf /\ root' = root /\ count' = count
        /\ IF p = Len(nodes[pid].cells)
           THEN stop("abort") /\ UNCHANGED nodes
           ELSE /\ pc' = "propagate"
                /\ nodes' = Append(nodes, n)
                /\ leaf_node' = side
                /\ breadcrumbs' = [breadcrumbs EXCEPT ![L] = bc]
                /\ bc_idx' = L - 1
                /\ UNCHANGED args
    BY <1>3, Zenon DEF leaf_is_full, p
  <1>6. CASE p = Len(nodes[pid].cells)
    <2>1. pc' = "abort" /\ nodes' = nodes
      BY <1>5, <1>6 DEF stop
    <2> QED
      BY <1>5, <2>1, SoundStop
  <1>7. CASE p # Len(nodes[pid].cells)
    <2>1. /\ pc' = "propagate" /\ nodes' = Append(nodes, n) /\ leaf_node' = side
          /\ breadcrumbs' = [breadcrumbs EXCEPT ![L] = bc]
          /\ bc_idx' = L - 1 /\ key' = key
      BY <1>5, <1>7 DEF args
    <2>2. side \in {pid, N + 1}
      BY <1>3 DEF leaf_side
    <2>3. bc \in CrumbType
      BY <1>3, <1>4, <2>2 DEF CrumbType
    <2>4. /\ bc.node = pid /\ bc.new_node = N + 1 /\ bc.f_node = side
          /\ bc.partition_idx = p /\ bc.is_full
      OBVIOUS
    <2>5. side = IF key_compare(cell_at(nodes[pid], p).key, key) < 0 THEN N + 1 ELSE pid
      BY <1>3 DEF leaf_side
    <2> HIDE DEF bc, side
    <2>6. n \in PageType /\ n.cells = << >>
      BY EmptyPage
    <2> HIDE DEF n
    <2>7. Grown(nodes, nodes')
      BY <1>2, <2>1, <2>6 DEF Grown
    <2>8. /\ nodes'[root] = nodes[root]
          /\ Small(nodes', root) <=> Small(nodes, root)
          /\ SoundTree(nodes, root, count) => SoundTree(nodes', root, count)
      BY <1>1, <1>2, <2>7, GrownSound
    <2>9. /\ breadcrumbs' \in Seq(CrumbType) /\ Len(breadcrumbs') = L
          /\ breadcrumbs'[L] = bc
          /\ \A j \in 1 .. L : j # L => breadcrumbs'[j] = breadcrumbs[j]
      BY <1>2, <1>3, <2>1, <2>3, Recrumbed
    <2>10. root \in 1 .. N
      BY <1>2 DEF TypeInv
    <2>11. RootInv'
      <3>1. breadcrumbs'[1].node = root
        BY <1>2, <1>3, <2>4, <2>9 DEF RootInv
      <3>2. \A i \in 1 .. L - 1 : ~breadcrumbs'[i].is_full
        <4>1. \A i \in 1 .. L - 1 : i \in 1 .. L /\ i # L
          BY <1>3
        <4> QED
          BY <1>2, <2>9, <4>1 DEF RootInv
      <3>3. low' = L
        BY <1>3, <2>1 DEF low
      <3>4. \A i \in L .. L : i = L
        BY <1>3
      <3>5. bc.new_node # root
        BY <1>3, <2>4, <2>10
      <3>6. ~nodes'[root].leaf => nodes'[root].rightmost # NULL
        BY <1>2, <2>8 DEF RootInv
      <3> QED
        BY <1>5, <2>1, <2>9, <3>1, <3>2, <3>3, <3>4, <3>5, <3>6 DEF RootInv
    <2>12. ~writing /\ ~writing' /\ linking'
      BY <1>2, <2>1 DEF writing, linking
    <2>13. Written = nodes /\ Written' = nodes'
      BY <2>12 DEF Written
    <2>14. leaf_crumb' = bc /\ leaf_crumb.node = pid
      BY <2>9 DEF leaf_crumb
    <2>15. ASSUME Small(nodes', root')
           PROVE  SoundTree(Written, root, count)' /\ LinkOk'
      <3>1. SearchOk /\ Small(nodes, root)
        BY <1>2, <1>5, <2>8, <2>15 DEF SearchInv
      <3>2. SoundTree(nodes, root, count) /\ Leads(nodes[root], root, pid, key)
        BY <1>2, <1>3, <1>5, <2>13, <2>14, <3>1 DEF SearchOk
      <3>3. SoundTree(Written, root, count)'
        BY <1>5, <2>8, <2>13, <3>2, Primes
      <3>4. Leads(nodes'[root'], root', leaf_crumb'.node, key')
        BY <1>5, <2>1, <2>4, <2>8, <2>14, <3>2
      <3>5. partition_key(leaf_crumb)' = cell_at(nodes[pid], p).key
        <4>1. nodes'[pid] = nodes[pid]
          BY <1>3, <2>7 DEF Grown
        <4> QED
          BY <2>4, <2>14, <4>1 DEF partition_key, cell_at
      <3>6. leaf_node' = IF key_compare(partition_key(leaf_crumb)', key') < 0
                         THEN leaf_crumb'.new_node ELSE leaf_crumb'.node
        BY <2>1, <2>4, <2>5, <2>14, <3>5
      <3>7. ASSUME ~nodes[root].leaf, NEW j \in Slots(nodes[root])
            PROVE  slot(nodes[root], j) # N + 1
        <4>1. slot(nodes[root], j) \in 1 .. N
          BY <3>2, <3>7 DEF SoundTree, TwoOk, SlotsRanged
        <4> QED
          BY <1>3, <4>1
      <3>8. ~nodes'[root'].leaf =>
              \A j \in Slots(nodes'[root']) : slot(nodes'[root'], j) # leaf_crumb'.new_node
        BY <1>5, <2>4, <2>8, <2>14, <3>7
      <3>9. LinkOk'
        <4>1. LinkOk' <=>
                /\ Leads(nodes'[root'], root', leaf_crumb'.node, key')
                /\ leaf_node' = IF key_compare(partition_key(leaf_crumb)', key') < 0
                                THEN leaf_crumb'.new_node ELSE leaf_crumb'.node
                /\ ~nodes'[root'].leaf =>
                     \A j \in Slots(nodes'[root']) :
                       slot(nodes'[root'], j) # leaf_crumb'.new_node
          BY LinkPrimed
        <4> QED
          BY <3>4, <3>6, <3>8, <4>1
      <3> QED
        BY <3>3, <3>9
    <2>16. SearchInv'
      BY <2>1, <2>12, <2>15, Primes DEF SearchInv, SearchOk
    <2> QED
      BY <2>11, <2>16 DEF SoundInv
  <1> QED
    BY <1>6, <1>7

\* One more breadcrumb is marked on the way up.
LEMMA SoundMark ==
  ASSUME TypeInv, NEW h, Shape(h), SoundInv, pc = "propagate", more_up,
         pc' = "propagate", bc_idx' = bc_idx - 1, leaf_node' = leaf_node, key' = key,
         root' = root, count' = count, nodes' = nodes \/ Grown(nodes, nodes'),
         NEW bc \in CrumbType, bc.node = breadcrumbs[bc_idx].node,
         bc.is_full => bc.new_node # root,
         breadcrumbs' = [breadcrumbs EXCEPT ![bc_idx] = bc]
  PROVE  SoundInv'
  <1> DEFINE L == Len(breadcrumbs)
             b == bc_idx
             N == Len(nodes)
  <1>1. /\ b \in 1 .. L - 1 /\ b \in 1 .. L /\ low = b + 1 /\ L \in Nat /\ 1 \in 1 .. L
        /\ \A i \in 1 .. L : breadcrumbs[i].node \in 1 .. N
    BY UpFacts, PathFacts
  <1>2. /\ Len(breadcrumbs') = L /\ breadcrumbs'[b] = bc
        /\ \A j \in 1 .. L : j # b => breadcrumbs'[j] = breadcrumbs[j]
    BY <1>1, Recrumbed
  <1>3. /\ nodes'[root] = nodes[root]
        /\ Small(nodes', root) <=> Small(nodes, root)
        /\ SoundTree(nodes, root, count) => SoundTree(nodes', root, count)
        /\ \A q \in 1 .. N : nodes'[q] = nodes[q]
    <2>1. RootInv
      BY DEF SoundInv
    <2>2. CASE nodes' = nodes
      BY <2>2
    <2>3. CASE Grown(nodes, nodes')
      BY <2>1, <2>3, GrownSound DEF Grown
    <2> QED
      BY <2>2, <2>3
  <1>4. RootInv'
    <2>1. /\ ~nodes[root].leaf => nodes[root].rightmost # NULL
          /\ breadcrumbs[1].node = root
          /\ \A i \in 1 .. b : ~breadcrumbs[i].is_full
          /\ \A i \in low .. L : breadcrumbs[i].is_full => breadcrumbs[i].new_node # root
      BY DEF SoundInv, RootInv
    <2>2. breadcrumbs'[1].node = root
      BY <1>1, <1>2, <2>1
    <2>3. \A i \in 1 .. b - 1 : ~breadcrumbs'[i].is_full
      <3>1. \A i \in 1 .. b - 1 : i \in 1 .. b /\ i \in 1 .. L /\ i # b
        BY <1>1
      <3> QED
        BY <1>2, <2>1, <3>1
    <2>4. low' = b
      BY <1>1 DEF low
    <2>5. ASSUME NEW i \in b .. L, breadcrumbs'[i].is_full
          PROVE  breadcrumbs'[i].new_node # root
      <3>1. i = b \/ (i \in low .. L /\ i \in 1 .. L /\ i # b)
        BY <1>1
      <3> QED
        BY <1>2, <2>1, <2>5, <3>1
    <2>6. ~nodes'[root].leaf => nodes'[root].rightmost # NULL
      BY <1>3, <2>1
    <2> QED
      BY <1>2, <2>2, <2>3, <2>4, <2>5, <2>6 DEF RootInv
  <1>5. ~writing /\ ~writing' /\ linking /\ linking'
    BY DEF writing, linking
  <1>6. Written = nodes /\ Written' = nodes'
    BY <1>5 DEF Written
  <1>7. leaf_crumb' = leaf_crumb /\ leaf_crumb.node \in 1 .. N
    <2>1. L \in 1 .. L /\ L # b
      BY <1>1
    <2> QED
      BY <1>1, <1>2, <2>1 DEF leaf_crumb
  <1>8. partition_key(leaf_crumb)' = partition_key(leaf_crumb)
    BY <1>3, <1>7 DEF partition_key, cell_at
  <1>9. ASSUME Small(nodes', root')
        PROVE  SoundTree(Written, root, count)' /\ LinkOk'
    <2>1. SearchOk
      BY <1>3, <1>9 DEF SoundInv, SearchInv
    <2>2. SoundTree(nodes, root, count) /\ LinkOk
      BY <1>5, <1>6, <2>1 DEF SearchOk
    <2>3. SoundTree(Written, root, count)'
      BY <1>3, <1>6, <2>2, Primes
    <2>4. Leads(nodes'[root'], root', leaf_crumb'.node, key')
      BY <1>3, <1>7, <2>2 DEF LinkOk
    <2>5. leaf_node' = IF key_compare(partition_key(leaf_crumb)', key') < 0
                       THEN leaf_crumb'.new_node ELSE leaf_crumb'.node
      BY <1>7, <1>8, <2>2 DEF LinkOk
    <2>6. ~nodes'[root'].leaf =>
            \A j \in Slots(nodes'[root']) : slot(nodes'[root'], j) # leaf_crumb'.new_node
      BY <1>3, <1>7, <2>2 DEF LinkOk
    <2>7. LinkOk'
      BY <2>4, <2>5, <2>6, LinkPrimed
    <2> QED
      BY <2>3, <2>7
  <1>10. SearchInv'
    BY <1>5, <1>9, Primes DEF SearchInv, SearchOk
  <1> QED
    BY <1>4, <1>10 DEF SoundInv

\* A node on the way up has room.
LEMMA SoundMarkRoom ==
  ASSUME IndInv, SoundInv, mark_room
  PROVE  SoundInv'
  <1>1. PICK h : Shape(h)
    BY DEF IndInv
  <1>2. TypeInv /\ pc = "propagate" /\ more_up /\ nodes \in Seq(PageType)
        /\ PagesOk(nodes, h)
    BY <1>1 DEF IndInv, mark_room, TypeInv, Shape
  <1> DEFINE pid == breadcrumbs[bc_idx].node
             bc == [node |-> pid, new_node |-> NULL, f_node |-> pid,
                    partition_idx |-> node_partition_idx(nodes[pid]),
                    is_full |-> FALSE]
  <1>3. pid \in 1 .. Len(nodes)
    BY <1>1, <1>2, UpFacts
  <1>4. /\ breadcrumbs' = [breadcrumbs EXCEPT ![bc_idx] = bc]
        /\ bc_idx' = bc_idx - 1
        /\ root' = root /\ count' = count /\ nodes' = nodes /\ pc' = "propagate"
        /\ leaf_node' = leaf_node /\ key' = key
    BY <1>2 DEF mark_room, args
  <1>5. bc \in CrumbType /\ bc.node = pid /\ ~bc.is_full
    <2>1. node_partition_idx(nodes[pid]) \in Nat
      BY <1>2, <1>3, PageFacts, PartitionRange
    <2>2. pid \in Nat
      BY <1>2, <1>3, PageFacts
    <2> QED
      BY <2>1, <2>2 DEF CrumbType, NULL
  <1> HIDE DEF bc
  <1> QED
    BY <1>1, <1>2, <1>4, <1>5, SoundMark

\* A node on the way up is full.
LEMMA SoundMarkFull ==
  ASSUME IndInv, SoundInv, mark_full
  PROVE  SoundInv'
  <1>1. PICK h : Shape(h)
    BY DEF IndInv
  <1>2. TypeInv /\ pc = "propagate" /\ more_up /\ nodes \in Seq(PageType)
        /\ PagesOk(nodes, h)
    BY <1>1 DEF IndInv, mark_full, TypeInv, Shape
  <1> DEFINE N == Len(nodes)
             b == bc_idx
             pid == breadcrumbs[b].node
             p == node_partition_idx(nodes[pid])
             ckey == partition_key(breadcrumbs[b + 1])
             below == key_compare(cell_at(nodes[pid], p).key, ckey) < 0
             side == IF below THEN N + 1 ELSE pid
             bc == [node |-> pid, new_node |-> N + 1, f_node |-> side,
                    partition_idx |-> p, is_full |-> TRUE]
             n == node_init(FALSE)
  <1>3. N \in Nat /\ pid \in 1 .. N /\ fresh = N + 1 /\ root \in 1 .. N
    BY <1>1, <1>2, UpFacts, NodesLen DEF TypeInv
  <1>4. p \in 0 .. Len(nodes[pid].cells) /\ Len(nodes[pid].cells) \in Nat
    BY <1>2, <1>3, PageFacts, PartitionRange
  <1> HIDE DEF p
  <1>5. root' = root /\ count' = count
        /\ IF p + 1 >= Len(nodes[pid].cells)
           THEN /\ stop(IF p = Len(nodes[pid].cells) THEN "wild" ELSE "abort")
                /\ UNCHANGED nodes
           ELSE /\ nodes' = Append(nodes, n)
                /\ breadcrumbs' = [breadcrumbs EXCEPT ![b] = bc]
                /\ bc_idx' = b - 1
                /\ UNCHANGED <<pc, leaf_node, args>>
    BY <1>3, Zenon DEF mark_full, p
  <1>6. CASE p + 1 >= Len(nodes[pid].cells)
    <2> DEFINE how == IF p = Len(nodes[pid].cells) THEN "wild" ELSE "abort"
    <2>1. how \in {"abort", "wild"}
      OBVIOUS
    <2>2. pc' = how /\ nodes' = nodes
      BY <1>5, <1>6 DEF stop
    <2> HIDE DEF how
    <2> QED
      BY <1>5, <2>1, <2>2, SoundStop
  <1>7. CASE ~(p + 1 >= Len(nodes[pid].cells))
    <2>1. /\ pc' = "propagate" /\ nodes' = Append(nodes, n) /\ leaf_node' = leaf_node
          /\ breadcrumbs' = [breadcrumbs EXCEPT ![b] = bc]
          /\ bc_idx' = b - 1 /\ key' = key
      BY <1>2, <1>5, <1>7 DEF args
    <2>2. side \in {pid, N + 1}
      OBVIOUS
    <2> HIDE DEF side
    <2>3. bc \in CrumbType /\ bc.node = pid /\ bc.new_node # root
      BY <1>3, <1>4, <2>2 DEF CrumbType
    <2> HIDE DEF bc
    <2>4. n \in PageType /\ n.cells = << >>
      BY EmptyPage
    <2> HIDE DEF n
    <2>5. Grown(nodes, nodes')
      BY <1>2, <2>1, <2>4 DEF Grown
    <2> QED
      BY <1>1, <1>2, <1>5, <2>1, <2>3, <2>5, SoundMark
  <1> QED
    BY <1>6, <1>7

\* The topmost node to be written has room.
LEMMA SoundTop ==
  ASSUME IndInv, SoundInv, top_has_room
  PROVE  SoundInv'
  <1>1. PICK h : Shape(h)
    BY DEF IndInv
  <1> DEFINE L == Len(breadcrumbs)
  <1>2. TypeInv /\ pc = "propagate" /\ ~breadcrumbs[bc_idx + 1].is_full
    BY DEF IndInv, top_has_room
  <1>3. /\ pc' = "write" /\ bc_idx' = bc_idx + 1
        /\ root' = root /\ count' = count /\ nodes' = nodes
        /\ breadcrumbs' = breadcrumbs /\ leaf_node' = leaf_node /\ key' = key
    BY DEF top_has_room, args
  <1>4. low' = low /\ low = bc_idx + 1
    BY <1>2, <1>3 DEF low
  <1>5. low \in 1 .. L /\ breadcrumbs[L].is_full /\ L \in Nat /\ bc_idx \in Nat
    BY <1>1, <1>2, MarkFacts, PathFacts DEF TypeInv
  <1>6. RootInv'
    <2>1. /\ ~nodes[root].leaf => nodes[root].rightmost # NULL
          /\ breadcrumbs[1].node = root
          /\ \A i \in 1 .. bc_idx : ~breadcrumbs[i].is_full
          /\ \A i \in low .. L : breadcrumbs[i].is_full => breadcrumbs[i].new_node # root
      BY <1>2 DEF SoundInv, RootInv
    <2>2. ~breadcrumbs[1].is_full
      <3>1. bc_idx = 0 \/ 1 \in 1 .. bc_idx
        BY <1>5
      <3> QED
        BY <1>2, <2>1, <3>1
    <2> QED
      BY <1>3, <1>4, <2>1, <2>2 DEF RootInv
  <1>7. bc_idx + 1 < L
    <2>1. bc_idx + 1 # L
      BY <1>2, <1>5
    <2> QED
      BY <1>4, <1>5, <2>1
  <1>8. ~writing /\ ~writing' /\ linking /\ linking'
    BY <1>2, <1>3, <1>5, <1>7 DEF writing, linking
  <1>9. Written = nodes /\ Written' = nodes
    BY <1>3, <1>8 DEF Written
  <1>10. leaf_crumb' = leaf_crumb /\ partition_key(leaf_crumb)' = partition_key(leaf_crumb)
    BY <1>3 DEF leaf_crumb, partition_key, cell_at
  <1>11. Small(nodes, root)' => SoundTree(Written, root, count)' /\ LinkOk'
    <2>1. Small(nodes, root)' => SoundTree(nodes, root, count) /\ LinkOk
      BY <1>2, <1>3, <1>8, <1>9, Primes DEF SoundInv, SearchInv, SearchOk
    <2>2. LinkOk => LinkOk'
      BY <1>3, <1>10, LinkPrimed DEF LinkOk
    <2> QED
      BY <1>3, <1>9, <2>1, <2>2, Primes
  <1>12. SearchInv'
    BY <1>3, <1>8, <1>11 DEF SearchInv, SearchOk
  <1> QED
    BY <1>6, <1>12 DEF SoundInv

\* The half, a or b, to which key x goes if k is the separator.
HalfFor(k, x, a, b) == IF key_compare(k, x) < 0 THEN b ELSE a

\* It is on the right side of the separator.
LEMMA SideOf ==
  ASSUME NEW a, NEW b, NEW k \in Key, NEW x \in Key
  PROVE  \/ HalfFor(k, x, a, b) = a /\ ~Before(k, x)
         \/ HalfFor(k, x, a, b) = b /\ ~Before(x, k)
  <1>1. CASE key_compare(k, x) < 0
    BY <1>1, CompareDecides, BeforeAsymmetric DEF HalfFor
  <1>2. CASE ~(key_compare(k, x) < 0)
    <2>1. key_compare(k, x) = 0 \/ key_compare(k, x) > 0
      BY <1>2, CompareDecides
    <2>2. ~Before(k, x)
      BY <2>1, CompareDecides, BeforeAsymmetric, BeforeIrreflexive
    <2> QED
      BY <1>2, <2>2 DEF HalfFor
  <1> QED
    BY <1>1, <1>2

\* A new root above the one that is full.
LEMMA SoundRoot ==
  ASSUME IndInv, SoundInv, split_root
  PROVE  SoundInv'
  <1>1. PICK h : Shape(h)
    BY DEF IndInv
  <1> DEFINE N == Len(nodes)
             L == Len(breadcrumbs)
             bc == breadcrumbs[1]
             a == bc.node
             b == bc.new_node
             P == bc.partition_idx
             k == partition_key(bc)
             m == new_root(bc)
  <1>2. /\ TypeInv /\ pc = "propagate" /\ bc_idx = 0 /\ nodes \in Seq(PageType)
        /\ PagesOk(nodes, h) /\ bc.is_full /\ RootInv /\ SearchInv
    BY <1>1 DEF IndInv, split_root, TypeInv, Shape, SoundInv
  <1>3. /\ nodes' = Append(nodes, m) /\ root' = N + 1 /\ pc' = "write"
        /\ bc_idx' = 1 /\ count' = count /\ breadcrumbs' = breadcrumbs
        /\ leaf_node' = leaf_node /\ key' = key
    BY DEF split_root, fresh, args
  <1>4. /\ N \in Nat /\ a \in 1 .. N /\ bc \in CrumbType /\ L \in Nat /\ L >= 1
        /\ DOMAIN h = 1 .. N /\ h[a] \in Nat
        /\ \A i \in 1 .. L : breadcrumbs[i] \in CrumbType /\ breadcrumbs[i].node \in 1 .. N
    BY <1>1, <1>2, PathFacts
  <1>5. /\ low = 1 /\ low' = 1
        /\ \A i \in 1 .. L : Marked(nodes, h, breadcrumbs[i])
    <2>1. low = 1 /\ low' = 1
      BY <1>2, <1>3 DEF low
    <2> QED
      BY <1>1, <1>2, <2>1, MarkFacts
  <1>6. Marked(nodes, h, bc)
    BY <1>4, <1>5
  <1>7. /\ b \in 1 .. N /\ b # a /\ h[b] = h[a] /\ b \in Nat /\ a \in Nat
        /\ P \in 0 .. Len(nodes[a].cells) - 1
        /\ (nodes[b].leaf <=> nodes[a].leaf)
        /\ nodes[a] \in PageType /\ Ordered(nodes[a].cells)
    <2>1. /\ b \in 1 .. N /\ b # a /\ h[b] = h[a]
          /\ P \in 0 .. Len(nodes[a].cells) - 1
          /\ (nodes[b].leaf <=> nodes[a].leaf)
          /\ PageOk(nodes[a], h[a], h, LeafKeys(nodes))
      BY <1>2, <1>4, <1>6, CrumbPages
    <2> QED
      BY <1>4, <2>1, CrumbFields DEF PageOk
  <1>8. k \in Key
    BY <1>2, <1>4, <1>6, PartitionKey
  <1>9. /\ m \in PageType /\ ~m.leaf /\ Len(m.cells) = 1
        /\ m.cells[1].key = k /\ m.cells[1].child = a /\ m.rightmost = b
    <2>1. m = RootOf(k, a, b)
      BY DEF new_root, RootOf
    <2> HIDE DEF m, k, a, b
    <2> QED
      BY <1>7, <1>8, <2>1, RootPage
  <1>10. k = nodes[a].cells[P + 1].key
    BY DEF partition_key, cell_at
  <1> HIDE DEF m, k
  <1>11. /\ nodes' \in Seq(PageType) /\ Len(nodes') = N + 1
         /\ \A q \in 1 .. N : nodes'[q] = nodes[q]
         /\ nodes'[N + 1] = m
    BY <1>2, <1>3, <1>4, <1>9
  <1>12. RootInv'
    <2>1. ASSUME NEW i \in 1 .. L, breadcrumbs[i].is_full
          PROVE  breadcrumbs[i].new_node # N + 1
      <3>1. breadcrumbs[i].new_node \in 1 .. N
        <4> DEFINE c == breadcrumbs[i]
        <4>1. c \in CrumbType /\ c.node \in 1 .. N /\ Marked(nodes, h, c) /\ c.is_full
          BY <1>4, <1>5, <2>1
        <4> HIDE DEF c
        <4>2. c.new_node \in 1 .. N
          BY <1>2, <4>1, CrumbPages
        <4> QED
          BY <4>2 DEF c
      <3> QED
        BY <1>4, <3>1
    <2>2. b # NULL
      BY <1>7 DEF NULL
    <2> QED
      BY <1>2, <1>3, <1>5, <1>9, <1>11, <2>1, <2>2 DEF RootInv
  <1>13. ASSUME Small(nodes', root')
         PROVE  /\ writing' /\ ~linking'
                /\ SoundTree(Written, root, count)'
                /\ Leads(nodes'[root'], root', leaf_node', key')
    <2>1. nodes[a].leaf /\ a = root
      <3>1. nodes'[b].leaf
        BY <1>3, <1>9, <1>11, <1>13 DEF Small
      <3> QED
        BY <1>2, <1>7, <1>11, <3>1 DEF RootInv
    <2>2. L = 1
      <3> DEFINE e == h[breadcrumbs[L].node]
      <3>1. h[a] = 0
        BY <1>1, <1>2, <1>4, <2>1, RootFacts
      <3>2. e \in Nat /\ e + L = h[a] + 1
        BY <1>1, <1>2, PathFacts
      <3>3. e + L = 1 /\ e = 0
        BY <1>1, <1>2, <3>1, <3>2, MarkFacts
      <3> HIDE DEF e, L
      <3> QED
        BY <1>4, <3>3
    <2>3. writing' /\ ~linking' /\ leaf_crumb' = bc /\ leaf_crumb = bc
      BY <1>3, <2>2 DEF writing, linking, leaf_crumb
    <2>4. OneOk(nodes, a, count) /\ LinkOk
      <3>1. Small(nodes, root)
        BY <2>1 DEF Small
      <3>2. SearchOk
        BY <1>2, <3>1 DEF SearchInv
      <3>3. ~writing /\ linking
        BY <1>2 DEF writing, linking
      <3> QED
        BY <2>1, <3>2, <3>3 DEF SearchOk, SoundTree, Written
    <2> DEFINE ns == nodes'
               ms == SplitOf(ns, bc)
    <2>5. /\ ns \in Seq(PageType) /\ Len(ns) = N + 1 /\ ns[N + 1] = m
          /\ \A q \in 1 .. N : ns[q] = nodes[q]
          /\ a \in 1 .. Len(ns) /\ b \in 1 .. Len(ns)
          /\ ns[a] = nodes[a] /\ N + 1 \in 1 .. Len(ns)
      BY <1>4, <1>7, <1>11
    <2>6. OneOk(ns, a, count)
      <3>1. ASSUME NEW p \in 1 .. Len(ns), ns[p].leaf, ns[p].cells # << >> PROVE p = a
        <4>1. p # N + 1
          BY <1>9, <2>5, <3>1
        <4>2. p \in 1 .. N /\ ns[p] = nodes[p]
          BY <1>4, <2>5, <4>1
        <4> QED
          BY <2>4, <3>1, <4>2 DEF OneOk
      <3> QED
        BY <2>4, <2>5, <3>1 DEF OneOk
    <2>7. ns[a].leaf /\ Ordered(ns[a].cells) /\ P \in 0 .. Len(ns[a].cells) - 1
          /\ m.cells[1].key = ns[a].cells[P + 1].key /\ count \in Nat
      BY <1>2, <1>7, <1>9, <1>10, <2>1, <2>5 DEF TypeInv
    <2> HIDE DEF ns
    <2>8. ms \in Seq(PageType) /\ Halves(ns, ms, a, b, P)
      BY <1>7, <2>5, <2>7, HalvesOf
    <2> HIDE DEF ms
    <2>9. ms[N + 1] = m
      <3>1. N + 1 # a /\ N + 1 # b
        BY <1>4, <1>7
      <3> QED
        BY <2>5, <2>8, <3>1 DEF Halves
    <2>10. TwoOk(ms, m, count)
      <3> HIDE DEF a, b, P
      <3> QED
        BY <1>7, <1>9, <2>5, <2>6, <2>7, <2>8, SplitRooted
    <2>11. SoundTree(ms, N + 1, count)
      BY <1>9, <2>9, <2>10 DEF SoundTree
    <2>12. SoundTree(Written, root, count)'
      <3>1. Written' = SplitOf(nodes', leaf_crumb')
        BY <2>3, Primes DEF Written
      <3>2. Written' = ms
        BY <2>3, <3>1 DEF ms, ns
      <3> QED
        BY <1>3, <2>11, <3>2, Primes
    <2>13. Leads(m, N + 1, leaf_node, key)
      <3>1. key \in Key
        BY <1>2, ArgsType
      <3>2. leaf_node = HalfFor(k, key, a, b)
        BY <2>3, <2>4 DEF LinkOk, k, HalfFor
      <3>3. \/ leaf_node = a /\ ~Before(k, key)
            \/ leaf_node = b /\ ~Before(key, k)
        <4> HIDE DEF a, b
        <4> QED
          BY <1>8, <3>1, <3>2, SideOf
      <3>4. 1 \in Slots(m) /\ 2 \in Slots(m) /\ slot(m, 1) = a /\ slot(m, 2) = b
        BY <1>9 DEF Slots, slot
      <3>5. ~Before(k, key) => InRange(m, 1, key)
        BY <1>9 DEF InRange
      <3>6. ~Before(key, k) => InRange(m, 2, key)
        BY <1>9 DEF InRange
      <3> QED
        BY <1>9, <3>3, <3>4, <3>5, <3>6 DEF Leads
    <2>14. Leads(nodes'[root'], root', leaf_node', key')
      BY <1>3, <1>11, <2>13
    <2> QED
      BY <2>3, <2>12, <2>14
  <1>14. SearchInv'
    BY <1>3, <1>13, Primes DEF SearchInv, SearchOk
  <1> QED
    BY <1>12, <1>14 DEF SoundInv

\* An internal node that is written is the root, which has room, or below it.
LEMMA WriteAtRoot ==
  ASSUME TypeInv, NEW h, Shape(h), RootInv, pc = "write",
         ~nodes[breadcrumbs[bc_idx].node].leaf
  PROVE  LET bc == breadcrumbs[bc_idx] IN
         /\ h[bc.node] \in Nat /\ h[bc.node] # 0 /\ h[root] # 0
         /\ \/ h[root] # h[bc.node]
            \/ bc_idx = 1 /\ ~bc.is_full /\ bc.node = root /\ bc.f_node = root
         /\ h[root] = 1 =>
              /\ bc_idx = 1 /\ ~bc.is_full /\ bc.node = root /\ bc.f_node = root
              /\ Len(breadcrumbs) = 2
  <1> DEFINE L == Len(breadcrumbs)
             i == bc_idx
             bc == breadcrumbs[i]
             e == h[bc.node]
             r == h[root]
             d == h[breadcrumbs[1].node]
  <1>1. /\ i \in 1 .. L /\ i \in Nat /\ L \in Nat /\ e + i = L /\ e \in Nat
        /\ bc.node \in 1 .. Len(nodes) /\ Marked(nodes, h, bc)
    BY WriteFacts
  <1>2. d \in Nat /\ e + i = d + 1 /\ 1 \in 1 .. L /\ breadcrumbs[1] \in CrumbType
    BY <1>1, PathFacts
  <1>3. r \in Nat /\ \A p \in 1 .. Len(nodes) : nodes[p].leaf <=> h[p] = 0
    BY RootFacts
  <1>4. e # 0
    BY <1>1, <1>3
  <1>5. CASE breadcrumbs[1].is_full
    <2>1. ~nodes[root].leaf /\ Len(nodes[root].cells) = 1
          /\ nodes[root].cells[1].child = breadcrumbs[1].node
      BY <1>5 DEF RootInv
    <2>2. PageOk(nodes[root], r, h, LeafKeys(nodes))
      BY RootFacts DEF PagesOk
    <2>3. r = d + 1
      BY <2>1, <2>2 DEF PageOk, Below
    <2> HIDE DEF e, r, d, L, i
    <2>4. r # e /\ r # 1 /\ r # 0
      BY <1>1, <1>2, <1>4, <2>3
    <2> QED
      BY <1>1, <1>4, <2>4 DEF e, r, i
  <1>6. CASE ~breadcrumbs[1].is_full
    <2>1. breadcrumbs[1].node = root /\ r = d
      BY <1>6 DEF RootInv
    <2>2. i = 1 => bc.f_node = root /\ ~bc.is_full /\ bc.node = root
      BY <1>1, <1>6, <2>1 DEF Marked
    <2> HIDE DEF e, r, d, L, i
    <2>3. r # 0 /\ (r = e => i = 1) /\ (r = 1 => i = 1 /\ L = 2)
      BY <1>1, <1>2, <1>4, <2>1
    <2> QED
      BY <1>1, <1>4, <2>2, <2>3 DEF e, r, i, L
  <1> QED
    BY <1>5, <1>6

\* The last child of a node that takes a separator.
LEMMA GainedLast ==
  ASSUME NEW f \in PageType, NEW m \in PageType, NEW J \in 1 .. Len(f.cells) + 1,
         NEW k, NEW a, NEW b, Gained(f, m, J, k, a, b)
  PROVE  m.rightmost = b \/ m.rightmost = f.rightmost
  <1> DEFINE N == Len(f.cells)
  <1>1. N \in Nat
    BY PageFields
  <1>2. /\ Len(m.cells) = N + 1 /\ slot(m, J + 1) = b
        /\ \A i \in J + 2 .. N + 2 : slot(m, i) = slot(f, i - 1)
    BY DEF Gained
  <1>3. slot(m, N + 2) = m.rightmost
    <2>1. ~(N + 2 <= N + 1)
      BY <1>1
    <2> QED
      BY <1>2, <2>1 DEF slot
  <1>4. slot(f, N + 1) = f.rightmost
    <2>1. ~(N + 1 <= N)
      BY <1>1
    <2> QED
      BY <2>1 DEF slot
  <1>5. CASE J = N + 1
    <2>1. J + 1 = N + 2
      BY <1>1, <1>5
    <2> QED
      BY <1>2, <1>3, <2>1
  <1>6. CASE J # N + 1
    <2>1. N + 2 \in J + 2 .. N + 2 /\ (N + 2) - 1 = N + 1
      BY <1>1, <1>6
    <2> QED
      BY <1>2, <1>3, <1>4, <2>1
  <1> QED
    BY <1>5, <1>6

\* The root takes a separator.
LEMMA RootGains ==
  ASSUME TypeInv, NEW h, Shape(h), RootInv, pc = "write",
         ~nodes[breadcrumbs[bc_idx].node].leaf, bc_idx = 1,
         ~breadcrumbs[1].is_full, breadcrumbs[1].node = root,
         breadcrumbs[1].f_node = root
  PROVE  LET bc == breadcrumbs[1]
             below == breadcrumbs[2]
             ckey == partition_key(below)
             split == split_nodes(bc)
             f == split[bc.f_node]
             idx == node_bin_search(f, ckey).idx
             m == linked(f, idx, ckey, below.node, below.new_node)
             ms == [split EXCEPT ![bc.f_node] = m]
         IN  /\ f = nodes[root] /\ ckey \in Key
             /\ ms \in Seq(PageType) /\ Len(ms) = Len(nodes) /\ ms[root] = m
             /\ \A p \in 1 .. Len(nodes) : p # root => ms[p] = nodes[p]
             /\ m \in PageType /\ ~m.leaf /\ m.rightmost # NULL
             /\ idx + 1 \in Slots(f)
             /\ Gained(f, m, idx + 1, ckey, below.node, below.new_node)
             /\ Placed(f.cells, ckey, node_bin_search(f, ckey))
  <1> DEFINE bc == breadcrumbs[1]
             below == breadcrumbs[2]
             a == below.node
             b == below.new_node
             ckey == partition_key(below)
             split == split_nodes(bc)
             f == split[bc.f_node]
             at == node_bin_search(f, ckey)
             idx == at.idx
             m == linked(f, idx, ckey, a, b)
             ms == [split EXCEPT ![bc.f_node] = m]
  <1>1. 1 + 1 = 2
    OBVIOUS
  <1>2. /\ a \in 1 .. Len(nodes) /\ a \in Nat /\ b \in Nat /\ ckey \in Key
        /\ Below(h, h[root], b)
    BY <1>1, WriteBelow
  <1>3. split = nodes /\ f = nodes[root]
    BY DEF split_nodes
  <1>4. /\ nodes \in Seq(PageType) /\ root \in 1 .. Len(nodes)
        /\ nodes[root] \in PageType /\ Ordered(nodes[root].cells)
        /\ DOMAIN h = 1 .. Len(nodes)
    BY RootFacts
  <1>5. f \in PageType /\ Ordered(f.cells) /\ ~f.leaf
        /\ f.cells \in Seq(CellType) /\ Len(f.cells) \in Nat
    BY <1>3, <1>4, PageFields
  <1>6. Placed(f.cells, ckey, at)
    BY <1>2, <1>5, SearchPlaces
  <1> HIDE DEF f, ckey, a, b, split
  <1>7. /\ m \in PageType /\ m.leaf = f.leaf /\ idx \in 0 .. Len(f.cells)
        /\ Gained(f, m, idx + 1, ckey, a, b)
    BY <1>2, <1>5, LinkGained
  <1>8. idx + 1 \in Slots(f) /\ idx + 1 \in 1 .. Len(f.cells) + 1
    BY <1>5, <1>7 DEF Slots
  <1> HIDE DEF m, idx, at
  <1>9. m.rightmost # NULL
    <2>1. m.rightmost = b \/ m.rightmost = f.rightmost
      <3> DEFINE J == idx + 1
      <3>1. J \in 1 .. Len(f.cells) + 1 /\ Gained(f, m, J, ckey, a, b)
        BY <1>7, <1>8
      <3> HIDE DEF J
      <3> QED
        BY <1>5, <1>7, <3>1, GainedLast
    <2>2. b # NULL
      BY <1>2, <1>4 DEF Below, NULL
    <2>3. f.rightmost # NULL
      BY <1>3, <1>5 DEF RootInv
    <2> QED
      BY <2>1, <2>2, <2>3
  <1>10. /\ ms \in Seq(PageType) /\ Len(ms) = Len(nodes) /\ ms[root] = m
         /\ \A p \in 1 .. Len(nodes) : p # root => ms[p] = nodes[p]
    BY <1>3, <1>4, <1>7, OneReplaced
  <1> QED
    BY <1>2, <1>3, <1>5, <1>6, <1>7, <1>8, <1>9, <1>10
    DEF ms, m, idx, at, f, split, ckey, a, b

\* An internal node takes the separator: the root.
LEMMA RootAfterWrite ==
  ASSUME IndInv, RootInv, write_internal, pc' = "write"
  PROVE  RootInv'
  <1>1. PICK h : Shape(h)
    BY DEF IndInv
  <1> DEFINE L == Len(breadcrumbs)
             i == bc_idx
             bc == breadcrumbs[i]
             below == breadcrumbs[i + 1]
             ckey == partition_key(below)
             split == split_nodes(bc)
             f == split[bc.f_node]
             idx == node_bin_search(f, ckey).idx
             m == linked(f, idx, ckey, below.node, below.new_node)
             ms == [split EXCEPT ![bc.f_node] = m]
  <1>2. TypeInv /\ pc = "write" /\ ~nodes[bc.node].leaf
    BY DEF IndInv, write_internal
  <1>3. /\ root' = root /\ nodes' = ms /\ i' = i + 1 /\ breadcrumbs' = breadcrumbs
    <2>1. /\ root' = root /\ count' = count
          /\ IF node_get_free_offset(f, Len(ckey), 0) = 0
             THEN stop("abort") /\ UNCHANGED nodes
             ELSE /\ nodes' = ms
                  /\ bc_idx' = i + 1
                  /\ UNCHANGED <<pc, breadcrumbs, leaf_node, args>>
      BY Zenon DEF write_internal
    <2> QED
      BY <2>1 DEF stop
  <1>4. /\ low = i /\ i \in Nat /\ L \in Nat /\ low' = i + 1
    BY <1>1, <1>2, <1>3, WriteFacts DEF low
  <1>5. /\ ~nodes[root].leaf => nodes[root].rightmost # NULL
        /\ \A j \in low .. L : breadcrumbs[j].is_full => breadcrumbs[j].new_node # root
        /\ IF breadcrumbs[1].is_full
           THEN /\ ~nodes[root].leaf /\ Len(nodes[root].cells) = 1
                /\ nodes[root].cells[1].child = breadcrumbs[1].node
                /\ nodes[root].rightmost = breadcrumbs[1].new_node
           ELSE breadcrumbs[1].node = root
    BY <1>2 DEF RootInv
  <1>6. \A j \in i + 1 .. L : j \in low .. L
    BY <1>4
  <1>7. CASE h[root] # h[bc.node]
    <2>1. root \in 1 .. Len(nodes)
      BY <1>2 DEF TypeInv
    <2>2. nodes'[root] = nodes[root]
      BY <1>1, <1>2, <1>3, <1>7, <2>1, InternalWritten
    <2> QED
      BY <1>3, <1>4, <1>5, <1>6, <2>2 DEF RootInv
  <1>8. CASE i = 1 /\ ~bc.is_full /\ bc.node = root /\ bc.f_node = root
    <2>1. nodes'[root].rightmost # NULL
      <3>1. i + 1 = 2
        BY <1>8
      <3> QED
        BY <1>1, <1>2, <1>3, <1>8, <3>1, RootGains
    <2> QED
      BY <1>3, <1>4, <1>5, <1>6, <1>8, <2>1 DEF RootInv
  <1> QED
    BY <1>1, <1>2, <1>7, <1>8, WriteAtRoot

\* Where a separator that is new to a node comes in: at the child whose key it is.
LEMMA NewPlace ==
  ASSUME NEW f \in PageType, NEW k \in Key, NEW at, Placed(f.cells, k, at), ~at.found,
         NEW j \in Slots(f), InRange(f, j, k)
  PROVE  j = at.idx + 1
  <1> DEFINE N == Len(f.cells)
             idx == at.idx
  <1>1. N \in Nat /\ f.cells \in Seq(CellType)
    BY PageFields
  <1>2. /\ idx \in 0 .. N
        /\ \A i \in 1 .. idx : Before(f.cells[i].key, k)
        /\ \A i \in idx + 1 .. N : Before(k, f.cells[i].key)
    BY DEF Placed
  <1>3. /\ j # 1 => ~Before(k, f.cells[j - 1].key)
        /\ j <= N => ~Before(f.cells[j].key, k)
        /\ j \in 1 .. N + 1
    BY DEF InRange, Slots
  <1> HIDE DEF idx, N
  <1>4. ~(j < idx + 1)
    <2>1. SUFFICES ASSUME j < idx + 1 PROVE FALSE
      OBVIOUS
    <2>2. j \in 1 .. idx /\ j <= N
      BY <1>1, <1>2, <1>3, <2>1
    <2> QED
      BY <1>2, <1>3, <2>2
  <1>5. ~(j > idx + 1)
    <2>1. SUFFICES ASSUME j > idx + 1 PROVE FALSE
      OBVIOUS
    <2>2. j - 1 \in idx + 1 .. N /\ j # 1
      BY <1>1, <1>2, <1>3, <2>1
    <2> QED
      BY <1>2, <1>3, <2>2
  <1>6. j = idx + 1
    BY <1>1, <1>2, <1>3, <1>4, <1>5
  <1> QED
    BY <1>6 DEF idx

\* A node that takes a separator and has none twice had none twice, nor that one.
LEMMA GainedDiffer ==
  ASSUME NEW f \in PageType, NEW m \in PageType, NEW J \in 1 .. Len(f.cells) + 1,
         NEW k, NEW a, NEW b, Gained(f, m, J, k, a, b), KeysDiffer(m.cells)
  PROVE  /\ KeysDiffer(f.cells)
         /\ \A i \in 1 .. Len(f.cells) : f.cells[i].key # k
  <1> DEFINE N == Len(f.cells)
             at(i) == IF i < J THEN i ELSE i + 1
  <1>1. N \in Nat
    BY PageFields
  <1>2. /\ Len(m.cells) = N + 1
        /\ \A i \in 1 .. J - 1 : m.cells[i].key = f.cells[i].key
        /\ m.cells[J].key = k
        /\ \A i \in J + 1 .. N + 1 : m.cells[i].key = f.cells[i - 1].key
        /\ \A i, j \in 1 .. N + 1 : m.cells[i].key = m.cells[j].key => i = j
    BY DEF Gained, KeysDiffer
  <1> HIDE DEF N
  <1>3. ASSUME NEW i \in 1 .. N
        PROVE  at(i) \in 1 .. N + 1 /\ at(i) # J /\ m.cells[at(i)].key = f.cells[i].key
    <2>1. CASE i < J
      <3>1. i \in 1 .. J - 1 /\ i \in 1 .. N + 1 /\ i # J
        BY <1>1, <2>1
      <3> QED
        BY <1>2, <2>1, <3>1
    <2>2. CASE ~(i < J)
      <3>1. i + 1 \in J + 1 .. N + 1 /\ i + 1 \in 1 .. N + 1 /\ i + 1 # J
            /\ (i + 1) - 1 = i
        BY <1>1, <2>2
      <3>2. m.cells[i + 1].key = f.cells[i].key
        BY <1>2, <3>1
      <3> QED
        BY <2>2, <3>1, <3>2
    <2> QED
      BY <2>1, <2>2
  <1>4. \A i, j \in 1 .. N : at(i) = at(j) => i = j
    BY <1>1
  <1> HIDE DEF at
  <1>5. ASSUME NEW i \in 1 .. N, NEW j \in 1 .. N, f.cells[i].key = f.cells[j].key
        PROVE  i = j
    <2>1. m.cells[at(i)].key = m.cells[at(j)].key
      BY <1>3, <1>5
    <2>2. at(i) = at(j)
      BY <1>2, <1>3, <2>1
    <2> QED
      BY <1>4, <2>2
  <1>6. ASSUME NEW i \in 1 .. N, f.cells[i].key = k PROVE FALSE
    <2>1. J \in 1 .. N + 1
      BY DEF N
    <2> QED
      BY <1>2, <1>3, <1>6, <2>1
  <1> QED
    BY <1>5, <1>6 DEF KeysDiffer, N

\* Where a key belongs once the child it belonged to is split.
LEMMA GainedLeads ==
  ASSUME NEW f \in PageType, NEW m \in PageType, NEW J \in 1 .. Len(f.cells) + 1,
         NEW k, NEW a, NEW b, Gained(f, m, J, k, a, b), NEW x, InRange(f, J, x),
         NEW p, ~m.leaf, NEW r,
         \/ p = a /\ ~Before(k, x)
         \/ p = b /\ ~Before(x, k)
  PROVE  Leads(m, r, p, x)
  <1> DEFINE N == Len(f.cells)
  <1>1. N \in Nat
    BY PageFields
  <1>2. /\ Len(m.cells) = N + 1
        /\ \A i \in 1 .. J - 1 : m.cells[i].key = f.cells[i].key
        /\ m.cells[J].key = k
        /\ \A i \in J + 1 .. N + 1 : m.cells[i].key = f.cells[i - 1].key
        /\ slot(m, J) = a /\ slot(m, J + 1) = b
    BY DEF Gained
  <1>3. J \in Slots(m) /\ J + 1 \in Slots(m)
    BY <1>1, <1>2 DEF Slots
  <1>4. J # 1 => m.cells[J - 1].key = f.cells[J - 1].key
    <2>1. J # 1 => J - 1 \in 1 .. J - 1
      BY <1>1
    <2> QED
      BY <1>2, <2>1
  <1>5. J <= N => m.cells[J + 1].key = f.cells[J].key
    <2>1. J <= N => J + 1 \in J + 1 .. N + 1 /\ (J + 1) - 1 = J
      BY <1>1
    <2> QED
      BY <1>2, <2>1
  <1>6. /\ J # 1 => ~Before(x, f.cells[J - 1].key)
        /\ J <= N => ~Before(f.cells[J].key, x)
    BY DEF InRange
  <1>7. CASE p = a /\ ~Before(k, x)
    <2>1. InRange(m, J, x)
      BY <1>2, <1>4, <1>6, <1>7 DEF InRange
    <2> QED
      BY <1>2, <1>3, <1>7, <2>1 DEF Leads
  <1>8. CASE p = b /\ ~Before(x, k)
    <2>1. (J + 1) - 1 = J /\ (J + 1 <= N + 1 => J <= N)
      BY <1>1
    <2>2. InRange(m, J + 1, x)
      BY <1>2, <1>5, <1>6, <1>8, <2>1 DEF InRange
    <2> QED
      BY <1>2, <1>3, <1>8, <2>2 DEF Leads
  <1> QED
    BY <1>7, <1>8

\* The height of a tree that is small after a write.
LEMMA WriteHeight ==
  ASSUME TypeInv, NEW h, Shape(h), RootInv, pc = "write",
         ~nodes[breadcrumbs[bc_idx].node].leaf,
         NEW ms, ms \in Seq(PageType), Len(ms) = Len(nodes),
         \A p \in 1 .. Len(nodes) : PageOk(ms[p], h[p], h, LeafKeys(nodes)),
         ~ms[root].leaf => ms[root].rightmost # NULL /\ ms[ms[root].rightmost].leaf
  PROVE  h[root] = 1
  <1> DEFINE e == h[root]
             r == ms[root].rightmost
             d == h[r]
  <1>1. /\ root \in 1 .. Len(nodes) /\ e \in Nat /\ DOMAIN h = 1 .. Len(nodes)
    BY RootFacts
  <1>2. e # 0
    BY WriteAtRoot
  <1>3. PageOk(ms[root], e, h, LeafKeys(nodes))
    BY <1>1
  <1>4. ~ms[root].leaf
    BY <1>2, <1>3 DEF PageOk
  <1>5. ms[r].leaf /\ r # NULL
    BY <1>4
  <1>6. r \in 1 .. Len(nodes) /\ e = d + 1
    BY <1>1, <1>3, <1>4, <1>5 DEF PageOk, Below
  <1>7. d = 0
    BY <1>5, <1>6 DEF PageOk
  <1> HIDE DEF e, d
  <1>8. e = 1
    BY <1>6, <1>7
  <1> QED
    BY <1>8 DEF e

\* The root takes the separator of a leaf's halves.
LEMMA LeafLinked ==
  ASSUME TypeInv, NEW h, Shape(h), SoundInv, pc = "write",
         ~nodes[breadcrumbs[bc_idx].node].leaf, bc_idx = 1, h[root] = 1,
         ~breadcrumbs[1].is_full, breadcrumbs[1].node = root,
         breadcrumbs[1].f_node = root, Len(breadcrumbs) = 2,
         NEW ms \in Seq(PageType), Len(ms) = Len(nodes),
         \A p \in 1 .. Len(nodes) : p # root => ms[p] = nodes[p],
         NEW at, Placed(nodes[root].cells, partition_key(breadcrumbs[2]), at),
         at.idx + 1 \in Slots(nodes[root]), ms[root] \in PageType, ~ms[root].leaf,
         Gained(nodes[root], ms[root], at.idx + 1, partition_key(breadcrumbs[2]),
                breadcrumbs[2].node, breadcrumbs[2].new_node),
         KeysDiffer(ms[root].cells)
  PROVE  /\ SoundTree(SplitOf(ms, breadcrumbs[2]), root, count)
         /\ Leads(ms[root], root, leaf_node, key)
  <1> DEFINE bc == breadcrumbs[2]
             a == bc.node
             b == bc.new_node
             P == bc.partition_idx
             k == partition_key(bc)
             f == nodes[root]
             m == ms[root]
             J == at.idx + 1
             N == Len(nodes)
  <1>1. 1 + 1 = 2
    OBVIOUS
  <1>2. /\ bc.is_full /\ bc \in CrumbType /\ Marked(nodes, h, bc)
        /\ a \in 1 .. N /\ a \in Nat /\ b \in Nat /\ k \in Key
    BY <1>1, WriteBelow
  <1>3. /\ nodes \in Seq(PageType) /\ PagesOk(nodes, h) /\ DOMAIN h = 1 .. N /\ N \in Nat
        /\ root \in 1 .. N /\ f \in PageType /\ ~f.leaf /\ f.rightmost \in 1 .. N
        /\ \A p \in 1 .. N : nodes[p].leaf <=> h[p] = 0
    BY RootFacts DEF SoundInv
  <1>4. /\ b \in 1 .. N /\ b # a /\ nodes[b].cells = << >> /\ h[b] = h[a]
        /\ P \in 0 .. Len(nodes[a].cells) - 1 /\ PageOk(nodes[a], h[a], h, LeafKeys(nodes))
    BY <1>2, <1>3, CrumbPages
  <1>5. h[a] = 0 /\ nodes[a].leaf /\ nodes[b].leaf /\ a # root /\ b # root
    BY <1>2, <1>3, <1>4, MarkFacts
  <1>6. J \in 1 .. Len(f.cells) + 1 /\ Len(f.cells) \in Nat
    BY <1>3, PageFields DEF Slots
  <1> HIDE DEF J
  <1>7. /\ KeysDiffer(f.cells)
        /\ \A i \in 1 .. Len(f.cells) : f.cells[i].key # k
    <2> HIDE DEF k, a, b, f, m
    <2> QED
      BY <1>3, <1>6, GainedDiffer DEF J, k, a, b, f, m
  <1>8. ~at.found
    BY <1>7 DEF Placed
  <1>9. Small(nodes, root)
    <2> DEFINE r == f.rightmost
               d == h[r]
    <2>1. d \in Nat /\ 1 = d + 1
      BY RootFacts, <1>3 DEF SoundInv
    <2>2. d = 0
      <3> HIDE DEF d
      <3> QED
        BY <2>1
    <2> QED
      BY <1>3, <1>7, <2>2 DEF Small
  <1>10. TwoOk(nodes, f, count) /\ LinkOk
    <2>1. SearchOk
      BY <1>9 DEF SoundInv, SearchInv
    <2>2. linking /\ ~writing
      BY DEF linking, writing
    <2> QED
      BY <1>3, <2>1, <2>2 DEF SearchOk, SoundTree, Written
  <1>11. leaf_crumb = bc
    BY DEF leaf_crumb
  <1>12. PICK j \in Slots(f) : slot(f, j) = a /\ InRange(f, j, key)
    BY <1>3, <1>10, <1>11 DEF LinkOk, Leads
  <1>13. k = nodes[a].cells[P + 1].key
    BY DEF partition_key, cell_at
  <1>14. j = J
    <2>1. P + 1 \in 1 .. Len(nodes[a].cells)
      BY <1>4, SMTT(30)
    <2>2. InRange(f, j, k)
      <3>1. SlotsRanged(nodes, f)
        BY <1>10 DEF TwoOk
      <3>2. \A i \in 1 .. Len(nodes[slot(f, j)].cells) :
              InRange(f, j, nodes[slot(f, j)].cells[i].key)
        <4> HIDE DEF f
        <4> QED
          BY <1>12, <3>1, Zenon DEF SlotsRanged
      <3>3. slot(f, j) = a
        BY <1>12
      <3> HIDE DEF f, a, k
      <3> QED
        BY <1>13, <2>1, <3>2, <3>3, Zenon DEF a
    <2> HIDE DEF k, f
    <2>3. Placed(f.cells, k, at)
      BY DEF k, f
    <2>4. j = at.idx + 1
      BY <1>2, <1>3, <1>8, <1>12, <2>2, <2>3, NewPlace
    <2> QED
      BY <2>4 DEF J
  <1>15. TwoOk(ms, f, count)
    <2>1. ASSUME NEW p \in 1 .. N, nodes[p].leaf \/ ms[p].leaf
          PROVE  ms[p] = nodes[p]
      BY <1>3, <2>1
    <2>2. Len(ms) >= Len(nodes) /\ \A p \in N + 1 .. Len(ms) : ms[p].cells = << >>
      BY <1>3
    <2> HIDE DEF f
    <2> QED
      BY <1>3, <1>10, <2>1, <2>2, LeavesOnly
  <1> DEFINE ss == SplitOf(ms, bc)
  <1>16. /\ ms[a] = nodes[a] /\ ms[b] = nodes[b]
         /\ a \in 1 .. Len(ms) /\ b \in 1 .. Len(ms)
    BY <1>2, <1>4, <1>5
  <1>17. ss \in Seq(PageType) /\ Halves(ms, ss, a, b, P)
    BY <1>4, <1>5, <1>16, HalvesOf
  <1> HIDE DEF ss
  <1>18. ss[root] = m
    BY <1>3, <1>5, <1>17 DEF Halves
  <1>19. TwoOk(ss, m, count)
    <2>1. /\ count \in Nat /\ J \in Slots(f) /\ slot(f, J) = a /\ ms[b].cells = << >>
          /\ P \in 0 .. Len(ms[a].cells) - 1 /\ Ordered(ms[a].cells)
          /\ k = ms[a].cells[P + 1].key /\ m \in PageType
      BY <1>4, <1>12, <1>13, <1>14, <1>16 DEF TypeInv, PageOk
    <2>2. \A i \in Slots(f) : slot(f, i) # b
      BY <1>3, <1>10, <1>11 DEF LinkOk
    <2>3. Gained(f, m, J, ms[a].cells[P + 1].key, a, b)
      BY <2>1 DEF J
    <2> HIDE DEF f, m, a, b, P, k
    <2> QED
      BY <1>3, <1>15, <1>16, <1>17, <2>1, <2>2, <2>3, SplitLinked
  <1>20. SoundTree(ss, root, count)
    BY <1>18, <1>19 DEF SoundTree
  <1>21. Leads(m, root, leaf_node, key)
    <2>1. key \in Key
      BY ArgsType
    <2>2. leaf_node = HalfFor(k, key, a, b)
      BY <1>10, <1>11 DEF LinkOk, HalfFor
    <2>3. InRange(f, J, key) /\ Gained(f, m, J, k, a, b) /\ ~m.leaf /\ m \in PageType
      BY <1>12, <1>14 DEF J
    <2> HIDE DEF f, m, a, b, k
    <2>4. \/ leaf_node = a /\ ~Before(k, key)
          \/ leaf_node = b /\ ~Before(key, k)
      BY <1>2, <2>1, <2>2, SideOf
    <2> QED
      BY <1>3, <1>6, <2>3, <2>4, GainedLeads
  <1> QED
    BY <1>20, <1>21 DEF ss

\* An internal node takes the separator.
LEMMA SoundWrite ==
  ASSUME IndInv, SoundInv, write_internal
  PROVE  SoundInv'
  <1>1. PICK h : Shape(h)
    BY DEF IndInv
  <1> DEFINE L == Len(breadcrumbs)
             i == bc_idx
             bc == breadcrumbs[i]
             below == breadcrumbs[i + 1]
             ckey == partition_key(below)
             split == split_nodes(bc)
             f == split[bc.f_node]
             at == node_bin_search(f, ckey)
             m == linked(f, at.idx, ckey, below.node, below.new_node)
             ms == [split EXCEPT ![bc.f_node] = m]
  <1>2. TypeInv /\ pc = "write" /\ ~nodes[bc.node].leaf /\ RootInv
    BY DEF IndInv, write_internal, SoundInv
  <1>3. /\ root' = root /\ count' = count
        /\ IF node_get_free_offset(f, Len(ckey), 0) = 0
           THEN stop("abort") /\ UNCHANGED nodes
           ELSE /\ nodes' = ms
                /\ bc_idx' = i + 1
                /\ UNCHANGED <<pc, breadcrumbs, leaf_node, args>>
    BY Zenon DEF write_internal
  <1>4. CASE node_get_free_offset(f, Len(ckey), 0) = 0
    BY <1>3, <1>4, SoundStop DEF stop
  <1>5. CASE node_get_free_offset(f, Len(ckey), 0) # 0
    <2>1. /\ nodes' = ms /\ bc_idx' = i + 1 /\ pc' = "write" /\ breadcrumbs' = breadcrumbs
          /\ leaf_node' = leaf_node /\ key' = key
      BY <1>2, <1>3, <1>5 DEF args
    <2>2. RootInv'
      BY <1>2, <2>1, RootAfterWrite
    <2>3. ASSUME Small(nodes', root')
          PROVE  /\ writing' /\ ~linking'
                 /\ SoundTree(Written, root, count)'
                 /\ Leads(nodes'[root'], root', leaf_node', key')
      <3>1. /\ ms \in Seq(PageType) /\ Len(ms) = Len(nodes)
            /\ \A p \in 1 .. Len(nodes) : PageOk(ms[p], h[p], h, LeafKeys(nodes))
        BY <1>1, <1>2, InternalWritten
      <3>2. /\ ~ms[root].leaf => ms[root].rightmost # NULL /\ ms[ms[root].rightmost].leaf
            /\ Small(ms, root)
        BY <1>3, <2>1, <2>2, <2>3 DEF RootInv, Small
      <3>3. h[root] = 1
        <4> HIDE DEF ms
        <4> QED
          BY <1>1, <1>2, <3>1, <3>2, WriteHeight
      <3>4. i = 1 /\ ~bc.is_full /\ bc.node = root /\ bc.f_node = root /\ L = 2
        BY <1>1, <1>2, <3>3, WriteAtRoot
      <3>5. i + 1 = 2
        BY <3>4
      <3>6. /\ f = nodes[root] /\ ckey \in Key
            /\ ms[root] = m
            /\ \A p \in 1 .. Len(nodes) : p # root => ms[p] = nodes[p]
            /\ m \in PageType /\ ~m.leaf
            /\ at.idx + 1 \in Slots(f)
            /\ Gained(f, m, at.idx + 1, ckey, below.node, below.new_node)
            /\ Placed(f.cells, ckey, at)
        BY <1>1, <1>2, <3>4, <3>5, RootGains
      <3>7. KeysDiffer(ms[root].cells)
        BY <3>2, <3>6 DEF Small
      <3>8. below = breadcrumbs[2] /\ ckey = partition_key(breadcrumbs[2])
        BY <3>5
      <3> HIDE DEF ms, m, f, at
      <3>9. /\ SoundTree(SplitOf(ms, breadcrumbs[2]), root, count)
            /\ Leads(ms[root], root, leaf_node, key)
        BY <1>1, <1>2, <3>1, <3>3, <3>4, <3>6, <3>7, <3>8, LeafLinked
      <3>10. writing' /\ ~linking' /\ leaf_crumb' = breadcrumbs[2]
        BY <2>1, <3>4, <3>5, <1>2 DEF writing, linking, leaf_crumb
      <3>11. Written' = SplitOf(ms, breadcrumbs[2])
        BY <2>1, <3>10, Primes DEF Written
      <3> QED
        BY <1>3, <2>1, <3>9, <3>10, <3>11, Primes
    <2>4. SearchInv'
      BY <2>1, <2>3, Primes DEF SearchInv, SearchOk
    <2> QED
      BY <2>2, <2>4 DEF SoundInv
  <1> QED
    BY <1>4, <1>5

\* A root is no leaf when a leaf is split.
LEMMA RootSplits ==
  ASSUME TypeInv, NEW h, Shape(h), RootInv, pc = "write"
  PROVE  ~nodes[root].leaf
  <1> SUFFICES ASSUME nodes[root].leaf PROVE FALSE
    OBVIOUS
  <1> DEFINE L == Len(breadcrumbs)
             d == h[breadcrumbs[L].node]
  <1>1. breadcrumbs[1].node = root /\ ~breadcrumbs[1].is_full
    BY DEF RootInv
  <1>2. h[root] = 0
    BY RootFacts
  <1>3. d \in Nat /\ d + L = 1 /\ L \in Nat /\ L >= 1
    BY <1>1, <1>2, PathFacts
  <1>4. L = 1
    <2> HIDE DEF d, L
    <2> QED
      BY <1>3
  <1> QED
    BY <1>1, <1>4, MarkFacts

\* The leaf is split.
LEMMA SoundWriteLeaf ==
  ASSUME IndInv, SoundInv, write_leaf
  PROVE  SoundInv'
  <1>1. PICK h : Shape(h)
    BY DEF IndInv
  <1> DEFINE bc == breadcrumbs[bc_idx]
             ms == split_nodes(bc)
  <1>2. TypeInv /\ pc = "write" /\ nodes[bc.node].leaf /\ RootInv /\ SearchInv
    BY DEF IndInv, write_leaf, SoundInv
  <1>3. /\ root' = root /\ count' = count /\ nodes' = ms /\ pc' = "insert"
        /\ leaf_node' = leaf_node /\ key' = key
    BY DEF write_leaf, args
  <1>4. /\ nodes \in Seq(PageType) /\ PagesOk(nodes, h) /\ bc \in CrumbType
        /\ bc.node \in 1 .. Len(nodes) /\ Marked(nodes, h, bc)
        /\ bc_idx = Len(breadcrumbs)
    BY <1>1, <1>2, WriteFacts
  <1>5. bc.is_full /\ h[bc.node] = 0
    BY <1>1, <1>2, <1>4, MarkFacts
  <1>6. bc.new_node \in 1 .. Len(nodes) /\ (nodes[bc.new_node].leaf <=> nodes[bc.node].leaf)
    BY <1>2, <1>4, <1>5, CrumbPages
  <1>7. /\ Len(ms) = Len(nodes)
        /\ \A p \in 1 .. Len(nodes) : p # bc.node /\ p # bc.new_node => ms[p] = nodes[p]
    BY <1>2, <1>4, <1>5, LeafHalves
  <1>8. writing /\ leaf_crumb = bc
    BY <1>2, <1>4 DEF writing, leaf_crumb
  <1>9. ms = SplitOf(nodes, leaf_crumb)
    BY <1>2, <1>5, <1>8 DEF split_nodes, SplitOf, leaf_node_split
  <1>10. ~nodes[root].leaf
    BY <1>1, <1>2, RootSplits
  <1>11. /\ root \in 1 .. Len(nodes) /\ nodes[root].rightmost \in 1 .. Len(nodes)
    BY <1>1, <1>2, <1>10, RootFacts
  <1> HIDE DEF ms
  <1>12. nodes'[root] = nodes[root]
    BY <1>2, <1>3, <1>6, <1>7, <1>10, <1>11
  <1>13. RootInv'
    BY <1>2, <1>3, <1>12 DEF RootInv
  <1>14. ASSUME Small(nodes', root') PROVE SearchOk
    <2>1. nodes[nodes[root].rightmost].leaf /\ KeysDiffer(nodes[root].cells)
      BY <1>2, <1>3, <1>6, <1>7, <1>10, <1>11, <1>12, <1>14 DEF Small
    <2>2. Small(nodes, root)
      BY <2>1 DEF Small
    <2> QED
      BY <1>2, <2>2 DEF SearchInv
  <1>15. ~writing' /\ ~linking' /\ Written' = nodes'
    BY <1>3 DEF writing, linking, Written
  <1>16. ASSUME Small(nodes', root')
         PROVE  /\ SoundTree(Written, root, count)'
                /\ Leads(nodes'[root'], root', leaf_node', key')
    <2>1. SoundTree(nodes', root, count) /\ Leads(nodes[root], root, leaf_node, key)
      BY <1>3, <1>8, <1>9, <1>14, <1>16 DEF SearchOk, Written
    <2> QED
      BY <1>3, <1>12, <1>15, <2>1, Primes
  <1>17. SearchInv'
    BY <1>3, <1>15, <1>16, Primes DEF SearchInv, SearchOk
  <1> QED
    BY <1>13, <1>17 DEF SoundInv

\* The tuple goes into the leaf.
LEMMA SoundInsert ==
  ASSUME IndInv, SoundInv, insert_tuple
  PROVE  SoundInv'
  <1>1. PICK h : Shape(h)
    BY DEF IndInv
  <1> DEFINE n == nodes[leaf_node]
             idx == node_bin_search(n, key).idx
             m == node_insert_leaf_cell(n, idx, key, value_size)
             ms == [nodes EXCEPT ![leaf_node] = m]
             N == Len(nodes)
  <1>2. TypeInv /\ pc = "insert" /\ nodes \in Seq(PageType) /\ RootInv /\ SearchInv
    BY DEF IndInv, insert_tuple, TypeInv, SoundInv
  <1>3. /\ root' = root
        /\ IF node_get_free_offset(n, Len(key), value_size) = 0
           THEN stop("abort") /\ UNCHANGED <<nodes, count>>
           ELSE nodes' = ms /\ count' = count + 1 /\ return
    BY Zenon DEF insert_tuple
  <1>4. CASE node_get_free_offset(n, Len(key), value_size) = 0
    BY <1>3, <1>4, SoundStop DEF stop
  <1>5. CASE node_get_free_offset(n, Len(key), value_size) # 0
    <2>1. nodes' = ms /\ count' = count + 1 /\ pc' = "idle"
      BY <1>3, <1>5 DEF return
    <2>2. /\ leaf_node \in 1 .. N /\ n.leaf /\ m.leaf
          /\ ms \in Seq(PageType) /\ Len(ms) = N
          /\ ms[leaf_node] = m
          /\ \A p \in 1 .. N : p # leaf_node => ms[p] = nodes[p]
          /\ idx \in 0 .. Len(n.cells) /\ Len(n.cells) \in Nat
          /\ Len(m.cells) = Len(n.cells) + 1 /\ m.cells[idx + 1].key = key
          /\ \A i \in 1 .. idx : m.cells[i] = n.cells[i]
          /\ \A i \in idx + 2 .. Len(n.cells) + 1 : m.cells[i] = n.cells[i - 1]
      BY <1>1, <1>2, TupleIn
    <2> HIDE DEF ms, m, idx
    <2>3. ASSUME NEW i \in 1 .. Len(m.cells)
          PROVE  \/ m.cells[i].key = key
                 \/ \E l \in 1 .. Len(n.cells) : m.cells[i].key = n.cells[l].key
      <3>1. CASE i \in 1 .. idx
        <4>1. i \in 1 .. Len(n.cells) /\ m.cells[i] = n.cells[i]
          BY <2>2, <3>1
        <4> QED
          BY <4>1
      <3>2. CASE i \in idx + 2 .. Len(n.cells) + 1
        <4>1. i - 1 \in 1 .. Len(n.cells) /\ m.cells[i] = n.cells[i - 1]
          BY <2>2, <3>2
        <4> QED
          BY <4>1
      <3>3. i \in 1 .. idx \/ i = idx + 1 \/ i \in idx + 2 .. Len(n.cells) + 1
        BY <2>2
      <3> QED
        BY <2>2, <3>1, <3>2, <3>3
    <2>4. /\ root \in 1 .. N /\ nodes[root] \in PageType
          /\ ~nodes[root].leaf => nodes[root].rightmost \in 1 .. N
      BY <1>1, <1>2, RootFacts
    <2>5. /\ ms[root].leaf <=> nodes[root].leaf
          /\ ~nodes[root].leaf => ms[root] = nodes[root]
          /\ \A p \in 1 .. N : ms[p].leaf => nodes[p].leaf
      BY <2>2, <2>4
    <2>6. RootInv'
      BY <1>2, <1>3, <2>1, <2>5 DEF RootInv
    <2>7. ~writing /\ ~writing' /\ ~linking' /\ Written' = ms /\ Written = nodes
      BY <1>2, <2>1 DEF writing, linking, Written
    <2>8. ASSUME Small(ms, root) PROVE SoundTree(ms, root, count + 1)
      <3>1. Small(nodes, root)
        BY <2>4, <2>5, <2>8 DEF Small
      <3>2. SoundTree(nodes, root, count) /\ Leads(nodes[root], root, leaf_node, key)
            /\ count \in Nat
        BY <1>2, <2>7, <3>1 DEF SearchInv, SearchOk, TypeInv
      <3>3. CASE nodes[root].leaf
        <4>1. leaf_node = root /\ OneOk(nodes, root, count)
          BY <3>2, <3>3 DEF Leads, SoundTree
        <4>2. OneOk(ms, root, count + 1)
          BY <2>2, <3>2, <4>1 DEF OneOk
        <4> QED
          BY <2>5, <3>3, <4>2 DEF SoundTree
      <3>4. CASE ~nodes[root].leaf
        <4> DEFINE r == nodes[root]
        <4>1. TwoOk(nodes, r, count)
          BY <3>2, <3>4 DEF SoundTree
        <4>2. PICK j \in Slots(r) : slot(r, j) = leaf_node /\ InRange(r, j, key)
          BY <3>2, <3>4 DEF Leads
        <4>3. r \in PageType /\ ms[root] = r /\ ~ms[root].leaf
          BY <2>4, <2>5, <3>4
        <4> HIDE DEF r
        <4>4. TupleMore(nodes, ms, leaf_node, key)
          BY <2>2, <2>3 DEF TupleMore
        <4>5. TwoOk(ms, r, count + 1)
          BY <1>2, <2>2, <3>2, <4>1, <4>2, <4>3, <4>4, TupleAdded
        <4> QED
          BY <4>3, <4>5 DEF SoundTree
      <3> QED
        BY <3>3, <3>4
    <2>9. ASSUME Small(nodes', root') PROVE SoundTree(Written, root, count)'
      <3>1. SoundTree(Written', root', count')
        BY <1>3, <2>1, <2>7, <2>8, <2>9
      <3> QED
        BY <3>1, Primes
    <2>10. SearchInv'
      BY <2>1, <2>7, <2>9, Primes DEF SearchInv, SearchOk
    <2> QED
      BY <2>6, <2>10 DEF SoundInv
  <1> QED
    BY <1>4, <1>5

\* Nothing happens.
LEMMA SoundStutter ==
  ASSUME SoundInv, UNCHANGED vars
  PROVE  SoundInv'
  <1>1. /\ root' = root /\ count' = count /\ nodes' = nodes /\ pc' = pc /\ key' = key
        /\ breadcrumbs' = breadcrumbs /\ bc_idx' = bc_idx /\ leaf_node' = leaf_node
    BY DEF vars
  <1>2. RootInv'
    BY <1>1 DEF SoundInv, RootInv, low
  <1>3. /\ writing' <=> writing
        /\ linking' <=> linking
        /\ leaf_crumb' = leaf_crumb /\ here' = here
        /\ partition_key(leaf_crumb)' = partition_key(leaf_crumb)
    BY <1>1 DEF writing, linking, leaf_crumb, here, partition_key
  <1>4. LinkOk' <=> LinkOk
    BY <1>1, <1>3, LinkPrimed DEF LinkOk
  <1>5. Written' = Written
    BY <1>1, <1>3, Primes DEF Written
  <1>6. SearchInv'
    BY <1>1, <1>3, <1>4, <1>5, Primes DEF SoundInv, SearchInv, SearchOk
  <1> QED
    BY <1>2, <1>6 DEF SoundInv

-----------------------------------------------------------------------------
(* Trees of two levels have one internal node *)

\* The root has leaves as children, or is one.
RootLow == ~nodes[root].leaf => nodes[nodes[root].rightmost].leaf

\* The root is to be split, and its sibling is there, or the call has failed.
Doubled ==
  \/ pc \in {"abort", "wild"}
  \/ pc = "propagate" /\ bc_idx = 0 /\ breadcrumbs[1].is_full /\ ~nodes[root].leaf

OnlyRoot == \A p \in 1 .. Len(nodes) : ~nodes[p].leaf => p = root

OnlyInv == RootLow /\ ~Doubled => OnlyRoot

\* A step that makes no leaf an internal node and leaves the height.
LEMMA OnlyKept ==
  ASSUME OnlyInv, root' = root, Len(nodes') = Len(nodes),
         \A p \in 1 .. Len(nodes) : nodes'[p].leaf <=> nodes[p].leaf,
         RootLow' => RootLow, ~Doubled' => ~Doubled
  PROVE  OnlyInv'
  BY DEF OnlyInv, OnlyRoot

\* A step that leaves the pages.
LEMMA OnlyUnchanged ==
  ASSUME OnlyInv, root' = root, nodes' = nodes, ~Doubled' => ~Doubled
  PROVE  OnlyInv'
  <1>1. RootLow' => RootLow
    BY DEF RootLow
  <1> QED
    BY <1>1, OnlyKept

\* The steps down to the leaf, and a call that has begun or ends.
LEMMA OnlyDown ==
  ASSUME OnlyInv,
         \/ \E t \in Tuples : btree_insert(t[1], t[2])
         \/ refuse \/ follow \/ leaf_has_room
  PROVE  OnlyInv'
  <1>1. root' = root /\ nodes' = nodes /\ pc \in {"idle", "descend"}
    BY DEF btree_insert, refuse, follow, leaf_has_room
  <1>2. ~Doubled
    BY <1>1 DEF Doubled
  <1> QED
    BY <1>1, <1>2, OnlyUnchanged

\* A page is added below the root, a leaf.
LEMMA OnlyGrown ==
  ASSUME TypeInv, NEW h, Shape(h), RootInv, OnlyInv, root' = root,
         nodes' = Append(nodes, node_init(TRUE)), ~Doubled
  PROVE  OnlyInv'
  <1> DEFINE N == Len(nodes)
             n == node_init(TRUE)
  <1>1. /\ nodes \in Seq(PageType) /\ N \in Nat /\ root \in 1 .. N
        /\ ~nodes[root].leaf => nodes[root].rightmost \in 1 .. N
    BY RootFacts
  <1>2. n.leaf /\ n \in PageType /\ nodes' = Append(nodes, n)
    BY EmptyPage
  <1> HIDE DEF n
  <1>3. /\ Len(nodes') = N + 1 /\ nodes'[N + 1] = n
        /\ \A p \in 1 .. N : nodes'[p] = nodes[p]
    BY ONLY <1>1, <1>2
  <1>4. RootLow' => RootLow
    BY <1>1, <1>3 DEF RootLow
  <1>5. ASSUME RootLow' PROVE OnlyRoot'
    <2>1. SUFFICES ASSUME NEW p \in 1 .. Len(nodes'), ~nodes'[p].leaf PROVE p = root
      BY DEF OnlyRoot
    <2>2. p # N + 1
      BY <1>2, <1>3, <2>1
    <2>3. p \in 1 .. N
      BY <1>1, <1>3, <2>2
    <2> QED
      BY <1>3, <1>4, <1>5, <2>1, <2>3 DEF OnlyInv, OnlyRoot
  <1> QED
    BY <1>5 DEF OnlyInv

\* The leaf is full.
LEMMA OnlyFull ==
  ASSUME IndInv, RootInv, OnlyInv, leaf_is_full
  PROVE  OnlyInv'
  <1>1. PICK h : Shape(h)
    BY DEF IndInv
  <1>2. TypeInv /\ pc = "descend" /\ root' = root /\ ~Doubled
    BY DEF IndInv, leaf_is_full, Doubled
  <1>3. \/ pc' = "abort"
        \/ nodes' = Append(nodes, node_init(TRUE))
    BY Zenon DEF leaf_is_full, stop
  <1>4. CASE pc' = "abort"
    BY <1>4 DEF OnlyInv, Doubled
  <1>5. CASE nodes' = Append(nodes, node_init(TRUE))
    BY <1>1, <1>2, <1>5, OnlyGrown
  <1> QED
    BY <1>3, <1>4, <1>5

\* A node on the way up has room, or the topmost one has.
LEMMA OnlyUp ==
  ASSUME IndInv, OnlyInv, mark_room \/ top_has_room
  PROVE  OnlyInv'
  <1>1. PICK h : Shape(h)
    BY DEF IndInv
  <1>2. TypeInv /\ pc = "propagate" /\ root' = root /\ nodes' = nodes
    BY DEF IndInv, mark_room, top_has_room
  <1>3. ~Doubled
    <2>1. CASE mark_room
      <3>1. bc_idx \in 1 .. Len(breadcrumbs)
        BY <1>1, <1>2, <2>1, UpFacts DEF mark_room
      <3> QED
        BY <1>2, <3>1 DEF Doubled
    <2>2. CASE top_has_room
      <3>1. bc_idx = 0 => bc_idx + 1 = 1
        OBVIOUS
      <3> QED
        BY <1>2, <2>2, <3>1 DEF Doubled, top_has_room
    <2> QED
      BY <2>1, <2>2
  <1> QED
    BY <1>2, <1>3, OnlyUnchanged

\* The root is the only internal node, and to be split.
LEMMA OnlyDoubled ==
  ASSUME IndInv, RootInv, mark_full
  PROVE  OnlyInv'
  <1>1. PICK h : Shape(h)
    BY DEF IndInv
  <1> DEFINE L == Len(breadcrumbs)
             b == bc_idx
             pid == breadcrumbs[b].node
             n == nodes[pid]
             ckey == partition_key(breadcrumbs[b + 1])
             partition_idx == node_partition_idx(n)
             under == key_compare(cell_at(n, partition_idx).key, ckey) < 0
             bc == [node |-> pid, new_node |-> fresh,
                    f_node |-> IF under THEN fresh ELSE pid,
                    partition_idx |-> partition_idx, is_full |-> TRUE]
             N == Len(nodes)
  <1>2. TypeInv /\ pc = "propagate" /\ more_up
    BY DEF IndInv, mark_full
  <1>3. /\ root' = root
        /\ \/ pc' \in {"abort", "wild"}
           \/ /\ nodes' = Append(nodes, node_init(FALSE))
              /\ breadcrumbs' = [breadcrumbs EXCEPT ![b] = bc]
              /\ bc_idx' = b - 1 /\ pc' = pc
    <2>1. /\ root' = root
          /\ IF partition_idx + 1 >= Len(n.cells)
             THEN /\ stop(IF partition_idx = Len(n.cells) THEN "wild" ELSE "abort")
                  /\ UNCHANGED nodes
             ELSE /\ nodes' = Append(nodes, node_init(FALSE))
                  /\ breadcrumbs' = [breadcrumbs EXCEPT ![b] = bc]
                  /\ bc_idx' = b - 1
                  /\ UNCHANGED <<pc, leaf_node, args>>
      BY Zenon DEF mark_full
    <2> QED
      BY <2>1 DEF stop
  <1>4. CASE pc' \in {"abort", "wild"}
    BY <1>4 DEF OnlyInv, Doubled
  <1>5. CASE /\ nodes' = Append(nodes, node_init(FALSE))
             /\ breadcrumbs' = [breadcrumbs EXCEPT ![b] = bc]
             /\ bc_idx' = b - 1 /\ pc' = pc
    <2>1. /\ nodes \in Seq(PageType) /\ N \in Nat /\ root \in 1 .. N
          /\ h[root] \in Nat /\ (nodes[root].leaf <=> h[root] = 0)
          /\ \A p \in 1 .. N : nodes[p].leaf <=> h[p] = 0
          /\ ~nodes[root].leaf => /\ nodes[root].rightmost \in 1 .. N
                                  /\ h[nodes[root].rightmost] \in Nat
                                  /\ h[root] = h[nodes[root].rightmost] + 1
      BY <1>1, <1>2, RootFacts
    <2>2. \A p \in 1 .. N : nodes'[p] = nodes[p]
      BY <1>5, <2>1, EmptyPage
    <2> DEFINE d == h[breadcrumbs[L].node]
               e == h[root]
    <2>3. /\ b \in 1 .. L - 1 /\ L \in Nat /\ d + L = e + 1 /\ d = 0
          /\ breadcrumbs \in Seq(CrumbType)
      BY <1>1, <1>2, UpFacts, PathFacts, MarkFacts DEF RootInv, TypeInv
    <2>4. ASSUME RootLow' PROVE Doubled'
      <3> DEFINE r == h[nodes[root].rightmost]
      <3>1. e # 0
        <4> HIDE DEF d, e
        <4> QED
          BY <2>3
      <3>2. ~nodes[root].leaf
        BY <2>1, <3>1
      <3>3. nodes[nodes[root].rightmost].leaf
        BY <1>3, <2>1, <2>2, <2>4, <3>2 DEF RootLow
      <3>4. e = r + 1 /\ r = 0
        BY <2>1, <3>2, <3>3
      <3>5. b = 1 /\ 1 \in 1 .. L
        <4> HIDE DEF d, e, r, L
        <4>1. L \in Nat /\ L = 2 /\ b \in 1 .. L - 1
          BY <2>3, <3>4
        <4> QED
          BY ONLY <4>1
      <3>6. breadcrumbs'[1].is_full
        BY <1>5, <2>3, <3>5
      <3>7. bc_idx' = 0
        BY <1>5, <3>5
      <3> QED
        BY <1>2, <1>3, <1>5, <2>1, <2>2, <3>2, <3>6, <3>7 DEF Doubled
    <2> QED
      BY <2>4 DEF OnlyInv
  <1> QED
    BY <1>3, <1>4, <1>5

\* A new root has leaves below it only if the old one was a leaf.
LEMMA OnlyNew ==
  ASSUME IndInv, RootInv, OnlyInv, split_root
  PROVE  OnlyInv'
  <1>1. PICK h : Shape(h)
    BY DEF IndInv
  <1> DEFINE N == Len(nodes)
             bc == breadcrumbs[1]
             a == bc.node
             b == bc.new_node
             k == partition_key(bc)
             m == new_root(bc)
  <1>2. TypeInv /\ pc = "propagate" /\ bc_idx = 0 /\ bc.is_full
        /\ nodes \in Seq(PageType) /\ PagesOk(nodes, h) /\ a = root
    BY <1>1 DEF IndInv, split_root, TypeInv, Shape, RootInv
  <1>3. nodes' = Append(nodes, m) /\ root' = N + 1
    BY DEF split_root, fresh
  <1>4. N \in Nat /\ a \in 1 .. N /\ bc \in CrumbType
    BY <1>1, <1>2, PathFacts
  <1>5. Marked(nodes, h, bc)
    <2>1. low = 1
      BY <1>2 DEF low
    <2> QED
      BY <1>1, <1>2, <2>1, MarkFacts
  <1>6. b \in 1 .. N /\ b \in Nat /\ a \in Nat /\ (nodes[b].leaf <=> nodes[a].leaf)
    BY <1>2, <1>4, <1>5, CrumbPages, CrumbFields
  <1>7. k \in Key
    BY <1>2, <1>4, <1>5, PartitionKey
  <1>8. m \in PageType /\ ~m.leaf /\ m.rightmost = b
    <2>1. m = RootOf(k, a, b)
      BY DEF new_root, RootOf
    <2> HIDE DEF m, k, a, b
    <2> QED
      BY <1>6, <1>7, <2>1, RootPage
  <1> HIDE DEF m
  <1>9. /\ Len(nodes') = N + 1 /\ nodes'[N + 1] = m
        /\ \A q \in 1 .. N : nodes'[q] = nodes[q]
    BY <1>2, <1>3, <1>4, <1>8
  <1>10. ASSUME RootLow' PROVE OnlyRoot'
    <2>1. nodes'[b].leaf
      BY <1>3, <1>8, <1>9, <1>10 DEF RootLow
    <2>2. nodes[root].leaf
      BY <1>2, <1>6, <1>9, <2>1
    <2>3. OnlyRoot
      BY <1>2, <2>2 DEF OnlyInv, RootLow, Doubled
    <2>4. \A p \in 1 .. N : nodes'[p].leaf
      BY <1>9, <2>2, <2>3 DEF OnlyRoot
    <2>5. ASSUME NEW p \in 1 .. Len(nodes'), p # N + 1 PROVE p \in 1 .. N
      BY <1>4, <1>9, <2>5
    <2> QED
      BY <1>3, <2>4, <2>5 DEF OnlyRoot
  <1> QED
    BY <1>10 DEF OnlyInv

\* An internal node takes the separator: pages and heights stay.
LEMMA OnlyWrite ==
  ASSUME IndInv, RootInv, OnlyInv, write_internal, RootInv'
  PROVE  OnlyInv'
  <1>1. PICK h : Shape(h)
    BY DEF IndInv
  <1> DEFINE i == bc_idx
             bc == breadcrumbs[i]
             below == breadcrumbs[i + 1]
             ckey == partition_key(below)
             split == split_nodes(bc)
             f == split[bc.f_node]
             idx == node_bin_search(f, ckey).idx
             m == linked(f, idx, ckey, below.node, below.new_node)
             ms == [split EXCEPT ![bc.f_node] = m]
  <1>2. TypeInv /\ pc = "write" /\ ~nodes[bc.node].leaf /\ ~Doubled
    BY DEF IndInv, write_internal, Doubled
  <1>3. root' = root /\ (pc' = "abort" \/ nodes' = ms)
    BY Zenon DEF write_internal, stop
  <1>4. CASE pc' = "abort"
    BY <1>4 DEF OnlyInv, Doubled
  <1>5. CASE nodes' = ms
    <2>1. /\ ms \in Seq(PageType) /\ Len(ms) = Len(nodes)
          /\ \A p \in 1 .. Len(nodes) : PageOk(ms[p], h[p], h, LeafKeys(nodes))
      BY <1>1, <1>2, InternalWritten
    <2> HIDE DEF ms
    <2>2. /\ \A p \in 1 .. Len(nodes) : nodes[p].leaf <=> h[p] = 0
          /\ ~nodes[root].leaf => /\ nodes[root].rightmost \in 1 .. Len(nodes)
                                  /\ h[nodes[root].rightmost] \in Nat
                                  /\ h[root] = h[nodes[root].rightmost] + 1
      BY <1>1, <1>2, RootFacts
    <2>3. \A p \in 1 .. Len(nodes) : nodes'[p].leaf <=> nodes[p].leaf
      BY <1>5, <2>1, <2>2 DEF PageOk
    <2>4. ASSUME RootLow' PROVE RootLow
      <3> DEFINE d == h[nodes[root].rightmost]
                 e == h[root]
      <3>1. ~ms[root].leaf => ms[root].rightmost # NULL /\ ms[ms[root].rightmost].leaf
        BY <1>3, <1>5, <2>4 DEF RootLow, RootInv
      <3>2. e = 1
        BY <1>1, <1>2, <2>1, <3>1, WriteHeight
      <3>3. ASSUME ~nodes[root].leaf PROVE d = 0
        <4>1. d \in Nat /\ e = d + 1
          BY <2>2, <3>3
        <4> HIDE DEF d, e
        <4> QED
          BY <3>2, <4>1
      <3> QED
        BY <2>2, <3>3 DEF RootLow
    <2> QED
      BY <1>2, <1>3, <1>5, <2>1, <2>3, <2>4, OnlyKept
  <1> QED
    BY <1>3, <1>4, <1>5

\* Leaves are exchanged for leaves.
LEMMA OnlyLeaves ==
  ASSUME TypeInv, NEW h, Shape(h), RootInv, OnlyInv, root' = root, ~Doubled,
         Len(nodes') = Len(nodes),
         \A p \in 1 .. Len(nodes) :
           nodes'[p] = nodes[p] \/ (nodes'[p].leaf /\ nodes[p].leaf)
  PROVE  OnlyInv'
  <1>1. /\ root \in 1 .. Len(nodes)
        /\ ~nodes[root].leaf => nodes[root].rightmost \in 1 .. Len(nodes)
    BY RootFacts
  <1>2. RootLow' => RootLow
    BY <1>1 DEF RootLow
  <1> QED
    BY <1>2, OnlyKept

\* The leaf is split.
LEMMA OnlyWriteLeaf ==
  ASSUME IndInv, RootInv, OnlyInv, write_leaf
  PROVE  OnlyInv'
  <1>1. PICK h : Shape(h)
    BY DEF IndInv
  <1> DEFINE bc == breadcrumbs[bc_idx]
             ms == split_nodes(bc)
  <1>2. TypeInv /\ pc = "write" /\ nodes[bc.node].leaf /\ ~Doubled
        /\ root' = root /\ nodes' = ms
    BY DEF IndInv, write_leaf, Doubled
  <1>3. /\ nodes \in Seq(PageType) /\ PagesOk(nodes, h) /\ bc \in CrumbType
        /\ bc.node \in 1 .. Len(nodes) /\ Marked(nodes, h, bc)
        /\ bc_idx = Len(breadcrumbs)
    BY <1>1, <1>2, WriteFacts
  <1>4. bc.is_full /\ h[bc.node] = 0
    BY <1>1, <1>2, <1>3, MarkFacts
  <1>5. bc.new_node \in 1 .. Len(nodes) /\ (nodes[bc.new_node].leaf <=> nodes[bc.node].leaf)
    BY <1>2, <1>3, <1>4, CrumbPages
  <1>6. /\ Len(ms) = Len(nodes)
        /\ \A p \in 1 .. Len(nodes) : p # bc.node /\ p # bc.new_node => ms[p] = nodes[p]
        /\ PageOk(ms[bc.node], h[bc.node], h, LeafKeys(nodes))
        /\ PageOk(ms[bc.new_node], h[bc.node], h, LeafKeys(nodes))
    BY <1>2, <1>3, <1>4, LeafHalves
  <1>7. ms[bc.node].leaf /\ ms[bc.new_node].leaf
    BY <1>4, <1>6 DEF PageOk
  <1> HIDE DEF ms, bc
  <1> QED
    BY <1>1, <1>2, <1>5, <1>6, <1>7, OnlyLeaves

\* The tuple goes into the leaf.
LEMMA OnlyInsert ==
  ASSUME IndInv, RootInv, OnlyInv, insert_tuple
  PROVE  OnlyInv'
  <1>1. PICK h : Shape(h)
    BY DEF IndInv
  <1> DEFINE n == nodes[leaf_node]
             m == node_insert_leaf_cell(n, node_bin_search(n, key).idx, key, value_size)
             ms == [nodes EXCEPT ![leaf_node] = m]
  <1>2. TypeInv /\ pc = "insert" /\ root' = root /\ ~Doubled
    BY DEF IndInv, insert_tuple, Doubled
  <1>3. nodes' = nodes \/ nodes' = ms
    BY Zenon DEF insert_tuple
  <1>4. /\ n.leaf /\ m.leaf /\ Len(ms) = Len(nodes) /\ ms[leaf_node] = m
        /\ \A p \in 1 .. Len(nodes) : p # leaf_node => ms[p] = nodes[p]
    BY <1>1, <1>2, TupleIn
  <1> HIDE DEF ms, m
  <1>5. CASE nodes' = nodes
    BY <1>1, <1>2, <1>5, OnlyLeaves
  <1>6. CASE nodes' = ms
    BY <1>1, <1>2, <1>4, <1>6, OnlyLeaves
  <1> QED
    BY <1>3, <1>5, <1>6

\* The three invariants are kept by every step.
LEMMA SoundStep ==
  ASSUME IndInv, SoundInv, OnlyInv, [Next]_vars
  PROVE  SoundInv' /\ OnlyInv'
  <1>0. RootInv
    BY DEF SoundInv
  <1>1. CASE \E t \in Tuples : btree_insert(t[1], t[2])
    BY <1>1, SoundCall, OnlyDown
  <1>2. CASE refuse
    <2>1. SoundInv'
      BY <1>2, SoundStop DEF refuse, return
    <2> QED
      BY <1>2, <2>1, OnlyDown
  <1>3. CASE follow
    BY <1>3, SoundFollow, OnlyDown
  <1>4. CASE leaf_has_room
    BY <1>4, SoundRoom, OnlyDown
  <1>5. CASE leaf_is_full
    BY <1>0, <1>5, SoundFull, OnlyFull
  <1>6. CASE mark_room
    BY <1>6, SoundMarkRoom, OnlyUp
  <1>7. CASE mark_full
    BY <1>0, <1>7, SoundMarkFull, OnlyDoubled
  <1>8. CASE top_has_room
    BY <1>8, SoundTop, OnlyUp
  <1>9. CASE split_root
    BY <1>0, <1>9, SoundRoot, OnlyNew
  <1>10. CASE write_internal
    <2>1. SoundInv'
      BY <1>10, SoundWrite
    <2>2. RootInv'
      BY <2>1 DEF SoundInv
    <2> QED
      BY <1>0, <1>10, <2>1, <2>2, OnlyWrite
  <1>11. CASE write_leaf
    BY <1>0, <1>11, SoundWriteLeaf, OnlyWriteLeaf
  <1>12. CASE insert_tuple
    BY <1>0, <1>12, SoundInsert, OnlyInsert
  <1>13. CASE UNCHANGED vars
    <2>1. root' = root /\ nodes' = nodes /\ (Doubled' <=> Doubled)
      BY <1>13 DEF vars, Doubled
    <2> QED
      BY <1>13, <2>1, SoundStutter, OnlyUnchanged
  <1> QED
    BY <1>1, <1>2, <1>3, <1>4, <1>5, <1>6, <1>7, <1>8, <1>9, <1>10, <1>11, <1>12, <1>13
    DEF Next

\* A tree of at most two levels whose separators differ is a search tree throughout
\* every call of btree_insert, the halves of a leaf that is being split taken as
\* they will be, and its root is its only internal node.
THEOREM SmallTrees == Spec => [](SoundInv /\ OnlyInv)
  <1>1. Init => SoundInv /\ OnlyInv
    <2>1. Init => OnlyInv
      BY EmptyPage DEF Init, OnlyInv, OnlyRoot
    <2> QED
      BY <2>1, SoundInit
  <1>2. IndInv /\ SoundInv /\ OnlyInv /\ [Next]_vars => SoundInv' /\ OnlyInv'
    BY SoundStep
  <1> QED
    BY <1>1, <1>2, Inductive, PTL DEF Spec

-----------------------------------------------------------------------------
(* What is found in a small tree *)

\* The children of a node as a sequence.
Under(n) == Append([i \in DOMAIN n.cells |-> n.cells[i].child], n.rightmost)

\* The tuples below page p, if f has those below its children.
TuplesOf(f, p) ==
  IF nodes[p].leaf THEN Len(nodes[p].cells)
  ELSE Total([i \in DOMAIN Under(nodes[p]) |->
                IF Under(nodes[p])[i] = NULL THEN 0 ELSE f[Under(nodes[p])[i]]])

\* Whether a search for k that is at page p ends well, if f says it of its children.
EndsOf(f, p, k) ==
  LET at == node_bin_search(nodes[p], k)
  IN  IF at.found THEN TRUE
      ELSE IF nodes[p].leaf THEN FALSE
      ELSE f[child_at(nodes[p], at.idx)]

\* What tuple is, where its recursion has a solution.
LEMMA TupleIs ==
  ASSUME NEW s, s = [p \in DOMAIN nodes |-> TuplesOf(s, p)]
  PROVE  \E F : F = [p \in DOMAIN nodes |-> TuplesOf(F, p)] /\ tuple = F[root]
  <1> DEFINE P(f) == f = [pid \in DOMAIN nodes |->
               LET n == nodes[pid]
                   under == Append([i \in DOMAIN n.cells |-> n.cells[i].child],
                                   n.rightmost)
               IN  IF n.leaf THEN Len(n.cells)
                   ELSE Total([i \in DOMAIN under |->
                                 IF under[i] = NULL THEN 0 ELSE f[under[i]]])]
             F == CHOOSE f : P(f)
  <1>1. \A f : P(f) <=> f = [p \in DOMAIN nodes |-> TuplesOf(f, p)]
    BY DEF TuplesOf, Under
  <1>2. tuple = F[root]
    BY DEF tuple
  <1> HIDE DEF P
  <1>3. P(F)
    BY <1>1
  <1>4. F = [p \in DOMAIN nodes |-> TuplesOf(F, p)]
    BY <1>1, <1>3
  <1> QED
    BY <1>2, <1>4

\* The same of Descent.
LEMMA DescentIs ==
  ASSUME NEW k, NEW s, s = [p \in DOMAIN nodes |-> EndsOf(s, p, k)]
  PROVE  \E F : F = [p \in DOMAIN nodes |-> EndsOf(F, p, k)] /\ Descent(k) = F[root]
  <1> DEFINE P(f) == f = [pid \in DOMAIN nodes |->
               LET n == nodes[pid]
                   at == node_bin_search(n, k)
               IN  IF at.found THEN TRUE
                   ELSE IF n.leaf THEN FALSE
                   ELSE f[child_at(n, at.idx)]]
             F == CHOOSE f : P(f)
  <1>1. \A f : P(f) <=> f = [p \in DOMAIN nodes |-> EndsOf(f, p, k)]
    BY DEF EndsOf
  <1>2. Descent(k) = F[root]
    BY DEF Descent
  <1> HIDE DEF P
  <1>3. P(F)
    BY <1>1
  <1>4. F = [p \in DOMAIN nodes |-> EndsOf(F, p, k)]
    BY <1>1, <1>3
  <1> QED
    BY <1>2, <1>4

\* The children of a node.
LEMMA UnderIs ==
  ASSUME NEW n \in PageType
  PROVE  /\ DOMAIN Under(n) = 1 .. Len(n.cells) + 1 /\ Len(n.cells) \in Nat
         /\ \A i \in 1 .. Len(n.cells) + 1 : Under(n)[i] = slot(n, i)
  <1> DEFINE N == Len(n.cells)
             s == [i \in DOMAIN n.cells |-> n.cells[i].child]
  <1>1. n.cells \in Seq(CellType) /\ N \in Nat /\ DOMAIN n.cells = 1 .. N
        /\ n.rightmost \in Nat
    <2>1. n.cells \in Seq(CellType) /\ n.rightmost \in Nat
      BY PageFields DEF PageType
    <2> QED
      BY <2>1
  <1>2. s \in Seq(Nat) /\ Len(s) = N /\ \A i \in 1 .. N : s[i] = n.cells[i].child
    <2>1. \A i \in 1 .. N : n.cells[i].child \in Nat
      <3>1. \A i \in 1 .. N : n.cells[i] \in CellType
        BY <1>1
      <3> QED
        BY <3>1 DEF CellType
    <2>2. s = [i \in 1 .. N |-> n.cells[i].child]
      BY <1>1
    <2> HIDE DEF s
    <2>3. s \in [1 .. N -> Nat]
      BY <2>1, <2>2
    <2>4. s \in Seq(Nat) /\ Len(s) = N
      BY ONLY <1>1, <2>3, SMT
    <2> QED
      BY <2>2, <2>4
  <1> HIDE DEF s
  <1>3. /\ DOMAIN Append(s, n.rightmost) = 1 .. N + 1
        /\ \A i \in 1 .. N : Append(s, n.rightmost)[i] = s[i]
        /\ Append(s, n.rightmost)[N + 1] = n.rightmost
    BY <1>1, <1>2
  <1>4. Under(n) = Append(s, n.rightmost)
    BY DEF Under, s
  <1> QED
    BY <1>1, <1>2, <1>3, <1>4 DEF slot

\* The tuples below the root of a tree of two levels.
LEMMA RootSum ==
  ASSUME TypeInv, NEW f, ~nodes[root].leaf, nodes[root] \in PageType,
         TwoOk(nodes, nodes[root], count),
         \A p \in 1 .. Len(nodes) : nodes[p].leaf => f[p] = Len(nodes[p].cells)
  PROVE  TuplesOf(f, root) = count
  <1> DEFINE n == nodes[root]
             U == Under(n)
             N == Len(n.cells)
             T == [i \in DOMAIN U |-> IF U[i] = NULL THEN 0 ELSE f[U[i]]]
             G == Filled(nodes, n)
  <1>1. SlotsRanged(nodes, n) /\ SumUpTo(G, N + 1) = count
    BY DEF TwoOk
  <1>2. /\ DOMAIN U = 1 .. N + 1 /\ N \in Nat
        /\ \A i \in 1 .. N + 1 : U[i] = slot(n, i)
    BY UnderIs
  <1>3. \A i \in 1 .. N + 1 : slot(n, i) \in 1 .. Len(nodes) /\ nodes[slot(n, i)].leaf
    BY <1>1 DEF SlotsRanged, Slots
  <1>4. \A i \in 1 .. N + 1 : /\ G[i] = Len(nodes[slot(n, i)].cells)
                              /\ G[i] \in Int
    <2>1. nodes \in Seq(PageType)
      BY DEF TypeInv
    <2> QED
      BY <1>1, <2>1, FilledNat
  <1> HIDE DEF U, G, N
  <1>5. \A i \in 1 .. N + 1 : T[i] = G[i]
    <2>1. SUFFICES ASSUME NEW i \in 1 .. N + 1 PROVE T[i] = G[i]
      OBVIOUS
    <2> DEFINE c == slot(n, i)
    <2>2. U[i] = c /\ c \in 1 .. Len(nodes) /\ nodes[c].leaf /\ G[i] = Len(nodes[c].cells)
      BY <1>2, <1>3, <1>4
    <2> HIDE DEF c
    <2>3. c # NULL /\ f[c] = Len(nodes[c].cells)
      BY <2>2 DEF NULL
    <2> QED
      BY <1>2, <2>2, <2>3
  <1>6. Len(T) = N + 1
    BY <1>2
  <1>7. TuplesOf(f, root) = Total(T)
    BY DEF TuplesOf, U
  <1> HIDE DEF T
  <1>8. SumUpTo(T, N + 1) = SumUpTo(G, N + 1)
    <2>1. N + 1 \in Nat
      BY <1>2
    <2> QED
      BY <1>4, <1>5, <2>1, SumSame
  <1> QED
    BY <1>1, <1>6, <1>7, <1>8 DEF Total

\* Every tuple of a small tree is counted, once.
LEMMA TupleCount ==
  ASSUME TypeInv, NEW h, Shape(h), RootInv, OnlyRoot, SoundTree(nodes, root, count)
  PROVE  tuple = count
  <1>1. /\ nodes \in Seq(PageType) /\ DOMAIN nodes = 1 .. Len(nodes)
        /\ root \in 1 .. Len(nodes) /\ nodes[root] \in PageType
    BY RootFacts, NodesLen
  <1> DEFINE s == [p \in DOMAIN nodes |->
                     IF nodes[p].leaf THEN Len(nodes[p].cells) ELSE count]
  <1>2. ASSUME NEW f, \A p \in 1 .. Len(nodes) : nodes[p].leaf => f[p] = Len(nodes[p].cells)
        PROVE  TuplesOf(f, root) = count
    <2>1. CASE nodes[root].leaf
      BY <2>1 DEF TuplesOf, SoundTree, OneOk
    <2>2. CASE ~nodes[root].leaf
      <3>1. TwoOk(nodes, nodes[root], count)
        BY <2>2 DEF SoundTree
      <3> QED
        BY <1>1, <1>2, <2>2, <3>1, RootSum
    <2> QED
      BY <2>1, <2>2
  <1>3. \A p \in 1 .. Len(nodes) : nodes[p].leaf => s[p] = Len(nodes[p].cells)
    BY <1>1
  <1>4. TuplesOf(s, root) = count
    BY <1>2, <1>3
  <1>5. ASSUME NEW p \in DOMAIN nodes PROVE s[p] = TuplesOf(s, p)
    <2>1. CASE nodes[p].leaf
      BY <2>1 DEF TuplesOf
    <2>2. CASE ~nodes[p].leaf
      BY <1>1, <1>4, <2>2 DEF OnlyRoot
    <2> QED
      BY <2>1, <2>2
  <1>6. s = [p \in DOMAIN nodes |-> TuplesOf(s, p)]
    <2> DEFINE t == [p \in DOMAIN nodes |-> TuplesOf(s, p)]
    <2>1. DOMAIN s = DOMAIN nodes /\ DOMAIN t = DOMAIN nodes
      OBVIOUS
    <2>2. \A p \in DOMAIN nodes : s[p] = t[p]
      BY <1>5
    <2>3. s = [p \in DOMAIN s |-> s[p]] /\ t = [p \in DOMAIN t |-> t[p]]
      OBVIOUS
    <2> QED
      BY <2>1, <2>2
  <1> HIDE DEF s
  <1>7. PICK F : F = [p \in DOMAIN nodes |-> TuplesOf(F, p)] /\ tuple = F[root]
    BY <1>6, TupleIs
  <1>8. \A p \in DOMAIN nodes : F[p] = TuplesOf(F, p)
    BY <1>7
  <1>9. \A p \in 1 .. Len(nodes) : nodes[p].leaf => F[p] = Len(nodes[p].cells)
    BY <1>1, <1>8 DEF TuplesOf
  <1>10. TuplesOf(F, root) = count
    BY <1>2, <1>9
  <1> QED
    BY <1>1, <1>7, <1>8, <1>10

\* A tuple of the leaf in which its key belongs is found.
LEMMA LeafFinds ==
  ASSUME NEW n \in PageType, Ordered(n.cells), NEW i \in 1 .. Len(n.cells)
  PROVE  /\ n.cells[i].key \in Key
         /\ node_bin_search(n, n.cells[i].key).found
  <1> DEFINE k == n.cells[i].key
             at == node_bin_search(n, k)
  <1>1. n.cells \in Seq(CellType) /\ Len(n.cells) \in Nat
    BY PageFields
  <1>2. k \in Key
    <2>1. n.cells[i] \in CellType
      BY <1>1
    <2> QED
      BY <2>1 DEF CellType
  <1>3. Placed(n.cells, k, at)
    BY <1>1, <1>2, SearchPlaces
  <1>4. ~Before(k, k)
    BY <1>2, BeforeIrreflexive
  <1>5. at.found
    <2>1. SUFFICES ASSUME ~at.found PROVE FALSE
      BY <1>3 DEF Placed
    <2>2. /\ at.idx \in 0 .. Len(n.cells)
          /\ \A j \in 1 .. at.idx : Before(n.cells[j].key, k)
          /\ \A j \in at.idx + 1 .. Len(n.cells) : Before(k, n.cells[j].key)
      BY <1>3, <2>1 DEF Placed
    <2> HIDE DEF at
    <2>3. i \in 1 .. at.idx \/ i \in at.idx + 1 .. Len(n.cells)
      BY <1>1, <2>2
    <2> QED
      BY <1>4, <2>2, <2>3
  <1> QED
    BY <1>2, <1>5

\* The search for a key has a result in every small tree.
LEMMA SmallDescent ==
  ASSUME TypeInv, NEW h, Shape(h), RootInv, OnlyRoot, SoundTree(nodes, root, count),
         NEW k \in Key
  PROVE  \E F : F = [p \in DOMAIN nodes |-> EndsOf(F, p, k)] /\ Descent(k) = F[root]
  <1> DEFINE at == node_bin_search(nodes[root], k)
             child == child_at(nodes[root], at.idx)
             ends(p) == IF node_bin_search(nodes[p], k).found THEN TRUE ELSE FALSE
             s == [p \in DOMAIN nodes |->
                     IF nodes[p].leaf \/ node_bin_search(nodes[p], k).found
                     THEN ends(p) ELSE ends(child)]
  <1>1. /\ nodes \in Seq(PageType) /\ DOMAIN nodes = 1 .. Len(nodes)
        /\ root \in 1 .. Len(nodes) /\ nodes[root] \in PageType
        /\ Ordered(nodes[root].cells)
    BY RootFacts, NodesLen
  <1>2. ~nodes[root].leaf => child \in DOMAIN nodes /\ nodes[child].leaf
    <2> SUFFICES ASSUME ~nodes[root].leaf PROVE child \in DOMAIN nodes /\ nodes[child].leaf
      OBVIOUS
    <2>1. SlotsRanged(nodes, nodes[root])
      BY DEF SoundTree, TwoOk
    <2>2. at.idx + 1 \in Slots(nodes[root]) /\ slot(nodes[root], at.idx + 1) = child
      BY <1>1, SearchLeads
    <2> QED
      BY <1>1, <2>1, <2>2 DEF SlotsRanged
  <1>3. ASSUME NEW p \in DOMAIN nodes PROVE s[p] = EndsOf(s, p, k)
    <2>1. CASE nodes[p].leaf \/ node_bin_search(nodes[p], k).found
      BY <2>1 DEF EndsOf
    <2>2. CASE ~(nodes[p].leaf \/ node_bin_search(nodes[p], k).found)
      <3>1. p = root
        BY <1>1, <2>2 DEF OnlyRoot
      <3>2. child \in DOMAIN nodes /\ nodes[child].leaf
        BY <1>2, <2>2, <3>1
      <3>3. EndsOf(s, p, k) = s[child]
        BY <2>2, <3>1 DEF EndsOf
      <3>4. s[child] = ends(child) /\ s[p] = ends(child)
        BY <2>2, <3>2
      <3> QED
        BY <3>3, <3>4
    <2> QED
      BY <2>1, <2>2
  <1>4. s = [p \in DOMAIN nodes |-> EndsOf(s, p, k)]
    <2> DEFINE t == [p \in DOMAIN nodes |-> EndsOf(s, p, k)]
    <2>1. \A p \in DOMAIN nodes : s[p] = t[p]
      BY <1>3
    <2>2. DOMAIN s = DOMAIN nodes /\ DOMAIN t = DOMAIN nodes
      OBVIOUS
    <2>3. s = [p \in DOMAIN s |-> s[p]] /\ t = [p \in DOMAIN t |-> t[p]]
      OBVIOUS
    <2> QED
      BY <2>1, <2>2
  <1> HIDE DEF s
  <1> QED
    BY <1>4, DescentIs

\* Every tuple of a small tree is found from the root.
LEMMA SmallFinds ==
  ASSUME TypeInv, NEW h, Shape(h), RootInv, OnlyRoot, SoundTree(nodes, root, count),
         NEW pid \in 1 .. Len(nodes), nodes[pid].leaf,
         NEW i \in 1 .. Len(nodes[pid].cells)
  PROVE  Descent(nodes[pid].cells[i].key)
  <1> DEFINE k == nodes[pid].cells[i].key
             n == nodes[root]
             at == node_bin_search(n, k)
             child == child_at(n, at.idx)
  <1>1. /\ nodes \in Seq(PageType) /\ DOMAIN nodes = 1 .. Len(nodes)
        /\ root \in 1 .. Len(nodes) /\ n \in PageType /\ Ordered(n.cells)
        /\ PagesOk(nodes, h)
    BY RootFacts, NodesLen
  <1>2. k \in Key /\ node_bin_search(nodes[pid], k).found /\ nodes[pid].cells # << >>
    <2>1. nodes[pid] \in PageType /\ Ordered(nodes[pid].cells) /\ Len(nodes[pid].cells) \in Nat
      BY <1>1, PageFacts
    <2> QED
      BY <2>1, LeafFinds
  <1> HIDE DEF k
  <1>3. PICK F : F = [p \in DOMAIN nodes |-> EndsOf(F, p, k)] /\ Descent(k) = F[root]
    BY <1>2, SmallDescent
  <1>4. \A p \in DOMAIN nodes : F[p] = EndsOf(F, p, k)
    BY <1>3
  <1>5. F[pid] = TRUE
    BY <1>1, <1>2, <1>4 DEF EndsOf
  <1>6. CASE n.leaf
    <2>1. pid = root
      BY <1>2, <1>6 DEF SoundTree, OneOk
    <2> QED
      BY <1>3, <1>5, <2>1 DEF k
  <1>7. CASE ~n.leaf /\ at.found
    BY <1>1, <1>3, <1>4, <1>7 DEF EndsOf, k
  <1>8. CASE ~n.leaf /\ ~at.found
    <2>1. SlotsRanged(nodes, n) /\ SlotsAll(nodes, n)
      BY <1>8 DEF SoundTree, TwoOk
    <2>2. PICK j \in Slots(n) : slot(n, j) = pid
      BY <1>2, <2>1 DEF SlotsAll, Linked
    <2>3. InRange(n, j, k)
      BY <2>1, <2>2 DEF SlotsRanged, k
    <2>4. Placed(n.cells, k, at)
      BY <1>1, <1>2, PageSearch
    <2>5. slot(n, at.idx + 1) = child
      BY <1>1, <1>2, SearchLeads
    <2> HIDE DEF n, at
    <2>6. j = at.idx + 1
      BY <1>1, <1>2, <1>8, <2>2, <2>3, <2>4, NewPlace
    <2>7. child = pid
      BY <2>2, <2>5, <2>6
    <2> HIDE DEF child
    <2>8. F[root] = F[child]
      BY <1>1, <1>4, <1>8 DEF EndsOf, n, at, child
    <2> QED
      BY <1>3, <1>5, <2>7, <2>8 DEF k
  <1> QED
    BY <1>6, <1>7, <1>8

\* The children of the root of a tree of at most two levels.
LEMMA TwoLevelsLow ==
  ASSUME TypeInv, NEW h, Shape(h), RootInv, TwoLevels
  PROVE  RootLow
  <1> SUFFICES ASSUME ~nodes[root].leaf PROVE nodes[nodes[root].rightmost].leaf
    BY DEF RootLow
  <1>1. root \notin Leaves /\ root \in DOMAIN nodes
    BY RootFacts, NodesLen DEF Leaves
  <1>2. nodes[root].rightmost \in Children(nodes[root])
    BY DEF RootInv, Children
  <1>3. Level(1) = NextLevel({root})
    <2>1. 0 \in Nat /\ 0 + 1 = 1
      OBVIOUS
    <2> QED
      BY <2>1, LevelIs
  <1>4. nodes[root].rightmost \in Level(1)
    BY <1>1, <1>2, <1>3 DEF NextLevel
  <1> QED
    BY <1>4 DEF TwoLevels, Leaves

\* The same, and no separator comes twice.
LEMMA IdleSmall ==
  ASSUME TypeInv, NEW h, Shape(h), RootInv, TwoLevels, SeparatorsDiffer
  PROVE  Small(nodes, root) /\ RootLow
  <1> DEFINE n == nodes[root]
  <1>1. RootLow
    BY TwoLevelsLow
  <1>2. ASSUME ~n.leaf PROVE KeysDiffer(n.cells)
    <2>1. /\ DOMAIN nodes = 1 .. Len(nodes) /\ root \in 1 .. Len(nodes) /\ n \in PageType
      BY RootFacts, NodesLen
    <2>2. root \notin Leaves /\ root \in DOMAIN nodes
      BY <1>2, <2>1 DEF Leaves
    <2>3. DOMAIN n.cells = 1 .. Len(n.cells)
      BY <2>1, PageFields
    <2> QED
      BY <2>2, <2>3 DEF SeparatorsDiffer, KeysDiffer
  <1> QED
    BY <1>1, <1>2 DEF Small, RootLow

\* The cells of the leaves.
LEMMA CellIs ==
  ASSUME TypeInv, NEW c \in Cells
  PROVE  \E pid \in 1 .. Len(nodes) : \E i \in 1 .. Len(nodes[pid].cells) :
           nodes[pid].leaf /\ TupleAt(c)[1] = nodes[pid].cells[i].key
  <1>1. PICK pid \in Leaves : c \in {<<pid, i>> : i \in DOMAIN nodes[pid].cells}
    BY DEF Cells
  <1>2. PICK i \in DOMAIN nodes[pid].cells : c = <<pid, i>>
    BY <1>1
  <1>3. pid \in 1 .. Len(nodes) /\ nodes[pid].leaf /\ nodes \in Seq(PageType)
    BY NodesLen DEF Leaves, TypeInv
  <1>4. DOMAIN nodes[pid].cells = 1 .. Len(nodes[pid].cells)
    <2>1. nodes[pid] \in PageType
      BY <1>3
    <2> QED
      BY <2>1, PageFields
  <1>5. TupleAt(c)[1] = nodes[pid].cells[i].key
    BY <1>2 DEF TupleAt
  <1> QED
    BY <1>2, <1>3, <1>4, <1>5

\* Between calls of btree_insert a tree of at most two levels has every tuple that
\* was inserted once, and every key of one is found from its root, unless a
\* separator came twice.
THEOREM SmallTreesAreSound == Spec => []TwoLevelsSound
  <1>1. ASSUME IndInv, SoundInv, OnlyInv PROVE TwoLevelsSound
    <2> SUFFICES ASSUME pc = "idle", TwoLevels, SeparatorsDiffer
                 PROVE  /\ tuple = count
                        /\ \A c \in Cells : Descent(TupleAt(c)[1])
      BY DEF TwoLevelsSound
    <2>1. PICK h : Shape(h)
      BY <1>1 DEF IndInv
    <2>2. TypeInv /\ RootInv
      BY <1>1 DEF IndInv, SoundInv
    <2>3. Small(nodes, root) /\ RootLow
      BY <2>1, <2>2, IdleSmall
    <2>4. OnlyRoot
      BY <1>1, <2>3 DEF OnlyInv, Doubled
    <2>5. SoundTree(nodes, root, count)
      BY <1>1, <2>3 DEF SoundInv, SearchInv, SearchOk, Written, writing
    <2>6. tuple = count
      BY <2>1, <2>2, <2>4, <2>5, TupleCount
    <2>7. ASSUME NEW c \in Cells PROVE Descent(TupleAt(c)[1])
      <3>1. PICK pid \in 1 .. Len(nodes) : \E i \in 1 .. Len(nodes[pid].cells) :
              nodes[pid].leaf /\ TupleAt(c)[1] = nodes[pid].cells[i].key
        BY <2>2, <2>7, CellIs
      <3>2. PICK i \in 1 .. Len(nodes[pid].cells) :
              nodes[pid].leaf /\ TupleAt(c)[1] = nodes[pid].cells[i].key
        BY <3>1
      <3>3. Descent(nodes[pid].cells[i].key)
        BY <2>1, <2>2, <2>4, <2>5, <3>2, SmallFinds
      <3> QED
        BY <3>2, <3>3
    <2> QED
      BY <2>6, <2>7
  <1> QED
    BY <1>1, Inductive, SmallTrees, PTL


-----------------------------------------------------------------------------
(* Where a call on a small tree fails *)

\* An internal node that was never split: it has no tombstones, and cell_offset is
\* where its newest cell is.
Plain(n) ==
  n.tombs = << >> /\ \E i \in 1 .. Len(n.cells) : n.cells[i].off = n.cell_offset

\* There is room in the root for the separator of the leaf's halves.
RootRoom ==
  node_get_free_offset(nodes[root], Len(partition_key(breadcrumbs[2])), 0) # 0

\* What is known of a root that has leaves below it, and of a call that has failed
\* on such a tree.
PlainInv ==
  RootLow /\ ~nodes[root].leaf /\ pc \notin {"abort", "wild"} => Plain(nodes[root])

IntactInv == pc \in {"descend", "propagate"} => Intact(nodes[root])

RoomInv ==
  pc \in {"propagate", "write"} /\ RootLow /\ low = 1 /\ ~breadcrumbs[1].is_full =>
    RootRoom

AbortInv ==
  /\ pc = "insert" => here.leaf
  /\ pc = "abort" /\ RootLow => here.leaf /\ ~LinkFailed

ExplainInv == PlainInv /\ IntactInv /\ RoomInv /\ AbortInv

\* A breadcrumb has no f_node before it is marked, and bc_idx is not used before
\* and behind the loops over the breadcrumbs.
FreshInv ==
  /\ pc \in {"idle", "descend"} => bc_idx = 0
  /\ \A i \in 1 .. Len(breadcrumbs) :
       pc = "descend" \/ (pc = "propagate" /\ i <= bc_idx) =>
         breadcrumbs[i].f_node = NULL
  /\ pc = "insert" => bc_idx = 0 \/ bc_idx = Len(breadcrumbs)

\* A page without tombstones that takes a cell.
LEMMA PlainWith ==
  ASSUME NEW n \in PageType, n.tombs = << >>, NEW idx \in 0 .. Len(n.cells),
         NEW k \in Key, NEW v \in Nat, NEW child \in Nat
  PROVE  Plain(WithCell(n, idx, k, v, child))
  <1> DEFINE m == WithCell(n, idx, k, v, child)
             off == node_get_free_offset(n, Len(k), v)
             c == Cell(off, k, v, child)
             s == InsertAt(n.cells, idx + 1, c)
  <1>1. take_free_offset(n, Len(k), v) = n
    BY DEF take_free_offset, fits_tombstone
  <1>2. m = [n EXCEPT !.cells = s, !.cell_offset = off]
    BY <1>1 DEF WithCell, node_insert_cell, Cell
  <1>3. c.off = off
    BY DEF Cell
  <1>4. n.cells \in Seq(CellType) /\ Len(n.cells) \in Nat
    BY PageFields
  <1>5. c \in CellType
    BY InsertedPage
  <1>6. idx + 1 \in 1 .. Len(s) /\ s[idx + 1] = c
    <2> DEFINE p == idx + 1
    <2>1. p \in 1 .. Len(n.cells) + 1
      BY <1>4
    <2> HIDE DEF c, p, s, off, m
    <2>2. /\ Len(InsertAt(n.cells, p, c)) = Len(n.cells) + 1
          /\ InsertAt(n.cells, p, c)[p] = c
      BY ONLY <1>4, <1>5, <2>1, Inserted
    <2> QED
      BY <1>4, <2>1, <2>2 DEF p, s
  <1> HIDE DEF s, c, off
  <1>7. m.tombs = << >> /\ m.cells = s /\ m.cell_offset = off
    BY <1>2 DEF PageType
  <1> HIDE DEF m
  <1> QED
    BY <1>3, <1>6, <1>7 DEF Plain, m

\* A new root is plain.
LEMMA PlainRoot ==
  ASSUME NEW k \in Key, NEW child \in Nat, NEW right \in Nat
  PROVE  Plain(RootOf(k, child, right))
  <1> DEFINE n == [node_init(FALSE) EXCEPT !.rightmost = right]
             z == 0
  <1>1. n \in PageType /\ n.cells = << >> /\ n.tombs = << >>
    BY EmptyPage DEF PageType, node_init
  <1>2. RootOf(k, child, right) = WithCell(n, z, k, z, child)
    BY DEF node_insert_internal_cell, WithCell, RootOf
  <1> HIDE DEF n
  <1>3. z \in 0 .. Len(n.cells) /\ z \in Nat
    BY <1>1
  <1> HIDE DEF z
  <1> QED
    BY <1>1, <1>2, <1>3, PlainWith

\* A plain node that takes a separator stays plain.
LEMMA PlainLinked ==
  ASSUME NEW f \in PageType, Ordered(f.cells), Plain(f), NEW k \in Key, NEW a \in Nat,
         NEW b \in Nat
  PROVE  Plain(linked(f, node_bin_search(f, k).idx, k, a, b))
  <1> DEFINE idx == node_bin_search(f, k).idx
             r == redirect(f, idx, b)
             z == 0
  <1>1. f.cells \in Seq(CellType) /\ Len(f.cells) \in Nat
    BY PageFields
  <1>2. idx \in 0 .. Len(f.cells)
    BY <1>1, SearchPlaces DEF Placed
  <1> HIDE DEF idx
  <1>3. r \in PageType /\ Len(r.cells) = Len(f.cells)
    BY <1>2, Redirected
  <1>4. r.tombs = << >>
    BY DEF redirect, Plain, PageType
  <1>5. linked(f, idx, k, a, b) = WithCell(r, idx, k, z, a)
    BY DEF linked, node_insert_internal_cell, WithCell
  <1>6. idx \in 0 .. Len(r.cells) /\ z \in Nat
    BY <1>2, <1>3
  <1> HIDE DEF r, z
  <1>7. Plain(WithCell(r, idx, k, z, a))
    BY <1>3, <1>4, <1>6, PlainWith
  <1> QED
    BY <1>5, <1>7 DEF idx

\* A plain and intact page takes what was found to fit: node_is_full and
\* node_get_free_offset agree, and the unsigned free space has not wrapped.
LEMMA PlainRoom ==
  ASSUME NEW n \in PageType, Plain(n), Intact(n), NEW size \in Nat,
         ~node_is_full(n, size, 0)
  PROVE  node_get_free_offset(n, size, 0) # 0
  <1> DEFINE lim == hdr_offset_limit(n)
             co == n.cell_offset
             need == new_cell_size(size, 0)
  <1>1. n.cells \in Seq(CellType) /\ Len(n.cells) \in Nat /\ co \in Int
        /\ DOMAIN n.cells = 1 .. Len(n.cells)
    BY PageFields
  <1>2. PICK i \in 1 .. Len(n.cells) : n.cells[i].off = co
    BY DEF Plain
  <1>3. lim <= co /\ co + used_size(n.cells[i]) <= NODE_SIZE /\ used_size(n.cells[i]) \in Nat
    <2>1. n.cells[i] \in CellType
      BY <1>1
    <2> QED
      BY <1>1, <1>2, <2>1, CellNumbers DEF Intact, CellsInside
  <1>4. lim \in Nat /\ lim >= 1
    <2>1. sizeof_ptr * Len(n.cells) \in Nat
      BY <1>1, Constants
    <2> QED
      BY <2>1, Constants DEF hdr_offset_limit
  <1>5. co - lim \in 0 .. U32 - 1
    <2> DEFINE u == used_size(n.cells[i])
    <2>1. u \in Nat /\ co + u <= NODE_SIZE /\ lim <= co
      BY <1>3
    <2> HIDE DEF u, lim, co
    <2> QED
      BY <1>1, <1>4, <2>1, Constants
  <1>6. free_space(n) = co - lim
    <2> HIDE DEF lim, co
    <2>1. (co - lim) % U32 = co - lim
      BY <1>5, Constants
    <2> QED
      BY <2>1 DEF free_space, lim, co
  <1>7. in_gap(n, need)
    <2>1. Range(n.tombs) = {}
      BY DEF Plain, Range
    <2> QED
      BY <2>1 DEF node_is_full
  <1>8. need \in Int
    BY AlignUp, Constants DEF new_cell_size
  <1>9. node_get_free_offset(n, size, 0) = co - need
    BY <1>7 DEF node_get_free_offset
  <1>10. need <= co - lim
    BY <1>6, <1>7 DEF in_gap
  <1> HIDE DEF lim, co, need
  <1> QED
    BY <1>1, <1>4, <1>8, <1>9, <1>10


\* The same of the new pages.
LEMMA ExplainPrimes ==
  /\ Plain(nodes[root])' <=> Plain(nodes'[root'])
  /\ Intact(nodes[root])' <=> Intact(nodes'[root'])
  /\ partition_key(breadcrumbs[2])'
       = cell_at(nodes'[breadcrumbs'[2].node], breadcrumbs'[2].partition_idx).key
  BY DEF Plain, Intact, partition_key

\* A step after which the call goes on, not before its leaf is known.
LEMMA ExplainOn ==
  ASSUME ExplainInv, root' = root, nodes'[root] = nodes[root], RootLow' => RootLow,
         pc \notin {"abort", "wild"}, pc' \in {"idle", "descend", "propagate", "write"},
         pc' \in {"descend", "propagate"} => pc \in {"descend", "propagate"},
         RoomInv'
  PROVE  ExplainInv'
  <1>1. PlainInv'
    BY ExplainPrimes DEF ExplainInv, PlainInv
  <1>2. IntactInv'
    BY ExplainPrimes DEF ExplainInv, IntactInv
  <1>3. AbortInv'
    BY DEF AbortInv
  <1> QED
    BY <1>1, <1>2, <1>3 DEF ExplainInv

\* A step that stops the call.
LEMMA ExplainStop ==
  ASSUME nodes' = nodes, root' = root, breadcrumbs' = breadcrumbs, bc_idx' = bc_idx,
         \/ pc' = "wild"
         \/ pc' = "abort" /\ (RootLow => here.leaf /\ ~LinkFailed)
  PROVE  ExplainInv'
  <1>1. here' = here /\ (RootLow' <=> RootLow) /\ (LinkFailed' <=> LinkFailed)
    BY DEF here, RootLow, LinkFailed
  <1>2. PlainInv' /\ IntactInv' /\ RoomInv'
    BY DEF PlainInv, IntactInv, RoomInv
  <1>3. AbortInv'
    BY <1>1 DEF AbortInv
  <1> QED
    BY <1>2, <1>3 DEF ExplainInv

\* At first the root is a leaf.
LEMMA ExplainInit == Init => ExplainInv
  <1> SUFFICES ASSUME Init PROVE ExplainInv
    OBVIOUS
  <1>1. pc = "idle" /\ nodes[root].leaf
    BY EmptyPage DEF Init
  <1> QED
    BY <1>1 DEF ExplainInv, PlainInv, IntactInv, RoomInv, AbortInv

\* A call begins: the pages are intact.
LEMMA ExplainCall ==
  ASSUME TypeInv, ExplainInv, NEW t \in Tuples, btree_insert(t[1], t[2])
  PROVE  ExplainInv'
  <1>1. /\ pc = "idle" /\ pc' = "descend" /\ root' = root /\ nodes' = nodes
        /\ Intact(nodes[root])
    BY NodesLen DEF btree_insert, TypeInv
  <1>2. PlainInv'
    <2>1. RootLow' <=> RootLow
      BY <1>1 DEF RootLow
    <2> QED
      BY <1>1, <2>1, ExplainPrimes DEF ExplainInv, PlainInv
  <1>3. IntactInv'
    BY <1>1, ExplainPrimes DEF IntactInv
  <1>4. RoomInv' /\ AbortInv'
    BY <1>1 DEF RoomInv, AbortInv
  <1> QED
    BY <1>2, <1>3, <1>4 DEF ExplainInv

\* The key was found in an internal node.
LEMMA ExplainRefuse ==
  ASSUME ExplainInv, refuse
  PROVE  ExplainInv'
  <1>1. pc = "descend" /\ pc' = "idle" /\ root' = root /\ nodes' = nodes
    BY DEF refuse, return
  <1>2. RoomInv' /\ (RootLow' <=> RootLow)
    BY <1>1 DEF RoomInv, RootLow
  <1> QED
    BY <1>1, <1>2, ExplainOn

\* A root with leaves below it is the whole path.
LEMMA LowPath ==
  ASSUME TypeInv, NEW h, Shape(h), RootInv, RootLow, pc # "idle",
         breadcrumbs[1].node = root, NEW i \in 1 .. Len(breadcrumbs),
         ~nodes[breadcrumbs[i].node].leaf
  PROVE  i = 1 /\ breadcrumbs[i].node = root
  <1> DEFINE e == h[breadcrumbs[i].node]
             r == h[root]
             d == h[nodes[root].rightmost]
  <1>1. e \in Nat /\ e + i = r + 1 /\ breadcrumbs[i].node \in 1 .. Len(nodes)
    BY PathFacts
  <1>2. /\ r \in Nat /\ (nodes[root].leaf <=> r = 0)
        /\ \A p \in 1 .. Len(nodes) : nodes[p].leaf <=> h[p] = 0
        /\ ~nodes[root].leaf => r = d + 1 /\ nodes[root].rightmost \in 1 .. Len(nodes)
    BY RootFacts
  <1>3. e # 0
    BY <1>1, <1>2
  <1>4. r = 0 \/ (r = d + 1 /\ d = 0)
    BY <1>2 DEF RootLow
  <1> HIDE DEF e, r, d
  <1>5. i = 1
    BY <1>1, <1>2, <1>3, <1>4
  <1> QED
    BY <1>5

\* One node further down: the root has the child that the search leads to.
LEMMA ExplainFollow ==
  ASSUME IndInv, RootInv, ExplainInv, follow
  PROVE  ExplainInv'
  <1>1. PICK h : Shape(h)
    BY DEF IndInv
  <1> DEFINE L == Len(breadcrumbs)
             at == node_bin_search(here, key)
             child == child_at(here, at.idx)
  <1>2. TypeInv /\ pc = "descend" /\ ~here.leaf /\ root' = root /\ nodes' = nodes
    BY DEF IndInv, follow
  <1>3. IF child = NULL
        THEN stop("abort")
        ELSE /\ breadcrumbs' = Append(breadcrumbs, Crumb(child))
             /\ UNCHANGED <<pc, bc_idx, leaf_node, args>>
    BY Zenon DEF follow
  <1>4. CASE child # NULL
    <2>1. pc' = "descend"
      BY <1>2, <1>3, <1>4
    <2>2. RoomInv' /\ (RootLow' <=> RootLow)
      BY <1>2, <2>1 DEF RoomInv, RootLow
    <2> QED
      BY <1>2, <2>1, <2>2, ExplainOn
  <1>5. CASE child = NULL
    <2>1. ~RootLow
      <3> SUFFICES ASSUME RootLow PROVE FALSE
        OBVIOUS
      <3>1. L \in 1 .. L /\ Last(breadcrumbs) = breadcrumbs[L]
        BY <1>1, <1>2, PathFacts
      <3>2. here = nodes[breadcrumbs[L].node]
        BY <3>1 DEF here
      <3>3. breadcrumbs[1].node = root
        BY <1>2 DEF RootInv
      <3>4. breadcrumbs[L].node = root
        BY <1>1, <1>2, <3>1, <3>2, <3>3, LowPath
      <3>5. here = nodes[root]
        BY <3>2, <3>4
      <3>6. /\ here \in PageType /\ Ordered(here.cells) /\ root \in 1 .. Len(nodes)
            /\ PagesOk(nodes, h) /\ nodes \in Seq(PageType)
            /\ here.rightmost # NULL
        BY <1>1, <1>2, <3>5, RootFacts DEF RootInv
      <3>7. key \in Key
        BY <1>2, ArgsType
      <3>8. at.idx \in 0 .. Len(here.cells) /\ Len(here.cells) \in Nat
        BY <3>5, <3>6, <3>7, PageSearch, PageFields DEF Placed
      <3>9. PageOk(here, h[root], h, LeafKeys(nodes)) /\ DOMAIN h = 1 .. Len(nodes)
        BY <3>5, <3>6, PageFacts
      <3>10. \A i \in 1 .. Len(here.cells) : here.cells[i].child # NULL
        BY <1>2, <3>9 DEF PageOk, Below, NULL
      <3> HIDE DEF at
      <3>11. at.idx < Len(here.cells) => at.idx + 1 \in 1 .. Len(here.cells)
        BY <3>8
      <3> QED
        BY <1>5, <3>6, <3>10, <3>11 DEF child_at, cell_at
    <2> QED
      BY <1>2, <1>3, <1>5, <2>1, ExplainStop DEF stop, args, locals
  <1> QED
    BY <1>4, <1>5


\* The leaf has room.
LEMMA ExplainRoom ==
  ASSUME ExplainInv, leaf_has_room
  PROVE  ExplainInv'
  <1>1. /\ pc = "descend" /\ here.leaf /\ pc' = "insert"
        /\ root' = root /\ nodes' = nodes /\ breadcrumbs' = breadcrumbs
    BY DEF leaf_has_room
  <1>2. here' = here /\ (RootLow' <=> RootLow)
    BY <1>1 DEF here, RootLow
  <1>3. PlainInv'
    BY <1>1, <1>2, ExplainPrimes DEF ExplainInv, PlainInv
  <1>4. IntactInv' /\ RoomInv' /\ AbortInv'
    BY <1>1, <1>2 DEF IntactInv, RoomInv, AbortInv
  <1> QED
    BY <1>3, <1>4 DEF ExplainInv

\* A page is added.
LEMMA LowGrown ==
  ASSUME TypeInv, NEW h, Shape(h), RootInv, root' = root, NEW n \in PageType,
         nodes' = Append(nodes, n)
  PROVE  /\ nodes'[root] = nodes[root] /\ (RootLow' => RootLow)
         /\ \A p \in 1 .. Len(nodes) : nodes'[p] = nodes[p]
  <1> DEFINE N == Len(nodes)
  <1>1. /\ nodes \in Seq(PageType) /\ N \in Nat /\ root \in 1 .. N
        /\ ~nodes[root].leaf => nodes[root].rightmost \in 1 .. N
    BY RootFacts
  <1>2. \A p \in 1 .. N : nodes'[p] = nodes[p]
    BY ONLY <1>1, nodes' = Append(nodes, n), n \in PageType
  <1> QED
    BY <1>1, <1>2 DEF RootLow

\* The leaf is full.
LEMMA ExplainFull ==
  ASSUME IndInv, RootInv, FreshInv, ExplainInv, leaf_is_full
  PROVE  ExplainInv'
  <1>1. PICK h : Shape(h)
    BY DEF IndInv
  <1>2. TypeInv /\ pc = "descend" /\ here.leaf /\ root' = root
    BY DEF IndInv, leaf_is_full
  <1> DEFINE L == Len(breadcrumbs)
             pid == breadcrumbs[L].node
             p == node_partition_idx(here)
             side == leaf_side(cell_at(here, p).key, pid)
             bc == [node |-> pid, new_node |-> fresh, f_node |-> side,
                    partition_idx |-> p, is_full |-> TRUE]
             n == node_init(TRUE)
  <1>3. L \in Nat /\ L \in 1 .. L /\ Last(breadcrumbs) = breadcrumbs[L]
    BY <1>1, <1>2, PathFacts
  <1>4. IF p = Len(here.cells)
        THEN stop("abort") /\ UNCHANGED nodes
        ELSE /\ pc' = "propagate"
             /\ nodes' = Append(nodes, n)
             /\ leaf_node' = side
             /\ breadcrumbs' = [breadcrumbs EXCEPT ![L] = bc]
             /\ bc_idx' = L - 1
             /\ UNCHANGED args
    BY <1>3, Zenon DEF leaf_is_full
  <1>5. CASE p = Len(here.cells)
    <2>1. ~LinkFailed
      BY <1>2 DEF FreshInv, LinkFailed
    <2> QED
      BY <1>2, <1>4, <1>5, <2>1, ExplainStop DEF stop, args, locals
  <1>6. CASE p # Len(here.cells)
    <2>1. /\ pc' = "propagate" /\ nodes' = Append(nodes, n)
          /\ breadcrumbs' = [breadcrumbs EXCEPT ![L] = bc] /\ bc_idx' = L - 1
      BY <1>4, <1>6
    <2>2. n \in PageType
      BY EmptyPage
    <2>3. bc.is_full
      OBVIOUS
    <2> HIDE DEF n, bc
    <2>4. nodes'[root] = nodes[root] /\ (RootLow' => RootLow)
      BY <1>1, <1>2, <2>1, <2>2, LowGrown
    <2>5. low' = L
      BY <1>3, <2>1 DEF low
    <2>6. breadcrumbs'[L] = bc
      BY <1>2, <1>3, <2>1 DEF TypeInv
    <2>7. RoomInv'
      BY <2>3, <2>5, <2>6 DEF RoomInv
    <2> QED
      BY <1>2, <2>1, <2>4, <2>7, ExplainOn
  <1> QED
    BY <1>5, <1>6

\* A node on the way up has room: the root, if it has leaves below it.
LEMMA ExplainMarkRoom ==
  ASSUME IndInv, RootInv, ExplainInv, mark_room
  PROVE  ExplainInv'
  <1>1. PICK h : Shape(h)
    BY DEF IndInv
  <1> DEFINE L == Len(breadcrumbs)
             b == bc_idx
             pid == breadcrumbs[b].node
             ckey == partition_key(breadcrumbs[b + 1])
             bc == [node |-> pid, new_node |-> NULL, f_node |-> pid,
                    partition_idx |-> node_partition_idx(nodes[pid]),
                    is_full |-> FALSE]
  <1>2. TypeInv /\ pc = "propagate" /\ more_up /\ ~node_is_full(nodes[pid], Len(ckey), 0)
    BY DEF IndInv, mark_room
  <1>3. /\ breadcrumbs' = [breadcrumbs EXCEPT ![b] = bc] /\ b' = b - 1
        /\ root' = root /\ nodes' = nodes /\ pc' = "propagate"
    BY <1>2 DEF mark_room
  <1>4. /\ b \in 1 .. L - 1 /\ b + 1 \in 1 .. L /\ L \in Nat
        /\ ~nodes[pid].leaf /\ breadcrumbs[b + 1].is_full
        /\ Marked(nodes, h, breadcrumbs[b + 1])
    BY <1>1, <1>2, UpFacts, PathFacts
  <1>5. low' = b
    BY <1>3, <1>4 DEF low
  <1>6. RootLow' <=> RootLow
    BY <1>3 DEF RootLow
  <1>7. ASSUME RootLow, b = 1 PROVE RootRoom'
    <2>1. pid = root
      BY <1>2, <1>7 DEF RootInv
    <2>2. nodes[root] \in PageType
      BY <1>1, <1>2, RootFacts
    <2>3. Plain(nodes[root]) /\ Intact(nodes[root])
      BY <1>2, <1>4, <1>7, <2>1 DEF ExplainInv, PlainInv, IntactInv
    <2>4. b + 1 = 2 /\ 2 \in 1 .. L
      BY <1>4, <1>7
    <2>5. ckey \in Key
      <3>1. /\ breadcrumbs[b + 1] \in CrumbType
            /\ breadcrumbs[b + 1].node \in 1 .. Len(nodes) /\ PagesOk(nodes, h)
        BY <1>1, <1>2, <1>4, PathFacts DEF Shape
      <3> QED
        BY <1>2, <1>4, <3>1, PartitionKey
    <2>6. Len(ckey) \in Nat
      BY <2>5 DEF Key
    <2> HIDE DEF ckey
    <2>7. node_get_free_offset(nodes[root], Len(ckey), 0) # 0
      BY <1>2, <2>1, <2>2, <2>3, <2>6, PlainRoom
    <2>8. breadcrumbs'[2] = breadcrumbs[2]
      BY <1>2, <1>3, <1>4, <1>7, <2>4 DEF TypeInv
    <2>9. partition_key(breadcrumbs[2])' = ckey
      BY <1>3, <2>4, <2>8, ExplainPrimes DEF ckey, partition_key
    <2> QED
      BY <1>3, <2>7, <2>9 DEF RootRoom
  <1>8. RoomInv'
    BY <1>5, <1>6, <1>7 DEF RoomInv
  <1> QED
    BY <1>2, <1>3, <1>6, <1>8, ExplainOn


\* A node on the way up is full, and can be split or not.
LEMMA ExplainMarkFull ==
  ASSUME IndInv, RootInv, FreshInv, ExplainInv, mark_full
  PROVE  ExplainInv'
  <1>1. PICK h : Shape(h)
    BY DEF IndInv
  <1> DEFINE L == Len(breadcrumbs)
             b == bc_idx
             pid == breadcrumbs[b].node
             p == node_partition_idx(nodes[pid])
             ckey == partition_key(breadcrumbs[b + 1])
             below == key_compare(cell_at(nodes[pid], p).key, ckey) < 0
             bc == [node |-> pid, new_node |-> fresh,
                    f_node |-> IF below THEN fresh ELSE pid,
                    partition_idx |-> p, is_full |-> TRUE]
             n == node_init(FALSE)
  <1>2. TypeInv /\ pc = "propagate" /\ more_up /\ root' = root
    BY DEF IndInv, mark_full
  <1>3. IF p + 1 >= Len(nodes[pid].cells)
        THEN /\ stop(IF p = Len(nodes[pid].cells) THEN "wild" ELSE "abort")
             /\ UNCHANGED nodes
        ELSE /\ nodes' = Append(nodes, n)
             /\ breadcrumbs' = [breadcrumbs EXCEPT ![b] = bc]
             /\ bc_idx' = b - 1
             /\ UNCHANGED <<pc, leaf_node, args>>
    BY Zenon DEF mark_full
  <1>4. /\ b \in 1 .. L /\ L \in Nat /\ L \in 1 .. L /\ ~nodes[pid].leaf
        /\ Last(breadcrumbs) = breadcrumbs[L] /\ breadcrumbs[1].node = root
    BY <1>1, <1>2, UpFacts, PathFacts DEF RootInv
  <1>5. CASE p + 1 >= Len(nodes[pid].cells)
    <2>1. here.leaf
      <3>1. h[breadcrumbs[L].node] = 0 /\ breadcrumbs[L].node \in 1 .. Len(nodes)
        BY <1>1, <1>2, <1>4, MarkFacts, PathFacts
      <3> QED
        BY <1>1, <1>2, <1>4, <3>1, RootFacts DEF here
    <2>2. ~LinkFailed
      BY <1>2, <1>4 DEF FreshInv, LinkFailed
    <2>3. /\ nodes' = nodes /\ (pc' = "wild" \/ pc' = "abort")
          /\ breadcrumbs' = breadcrumbs /\ bc_idx' = bc_idx
      BY <1>3, <1>5 DEF stop, args, locals
    <2> QED
      BY <1>2, <2>1, <2>2, <2>3, ExplainStop
  <1>6. CASE ~(p + 1 >= Len(nodes[pid].cells))
    <2>1. /\ pc' = "propagate" /\ nodes' = Append(nodes, n)
          /\ breadcrumbs' = [breadcrumbs EXCEPT ![b] = bc] /\ bc_idx' = b - 1
      BY <1>2, <1>3, <1>6
    <2>2. n \in PageType
      BY EmptyPage
    <2>3. bc.is_full
      OBVIOUS
    <2> HIDE DEF n, bc
    <2>4. nodes'[root] = nodes[root] /\ (RootLow' => RootLow)
      BY <1>1, <1>2, <2>1, <2>2, LowGrown
    <2>5. low' = b
      BY <1>4, <2>1 DEF low
    <2>6. breadcrumbs'[b] = bc
      BY <1>2, <1>4, <2>1 DEF TypeInv
    <2>7. RoomInv'
      BY <2>3, <2>5, <2>6 DEF RoomInv
    <2> QED
      BY <1>2, <2>1, <2>4, <2>7, ExplainOn
  <1> QED
    BY <1>5, <1>6

\* The topmost node to be written has room.
LEMMA ExplainTop ==
  ASSUME ExplainInv, top_has_room
  PROVE  ExplainInv'
  <1>1. /\ pc = "propagate" /\ pc' = "write" /\ bc_idx' = bc_idx + 1
        /\ root' = root /\ nodes' = nodes /\ breadcrumbs' = breadcrumbs
    BY DEF top_has_room
  <1>2. low' = low /\ (RootLow' <=> RootLow)
    BY <1>1 DEF low, RootLow
  <1>3. RootRoom' <=> RootRoom
    BY <1>1 DEF RootRoom, partition_key, cell_at
  <1>4. RoomInv'
    BY <1>1, <1>2, <1>3 DEF ExplainInv, RoomInv
  <1> QED
    BY <1>1, <1>2, <1>4, ExplainOn

\* A new root is plain.
LEMMA ExplainNew ==
  ASSUME IndInv, RootInv, ExplainInv, split_root
  PROVE  ExplainInv'
  <1>1. PICK h : Shape(h)
    BY DEF IndInv
  <1> DEFINE N == Len(nodes)
             bc == breadcrumbs[1]
             a == bc.node
             b == bc.new_node
             k == partition_key(bc)
             m == new_root(bc)
  <1>2. /\ TypeInv /\ pc = "propagate" /\ bc_idx = 0 /\ bc.is_full
        /\ nodes \in Seq(PageType) /\ PagesOk(nodes, h)
    BY <1>1 DEF IndInv, split_root, TypeInv, Shape
  <1>3. /\ nodes' = Append(nodes, m) /\ root' = N + 1 /\ pc' = "write" /\ bc_idx' = 1
        /\ breadcrumbs' = breadcrumbs
    BY DEF split_root, fresh
  <1>4. N \in Nat /\ a \in 1 .. N /\ bc \in CrumbType /\ a \in Nat /\ b \in Nat
    BY <1>1, <1>2, PathFacts, CrumbFields
  <1>5. Marked(nodes, h, bc)
    <2>1. low = 1
      BY <1>2 DEF low
    <2> QED
      BY <1>1, <1>2, <2>1, MarkFacts
  <1>6. k \in Key
    BY <1>2, <1>4, <1>5, PartitionKey
  <1>7. m \in PageType /\ Plain(m)
    <2>1. m = RootOf(k, a, b)
      BY DEF new_root, RootOf
    <2> HIDE DEF m, k, a, b
    <2> QED
      BY <1>4, <1>6, <2>1, RootPage, PlainRoot
  <1> HIDE DEF m
  <1>8. nodes'[N + 1] = m
    BY <1>2, <1>3, <1>4, <1>7
  <1>9. PlainInv'
    BY <1>3, <1>7, <1>8, ExplainPrimes DEF PlainInv
  <1>10. IntactInv' /\ AbortInv' /\ RoomInv'
    BY <1>2, <1>3 DEF IntactInv, AbortInv, RoomInv
  <1> QED
    BY <1>9, <1>10 DEF ExplainInv

\* An internal node takes the separator: the root, if it has leaves below it.
LEMMA ExplainWrite ==
  ASSUME IndInv, RootInv, ExplainInv, write_internal, RootInv'
  PROVE  ExplainInv'
  <1>1. PICK h : Shape(h)
    BY DEF IndInv
  <1> DEFINE L == Len(breadcrumbs)
             i == bc_idx
             bc == breadcrumbs[i]
             below == breadcrumbs[i + 1]
             ckey == partition_key(below)
             split == split_nodes(bc)
             f == split[bc.f_node]
             idx == node_bin_search(f, ckey).idx
             m == linked(f, idx, ckey, below.node, below.new_node)
             ms == [split EXCEPT ![bc.f_node] = m]
             off == node_get_free_offset(f, Len(ckey), 0)
  <1>2. TypeInv /\ pc = "write" /\ ~nodes[bc.node].leaf
    BY DEF IndInv, write_internal
  <1>3. /\ root' = root
        /\ IF off = 0
           THEN stop("abort") /\ UNCHANGED nodes
           ELSE /\ nodes' = ms
                /\ bc_idx' = i + 1
                /\ UNCHANGED <<pc, breadcrumbs, leaf_node, args>>
    BY Zenon DEF write_internal
  <1>4. ASSUME h[root] = 1
        PROVE  /\ RootLow /\ i = 1 /\ ~breadcrumbs[1].is_full /\ ~nodes[root].leaf
               /\ f = nodes[root] /\ ckey = partition_key(breadcrumbs[2])
               /\ ms[root] = linked(f, idx, ckey, below.node, below.new_node)
               /\ ckey \in Key
    <2>1. i = 1 /\ ~bc.is_full /\ bc.node = root /\ bc.f_node = root
      BY <1>1, <1>2, <1>4, WriteAtRoot
    <2>2. i + 1 = 2
      BY <2>1
    <2>3. f = nodes[root] /\ ms[root] = m /\ ckey \in Key
      BY <1>1, <1>2, <2>1, <2>2, RootGains
    <2>4. RootLow
      <3> DEFINE d == h[nodes[root].rightmost]
                 e == h[root]
      <3>1. ~nodes[root].leaf
        BY <1>2, <2>1
      <3>2. /\ nodes[root].rightmost \in 1 .. Len(nodes) /\ d \in Nat /\ e = d + 1
            /\ (nodes[nodes[root].rightmost].leaf <=> d = 0)
        BY <1>1, <1>2, <3>1, RootFacts
      <3>3. e = 1
        BY <1>4
      <3> HIDE DEF d, e
      <3>4. d = 0
        BY <3>2, <3>3
      <3> QED
        BY <3>2, <3>4 DEF RootLow
    <2> QED
      BY <1>2, <2>1, <2>2, <2>3, <2>4
  <1>5. low = i /\ i \in Nat
    BY <1>1, <1>2, WriteFacts
  <1>6. CASE off = 0
    <2>1. ~RootLow
      <3> SUFFICES ASSUME RootLow PROVE FALSE
        OBVIOUS
      <3> DEFINE d == h[nodes[root].rightmost]
                 e == h[root]
      <3>1. /\ e \in Nat /\ e # 0 /\ ~nodes[root].leaf
        BY <1>1, <1>2, RootSplits, RootFacts
      <3>2. d = 0 /\ e = d + 1
        BY <1>1, <1>2, <3>1, RootFacts DEF RootLow
      <3>3. h[root] = 1
        BY <3>2
      <3>4. /\ i = 1 /\ ~breadcrumbs[1].is_full /\ f = nodes[root]
            /\ ckey = partition_key(breadcrumbs[2])
        BY <1>4, <3>3
      <3>5. RootRoom
        BY <1>2, <1>5, <3>4 DEF ExplainInv, RoomInv
      <3> QED
        BY <1>6, <3>4, <3>5 DEF RootRoom
    <2> QED
      BY <1>3, <1>6, <2>1, ExplainStop DEF stop, args, locals
  <1>7. CASE off # 0
    <2>1. /\ nodes' = ms /\ bc_idx' = i + 1 /\ pc' = "write" /\ breadcrumbs' = breadcrumbs
      BY <1>2, <1>3, <1>7
    <2>2. ASSUME RootLow' PROVE Plain(nodes'[root])
      <3>1. /\ ms \in Seq(PageType) /\ Len(ms) = Len(nodes)
            /\ \A p \in 1 .. Len(nodes) : PageOk(ms[p], h[p], h, LeafKeys(nodes))
        BY <1>1, <1>2, InternalWritten
      <3>2. ~ms[root].leaf => ms[root].rightmost # NULL /\ ms[ms[root].rightmost].leaf
        BY <1>3, <2>1, <2>2 DEF RootInv, RootLow
      <3>3. h[root] = 1
        <4> HIDE DEF ms
        <4> QED
          BY <1>1, <1>2, <3>1, <3>2, WriteHeight
      <3>4. /\ RootLow /\ i = 1 /\ ~nodes[root].leaf /\ f = nodes[root] /\ ckey \in Key
            /\ ms[root] = linked(f, idx, ckey, below.node, below.new_node)
        BY <1>4, <3>3
      <3>5. Plain(f)
        BY <1>2, <3>4 DEF ExplainInv, PlainInv
      <3>6. f \in PageType /\ Ordered(f.cells)
        BY <1>1, <1>2, <3>4, RootFacts
      <3>7. below.node \in Nat /\ below.new_node \in Nat
        BY <1>1, <1>2, WriteBelow
      <3> HIDE DEF f, ckey, below, ms
      <3> QED
        BY <2>1, <3>4, <3>5, <3>6, <3>7, PlainLinked
    <2> HIDE DEF ms
    <2>3. PlainInv'
      BY <1>3, <2>2, ExplainPrimes DEF PlainInv
    <2>4. low' # 1
      <3>1. i \in Nat /\ i >= 1
        BY <1>1, <1>2, WriteFacts
      <3> QED
        BY <2>1, <3>1 DEF low
    <2>5. IntactInv' /\ AbortInv' /\ RoomInv'
      BY <2>1, <2>4 DEF IntactInv, AbortInv, RoomInv
    <2> QED
      BY <2>3, <2>5 DEF ExplainInv
  <1> QED
    BY <1>6, <1>7


\* Leaves are exchanged for leaves.
LEMMA LowLeaves ==
  ASSUME TypeInv, NEW h, Shape(h), RootInv, root' = root, Len(nodes') = Len(nodes),
         \A p \in 1 .. Len(nodes) :
           nodes'[p] = nodes[p] \/ (nodes'[p].leaf /\ nodes[p].leaf)
  PROVE  /\ RootLow' => RootLow
         /\ ~nodes'[root].leaf => ~nodes[root].leaf /\ nodes'[root] = nodes[root]
  <1>1. /\ root \in 1 .. Len(nodes)
        /\ ~nodes[root].leaf => nodes[root].rightmost \in 1 .. Len(nodes)
    BY RootFacts
  <1> QED
    BY <1>1 DEF RootLow

\* The leaf is split.
LEMMA ExplainWriteLeaf ==
  ASSUME IndInv, RootInv, ExplainInv, write_leaf
  PROVE  ExplainInv'
  <1>1. PICK h : Shape(h)
    BY DEF IndInv
  <1> DEFINE bc == breadcrumbs[bc_idx]
             ms == split_nodes(bc)
  <1>2. TypeInv /\ pc = "write" /\ nodes[bc.node].leaf /\ pc' = "insert"
        /\ root' = root /\ nodes' = ms /\ breadcrumbs' = breadcrumbs
    BY DEF IndInv, write_leaf
  <1>3. /\ nodes \in Seq(PageType) /\ PagesOk(nodes, h) /\ bc \in CrumbType
        /\ bc.node \in 1 .. Len(nodes) /\ Marked(nodes, h, bc)
        /\ bc_idx = Len(breadcrumbs)
    BY <1>1, <1>2, WriteFacts
  <1>4. bc.is_full /\ h[bc.node] = 0
    BY <1>1, <1>2, <1>3, MarkFacts
  <1>5. bc.new_node \in 1 .. Len(nodes) /\ (nodes[bc.new_node].leaf <=> nodes[bc.node].leaf)
    BY <1>2, <1>3, <1>4, CrumbPages
  <1>6. /\ Len(ms) = Len(nodes)
        /\ \A p \in 1 .. Len(nodes) : p # bc.node /\ p # bc.new_node => ms[p] = nodes[p]
        /\ PageOk(ms[bc.node], h[bc.node], h, LeafKeys(nodes))
        /\ PageOk(ms[bc.new_node], h[bc.node], h, LeafKeys(nodes))
    BY <1>2, <1>3, <1>4, LeafHalves
  <1>7. ms[bc.node].leaf /\ ms[bc.new_node].leaf
    BY <1>4, <1>6 DEF PageOk
  <1>8. here' = ms[bc.node]
    <2>1. Last(breadcrumbs) = bc
      BY <1>1, <1>2, <1>3, PathFacts
    <2> QED
      BY <1>2, <2>1 DEF here
  <1> HIDE DEF ms, bc
  <1>9. /\ RootLow' => RootLow
        /\ ~nodes'[root].leaf => ~nodes[root].leaf /\ nodes'[root] = nodes[root]
    BY <1>1, <1>2, <1>5, <1>6, <1>7, LowLeaves
  <1>10. PlainInv'
    BY <1>2, <1>9, ExplainPrimes DEF ExplainInv, PlainInv
  <1>11. IntactInv' /\ RoomInv' /\ AbortInv'
    BY <1>2, <1>7, <1>8 DEF IntactInv, RoomInv, AbortInv
  <1> QED
    BY <1>10, <1>11 DEF ExplainInv

\* The tuple goes into the leaf, or finds no room there.
LEMMA ExplainInsert ==
  ASSUME IndInv, RootInv, FreshInv, ExplainInv, insert_tuple
  PROVE  ExplainInv'
  <1>1. PICK h : Shape(h)
    BY DEF IndInv
  <1> DEFINE n == nodes[leaf_node]
             m == node_insert_leaf_cell(n, node_bin_search(n, key).idx, key, value_size)
             ms == [nodes EXCEPT ![leaf_node] = m]
             off == node_get_free_offset(n, Len(key), value_size)
  <1>2. TypeInv /\ pc = "insert" /\ root' = root
    BY DEF IndInv, insert_tuple
  <1>3. IF off = 0
        THEN stop("abort") /\ UNCHANGED <<nodes, count>>
        ELSE nodes' = ms /\ count' = count + 1 /\ return
    BY Zenon DEF insert_tuple
  <1>4. /\ n.leaf /\ m.leaf /\ Len(ms) = Len(nodes) /\ ms[leaf_node] = m
        /\ \A p \in 1 .. Len(nodes) : p # leaf_node => ms[p] = nodes[p]
        /\ leaf_node \in 1 .. Len(nodes)
    BY <1>1, <1>2, TupleIn
  <1>5. CASE off = 0
    <2>1. here.leaf
      BY <1>2 DEF ExplainInv, AbortInv
    <2>2. ~LinkFailed
      <3>1. Len(breadcrumbs) \in Nat
        BY <1>1, <1>2, PathFacts
      <3> QED
        BY <1>2, <3>1 DEF FreshInv, LinkFailed
    <2> QED
      BY <1>2, <1>3, <1>5, <2>1, <2>2, ExplainStop DEF stop, args, locals
  <1>6. CASE off # 0
    <2>1. nodes' = ms /\ pc' = "idle"
      BY <1>3, <1>6 DEF return
    <2> HIDE DEF ms, m
    <2>2. /\ RootLow' => RootLow
          /\ ~nodes'[root].leaf => ~nodes[root].leaf /\ nodes'[root] = nodes[root]
      BY <1>1, <1>2, <1>4, <2>1, LowLeaves
    <2>3. PlainInv'
      BY <1>2, <2>2, ExplainPrimes DEF ExplainInv, PlainInv
    <2>4. IntactInv' /\ RoomInv' /\ AbortInv'
      BY <2>1 DEF IntactInv, RoomInv, AbortInv
    <2> QED
      BY <2>3, <2>4 DEF ExplainInv
  <1> QED
    BY <1>5, <1>6

\* Nothing happens.
LEMMA ExplainStutter ==
  ASSUME ExplainInv, UNCHANGED vars
  PROVE  ExplainInv'
  <1>1. /\ root' = root /\ nodes' = nodes /\ pc' = pc /\ key' = key
        /\ value_size' = value_size /\ breadcrumbs' = breadcrumbs /\ bc_idx' = bc_idx
        /\ leaf_node' = leaf_node
    BY DEF vars
  <1>2. /\ RootLow' <=> RootLow
        /\ RootRoom' <=> RootRoom
        /\ LinkFailed' <=> LinkFailed
        /\ here' = here /\ low' = low
    BY <1>1 DEF RootLow, RootRoom, LinkFailed, here, low, partition_key, cell_at
  <1>3. PlainInv' /\ IntactInv'
    BY <1>1, <1>2, ExplainPrimes DEF ExplainInv, PlainInv, IntactInv
  <1>4. RoomInv'
    BY <1>1, <1>2 DEF ExplainInv, RoomInv
  <1>5. AbortInv'
    BY <1>1, <1>2, ExplainPrimes DEF ExplainInv, AbortInv
  <1> QED
    BY <1>3, <1>4, <1>5 DEF ExplainInv

\* What explains a failed call is kept by every step.
LEMMA ExplainStep ==
  ASSUME IndInv, RootInv, RootInv', FreshInv, ExplainInv, [Next]_vars
  PROVE  ExplainInv'
  <1>1. TypeInv
    BY DEF IndInv
  <1>2. CASE \E t \in Tuples : btree_insert(t[1], t[2])
    BY <1>1, <1>2, ExplainCall
  <1>3. CASE refuse \/ follow \/ leaf_has_room \/ leaf_is_full
    BY <1>3, ExplainRefuse, ExplainFollow, ExplainRoom, ExplainFull
  <1>4. CASE mark_room \/ mark_full \/ top_has_room \/ split_root
    BY <1>4, ExplainMarkRoom, ExplainMarkFull, ExplainTop, ExplainNew
  <1>5. CASE write_internal \/ write_leaf \/ insert_tuple
    BY <1>5, ExplainWrite, ExplainWriteLeaf, ExplainInsert
  <1>6. CASE UNCHANGED vars
    BY <1>6, ExplainStutter
  <1> QED
    BY <1>2, <1>3, <1>4, <1>5, <1>6 DEF Next

\* At first no call is under way.
LEMMA FreshInit == Init => FreshInv
  BY DEF Init, FreshInv

\* Marking goes up from breadcrumb to breadcrumb.
LEMMA FreshMarked ==
  ASSUME TypeInv, FreshInv, pc \in {"descend", "propagate"}, NEW b \in 1 .. Len(breadcrumbs),
         pc = "propagate" => b = bc_idx, NEW bc,
         breadcrumbs' = [breadcrumbs EXCEPT ![b] = bc], bc_idx' = b - 1, pc' = "propagate"
  PROVE  FreshInv'
  <1>1. breadcrumbs \in Seq(CrumbType) /\ Len(breadcrumbs) \in Nat /\ b \in Nat
    BY DEF TypeInv
  <1>2. /\ Len(breadcrumbs') = Len(breadcrumbs)
        /\ \A i \in 1 .. Len(breadcrumbs) : i # b => breadcrumbs'[i] = breadcrumbs[i]
    BY <1>1
  <1>3. ASSUME NEW i \in 1 .. Len(breadcrumbs'), i <= b - 1
        PROVE  breadcrumbs'[i].f_node = NULL
    <2>1. i \in 1 .. Len(breadcrumbs) /\ i # b /\ i <= b
      BY <1>1, <1>2, <1>3
    <2> QED
      BY <1>2, <2>1 DEF FreshInv
  <1> QED
    BY <1>3 DEF FreshInv

\* Every step leaves the breadcrumbs above the marked ones as they were made.
LEMMA FreshStep ==
  ASSUME IndInv, FreshInv, [Next]_vars
  PROVE  FreshInv'
  <1>1. PICK h : Shape(h)
    BY DEF IndInv
  <1>2. TypeInv
    BY DEF IndInv
  <1>3. \A p : Crumb(p).f_node = NULL
    BY DEF Crumb
  <1>4. ASSUME pc' \in {"abort", "wild", "write"} PROVE FreshInv'
    BY <1>4 DEF FreshInv
  <1>5. ASSUME return PROVE FreshInv'
    BY <1>5 DEF FreshInv, return
  <1>6. CASE \E t \in Tuples : btree_insert(t[1], t[2])
    <2>1. /\ pc = "idle" /\ pc' = "descend" /\ bc_idx' = bc_idx
          /\ breadcrumbs' = <<Crumb(root)>>
      BY <1>6 DEF btree_insert
    <2>2. \A i \in 1 .. Len(breadcrumbs') : breadcrumbs'[i].f_node = NULL
      <3> DEFINE c == Crumb(root)
      <3>1. c.f_node = NULL /\ breadcrumbs' = <<c>>
        BY <1>3, <2>1
      <3> HIDE DEF c
      <3> QED
        BY <3>1
    <2> QED
      BY <2>1, <2>2 DEF FreshInv
  <1>7. CASE refuse
    BY <1>5, <1>7 DEF refuse
  <1>8. CASE follow
    <2> DEFINE child == child_at(here, node_bin_search(here, key).idx)
               c == Crumb(child)
    <2>1. pc = "descend" /\
          \/ stop("abort")
          \/ breadcrumbs' = Append(breadcrumbs, c) /\ UNCHANGED <<pc, bc_idx>>
      BY <1>8 DEF follow
    <2>2. CASE stop("abort")
      BY <1>4, <2>2 DEF stop
    <2>3. CASE breadcrumbs' = Append(breadcrumbs, c) /\ UNCHANGED <<pc, bc_idx>>
      <3>1. c.f_node = NULL
        BY <1>3
      <3>2. breadcrumbs \in Seq(CrumbType)
        BY <1>2 DEF TypeInv
      <3> HIDE DEF c
      <3>3. \A i \in 1 .. Len(breadcrumbs') : breadcrumbs'[i].f_node = NULL
        BY <2>1, <2>3, <3>1, <3>2 DEF FreshInv
      <3> QED
        BY <2>1, <2>3, <3>3 DEF FreshInv
    <2> QED
      BY <2>1, <2>2, <2>3
  <1>9. CASE leaf_has_room
    BY <1>9 DEF leaf_has_room, FreshInv
  <1>10. CASE leaf_is_full
    <2> DEFINE L == Len(breadcrumbs)
    <2>1. L \in 1 .. L /\ pc = "descend"
      BY <1>1, <1>2, <1>10, PathFacts DEF leaf_is_full
    <2>2. \/ stop("abort")
          \/ /\ pc' = "propagate" /\ bc_idx' = L - 1
             /\ \E bc : breadcrumbs' = [breadcrumbs EXCEPT ![L] = bc]
      BY <1>10, Zenon DEF leaf_is_full
    <2> QED
      BY <1>2, <1>4, <2>1, <2>2, FreshMarked DEF stop
  <1>11. CASE mark_room
    <2>1. bc_idx \in 1 .. Len(breadcrumbs) /\ pc = "propagate"
      BY <1>1, <1>2, <1>11, UpFacts DEF mark_room
    <2>2. /\ pc' = "propagate" /\ bc_idx' = bc_idx - 1
          /\ \E bc : breadcrumbs' = [breadcrumbs EXCEPT ![bc_idx] = bc]
      BY <1>11, Zenon DEF mark_room
    <2> QED
      BY <1>2, <2>1, <2>2, FreshMarked
  <1>12. CASE mark_full
    <2>1. bc_idx \in 1 .. Len(breadcrumbs) /\ pc = "propagate"
      BY <1>1, <1>2, <1>12, UpFacts DEF mark_full
    <2>2. \/ pc' \in {"abort", "wild"}
          \/ /\ pc' = "propagate" /\ bc_idx' = bc_idx - 1
             /\ \E bc : breadcrumbs' = [breadcrumbs EXCEPT ![bc_idx] = bc]
      <3> DEFINE n == nodes[breadcrumbs[bc_idx].node]
      <3>1. CASE node_partition_idx(n) + 1 >= Len(n.cells)
        BY <1>12, <3>1 DEF mark_full, stop
      <3>2. CASE ~(node_partition_idx(n) + 1 >= Len(n.cells))
        BY <1>12, <3>2, Zenon DEF mark_full
      <3> QED
        BY <3>1, <3>2
    <2> QED
      BY <1>2, <1>4, <2>1, <2>2, FreshMarked
  <1>13. CASE top_has_room \/ split_root
    BY <1>4, <1>13 DEF top_has_room, split_root
  <1>14. CASE write_internal
    <2>1. pc' \in {"abort", "write"}
      BY <1>14 DEF write_internal, stop
    <2> QED
      BY <1>4, <2>1
  <1>15. CASE write_leaf
    <2>1. /\ pc = "write" /\ nodes[breadcrumbs[bc_idx].node].leaf /\ pc' = "insert"
          /\ breadcrumbs' = breadcrumbs /\ bc_idx' = bc_idx
      BY <1>15 DEF write_leaf
    <2>2. bc_idx = Len(breadcrumbs)
      BY <1>1, <1>2, <2>1, WriteFacts
    <2> QED
      BY <2>1, <2>2 DEF FreshInv
  <1>16. CASE insert_tuple
    BY <1>4, <1>5, <1>16 DEF insert_tuple, stop
  <1>17. CASE UNCHANGED vars
    BY <1>17 DEF vars, FreshInv
  <1> QED
    BY <1>6, <1>7, <1>8, <1>9, <1>10, <1>11, <1>12, <1>13, <1>14, <1>15,
       <1>16, <1>17 DEF Next

\* On a tree of at most two levels a call of btree_insert never fails an assertion
\* on its way down, nor while it writes the separators of the halves, whatever keys
\* came twice and whatever the sizes: every key has a child to follow, and a root
\* that was found to have room has it where node_get_free_offset looks.
THEOREM PathIsSafe == Spec => []PathNeverFails
  <1>1. IndInv /\ FreshInv /\ [Next]_vars => FreshInv'
    BY FreshStep
  <1>2. IndInv /\ SoundInv /\ SoundInv' /\ FreshInv /\ ExplainInv /\ [Next]_vars
          => ExplainInv'
    BY ExplainStep DEF SoundInv
  <1>3. ASSUME IndInv, SoundInv, ExplainInv PROVE PathNeverFails
    <2> SUFFICES ASSUME pc = "abort", TwoLevels PROVE here.leaf /\ ~LinkFailed
      BY DEF PathNeverFails
    <2>1. PICK h : Shape(h)
      BY <1>3 DEF IndInv
    <2>2. RootLow
      BY <1>3, <2>1, TwoLevelsLow DEF IndInv, SoundInv
    <2> QED
      BY <1>3, <2>2 DEF ExplainInv, AbortInv
  <1> QED
    BY <1>1, <1>2, <1>3, FreshInit, ExplainInit, Inductive, SmallTrees, PTL DEF Spec
=============================================================================
