----------------------------- MODULE PageProofs -----------------------------
(***************************************************************************)
(* Proofs about the operators of module Page, for any keys and any page:   *)
(* what key_compare compares is a strict order of the keys, on cells in    *)
(* that order the loop of node_bin_search finds what is there, and what    *)
(* taking room for a cell and inserting it does to the page.               *)
(***************************************************************************)
EXTENDS Page, Arithmetic, FiniteSetTheorems

-----------------------------------------------------------------------------
(* The order of keys *)

Key == Seq(Nat)

\* Min is the least element.
LEMMA MinIsLeast ==
  ASSUME NEW S, S \subseteq Nat, S # {}
  PROVE  Min(S) \in S /\ \A y \in S : Min(S) <= y
  <1>1. \E x \in S : \A y \in S : x <= y
    BY LeastNat
  <1> QED
    BY <1>1 DEF Min

\* The smaller of two lengths.
LEMMA MinOfTwo ==
  ASSUME NEW x \in Nat, NEW y \in Nat
  PROVE  Min({x, y}) = IF x <= y THEN x ELSE y
  <1>1. Min({x, y}) \in {x, y} /\ \A z \in {x, y} : Min({x, y}) <= z
    BY MinIsLeast
  <1> QED
    BY <1>1

\* The order is strict and transitive.
LEMMA BeforeIrreflexive ==
  ASSUME NEW a \in Key
  PROVE  ~Before(a, a)
  BY DEF Before, Key

\* The order of keys is transitive, with prefixes after the longer key.
LEMMA BeforeTransitive ==
  ASSUME NEW a \in Key, NEW b \in Key, NEW c \in Key, Before(a, b), Before(b, c)
  PROVE  Before(a, c)
  <1>0. /\ DOMAIN a = 1 .. Len(a) /\ DOMAIN b = 1 .. Len(b)
        /\ DOMAIN c = 1 .. Len(c)
    BY DEF Key
  <1>1. PICK i \in 1 .. Len(a) :
          /\ \A l \in 1 .. i - 1 : l <= Len(b) /\ a[l] = b[l]
          /\ i > Len(b) \/ a[i] < b[i]
    BY <1>0, Zenon DEF Before
  <1>2. PICK j \in 1 .. Len(b) :
          /\ \A l \in 1 .. j - 1 : l <= Len(c) /\ b[l] = c[l]
          /\ j > Len(c) \/ b[j] < c[j]
    BY <1>0, Zenon DEF Before
  <1>3. Len(a) \in Nat /\ Len(b) \in Nat /\ Len(c) \in Nat
    BY DEF Key
  <1>4. /\ \A l \in 1 .. Len(a) : a[l] \in Nat
        /\ \A l \in 1 .. Len(b) : b[l] \in Nat
        /\ \A l \in 1 .. Len(c) : c[l] \in Nat
    BY DEF Key
  <1>5. SUFFICES \E k \in 1 .. Len(a) :
                   /\ \A l \in 1 .. k - 1 : l <= Len(c) /\ a[l] = c[l]
                   /\ k > Len(c) \/ a[k] < c[k]
    BY <1>0, Zenon DEF Before
  <1>6. CASE i < j
    <2>1. \A l \in 1 .. i - 1 : l <= Len(c) /\ a[l] = c[l]
      BY <1>1, <1>2, <1>3, <1>6
    <2>2. i <= Len(b) /\ i <= Len(c) /\ b[i] = c[i]
      BY <1>2, <1>3, <1>6
    <2> QED
      BY <1>1, <1>3, <2>1, <2>2
  <1>7. CASE i = j
    <2>1. \A l \in 1 .. i - 1 : l <= Len(c) /\ a[l] = c[l]
      BY <1>1, <1>2, <1>3, <1>7
    <2>2. i > Len(c) \/ a[i] < c[i]
      <3>1. a[i] < b[i]
        BY <1>1, <1>2, <1>3, <1>7
      <3>2. CASE i <= Len(c)
        BY <1>2, <1>3, <1>4, <1>7, <3>1, <3>2
      <3> QED
        BY <1>3, <3>2
    <2> QED
      BY <2>1, <2>2
  <1>8. CASE i > j
    <2>1. j \in 1 .. Len(a) /\ a[j] = b[j]
      BY <1>1, <1>2, <1>3, <1>8
    <2>2. \A l \in 1 .. j - 1 : l <= Len(c) /\ a[l] = c[l]
      BY <1>1, <1>2, <1>3, <1>8
    <2> QED
      BY <1>2, <2>1, <2>2
  <1> QED
    BY <1>6, <1>7, <1>8

\* Of two keys at most one is before the other.
LEMMA BeforeAsymmetric ==
  ASSUME NEW a \in Key, NEW b \in Key, Before(a, b)
  PROVE  ~Before(b, a) /\ a # b
  BY BeforeIrreflexive, BeforeTransitive

\* The sign of key_compare tells equal keys and, of different ones, the first.
LEMMA CompareDecides ==
  ASSUME NEW a \in Key, NEW b \in Key
  PROVE  /\ key_compare(a, b) \in Int
         /\ key_compare(a, b) = 0 => a = b
         /\ key_compare(a, b) > 0 => Before(b, a)
         /\ key_compare(a, b) < 0 => Before(a, b)
  <1> DEFINE m == Min({Len(a), Len(b)})
             differ == {i \in 1 .. m : a[i] # b[i]}
  <1>1. Len(a) \in Nat /\ Len(b) \in Nat
    BY DEF Key
  <1>2. m = IF Len(a) <= Len(b) THEN Len(a) ELSE Len(b)
    BY <1>1, MinOfTwo
  <1>3. /\ \A i \in 1 .. Len(a) : a[i] \in Nat
        /\ \A i \in 1 .. Len(b) : b[i] \in Nat
    BY DEF Key
  <1>4. CASE differ = {}
    <2>1. key_compare(a, b) = Len(b) - Len(a)
      BY <1>4 DEF key_compare
    <2>2. \A i \in 1 .. m : a[i] = b[i]
      BY <1>4
    <2> HIDE DEF m
    <2>3. CASE Len(b) = Len(a)
      <3>1. a = b
        BY <1>1, <1>2, <2>2, <2>3 DEF Key
      <3> QED
        BY <1>1, <2>1, <2>3, <3>1
    <2>4. CASE Len(b) > Len(a)
      <3>1. Len(a) + 1 \in 1 .. Len(b)
        BY <1>1, <2>4
      <3>2. \A j \in 1 .. (Len(a) + 1) - 1 : j <= Len(a) /\ b[j] = a[j]
        BY <1>1, <1>2, <2>2, <2>4
      <3>3. Before(b, a)
        BY <1>1, <3>1, <3>2 DEF Before, Key
      <3> QED
        BY <1>1, <2>1, <2>4, <3>3
    <2>5. CASE Len(b) < Len(a)
      <3>1. Len(b) + 1 \in 1 .. Len(a)
        BY <1>1, <2>5
      <3>2. \A j \in 1 .. (Len(b) + 1) - 1 : j <= Len(b) /\ a[j] = b[j]
        BY <1>1, <1>2, <2>2, <2>5
      <3>3. Before(a, b)
        BY <1>1, <3>1, <3>2 DEF Before, Key
      <3> QED
        BY <1>1, <2>1, <2>5, <3>3
    <2> QED
      BY <1>1, <2>3, <2>4, <2>5
  <1>5. CASE differ # {}
    <2> DEFINE f == Min(differ)
    <2>1. f \in differ /\ \A i \in differ : f <= i
      <3>1. differ \subseteq Nat
        BY <1>1, <1>2
      <3> HIDE DEF differ
      <3> QED
        BY <1>5, <3>1, MinIsLeast
    <2>2. key_compare(a, b) = a[f] - b[f]
      BY <1>5 DEF key_compare
    <2>3. f \in 1 .. Len(a) /\ f \in 1 .. Len(b) /\ a[f] # b[f]
      BY <1>1, <1>2, <2>1
    <2>4. \A j \in 1 .. f - 1 : j <= Len(a) /\ j <= Len(b) /\ a[j] = b[j]
      <3>1. SUFFICES ASSUME NEW j \in 1 .. f - 1
                     PROVE  j <= Len(a) /\ j <= Len(b) /\ a[j] = b[j]
        OBVIOUS
      <3>2. j \in 1 .. m
        BY <1>1, <1>2, <2>3
      <3>3. j \notin differ
        <4> HIDE DEF differ, f
        <4>1. ~(f <= j)
          BY <1>1, <2>3
        <4> QED
          BY <2>1, <4>1
      <3> QED
        BY <1>1, <2>3, <3>2, <3>3
    <2> HIDE DEF f, m, differ
    <2>5. a[f] \in Nat /\ b[f] \in Nat
      BY <1>3, <2>3
    <2>6. a[f] > b[f] => Before(b, a)
      BY <2>3, <2>4 DEF Before, Key
    <2>7. a[f] < b[f] => Before(a, b)
      BY <2>3, <2>4 DEF Before, Key
    <2> QED
      BY <2>2, <2>3, <2>5, <2>6, <2>7
  <1> QED
    BY <1>4, <1>5

\* The order is total.
LEMMA BeforeTotal ==
  ASSUME NEW a \in Key, NEW b \in Key
  PROVE  a = b \/ Before(a, b) \/ Before(b, a)
  <1>1. key_compare(a, b) \in Int
    BY CompareDecides
  <1> QED
    BY <1>1, CompareDecides

\* What is before a key is before all that are not before that key.
LEMMA BeforeThenNot ==
  ASSUME NEW a \in Key, NEW b \in Key, NEW c \in Key, Before(a, b), ~Before(c, b)
  PROVE  Before(a, c)
  BY BeforeTotal, BeforeTransitive

\* What no key is after is before all that are after that key.
LEMMA NotThenBefore ==
  ASSUME NEW a \in Key, NEW b \in Key, NEW c \in Key, ~Before(b, a), Before(b, c)
  PROVE  Before(a, c)
  BY BeforeTotal, BeforeTransitive

-----------------------------------------------------------------------------
(* The loop *)

start(n) == [low |-> 0, high |-> Len(n.cells), found |-> FALSE]

\* h holds the state of the loop up to turn k.
TurnsOf(h, n, key, k) ==
  \A i \in 0 .. k : h[i] = IF i = 0 THEN start(n)
                           ELSE search_turn(n, key, h[i - 1])

\* The loop can be followed for any number of turns.
LEMMA TurnsExist ==
  ASSUME NEW n, NEW key, NEW m \in Nat
  PROVE  \E h : TurnsOf(h, n, key, m)
  <1> DEFINE T == {k \in Nat : ~ \E h : TurnsOf(h, n, key, k)}
  <1>1. SUFFICES ASSUME T # {} PROVE FALSE
    OBVIOUS
  <1>2. PICK k \in T : \A l \in T : k <= l
    BY <1>1, LeastNat
  <1>3. CASE k = 0
    <2>1. TurnsOf([i \in {0} |-> start(n)], n, key, 0)
      BY DEF TurnsOf
    <2> QED
      BY <1>3, <2>1
  <1>4. CASE k # 0
    <2>1. k - 1 \in Nat /\ k - 1 \notin T
      BY <1>2, <1>4
    <2>2. PICK h : TurnsOf(h, n, key, k - 1)
      BY <2>1
    <2> DEFINE g == [i \in 0 .. k |-> IF i = k THEN search_turn(n, key, h[k - 1])
                                     ELSE h[i]]
    <2>3. ASSUME NEW i \in 0 .. k
          PROVE  g[i] = IF i = 0 THEN start(n) ELSE search_turn(n, key, g[i - 1])
      <3>1. CASE i = k
        BY <1>4, <2>1, <3>1
      <3>2. CASE i # k
        BY <2>1, <2>2, <3>2 DEF TurnsOf
      <3> QED
        BY <3>1, <3>2
    <2>4. TurnsOf(g, n, key, k)
      BY <2>3 DEF TurnsOf
    <2> QED
      BY <2>4
  <1> QED
    BY <1>3, <1>4

\* There is one way to follow it.
LEMMA TurnsUnique ==
  ASSUME NEW n, NEW key, NEW g, NEW h, NEW m \in Nat, NEW l \in Nat,
         TurnsOf(g, n, key, m), TurnsOf(h, n, key, l),
         NEW i \in Nat, i <= m, i <= l
  PROVE  g[i] = h[i]
  <1> DEFINE T == {k \in Nat : k <= m /\ k <= l /\ g[k] # h[k]}
  <1>1. SUFFICES ASSUME T # {} PROVE FALSE
    OBVIOUS
  <1>2. PICK k \in T : \A j \in T : k <= j
    BY <1>1, LeastNat
  <1>3. CASE k = 0
    BY <1>3 DEF TurnsOf
  <1>4. CASE k # 0
    <2>1. k - 1 \in Nat /\ k - 1 \notin T
      BY <1>2, <1>4
    <2>2. g[k - 1] = h[k - 1]
      BY <2>1
    <2>3. /\ g[k] = search_turn(n, key, g[k - 1])
          /\ h[k] = search_turn(n, key, h[k - 1])
      BY <1>4 DEF TurnsOf
    <2> QED
      BY <2>2, <2>3
  <1> QED
    BY <1>3, <1>4

\* The recursive definition of the loop has a solution.
LEMMA LoopSolvable ==
  ASSUME NEW n, NEW key
  PROVE  \E f : f = [i \in Nat |-> IF i = 0 THEN start(n)
                                   ELSE search_turn(n, key, f[i - 1])]
  <1> DEFINE H(k) == CHOOSE h : TurnsOf(h, n, key, k)
             s == [k \in Nat |-> H(k)[k]]
  <1>1. ASSUME NEW k \in Nat PROVE TurnsOf(H(k), n, key, k)
    BY TurnsExist
  <1> HIDE DEF H
  <1>2. ASSUME NEW k \in Nat
        PROVE  s[k] = IF k = 0 THEN start(n) ELSE search_turn(n, key, s[k - 1])
    <2>1. CASE k = 0
      BY <1>1, <2>1 DEF TurnsOf
    <2>2. CASE k # 0
      <3>1. k - 1 \in Nat /\ k - 1 <= k
        BY <2>2
      <3>2. H(k)[k - 1] = H(k - 1)[k - 1]
        BY <1>1, <3>1, TurnsUnique
      <3>3. H(k)[k] = search_turn(n, key, H(k)[k - 1])
        BY <1>1, <2>2 DEF TurnsOf
      <3> QED
        BY <2>2, <3>1, <3>2, <3>3
    <2> QED
      BY <2>1, <2>2
  <1>3. s = [i \in Nat |-> IF i = 0 THEN start(n)
                          ELSE search_turn(n, key, s[i - 1])]
    BY <1>2
  <1> QED
    BY <1>3

\* node_bin_search returns the state after as many turns as there are cells.
LEMMA SearchIsLoop ==
  ASSUME NEW n, NEW key
  PROVE  \E f : /\ f[0] = start(n)
                /\ \A i \in Nat : f[i + 1] = search_turn(n, key, f[i])
                /\ node_bin_search(n, key) =
                     [found |-> f[Len(n.cells)].found, idx |-> f[Len(n.cells)].low]
  <1> DEFINE P(f) == f = [i \in Nat |-> IF i = 0 THEN start(n)
                                        ELSE search_turn(n, key, f[i - 1])]
             F == CHOOSE f : P(f)
  <1>1. P(F)
    BY LoopSolvable
  <1>2. node_bin_search(n, key) =
          [found |-> F[Len(n.cells)].found, idx |-> F[Len(n.cells)].low]
    BY DEF node_bin_search, start
  <1>3. \A i \in Nat : F[i] = IF i = 0 THEN start(n)
                              ELSE search_turn(n, key, F[i - 1])
    BY <1>1
  <1> HIDE DEF F
  <1>4. ASSUME NEW i \in Nat PROVE i + 1 \in Nat /\ i + 1 # 0 /\ (i + 1) - 1 = i
    OBVIOUS
  <1>5. F[0] = start(n) /\ \A i \in Nat : F[i + 1] = search_turn(n, key, F[i])
    BY <1>3, <1>4
  <1> QED
    BY <1>2, <1>5

-----------------------------------------------------------------------------
(* What it finds *)

CellType == [off : Int, key : Key, value_size : Nat, child : Nat]

\* Cells in order, with no key twice, and with keys that may come again.
Sorted(cells) ==
  \A i, j \in 1 .. Len(cells) : i < j => Before(cells[i].key, cells[j].key)

Ordered(cells) ==
  \A i, j \in 1 .. Len(cells) : i < j => ~Before(cells[j].key, cells[i].key)

\* The first are the second.
LEMMA SortedOrdered ==
  ASSUME NEW s \in Seq(CellType), Sorted(s)
  PROVE  Ordered(s)
  <1>1. \A i \in 1 .. Len(s) : s[i] \in CellType
    OBVIOUS
  <1>2. \A i \in 1 .. Len(s) : s[i].key \in Key
    BY <1>1 DEF CellType
  <1> QED
    BY <1>2, BeforeAsymmetric DEF Sorted, Ordered

\* The key is found, or its place is between low and high.
Narrowed(n, key, s) ==
  /\ s \in [low : Nat, high : Nat, found : BOOLEAN]
  /\ s.high <= Len(n.cells)
  /\ s.found => s.low < Len(n.cells) /\ n.cells[s.low + 1].key = key
  /\ ~s.found => /\ s.low <= s.high
                 /\ \A i \in 1 .. s.low : Before(n.cells[i].key, key)
                 /\ \A i \in s.high + 1 .. Len(n.cells) :
                      Before(key, n.cells[i].key)

\* A turn keeps that and narrows the range.
LEMMA TurnNarrows ==
  ASSUME NEW n, n.cells \in Seq(CellType), Ordered(n.cells), NEW key \in Key,
         NEW s, Narrowed(n, key, s)
  PROVE  LET t == search_turn(n, key, s) IN
         /\ Narrowed(n, key, t)
         /\ \/ t.found
            \/ t.low >= t.high
            \/ ~s.found /\ t.high - t.low < s.high - s.low
  <1> DEFINE t == search_turn(n, key, s)
             N == Len(n.cells)
             mid == (s.low + s.high) \div 2
             ck == n.cells[mid + 1].key
             cmp == key_compare(ck, key)
  <1>1. N \in Nat /\ s.low \in Nat /\ s.high \in Nat /\ s.found \in BOOLEAN
        /\ s.high <= N
    BY DEF Narrowed
  <1>2. CASE s.found \/ s.low >= s.high
    <2>1. t = s
      BY <1>2 DEF search_turn
    <2> QED
      BY <1>2, <2>1
  <1>3. CASE ~s.found /\ s.low < s.high
    <2>1. mid \in Nat /\ s.low <= mid /\ mid < s.high
      BY <1>1, <1>3
    <2>2. mid + 1 \in 1 .. N
      BY <1>1, <2>1
    <2> HIDE DEF mid
    <2>5. \A i \in 1 .. N : n.cells[i].key \in Key
      <3>1. \A i \in 1 .. N : n.cells[i] \in CellType
        OBVIOUS
      <3> QED
        BY <3>1 DEF CellType
    <2>3. ck \in Key
      BY <2>2, <2>5
    <2>4. /\ cmp \in Int
          /\ cmp = 0 => ck = key
          /\ cmp > 0 => Before(key, ck)
          /\ cmp < 0 => Before(ck, key)
      BY <2>3, CompareDecides
    <2>6. /\ \A i \in 1 .. s.low : Before(n.cells[i].key, key)
          /\ \A i \in s.high + 1 .. N : Before(key, n.cells[i].key)
      BY <1>3 DEF Narrowed
    <2>7. /\ cmp = 0 => t = [s EXCEPT !.found = TRUE, !.low = mid]
          /\ cmp > 0 => t = [s EXCEPT !.high = mid]
          /\ cmp < 0 => t = [s EXCEPT !.low = mid + 1]
      <3>1. t = CASE cmp = 0 -> [s EXCEPT !.found = TRUE, !.low = mid]
                  [] cmp > 0 -> [s EXCEPT !.high = mid]
                  [] cmp < 0 -> [s EXCEPT !.low = mid + 1]
        <4>1. ~(s.found \/ s.low >= s.high)
          BY <1>1, <1>3
        <4> QED
          BY <4>1, Zenon DEF search_turn, mid
      <3> HIDE DEF t, cmp
      <3> QED
        BY <2>4, <3>1
    <2> HIDE DEF t, cmp
    <2>8. CASE cmp = 0
      <3>1. t = [s EXCEPT !.found = TRUE, !.low = mid]
        BY <2>7, <2>8
      <3>2. t.found = TRUE /\ t.low = mid /\ t.high = s.high
            /\ t \in [low : Nat, high : Nat, found : BOOLEAN]
        BY <2>1, <3>1 DEF Narrowed
      <3> QED
        BY <1>1, <2>1, <2>2, <2>4, <2>8, <3>2 DEF Narrowed, t
    <2>9. CASE cmp > 0
      <3>1. t = [s EXCEPT !.high = mid]
        BY <2>4, <2>7, <2>9
      <3>2. t.found = FALSE /\ t.low = s.low /\ t.high = mid
            /\ t \in [low : Nat, high : Nat, found : BOOLEAN]
        BY <1>3, <2>1, <3>1 DEF Narrowed
      <3>3. ASSUME NEW i \in mid + 1 .. N
            PROVE  Before(key, n.cells[i].key)
        <4>1. CASE i = mid + 1
          BY <2>4, <2>9, <4>1
        <4>2. CASE i # mid + 1
          <5>1. ~Before(n.cells[i].key, ck)
            BY <1>1, <2>1, <2>2, <4>2 DEF Ordered
          <5>2. n.cells[i].key \in Key
            BY <1>1, <2>1, <2>5
          <5> QED
            BY <2>3, <2>4, <2>9, <5>1, <5>2, BeforeThenNot
        <4> QED
          BY <4>1, <4>2
      <3>4. Narrowed(n, key, t)
        BY <1>1, <2>1, <2>6, <3>2, <3>3 DEF Narrowed
      <3> QED
        BY <1>1, <1>3, <2>1, <3>2, <3>4 DEF t
    <2>10. CASE cmp < 0
      <3>1. t = [s EXCEPT !.low = mid + 1]
        BY <2>4, <2>7, <2>10
      <3>2. t.found = FALSE /\ t.low = mid + 1 /\ t.high = s.high
            /\ t \in [low : Nat, high : Nat, found : BOOLEAN]
        BY <1>3, <2>1, <3>1 DEF Narrowed
      <3>3. ASSUME NEW i \in 1 .. mid + 1
            PROVE  Before(n.cells[i].key, key)
        <4>1. CASE i = mid + 1
          BY <2>4, <2>10, <4>1
        <4>2. CASE i # mid + 1
          <5>1. ~Before(ck, n.cells[i].key)
            BY <1>1, <2>1, <2>2, <4>2 DEF Ordered
          <5>2. n.cells[i].key \in Key
            BY <1>1, <2>1, <2>2, <2>5
          <5> QED
            BY <2>3, <2>4, <2>10, <5>1, <5>2, NotThenBefore
        <4> QED
          BY <4>1, <4>2
      <3>4. Narrowed(n, key, t)
        BY <1>1, <2>1, <2>6, <3>2, <3>3 DEF Narrowed
      <3> QED
        BY <1>1, <1>3, <2>1, <3>2, <3>4 DEF t
    <2> QED
      BY <2>4, <2>8, <2>9, <2>10
  <1> QED
    BY <1>1, <1>2, <1>3

\* The result of a search: the place of the key, or the one place for it.
Placed(cells, key, at) ==
  /\ at.found \in BOOLEAN /\ at.idx \in 0 .. Len(cells)
  /\ at.found => at.idx < Len(cells) /\ cells[at.idx + 1].key = key
  /\ ~at.found => /\ \A i \in 1 .. at.idx : Before(cells[i].key, key)
                  /\ \A i \in at.idx + 1 .. Len(cells) : Before(key, cells[i].key)

\* node_bin_search finds it on every page whose cells are in order.
LEMMA SearchPlaces ==
  ASSUME NEW n, n.cells \in Seq(CellType), Ordered(n.cells), NEW key \in Key
  PROVE  Placed(n.cells, key, node_bin_search(n, key))
  <1> DEFINE N == Len(n.cells)
  <1>1. N \in Nat
    OBVIOUS
  <1>2. PICK f : /\ f[0] = start(n)
                 /\ \A i \in Nat : f[i + 1] = search_turn(n, key, f[i])
                 /\ node_bin_search(n, key) = [found |-> f[N].found, idx |-> f[N].low]
    BY SearchIsLoop
  <1> DEFINE Good(k) == /\ Narrowed(n, key, f[k])
                        /\ \/ f[k].found
                           \/ f[k].low >= f[k].high
                           \/ f[k].high - f[k].low <= N - k
             T == {k \in Nat : ~Good(k)}
  <1>3. Good(0)
    BY <1>1, <1>2 DEF start, Narrowed
  <1>4. ASSUME NEW k \in Nat, Good(k)
        PROVE  Good(k + 1)
    <2>1. /\ Narrowed(n, key, f[k + 1])
          /\ \/ f[k + 1].found
             \/ f[k + 1].low >= f[k + 1].high
             \/ ~f[k].found /\ f[k + 1].high - f[k + 1].low < f[k].high - f[k].low
      BY <1>2, <1>4, TurnNarrows, SMTT(30)
    <2>2. /\ f[k].low \in Nat /\ f[k].high \in Nat
          /\ f[k + 1].low \in Nat /\ f[k + 1].high \in Nat
      BY <1>4, <2>1 DEF Narrowed
    <2>3. CASE ~f[k].found /\ f[k + 1].high - f[k + 1].low < f[k].high - f[k].low
      <3>1. \/ f[k].low >= f[k].high
            \/ f[k].high - f[k].low <= N - k
        BY <1>4, <2>3
      <3>2. \/ f[k + 1].low >= f[k + 1].high
            \/ f[k + 1].high - f[k + 1].low <= N - (k + 1)
        <4> DEFINE a == f[k].low
                   b == f[k].high
                   c == f[k + 1].low
                   d == f[k + 1].high
        <4>1. /\ a \in Int /\ b \in Int /\ c \in Int /\ d \in Int
              /\ d - c < b - a
              /\ a >= b \/ b - a <= N - k
          BY <2>2, <2>3, <3>1
        <4> HIDE DEF a, b, c, d
        <4>2. c >= d \/ d - c <= N - (k + 1)
          BY <1>1, <4>1
        <4> QED
          BY <4>2 DEF c, d
      <3> QED
        BY <2>1, <3>2
    <2> QED
      BY <2>1, <2>3
  <1> HIDE DEF Good
  <1>5. T = {}
    <2>1. SUFFICES ASSUME T # {} PROVE FALSE
      OBVIOUS
    <2>2. PICK k \in T : \A l \in T : k <= l
      BY <2>1, LeastNat
    <2>3. k # 0
      BY <1>3
    <2>4. k - 1 \in Nat /\ k - 1 \notin T /\ (k - 1) + 1 = k
      BY <2>2, <2>3
    <2> QED
      BY <1>4, <2>4
  <1>6. Good(N)
    BY <1>1, <1>5
  <1> DEFINE s == f[N]
  <1>7. /\ Narrowed(n, key, s)
        /\ s.low \in Nat /\ s.high \in Nat /\ s.found \in BOOLEAN
        /\ s.found \/ s.low >= s.high
    BY <1>1, <1>6 DEF Good, Narrowed
  <1> HIDE DEF s
  <1> DEFINE at == node_bin_search(n, key)
  <1>8. at.found = s.found /\ at.idx = s.low
    BY <1>2 DEF s
  <1> HIDE DEF at
  <1>9. Placed(n.cells, key, at)
    <2>1. CASE s.found
      BY <1>1, <1>7, <1>8, <2>1 DEF Narrowed, Placed
    <2>2. CASE ~s.found
      <3>1. s.low = s.high
        BY <1>7, <2>2 DEF Narrowed
      <3> QED
        BY <1>1, <1>7, <1>8, <2>2, <3>1 DEF Narrowed, Placed
    <2> QED
      BY <2>1, <2>2
  <1> QED
    BY <1>9 DEF at

-----------------------------------------------------------------------------
(* Sequences *)

\* The elements of a concatenation.
LEMMA Concatenated ==
  ASSUME NEW S, NEW s \in Seq(S), NEW t \in Seq(S)
  PROVE  /\ s \o t \in Seq(S) /\ Len(s \o t) = Len(s) + Len(t)
         /\ \A i \in 1 .. Len(s) : (s \o t)[i] = s[i]
         /\ \A i \in Len(s) + 1 .. Len(s) + Len(t) : (s \o t)[i] = t[i - Len(s)]
  OBVIOUS

\* An element comes in at place p, and those from p on move up.
LEMMA Inserted ==
  ASSUME NEW S, NEW s \in Seq(S), NEW p \in 1 .. Len(s) + 1, NEW e \in S
  PROVE  LET t == InsertAt(s, p, e) IN
         /\ t \in Seq(S)
         /\ Len(t) = Len(s) + 1
         /\ t[p] = e
         /\ \A i \in 1 .. p - 1 : t[i] = s[i]
         /\ \A i \in p + 1 .. Len(s) + 1 : t[i] = s[i - 1]
  <1> DEFINE n == Len(s)
             a == SubSeq(s, 1, p - 1)
             b == SubSeq(s, p, n)
             c == a \o <<e>>
             t == c \o b
  <1>1. n \in Nat /\ p \in 1 .. n + 1
    OBVIOUS
  <1>2. a \in Seq(S) /\ Len(a) = p - 1 /\ \A i \in 1 .. p - 1 : a[i] = s[i]
    OBVIOUS
  <1>3. /\ b \in Seq(S) /\ Len(b) = n - p + 1
        /\ \A i \in 1 .. n - p + 1 : b[i] = s[p + i - 1]
    OBVIOUS
  <1> HIDE DEF a, b
  <1>4. /\ c \in Seq(S) /\ Len(c) = p /\ c[p] = e
        /\ \A i \in 1 .. p - 1 : c[i] = s[i]
    BY <1>2
  <1> HIDE DEF c, n
  <1>5. /\ t \in Seq(S) /\ Len(t) = n + 1
        /\ \A i \in 1 .. p : t[i] = c[i]
        /\ \A i \in p + 1 .. n + 1 : t[i] = b[i - p]
    <2>1. /\ t \in Seq(S) /\ Len(t) = Len(c) + Len(b)
          /\ \A i \in 1 .. Len(c) : t[i] = c[i]
          /\ \A i \in Len(c) + 1 .. Len(c) + Len(b) : t[i] = b[i - Len(c)]
      BY <1>3, <1>4, Concatenated, ZenonT(30)
    <2>2. Len(c) + Len(b) = n + 1
      BY <1>1, <1>3, <1>4
    <2> QED
      BY <1>4, <2>1, <2>2
  <1>6. ASSUME NEW i \in p + 1 .. n + 1
        PROVE  t[i] = s[i - 1]
    <2>1. i - p \in 1 .. n - p + 1 /\ p + (i - p) - 1 = i - 1
      BY <1>1 DEF n
    <2>2. b[i - p] = s[p + (i - p) - 1]
      BY <1>3, <2>1
    <2> QED
      BY <1>5, <2>1, <2>2
  <1>7. p \in 1 .. p /\ \A i \in 1 .. p - 1 : i \in 1 .. p
    BY <1>1 DEF n
  <1>8. t = InsertAt(s, p, e)
    BY DEF InsertAt, a, b, c, n
  <1> HIDE DEF t
  <1>9. /\ t[p] = e
        /\ \A i \in 1 .. p - 1 : t[i] = s[i]
    BY <1>4, <1>5, <1>7
  <1> QED
    BY <1>5, <1>6, <1>8, <1>9 DEF n

\* The element at place p goes, and those above it move down.
LEMMA Removed ==
  ASSUME NEW S, NEW s \in Seq(S), NEW p \in 1 .. Len(s)
  PROVE  LET t == RemoveAt(s, p) IN
         /\ t \in Seq(S)
         /\ Len(t) = Len(s) - 1
         /\ \A i \in 1 .. p - 1 : t[i] = s[i]
         /\ \A i \in p .. Len(s) - 1 : t[i] = s[i + 1]
  <1> DEFINE n == Len(s)
             a == SubSeq(s, 1, p - 1)
             b == SubSeq(s, p + 1, n)
             t == a \o b
  <1>1. n \in Nat /\ p \in 1 .. n
    OBVIOUS
  <1>2. a \in Seq(S) /\ Len(a) = p - 1 /\ \A i \in 1 .. p - 1 : a[i] = s[i]
    OBVIOUS
  <1>3. /\ b \in Seq(S) /\ Len(b) = n - p
        /\ \A i \in 1 .. n - p : b[i] = s[p + i]
    OBVIOUS
  <1> HIDE DEF a, b, n
  <1>4. /\ t \in Seq(S) /\ Len(t) = n - 1
        /\ \A i \in 1 .. p - 1 : t[i] = a[i]
        /\ \A i \in p .. n - 1 : t[i] = b[i - p + 1]
    <2>1. /\ t \in Seq(S) /\ Len(t) = Len(a) + Len(b)
          /\ \A i \in 1 .. Len(a) : t[i] = a[i]
          /\ \A i \in Len(a) + 1 .. Len(a) + Len(b) : t[i] = b[i - Len(a)]
      BY <1>2, <1>3, Concatenated
    <2>2. Len(a) = p - 1 /\ Len(a) + 1 = p /\ Len(a) + Len(b) = n - 1
      BY <1>1, <1>2, <1>3
    <2>3. \A i \in p .. n - 1 : i - Len(a) = i - p + 1
      BY <1>1, <1>2
    <2> QED
      BY <2>1, <2>2, <2>3
  <1>5. ASSUME NEW i \in p .. n - 1
        PROVE  t[i] = s[i + 1]
    <2>1. i - p + 1 \in 1 .. n - p /\ p + (i - p + 1) = i + 1
      BY <1>1 DEF n
    <2>2. b[i - p + 1] = s[p + (i - p + 1)]
      BY <1>3, <2>1
    <2> QED
      BY <1>4, <2>1, <2>2
  <1>6. t = RemoveAt(s, p)
    BY DEF RemoveAt, a, b, n
  <1> HIDE DEF t
  <1> QED
    BY <1>2, <1>4, <1>5, <1>6 DEF n

-----------------------------------------------------------------------------
(* Sizes *)

\* What the proofs need of the constants.
LEMMA Constants ==
  /\ NODE_SIZE \in Nat /\ U32 \in Nat \ {0} /\ NODE_SIZE < U32
  /\ sizeof_node \in Nat \ {0} /\ sizeof_node <= NODE_SIZE
  /\ sizeof_cell \in Nat \ {0}
  /\ sizeof_ptr \in Nat \ {0}
  BY PageAssumption DEF PageAssumption

\* Alignment rounds up.
LEMMA AlignUp ==
  ASSUME NEW x \in Nat, NEW a \in Nat \ {0}
  PROVE  ALIGN(x, a) \in Nat /\ x <= ALIGN(x, a)
  <1> DEFINE y == x + a - 1
             q == y \div a
  <1>1. y \in Nat
    OBVIOUS
  <1>2. q \in Nat /\ y < q * a + a
    BY <1>1
  <1> HIDE DEF q
  <1>3. q * a \in Nat
    BY <1>2
  <1> QED
    BY <1>2, <1>3 DEF ALIGN, q

\* What an insertion takes is at least what the cell uses.
LEMMA NewCellSize ==
  ASSUME NEW k \in Nat, NEW v \in Nat
  PROVE  /\ new_cell_size(k, v) \in Nat
         /\ sizeof_cell + k + v <= new_cell_size(k, v)
  <1>1. k + v + sizeof_cell \in Nat
    BY Constants
  <1> QED
    BY <1>1, AlignUp, Constants DEF new_cell_size

-----------------------------------------------------------------------------
(* Room *)

TombType == [off : Int, size : Nat]

PageType == [leaf : BOOLEAN, cells : Seq(CellType), tombs : Seq(TombType),
             cell_offset : Int, tombstone_bytes : 0 .. U32 - 1, rightmost : Nat]

\* The numbers of a cell and of a tombstone.
LEMMA CellNumbers ==
  ASSUME NEW c \in CellType
  PROVE  c.off \in Int /\ used_size(c) \in Nat
  BY Constants DEF CellType, Key, used_size

\* Offset and size of a tombstone are numbers.
LEMMA TombNumbers ==
  ASSUME NEW t \in TombType
  PROVE  t.off \in Int /\ t.size \in Nat
  BY DEF TombType

\* What is left of a tombstone is smaller.
LEMMA RemainderType ==
  ASSUME NEW t \in TombType, NEW size \in Nat, size <= t.size
  PROVE  \/ remainder(t, size) = << >>
         \/ \E r \in TombType : /\ remainder(t, size) = <<r>>
                                /\ r.off = t.off + size
                                /\ r.size = t.size - size - sizeof_cell
  <1> DEFINE r == [off |-> t.off + size, size |-> t.size - size - sizeof_cell]
  <1>1. t.off \in Int /\ t.size \in Nat
    BY DEF TombType
  <1>2. CASE t.size - size > ALIGN(sizeof_cell, sizeof_ptr)
    <2>1. ALIGN(sizeof_cell, sizeof_ptr) \in Nat
          /\ sizeof_cell <= ALIGN(sizeof_cell, sizeof_ptr)
      BY AlignUp, Constants
    <2>2. t.off + size \in Int /\ t.size - size - sizeof_cell \in Nat
      BY <1>1, <1>2, <2>1, Constants
    <2>3. r \in TombType /\ remainder(t, size) = <<r>>
      BY <1>2, <2>2 DEF remainder, TombType
    <2> QED
      BY <2>3
  <1>3. CASE ~(t.size - size > ALIGN(sizeof_cell, sizeof_ptr))
    BY <1>3 DEF remainder
  <1> QED
    BY <1>2, <1>3

\* The fields of a page.
LEMMA PageFields ==
  ASSUME NEW n \in PageType
  PROVE  /\ n.cells \in Seq(CellType) /\ Len(n.cells) \in Nat
         /\ n.tombs \in Seq(TombType) /\ Len(n.tombs) \in Nat
         /\ n.cell_offset \in Int /\ n.tombstone_bytes \in 0 .. U32 - 1
         /\ DOMAIN n.cells = 1 .. Len(n.cells)
         /\ DOMAIN n.tombs = 1 .. Len(n.tombs)
  <1>1. /\ n.cells \in Seq(CellType) /\ n.tombs \in Seq(TombType)
        /\ n.cell_offset \in Int /\ n.tombstone_bytes \in 0 .. U32 - 1
    BY DEF PageType
  <1> QED
    BY <1>1

\* What node_get_free_offset does to the page.
LEMMA TakenEffect ==
  ASSUME NEW n \in PageType, NEW k \in Nat, NEW v \in Nat
  PROVE  LET size == new_cell_size(k, v)
             m == take_free_offset(n, k, v)
             reused == ~in_gap(n, size) /\ fits_tombstone(n, size)
         IN  /\ m \in PageType
             /\ m.cells = n.cells /\ m.leaf = n.leaf /\ m.rightmost = n.rightmost
             /\ m.tombs = IF reused THEN remainder(n.tombs[1], size) \o Tail(n.tombs)
                          ELSE n.tombs
             /\ m.tombstone_bytes = IF reused THEN (n.tombstone_bytes - size) % U32
                                    ELSE n.tombstone_bytes
             /\ node_get_free_offset(n, k, v) \in Int
  <1> DEFINE size == new_cell_size(k, v)
             m == take_free_offset(n, k, v)
             reused == ~in_gap(n, size) /\ fits_tombstone(n, size)
             ts == remainder(n.tombs[1], size) \o Tail(n.tombs)
             tb == (n.tombstone_bytes - size) % U32
  <1>1. size \in Nat
    BY NewCellSize
  <1> HIDE DEF size
  <1>2. CASE reused
    <2>1. n.tombs # << >> /\ size <= n.tombs[1].size
      BY <1>2 DEF fits_tombstone
    <2>2. n.tombs[1] \in TombType /\ Tail(n.tombs) \in Seq(TombType)
      BY <2>1, PageFields
    <2>3. ts \in Seq(TombType)
      <3>1. \/ remainder(n.tombs[1], size) = << >>
            \/ \E r \in TombType : remainder(n.tombs[1], size) = <<r>>
        BY <1>1, <2>1, <2>2, RemainderType
      <3>2. remainder(n.tombs[1], size) \in Seq(TombType)
        <4>1. << >> \in Seq(TombType) /\ \A r \in TombType : <<r>> \in Seq(TombType)
          OBVIOUS
        <4> QED
          BY <3>1, <4>1, Zenon
      <3> QED
        BY <2>2, <3>2, Concatenated
    <2>4. tb \in 0 .. U32 - 1
      <3>1. n.tombstone_bytes - size \in Int
        BY <1>1, PageFields, Constants
      <3> QED
        BY <3>1, ModRange, Constants
    <2>5. m = [n EXCEPT !.tombs = ts, !.tombstone_bytes = tb]
      BY <1>2 DEF take_free_offset, size
    <2> HIDE DEF ts, tb, m
    <2>6. /\ m \in PageType /\ m.cells = n.cells /\ m.tombs = ts
          /\ m.tombstone_bytes = tb /\ m.leaf = n.leaf
          /\ m.rightmost = n.rightmost
      BY <2>3, <2>4, <2>5 DEF PageType
    <2>7. node_get_free_offset(n, k, v) = n.tombs[1].off
      BY <1>2 DEF node_get_free_offset, size
    <2> QED
      BY <1>2, <2>2, <2>6, <2>7 DEF m, ts, tb, size, TombType
  <1>3. CASE ~reused
    <2>1. m = n
      BY <1>3 DEF take_free_offset, size
    <2>2. node_get_free_offset(n, k, v) \in {n.cell_offset - size, 0}
      BY <1>3 DEF node_get_free_offset, size
    <2>3. node_get_free_offset(n, k, v) \in Int
      BY <1>1, <2>2, PageFields
    <2> QED
      BY <1>3, <2>1, <2>3 DEF size
  <1> QED
    BY <1>2, <1>3

\* What inserting a cell does to the page.
LEMMA InsertedPage ==
  ASSUME NEW n \in PageType, NEW idx \in 0 .. Len(n.cells), NEW k \in Key,
         NEW v \in Nat, NEW child \in Nat
  PROVE  LET c == Cell(node_get_free_offset(n, Len(k), v), k, v, child)
             m == node_insert_cell(take_free_offset(n, Len(k), v), idx, c)
         IN  /\ c \in CellType /\ c.key = k /\ c.value_size = v /\ c.child = child
             /\ m \in PageType /\ m.leaf = n.leaf /\ m.rightmost = n.rightmost
             /\ m.cells = InsertAt(n.cells, idx + 1, c)
  <1> DEFINE off == node_get_free_offset(n, Len(k), v)
             t == take_free_offset(n, Len(k), v)
             c == Cell(off, k, v, child)
             m == node_insert_cell(t, idx, c)
             u == InsertAt(n.cells, idx + 1, c)
  <1>1. Len(k) \in Nat
    BY DEF Key
  <1>2. /\ t \in PageType /\ t.cells = n.cells /\ t.leaf = n.leaf
        /\ t.rightmost = n.rightmost /\ off \in Int
    BY <1>1, TakenEffect
  <1> HIDE DEF off, t
  <1>3. c \in CellType /\ c.key = k /\ c.value_size = v /\ c.child = child
        /\ c.off \in Int
    BY <1>2 DEF Cell, CellType
  <1> HIDE DEF c
  <1>4. idx + 1 \in 1 .. Len(n.cells) + 1 /\ n.cells \in Seq(CellType)
    BY PageFields
  <1>5. u \in Seq(CellType)
    BY <1>3, <1>4, Inserted
  <1> HIDE DEF u
  <1>6. m = [t EXCEPT !.cells = u, !.cell_offset = c.off]
    BY <1>2 DEF node_insert_cell, u
  <1> HIDE DEF m
  <1>7. m \in PageType /\ m.leaf = t.leaf /\ m.rightmost = t.rightmost /\ m.cells = u
    BY <1>2, <1>3, <1>5, <1>6 DEF PageType
  <1> QED
    BY <1>2, <1>3, <1>7 DEF m, u, c, t, off

\* The keys of cells.
LEMMA CellKeys ==
  ASSUME NEW s \in Seq(CellType), NEW i \in 1 .. Len(s)
  PROVE  s[i] \in CellType /\ s[i].key \in Key /\ s[i].value_size \in Nat
         /\ s[i].child \in Nat
  <1>1. s[i] \in CellType
    OBVIOUS
  <1> QED
    BY <1>1 DEF CellType

\* Around the place that a search returns nothing is on the wrong side.
LEMMA PlaceBetween ==
  ASSUME NEW s \in Seq(CellType), Ordered(s), NEW k \in Key, NEW at,
         Placed(s, k, at)
  PROVE  /\ \A i \in 1 .. at.idx : ~Before(k, s[i].key)
         /\ \A i \in at.idx + 1 .. Len(s) : ~Before(s[i].key, k)
  <1>1. at.idx \in 0 .. Len(s) /\ at.found \in BOOLEAN /\ Len(s) \in Nat
    BY DEF Placed
  <1>2. \A i \in 1 .. Len(s) : s[i].key \in Key
    BY CellKeys
  <1>3. CASE at.found
    <2>1. at.idx + 1 \in 1 .. Len(s) /\ s[at.idx + 1].key = k
      BY <1>1, <1>3 DEF Placed
    <2>2. ASSUME NEW i \in 1 .. at.idx PROVE ~Before(k, s[i].key)
      BY <1>1, <2>1 DEF Ordered
    <2>3. ASSUME NEW i \in at.idx + 1 .. Len(s) PROVE ~Before(s[i].key, k)
      <3>1. CASE i = at.idx + 1
        BY <2>1, <3>1, BeforeIrreflexive
      <3>2. CASE i # at.idx + 1
        BY <1>1, <2>1, <3>2 DEF Ordered
      <3> QED
        BY <3>1, <3>2
    <2> QED
      BY <2>2, <2>3
  <1>4. CASE ~at.found
    <2>1. /\ \A i \in 1 .. at.idx : Before(s[i].key, k) /\ i \in 1 .. Len(s)
          /\ \A i \in at.idx + 1 .. Len(s) : Before(k, s[i].key) /\ i \in 1 .. Len(s)
      BY <1>1, <1>4 DEF Placed
    <2> QED
      BY <1>2, <2>1, BeforeAsymmetric
  <1> QED
    BY <1>1, <1>3, <1>4

\* A cell that comes in there leaves the cells in order.
LEMMA InsertOrdered ==
  ASSUME NEW s \in Seq(CellType), Ordered(s), NEW c \in CellType,
         NEW p \in 1 .. Len(s) + 1,
         \A i \in 1 .. p - 1 : ~Before(c.key, s[i].key),
         \A i \in p .. Len(s) : ~Before(s[i].key, c.key)
  PROVE  Ordered(InsertAt(s, p, c))
  <1> DEFINE t == InsertAt(s, p, c)
             n == Len(s)
  <1>1. n \in Nat /\ p \in 1 .. n + 1
    OBVIOUS
  <1>2. /\ Len(t) = n + 1 /\ t[p] = c
        /\ \A i \in 1 .. p - 1 : t[i] = s[i]
        /\ \A i \in p + 1 .. n + 1 : t[i] = s[i - 1]
    BY ONLY s \in Seq(CellType), p \in 1 .. Len(s) + 1, c \in CellType, Inserted
  <1>3. \A i, j \in 1 .. n : i < j => ~Before(s[j].key, s[i].key)
    BY DEF Ordered
  <1> HIDE DEF t, n
  <1>4. ASSUME NEW i \in 1 .. n + 1, NEW j \in 1 .. n + 1, i < j
        PROVE  ~Before(t[j].key, t[i].key)
    <2>1. CASE j < p
      <3>1. i \in 1 .. n /\ j \in 1 .. n /\ t[i] = s[i] /\ t[j] = s[j]
        BY <1>1, <1>2, <1>4, <2>1
      <3> QED
        BY <1>3, <1>4, <3>1
    <2>2. CASE j = p
      <3>1. i \in 1 .. p - 1 /\ t[i] = s[i] /\ t[j] = c
        BY <1>1, <1>2, <1>4, <2>2
      <3> QED
        BY <3>1
    <2>3. CASE j > p /\ i < p
      <3>1. i \in 1 .. n /\ j - 1 \in 1 .. n /\ i < j - 1 /\ t[i] = s[i] /\ t[j] = s[j - 1]
        BY <1>1, <1>2, <1>4, <2>3
      <3> QED
        BY <1>3, <3>1
    <2>4. CASE j > p /\ i = p
      <3>1. j - 1 \in p .. n /\ t[i] = c /\ t[j] = s[j - 1]
        BY <1>1, <1>2, <1>4, <2>4
      <3> QED
        BY <3>1 DEF n
    <2>5. CASE j > p /\ i > p
      <3>1. i - 1 \in 1 .. n /\ j - 1 \in 1 .. n /\ i - 1 < j - 1
            /\ t[i] = s[i - 1] /\ t[j] = s[j - 1]
        BY <1>1, <1>2, <1>4, <2>5
      <3> QED
        BY <1>3, <3>1
    <2> QED
      BY <1>1, <1>4, <2>1, <2>2, <2>3, <2>4, <2>5
  <1> QED
    BY <1>2, <1>4 DEF Ordered, t

-----------------------------------------------------------------------------
(* Splits *)

\* An empty page.
LEMMA EmptyPage ==
  ASSUME NEW leaf \in BOOLEAN
  PROVE  /\ node_init(leaf) \in PageType
         /\ node_init(leaf).leaf = leaf
         /\ node_init(leaf).cells = << >>
         /\ node_init(leaf).rightmost = NULL
  BY Constants DEF node_init, PageType, NULL

\* The partition is a cell of the page, or its size.
LEMMA PartitionRange ==
  ASSUME NEW n \in PageType
  PROVE  node_partition_idx(n) \in 0 .. Len(n.cells)
  <1> DEFINE S == {i \in 0 .. Len(n.cells) :
                     \/ i = Len(n.cells)
                     \/ bytes_upto(n.cells, i) >= NODE_SIZE \div 2 - sizeof_node}
  <1>1. Len(n.cells) \in Nat
    BY PageFields
  <1>2. S \subseteq Nat /\ Len(n.cells) \in S
    BY <1>1
  <1>3. node_partition_idx(n) = Min(S)
    BY DEF node_partition_idx
  <1>4. Min(S) \in S
    BY <1>2, MinIsLeast
  <1> QED
    BY <1>3, <1>4

\* The bytes of some of the cells are a number.
LEMMA BytesNat ==
  ASSUME NEW s \in Seq(CellType), NEW i \in 0 .. Len(s)
  PROVE  bytes_upto(s, i) \in Nat
  <1> DEFINE f == [j \in DOMAIN s |-> used_size(s[j])]
  <1>1. ASSUME NEW j \in 1 .. Len(s) PROVE f[j] \in Nat
    <2>1. j \in DOMAIN s /\ s[j] \in CellType
      OBVIOUS
    <2> QED
      BY <2>1, CellNumbers
  <1>2. i \in Nat /\ \A j \in 1 .. i : j \in 1 .. Len(s)
    OBVIOUS
  <1> HIDE DEF f
  <1>3. SumUpTo(f, i) \in Nat
    BY <1>1, <1>2, SumNat
  <1> QED
    BY <1>3 DEF bytes_upto, f

\* What stays in a page that is split.
LEMMA CutPage ==
  ASSUME NEW n \in PageType, NEW p \in 0 .. Len(n.cells)
  PROVE  LET m == node_cut(n, p)
         IN  /\ m \in PageType /\ m.leaf = n.leaf /\ m.rightmost = n.rightmost
             /\ m.cells = SubSeq(n.cells, 1, p)
             /\ Len(m.cells) = p
             /\ \A i \in 1 .. p : m.cells[i] = n.cells[i]
  <1> DEFINE m == node_cut(n, p)
             dead == SubSeq(n.cells, p + 1, Len(n.cells))
             kept == SubSeq(n.cells, 1, p)
             tombs == Reverse([i \in DOMAIN dead |-> tombstone(dead[i])]) \o n.tombs
             bytes == (n.tombstone_bytes + bytes_upto(dead, Len(dead))) % U32
  <1>1. /\ n.cells \in Seq(CellType) /\ Len(n.cells) \in Nat
        /\ n.tombs \in Seq(TombType) /\ n.tombstone_bytes \in Int
    BY PageFields, Constants
  <1>2. /\ kept \in Seq(CellType) /\ Len(kept) = p
        /\ \A i \in 1 .. p : kept[i] = n.cells[i]
    BY <1>1
  <1>3. dead \in Seq(CellType) /\ Len(dead) \in Nat
    BY <1>1
  <1> HIDE DEF dead, kept
  <1>4. tombs \in Seq(TombType)
    <2> DEFINE d == [i \in DOMAIN dead |-> tombstone(dead[i])]
    <2>1. ASSUME NEW i \in 1 .. Len(dead) PROVE d[i] \in TombType
      <3>1. i \in DOMAIN dead /\ dead[i] \in CellType
        BY <1>3
      <3> QED
        BY <3>1, CellNumbers DEF tombstone, TombType
    <2>2. d = [i \in 1 .. Len(dead) |-> d[i]]
      BY <1>3
    <2> HIDE DEF d
    <2>3. d \in Seq(TombType) /\ Len(d) = Len(dead)
      BY <1>3, <2>1, <2>2
    <2>4. Reverse(d) \in Seq(TombType)
      BY <2>3 DEF Reverse
    <2> QED
      BY <1>1, <2>4, Concatenated DEF d
  <1>5. bytes \in 0 .. U32 - 1
    <2>1. n.tombstone_bytes + bytes_upto(dead, Len(dead)) \in Int
      BY <1>1, <1>3, BytesNat
    <2> QED
      BY <2>1, ModRange, Constants
  <1>6. m = [n EXCEPT !.cells = kept, !.tombs = tombs, !.tombstone_bytes = bytes]
    BY DEF node_cut, kept, dead, PageType
  <1> HIDE DEF m, tombs, bytes
  <1>7. m \in PageType /\ m.leaf = n.leaf /\ m.rightmost = n.rightmost
        /\ m.cells = kept
    BY <1>2, <1>4, <1>5, <1>6 DEF PageType
  <1> QED
    BY <1>2, <1>7 DEF m, kept

\* What the new page has.
LEMMA NewPage ==
  ASSUME NEW leaf \in BOOLEAN, NEW s \in Seq(CellType)
  PROVE  LET m == node_of(leaf, s)
         IN  /\ m \in PageType /\ m.leaf = leaf /\ m.rightmost = NULL
             /\ Len(m.cells) = Len(s)
             /\ \A i \in 1 .. Len(s) : /\ m.cells[i].key = s[i].key
                                       /\ m.cells[i].value_size = s[i].value_size
                                       /\ m.cells[i].child = s[i].child
  <1> DEFINE m == node_of(leaf, s)
             off(i) == NODE_SIZE - bytes_upto(s, i)
             u == [i \in DOMAIN s |-> [s[i] EXCEPT !.off = off(i)]]
             t == << >> \o u
  <1>1. \A i \in 0 .. Len(s) : off(i) \in Int
    BY BytesNat, Constants
  <1>2. DOMAIN s = 1 .. Len(s) /\ Len(s) \in Nat /\ Len(s) \in 0 .. Len(s)
    OBVIOUS
  <1> HIDE DEF off
  <1>3. ASSUME NEW i \in 1 .. Len(s)
        PROVE  /\ u[i] \in CellType /\ u[i].key = s[i].key
               /\ u[i].value_size = s[i].value_size /\ u[i].child = s[i].child
    <2>1. s[i] \in CellType /\ off(i) \in Int
      BY <1>1
    <2>2. u[i] = [s[i] EXCEPT !.off = off(i)]
      BY <1>2
    <2> QED
      BY <2>1, <2>2 DEF CellType
  <1>4. u = [i \in 1 .. Len(s) |-> u[i]]
    BY <1>2
  <1> HIDE DEF u
  <1>5. u \in Seq(CellType) /\ Len(u) = Len(s)
    BY <1>2, <1>3, <1>4
  <1>6. t = u
    BY <1>5
  <1>7. m = [node_init(leaf) EXCEPT !.cells = t, !.cell_offset = off(Len(s))]
    BY DEF node_of, node_init, off, u
  <1> HIDE DEF t, m
  <1>8. off(Len(s)) \in Int
    BY <1>1, <1>2
  <1>9. m \in PageType /\ m.leaf = leaf /\ m.rightmost = NULL /\ m.cells = u
    BY <1>5, <1>6, <1>7, <1>8, EmptyPage DEF PageType
  <1> QED
    BY <1>3, <1>5, <1>9 DEF m
=============================================================================
