----------------------------- MODULE Arithmetic -----------------------------
(***************************************************************************)
(* Facts about numbers that the proofs share: remainders, with which the   *)
(* models write counters that wrap, quotients, the least element of a set  *)
(* of naturals, with which they argue by a least counterexample, and the   *)
(* sums of module Sums.  That the recursive definition of a sum has a      *)
(* solution is shown by a least counterexample; from it follow the sums of *)
(* sequences that are extended, shortened or changed.                      *)
(***************************************************************************)
EXTENDS Sums, WellFoundedInduction, SequenceTheorems, TLAPS

-----------------------------------------------------------------------------
(* Remainders and quotients *)

\* The remainder of any integer is in range.
LEMMA ModRange ==
  ASSUME NEW x \in Int, NEW m \in Nat \ {0}
  PROVE  x % m \in 0 .. m - 1
  OBVIOUS

\* A remainder is at most the number itself.
LEMMA ModLe ==
  ASSUME NEW x \in Nat, NEW m \in Nat \ {0}
  PROVE  x % m <= x
  OBVIOUS

\* A number in range is its own remainder, whatever multiple is added.
LEMMA ModUnique ==
  ASSUME NEW m \in Nat \ {0}, NEW z \in Int, NEW d \in 0 .. m - 1
  PROVE  (m * z + d) % m = d
  OBVIOUS

\* Adding a multiple of the modulus does not change the remainder.
LEMMA ModShift ==
  ASSUME NEW m \in Nat \ {0}, NEW k \in Int, NEW x \in Int
  PROVE  (m * k + x) % m = x % m
  <1> DEFINE r == x % m
             q == x \div m
             z == k + q
  <1>1. q \in Int /\ r \in 0 .. m - 1 /\ x = m * q + r
    OBVIOUS
  <1>2. z \in Int /\ m * k + x = m * z + r
    BY <1>1
  <1> HIDE DEF r, q, z
  <1>3. (m * z + r) % m = r
    BY <1>1, <1>2, ModUnique
  <1>4. (m * k + x) % m = r
    BY <1>2, <1>3, Zenon
  <1> QED
    BY <1>4 DEF r

\* Reducing a summand first does not change the remainder of the sum.
LEMMA ModAdd ==
  ASSUME NEW a \in Int, NEW b \in Int, NEW m \in Nat \ {0}
  PROVE  ((a % m) + b) % m = (a + b) % m
  <1> DEFINE r == a % m
             q == a \div m
             x == r + b
  <1>1. q \in Int /\ r \in 0 .. m - 1 /\ a = m * q + r
    OBVIOUS
  <1>2. x \in Int /\ a + b = m * q + x
    BY <1>1
  <1> HIDE DEF r, q, x
  <1>3. (m * q + x) % m = x % m
    BY <1>1, <1>2, ModShift
  <1>4. (a + b) % m = x % m
    BY <1>2, <1>3, Zenon
  <1> QED
    BY <1>4 DEF x, r

\* Nor does reducing what is subtracted.
LEMMA ModSub ==
  ASSUME NEW a \in Int, NEW b \in Int, NEW m \in Nat \ {0}
  PROVE  (a - (b % m)) % m = (a - b) % m
  <1> DEFINE r == b % m
             k == b \div m
             x == a - r
             y == a - b
  <1>1. k \in Int /\ r \in 0 .. m - 1 /\ b = m * k + r
    OBVIOUS
  <1>2. x \in Int /\ y \in Int /\ x = m * k + y
    BY <1>1
  <1> HIDE DEF k, x, y
  <1>3. x % m = y % m
    BY <1>1, <1>2, ModShift
  <1> QED
    BY <1>3 DEF x, y, r

\* Numbers that are less than the modulus apart have different remainders.
LEMMA ModApart ==
  ASSUME NEW m \in Nat \ {0}, NEW x \in Int,
         NEW a \in 0 .. m - 1, NEW b \in 0 .. m - 1, a # b
  PROVE  (x - a) % m # (x - b) % m
  <1> DEFINE p == (x - a) \div m
             q == (x - b) \div m
             r == (x - a) % m
  <1>1. SUFFICES ASSUME (x - b) % m = r PROVE FALSE
    OBVIOUS
  <1>2. p \in Int /\ q \in Int /\ r \in Int
    OBVIOUS
  <1>3. x - a = m * p + r /\ x - b = m * q + r
    BY <1>1
  <1> HIDE DEF p, q, r
  <1>4. b - a = m * p - m * q
    BY <1>2, <1>3
  <1>5. m * p - m * q = m * (p - q)
    BY <1>2
  <1>6. p - q \in Int /\ p - q # 0
    BY <1>2, <1>4
  <1>7. CASE p - q >= 1
    BY <1>4, <1>5, <1>6, <1>7
  <1>8. CASE p - q <= -1
    BY <1>4, <1>5, <1>6, <1>8
  <1> QED
    BY <1>6, <1>7, <1>8

\* The unsigned difference of two counters, one of which is ahead: it is right
\* whether or not the sum has wrapped.
LEMMA ModDiff ==
  ASSUME NEW m \in Nat \ {0}, NEW a \in 0 .. m - 1, NEW n \in 0 .. m - 1
  PROVE  (((a + n) % m) - a) % m = n
  <1>1. (a + n) % m = IF a + n < m THEN a + n ELSE a + n - m
    OBVIOUS
  <1> QED
    BY <1>1

\* The quotient and the remainder of a number that is given as such.
LEMMA DivModUnique ==
  ASSUME NEW m \in Nat \ {0}, NEW q \in Nat, NEW r \in 0 .. m - 1
  PROVE  /\ (q * m + r) \div m = q
         /\ (q * m + r) % m = r
  OBVIOUS

-----------------------------------------------------------------------------
(* Least elements *)

\* Every set of naturals that is not empty has a least element.
LEMMA LeastNat ==
  ASSUME NEW T, T \subseteq Nat, T # {}
  PROVE  \E x \in T : \A y \in T : x <= y
  <1> DEFINE R == {ss \in Nat \X Nat : ss[1] < ss[2]}
  <1>1. IsWellFoundedOn(R, Nat)
    BY NatLessThanWellFounded DEF OpToRel
  <1>2. \A x, y \in Nat : y < x => <<y, x>> \in R
    OBVIOUS
  <1> HIDE DEF R
  <1>3. \E x \in T : \A y \in T : ~(<<y, x>> \in R)
    BY <1>1, WFMin
  <1>4. \A x, y \in Nat : ~(y < x) => x <= y
    OBVIOUS
  <1> QED
    BY <1>2, <1>3, <1>4

-----------------------------------------------------------------------------
(* Sums *)

\* h holds the sums of f up to n.
SumsOf(h, f, n) ==
  \A i \in 0 .. n : h[i] = IF i = 0 THEN 0 ELSE h[i - 1] + f[i]

\* There are sums up to every n.
LEMMA SumsExist ==
  ASSUME NEW f, NEW n \in Nat
  PROVE  \E h : SumsOf(h, f, n)
  <1> DEFINE T == {k \in Nat : ~ \E h : SumsOf(h, f, k)}
  <1>1. SUFFICES ASSUME T # {} PROVE FALSE
    OBVIOUS
  <1>2. PICK k \in T : \A l \in T : k <= l
    BY <1>1, LeastNat
  <1>3. CASE k = 0
    <2>1. SumsOf([i \in {0} |-> 0], f, 0)
      BY DEF SumsOf
    <2> QED
      BY <1>3, <2>1
  <1>4. CASE k # 0
    <2>1. k - 1 \in Nat /\ k - 1 \notin T
      BY <1>2, <1>4
    <2>2. PICK h : SumsOf(h, f, k - 1)
      BY <2>1
    <2> DEFINE g == [i \in 0 .. k |-> IF i = k THEN h[k - 1] + f[k] ELSE h[i]]
    <2>3. ASSUME NEW i \in 0 .. k
          PROVE  g[i] = IF i = 0 THEN 0 ELSE g[i - 1] + f[i]
      <3>1. CASE i = k
        BY <1>4, <2>1, <3>1
      <3>2. CASE i # k
        BY <2>1, <2>2, <3>2 DEF SumsOf
      <3> QED
        BY <3>1, <3>2
    <2>4. SumsOf(g, f, k)
      BY <2>3 DEF SumsOf
    <2> QED
      BY <2>4
  <1> QED
    BY <1>3, <1>4

\* They are the same wherever both are.
LEMMA SumsUnique ==
  ASSUME NEW f, NEW g, NEW h, NEW n \in Nat, NEW m \in Nat,
         SumsOf(g, f, n), SumsOf(h, f, m),
         NEW i \in Nat, i <= n, i <= m
  PROVE  g[i] = h[i]
  <1> DEFINE T == {k \in Nat : k <= n /\ k <= m /\ g[k] # h[k]}
  <1>1. SUFFICES ASSUME T # {} PROVE FALSE
    OBVIOUS
  <1>2. PICK k \in T : \A l \in T : k <= l
    BY <1>1, LeastNat
  <1>3. CASE k = 0
    BY <1>3 DEF SumsOf
  <1>4. CASE k # 0
    <2>1. k - 1 \in Nat /\ k - 1 \notin T
      BY <1>2, <1>4
    <2>2. g[k - 1] = h[k - 1]
      BY <2>1
    <2>3. g[k] = g[k - 1] + f[k] /\ h[k] = h[k - 1] + f[k]
      BY <1>4 DEF SumsOf
    <2> QED
      BY <2>2, <2>3
  <1> QED
    BY <1>3, <1>4

\* The recursive definition of SumUpTo has a solution.
LEMMA SumSolvable ==
  ASSUME NEW f
  PROVE  \E s : s = [i \in Nat |-> IF i = 0 THEN 0 ELSE s[i - 1] + f[i]]
  <1> DEFINE H(n) == CHOOSE h : SumsOf(h, f, n)
             s == [n \in Nat |-> H(n)[n]]
  <1>1. ASSUME NEW n \in Nat PROVE SumsOf(H(n), f, n)
    BY SumsExist
  <1> HIDE DEF H
  <1>2. ASSUME NEW n \in Nat
        PROVE  s[n] = IF n = 0 THEN 0 ELSE s[n - 1] + f[n]
    <2>1. CASE n = 0
      BY <1>1, <2>1 DEF SumsOf
    <2>2. CASE n # 0
      <3>1. n - 1 \in Nat /\ n - 1 <= n
        BY <2>2
      <3>2. H(n)[n - 1] = H(n - 1)[n - 1]
        BY <1>1, <3>1, SumsUnique
      <3>3. H(n)[n] = H(n)[n - 1] + f[n]
        BY <1>1, <2>2 DEF SumsOf
      <3> QED
        BY <2>2, <3>1, <3>2, <3>3
    <2> QED
      BY <2>1, <2>2
  <1>3. s = [i \in Nat |-> IF i = 0 THEN 0 ELSE s[i - 1] + f[i]]
    BY <1>2
  <1> QED
    BY <1>3

\* What SumUpTo is.
LEMMA SumRecursion ==
  ASSUME NEW f
  PROVE  /\ SumUpTo(f, 0) = 0
         /\ \A n \in Nat : SumUpTo(f, n + 1) = SumUpTo(f, n) + f[n + 1]
  <1> DEFINE P(s) == s = [i \in Nat |-> IF i = 0 THEN 0 ELSE s[i - 1] + f[i]]
             S == CHOOSE s : P(s)
  <1>1. P(S)
    BY SumSolvable
  <1>2. \A n \in Nat : SumUpTo(f, n) = S[n]
    BY DEF SumUpTo
  <1>3. \A i \in Nat : S[i] = IF i = 0 THEN 0 ELSE S[i - 1] + f[i]
    BY <1>1
  <1> HIDE DEF S
  <1>4. ASSUME NEW n \in Nat PROVE n + 1 \in Nat /\ n + 1 # 0 /\ (n + 1) - 1 = n
    OBVIOUS
  <1> QED
    BY <1>2, <1>3, <1>4

\* Sums of integers are integers, and of naturals naturals.
LEMMA SumInt ==
  ASSUME NEW n \in Nat, NEW f, \A i \in 1 .. n : f[i] \in Int
  PROVE  SumUpTo(f, n) \in Int
  <1> DEFINE T == {k \in Nat : k <= n /\ SumUpTo(f, k) \notin Int}
  <1>1. SUFFICES ASSUME T # {} PROVE FALSE
    OBVIOUS
  <1>2. PICK k \in T : \A l \in T : k <= l
    BY <1>1, LeastNat
  <1>3. k # 0
    BY SumRecursion
  <1>4. k - 1 \in Nat /\ k - 1 \notin T
    BY <1>2, <1>3
  <1>5. SumUpTo(f, (k - 1) + 1) = SumUpTo(f, k - 1) + f[(k - 1) + 1]
    BY <1>4, SumRecursion
  <1>6. (k - 1) + 1 = k /\ k \in 1 .. n
    BY <1>3
  <1> QED
    BY <1>4, <1>5, <1>6

\* A sum of natural numbers is one.
LEMMA SumNat ==
  ASSUME NEW n \in Nat, NEW f, \A i \in 1 .. n : f[i] \in Nat
  PROVE  SumUpTo(f, n) \in Nat
  <1> DEFINE T == {k \in Nat : k <= n /\ SumUpTo(f, k) \notin Nat}
  <1>1. SUFFICES ASSUME T # {} PROVE FALSE
    OBVIOUS
  <1>2. PICK k \in T : \A l \in T : k <= l
    BY <1>1, LeastNat
  <1>3. k # 0
    BY SumRecursion
  <1>4. k - 1 \in Nat /\ k - 1 \notin T
    BY <1>2, <1>3
  <1>5. SumUpTo(f, (k - 1) + 1) = SumUpTo(f, k - 1) + f[(k - 1) + 1]
    BY <1>4, SumRecursion
  <1>6. (k - 1) + 1 = k /\ k \in 1 .. n
    BY <1>3
  <1> QED
    BY <1>4, <1>5, <1>6

\* Replacing one summand changes the sum by the difference.
LEMMA SumReplace ==
  ASSUME NEW n \in Nat, NEW f, \A i \in 1 .. n : f[i] \in Int,
         NEW g, NEW j \in 1 .. n, NEW x \in Int, g[j] = x,
         \A i \in 1 .. n : i # j => g[i] = f[i]
  PROVE  SumUpTo(g, n) = SumUpTo(f, n) + x - f[j]
  <1> DEFINE D(k) == IF j <= k THEN x - f[j] ELSE 0
             T == {k \in Nat : k <= n /\ SumUpTo(g, k) # SumUpTo(f, k) + D(k)}
  <1>1. SUFFICES ASSUME T # {} PROVE FALSE
    <2>1. n \notin T
      BY <1>1
    <2>2. SumUpTo(g, n) = SumUpTo(f, n) + (x - f[j])
      BY <2>1
    <2> QED
      BY <2>2, SumInt
  <1>2. PICK k \in T : \A l \in T : k <= l
    BY <1>1, LeastNat
  <1>3. k # 0
    BY SumRecursion
  <1>4. k - 1 \in Nat /\ k - 1 <= n /\ k - 1 \notin T
    BY <1>2, <1>3
  <1>5. (k - 1) + 1 = k /\ k \in 1 .. n
    BY <1>3
  <1>6. SumUpTo(f, k) = SumUpTo(f, k - 1) + f[k]
    BY <1>4, <1>5, SumRecursion
  <1>7. SumUpTo(g, k) = SumUpTo(g, k - 1) + g[k]
    BY <1>4, <1>5, SumRecursion
  <1>8. SumUpTo(g, k - 1) = SumUpTo(f, k - 1) + D(k - 1)
    BY <1>4
  <1>9. SumUpTo(f, k - 1) \in Int
    BY <1>4, SumInt
  <1>10. CASE k = j
    BY <1>5, <1>6, <1>7, <1>8, <1>9, <1>10
  <1>11. CASE k # j
    <2>1. D(k) = D(k - 1) /\ D(k) \in Int
      BY <1>5, <1>11
    <2>2. g[k] = f[k] /\ f[k] \in Int
      BY <1>5, <1>11
    <2> QED
      BY <1>6, <1>7, <1>8, <1>9, <2>1, <2>2
  <1> QED
    BY <1>10, <1>11

\* Sums depend on the summands only.
LEMMA SumSame ==
  ASSUME NEW n \in Nat, NEW f, NEW g, \A i \in 1 .. n : f[i] = g[i]
  PROVE  SumUpTo(f, n) = SumUpTo(g, n)
  <1> DEFINE T == {k \in Nat : k <= n /\ SumUpTo(f, k) # SumUpTo(g, k)}
  <1>1. SUFFICES ASSUME T # {} PROVE FALSE
    OBVIOUS
  <1>2. PICK k \in T : \A l \in T : k <= l
    BY <1>1, LeastNat
  <1>3. k # 0
    BY SumRecursion
  <1>4. k - 1 \in Nat /\ k - 1 \notin T
    BY <1>2, <1>3
  <1>5. (k - 1) + 1 = k /\ k \in 1 .. n
    BY <1>3
  <1>6. SumUpTo(f, k) = SumUpTo(f, k - 1) + f[k]
    BY <1>4, <1>5, SumRecursion
  <1>7. SumUpTo(g, k) = SumUpTo(g, k - 1) + g[k]
    BY <1>4, <1>5, SumRecursion
  <1> QED
    BY <1>4, <1>5, <1>6, <1>7

\* A summand in front is added to the sum of the others.
LEMMA SumShift ==
  ASSUME NEW n \in Nat, NEW f, \A i \in 1 .. n : f[i] \in Int,
         NEW g, NEW x \in Int, g[1] = x, \A i \in 1 .. n : g[i + 1] = f[i]
  PROVE  SumUpTo(g, n + 1) = x + SumUpTo(f, n)
  <1> DEFINE T == {k \in Nat : k <= n /\ SumUpTo(g, k + 1) # x + SumUpTo(f, k)}
  <1>1. SUFFICES ASSUME T # {} PROVE FALSE
    OBVIOUS
  <1>2. PICK k \in T : \A l \in T : k <= l
    BY <1>1, LeastNat
  <1>3. SumUpTo(g, k + 1) = SumUpTo(g, k) + g[k + 1]
    BY SumRecursion
  <1>4. k # 0
    <2>1. SumUpTo(g, 0) = 0 /\ SumUpTo(f, 0) = 0
      BY SumRecursion
    <2> QED
      BY <1>3, <2>1
  <1>5. k - 1 \in Nat /\ k - 1 \notin T
    BY <1>2, <1>4
  <1>6. (k - 1) + 1 = k /\ k \in 1 .. n
    BY <1>4
  <1>7. SumUpTo(f, k) = SumUpTo(f, k - 1) + f[k]
    BY <1>5, <1>6, SumRecursion
  <1>8. SumUpTo(g, k) = x + SumUpTo(f, k - 1)
    BY <1>5, <1>6
  <1>9. SumUpTo(f, k - 1) \in Int /\ f[k] \in Int /\ g[k + 1] = f[k]
    BY <1>5, <1>6, SumInt
  <1> QED
    BY <1>3, <1>7, <1>8, <1>9

\* One number more, at any place, adds itself.
LEMMA SumInserted ==
  ASSUME NEW n \in Nat, NEW f, \A i \in 1 .. n : f[i] \in Int,
         NEW g, NEW p \in 1 .. n + 1, NEW x \in Int, g[p] = x,
         \A i \in 1 .. p - 1 : g[i] = f[i], \A i \in p .. n : g[i + 1] = f[i]
  PROVE  SumUpTo(g, n + 1) = SumUpTo(f, n) + x
  <1> DEFINE T == {k \in Nat : /\ p - 1 <= k /\ k <= n
                               /\ SumUpTo(g, k + 1) # SumUpTo(f, k) + x}
  <1>1. SUFFICES ASSUME T # {} PROVE FALSE
    OBVIOUS
  <1>2. PICK k \in T : \A l \in T : k <= l
    BY <1>1, LeastNat
  <1>3. SumUpTo(g, k + 1) = SumUpTo(g, k) + g[k + 1]
    BY SumRecursion
  <1>4. SumUpTo(f, k) \in Int
    BY SumInt
  <1>5. CASE k = p - 1
    <2>1. SumUpTo(g, k) = SumUpTo(f, k)
      BY <1>5, SumSame
    <2> QED
      BY <1>3, <1>4, <1>5, <2>1
  <1>6. CASE k # p - 1
    <2>1. k - 1 \in Nat /\ k \in p .. n /\ k - 1 \notin T
      BY <1>2, <1>6
    <2>2. SumUpTo(g, k) = SumUpTo(f, k - 1) + x
      BY <1>6, <2>1
    <2>3. SumUpTo(f, k) = SumUpTo(f, k - 1) + f[k]
      BY <2>1, SumRecursion
    <2>4. SumUpTo(f, k - 1) \in Int /\ f[k] \in Int
      BY <2>1, SumInt
    <2>5. g[k + 1] = f[k]
      BY <2>1
    <2> QED
      BY <1>3, <2>2, <2>3, <2>4, <2>5
  <1> QED
    BY <1>5, <1>6

\* The sums of an empty sequence, of one with an element in front, and of one
\* without its first element.
LEMMA TotalEmpty == Total(<< >>) = 0
  BY SumRecursion DEF Total

\* The same of a sequence.
LEMMA TotalType ==
  ASSUME NEW s \in Seq(Nat)
  PROVE  Total(s) \in Nat
  BY SumNat DEF Total

\* The total of a sequence with an element in front.
LEMMA TotalCons ==
  ASSUME NEW s \in Seq(Int), NEW x \in Int
  PROVE  Total(<<x>> \o s) = x + Total(s)
  <1> DEFINE t == <<x>> \o s
             n == Len(s)
  <1>1. n \in Nat /\ Len(t) = n + 1 /\ t[1] = x
    OBVIOUS
  <1>2. \A i \in 1 .. n : t[i + 1] = s[i] /\ s[i] \in Int
    OBVIOUS
  <1> HIDE DEF t, n
  <1>3. SumUpTo(t, n + 1) = x + SumUpTo(s, n)
    BY <1>1, <1>2, SumShift
  <1> QED
    BY <1>1, <1>3 DEF Total, t, n

\* The total of a sequence, by its first element and the rest.
LEMMA TotalTail ==
  ASSUME NEW s \in Seq(Int), s # << >>
  PROVE  Total(s) = s[1] + Total(Tail(s))
  <1>1. s = <<s[1]>> \o Tail(s) /\ s[1] \in Int /\ Tail(s) \in Seq(Int)
    OBVIOUS
  <1> QED
    BY <1>1, TotalCons
=============================================================================
