------------------------------ MODULE ModArith ------------------------------
(***************************************************************************)
(* Arithmetic that the proofs rest on: modulo the width of a counter or    *)
(* the size of a ring, for rings with wrapping indices; and the least      *)
(* element of a set of numbers, for loops that take the first free slot.   *)
(***************************************************************************)
EXTENDS Integers, WellFoundedInduction, TLAPS

\* The width of the counters is a multiple of the ring's size.
Divides(m, n) == n % m = 0

\* A remainder is unique.
LEMMA ModUnique ==
    ASSUME NEW n \in Nat \ {0}, NEW x \in Int, NEW q \in Int, NEW r \in 0..n - 1, x = q * n + r
    PROVE  x % n = r
OBVIOUS

\* A remainder is less than the modulus.
LEMMA ModRange ==
    ASSUME NEW n \in Nat \ {0}, NEW x \in Int
    PROVE  x % n \in 0..n - 1
OBVIOUS

\* The sum and the difference of two indices, with at most one wrap-around.
LEMMA ModPlus ==
    ASSUME NEW n \in Nat \ {0}, NEW x \in 0..n - 1, NEW d \in 0..n
    PROVE  (x + d) % n = IF x + d < n THEN x + d ELSE x + d - n
OBVIOUS

LEMMA ModMinus ==
    ASSUME NEW n \in Nat \ {0}, NEW x \in 0..n - 1, NEW y \in 0..n - 1
    PROVE  (x - y) % n = IF y <= x THEN x - y ELSE x - y + n
OBVIOUS

\* The next index, with its wrap-around.
LEMMA ModInc ==
    ASSUME NEW n \in Nat \ {0}, NEW x \in 0..n - 1
    PROVE  /\ (x + 1) % n \in 0..n - 1
           /\ (x + 1) % n = IF x + 1 < n THEN x + 1 ELSE 0
OBVIOUS

\* The distance between two counters when the one behind moves on ...
LEMMA ModIncBehind ==
    ASSUME NEW n \in Nat \ {0}, NEW r \in 0..n - 1, NEW w \in 0..n - 1, r # w
    PROVE  (w - ((r + 1) % n)) % n = ((w - r) % n) - 1
<1> DEFINE s == (r + 1) % n
<1>1. s \in 0..n - 1 /\ s = IF r + 1 < n THEN r + 1 ELSE 0 BY ModInc
<1> HIDE DEF s
<1>2. (w - s) % n = IF s <= w THEN w - s ELSE w - s + n BY <1>1, ModMinus
<1>3. (w - r) % n = IF r <= w THEN w - r ELSE w - r + n BY ModMinus
<1>4. (w - s) % n = ((w - r) % n) - 1 BY <1>1, <1>2, <1>3
<1> QED BY <1>4 DEF s

\* ... and when the one ahead does, before it has gone all the way round.
LEMMA ModIncAhead ==
    ASSUME NEW n \in Nat \ {0}, NEW r \in 0..n - 1, NEW w \in 0..n - 1, (w - r) % n < n - 1
    PROVE  (((w + 1) % n) - r) % n = ((w - r) % n) + 1
<1> DEFINE s == (w + 1) % n
<1>1. s \in 0..n - 1 /\ s = IF w + 1 < n THEN w + 1 ELSE 0 BY ModInc
<1> HIDE DEF s
<1>2. (w - r) % n = IF r <= w THEN w - r ELSE w - r + n BY ModMinus
<1>3. (s - r) % n = IF r <= s THEN s - r ELSE s - r + n BY <1>1, ModMinus
<1>4. (s - r) % n = ((w - r) % n) + 1 BY <1>1, <1>2, <1>3
<1> QED BY <1>4 DEF s

\* The distance says where the counter ahead is.
LEMMA ModAhead ==
    ASSUME NEW n \in Nat \ {0}, NEW r \in 0..n - 1, NEW w \in 0..n - 1, NEW d \in 0..n - 1
    PROVE  w = (r + d) % n <=> (w - r) % n = d
<1>1. (w - r) % n = IF r <= w THEN w - r ELSE w - r + n BY ModMinus
<1>2. d \in 0..n OBVIOUS
<1>3. (r + d) % n = IF r + d < n THEN r + d ELSE r + d - n BY <1>2, ModPlus, Zenon
<1> QED BY <1>1, <1>3

\* Adding a multiple of the modulus changes no remainder.
LEMMA ModMultiple ==
    ASSUME NEW m \in Nat \ {0}, NEW x \in Int, NEW k \in Int
    PROVE  (x + k * m) % m = x % m
<1> DEFINE q == x \div m  r == x % m
<1>1. q \in Int /\ r \in 0..m - 1 /\ x = q * m + r OBVIOUS
<1> HIDE DEF q, r
<1>2. x + k * m = (q + k) * m + r BY <1>1
<1>3. (x + k * m) % m = r BY <1>1, <1>2, ModUnique
<1> QED BY <1>3 DEF r

\* A counter that wraps at a multiple of the ring's size keeps its place in the ring.
LEMMA ModWrap ==
    ASSUME NEW m \in Nat \ {0}, NEW n \in Nat, Divides(m, n), NEW x \in Int
    PROVE  (x - n) % m = x % m
<1> DEFINE k == n \div m
<1>1. n = m * (n \div m) + (n % m) /\ n \div m \in Int OBVIOUS
<1>2. -k \in Int /\ n = k * m BY <1>1 DEF Divides
<1>3. x - n = x + (-k) * m BY <1>2
<1> HIDE DEF k
<1>4. (x + (-k) * m) % m = x % m BY <1>2, ModMultiple, Zenon
<1> QED BY <1>3, <1>4

\* Counters less than a ring apart have different places in it.
LEMMA ModApart ==
    ASSUME NEW m \in Nat \ {0}, NEW a \in Nat, NEW d \in 1..m - 1
    PROVE  (a + d) % m # a % m
<1> DEFINE q == a \div m  r == a % m
<1>1. q \in Int /\ r \in 0..m - 1 /\ a = q * m + r OBVIOUS
<1> HIDE DEF q, r
<1>2. ASSUME NEW e \in 0..m - 1, NEW f \in Int, a + d = f * m + e
      PROVE  (a + d) % m = e
  <2>1. a + d \in Int OBVIOUS
  <2> QED BY <1>2, <2>1, ModUnique, Zenon
<1>3. CASE r + d < m
  <2>1. a + d = q * m + (r + d) /\ r + d \in 0..m - 1 BY <1>1, <1>3
  <2>2. (a + d) % m = r + d BY <1>1, <1>2, <2>1, Zenon
  <2> QED BY <2>2, <1>1 DEF r
<1>4. CASE r + d >= m
  <2>1. a + d = (q + 1) * m + (r + d - m) /\ r + d - m \in 0..m - 1 /\ q + 1 \in Int
    BY <1>1, <1>4
  <2>2. (a + d) % m = r + d - m BY <1>2, <2>1, Zenon
  <2> QED BY <2>2, <1>1 DEF r
<1> QED BY <1>1, <1>3, <1>4

\* Both together: a counter that wraps at n, a ring of m entries.
LEMMA ModRing ==
    ASSUME NEW m \in Nat \ {0}, NEW n \in Nat \ {0}, Divides(m, n), m <= n,
           NEW a \in 0..n - 1, NEW d \in 1..m - 1
    PROVE  ((a + d) % n) % m # a % m
<1>0. d \in 0..n OBVIOUS
<1>1. (a + d) % n = IF a + d < n THEN a + d ELSE a + d - n BY <1>0, ModPlus, Zenon
<1>2. (a + d - n) % m = (a + d) % m
  <2> DEFINE x == a + d
  <2>1. x \in Int /\ n \in Nat OBVIOUS
  <2> HIDE DEF x
  <2>2. (x - n) % m = x % m BY <2>1, ModWrap
  <2> QED BY <2>2 DEF x
<1>3. (a + d) % m # a % m
  <2>1. a \in Nat OBVIOUS
  <2> QED BY <2>1, ModApart, Zenon
<1> QED BY <1>1, <1>2, <1>3, Zenon

\* Advancing a counter in two steps.
LEMMA ModTwice ==
    ASSUME NEW n \in Nat \ {0}, NEW r \in 0..n - 1, NEW k \in 0..n - 1
    PROVE  (((r + 1) % n) + k) % n = (r + (k + 1)) % n
<1> DEFINE s == (r + 1) % n
<1>1. s \in 0..n - 1 /\ s = IF r + 1 < n THEN r + 1 ELSE 0 BY ModInc
<1>2. (r + (k + 1)) % n = IF r + (k + 1) < n THEN r + (k + 1) ELSE r + (k + 1) - n
  <2>1. k + 1 \in 0..n OBVIOUS
  <2> QED BY <2>1, ModPlus, Zenon
<1> HIDE DEF s
<1>3. (s + k) % n = IF s + k < n THEN s + k ELSE s + k - n
  <2>1. k \in 0..n OBVIOUS
  <2> QED BY <1>1, <2>1, ModPlus, Zenon
<1>4. (s + k) % n = (r + (k + 1)) % n BY <1>1, <1>2, <1>3
<1> QED BY <1>4 DEF s

\* A ring of m entries whose indices wrap at n, with u entries in use from index r
\* to index w: the entry at w is none of those in use.
LEMMA RingSlots ==
    ASSUME NEW m \in Nat \ {0}, NEW n \in Nat \ {0}, Divides(m, n), m <= n,
           NEW r \in 0..n - 1, NEW u \in 0..m - 1, NEW k \in 1..u
    PROVE  /\ ((r + k - 1) % n) % m \in 0..m - 1
           /\ ((r + k - 1) % n) % m # ((r + u) % n) % m
<1> DEFINE a == (r + (k - 1)) % n  d == u - k + 1
<1>1. k - 1 \in 0..n /\ u \in 0..n /\ d \in 1..m - 1 /\ d \in 0..n OBVIOUS
<1>2. a = IF r + (k - 1) < n THEN r + (k - 1) ELSE r + (k - 1) - n
  BY <1>1, ModPlus, Zenon
<1>3. a \in 0..n - 1 BY <1>1, <1>2
<1>4. (r + u) % n = IF r + u < n THEN r + u ELSE r + u - n
  BY <1>1, ModPlus, Zenon
<1>5. r + k - 1 = r + (k - 1) OBVIOUS
<1> HIDE DEF a
<1>6. (a + d) % n = IF a + d < n THEN a + d ELSE a + d - n
  <2> HIDE DEF d
  <2> QED BY <1>1, <1>3, ModPlus, Zenon
<1>7. (a + d) % n = (r + u) % n BY <1>1, <1>2, <1>3, <1>4, <1>6
<1> HIDE DEF d
<1>8. ((a + d) % n) % m # a % m BY <1>1, <1>3, ModRing, Zenon
<1>9. a % m \in 0..m - 1
  <2>1. a \in Int BY <1>3
  <2> QED BY <2>1, ModRange, Zenon
<1> QED BY <1>5, <1>7, <1>8, <1>9, Zenon DEF a
-----------------------------------------------------------------------------
\* A set of natural numbers has a least element, which is what a loop over a table
\* finds first.
LEMMA LeastExists ==
    ASSUME NEW S \in SUBSET Nat, S # {}
    PROVE  \E x \in S : \A y \in S : x <= y
<1> DEFINE R == OpToRel(<, Nat)
<1>1. IsWellFoundedOn(R, Nat) BY NatLessThanWellFounded
<1> HIDE DEF R
<1>2. PICK x \in S : \A y \in S : ~ (<<y, x>> \in R) BY <1>1, WFMin, Zenon
<1>3. \A y \in S : y < x => <<y, x>> \in R BY DEF R, OpToRel
<1>4. ASSUME NEW y \in S PROVE x <= y
  <2>1. ~ (y < x) BY <1>2, <1>3
  <2> QED BY <2>1
<1> QED BY <1>4

\* The same as CHOOSE picks it.
LEMMA Least ==
    ASSUME NEW S \in SUBSET Nat, S # {}
    PROVE  LET x == CHOOSE x \in S : \A y \in S : x <= y IN x \in S /\ \A y \in S : x <= y
BY LeastExists, Zenon
\* A set of numbers up to n has a greatest element, which is what a loop that comes
\* from the end finds first.
LEMMA Greatest ==
    ASSUME NEW n \in Nat, NEW S \in SUBSET (0..n), S # {}
    PROVE  \E x \in S : \A y \in S : y <= x
<1> DEFINE T == {n - x : x \in S}
<1>0. \A x \in S : x \in Nat /\ x <= n /\ n - x \in Nat OBVIOUS
<1>1. T \subseteq Nat BY <1>0
<1>e. T # {}
  <2>1. PICK x \in S : TRUE OBVIOUS
  <2>2. n - x \in T BY <2>1
  <2> QED BY <2>2
<1>2. PICK t \in T : \A u \in T : t <= u BY <1>1, <1>e, LeastExists, Zenon
<1>3. PICK x \in S : t = n - x BY <1>2
<1>4. \A y \in S : t <= n - y BY <1>2
<1> QED BY <1>0, <1>3, <1>4
=============================================================================
