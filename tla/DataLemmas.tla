---------------------------- MODULE DataLemmas -----------------------------
(***************************************************************************)
(* What the proofs use of numbers, finite sets and sequences, without the  *)
(* induction theorems of the library, which take an operator as parameter: *)
(* a set of natural numbers has a least element, recursion defines a       *)
(* function, division determines quotient and remainder, an order lists    *)
(* the elements of a set, and what the parts of sequences contain.         *)
(***************************************************************************)
EXTENDS Integers, FiniteSetsExt, SequencesExt, FiniteSetTheorems, TLAPS

\* The least of some natural numbers is one of them, and below the
\* others.
LEMMA LeastNumber ==
  ASSUME NEW S \in SUBSET Nat, NEW n \in S
  PROVE  Min(S) \in S /\ \A x \in S : Min(S) <= x
<1> DEFINE Upto(m) == {x \in S : x <= m}
           Lower == {Upto(m) : m \in S}
<1>1. \A m \in S : IsFiniteSet(Upto(m))
  BY FS_BoundedSetOfNaturals
<1>2. Lower \subseteq FiniteSubsetsOf(S) /\ Lower # {}
  BY <1>1 DEF FiniteSubsetsOf
<1>3. PICK P \in Lower : \A Q \in Lower : <<Q, P>> \notin StrictSubsetOrdering(S)
  <2> HIDE DEF Lower
  <2> QED BY <1>2, FS_StrictSubsetOrderingWellFounded, WFMin
<1>4. PICK m \in S : P = Upto(m)
  BY <1>3
<1>5. ASSUME NEW x \in S, x < m PROVE FALSE
  <2>1. S \subseteq Nat /\ ~(m <= x) /\ m <= m
    BY <1>5
  <2>2. \A y \in S : y <= x => y <= m
    BY <1>5, <2>1
  <2>3. Upto(x) \subseteq Upto(m) /\ m \in Upto(m) /\ m \notin Upto(x)
    BY <2>1, <2>2
  <2>4. <<Upto(x), Upto(m)>> \in StrictSubsetOrdering(S)
    BY <2>3 DEF StrictSubsetOrdering
  <2> QED BY <1>3, <1>4, <2>4
<1>6. \A x \in S : m <= x
  BY <1>5
<1> QED BY <1>6 DEF Min

\* A set of natural numbers with 0 and the successor of each of its elements
\* is the set of all of them.
LEMMA AllNaturals ==
  ASSUME NEW S \in SUBSET Nat, 0 \in S, \A n \in S : n + 1 \in S
  PROVE  S = Nat
<1> SUFFICES ASSUME NEW x \in Nat \ S PROVE FALSE
  OBVIOUS
<1> DEFINE m == Min(Nat \ S)
<1>1. m \in Nat \ S /\ \A y \in Nat \ S : m <= y
  BY LeastNumber
<1>2. m # 0 /\ m - 1 \in Nat
  BY <1>1
<1>3. m - 1 \in S
  BY <1>1, <1>2
<1> QED BY <1>1, <1>2, <1>3

\* f begins with a and goes on by g.
Unfolds(f, n, a, g) == f[0] = a /\ \A k \in 1 .. n : f[k] = g[<<k, f[k - 1]>>]

\* What a recursive definition over 0 .. n defines.
LEMMA Recursion ==
  ASSUME NEW n \in Nat, NEW D, NEW a \in D, NEW g \in [(1 .. n) \X D -> D]
  PROVE  \E f \in [0 .. n -> D] : Unfolds(f, n, a, g)
<1> DEFINE Upto(m, f) == f[0] = a /\ \A k \in 1 .. m : f[k] = g[<<k, f[k - 1]>>]
           S == {m \in Nat : m <= n => \E f \in [0 .. m -> D] : Upto(m, f)}
<1>1. 0 \in S
  <2>1. [i \in 0 .. 0 |-> a] \in [0 .. 0 -> D] /\ Upto(0, [i \in 0 .. 0 |-> a])
    OBVIOUS
  <2> QED BY <2>1
<1>2. ASSUME NEW m \in S PROVE m + 1 \in S
  <2> SUFFICES ASSUME m + 1 <= n PROVE \E f \in [0 .. m + 1 -> D] : Upto(m + 1, f)
    OBVIOUS
  <2>1. PICK f \in [0 .. m -> D] : Upto(m, f)
    OBVIOUS
  <2> DEFINE h == [i \in 0 .. m + 1 |-> IF i = m + 1 THEN g[<<m + 1, f[m]>>] ELSE f[i]]
  <2>2. m \in Nat /\ f[m] \in D /\ m + 1 \in 1 .. n
    OBVIOUS
  <2>3. g[<<m + 1, f[m]>>] \in D
    BY <2>2
  <2>4. h \in [0 .. m + 1 -> D]
    BY <2>3
  <2>5. h[0] = a
    BY <2>1, <2>2
  <2>6. ASSUME NEW k \in 1 .. m + 1 PROVE h[k] = g[<<k, h[k - 1]>>]
    <3>1. CASE k = m + 1
      <4>1. h[m + 1] = g[<<m + 1, f[m]>>] /\ h[m] = f[m] /\ k - 1 = m
        BY <2>2, <3>1
      <4> HIDE DEF h
      <4> QED BY <3>1, <4>1
    <3>2. CASE k # m + 1
      BY <2>1, <2>2, <3>2
    <3> QED BY <3>1, <3>2
  <2> HIDE DEF h
  <2>7. Upto(m + 1, h)
    BY <2>5, <2>6
  <2> QED BY <2>4, <2>7
<1>3. S = Nat
  <2> HIDE DEF S
  <2>1. S \in SUBSET Nat
    BY DEF S
  <2> QED BY <1>1, <1>2, <2>1, AllNaturals
<1>4. n \in S
  BY <1>3
<1> QED BY <1>4 DEF Unfolds

\* Rounding down: quotient and remainder are the only ones.
LEMMA Division ==
  ASSUME NEW d \in Nat \ {0}, NEW q \in Nat, NEW r \in Nat, r < d
  PROVE  (q * d + r) \div d = q /\ (q * d + r) % d = r
OBVIOUS

\* Quotient and remainder are determined by the division.
LEMMA QuotientRemainder ==
  ASSUME NEW x \in Nat, NEW d \in Nat \ {0}
  PROVE  /\ x \div d \in Nat /\ (x % d) \in Nat /\ (x % d) < d
         /\ x = (x \div d) * d + (x % d)
OBVIOUS

\* The remainder of a remainder, c * d being a multiple of d.
LEMMA Remainder ==
  ASSUME NEW x \in Nat, NEW c \in Nat \ {0}, NEW d \in Nat \ {0}
  PROVE  (x % (c * d)) % d = x % d
<1> DEFINE n == c * d
           r == x % n
           q == x \div n
           p == r \div d
           s == r % d
<1>1. n \in Nat \ {0}
  OBVIOUS
<1>2. q \in Nat /\ r \in Nat /\ x = q * n + r
  <2> HIDE DEF n
  <2> QED BY <1>1, QuotientRemainder
<1> HIDE DEF r, q
<1>4. p \in Nat /\ s \in Nat /\ r = p * d + s /\ s < d
  BY <1>2, QuotientRemainder
<1> HIDE DEF p, s
<1>5. q * (c * d) = (q * c) * d
  BY <1>2
<1>6. q * c \in Nat /\ q * c + p \in Nat
  BY <1>2, <1>4
<1>7. \A a \in Nat : a * d + (p * d + s) = (a + p) * d + s
  BY <1>4
<1>8. x = (q * c + p) * d + s
  <2>1. x = (q * c) * d + (p * d + s)
    BY <1>2, <1>4, <1>5
  <2> QED BY <1>6, <1>7, <2>1
<1>9. ((q * c + p) * d + s) % d = s
  BY <1>4, <1>6, Division
<1>10. r % d = s
  BY <1>4, Division
<1> QED BY <1>8, <1>9, <1>10 DEF r, n

\* Products of natural numbers grow with their factors.
LEMMA Times ==
  ASSUME NEW a \in Nat, NEW b \in Nat, NEW q \in Nat, a <= b
  PROVE  a * q \in Nat /\ b * q \in Nat /\ a * q <= b * q
<1> DEFINE d == b - a
<1>1. d \in Nat /\ b = a + d
  OBVIOUS
<1>2. d * q \in Nat /\ a * q \in Nat
  BY <1>1
<1>3. (a + d) * q = a * q + d * q
  BY <1>1
<1> HIDE DEF d
<1> QED BY <1>1, <1>2, <1>3

\* k counts through m blocks of n numbers each.
LEMMA Blocks ==
  ASSUME NEW n \in Nat \ {0}, NEW m \in Nat
  PROVE  /\ n * m \in Nat
         /\ \A k \in 1 .. n * m : (k - 1) \div n + 1 \in 1 .. m /\ ((k - 1) % n) + 1 \in 1 .. n
         /\ \A i \in 1 .. m, r \in 1 .. n :
              \E k \in 1 .. n * m : (k - 1) \div n + 1 = i /\ ((k - 1) % n) + 1 = r
         /\ \A k, l \in 1 .. n * m :
              (k - 1) \div n = (l - 1) \div n /\ (k - 1) % n = (l - 1) % n => k = l
<1>1. n * m \in Nat /\ n * m = m * n
  OBVIOUS
<1>2. ASSUME NEW k \in 1 .. n * m
      PROVE  /\ (k - 1) \div n \in Nat /\ ((k - 1) % n) \in Nat /\ ((k - 1) % n) < n
             /\ k - 1 = ((k - 1) \div n) * n + ((k - 1) % n)
  <2>1. k - 1 \in Nat
    BY <1>1
  <2> DEFINE x == k - 1
  <2> HIDE DEF x
  <2> QED BY <2>1, QuotientRemainder DEF x
<1>3. ASSUME NEW k \in 1 .. n * m
      PROVE  (k - 1) \div n + 1 \in 1 .. m /\ ((k - 1) % n) + 1 \in 1 .. n
  <2> DEFINE q == (k - 1) \div n
             s == (k - 1) % n
  <2>1. q \in Nat /\ s \in Nat /\ s < n /\ k - 1 = q * n + s
    BY <1>2
  <2> HIDE DEF q, s
  <2>2. q < m
    <3> SUFFICES ASSUME m <= q PROVE FALSE
      BY <2>1
    <3>1. m * n <= q * n /\ q * n \in Nat
      BY <2>1, Times
    <3> QED BY <1>1, <2>1, <3>1
  <2>3. q + 1 \in 1 .. m /\ s + 1 \in 1 .. n
    BY <2>1, <2>2
  <2> QED BY <2>3 DEF q, s
<1>4. ASSUME NEW i \in 1 .. m, NEW r \in 1 .. n
      PROVE  \E k \in 1 .. n * m : (k - 1) \div n + 1 = i /\ ((k - 1) % n) + 1 = r
  <2> DEFINE x == (i - 1) * n + (r - 1)
  <2>1. i - 1 \in Nat /\ r - 1 \in Nat /\ r - 1 < n
    OBVIOUS
  <2>2. x \div n = i - 1 /\ x % n = r - 1
    <3> DEFINE a == i - 1
               b == r - 1
    <3> HIDE DEF a, b
    <3>1. (a * n + b) \div n = a /\ (a * n + b) % n = b
      BY <2>1, Division DEF a, b
    <3> QED BY <3>1 DEF a, b
  <2>3. x \in Nat /\ x < n * m
    <3>1. (i - 1) * n \in Nat /\ (i - 1) * n + n = i * n /\ i * n <= m * n
      <4>1. i \in Nat /\ i <= m
        OBVIOUS
      <4>2. i * n <= m * n
        BY <4>1, Times
      <4> QED BY <2>1, <4>2
    <3> QED BY <1>1, <2>1, <3>1
  <2> HIDE DEF x
  <2>4. x + 1 \in 1 .. n * m /\ (x + 1) - 1 = x
    BY <1>1, <2>3
  <2>5. ((x + 1) - 1) \div n + 1 = i /\ (((x + 1) - 1) % n) + 1 = r
    BY <2>2, <2>4
  <2> QED BY <2>4, <2>5
<1>5. ASSUME NEW k \in 1 .. n * m, NEW l \in 1 .. n * m,
             (k - 1) \div n = (l - 1) \div n, (k - 1) % n = (l - 1) % n
      PROVE  k = l
  <2>1. k - 1 = l - 1
    BY <1>2, <1>5
  <2> QED BY <1>1, <2>1
<1> QED BY <1>1, <1>3, <1>4, <1>5

\* Induction up to a bound, and down from it.
LEMMA UpTo ==
  ASSUME NEW n \in Nat, NEW S, 0 \in S, \A k \in 0 .. n - 1 : k \in S => k + 1 \in S
  PROVE  \A k \in 0 .. n : k \in S
<1> DEFINE T == {k \in Nat : k <= n => k \in S}
<1>1. 0 \in T
  OBVIOUS
<1>2. ASSUME NEW k \in T PROVE k + 1 \in T
  OBVIOUS
<1>3. T = Nat
  <2> HIDE DEF T
  <2>1. T \in SUBSET Nat
    BY DEF T
  <2> QED BY <1>1, <1>2, <2>1, AllNaturals
<1> QED BY <1>3

LEMMA DownTo ==
  ASSUME NEW n \in Nat, NEW S, n \in S, \A k \in 1 .. n : k \in S => k - 1 \in S
  PROVE  \A k \in 0 .. n : k \in S
<1> DEFINE T == {k \in Nat : k <= n => n - k \in S}
<1>1. 0 \in T
  OBVIOUS
<1>2. ASSUME NEW k \in T PROVE k + 1 \in T
  <2> SUFFICES ASSUME k + 1 <= n PROVE n - (k + 1) \in S
    OBVIOUS
  <2>1. n - k \in 1 .. n /\ n - k \in S /\ (n - k) - 1 = n - (k + 1)
    OBVIOUS
  <2> QED BY <2>1
<1>3. T = Nat
  <2> HIDE DEF T
  <2>1. T \in SUBSET Nat
    BY DEF T
  <2> QED BY <1>1, <1>2, <2>1, AllNaturals
<1>4. ASSUME NEW k \in 0 .. n PROVE k \in S
  <2>1. n - k \in T /\ n - k <= n /\ n - (n - k) = k
    BY <1>3
  <2> QED BY <2>1
<1> QED BY <1>4

\* What a recursive definition over 0 .. n defines: a, and on from there by g.
Recurs(f, n, a, g) == f = [k \in 0 .. n |-> IF k = 0 THEN a ELSE g[<<k, f[k - 1]>>]]

LEMMA Recursive ==
  ASSUME NEW n \in Nat, NEW D, NEW a \in D, NEW g \in [(1 .. n) \X D -> D]
  PROVE  \E f \in [0 .. n -> D] : Recurs(f, n, a, g)
<1>1. PICK f \in [0 .. n -> D] : Unfolds(f, n, a, g)
  BY Recursion
<1>2. ASSUME NEW k \in 0 .. n PROVE f[k] = IF k = 0 THEN a ELSE g[<<k, f[k - 1]>>]
  <2>1. k = 0 \/ k \in 1 .. n
    OBVIOUS
  <2> QED BY <1>1, <2>1 DEF Unfolds
<1>3. f = [k \in 0 .. n |-> f[k]]
  OBVIOUS
<1>4. Recurs(f, n, a, g)
  BY <1>2, <1>3 DEF Recurs
<1> QED BY <1>4

\* Only one function unfolds so.
LEMMA UnfoldsSame ==
  ASSUME NEW n \in Nat, NEW a, NEW g, NEW e, NEW f, Unfolds(e, n, a, g), Unfolds(f, n, a, g)
  PROVE  \A k \in 0 .. n : e[k] = f[k]
<1> DEFINE S == {k \in 0 .. n : e[k] = f[k]}
<1>1. 0 \in S
  BY DEF Unfolds
<1>2. ASSUME NEW k \in 0 .. n - 1, k \in S PROVE k + 1 \in S
  <2>1. k + 1 \in 1 .. n /\ (k + 1) - 1 = k
    OBVIOUS
  <2>2. e[k + 1] = g[<<k + 1, e[k]>>] /\ f[k + 1] = g[<<k + 1, f[k]>>]
    BY <2>1 DEF Unfolds
  <2> QED BY <1>2, <2>1, <2>2
<1>3. \A k \in 0 .. n : k \in S
  <2> HIDE DEF S
  <2> QED BY <1>1, <1>2, UpTo
<1> QED BY <1>3

\* The largest of finitely many numbers.
LEMMA LargestNumber ==
  ASSUME NEW S \in SUBSET Nat, IsFiniteSet(S), S # {}
  PROVE  Max(S) \in S /\ \A x \in S : x <= Max(S)
<1> DEFINE Has(R) == \E x \in R : \A y \in R : y <= x
           T == {n \in Nat : \A R \in SUBSET Nat :
                   IsFiniteSet(R) /\ R # {} /\ Cardinality(R) = n => Has(R)}
<1>1. 0 \in T
  BY FS_EmptySet
<1>2. ASSUME NEW n \in T PROVE n + 1 \in T
  <2> SUFFICES ASSUME NEW R \in SUBSET Nat, IsFiniteSet(R), Cardinality(R) = n + 1, R # {}
               PROVE  Has(R)
    OBVIOUS
  <2>1. PICK x \in R : TRUE
    OBVIOUS
  <2> DEFINE Q == R \ {x}
  <2>2. IsFiniteSet(Q) /\ Cardinality(Q) = n
    <3>1. IsFiniteSet(Q) /\ Cardinality(Q) = Cardinality(R) - 1
      BY <2>1, FS_RemoveElement
    <3> QED BY <3>1
  <2>3. CASE Q = {}
    BY <2>1, <2>3
  <2>4. CASE Q # {}
    <3>1. Has(Q)
      BY <2>2, <2>4
    <3>2. PICK y \in Q : \A z \in Q : z <= y
      BY <3>1
    <3>3. CASE x <= y
      BY <3>2, <3>3
    <3>4. CASE ~(x <= y)
      <4>1. x \in Nat /\ y \in Nat /\ y <= x /\ \A z \in Q : z <= x
        BY <3>2, <3>4
      <4> QED BY <4>1
    <3> QED BY <3>3, <3>4
  <2> QED BY <2>3, <2>4
<1>3. T = Nat
  <2> HIDE DEF T
  <2>1. T \in SUBSET Nat
    BY DEF T
  <2> QED BY <1>1, <1>2, <2>1, AllNaturals
<1>4. PICK x \in S : \A y \in S : y <= x
  <2>1. Cardinality(S) \in T
    BY <1>3, FS_CardinalityType
  <2> QED BY <2>1
<1>5. \A y \in S : x >= y
  BY <1>4
<1> QED BY <1>5 DEF Max

\* The largest value of a function on 1 .. n.
LEMMA LargestValue ==
  ASSUME NEW n \in Nat \ {0}, NEW f \in [1 .. n -> Nat]
  PROVE  /\ Max({f[k] : k \in 1 .. n}) \in Nat
         /\ \E k \in 1 .. n : Max({f[i] : i \in 1 .. n}) = f[k]
         /\ \A k \in 1 .. n : f[k] <= Max({f[i] : i \in 1 .. n})
<1> DEFINE S == {f[k] : k \in 1 .. n}
<1>1. S \in SUBSET Nat /\ f[1] \in S
  OBVIOUS
<1>2. IsFiniteSet(S)
  <2>1. IsFiniteSet(1 .. n)
    BY FS_Interval
  <2>2. f \in Surjection(1 .. n, S)
    BY DEF Surjection
  <2> QED BY <2>1, <2>2, FS_Surjection
<1>3. Max(S) \in S /\ \A x \in S : x <= Max(S)
  <2> HIDE DEF S
  <2> QED BY <1>1, <1>2, LargestNumber
<1> QED BY <1>1, <1>3

-----------------------------------------------------------------------------
(* Orders *)

\* The elements of a finite set in an order of them.
InOrder(S, R) ==
  [n \in 1 .. Cardinality(S) |->
     CHOOSE x \in S : Cardinality({y \in S : <<y, x>> \in R}) = n - 1]

\* R orders S strictly and totally.
StrictOrder(R, S) ==
  /\ \A x \in S : <<x, x>> \notin R
  /\ \A x, y, z \in S : <<x, y>> \in R /\ <<y, z>> \in R => <<x, z>> \in R
  /\ \A x, y \in S : x # y => <<x, y>> \in R \/ <<y, x>> \in R

\* InOrder yields each element of a finite set once, in order.
LEMMA InOrderElements ==
  ASSUME NEW S, IsFiniteSet(S), NEW R, StrictOrder(R, S)
  PROVE  /\ Cardinality(S) \in Nat
         /\ InOrder(S, R) \in [1 .. Cardinality(S) -> S]
         /\ \A x \in S : \E n \in 1 .. Cardinality(S) : InOrder(S, R)[n] = x
         /\ \A i, j \in 1 .. Cardinality(S) : i < j => <<InOrder(S, R)[i], InOrder(S, R)[j]>> \in R
<1> DEFINE Below(x) == {y \in S : <<y, x>> \in R}
           rank == [x \in S |-> Cardinality(Below(x)) + 1]
           c == Cardinality(S)
<1>1. c \in Nat
  BY FS_CardinalityType
<1>2. ASSUME NEW x \in S
      PROVE  IsFiniteSet(Below(x)) /\ Cardinality(Below(x)) \in Nat /\ Cardinality(Below(x)) < c
  <2> DEFINE B == Below(x)
  <2>1. B \subseteq S /\ x \notin B
    BY DEF StrictOrder
  <2> HIDE DEF B
  <2>2. IsFiniteSet(B) /\ Cardinality(B) <= c /\ (Cardinality(B) = c => S = B)
    BY <2>1, FS_Subset
  <2>3. Cardinality(B) \in Nat
    BY <2>2, FS_CardinalityType
  <2>4. Cardinality(B) < c
    BY <1>1, <2>1, <2>2, <2>3
  <2> QED BY <2>2, <2>3, <2>4 DEF B
<1>3. ASSUME NEW x \in S, NEW y \in S, <<x, y>> \in R PROVE rank[x] < rank[y]
  <2> DEFINE A == Below(x)
             B == Below(y)
  <2>1. A \subseteq B /\ x \in B /\ x \notin A
    BY <1>3 DEF StrictOrder
  <2>2. IsFiniteSet(B) /\ Cardinality(A) \in Nat /\ Cardinality(B) \in Nat
    BY <1>2
  <2>3. rank[x] = Cardinality(A) + 1 /\ rank[y] = Cardinality(B) + 1
    OBVIOUS
  <2> HIDE DEF A, B, rank
  <2>4. Cardinality(A) <= Cardinality(B) /\ (Cardinality(A) = Cardinality(B) => A = B)
    BY <2>1, <2>2, FS_Subset
  <2> QED BY <2>1, <2>2, <2>3, <2>4
<1>4. rank \in [S -> 1 .. c]
  <2>1. \A x \in S : Cardinality(Below(x)) \in Nat /\ Cardinality(Below(x)) < c
    BY <1>2
  <2> HIDE DEF Below, c
  <2>2. \A x \in S : Cardinality(Below(x)) + 1 \in 1 .. c
    BY <1>1, <2>1
  <2> QED BY <2>2
<1>5. \A x, y \in S : rank[x] = rank[y] => x = y
  <2> SUFFICES ASSUME NEW x \in S, NEW y \in S, x # y PROVE rank[x] # rank[y]
    OBVIOUS
  <2>1. rank[x] \in Nat /\ rank[y] \in Nat
    BY <1>1, <1>4
  <2>2. <<x, y>> \in R \/ <<y, x>> \in R
    BY DEF StrictOrder
  <2>3. rank[x] < rank[y] \/ rank[y] < rank[x]
    BY <1>3, <2>2
  <2> HIDE DEF rank
  <2> QED BY <2>1, <2>3
<1>6. rank \in Injection(S, 1 .. c)
  <2> HIDE DEF rank
  <2> QED BY <1>4, <1>5 DEF Injection, IsInjective
<1>7. rank \in Surjection(S, 1 .. c)
  <2>1. IsFiniteSet(1 .. c) /\ Cardinality(1 .. c) = c
    BY <1>1, FS_Interval
  <2> HIDE DEF rank
  <2> QED BY <1>6, <2>1, FS_Injection
<1> DEFINE L == InOrder(S, R)
<1>8. ASSUME NEW n \in 1 .. c PROVE L[n] \in S /\ rank[L[n]] = n
  <2>1. PICK x \in S : rank[x] = n
    <3> HIDE DEF rank
    <3> QED BY <1>7 DEF Surjection
  <2>2. Cardinality(Below(x)) = n - 1
    <3>1. Cardinality(Below(x)) \in Nat /\ rank[x] = Cardinality(Below(x)) + 1
      BY <1>2
    <3> HIDE DEF Below, rank
    <3> QED BY <2>1, <3>1
  <2>3. L[n] = CHOOSE y \in S : Cardinality(Below(y)) = n - 1
    BY DEF InOrder
  <2>4. L[n] \in S /\ Cardinality(Below(L[n])) = n - 1
    BY <2>2, <2>3
  <2> HIDE DEF L, c
  <2>5. rank[L[n]] = Cardinality(Below(L[n])) + 1
    BY <2>4
  <2> HIDE DEF Below, rank
  <2> QED BY <1>1, <2>4, <2>5
<1>9. DOMAIN L = 1 .. c /\ L = [n \in 1 .. c |-> L[n]]
  <2> DEFINE element(n) == CHOOSE x \in S : Cardinality({y \in S : <<y, x>> \in R}) = n - 1
  <2>1. L = [n \in 1 .. c |-> element(n)]
    BY DEF InOrder
  <2> HIDE DEF L, c, element
  <2> QED BY <2>1
<1>10. L \in [1 .. c -> S]
  <2> HIDE DEF L
  <2> QED BY <1>8, <1>9
<1>11. \A x \in S : \E n \in 1 .. c : L[n] = x
  <2> HIDE DEF L, rank
  <2> QED BY <1>4, <1>5, <1>8
<1>12. ASSUME NEW i \in 1 .. c, NEW j \in 1 .. c, i < j PROVE <<L[i], L[j]>> \in R
  <2>1. L[i] # L[j] /\ ~(rank[L[j]] < rank[L[i]])
    <3> HIDE DEF L, rank, c
    <3> QED BY <1>1, <1>8, <1>12
  <2>2. <<L[j], L[i]>> \notin R
    <3> HIDE DEF L, rank
    <3> QED BY <1>3, <1>8, <2>1
  <2> HIDE DEF L, rank
  <2> QED BY <1>8, <2>1, <2>2 DEF StrictOrder
<1> HIDE DEF L
<1>13. /\ L \in [1 .. c -> S]
       /\ \A x \in S : \E n \in 1 .. c : L[n] = x
       /\ \A i, j \in 1 .. c : i < j => <<L[i], L[j]>> \in R
  BY <1>10, <1>11, <1>12
<1> QED BY <1>1, <1>13 DEF L

-----------------------------------------------------------------------------
(* Parts of sequences *)

\* The elements of a part of a sequence ...
LEMMA SubSeqElements ==
  ASSUME NEW T, NEW s \in Seq(T), NEW m \in 1 .. Len(s) + 1, NEW n \in 0 .. Len(s), m <= n + 1
  PROVE  LET v == SubSeq(s, m, n) IN
         /\ v \in Seq(T) /\ Len(v) = n - m + 1 /\ DOMAIN v = 1 .. n - m + 1
         /\ \A i \in 1 .. n - m + 1 : v[i] = s[i + m - 1]
OBVIOUS

\* ... of its first n elements ...
LEMMA FrontElements ==
  ASSUME NEW T, NEW s \in Seq(T), NEW n \in 0 .. Len(s)
  PROVE  LET v == SubSeq(s, 1, n) IN
         /\ v \in Seq(T) /\ Len(v) = n /\ DOMAIN v = 1 .. n
         /\ \A i \in 1 .. n : v[i] = s[i]
OBVIOUS

\* ... of two sequences together ...
LEMMA ConcatElements ==
  ASSUME NEW T, NEW s \in Seq(T), NEW t \in Seq(T)
  PROVE  LET v == s \o t IN
         /\ v \in Seq(T) /\ Len(v) = Len(s) + Len(t) /\ DOMAIN v = 1 .. Len(s) + Len(t)
         /\ \A i \in 1 .. Len(s) + Len(t) : v[i] = IF i <= Len(s) THEN s[i] ELSE t[i - Len(s)]
OBVIOUS

\* ... of what remains without one of them ...
LEMMA WithoutElements ==
  ASSUME NEW T, NEW s \in Seq(T), NEW k \in 1 .. Len(s)
  PROVE  LET v == SubSeq(s, 1, k - 1) \o SubSeq(s, k + 1, Len(s)) IN
         /\ v \in Seq(T) /\ Len(v) = Len(s) - 1 /\ DOMAIN v = 1 .. Len(s) - 1
         /\ \A n \in 1 .. Len(s) - 1 : v[n] = s[IF n < k THEN n ELSE n + 1]
<1> DEFINE a == SubSeq(s, 1, k - 1)
           b == SubSeq(s, k + 1, Len(s))
<1>1. Len(s) \in Nat
  OBVIOUS
<1>2. a \in Seq(T) /\ Len(a) = k - 1 /\ \A i \in 1 .. k - 1 : a[i] = s[i]
  OBVIOUS
<1>3. b \in Seq(T) /\ Len(b) = Len(s) - k /\ \A i \in 1 .. Len(s) - k : b[i] = s[i + k]
  OBVIOUS
<1> HIDE DEF a, b
<1> DEFINE v == a \o b
<1>4. /\ v \in Seq(T) /\ Len(v) = Len(a) + Len(b) /\ DOMAIN v = 1 .. Len(a) + Len(b)
      /\ \A i \in 1 .. Len(a) + Len(b) : v[i] = IF i <= Len(a) THEN a[i] ELSE b[i - Len(a)]
  BY <1>2, <1>3, ConcatElements
<1>5. Len(a) + Len(b) = Len(s) - 1
  BY <1>1, <1>2, <1>3
<1> HIDE DEF v
<1>6. ASSUME NEW n \in 1 .. Len(s) - 1 PROVE v[n] = s[IF n < k THEN n ELSE n + 1]
  <2>1. CASE n < k
    <3>1. n \in 1 .. k - 1
      BY <1>1, <2>1
    <3>2. v[n] = a[n]
      BY <1>1, <1>2, <1>4, <1>5, <3>1
    <3> QED BY <1>2, <2>1, <3>1, <3>2
  <2>2. CASE ~(n < k)
    <3>1. v[n] = b[n - (k - 1)] /\ n - (k - 1) \in 1 .. Len(s) - k
      BY <1>1, <1>2, <1>4, <1>5, <2>2
    <3>2. n - (k - 1) + k = n + 1
      BY <1>1
    <3> QED BY <1>3, <2>2, <3>1, <3>2
  <2> QED BY <2>1, <2>2
<1> QED BY <1>4, <1>5, <1>6 DEF v, a, b

\* ... and of what there is with one more.
LEMMA InsertAtElements ==
  ASSUME NEW T, NEW s \in Seq(T), NEW k \in 1 .. Len(s) + 1, NEW x \in T
  PROVE  LET v == InsertAt(s, k, x) IN
         /\ v \in Seq(T) /\ Len(v) = Len(s) + 1 /\ DOMAIN v = 1 .. Len(s) + 1
         /\ \A n \in 1 .. Len(s) + 1 :
              v[n] = IF n < k THEN s[n] ELSE IF n = k THEN x ELSE s[n - 1]
<1> DEFINE a == SubSeq(s, 1, k - 1)
           b == SubSeq(s, k, Len(s))
           c == a \o <<x>>
           v == c \o b
<1>1. Len(s) \in Nat
  OBVIOUS
<1>2. a \in Seq(T) /\ Len(a) = k - 1 /\ \A i \in 1 .. k - 1 : a[i] = s[i]
  OBVIOUS
<1>3. b \in Seq(T) /\ Len(b) = Len(s) - k + 1 /\ \A i \in 1 .. Len(s) - k + 1 : b[i] = s[i + k - 1]
  OBVIOUS
<1> HIDE DEF a, b
<1>4. c \in Seq(T) /\ Len(c) = k /\ c[k] = x /\ \A i \in 1 .. k - 1 : c[i] = s[i]
  BY <1>1, <1>2
<1> HIDE DEF c
<1>5. /\ v \in Seq(T) /\ Len(v) = Len(c) + Len(b) /\ DOMAIN v = 1 .. Len(c) + Len(b)
      /\ \A i \in 1 .. Len(c) + Len(b) : v[i] = IF i <= Len(c) THEN c[i] ELSE b[i - Len(c)]
  BY <1>3, <1>4, ConcatElements
<1>6. Len(c) + Len(b) = Len(s) + 1
  BY <1>1, <1>3, <1>4
<1> HIDE DEF v
<1>7. ASSUME NEW n \in 1 .. Len(s) + 1
      PROVE  v[n] = IF n < k THEN s[n] ELSE IF n = k THEN x ELSE s[n - 1]
  <2>1. CASE n <= k
    <3>1. v[n] = c[n]
      BY <1>1, <1>4, <1>5, <1>6, <2>1
    <3>2. CASE n = k
      BY <1>4, <3>1, <3>2
    <3>3. CASE n \in 1 .. k - 1
      BY <1>4, <3>1, <3>3
    <3> QED BY <1>1, <2>1, <3>2, <3>3
  <2>2. CASE ~(n <= k)
    <3>1. v[n] = b[n - k] /\ n - k \in 1 .. Len(s) - k + 1
      BY <1>1, <1>4, <1>5, <1>6, <2>2
    <3>2. n - k + k - 1 = n - 1
      BY <1>1
    <3>3. v[n] = s[n - 1]
      BY <1>3, <3>1, <3>2
    <3> QED BY <2>2, <3>3
  <2> QED BY <2>1, <2>2
<1>8. InsertAt(s, k, x) = v
  BY DEF InsertAt, v, c, a, b
<1> QED BY <1>5, <1>6, <1>7, <1>8
=============================================================================
