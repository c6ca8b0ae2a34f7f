----------------------------- MODULE DistProofs -----------------------------
(*****************************************************************************)
(* Proofs about Dist, for any number of workers, leaves, IVMs and crashes:   *)
(* ids tell work units apart, whatever is divided, duplicated, merged and    *)
(* restarted, so that no two workers report to one copy; the master leaves   *)
(* its loop after all workers; and no step loses the optimal leaf outside    *)
(* the known gaps.                                                           *)
(*                                                                           *)
(* They begin with lemmas about Intervals: what sorting, splitting,          *)
(* dividing, taking, sharing, converting and intersecting work units does to *)
(* their leaves, and which of their properties it keeps.                     *)
(*****************************************************************************)
EXTENDS Dist, DataLemmas

-----------------------------------------------------------------------------
(* Orders, factorials and intervals *)

\* Listed yields each element of a finite set once, in order.
LEMMA ListedElements ==
  ASSUME NEW S, IsFiniteSet(S), NEW R, StrictOrder(R, S)
  PROVE  /\ Cardinality(S) \in Nat
         /\ Listed(S, R) \in [1 .. Cardinality(S) -> S]
         /\ \A x \in S : \E n \in 1 .. Cardinality(S) : Listed(S, R)[n] = x
         /\ \A i, j \in 1 .. Cardinality(S) : i < j => <<Listed(S, R)[i], Listed(S, R)[j]>> \in R
<1>1. Listed(S, R) = InOrder(S, R)
  BY DEF Listed, InOrder
<1> QED BY <1>1, InOrderElements

-----------------------------------------------------------------------------
(* Decimals and factoradic vectors *)

\* The weights are the factorials.
LEMMA Depths ==
  /\ depth \in [0 .. pbsize -> Nat \ {0}]
  /\ depth[pbsize] = 1
  /\ \A i \in 0 .. pbsize - 1 : depth[i] = (pbsize - i) * depth[i + 1]
<1> DEFINE g == [p \in (1 .. pbsize) \X (Nat \ {0}) |-> p[1] * p[2]]
<1>1. pbsize \in Nat
  BY IntervalAssumption
<1>2. g \in [(1 .. pbsize) \X (Nat \ {0}) -> Nat \ {0}]
  BY <1>1
<1>3. PICK h \in [0 .. pbsize -> Nat \ {0}] :
        h[0] = 1 /\ \A k \in 1 .. pbsize : h[k] = g[<<k, h[k - 1]>>]
  <2> DEFINE D == Nat \ {0}
             one == 1
  <2>1. one \in D /\ g \in [(1 .. pbsize) \X D -> D]
    BY <1>2
  <2> HIDE DEF g, D, one
  <2>2. \E h \in [0 .. pbsize -> D] : Unfolds(h, pbsize, one, g)
    BY <1>1, <2>1, Recursion
  <2> QED BY <2>2 DEF D, one, Unfolds
<1>4. ASSUME NEW k \in 1 .. pbsize PROVE h[k] = k * h[k - 1]
  <2>1. h[k - 1] \in Nat \ {0}
    BY <1>1
  <2>2. g[<<k, h[k - 1]>>] = k * h[k - 1]
    BY <2>1
  <2> QED BY <1>3, <2>2
<1> DEFINE f == [i \in 0 .. pbsize |-> h[pbsize - i]]
<1>5. f = [i \in 0 .. pbsize |-> IF i = pbsize THEN 1 ELSE (pbsize - i) * f[i + 1]]
  <2>1. ASSUME NEW i \in 0 .. pbsize, i # pbsize PROVE f[i] = (pbsize - i) * f[i + 1]
    BY <1>1, <1>4, <2>1
  <2>2. f[pbsize] = 1
    BY <1>1, <1>3
  <2> HIDE DEF f
  <2>3. f = [i \in 0 .. pbsize |-> f[i]]
    BY DEF f
  <2> QED BY <2>1, <2>2, <2>3
<1> HIDE DEF f
<1>6. depth = [i \in 0 .. pbsize |-> IF i = pbsize THEN 1 ELSE (pbsize - i) * depth[i + 1]]
  BY <1>5 DEF depth
<1> DEFINE S == {k \in Nat : k <= pbsize => depth[pbsize - k] = h[k]}
<1>7. 0 \in S
  BY <1>1, <1>3, <1>6
<1>8. ASSUME NEW k \in S PROVE k + 1 \in S
  BY <1>1, <1>4, <1>6
<1>9. S = Nat
  <2> HIDE DEF S
  <2>1. S \in SUBSET Nat
    BY DEF S
  <2> QED BY <1>7, <1>8, <2>1, AllNaturals
<1>10. ASSUME NEW i \in 0 .. pbsize PROVE depth[i] = h[pbsize - i]
  <2>1. pbsize - i \in S
    <3>1. pbsize - i \in Nat
      BY <1>1
    <3> HIDE DEF S
    <3> QED BY <1>9, <3>1
  <2>2. pbsize - i <= pbsize /\ pbsize - (pbsize - i) = i
    BY <1>1
  <2> QED BY <2>1, <2>2
<1>11. depth \in [0 .. pbsize -> Nat \ {0}]
  <2>1. DOMAIN depth = 0 .. pbsize
    BY <1>6
  <2>2. depth = [i \in 0 .. pbsize |-> depth[i]]
    BY <1>6
  <2> QED BY <1>1, <1>3, <1>10, <2>2
<1>12. depth[pbsize] = 1
  BY <1>1, <1>6
<1>13. \A i \in 0 .. pbsize - 1 : depth[i] = (pbsize - i) * depth[i + 1]
  BY <1>1, <1>6
<1> QED BY <1>11, <1>12, <1>13

\* A number is got back from its digits.
LEMMA WeighExpand ==
  ASSUME NEW x \in Nat PROVE Weigh(Expand(x)) = x
<1> DEFINE v == Expand(x)
           upto(i) == x - (x % depth[i])
           f == [i \in 0 .. pbsize |-> IF i = 0 THEN 0 ELSE upto(i)]
           step(h) == [i \in 0 .. pbsize |-> IF i = 0 THEN 0 ELSE h[i - 1] + W(i, v[i])]
<1>1. pbsize \in Nat \ {0}
  BY IntervalAssumption
<1>2. \A i \in 0 .. pbsize : depth[i] \in Nat \ {0}
  BY Depths
<1>3. ASSUME NEW i \in 1 .. pbsize PROVE v[i] \in Nat /\ f[i] = f[i - 1] + W(i, v[i])
  <2>1. CASE i = 1
    <3>1. v[1] = x \div depth[1]
      BY <1>1 DEF Expand
    <3>2. f[1] = upto(1) /\ f[0] = 0
      BY <1>1
    <3>3. depth[1] \in Nat \ {0}
      BY <1>1, <1>2
    <3>4. v[1] \in Nat /\ x = v[1] * depth[1] + (x % depth[1]) /\ (x % depth[1]) \in Nat
      BY <3>1, <3>3, QuotientRemainder
    <3> HIDE DEF v, f
    <3> QED BY <2>1, <3>2, <3>3, <3>4 DEF W
  <2>2. CASE i # 1
    <3>1. i \in 2 .. pbsize /\ i - 1 \in 1 .. pbsize /\ i - 1 \in 0 .. pbsize - 1
      BY <1>1, <2>2
    <3> DEFINE c == pbsize - i + 1
               d == depth[i]
               r == x % depth[i - 1]
    <3>2. c \in Nat \ {0} /\ d \in Nat \ {0} /\ depth[i - 1] = c * d
      <4>1. depth[i - 1] = (pbsize - (i - 1)) * depth[(i - 1) + 1]
        BY <3>1, Depths
      <4>2. (i - 1) + 1 = i /\ pbsize - (i - 1) = c
        BY <1>1
      <4> QED BY <1>1, <1>2, <4>1, <4>2
    <3>3. v[i] = r \div d
      BY <2>2 DEF Expand
    <3>4. r \in Nat
      <4>1. depth[i - 1] \in Nat \ {0}
        BY <1>1, <1>2
      <4> QED BY <4>1, QuotientRemainder
    <3>5. v[i] \in Nat /\ (r % d) \in Nat /\ r = v[i] * d + (r % d)
      <4> HIDE DEF r, d
      <4> QED BY <3>2, <3>3, <3>4, QuotientRemainder
    <3>6. r % d = x % d
      <4>1. (x % (c * d)) % d = x % d
        <5> HIDE DEF c, d
        <5> QED BY <3>2, Remainder
      <4>2. r = x % (c * d)
        BY <3>2
      <4> QED BY <4>1, <4>2
    <3>7. f[i] = x - (x % d) /\ f[i - 1] = x - r
      BY <3>1
    <3> HIDE DEF v, f, d, r
    <3>8. W(i, v[i]) = v[i] * d
      BY DEF W, d
    <3> QED BY <3>2, <3>4, <3>5, <3>6, <3>7, <3>8
  <2> QED BY <2>1, <2>2
<1>4. f = step(f)
  <2>1. f[0] = 0 /\ f = [i \in 0 .. pbsize |-> f[i]]
    BY <1>1
  <2> HIDE DEF f, v
  <2>2. ASSUME NEW i \in 0 .. pbsize PROVE f[i] = IF i = 0 THEN 0 ELSE f[i - 1] + W(i, v[i])
    <3>1. i # 0 => i \in 1 .. pbsize
      BY <1>1
    <3> QED BY <1>3, <2>1, <3>1
  <2>3. f = [i \in 0 .. pbsize |-> IF i = 0 THEN 0 ELSE f[i - 1] + W(i, v[i])]
    BY <2>1, <2>2
  <2> QED BY <2>3
<1> HIDE DEF f
<1>5. PICK h : h = step(h) /\ Weigh(v) = h[pbsize]
  BY <1>4 DEF Weigh
<1> DEFINE S == {i \in Nat : i <= pbsize => h[i] = f[i]}
<1>6. 0 \in S
  <2> HIDE DEF v
  <2> QED BY <1>1, <1>4, <1>5
<1>7. ASSUME NEW i \in S PROVE i + 1 \in S
  <2> SUFFICES ASSUME i + 1 <= pbsize PROVE h[i + 1] = f[i + 1]
    OBVIOUS
  <2>1. i \in Nat /\ h[i] = f[i] /\ i + 1 \in 0 .. pbsize /\ i + 1 # 0 /\ (i + 1) - 1 = i
    BY <1>1
  <2> HIDE DEF v, S
  <2>2. h[i + 1] = h[i] + W(i + 1, v[i + 1]) /\ f[i + 1] = f[i] + W(i + 1, v[i + 1])
    BY <1>4, <1>5, <2>1
  <2> QED BY <2>1, <2>2
<1>8. S = Nat
  <2> HIDE DEF S
  <2>1. S \in SUBSET Nat
    BY DEF S
  <2> QED BY <1>6, <1>7, <2>1, AllNaturals
<1>9. h[pbsize] = f[pbsize]
  BY <1>1, <1>8
<1>10. f[pbsize] = x - (x % 1)
  BY <1>1, Depths DEF f
<1> QED BY <1>5, <1>9, <1>10

-----------------------------------------------------------------------------
(* Work units *)

Ivl == [b : Nat, e : Nat, id : Nat]
Span(i) == i.b .. i.e

\* Every interval ends before the next one, which may be inverted, begins and ends.
Ascending(u) ==
  \A i, j \in DOMAIN u : i < j => u[i].e < u[j].b /\ u[i].e < u[j].e

\* Neither interval lies before the other one.
Near(x, y) == x.b <= y.e /\ y.b <= x.e

\* An interval of u that is near one of s lies behind those before that one and
\* before those behind it.
Fits(u, s) ==
  \A k \in DOMAIN u, i \in DOMAIN s : Near(u[k], s[i]) =>
    \A h \in DOMAIN s : (h < i => s[h].e < u[k].b) /\ (i < h => u[k].e < s[h].b)

Inside(x, y) == y.b <= x.b /\ x.e <= y.e

\* Every interval of v lies in one of u, that p names.
Shrinks(v, u, p) == p \in [DOMAIN v -> DOMAIN u] /\ \A n \in DOMAIN v : Inside(v[n], u[p[n]])

\* So do the long ones, and those that lie in the same one are apart.
LongShrinks(v, u, p) ==
  /\ p \in [DOMAIN v -> DOMAIN u]
  /\ \A n \in DOMAIN v : v[n].b < v[n].e => Inside(v[n], u[p[n]])
  /\ \A n, m \in DOMAIN v :
       n # m /\ p[n] = p[m] /\ v[n].b < v[n].e /\ v[m].b < v[m].e
         => v[n].e < v[m].b \/ v[m].e < v[n].b

\* Functions on the first numbers are sequences ...
LEMMA FunctionSeq ==
  ASSUME NEW n \in Nat, NEW S, NEW f \in [1 .. n -> S]
  PROVE  f \in Seq(S) /\ Len(f) = n /\ DOMAIN f = 1 .. n
OBVIOUS

\* ... and the other way round.
LEMMA SeqFunction ==
  ASSUME NEW S, NEW s \in Seq(S)
  PROVE  /\ Len(s) \in Nat /\ DOMAIN s = 1 .. Len(s) /\ s \in [1 .. Len(s) -> S]
         /\ \A i \in DOMAIN s : s[i] \in S
OBVIOUS

\* The bounds of intervals are natural numbers.
LEMMA Bounds ==
  ASSUME NEW s \in Seq(Ivl)
  PROVE  /\ Len(s) \in Nat /\ DOMAIN s = 1 .. Len(s)
         /\ \A i \in DOMAIN s : s[i] \in Ivl /\ s[i].b \in Nat /\ s[i].e \in Nat
<1>1. \A x \in Ivl : x.b \in Nat /\ x.e \in Nat
  BY DEF Ivl
<1> QED BY <1>1, SeqFunction

\* Intervals that lie in intervals that are apart are apart.
LEMMA LongApartKept ==
  ASSUME NEW u \in Seq(Ivl), NEW v \in Seq(Ivl), NEW p, LongShrinks(v, u, p), LongApart(u)
  PROVE  LongApart(v)
<1> SUFFICES ASSUME NEW i \in DOMAIN v, NEW j \in DOMAIN v, i # j,
                    v[i].b < v[i].e, v[j].b < v[j].e
             PROVE  v[i].e < v[j].b \/ v[j].e < v[i].b
  BY DEF LongApart
<1>1. CASE p[i] = p[j]
  BY <1>1 DEF LongShrinks
<1>2. CASE p[i] # p[j]
  <2> DEFINE x == u[p[i]]
             y == u[p[j]]
  <2>1. /\ p[i] \in DOMAIN u /\ p[j] \in DOMAIN u
        /\ x.b \in Nat /\ x.e \in Nat /\ y.b \in Nat /\ y.e \in Nat
        /\ v[i].b \in Nat /\ v[i].e \in Nat /\ v[j].b \in Nat /\ v[j].e \in Nat
    BY Bounds DEF LongShrinks
  <2>2. x.b <= v[i].b /\ v[i].e <= x.e /\ y.b <= v[j].b /\ v[j].e <= y.e
    BY DEF LongShrinks, Inside
  <2> HIDE DEF x, y
  <2>3. x.b < x.e /\ y.b < y.e
    <3>1. x.b < x.e
      BY <2>1, <2>2
    <3>2. y.b < y.e
      BY <2>1, <2>2
    <3> QED BY <3>1, <3>2
  <2>4. x.e < y.b \/ y.e < x.b
    BY <1>2, <2>1, <2>3 DEF LongApart, x, y
  <2>5. CASE x.e < y.b
    <3>1. v[i].e < v[j].b
      BY <2>1, <2>2, <2>5
    <3> QED BY <3>1
  <2>6. CASE y.e < x.b
    <3>1. v[j].e < v[i].b
      BY <2>1, <2>2, <2>6
    <3> QED BY <3>1
  <2> QED BY <2>4, <2>5, <2>6
<1> QED BY <1>1, <1>2

\* Intervals that lie in intervals that meet at most one each do so.
LEMMA FitsKept ==
  ASSUME NEW u \in Seq(Ivl), NEW v \in Seq(Ivl), NEW p, Shrinks(v, u, p),
         NEW s \in Seq(Ivl), Fits(u, s)
  PROVE  Fits(v, s)
<1> SUFFICES ASSUME NEW k \in DOMAIN v, NEW i \in DOMAIN s, Near(v[k], s[i]), NEW h \in DOMAIN s
             PROVE  (h < i => s[h].e < v[k].b) /\ (i < h => v[k].e < s[h].b)
  BY DEF Fits
<1> DEFINE x == u[p[k]]
<1>1. /\ p[k] \in DOMAIN u /\ v[k].b \in Nat /\ v[k].e \in Nat /\ x.b \in Nat /\ x.e \in Nat
      /\ s[i].b \in Nat /\ s[i].e \in Nat /\ s[h].b \in Nat /\ s[h].e \in Nat
  BY Bounds DEF Shrinks
<1>2. x.b <= v[k].b /\ v[k].e <= x.e
  BY DEF Shrinks, Inside
<1>3. Near(x, s[i])
  <2> HIDE DEF x
  <2> QED BY <1>1, <1>2 DEF Near
<1>4. (h < i => s[h].e < x.b) /\ (i < h => x.e < s[h].b)
  BY <1>1, <1>3 DEF Fits
<1> HIDE DEF x
<1> QED BY <1>1, <1>2, <1>4

\* Intervals in order fit themselves.
LEMMA AscendingFits ==
  ASSUME NEW s \in Seq(Ivl), Ascending(s) PROVE Fits(s, s)
<1> SUFFICES ASSUME NEW k \in DOMAIN s, NEW i \in DOMAIN s, Near(s[k], s[i]), NEW h \in DOMAIN s
             PROVE  (h < i => s[h].e < s[k].b) /\ (i < h => s[k].e < s[h].b)
  BY DEF Fits
<1>1. /\ s[k].b \in Nat /\ s[k].e \in Nat /\ s[i].b \in Nat /\ s[i].e \in Nat
      /\ k \in Int /\ i \in Int
  BY Bounds
<1>2. ~(s[k].e < s[i].b) /\ ~(s[i].e < s[k].b)
  BY <1>1 DEF Near
<1>3. k = i
  BY <1>1, <1>2 DEF Ascending
<1> QED BY <1>3 DEF Ascending

-----------------------------------------------------------------------------
(* What is picked from a work unit, and the report of a worker *)

\* v has the elements of u at the places S, p says which of v is which of u.
Picks(v, u, S, p) ==
  /\ p \in [DOMAIN v -> S]
  /\ \A x \in S : \E n \in DOMAIN v : p[n] = x
  /\ \A n, m \in DOMAIN v : p[n] = p[m] => n = m
  /\ \A n \in DOMAIN v : v[n] = u[p[n]]

\* Elements are picked in the order R of their places.
LEMMA Selection ==
  ASSUME NEW T, NEW u \in Seq(T), NEW S \in SUBSET DOMAIN u, NEW R, StrictOrder(R, S)
  PROVE  LET v == At(u, Listed(S, R)) IN
         /\ v \in Seq(T)
         /\ \E p : /\ Picks(v, u, S, p)
                   /\ \A n, m \in DOMAIN v : n < m => <<p[n], p[m]>> \in R
<1> DEFINE p == Listed(S, R)
           c == Cardinality(S)
           v == At(u, p)
<1>1. IsFiniteSet(S)
  <2>1. IsFiniteSet(DOMAIN u)
    BY SeqFunction, FS_Interval
  <2> QED BY <2>1, FS_Subset
<1>2. /\ c \in Nat
      /\ p \in [1 .. c -> S]
      /\ \A x \in S : \E n \in 1 .. c : p[n] = x
      /\ \A i, j \in 1 .. c : i < j => <<p[i], p[j]>> \in R
  BY <1>1, ListedElements
<1> HIDE DEF p, c
<1>3. v = [n \in 1 .. c |-> u[p[n]]]
  BY <1>2 DEF At
<1>4. v \in [1 .. c -> T]
  BY <1>2, <1>3, SeqFunction
<1>5. v \in Seq(T) /\ DOMAIN v = 1 .. c
  <2> HIDE DEF v
  <2> QED BY <1>2, <1>4, FunctionSeq
<1>6. ASSUME NEW n \in 1 .. c, NEW m \in 1 .. c, p[n] = p[m] PROVE n = m
  <2>1. p[n] \in S /\ <<p[n], p[n]>> \notin R
    BY <1>2 DEF StrictOrder
  <2>2. ~(n < m) /\ ~(m < n)
    BY <1>2, <1>6, <2>1
  <2> QED BY <1>2, <2>2
<1>7. Picks(v, u, S, p)
  <2> HIDE DEF v
  <2>1. \A n \in 1 .. c : v[n] = u[p[n]]
    BY <1>3
  <2> QED BY <1>2, <1>5, <1>6, <2>1 DEF Picks
<1> HIDE DEF v
<1>8. \A n, m \in DOMAIN v : n < m => <<p[n], p[m]>> \in R
  BY <1>2, <1>5
<1> QED BY <1>5, <1>7, <1>8 DEF v, p

\* The order of numbers.
LEMMA NumberOrder ==
  ASSUME NEW S \in SUBSET Nat PROVE StrictOrder({p \in S \X S : p[1] < p[2]}, S)
<1>1. \A x, y \in S : <<x, y>> \in {p \in S \X S : p[1] < p[2]} <=> x < y
  OBVIOUS
<1> HIDE DEF StrictOrder
<1>2. \A x, y, z \in S : x < y /\ y < z => x < z
  OBVIOUS
<1>3. \A x, y \in S : x # y => x < y \/ y < x
  OBVIOUS
<1> QED BY <1>1, <1>2, <1>3 DEF StrictOrder

\* In particular in the order of their places.
LEMMA SelectionOfPlaces ==
  ASSUME NEW T, NEW u \in Seq(T), NEW S \in SUBSET DOMAIN u
  PROVE  At(u, Places(S)) \in Seq(T) /\ \E p : Picks(At(u, Places(S)), u, S, p)
<1> DEFINE R == {p \in S \X S : p[1] < p[2]}
<1>1. S \in SUBSET Nat
  BY SeqFunction
<1>2. StrictOrder(R, S)
  BY <1>1, NumberOrder
<1>3. Places(S) = Listed(S, R)
  BY DEF Places
<1> HIDE DEF R
<1>4. At(u, Listed(S, R)) \in Seq(T) /\ \E p : Picks(At(u, Listed(S, R)), u, S, p)
  BY <1>2, Selection
<1> QED BY <1>3, <1>4

\* What is picked lies in what it is picked from.
LEMMA PicksShrinks ==
  ASSUME NEW u \in Seq(Ivl), NEW v \in Seq(Ivl), NEW S \in SUBSET DOMAIN u, NEW p,
         Picks(v, u, S, p)
  PROVE  Shrinks(v, u, p) /\ LongShrinks(v, u, p)
<1>1. p \in [DOMAIN v -> DOMAIN u]
  BY DEF Picks
<1>2. \A n \in DOMAIN v : v[n] = u[p[n]] /\ v[n].b \in Nat /\ v[n].e \in Nat
  BY Bounds DEF Picks
<1>3. \A n \in DOMAIN v : Inside(v[n], u[p[n]])
  BY <1>2 DEF Inside
<1>4. \A n, m \in DOMAIN v : n # m => p[n] # p[m]
  BY DEF Picks
<1> QED BY <1>1, <1>3, <1>4 DEF Shrinks, LongShrinks

\* The leaves of some sequence.
LEMMA LeavesOf ==
  ASSUME NEW u, NEW x
  PROVE  x \in Leaves(u) <=> \E k \in DOMAIN u : x \in Span(u[k])
BY DEF Leaves, Span

-----------------------------------------------------------------------------
(* Reports *)

\* sortIntervals has an order to sort by.
LEMMA BeginOrder ==
  ASSUME NEW u \in Seq(Ivl), NEW S \in SUBSET DOMAIN u
  PROVE  StrictOrder(byBegin(u), S)
<1> DEFINE lt(x, y) == u[x].b < u[y].b \/ (u[x].b = u[y].b /\ x < y)
<1>1. \A x \in DOMAIN u : u[x].b \in Nat /\ x \in Nat
  BY Bounds
<1>2. \A x, y \in S : <<x, y>> \in byBegin(u) <=> lt(x, y)
  BY DEF byBegin
<1>3. \A x, y, z \in S : lt(x, y) /\ lt(y, z) => lt(x, z)
  BY <1>1
<1>4. \A x, y \in S : x # y => lt(x, y) \/ lt(y, x)
  BY <1>1
<1>5. \A x \in S : ~lt(x, x)
  BY <1>1
<1> HIDE DEF lt
<1> QED BY <1>2, <1>3, <1>4, <1>5 DEF StrictOrder

\* A report has the long intervals, in order; a leaf is missing only when it is
\* an interval of its own.
LEMMA Report ==
  ASSUME NEW vs, Decimals(vs) \in Seq(Ivl), LongApart(Decimals(vs))
  PROVE  LET u == Decimals(vs)
             r == fact2dec(vs)
         IN /\ r \in Seq(Ivl)
            /\ Ascending(r)
            /\ \A n \in DOMAIN r : r[n].b < r[n].e
            /\ \A x \in Leaves(u) : x \in Leaves(r) \/ Single(u, x)
            /\ \A x \in Leaves(r) : x \in Leaves(u)
            /\ Fits(u, r)
            /\ \A s \in Seq(Ivl) : Fits(u, s) => Fits(r, s)
<1> DEFINE u == Decimals(vs)
           S == {k \in DOMAIN u : u[k].b < u[k].e}
           r == fact2dec(vs)
<1>1. u \in Seq(Ivl) /\ LongApart(u)
  OBVIOUS
<1>2. r = At(u, Listed(S, byBegin(u)))
  BY DEF fact2dec, sortIntervals
<1> HIDE DEF u, r
<1>3. S \in SUBSET DOMAIN u
  OBVIOUS
<1>4. r \in Seq(Ivl)
  BY <1>1, <1>2, <1>3, BeginOrder, Selection
<1>5. PICK p : /\ Picks(r, u, S, p)
               /\ \A n, m \in DOMAIN r : n < m => <<p[n], p[m]>> \in byBegin(u)
  BY <1>1, <1>2, <1>3, BeginOrder, Selection
<1>6. ASSUME NEW n \in DOMAIN r
      PROVE  /\ p[n] \in DOMAIN u /\ r[n] = u[p[n]] /\ r[n].b < r[n].e
             /\ r[n].b \in Nat /\ r[n].e \in Nat /\ n \in Nat
  BY <1>4, <1>5, Bounds DEF Picks
<1>7. ASSUME NEW n \in DOMAIN r, NEW m \in DOMAIN r, n < m PROVE r[n].e < r[m].b
  <2>1. p[n] # p[m]
    BY <1>5, <1>6, <1>7 DEF Picks
  <2>2. r[n].e < r[m].b \/ r[m].e < r[n].b
    BY <1>1, <1>6, <2>1 DEF LongApart
  <2>3. ~(r[m].b < r[n].b)
    <3>1. <<p[n], p[m]>> \in byBegin(u)
      BY <1>5, <1>7
    <3>2. u[p[n]].b < u[p[m]].b \/ u[p[n]].b = u[p[m]].b
      BY <3>1 DEF byBegin
    <3> QED BY <1>6, <3>2
  <2>4. ~(r[m].e < r[n].b)
    BY <1>6, <2>3
  <2> QED BY <2>2, <2>4
<1>8. Ascending(r)
  <2>1. ASSUME NEW n \in DOMAIN r, NEW m \in DOMAIN r, n < m PROVE r[n].e < r[m].e
    <3>1. r[n].e < r[m].b /\ r[m].b < r[m].e
      BY <1>6, <1>7, <2>1
    <3> QED BY <1>6, <3>1
  <2> QED BY <1>7, <2>1 DEF Ascending
<1>9. ASSUME NEW x \in Leaves(u), x \notin Leaves(r) PROVE Single(u, x)
  <2>1. PICK k \in DOMAIN u : x \in Span(u[k])
    BY LeavesOf
  <2>2. k \notin S
    BY <1>5, <1>6, <1>9, <2>1, LeavesOf DEF Picks
  <2>3. u[k] \in Ivl /\ u[k].b \in Nat /\ u[k].e \in Nat /\ x \in u[k].b .. u[k].e
    BY <1>1, <2>1, Bounds DEF Span
  <2>4. u[k].b = x /\ u[k].e = x
    BY <2>2, <2>3
  <2> QED BY <2>4 DEF Single
<1>10. ASSUME NEW x \in Leaves(r) PROVE x \in Leaves(u)
  <2>1. PICK n \in DOMAIN r : x \in Span(r[n])
    BY LeavesOf
  <2>2. p[n] \in DOMAIN u /\ x \in Span(u[p[n]])
    BY <1>6, <2>1
  <2> QED BY <2>2, LeavesOf
<1>11. Fits(u, r)
  <2> SUFFICES ASSUME NEW k \in DOMAIN u, NEW i \in DOMAIN r, Near(u[k], r[i]), NEW h \in DOMAIN r
               PROVE  (h < i => r[h].e < u[k].b) /\ (i < h => u[k].e < r[h].b)
    BY DEF Fits
  <2>1. u[k].b \in Nat /\ u[k].e \in Nat
    BY <1>1, Bounds
  <2>2. ~(u[k].e < r[i].b) /\ ~(r[i].e < u[k].b)
    BY <1>6, <2>1 DEF Near
  <2>3. CASE k \in S
    <3>1. p[i] = k
      BY <1>1, <1>6, <2>2, <2>3 DEF LongApart
    <3>2. r[i] = u[k]
      BY <1>6, <3>1
    <3> QED BY <1>7, <3>2
  <2>4. CASE k \notin S
    <3>1. u[k].e <= u[k].b
      BY <2>1, <2>4
    <3>2. ASSUME h < i PROVE r[h].e < u[k].b
      <4>1. r[h].e < r[i].b
        BY <1>7, <3>2
      <4> QED BY <1>6, <2>1, <2>2, <3>1, <4>1
    <3>3. ASSUME i < h PROVE u[k].e < r[h].b
      <4>1. r[i].e < r[h].b
        BY <1>7, <3>3
      <4> QED BY <1>6, <2>1, <2>2, <3>1, <4>1
    <3> QED BY <3>2, <3>3
  <2> QED BY <2>3, <2>4
<1>12. \A s \in Seq(Ivl) : Fits(u, s) => Fits(r, s)
  <2>1. Shrinks(r, u, p)
    BY <1>1, <1>3, <1>4, <1>5, PicksShrinks
  <2> QED BY <1>1, <1>4, <2>1, FitsKept
<1> QED BY <1>4, <1>6, <1>8, <1>9, <1>11, <1>12, <1>10 DEF u, r

-----------------------------------------------------------------------------
(* What a worker does to its intervals *)

\* The vectors of an interval with a leaf.
Vects == {BigintToVect(i) : i \in {j \in Ivl : j.b <= j.e}}

\* No interval is changed by its conversion to vectors and back.
LEMMA RoundTrip ==
  ASSUME NEW i \in Ivl PROVE VectToBigint(BigintToVect(i)) = i
<1>1. i.b \in Nat /\ i.e \in Nat /\ i = [b |-> i.b, e |-> i.e, id |-> i.id]
  BY DEF Ivl
<1>2. Weigh(Expand(i.b)) = i.b /\ Weigh(Expand(i.e)) = i.e
  BY <1>1, WeighExpand
<1> QED BY <1>1, <1>2 DEF VectToBigint, BigintToVect

\* The intervals of a worker as numbers.
LEMMA DecimalsOf ==
  ASSUME NEW vs \in Seq(Vects)
  PROVE  /\ Decimals(vs) \in Seq(Ivl)
         /\ DOMAIN Decimals(vs) = DOMAIN vs /\ Len(Decimals(vs)) = Len(vs)
         /\ \A k \in DOMAIN vs :
              LET i == Decimals(vs)[k] IN
              /\ i \in Ivl /\ i.b \in Nat /\ i.e \in Nat /\ i.b <= i.e
              /\ i = VectToBigint(vs[k]) /\ vs[k] = BigintToVect(i)
              /\ Weigh(vs[k].pos) = i.b /\ (vs[k].pos = vs[k].end <=> i.b = i.e)
<1>1. ASSUME NEW k \in DOMAIN vs
      PROVE  LET i == Decimals(vs)[k] IN
             /\ i \in Ivl /\ i.b \in Nat /\ i.e \in Nat /\ i.b <= i.e
             /\ i = VectToBigint(vs[k]) /\ vs[k] = BigintToVect(i)
             /\ Weigh(vs[k].pos) = i.b /\ (vs[k].pos = vs[k].end <=> i.b = i.e)
  <2>1. PICK i \in Ivl : i.b <= i.e /\ vs[k] = BigintToVect(i)
    BY SeqFunction DEF Vects
  <2>2. VectToBigint(vs[k]) = i
    BY <2>1, RoundTrip
  <2>3. Decimals(vs)[k] = i
    BY <2>2 DEF Decimals
  <2>4. i.b \in Nat /\ i.e \in Nat
    BY DEF Ivl
  <2>5. vs[k].pos = Expand(i.b) /\ vs[k].end = Expand(i.e)
    BY <2>1 DEF BigintToVect
  <2>6. Weigh(Expand(i.b)) = i.b /\ Weigh(Expand(i.e)) = i.e
    BY <2>4, WeighExpand
  <2> QED BY <2>1, <2>2, <2>3, <2>4, <2>5, <2>6
<1>2. Decimals(vs) \in [1 .. Len(vs) -> Ivl] /\ Len(vs) \in Nat /\ DOMAIN vs = 1 .. Len(vs)
  <2>1. Decimals(vs) = [k \in DOMAIN vs |-> Decimals(vs)[k]]
    BY DEF Decimals
  <2> QED BY <1>1, <2>1, SeqFunction
<1>3. Decimals(vs) \in Seq(Ivl) /\ DOMAIN Decimals(vs) = DOMAIN vs /\ Len(Decimals(vs)) = Len(vs)
  BY <1>2, FunctionSeq
<1> QED BY <1>1, <1>3

\* The intervals vs2 lie in those of vs, those that lie in the same one apart.
Follows(vs2, vs) ==
  \E p : Shrinks(Decimals(vs2), Decimals(vs), p) /\ LongShrinks(Decimals(vs2), Decimals(vs), p)

\* One interval is replaced.
LEMMA Replaced ==
  ASSUME NEW vs \in Seq(Vects), NEW k \in DOMAIN vs, NEW j \in Ivl, j.b <= j.e
  PROVE  LET vs2 == [vs EXCEPT ![k] = BigintToVect(j)]
             u == Decimals(vs)
             v == Decimals(vs2)
         IN /\ vs2 \in Seq(Vects) /\ DOMAIN vs2 = DOMAIN vs /\ Len(vs2) = Len(vs)
            /\ v[k] = j
            /\ \A n \in DOMAIN vs : n # k => v[n] = u[n]
<1> DEFINE x == BigintToVect(j)
           vs2 == [vs EXCEPT ![k] = x]
<1>1. x \in Vects
  BY DEF Vects
<1>2. VectToBigint(x) = j
  BY RoundTrip
<1> HIDE DEF x
<1>3. vs2 \in Seq(Vects) /\ DOMAIN vs2 = DOMAIN vs /\ Len(vs2) = Len(vs)
  BY <1>1
<1>4. vs2[k] = x /\ \A n \in DOMAIN vs : n # k => vs2[n] = vs[n]
  OBVIOUS
<1> HIDE DEF vs2
<1>5. \A n \in DOMAIN vs : Decimals(vs2)[n] = VectToBigint(vs2[n])
  BY <1>3, DecimalsOf
<1>6. \A n \in DOMAIN vs : Decimals(vs)[n] = VectToBigint(vs[n])
  BY DecimalsOf
<1>7. Decimals(vs2)[k] = j
  BY <1>2, <1>4, <1>5
<1>8. \A n \in DOMAIN vs : n # k => Decimals(vs2)[n] = Decimals(vs)[n]
  BY <1>4, <1>5, <1>6
<1> QED BY <1>3, <1>7, <1>8 DEF vs2, x

\* The last leaf of an interval is evaluated.
LEMMA ExploredLast ==
  ASSUME NEW vs \in Seq(Vects), NEW k \in DOMAIN vs, vs[k].pos = vs[k].end
  PROVE  LET vs2 == SubSeq(vs, 1, k - 1) \o SubSeq(vs, k + 1, Len(vs)) IN
         /\ vs2 \in Seq(Vects)
         /\ Follows(vs2, vs)
         /\ \A x \in Leaves(Decimals(vs)) :
              x \in Leaves(Decimals(vs2)) \/ x = Weigh(vs[k].pos)
<1> DEFINE vs2 == SubSeq(vs, 1, k - 1) \o SubSeq(vs, k + 1, Len(vs))
           u == Decimals(vs)
           v == Decimals(vs2)
           N == 1 .. Len(vs) - 1
           p == [n \in N |-> IF n < k THEN n ELSE n + 1]
<1>1. Len(vs) \in Nat /\ DOMAIN vs = 1 .. Len(vs) /\ k \in 1 .. Len(vs)
  BY SeqFunction
<1>2. /\ vs2 \in Seq(Vects) /\ DOMAIN vs2 = N
      /\ \A n \in N : vs2[n] = vs[IF n < k THEN n ELSE n + 1]
  BY <1>1, WithoutElements
<1> HIDE DEF vs2
<1>3. u \in Seq(Ivl) /\ DOMAIN u = DOMAIN vs /\ \A n \in DOMAIN vs : u[n] = VectToBigint(vs[n])
  BY DecimalsOf
<1>4. v \in Seq(Ivl) /\ DOMAIN v = N /\ \A n \in N : v[n] = VectToBigint(vs2[n])
  BY <1>2, DecimalsOf
<1>5. u[k].b \in Nat /\ u[k].b = u[k].e /\ Weigh(vs[k].pos) = u[k].b
  BY DecimalsOf
<1>6. \A n \in N : p[n] \in DOMAIN vs \ {k} /\ p[n] = IF n < k THEN n ELSE n + 1
  BY <1>1
<1>7. \A n, m \in N : p[n] = p[m] => n = m
  BY <1>1
<1>8. ASSUME NEW m \in DOMAIN vs \ {k} PROVE \E n \in N : p[n] = m
  <2>1. CASE m < k
    <3>1. m \in N /\ p[m] = m
      BY <1>1, <2>1
    <3> HIDE DEF p
    <3> QED BY <3>1
  <2>2. CASE m > k
    <3>1. m - 1 \in N /\ p[m - 1] = m
      BY <1>1, <2>2
    <3> HIDE DEF p
    <3> QED BY <3>1
  <2> QED BY <1>1, <2>1, <2>2
<1>9. p \in [N -> DOMAIN vs \ {k}]
  BY <1>6
<1> HIDE DEF p, N, u, v
<1>10. \A n \in N : v[n] = u[p[n]]
  BY <1>2, <1>3, <1>4, <1>6
<1>11. Picks(v, u, DOMAIN u \ {k}, p)
  BY <1>3, <1>4, <1>7, <1>8, <1>9, <1>10 DEF Picks
<1>12. Shrinks(v, u, p) /\ LongShrinks(v, u, p)
  BY <1>3, <1>4, <1>11, PicksShrinks
<1>13. ASSUME NEW x \in Leaves(u), x # Weigh(vs[k].pos) PROVE x \in Leaves(v)
  <2>1. PICK n \in DOMAIN u : x \in Span(u[n])
    BY LeavesOf
  <2>2. n # k
    BY <1>5, <1>13, <2>1 DEF Span
  <2>3. PICK m \in N : p[m] = n
    BY <1>3, <1>8, <2>2
  <2>4. m \in DOMAIN v /\ x \in Span(v[m])
    BY <1>4, <1>10, <2>1, <2>3
  <2> QED BY <2>4, LeavesOf
<1>14. Follows(vs2, vs)
  BY <1>12 DEF Follows, u, v
<1> QED BY <1>2, <1>13, <1>14 DEF u, v, vs2

\* The first leaf of an interval is evaluated, and there is another one.
LEMMA ExploredFirst ==
  ASSUME NEW vs \in Seq(Vects), NEW k \in DOMAIN vs, vs[k].pos # vs[k].end
  PROVE  LET vs2 == [vs EXCEPT ![k].pos = Expand(Weigh(vs[k].pos) + 1)] IN
         /\ vs2 \in Seq(Vects)
         /\ Follows(vs2, vs)
         /\ \A x \in Leaves(Decimals(vs)) :
              x \in Leaves(Decimals(vs2)) \/ x = Weigh(vs[k].pos)
<1> DEFINE u == Decimals(vs)
           j == [b |-> u[k].b + 1, e |-> u[k].e, id |-> u[k].id]
           vs2 == [vs EXCEPT ![k] = BigintToVect(j)]
           v == Decimals(vs2)
           p == [n \in DOMAIN vs |-> n]
<1>1. /\ u[k] \in Ivl /\ u[k].b \in Nat /\ u[k].e \in Nat /\ u[k].b < u[k].e
      /\ vs[k] = BigintToVect(u[k]) /\ Weigh(vs[k].pos) = u[k].b
  BY DecimalsOf
<1>2. u \in Seq(Ivl) /\ DOMAIN u = DOMAIN vs
  BY DecimalsOf
<1>3. [vs EXCEPT ![k].pos = Expand(Weigh(vs[k].pos) + 1)] = vs2
  <2>1. [vs[k] EXCEPT !.pos = Expand(u[k].b + 1)] = BigintToVect(j)
    BY <1>1 DEF BigintToVect
  <2> QED BY <1>1, <2>1
<1>4. j \in Ivl /\ j.b = u[k].b + 1 /\ j.e = u[k].e /\ j.b <= j.e
  BY <1>1 DEF Ivl
<1> HIDE DEF j
<1>5. /\ vs2 \in Seq(Vects) /\ DOMAIN vs2 = DOMAIN vs /\ v[k] = j
      /\ \A n \in DOMAIN vs : n # k => v[n] = u[n]
  BY <1>4, Replaced
<1> HIDE DEF vs2
<1>6. v \in Seq(Ivl) /\ DOMAIN v = DOMAIN vs
  BY <1>5, DecimalsOf
<1> HIDE DEF u, v
<1>7. ASSUME NEW n \in DOMAIN vs PROVE Inside(v[n], u[n])
  <2>1. CASE n = k
    BY <1>1, <1>4, <1>5, <2>1 DEF Inside
  <2>2. CASE n # k
    <3>1. u[n].b \in Nat /\ u[n].e \in Nat
      BY <1>2, Bounds
    <3> QED BY <1>5, <2>2, <3>1 DEF Inside
  <2> QED BY <2>1, <2>2
<1>8. p \in [DOMAIN v -> DOMAIN u] /\ \A n \in DOMAIN v : p[n] = n
  BY <1>2, <1>6
<1> HIDE DEF p
<1>9. Shrinks(v, u, p) /\ LongShrinks(v, u, p)
  BY <1>6, <1>7, <1>8 DEF Shrinks, LongShrinks
<1>10. ASSUME NEW x \in Leaves(u), x # u[k].b PROVE x \in Leaves(v)
  <2>1. PICK n \in DOMAIN u : x \in Span(u[n])
    BY LeavesOf
  <2>2. x \in Span(v[n])
    <3>1. CASE n = k
      BY <1>1, <1>4, <1>5, <1>10, <2>1, <3>1 DEF Span
    <3>2. CASE n # k
      BY <1>2, <1>5, <2>1, <3>2
    <3> QED BY <3>1, <3>2
  <2>3. n \in DOMAIN v
    BY <1>2, <1>6
  <2> QED BY <2>2, <2>3, LeavesOf
<1>11. Follows(vs2, vs)
  BY <1>9 DEF Follows, u, v
<1>12. \A x \in Leaves(u) : x \in Leaves(v) \/ x = Weigh(vs[k].pos)
  BY <1>1, <1>10
<1> QED BY <1>3, <1>5, <1>11, <1>12 DEF u, v

\* What holds of the intervals before holds of those that follow.
LEMMA FollowsKeeps ==
  ASSUME NEW vs \in Seq(Vects), NEW vs2 \in Seq(Vects), Follows(vs2, vs)
  PROVE  /\ LongApart(Decimals(vs)) => LongApart(Decimals(vs2))
         /\ \A s \in Seq(Ivl) : Fits(Decimals(vs), s) => Fits(Decimals(vs2), s)
<1>1. Decimals(vs) \in Seq(Ivl) /\ Decimals(vs2) \in Seq(Ivl)
  BY DecimalsOf
<1> QED BY <1>1, LongApartKept, FitsKept DEF Follows

\* A thread takes the end of the interval of another one.
LEMMA Shared ==
  ASSUME NEW vs \in Seq(Vects), NEW k \in DOMAIN vs, NEW ivm \in Nat,
         NEW i, i = VectToBigint(vs[k]), NEW c \in i.b .. i.e - 1
  PROVE  LET vs2 == Append([vs EXCEPT ![k].end = Expand(c)],
                           [pos |-> Expand(c + 1), end |-> Expand(i.e), id |-> ivm])
         IN /\ vs2 \in Seq(Vects)
            /\ Follows(vs2, vs)
            /\ \A x \in Leaves(Decimals(vs)) : x \in Leaves(Decimals(vs2))
<1> DEFINE u == Decimals(vs)
           thief == Len(vs) + 1
           left == [b |-> i.b, e |-> c, id |-> i.id]
           right == [b |-> c + 1, e |-> i.e, id |-> ivm]
           vs1 == [vs EXCEPT ![k] = BigintToVect(left)]
           vs2 == Append(vs1, BigintToVect(right))
           v == Decimals(vs2)
           N == 1 .. Len(vs) + 1
           p == [n \in N |-> IF n < thief THEN n ELSE k]
<1>1. /\ u[k] = i /\ i \in Ivl /\ i.b \in Nat /\ i.e \in Nat /\ i.id \in Nat
      /\ vs[k] = BigintToVect(i)
  <2>1. \A x \in Ivl : x.id \in Nat
    BY DEF Ivl
  <2> QED BY <2>1, DecimalsOf
<1>2. c \in Nat /\ i.b <= c /\ c < i.e
  BY <1>1
<1>3. u \in Seq(Ivl) /\ DOMAIN u = DOMAIN vs /\ Len(vs) \in Nat /\ DOMAIN vs = 1 .. Len(vs)
  BY DecimalsOf, SeqFunction
<1>4. Append([vs EXCEPT ![k].end = Expand(c)],
             [pos |-> Expand(c + 1), end |-> Expand(i.e), id |-> ivm]) = vs2
  <2>1. [vs[k] EXCEPT !.end = Expand(c)] = BigintToVect(left)
    BY <1>1 DEF BigintToVect
  <2>2. [vs EXCEPT ![k].end = Expand(c)] = vs1
    BY <2>1
  <2>3. [pos |-> Expand(c + 1), end |-> Expand(i.e), id |-> ivm] = BigintToVect(right)
    BY DEF BigintToVect
  <2> HIDE DEF vs1, right
  <2> QED BY <2>2, <2>3
<1>5. left \in Ivl /\ left.b = i.b /\ left.e = c /\ left.b <= left.e
  BY <1>1, <1>2 DEF Ivl
<1>6. right \in Ivl /\ right.b = c + 1 /\ right.e = i.e /\ right.b <= right.e
  BY <1>1, <1>2 DEF Ivl
<1> HIDE DEF left, right
<1>7. /\ vs1 \in Seq(Vects) /\ Len(vs1) = Len(vs) /\ DOMAIN vs1 = DOMAIN vs
      /\ Decimals(vs1)[k] = left
      /\ \A n \in DOMAIN vs : n # k => Decimals(vs1)[n] = u[n]
  BY <1>5, Replaced
<1> HIDE DEF vs1
<1>8. /\ vs2 \in Seq(Vects) /\ DOMAIN vs2 = N
      /\ \A n \in N : vs2[n] = IF n < thief THEN vs1[n] ELSE BigintToVect(right)
  <2>1. BigintToVect(right) \in Vects
    BY <1>6 DEF Vects
  <2> DEFINE x == BigintToVect(right)
  <2>2. vs1 \in Seq(Vects) /\ x \in Vects /\ vs2 = Append(vs1, x) /\ Len(vs1) = Len(vs)
    BY <1>7, <2>1
  <2> HIDE DEF x, vs2, p
  <2> QED BY <1>3, <2>2 DEF x
<1> HIDE DEF vs2
<1>9. v \in Seq(Ivl) /\ DOMAIN v = N /\ \A n \in N : v[n] = VectToBigint(vs2[n])
  BY <1>8, DecimalsOf
<1>10. \A n \in DOMAIN vs : Decimals(vs1)[n] = VectToBigint(vs1[n])
  BY <1>7, DecimalsOf
<1>11. VectToBigint(BigintToVect(right)) = right
  BY <1>6, RoundTrip
<1>12. \A n \in N : p[n] \in DOMAIN vs
  BY <1>3
<1>13. p \in [N -> DOMAIN vs]
  BY <1>12
<1>14. thief \in N /\ p[thief] = k
  BY <1>3
<1>15. ASSUME NEW n \in N, n # thief
       PROVE  v[n] = IF p[n] = k THEN left ELSE u[p[n]]
  <2>1. CASE n < thief
    <3>1. n \in DOMAIN vs /\ p[n] = n /\ vs2[n] = vs1[n]
      BY <1>3, <1>8, <2>1
    <3> QED BY <1>7, <1>9, <1>10, <3>1
  <2> QED BY <1>3, <1>15, <2>1
<1>16. v[thief] = right
  BY <1>8, <1>9, <1>11, <1>14
<1>17. ASSUME NEW n \in N, NEW m \in N, n # thief, m # thief, p[n] = p[m] PROVE n = m
  BY <1>3, <1>17
<1>18. ASSUME NEW m \in DOMAIN vs PROVE \E n \in N : n # thief /\ p[n] = m
  <2>1. m \in N /\ m # thief /\ p[m] = m
    BY <1>3
  <2> HIDE DEF p
  <2> QED BY <2>1
<1> HIDE DEF p, N, u, v, thief
<1>19. ASSUME NEW n \in N PROVE Inside(v[n], u[p[n]])
  <2>1. CASE n = thief
    BY <1>1, <1>2, <1>6, <1>14, <1>16, <2>1 DEF Inside
  <2>2. CASE n # thief /\ p[n] = k
    BY <1>1, <1>2, <1>5, <1>15, <2>2 DEF Inside
  <2>3. CASE n # thief /\ p[n] # k
    <3>1. v[n] = u[p[n]] /\ u[p[n]].b \in Nat /\ u[p[n]].e \in Nat
      BY <1>3, <1>12, <1>15, <2>3, Bounds
    <3> QED BY <3>1 DEF Inside
  <2> QED BY <2>1, <2>2, <2>3
<1>20. ASSUME NEW n \in N, NEW m \in N, n # m, p[n] = p[m]
       PROVE  v[n].e < v[m].b \/ v[m].e < v[n].b
  <2>1. left.e < right.b
    BY <1>2, <1>5, <1>6
  <2>2. CASE n = thief
    BY <1>14, <1>15, <1>16, <1>20, <2>1, <2>2
  <2>3. CASE m = thief
    BY <1>14, <1>15, <1>16, <1>20, <2>1, <2>3
  <2> QED BY <1>17, <1>20, <2>2, <2>3
<1>21. p \in [DOMAIN v -> DOMAIN u] /\ DOMAIN v = N
  BY <1>3, <1>9, <1>13
<1>22. Shrinks(v, u, p) /\ LongShrinks(v, u, p)
  BY <1>19, <1>20, <1>21 DEF Shrinks, LongShrinks
<1>23. ASSUME NEW x \in Leaves(u) PROVE x \in Leaves(v)
  <2>1. PICK m \in DOMAIN vs : x \in Span(u[m])
    BY <1>3, LeavesOf
  <2>2. PICK n \in N : n # thief /\ p[n] = m
    BY <1>18
  <2>3. CASE m # k
    BY <1>15, <1>21, <2>1, <2>2, <2>3, LeavesOf
  <2>4. CASE m = k
    <3>1. x \in i.b .. i.e
      BY <1>1, <2>1, <2>4 DEF Span
    <3>2. x \in i.b .. c \/ x \in c + 1 .. i.e
      BY <1>1, <1>2, <3>1
    <3>3. x \in Span(left) \/ x \in Span(right)
      BY <1>5, <1>6, <3>2 DEF Span
    <3>4. x \in Span(v[n]) \/ x \in Span(v[thief])
      BY <1>15, <1>16, <2>2, <2>4, <3>3
    <3> QED BY <1>14, <1>21, <3>4, LeavesOf
  <2> QED BY <2>3, <2>4
<1>24. Follows(vs2, vs)
  BY <1>22 DEF Follows, u, v
<1> QED BY <1>4, <1>8, <1>23, <1>24 DEF u, v

-----------------------------------------------------------------------------
(* What a worker receives, and what the master gives away *)

\* Intervals that lie in different ones each.
LEMMA InsideShrinks ==
  ASSUME NEW u, NEW v, NEW p \in [DOMAIN v -> DOMAIN u],
         \A n, m \in DOMAIN v : p[n] = p[m] => n = m,
         \A n \in DOMAIN v : Inside(v[n], u[p[n]])
  PROVE  Shrinks(v, u, p) /\ LongShrinks(v, u, p)
BY DEF Shrinks, LongShrinks

\* An interval lies in itself.
LEMMA InsideItself ==
  ASSUME NEW i \in Ivl PROVE Inside(i, i)
<1>1. i.b \in Nat /\ i.e \in Nat
  BY DEF Ivl
<1> QED BY <1>1 DEF Inside

\* The work unit u is received: those of its intervals that have a leaf.
LEMMA Received ==
  ASSUME NEW u \in Seq(Ivl)
  PROVE  LET a == At(u, Places({k \in DOMAIN u : u[k].b <= u[k].e}))
             vs == dec2fact(a)
         IN /\ vs \in Seq(Vects)
            /\ Decimals(vs) = a
            /\ LongApart(u) => LongApart(a)
            /\ \A s \in Seq(Ivl) : Fits(u, s) => Fits(a, s)
            /\ \A x \in Leaves(u) : x \in Leaves(a)
<1> DEFINE S == {k \in DOMAIN u : u[k].b <= u[k].e}
           a == At(u, Places(S))
           vs == dec2fact(a)
<1>1. S \in SUBSET DOMAIN u
  OBVIOUS
<1>2. a \in Seq(Ivl) /\ \E p : Picks(a, u, S, p)
  BY <1>1, SelectionOfPlaces
<1>3. PICK p : Picks(a, u, S, p)
  BY <1>2
<1> HIDE DEF a
<1>4. ASSUME NEW n \in DOMAIN a PROVE a[n] \in Ivl /\ a[n].b <= a[n].e /\ BigintToVect(a[n]) \in Vects
  <2>1. a[n] \in Ivl /\ a[n].b <= a[n].e
    BY <1>2, <1>3, SeqFunction DEF Picks
  <2> QED BY <2>1 DEF Vects
<1>5. Len(a) \in Nat /\ DOMAIN a = 1 .. Len(a)
  BY <1>2, SeqFunction
<1>6. vs \in Seq(Vects) /\ DOMAIN vs = DOMAIN a
  <2>1. vs = [n \in 1 .. Len(a) |-> BigintToVect(a[n])]
    BY <1>5 DEF dec2fact
  <2>2. vs \in [1 .. Len(a) -> Vects]
    BY <1>4, <1>5, <2>1
  <2> HIDE DEF vs
  <2> QED BY <1>5, <2>2, FunctionSeq
<1>7. Decimals(vs) = a
  <2>1. \A n \in DOMAIN a : vs[n] = BigintToVect(a[n])
    BY DEF dec2fact
  <2>2. \A n \in DOMAIN a : VectToBigint(vs[n]) = a[n]
    BY <1>4, <2>1, RoundTrip
  <2>3. Decimals(vs) = [n \in DOMAIN a |-> VectToBigint(vs[n])]
    BY <1>6 DEF Decimals
  <2>4. a = [n \in DOMAIN a |-> a[n]]
    BY <1>2
  <2> QED BY <2>2, <2>3, <2>4
<1>8. Shrinks(a, u, p) /\ LongShrinks(a, u, p)
  BY <1>1, <1>2, <1>3, PicksShrinks
<1>9. LongApart(u) => LongApart(a)
  BY <1>2, <1>8, LongApartKept
<1>10. \A s \in Seq(Ivl) : Fits(u, s) => Fits(a, s)
  BY <1>2, <1>8, FitsKept
<1>11. ASSUME NEW x \in Leaves(u) PROVE x \in Leaves(a)
  <2>1. PICK k \in DOMAIN u : x \in Span(u[k])
    BY LeavesOf
  <2>2. k \in S
    <3>1. u[k].b \in Nat /\ u[k].e \in Nat
      BY Bounds
    <3> QED BY <2>1, <3>1 DEF Span
  <2>3. PICK n \in DOMAIN a : p[n] = k
    BY <1>3, <2>2 DEF Picks
  <2>4. x \in Span(a[n])
    BY <1>3, <2>1, <2>3 DEF Picks
  <2> QED BY <2>4, LeavesOf
<1> QED BY <1>6, <1>7, <1>9, <1>10, <1>11 DEF a

-----------------------------------------------------------------------------
(* What the master does to work units *)

\* New ids leave the intervals as they are.
LEMMA Renumbered ==
  ASSUME NEW u \in Seq(Ivl)
  PROVE  LET v == Numbered(u) IN
         /\ v \in Seq(Ivl) /\ Len(v) = Len(u) /\ DOMAIN v = DOMAIN u
         /\ \A k \in DOMAIN u : v[k].b = u[k].b /\ v[k].e = u[k].e /\ v[k].id = k - 1
         /\ LongApart(u) => LongApart(v)
         /\ Leaves(v) = Leaves(u)
<1> DEFINE v == Numbered(u)
           N == Len(u)
<1>1. /\ N \in Nat /\ DOMAIN u = 1 .. N /\ \A k \in DOMAIN u : u[k].b \in Nat /\ u[k].e \in Nat
  BY Bounds
<1>2. v = [k \in 1 .. N |-> [b |-> u[k].b, e |-> u[k].e, id |-> k - 1]]
  BY <1>1 DEF Numbered
<1> HIDE DEF v, N
<1>3. ASSUME NEW k \in 1 .. N
      PROVE  v[k] \in Ivl /\ v[k].b = u[k].b /\ v[k].e = u[k].e /\ v[k].id = k - 1
  <2>1. v[k] = [b |-> u[k].b, e |-> u[k].e, id |-> k - 1]
    BY <1>2
  <2>2. u[k].b \in Nat /\ u[k].e \in Nat /\ k - 1 \in Nat
    BY <1>1
  <2> QED BY <2>1, <2>2 DEF Ivl
<1>4. v \in Seq(Ivl) /\ Len(v) = N /\ DOMAIN v = 1 .. N
  <2>1. v \in [1 .. N -> Ivl]
    BY <1>2, <1>3
  <2> QED BY <1>1, <2>1, FunctionSeq
<1>5. LongApart(u) => LongApart(v)
  BY <1>1, <1>3, <1>4 DEF LongApart
<1>6. Leaves(v) = Leaves(u)
  <2>1. \A k \in 1 .. N : Span(v[k]) = Span(u[k])
    BY <1>3 DEF Span
  <2>2. \A x : x \in Leaves(v) <=> x \in Leaves(u)
    BY <1>1, <1>4, <2>1, LeavesOf
  <2> QED BY <2>2
<1> QED BY <1>1, <1>3, <1>4, <1>5, <1>6 DEF v, N

\* The last intervals are given away.
LEMMA Taken ==
  ASSUME NEW u \in Seq(Ivl), NEW max \in Nat, max <= Len(u)
  PROVE  LET t == take(u, max) IN
         /\ t.given \in Seq(Ivl) /\ Len(t.given) = max
         /\ t.kept \in Seq(Ivl) /\ Len(t.kept) = Len(u) - max
         /\ LongApart(u) => LongApart(t.given) /\ LongApart(t.kept)
         /\ \A x \in Leaves(u) : x \in Leaves(t.given) \/ x \in Leaves(t.kept)
<1> DEFINE N == Len(u)
           s == SubSeq(u, N - max + 1, N)
           g == Reverse(s)
           r == take(u, max).kept
           p == [n \in 1 .. max |-> N - n + 1]
           q == [n \in 1 .. N - max |-> n]
<1>1. N \in Nat /\ DOMAIN u = 1 .. N /\ N - max \in Nat /\ \A k \in 1 .. N : u[k] \in Ivl
  BY SeqFunction
<1>2. s \in Seq(Ivl) /\ Len(s) = max /\ \A i \in 1 .. max : s[i] = u[i + (N - max)]
  <2>1. N - max + 1 \in 1 .. Len(u) + 1 /\ N \in 0 .. Len(u) /\ N - max + 1 <= N + 1
    BY <1>1
  <2>2. /\ s \in Seq(Ivl) /\ Len(s) = N - (N - max + 1) + 1
        /\ \A i \in 1 .. N - (N - max + 1) + 1 : s[i] = u[i + (N - max + 1) - 1]
    <3> DEFINE m == N - max + 1
    <3> HIDE DEF m, N
    <3> SUFFICES /\ SubSeq(u, m, N) \in Seq(Ivl) /\ Len(SubSeq(u, m, N)) = N - m + 1
                 /\ \A i \in 1 .. N - m + 1 : SubSeq(u, m, N)[i] = u[i + m - 1]
      BY DEF m
    <3> QED BY <2>1, SubSeqElements DEF m
  <2> DEFINE len == N - (N - max + 1) + 1
  <2>3. len = max /\ \A i \in Int : i + (N - max + 1) - 1 = i + (N - max)
    BY <1>1
  <2>4. \A i \in 1 .. len : s[i] = u[i + (N - max + 1) - 1]
    BY <2>2
  <2>5. Len(s) = len /\ s \in Seq(Ivl)
    BY <2>2
  <2> HIDE DEF s, len
  <2>6. \A i \in 1 .. max : s[i] = u[i + (N - max + 1) - 1]
    BY <2>3, <2>4
  <2> QED BY <2>3, <2>5, <2>6
<1>3. r = SubSeq(u, 1, N - max) /\ g = Reverse(s) /\ take(u, max).given = Numbered(g)
  BY DEF take
<1>4. /\ r \in Seq(Ivl) /\ Len(r) = N - max /\ DOMAIN r = 1 .. N - max
      /\ \A n \in 1 .. N - max : r[n] = u[n]
  <2>1. N - max \in 0 .. Len(u)
    BY <1>1
  <2> HIDE DEF r, N
  <2> QED BY <1>3, <2>1, FrontElements
<1> HIDE DEF r, g, s
<1>5. g = [n \in 1 .. max |-> u[p[n]]]
  <2>1. g = [n \in 1 .. max |-> s[(max - n) + 1]]
    BY <1>2, <1>3 DEF Reverse
  <2>2. ASSUME NEW n \in 1 .. max PROVE s[(max - n) + 1] = u[p[n]]
    <3>1. (max - n) + 1 \in 1 .. max /\ (max - n) + 1 + (N - max) = p[n]
      BY <1>1
    <3> QED BY <1>2, <3>1
  <2> QED BY <2>1, <2>2
<1>6. p \in [1 .. max -> 1 .. N] /\ \A n, m \in 1 .. max : p[n] = p[m] => n = m
  BY <1>1
<1>7. q \in [1 .. N - max -> 1 .. N] /\ \A n \in 1 .. N - max : q[n] = n
  BY <1>1
<1>8. \A k \in 1 .. N : k \in 1 .. N - max \/ \E n \in 1 .. max : p[n] = k
  <2> SUFFICES ASSUME NEW k \in 1 .. N, k \notin 1 .. N - max PROVE \E n \in 1 .. max : p[n] = k
    OBVIOUS
  <2>1. N - k + 1 \in 1 .. max /\ p[N - k + 1] = k
    BY <1>1
  <2> HIDE DEF p
  <2> QED BY <2>1
<1> HIDE DEF p, q, N
<1>9. g \in [1 .. max -> Ivl] /\ \A n \in 1 .. max : g[n] = u[p[n]]
  BY <1>1, <1>5, <1>6
<1>10. g \in Seq(Ivl) /\ Len(g) = max /\ DOMAIN g = 1 .. max
  BY <1>9, FunctionSeq
<1>11. LongShrinks(g, u, p)
  <2>1. \A n \in 1 .. max : Inside(g[n], u[p[n]])
    BY <1>1, <1>6, <1>9, InsideItself
  <2> QED BY <1>1, <1>6, <1>10, <2>1, InsideShrinks
<1>12. LongShrinks(r, u, q)
  <2>1. \A n \in 1 .. N - max : Inside(r[n], u[q[n]])
    BY <1>1, <1>4, <1>7, InsideItself
  <2> QED BY <1>1, <1>4, <1>7, <2>1, InsideShrinks
<1>13. LongApart(u) => LongApart(g) /\ LongApart(r)
  BY <1>4, <1>10, <1>11, <1>12, LongApartKept
<1>14. ASSUME NEW x \in Leaves(u) PROVE x \in Leaves(g) \/ x \in Leaves(r)
  <2>1. PICK k \in 1 .. N : x \in Span(u[k])
    BY <1>1, LeavesOf
  <2>2. CASE k \in 1 .. N - max
    <3>1. k \in DOMAIN r /\ x \in Span(r[k])
      BY <1>4, <2>1, <2>2
    <3> QED BY <3>1, LeavesOf
  <2>3. CASE k \notin 1 .. N - max
    <3>1. PICK n \in 1 .. max : p[n] = k
      BY <1>8, <2>3
    <3>2. n \in DOMAIN g /\ x \in Span(g[n])
      BY <1>9, <1>10, <2>1, <3>1
    <3> QED BY <3>2, LeavesOf
  <2> QED BY <2>2, <2>3
<1>15. /\ Numbered(g) \in Seq(Ivl) /\ Len(Numbered(g)) = max
       /\ LongApart(g) => LongApart(Numbered(g))
       /\ Leaves(Numbered(g)) = Leaves(g)
  BY <1>10, Renumbered
<1> QED BY <1>3, <1>4, <1>13, <1>14, <1>15 DEF r, N

-----------------------------------------------------------------------------
(* Dividing *)

\* The middle of an interval.
LEMMA Middle ==
  ASSUME NEW i \in Ivl
  PROVE  /\ coupe(i) \in Int /\ coupe(i) + 1 \in Nat
         /\ i.b < i.e => i.b <= coupe(i) /\ coupe(i) < i.e
<1>1. i.b \in Nat /\ i.e \in Nat
  BY DEF Ivl
<1> DEFINE h == (i.e - i.b) \div 2
<1>2. h \in Int /\ 2 * h <= i.e - i.b /\ i.e - i.b < 2 * h + 2
  BY <1>1
<1>3. coupe(i) = i.b + h
  BY DEF coupe, length
<1> HIDE DEF h
<1> QED BY <1>1, <1>2, <1>3

\* Dividing cuts long intervals in halves: none of the leaves is lost.
LEMMA Divided ==
  ASSUME NEW u \in Seq(Ivl), NEW max
  PROVE  LET d == divide(u, max) IN
         /\ d.given \in Seq(Ivl) /\ d.kept \in Seq(Ivl) /\ DOMAIN d.kept = DOMAIN u
         /\ LongApart(u) => LongApart(d.given) /\ LongApart(d.kept)
         /\ Ascending(u) => Ascending(d.kept)
         /\ \A w \in Seq(Ivl) : Fits(w, u) => Fits(w, d.kept)
         /\ \A x \in Leaves(d.kept) : x \in Leaves(u)
         /\ \A x \in Leaves(u) : x \in Leaves(d.given) \/ x \in Leaves(d.kept)
<1> DEFINE cut == DividedIndices(u, max)
           f == [k \in DOMAIN u |-> Behind(u[k])]
           g == At(f, Places(cut))
           r == divide(u, max).kept
           q == [k \in DOMAIN u |-> k]
           N == Len(u)
<1>1. /\ N \in Nat /\ DOMAIN u = 1 .. N /\ \A k \in 1 .. N : u[k] \in Ivl /\ u[k].b \in Nat /\ u[k].e \in Nat
  BY Bounds
<1>2. \A k \in 1 .. N : /\ coupe(u[k]) \in Int /\ coupe(u[k]) + 1 \in Nat
                        /\ u[k].b < u[k].e => u[k].b <= coupe(u[k]) /\ coupe(u[k]) < u[k].e
  BY <1>1, Middle
<1>3. cut \in SUBSET (1 .. N) /\ \A k \in cut : u[k].b < u[k].e
  <2>1. cut \subseteq {k \in DOMAIN u : length(u[k]) >= lar}
    BY DEF DividedIndices
  <2>2. \A k \in 1 .. N : length(u[k]) >= lar => u[k].b < u[k].e
    BY <1>1, IntervalAssumption DEF length
  <2> QED BY <1>1, <2>1, <2>2
<1>4. g = At(f, Places(cut)) /\ divide(u, max).given = Numbered(g)
  BY DEF divide
<1>5. r = [k \in 1 .. N |-> IF k \in cut THEN [u[k] EXCEPT !.e = coupe(u[k])] ELSE u[k]]
  BY <1>1 DEF divide
<1> HIDE DEF g, r, cut
<1>6. f \in [1 .. N -> Ivl] /\ \A k \in 1 .. N : f[k].b = coupe(u[k]) + 1 /\ f[k].e = u[k].e
  <2>1. \A k \in 1 .. N : f[k] = [b |-> coupe(u[k]) + 1, e |-> u[k].e, id |-> u[k].id]
    BY <1>1 DEF Behind
  <2>2. \A k \in 1 .. N : f[k] \in Ivl
    BY <1>1, <1>2, <2>1 DEF Ivl
  <2>3. f = [k \in 1 .. N |-> f[k]]
    BY <1>1
  <2> HIDE DEF f
  <2> QED BY <2>1, <2>2, <2>3
<1>7. q \in [1 .. N -> 1 .. N] /\ \A k \in 1 .. N : q[k] = k
  BY <1>1
<1> HIDE DEF f, q, N
<1>8. f \in Seq(Ivl) /\ DOMAIN f = 1 .. N
  BY <1>1, <1>6, FunctionSeq
<1>9. g \in Seq(Ivl) /\ \E p : Picks(g, f, cut, p)
  BY <1>3, <1>4, <1>8, SelectionOfPlaces
<1>10. PICK p : Picks(g, f, cut, p)
  BY <1>9
<1>11. ASSUME NEW k \in 1 .. N
       PROVE  /\ r[k] \in Ivl /\ r[k].b = u[k].b
              /\ r[k].e = IF k \in cut THEN coupe(u[k]) ELSE u[k].e
  <2>1. CASE k \in cut
    <3>1. r[k] = [u[k] EXCEPT !.e = coupe(u[k])]
      BY <1>5, <2>1
    <3>2. coupe(u[k]) \in Nat
      <4>1. u[k].b < u[k].e
        BY <1>3, <2>1
      <4>2. u[k].b \in Nat /\ coupe(u[k]) \in Int /\ u[k].b <= coupe(u[k])
        BY <1>1, <1>2, <4>1
      <4> QED BY <4>2
    <3> QED BY <1>1, <2>1, <3>1, <3>2 DEF Ivl
  <2>2. CASE k \notin cut
    <3>1. r[k] = u[k]
      BY <1>5, <2>2
    <3> QED BY <1>1, <2>2, <3>1
  <2> QED BY <2>1, <2>2
<1>12. r \in Seq(Ivl) /\ DOMAIN r = 1 .. N
  <2>1. r \in [1 .. N -> Ivl]
    BY <1>5, <1>11
  <2> QED BY <1>1, <2>1, FunctionSeq
<1>13. ASSUME NEW k \in 1 .. N
       PROVE  r[k].b = u[k].b /\ r[k].e <= u[k].e /\ (u[k].b <= u[k].e => r[k].b <= r[k].e)
  <2>1. CASE k \in cut
    <3>1. u[k].b <= coupe(u[k]) /\ coupe(u[k]) < u[k].e /\ r[k].e = coupe(u[k]) /\ r[k].b = u[k].b
      BY <1>2, <1>3, <1>11, <2>1
    <3> QED BY <1>1, <1>2, <3>1
  <2>2. CASE k \notin cut
    BY <1>1, <1>11, <2>2
  <2> QED BY <2>1, <2>2
<1>14. \A k \in 1 .. N : r[k].b \in Nat /\ r[k].e \in Nat
  BY <1>12, Bounds
<1>15. LongShrinks(r, u, q)
  <2>1. \A k \in 1 .. N : Inside(r[k], u[k])
    BY <1>1, <1>13, <1>14 DEF Inside
  <2> QED BY <1>1, <1>7, <1>12, <2>1, InsideShrinks
<1>16. p \in [DOMAIN g -> cut] /\ \A n, m \in DOMAIN g : p[n] = p[m] => n = m
  BY <1>10 DEF Picks
<1>17. \A n \in DOMAIN g : p[n] \in 1 .. N /\ g[n] = f[p[n]]
  BY <1>3, <1>10, <1>16 DEF Picks
<1>18. LongShrinks(g, u, p)
  <2>1. ASSUME NEW n \in DOMAIN g PROVE Inside(g[n], u[p[n]])
    <3>1. p[n] \in cut /\ p[n] \in 1 .. N
      BY <1>16, <1>17
    <3>2. u[p[n]].b <= coupe(u[p[n]])
      BY <1>2, <1>3, <3>1
    <3>3. g[n].b = coupe(u[p[n]]) + 1 /\ g[n].e = u[p[n]].e
      BY <1>6, <1>17, <3>1
    <3> QED BY <1>1, <1>2, <3>1, <3>2, <3>3 DEF Inside
  <2>2. p \in [DOMAIN g -> DOMAIN u]
    BY <1>1, <1>16, <1>17
  <2> QED BY <1>16, <2>1, <2>2, InsideShrinks
<1>19. LongApart(u) => LongApart(g) /\ LongApart(r)
  BY <1>9, <1>12, <1>15, <1>18, LongApartKept
<1>20. ASSUME Ascending(u) PROVE Ascending(r)
  <2>1. ASSUME NEW i \in 1 .. N, NEW j \in 1 .. N, i < j
        PROVE  r[i].e < r[j].b /\ r[i].e < r[j].e
    <3>1. u[i].e < u[j].b /\ u[i].e < u[j].e
      BY <1>1, <1>20, <2>1 DEF Ascending
    <3>2. r[j].e = u[j].e \/ r[j].b <= r[j].e
      <4>1. CASE j \in cut
        <5>1. u[j].b < u[j].e
          BY <1>3, <4>1
        <5>2. u[j].b <= u[j].e
          BY <1>1, <5>1
        <5> QED BY <1>13, <5>2
      <4>2. CASE j \notin cut
        BY <1>11, <4>2
      <4> QED BY <4>1, <4>2
    <3>3. r[i].e < r[j].b
      BY <1>1, <1>13, <1>14, <3>1
    <3> QED BY <1>1, <1>13, <1>14, <3>1, <3>2, <3>3
  <2> QED BY <1>12, <2>1 DEF Ascending
<1>21. ASSUME NEW k \in 1 .. N PROVE Span(r[k]) \subseteq Span(u[k])
  BY <1>1, <1>13, <1>14 DEF Span
<1>22. ASSUME NEW w \in Seq(Ivl), Fits(w, u) PROVE Fits(w, r)
  <2> SUFFICES ASSUME NEW k \in DOMAIN w, NEW i \in 1 .. N, Near(w[k], r[i]), NEW h \in 1 .. N
               PROVE  (h < i => r[h].e < w[k].b) /\ (i < h => w[k].e < r[h].b)
    BY <1>12 DEF Fits
  <2>1. w[k].b \in Nat /\ w[k].e \in Nat
    BY Bounds
  <2>2. Near(w[k], u[i])
    BY <1>1, <1>13, <1>14, <2>1 DEF Near
  <2>3. (h < i => u[h].e < w[k].b) /\ (i < h => w[k].e < u[h].b)
    BY <1>1, <1>22, <2>2 DEF Fits
  <2> QED BY <1>1, <1>13, <1>14, <2>1, <2>3
<1>23. ASSUME NEW x \in Leaves(r) PROVE x \in Leaves(u)
  <2>1. PICK k \in 1 .. N : x \in Span(r[k])
    BY <1>12, LeavesOf
  <2>2. x \in Span(u[k])
    BY <1>21, <2>1
  <2> QED BY <1>1, <2>2, LeavesOf
<1>24. ASSUME NEW x \in Leaves(u) PROVE x \in Leaves(g) \/ x \in Leaves(r)
  <2>1. PICK k \in 1 .. N : x \in Span(u[k])
    BY <1>1, LeavesOf
  <2>2. CASE x \in Span(r[k])
    BY <1>12, <2>2, LeavesOf
  <2>3. CASE x \notin Span(r[k])
    <3>1. x \in Nat /\ u[k].b <= x /\ x <= u[k].e
      BY <1>1, <2>1 DEF Span
    <3>2. r[k].e < x
      BY <1>11, <1>14, <2>3, <3>1 DEF Span
    <3>3. k \in cut
      BY <1>1, <1>11, <3>1, <3>2
    <3>4. coupe(u[k]) + 1 <= x
      BY <1>2, <1>11, <3>1, <3>2, <3>3
    <3>5. PICK n \in DOMAIN g : p[n] = k
      BY <1>10, <3>3 DEF Picks
    <3>6. g[n].b = coupe(u[k]) + 1 /\ g[n].e = u[k].e
      BY <1>6, <1>17, <3>5
    <3>7. x \in Span(g[n])
      BY <1>1, <1>2, <3>1, <3>4, <3>6 DEF Span
    <3> QED BY <3>7, LeavesOf
  <2> QED BY <2>2, <2>3
<1>25. DOMAIN r = DOMAIN u
  BY <1>1, <1>12
<1>26. /\ Numbered(g) \in Seq(Ivl)
       /\ LongApart(g) => LongApart(Numbered(g))
       /\ Leaves(Numbered(g)) = Leaves(g)
  BY <1>9, Renumbered
<1> QED BY <1>4, <1>12, <1>19, <1>20, <1>22, <1>23, <1>24, <1>25, <1>26 DEF r

-----------------------------------------------------------------------------
(* Splitting *)

\* The parts of an interval: those of at least two leaves lie in it and apart, and
\* every leaf is in one of them.
LEMMA PartsOf ==
  ASSUME NEW i \in Ivl, NEW ratio \in Nat, ratio >= 2
  PROVE  LET P == Parts(i, ratio) IN
         /\ \A r \in 1 .. ratio : P[r] \in Ivl
         /\ \A r \in 1 .. ratio : P[r].b < P[r].e => Inside(P[r], i)
         /\ \A r, s \in 1 .. ratio :
              r # s /\ P[r].b < P[r].e /\ P[s].b < P[s].e => P[r].e < P[s].b \/ P[s].e < P[r].b
         /\ \A x \in Span(i) : \E r \in 1 .. ratio : x \in Span(P[r])
<1> DEFINE P == Parts(i, ratio)
           R == 1 .. ratio
           b == i.b
           e == i.e
           part == Quotient(length(i), ratio)
           begin(r) == IF r = 1 THEN b ELSE b + (r - 1) * part + 1
           last(r) == IF r = ratio THEN e ELSE b + r * part
<1>1. b \in Nat /\ e \in Nat /\ i.id \in Nat
  BY DEF Ivl
<1>2. \A r \in R : P[r] = [b |-> begin(r), e |-> last(r), id |-> i.id]
  BY DEF Parts
<1>3. \A r \in R : P[r].b = begin(r) /\ P[r].e = last(r)
  <2> SUFFICES ASSUME NEW r \in R PROVE P[r].b = begin(r) /\ P[r].e = last(r)
    OBVIOUS
  <2> DEFINE x == begin(r)
             y == last(r)
  <2>1. P[r] = [b |-> x, e |-> y, id |-> i.id]
    BY <1>2
  <2> HIDE DEF P, begin, last, x, y
  <2>2. P[r].b = x /\ P[r].e = y
    BY <2>1
  <2> QED BY <2>2 DEF x, y
<1>6. \A x, y \in Nat : [b |-> x, e |-> y, id |-> i.id] \in Ivl
  BY <1>1 DEF Ivl
<1> HIDE DEF P, part
<1>4. CASE b <= e
  <2> DEFINE m == e - b
             q == m \div ratio
             s == m % ratio
  <2>1. m \in Nat /\ e = b + m /\ length(i) = m
    BY <1>1, <1>4 DEF length
  <2> HIDE DEF m
  <2>2. part = q
    BY <2>1 DEF part, Quotient
  <2>3. q \in Nat /\ s \in Nat /\ s < ratio /\ m = q * ratio + s /\ q * ratio = ratio * q
    BY <2>1, QuotientRemainder
  <2> HIDE DEF q, s
  <2>4. \A r \in 0 .. ratio : r * q \in Nat /\ r * q <= ratio * q
    BY <2>3, Times
  <2>5. ratio * q <= m /\ ratio * q \in Nat
    BY <2>1, <2>3, <2>4
  <2>6. ASSUME NEW r \in R
        PROVE  /\ begin(r) \in Nat /\ last(r) \in Nat /\ b <= begin(r) /\ last(r) <= e
    <3>1. (r - 1) * q \in Nat /\ r * q \in Nat /\ r * q <= m
      BY <2>1, <2>4, <2>5
    <3>2. begin(r) = (IF r = 1 THEN b ELSE b + (r - 1) * q + 1)
      BY <2>2
    <3>3. last(r) = (IF r = ratio THEN e ELSE b + r * q)
      BY <2>2
    <3> HIDE DEF begin, last
    <3>4. begin(r) \in Nat /\ b <= begin(r)
      BY <1>1, <3>1, <3>2
    <3>5. last(r) \in Nat /\ last(r) <= e
      BY <1>1, <2>1, <3>1, <3>3
    <3> QED BY <3>4, <3>5
  <2>7. ASSUME NEW r \in R, NEW t \in R, r < t PROVE last(r) < begin(t)
    <3>1. r \in Nat /\ t - 1 \in Nat /\ r <= t - 1
      BY <2>7
    <3>2. r * q \in Nat /\ (t - 1) * q \in Nat /\ r * q <= (t - 1) * q
      BY <2>3, <3>1, Times
    <3>3. last(r) = b + r * q /\ begin(t) = b + (t - 1) * q + 1
      BY <2>2, <2>7
    <3> HIDE DEF begin, last
    <3> QED BY <1>1, <3>2, <3>3
  <2>8. ASSUME NEW x \in Span(i) PROVE \E r \in R : begin(r) <= x /\ x <= last(r)
    <3>1. x \in Nat /\ b <= x /\ x <= e
      BY <1>1 DEF Span
    <3>2. CASE x = b
      <4>1. begin(1) <= x /\ x <= last(1)
        <5>1. 1 * q \in Nat /\ begin(1) = b /\ last(1) = b + 1 * q
          BY <2>2, <2>3
        <5> HIDE DEF begin, last
        <5> QED BY <1>1, <3>2, <5>1
      <4> HIDE DEF begin, last
      <4> QED BY <4>1
    <3>3. CASE x # b /\ b + (ratio - 1) * q < x
      <4>1. begin(ratio) = b + (ratio - 1) * q + 1 /\ last(ratio) = e
        BY <2>2
      <4>2. (ratio - 1) * q \in Nat
        BY <2>4
      <4> HIDE DEF begin, last
      <4>3. begin(ratio) <= x /\ x <= last(ratio)
        BY <1>1, <3>1, <3>3, <4>1, <4>2
      <4> QED BY <4>3
    <3>4. CASE x # b /\ ~(b + (ratio - 1) * q < x)
      <4> DEFINE y == x - b - 1
                 c == y \div q
                 d == y % q
      <4>1. y \in Nat /\ x = b + y + 1
        BY <1>1, <3>1, <3>4
      <4> HIDE DEF y
      <4>2. (ratio - 1) * q \in Nat /\ y + 1 <= (ratio - 1) * q
        BY <1>1, <2>4, <3>1, <3>4, <4>1
      <4>3. q # 0
        BY <4>1, <4>2
      <4>4. c \in Nat /\ d \in Nat /\ d < q /\ y = c * q + d
        BY <2>3, <4>1, <4>3, QuotientRemainder
      <4> HIDE DEF c, d
      <4>5. c < ratio - 1
        <5> SUFFICES ASSUME ratio - 1 <= c PROVE FALSE
          BY <4>4
        <5>1. (ratio - 1) * q <= c * q /\ c * q \in Nat
          BY <2>3, <4>4, Times
        <5> QED BY <4>1, <4>2, <4>4, <5>1
      <4>6. c + 1 \in R /\ c + 1 # ratio /\ (c + 1) - 1 = c /\ (c + 1) * q = c * q + q /\ c * q \in Nat
        BY <2>3, <4>4, <4>5
      <4>7. begin(c + 1) = (IF c = 0 THEN b ELSE b + c * q + 1) /\ last(c + 1) = b + (c + 1) * q
        BY <2>2, <4>4, <4>6
      <4> HIDE DEF begin, last
      <4>8. begin(c + 1) <= x
        BY <1>1, <4>1, <4>4, <4>6, <4>7
      <4>9. x <= last(c + 1)
        BY <1>1, <2>3, <4>1, <4>4, <4>6, <4>7
      <4> QED BY <4>6, <4>8, <4>9
    <3> QED BY <3>2, <3>3, <3>4
  <2> HIDE DEF begin, last
  <2>9. \A r \in R : P[r] \in Ivl /\ Inside(P[r], i)
    <3>1. \A r \in R : P[r] \in Ivl
      BY <1>2, <1>6, <2>6
    <3>2. \A r \in R : Inside(P[r], i)
      BY <1>3, <2>6 DEF Inside
    <3> QED BY <3>1, <3>2
  <2>10. \A r, t \in R : r # t => P[r].e < P[t].b \/ P[t].e < P[r].b
    <3> SUFFICES ASSUME NEW r \in R, NEW t \in R, r # t
                 PROVE  P[r].e < P[t].b \/ P[t].e < P[r].b
      OBVIOUS
    <3>1. r < t \/ t < r
      OBVIOUS
    <3> QED BY <1>3, <2>7, <3>1
  <2>11. ASSUME NEW x \in Span(i) PROVE \E r \in R : x \in Span(P[r])
    <3>1. PICK r \in R : begin(r) <= x /\ x <= last(r)
      BY <2>8
    <3>2. x \in Int
      BY <1>1 DEF Span
    <3>3. x \in Span(P[r])
      BY <1>3, <2>6, <3>1, <3>2 DEF Span
    <3> QED BY <3>3
  <2> QED BY <2>9, <2>10, <2>11 DEF P
<1>5. CASE e < b
  <2> DEFINE m == b - e
             q == m \div ratio
             s == m % ratio
  <2>1. m \in Nat \ {0} /\ e = b - m /\ length(i) = -m /\ -(-m) = m
    BY <1>1, <1>5 DEF length
  <2> HIDE DEF m
  <2>2. part = -q
    BY <2>1 DEF part, Quotient
  <2>3. q \in Nat /\ s \in Nat /\ s < ratio /\ m = q * ratio + s /\ q * ratio = ratio * q
    BY <2>1, QuotientRemainder
  <2> HIDE DEF q, s
  <2>4. \A r \in 0 .. ratio : /\ r * q \in Nat /\ r * q <= ratio * q
                              /\ r * part = -(r * q)
    <3>1. \A r \in 0 .. ratio : r * q \in Nat /\ r * q <= ratio * q
      BY <2>3, Times
    <3>2. \A r \in 0 .. ratio : r * (-q) = -(r * q)
      BY <2>3
    <3> QED BY <2>2, <3>1, <3>2
  <2>5. ratio * q <= m /\ ratio * q \in Nat /\ m <= b
    BY <1>1, <2>1, <2>3, <2>4
  <2>6. ASSUME NEW r \in R
        PROVE  begin(r) \in Nat /\ last(r) \in Nat /\ last(r) <= begin(r)
    <3> DEFINE a == (r - 1) * q
               c == r * q
    <3>1. a \in Nat /\ c \in Nat /\ c = a + q /\ c <= ratio * q /\ (r - 1) * part = -a /\ r * part = -c
      <4>1. r \in 0 .. ratio /\ r - 1 \in 0 .. ratio
        OBVIOUS
      <4>2. r * q = (r - 1) * q + q
        BY <2>3
      <4> QED BY <2>4, <4>1, <4>2
    <3> HIDE DEF a, c
    <3>2. begin(r) = (IF r = 1 THEN b ELSE b - a + 1)
      BY <1>1, <3>1
    <3>3. last(r) = (IF r = ratio THEN b - m ELSE b - c)
      BY <1>1, <2>1, <3>1
    <3> HIDE DEF begin, last
    <3>4. a <= m /\ c <= m /\ (r = 1 => a = 0)
      <4>1. r = 1 => a = 0
        BY <2>3 DEF a
      <4> QED BY <2>1, <2>3, <2>5, <3>1, <4>1
    <3>5. begin(r) \in Nat
      BY <1>1, <2>1, <2>5, <3>1, <3>2, <3>4
    <3>6. last(r) \in Nat
      BY <1>1, <2>1, <2>5, <3>1, <3>3, <3>4
    <3>7. last(r) <= begin(r)
      BY <1>1, <2>1, <2>3, <2>5, <3>1, <3>2, <3>3, <3>4
    <3> QED BY <3>5, <3>6, <3>7
  <2> HIDE DEF begin, last
  <2>7. \A r \in R : P[r] \in Ivl
    BY <1>2, <1>6, <2>6
  <2>8. \A r \in R : ~(P[r].b < P[r].e)
    BY <1>3, <2>6
  <2>9. Span(i) = {}
    BY <1>1, <1>5 DEF Span
  <2> QED BY <2>7, <2>8, <2>9 DEF P
<1> QED BY <1>1, <1>4, <1>5

\* Splitting loses no leaf.
LEMMA Splitted ==
  ASSUME NEW u \in Seq(Ivl), u # <<>>, NEW n \in Nat
  PROVE  LET v == split(u, n) IN
         /\ v \in Seq(Ivl) /\ v # <<>>
         /\ LongApart(u) => LongApart(v)
         /\ \A x \in Leaves(u) : x \in Leaves(v)
<1> DEFINE ratio == n \div Len(u)
           N == ratio * Len(u)
           v == IF ratio <= 1 THEN u
                ELSE [k \in 1 .. N |-> Parts(u[(k - 1) \div ratio + 1], ratio)[((k - 1) % ratio) + 1]]
           p == [k \in 1 .. N |-> (k - 1) \div ratio + 1]
           q == [k \in 1 .. N |-> ((k - 1) % ratio) + 1]
<1>1. /\ Len(u) \in Nat \ {0} /\ DOMAIN u = 1 .. Len(u)
      /\ \A k \in DOMAIN u : u[k] \in Ivl /\ u[k].b \in Nat /\ u[k].e \in Nat
  BY Bounds
<1>2. ratio \in Nat
  BY <1>1
<1>3. v = IF ratio <= 1 THEN u
          ELSE [k \in 1 .. N |-> Parts(u[(k - 1) \div ratio + 1], ratio)[((k - 1) % ratio) + 1]]
  OBVIOUS
<1>6. split(u, n) = Numbered(v)
  BY DEF split
<1> HIDE DEF v, ratio
<1> DEFINE Fine == /\ v \in Seq(Ivl) /\ v # <<>>
                   /\ LongApart(u) => LongApart(v)
                   /\ \A x \in Leaves(u) : x \in Leaves(v)
<1>4. ASSUME ratio <= 1 PROVE Fine
  BY <1>3, <1>4
<1>5. ASSUME ~(ratio <= 1) PROVE Fine
  <2>1. ratio \in Nat \ {0} /\ ratio >= 2
    BY <1>2, <1>5
  <2>2. /\ N \in Nat
        /\ \A k \in 1 .. N : (k - 1) \div ratio + 1 \in 1 .. Len(u) /\ ((k - 1) % ratio) + 1 \in 1 .. ratio
        /\ \A i \in 1 .. Len(u), r \in 1 .. ratio :
             \E k \in 1 .. N : (k - 1) \div ratio + 1 = i /\ ((k - 1) % ratio) + 1 = r
        /\ \A k, l \in 1 .. N :
             (k - 1) \div ratio = (l - 1) \div ratio /\ (k - 1) % ratio = (l - 1) % ratio => k = l
    BY <1>1, <2>1, Blocks
  <2>3. N # 0
    <3>1. \E k \in 1 .. N : (k - 1) \div ratio + 1 = 1 /\ ((k - 1) % ratio) + 1 = 1
      BY <1>1, <2>1, <2>2
    <3> QED BY <2>2, <3>1
  <2>4. v = [k \in 1 .. N |-> Parts(u[p[k]], ratio)[q[k]]]
    <3>1. v = [k \in 1 .. N |-> Parts(u[(k - 1) \div ratio + 1], ratio)[((k - 1) % ratio) + 1]]
      BY <1>3, <1>5
    <3>2. \A k \in 1 .. N : p[k] = (k - 1) \div ratio + 1 /\ q[k] = ((k - 1) % ratio) + 1
      OBVIOUS
    <3> HIDE DEF p, q, N
    <3> QED BY <3>1, <3>2
  <2>5. p \in [1 .. N -> 1 .. Len(u)] /\ q \in [1 .. N -> 1 .. ratio]
    <3> HIDE DEF N
    <3> QED BY <2>2
  <2>6. \A i \in 1 .. Len(u), r \in 1 .. ratio : \E k \in 1 .. N : p[k] = i /\ q[k] = r
    <3> HIDE DEF N
    <3> QED BY <2>2
  <2>7. \A k, l \in 1 .. N : p[k] = p[l] /\ q[k] = q[l] => k = l
    <3>1. \A k \in 1 .. N : /\ p[k] = (k - 1) \div ratio + 1 /\ q[k] = ((k - 1) % ratio) + 1
                            /\ (k - 1) \div ratio \in Int /\ ((k - 1) % ratio) \in Int
      BY <2>1, <2>2
    <3> HIDE DEF N, p, q
    <3>2. ASSUME NEW k \in 1 .. N, NEW l \in 1 .. N, p[k] = p[l], q[k] = q[l] PROVE k = l
      <4> DEFINE a == (k - 1) \div ratio
                 b == (l - 1) \div ratio
                 c == (k - 1) % ratio
                 d == (l - 1) % ratio
      <4>1. a \in Int /\ b \in Int /\ c \in Int /\ d \in Int /\ a + 1 = b + 1 /\ c + 1 = d + 1
        BY <3>1, <3>2
      <4>2. a = b /\ c = d => k = l
        BY <2>2
      <4> HIDE DEF a, b, c, d
      <4> QED BY <4>1, <4>2
    <3> QED BY <3>2
  <2> HIDE DEF p, q, N
  <2>8. ASSUME NEW k \in 1 .. N
        PROVE  /\ v[k] = Parts(u[p[k]], ratio)[q[k]] /\ v[k] \in Ivl
               /\ v[k].b < v[k].e => Inside(v[k], u[p[k]])
    <3>1. p[k] \in 1 .. Len(u) /\ q[k] \in 1 .. ratio /\ u[p[k]] \in Ivl
      BY <1>1, <2>5
    <3>2. v[k] = Parts(u[p[k]], ratio)[q[k]]
      BY <2>4
    <3> QED BY <2>1, <3>1, <3>2, PartsOf
  <2>9. v \in Seq(Ivl) /\ DOMAIN v = 1 .. N /\ Len(v) = N
    <3>1. v \in [1 .. N -> Ivl]
      BY <2>4, <2>8
    <3> QED BY <2>2, <3>1, FunctionSeq
  <2>10. v # <<>>
    BY <2>3, <2>9
  <2>11. ASSUME NEW k \in 1 .. N, NEW l \in 1 .. N, k # l, p[k] = p[l],
                v[k].b < v[k].e, v[l].b < v[l].e
         PROVE  v[k].e < v[l].b \/ v[l].e < v[k].b
    <3>1. q[k] # q[l] /\ q[k] \in 1 .. ratio /\ q[l] \in 1 .. ratio
      BY <2>5, <2>7, <2>11
    <3>2. u[p[k]] \in Ivl
      BY <1>1, <2>5
    <3> DEFINE P == Parts(u[p[k]], ratio)
    <3>3. v[k] = P[q[k]] /\ v[l] = P[q[l]]
      BY <2>8, <2>11
    <3>4. \A r, s \in 1 .. ratio :
            r # s /\ P[r].b < P[r].e /\ P[s].b < P[s].e => P[r].e < P[s].b \/ P[s].e < P[r].b
      BY <2>1, <3>2, PartsOf
    <3> HIDE DEF P
    <3> QED BY <2>11, <3>1, <3>3, <3>4
  <2>12. LongShrinks(v, u, p)
    BY <1>1, <2>5, <2>8, <2>9, <2>11 DEF LongShrinks
  <2>13. ASSUME NEW x \in Leaves(u) PROVE x \in Leaves(v)
    <3>1. PICK i \in 1 .. Len(u) : x \in Span(u[i])
      BY <1>1, LeavesOf
    <3>2. PICK r \in 1 .. ratio : x \in Span(Parts(u[i], ratio)[r])
      BY <1>1, <2>1, <3>1, PartsOf
    <3>3. PICK k \in 1 .. N : p[k] = i /\ q[k] = r
      BY <2>6
    <3>4. k \in DOMAIN v /\ x \in Span(v[k])
      BY <2>8, <2>9, <3>2, <3>3
    <3> QED BY <3>4, LeavesOf
  <2>14. LongApart(u) => LongApart(v)
    BY <2>9, <2>12, LongApartKept
  <2> QED BY <2>9, <2>10, <2>13, <2>14
<1>7. Fine
  BY <1>4, <1>5
<1>8. /\ Numbered(v) \in Seq(Ivl) /\ Len(Numbered(v)) = Len(v)
      /\ LongApart(v) => LongApart(Numbered(v))
      /\ Leaves(Numbered(v)) = Leaves(v)
  BY <1>7, Renumbered
<1>9. Numbered(v) # <<>>
  BY <1>7, <1>8
<1> QED BY <1>6, <1>7, <1>8, <1>9

\* What split2 cuts a work of one interval into.
LEMMA LopPartsOf ==
  ASSUME NEW i \in Ivl, NEW ratio \in Nat, ratio >= 2
  PROVE  LopParts(i, ratio) \in Seq(Ivl)
<1> DEFINE g == [y \in (1 .. ratio) \X Nat |-> Twentieth(i.b, y[2])]
           step(h) == [k \in 0 .. ratio |-> IF k = 0 THEN i.e ELSE Twentieth(i.b, h[k - 1])]
<1>1. i.b \in Nat /\ i.e \in Nat
  BY DEF Ivl
<1>2. \A x \in Nat : Twentieth(i.b, x) \in Nat
  BY <1>1 DEF Twentieth
<1>3. g \in [(1 .. ratio) \X Nat -> Nat]
  BY <1>2
<1>4. PICK f \in [0 .. ratio -> Nat] : f[0] = i.e /\ \A k \in 1 .. ratio : f[k] = g[<<k, f[k - 1]>>]
  <2> DEFINE x == i.e
  <2> HIDE DEF g, x
  <2>1. \E f \in [0 .. ratio -> Nat] : Unfolds(f, ratio, x, g)
    BY <1>1, <1>3, Recursion DEF x
  <2> QED BY <2>1 DEF Unfolds, x
<1>5. f = step(f)
  <2>1. ASSUME NEW k \in 0 .. ratio PROVE f[k] = IF k = 0 THEN i.e ELSE Twentieth(i.b, f[k - 1])
    <3>1. CASE k = 0
      BY <1>4, <3>1
    <3>2. CASE k # 0
      <4>1. k \in 1 .. ratio /\ f[k - 1] \in Nat
        BY <3>2
      <4>2. g[<<k, f[k - 1]>>] = Twentieth(i.b, f[k - 1])
        BY <4>1
      <4> HIDE DEF g
      <4> QED BY <1>4, <3>2, <4>1, <4>2
    <3> QED BY <3>1, <3>2
  <2> QED BY <2>1
<1> DEFINE Ends(h) == h = step(h)
           ends == CHOOSE h : Ends(h)
<1>6. Ends(ends)
  <2>1. \E h : Ends(h)
    BY <1>5
  <2> HIDE DEF Ends
  <2> QED BY <2>1
<1> DEFINE S == {k \in Nat : k <= ratio => ends[k] \in Nat}
<1>7. S = Nat
  <2> DEFINE T == S
  <2>1. 0 \in T
    <3>1. ends[0] = i.e
      <4> HIDE DEF ends
      <4> QED BY <1>6
    <3> HIDE DEF ends
    <3> QED BY <1>1, <3>1
  <2>2. ASSUME NEW k \in T PROVE k + 1 \in T
    <3> SUFFICES ASSUME k + 1 <= ratio PROVE ends[k + 1] \in Nat
      OBVIOUS
    <3>1. k \in Nat /\ k + 1 \in 0 .. ratio /\ k + 1 # 0 /\ (k + 1) - 1 = k /\ ends[k] \in Nat
      OBVIOUS
    <3> HIDE DEF ends, T
    <3>2. ends[k + 1] = Twentieth(i.b, ends[k])
      BY <1>6, <3>1
    <3> QED BY <1>2, <3>1, <3>2
  <2>3. T \in SUBSET Nat
    OBVIOUS
  <2> HIDE DEF T
  <2>4. T = Nat
    BY <2>1, <2>2, <2>3, AllNaturals
  <2> QED BY <2>4 DEF T
<1>8. \A k \in 0 .. ratio : ends[k] \in Nat
  <2> SUFFICES ASSUME NEW k \in 0 .. ratio PROVE ends[k] \in Nat
    OBVIOUS
  <2>1. k \in Nat /\ k <= ratio
    OBVIOUS
  <2>2. k \in S
    <3> HIDE DEF S
    <3> QED BY <1>7, <2>1
  <2> HIDE DEF ends
  <2> QED BY <2>1, <2>2
<1> DEFINE Short(k) == ends[k] - ends[k + 1] < SmallestPart
           IsLast(k) == /\ k = ratio - 1 \/ Short(k)
                      /\ \A j \in 1 .. k - 1 : ~Short(j)
           parts == CHOOSE k \in 1 .. ratio - 1 : IsLast(k)
           rest == IF parts = ratio - 1 THEN parts ELSE parts + 1
           v == [k \in 1 .. parts |-> [b |-> ends[k], e |-> ends[k - 1], id |-> i.id]]
           t == <<[b |-> i.b, e |-> ends[rest], id |-> i.id]>>
<1>9. LopParts(i, ratio) = Numbered(v \o t)
  <2>1. ends = CHOOSE h : h = [k \in 0 .. ratio |-> IF k = 0 THEN i.e ELSE Twentieth(i.b, h[k - 1])]
    OBVIOUS
  <2> HIDE DEF ends
  <2> QED BY <2>1 DEF LopParts
<1> HIDE DEF ends
<1>10. parts \in 1 .. ratio - 1
  <2> DEFINE K == {k \in 1 .. ratio - 1 : k = ratio - 1 \/ Short(k)}
             m == Min(K)
  <2>1. ratio - 1 \in K /\ K \in SUBSET Nat
    OBVIOUS
  <2>2. m \in K /\ \A j \in K : m <= j
    <3> HIDE DEF K
    <3> QED BY <2>1, LeastNumber
  <2> HIDE DEF m, Short
  <2>3. m \in 1 .. ratio - 1 /\ IsLast(m)
    BY <2>2
  <2> HIDE DEF IsLast
  <2> QED BY <2>3
<1> HIDE DEF parts
<1>11. \A x, y \in Nat : [b |-> x, e |-> y, id |-> i.id] \in Ivl
  BY DEF Ivl
<1>12. v \in Seq(Ivl)
  <2>1. \A k \in 1 .. parts : ends[k] \in Nat /\ ends[k - 1] \in Nat
    BY <1>8, <1>10
  <2>2. v \in [1 .. parts -> Ivl]
    BY <1>11, <2>1
  <2> HIDE DEF v
  <2> QED BY <1>10, <2>2, FunctionSeq
<1>13. t \in Seq(Ivl)
  <2>1. ends[rest] \in Nat
    BY <1>8, <1>10
  <2>2. [b |-> i.b, e |-> ends[rest], id |-> i.id] \in Ivl
    BY <1>1, <1>11, <2>1
  <2> QED BY <2>2
<1> HIDE DEF v, t
<1>14. v \o t \in Seq(Ivl)
  BY <1>12, <1>13, ConcatElements
<1> QED BY <1>9, <1>14, Renumbered

-----------------------------------------------------------------------------
(* Intersection *)

\* x is where an interval of s and one of w touch each other.
Touches(x, s, w) ==
  \E i \in DOMAIN s, h \in DOMAIN w :
    (x = s[i].e /\ x = w[h].b) \/ (x = s[i].b /\ x = w[h].e)

\* One interval of a report against the copy.
LEMMA ScanOf ==
  ASSUME NEW s \in Seq(Ivl), NEW from \in Nat \ {0}, NEW j \in Ivl, j.b < j.e
  PROVE  LET r == Scan(s, from, j) IN
         /\ r = [found |-> r.found, from |-> r.from]
         /\ r.found \in Seq(Ivl) /\ Len(r.found) <= 1
         /\ \A n \in DOMAIN r.found : j.b <= r.found[n].e /\ Inside(r.found[n], j)
         /\ r.from \in Nat \ {0}
         /\ Ascending(s) => \A i \in DOMAIN s : from <= i /\ s[i].e >= j.b => r.from <= i
         /\ \A i \in DOMAIN s, x \in Span(j) :
              /\ from <= i /\ x \in Span(s[i])
              /\ ~(x = s[i].e /\ x = j.b) /\ ~(x = s[i].b /\ x = j.e)
              /\ \A k \in DOMAIN s : k < i => s[k].e < j.b
              => x \in Leaves(r.found)
<1> DEFINE N == Len(s)
           halts == {k \in from .. N : s[k].e >= j.b /\ (s[k].b > j.e \/ Overlap(s[k], j))}
           halt == IF halts = {} THEN N + 1 ELSE Min(halts)
           hit == halt <= N /\ Overlap(s[halt], j)
           found == IF hit THEN <<Meet(s[halt], j)>> ELSE <<>>
           C == {k \in from .. halt - 1 : s[k].e < j.b}
           next == from + Cardinality(C)
           r == Scan(s, from, j)
<1>1. /\ N \in Nat /\ DOMAIN s = 1 .. N
      /\ \A i \in 1 .. N : s[i] \in Ivl /\ s[i].b \in Nat /\ s[i].e \in Nat
  BY Bounds
<1>2. j.b \in Nat /\ j.e \in Nat /\ j.id \in Nat
  BY DEF Ivl
<1>3. r = [found |-> found, from |-> next]
  BY DEF Scan
<1>4. \A i \in 1 .. N : Overlap(s[i], j) <=> s[i].e > j.b /\ s[i].b < j.e
  BY DEF Overlap
<1>5. halts \in SUBSET Nat /\ halts \subseteq 1 .. N
  OBVIOUS
<1>6. /\ halt \in Nat \ {0}
      /\ halt <= N => halt \in halts
      /\ \A k \in halts : halt <= k
      /\ halt <= N + 1
  <2>1. CASE halts = {}
    <3>1. halt = N + 1
      BY <2>1
    <3> HIDE DEF halt, halts
    <3> QED BY <1>1, <2>1, <3>1
  <2>2. CASE halts # {}
    <3>1. halt = Min(halts)
      BY <2>2
    <3> HIDE DEF halt, halts
    <3>2. halt \in halts /\ \A k \in halts : halt <= k
      BY <1>5, <2>2, <3>1, LeastNumber
    <3> QED BY <1>1, <1>5, <3>2
  <2> QED BY <2>1, <2>2
<1>7. halt \in halts => s[halt].e >= j.b /\ halt \in 1 .. N
  <2> HIDE DEF halt
  <2> QED OBVIOUS
<1> HIDE DEF r
<1>8. r.found = found /\ r.from = next /\ r = [found |-> r.found, from |-> r.from]
  <2> HIDE DEF found, next
  <2> QED BY <1>3
<1> HIDE DEF halt
<1>9. ASSUME hit
      PROVE  /\ halt \in 1 .. N /\ r.found = <<Meet(s[halt], j)>>
             /\ s[halt].e > j.b /\ s[halt].b < j.e
  BY <1>4, <1>6, <1>7, <1>8, <1>9
<1>10. ASSUME NEW i \in 1 .. N, s[i].e > j.b, s[i].b < j.e
       PROVE  LET m == Meet(s[i], j) IN
              /\ m \in Ivl /\ j.b <= m.e /\ Inside(m, j)
              /\ \A x \in Span(j) \cap Span(s[i]) : x \in Span(m)
  <2> DEFINE m == Meet(s[i], j)
  <2>1. /\ m.b = (IF s[i].b > j.b THEN s[i].b ELSE j.b)
        /\ m.e = (IF s[i].e < j.e THEN s[i].e ELSE j.e)
    BY DEF Meet
  <2>2. m \in Ivl
    <3>1. /\ (IF s[i].b > j.b THEN s[i].b ELSE j.b) \in Nat
          /\ (IF s[i].e < j.e THEN s[i].e ELSE j.e) \in Nat
      BY <1>1, <1>2
    <3> QED BY <3>1 DEF Meet, Ivl
  <2> HIDE DEF m
  <2>3. j.b <= m.e
    BY <1>1, <1>2, <1>10, <2>1
  <2>4. Inside(m, j)
    BY <1>1, <1>2, <1>10, <2>1 DEF Inside
  <2>5. \A x \in Span(j) \cap Span(s[i]) : x \in Span(m)
    BY <1>1, <1>2, <2>1 DEF Span
  <2> QED BY <2>2, <2>3, <2>4, <2>5 DEF m
<1>11. /\ r.found \in Seq(Ivl) /\ Len(r.found) <= 1
       /\ \A n \in DOMAIN r.found : j.b <= r.found[n].e /\ Inside(r.found[n], j)
  <2>1. CASE hit
    <3> DEFINE m == Meet(s[halt], j)
    <3>1. m \in Ivl /\ j.b <= m.e /\ Inside(m, j)
      BY <1>9, <1>10, <2>1
    <3>2. r.found = <<m>>
      BY <1>9, <2>1
    <3> HIDE DEF m
    <3> QED BY <3>1, <3>2
  <2>2. CASE ~hit
    <3>1. r.found = <<>>
      BY <1>8, <2>2
    <3> QED BY <3>1
  <2> QED BY <2>1, <2>2
<1>12. IsFiniteSet(C) /\ Cardinality(C) \in Nat
  <2>1. C \subseteq 1 .. halt
    BY <1>6
  <2>2. IsFiniteSet(1 .. halt)
    <3>1. halt \in Int
      BY <1>6
    <3> QED BY <3>1, FS_Interval
  <2> HIDE DEF C
  <2> QED BY <2>1, <2>2, FS_Subset, FS_CardinalityType
<1>13. ASSUME Ascending(s), NEW i \in 1 .. N, from <= i, s[i].e >= j.b PROVE next <= i
  <2>1. C \subseteq from .. i - 1
    <3> SUFFICES ASSUME NEW k \in from .. halt - 1, s[k].e < j.b PROVE k \in from .. i - 1
      OBVIOUS
    <3>1. k \in 1 .. N
      <4>1. k \in Nat /\ from <= k /\ k < halt
        BY <1>6
      <4> HIDE DEF halts
      <4> QED BY <1>1, <1>6, <4>1
    <3>2. ~(i <= k)
      <4>1. CASE i = k
        BY <1>1, <1>2, <1>13, <3>1, <4>1
      <4>2. CASE i < k
        <5>1. s[i].e < s[k].e
          BY <1>1, <1>13, <3>1, <4>2 DEF Ascending
        <5> QED BY <1>1, <1>2, <1>13, <3>1, <5>1
      <4> QED BY <3>1, <4>1, <4>2
    <3> QED BY <3>1, <3>2
  <2>2. IsFiniteSet(from .. i - 1) /\ Cardinality(from .. i - 1) = i - from
    <3>1. i - 1 \in Int /\ from \in Int /\ ~(from > i - 1 + 1)
      BY <1>13
    <3>2. /\ IsFiniteSet(from .. i - 1)
          /\ Cardinality(from .. i - 1) = IF from > i - 1 THEN 0 ELSE i - 1 - from + 1
      BY <3>1, FS_Interval
    <3> QED BY <3>1, <3>2
  <2> HIDE DEF C
  <2>3. Cardinality(C) <= i - from
    BY <2>1, <2>2, FS_Subset
  <2> QED BY <1>12, <2>3
<1>14. ASSUME NEW i \in 1 .. N, NEW x \in Span(j), from <= i, x \in Span(s[i]),
              ~(x = s[i].e /\ x = j.b), ~(x = s[i].b /\ x = j.e),
              \A k \in DOMAIN s : k < i => s[k].e < j.b
       PROVE  x \in Leaves(r.found)
  <2>1. x \in Nat /\ j.b <= x /\ x <= j.e /\ s[i].b <= x /\ x <= s[i].e
    BY <1>1, <1>2, <1>14 DEF Span
  <2>2. s[i].e > j.b /\ s[i].b < j.e
    <3>1. s[i].e > j.b
      BY <1>1, <1>2, <1>14, <2>1
    <3>2. s[i].b < j.e
      BY <1>1, <1>2, <1>14, <2>1
    <3> QED BY <3>1, <3>2
  <2>3. i \in halts
    BY <1>1, <1>2, <1>4, <1>14, <2>2
  <2>4. halt <= i /\ halt \in halts /\ halt \in 1 .. N
    BY <1>6, <1>7, <2>3
  <2>5. halt = i
    <3> SUFFICES ASSUME halt < i PROVE FALSE
      BY <2>4
    <3>1. s[halt].e >= j.b /\ s[halt].e < j.b
      BY <1>1, <1>7, <1>14, <2>4
    <3> QED BY <1>1, <1>2, <2>4, <3>1
  <2>6. hit
    BY <1>1, <1>4, <2>2, <2>4, <2>5
  <2>7. r.found = <<Meet(s[i], j)>>
    BY <1>9, <2>5, <2>6
  <2>8. x \in Span(Meet(s[i], j))
    BY <1>10, <1>14, <2>2
  <2>9. 1 \in DOMAIN r.found /\ x \in Span(r.found[1])
    BY <2>7, <2>8
  <2> QED BY <2>9, LeavesOf
<1>15. r.from \in Nat \ {0}
  <2> HIDE DEF C
  <2> QED BY <1>8, <1>12
<1> HIDE DEF next
<1> QED BY <1>1, <1>8, <1>11, <1>13, <1>14, <1>15 DEF r

\* What the scans of the first k intervals of the report have found.
FoundUpto(d, k, s, w) ==
  /\ d = [found |-> d.found, from |-> d.from]
  /\ d.found \in Seq(Ivl) /\ Ascending(d.found)
  /\ \A n \in DOMAIN d.found : \E h \in 1 .. k : Inside(d.found[n], w[h])
  /\ d.from \in Nat \ {0}
  /\ Ascending(s) /\ Fits(w, s) =>
       /\ \A i \in DOMAIN s : (\A h \in 1 .. k : s[i].e >= w[h].b) => d.from <= i
       /\ \A h \in 1 .. k : \A x \in Leaves(s) \cap Span(w[h]) :
            Touches(x, s, w) \/ x \in Leaves(d.found)

\* One more interval of the report is scanned.
LEMMA FoundNext ==
  ASSUME NEW s \in Seq(Ivl), NEW w \in Seq(Ivl), Ascending(w),
         \A h \in DOMAIN w : w[h].b < w[h].e,
         NEW k \in Nat, k + 1 \in DOMAIN w, NEW d, FoundUpto(d, k, s, w)
  PROVE  LET r == Scan(s, d.from, w[k + 1])
         IN FoundUpto([found |-> d.found \o r.found, from |-> r.from], k + 1, s, w)
<1> DEFINE j == w[k + 1]
           r == Scan(s, d.from, j)
           t == r.found
           v == d.found \o t
           c == [found |-> v, from |-> r.from]
<1>1. /\ DOMAIN w = 1 .. Len(w) /\ Len(w) \in Nat
      /\ \A h \in DOMAIN w : w[h] \in Ivl /\ w[h].b \in Nat /\ w[h].e \in Nat
  BY Bounds
<1>2. j \in Ivl /\ j.b < j.e /\ d.from \in Nat \ {0}
  BY <1>1 DEF FoundUpto
<1>3. /\ r.found \in Seq(Ivl) /\ Len(r.found) <= 1
      /\ \A n \in DOMAIN r.found : j.b <= r.found[n].e /\ Inside(r.found[n], j)
      /\ r.from \in Nat \ {0}
      /\ Ascending(s) => \A i \in DOMAIN s : d.from <= i /\ s[i].e >= j.b => r.from <= i
      /\ \A i \in DOMAIN s, x \in Span(j) :
           /\ d.from <= i /\ x \in Span(s[i])
           /\ ~(x = s[i].e /\ x = j.b) /\ ~(x = s[i].b /\ x = j.e)
           /\ \A l \in DOMAIN s : l < i => s[l].e < j.b
           => x \in Leaves(r.found)
  <2> HIDE DEF j
  <2> QED BY <1>2, ScanOf
<1> HIDE DEF r
<1>4. c.found = v /\ c.from = r.from /\ c = [found |-> c.found, from |-> c.from]
  <2> HIDE DEF v
  <2> QED OBVIOUS
<1> DEFINE L == Len(d.found)
           f == d.found
<1>5. f \in Seq(Ivl) /\ Ascending(f) /\ \A n \in DOMAIN f : \E h \in 1 .. k : Inside(f[n], w[h])
  BY DEF FoundUpto
<1>6. L \in Nat /\ DOMAIN f = 1 .. L /\ \A n \in 1 .. L : f[n].b \in Nat /\ f[n].e \in Nat
  BY <1>5, Bounds
<1>7. /\ Len(t) \in Nat /\ DOMAIN t = 1 .. Len(t)
      /\ \A n \in 1 .. Len(t) : t[n].b \in Nat /\ t[n].e \in Nat
  BY <1>3, Bounds
<1> HIDE DEF f, t
<1>8. /\ v \in Seq(Ivl) /\ DOMAIN v = 1 .. L + Len(t)
      /\ \A n \in 1 .. L + Len(t) : v[n] = IF n <= L THEN f[n] ELSE t[n - L]
  <2>1. t \in Seq(Ivl)
    BY <1>3 DEF t
  <2>2. v = f \o t
    BY DEF f
  <2> HIDE DEF v
  <2> QED BY <1>5, <2>1, <2>2, ConcatElements DEF f
<1> HIDE DEF v, L
<1>9. \A n \in DOMAIN v : (n \in 1 .. L /\ v[n] = f[n]) \/ (n = L + 1 /\ 1 \in DOMAIN t /\ v[n] = t[1])
  <2> SUFFICES ASSUME NEW n \in DOMAIN v, n \notin 1 .. L PROVE n = L + 1 /\ 1 \in DOMAIN t /\ v[n] = t[1]
    BY <1>6, <1>8
  <2>1. Len(t) <= 1
    BY <1>3 DEF t
  <2>2. n = L + 1 /\ Len(t) = 1
    BY <1>6, <1>7, <1>8, <2>1
  <2>3. n - L = 1 /\ v[n] = t[n - L]
    BY <1>6, <1>8, <2>2
  <2> QED BY <1>7, <2>2, <2>3
<1>10. 1 \in DOMAIN t => j.b <= t[1].e /\ Inside(t[1], j) /\ t[1].b \in Nat /\ t[1].e \in Nat
  BY <1>3, <1>7 DEF t
<1>11. ASSUME NEW n \in 1 .. L, 1 \in DOMAIN t PROVE f[n].e < t[1].b /\ f[n].e < t[1].e
  <2>1. PICK h \in 1 .. k : Inside(f[n], w[h])
    BY <1>5, <1>6
  <2>2. h \in DOMAIN w /\ h < k + 1
    BY <1>1
  <2>3. w[h].e < j.b
    BY <2>2 DEF Ascending
  <2>4. f[n].e <= w[h].e /\ j.b <= t[1].b /\ j.b <= t[1].e
    BY <1>10, <1>11, <2>1 DEF Inside
  <2>5. f[n].e \in Nat /\ t[1].b \in Nat /\ t[1].e \in Nat /\ w[h].e \in Nat /\ j.b \in Nat
    BY <1>1, <1>6, <1>10, <1>11, <2>2
  <2> HIDE DEF j
  <2> QED BY <2>3, <2>4, <2>5
<1>12. Ascending(v)
  <2> SUFFICES ASSUME NEW n \in DOMAIN v, NEW m \in DOMAIN v, n < m
               PROVE  v[n].e < v[m].b /\ v[n].e < v[m].e
    BY DEF Ascending
  <2>1. n \in 1 .. L /\ v[n] = f[n]
    BY <1>6, <1>9, <1>8
  <2>2. CASE m \in 1 .. L /\ v[m] = f[m]
    BY <1>5, <1>6, <2>1, <2>2 DEF Ascending
  <2>3. CASE 1 \in DOMAIN t /\ v[m] = t[1]
    BY <1>11, <2>1, <2>3
  <2> QED BY <1>9, <2>2, <2>3
<1>13. ASSUME NEW n \in DOMAIN v PROVE \E h \in 1 .. k + 1 : Inside(v[n], w[h])
  <2>1. CASE n \in 1 .. L /\ v[n] = f[n]
    BY <1>5, <1>6, <2>1
  <2>2. CASE 1 \in DOMAIN t /\ v[n] = t[1]
    BY <1>10, <2>2
  <2> QED BY <1>9, <2>1, <2>2
<1>14. ASSUME Ascending(s), Fits(w, s), NEW i \in DOMAIN s, \A h \in 1 .. k + 1 : s[i].e >= w[h].b
       PROVE  r.from <= i
  <2>1. d.from <= i
    BY <1>14 DEF FoundUpto
  <2>2. s[i].e >= j.b
    BY <1>14
  <2> QED BY <1>3, <1>14, <2>1, <2>2
<1>15. ASSUME NEW x \in Leaves(f) PROVE x \in Leaves(v)
  <2>1. PICK n \in 1 .. L : x \in Span(f[n])
    BY <1>6, LeavesOf
  <2>2. n \in DOMAIN v /\ v[n] = f[n]
    BY <1>6, <1>7, <1>8
  <2> QED BY <2>1, <2>2, LeavesOf
<1>16. ASSUME NEW x \in Leaves(t) PROVE x \in Leaves(v)
  <2>1. PICK n \in DOMAIN t : x \in Span(t[n])
    BY LeavesOf
  <2>2. L + n \in DOMAIN v /\ v[L + n] = t[n]
    BY <1>6, <1>7, <1>8
  <2> QED BY <2>1, <2>2, LeavesOf
<1>17. ASSUME Ascending(s), Fits(w, s), NEW h \in 1 .. k + 1, NEW x \in Leaves(s) \cap Span(w[h]), ~Touches(x, s, w)
       PROVE  x \in Leaves(v)
  <2>1. CASE h \in 1 .. k
    <3>1. x \in Leaves(f)
      BY <1>17, <2>1 DEF FoundUpto, f
    <3> QED BY <1>15, <3>1
  <2>2. CASE h = k + 1
    <3>1. x \in Span(j)
      BY <1>17, <2>2
    <3>2. PICK i \in DOMAIN s : x \in Span(s[i])
      BY LeavesOf
    <3>3. /\ s[i].b \in Nat /\ s[i].e \in Nat /\ x \in Nat
          /\ s[i].b <= x /\ x <= s[i].e /\ j.b <= x /\ x <= j.e
      BY <1>1, <3>1, <3>2, Bounds DEF Span
    <3>4. d.from <= i
      <4>1. ASSUME NEW l \in 1 .. k PROVE s[i].e >= w[l].b
        <5>1. l \in DOMAIN w /\ l < k + 1
          BY <1>1
        <5>2. w[l].b < w[l].e /\ w[l].e < j.b
          BY <5>1 DEF Ascending
        <5>3. w[l].b \in Nat /\ w[l].e \in Nat /\ j.b \in Nat
          BY <1>1, <5>1, Bounds
        <5>4. s[i].e \in Nat /\ j.b <= s[i].e
          BY <3>3, <5>3
        <5> QED BY <5>2, <5>3, <5>4
      <4> QED BY <1>17, <4>1 DEF FoundUpto
    <3>5. ~(x = s[i].e /\ x = j.b) /\ ~(x = s[i].b /\ x = j.e)
      BY <1>17 DEF Touches
    <3>6. ASSUME NEW l \in DOMAIN s, l < i PROVE s[l].e < j.b
      <4>1. Near(j, s[i])
        BY <1>1, <3>3 DEF Near
      <4> QED BY <1>17, <3>6, <4>1 DEF Fits
    <3>7. x \in Leaves(t)
      BY <1>3, <3>1, <3>2, <3>4, <3>5, <3>6 DEF t
    <3> QED BY <1>16, <3>7
  <2> QED BY <2>1, <2>2
<1>18. FoundUpto(c, k + 1, s, w)
  <2> HIDE DEF c
  <2> QED BY <1>3, <1>4, <1>8, <1>12, <1>13, <1>14, <1>17 DEF FoundUpto
<1> QED BY <1>18 DEF c, v, t, r

\* What is left after a report is in order.  If the copy was so and the report fits
\* it, it is every leaf that both have but those where they only touch.
LEMMA Intersected ==
  ASSUME NEW s \in Seq(Ivl), NEW w \in Seq(Ivl), Ascending(w),
         \A h \in DOMAIN w : w[h].b < w[h].e
  PROVE  LET v == intersection(s, w) IN
         /\ v \in Seq(Ivl) /\ Ascending(v)
         /\ Ascending(s) /\ Fits(w, s) =>
              \A x \in Leaves(s) \cap Leaves(w) : Touches(x, s, w) \/ x \in Leaves(v)
<1> DEFINE N == Len(w)
           D == [found : Seq(Ivl), from : Nat \ {0}]
           zero == [found |-> <<>>, from |-> 1]
           next(d, k) == [found |-> d.found \o Scan(s, d.from, w[k]).found,
                          from |-> Scan(s, d.from, w[k]).from]
           g == [y \in (1 .. N) \X D |-> next(y[2], y[1])]
           step(h) == [k \in 0 .. N |-> IF k = 0 THEN zero ELSE next(h[k - 1], k)]
<1>1. N \in Nat /\ DOMAIN w = 1 .. N /\ \A k \in 1 .. N : w[k] \in Ivl /\ w[k].b < w[k].e
  BY Bounds
<1>2. ASSUME NEW d \in D, NEW k \in 1 .. N PROVE next(d, k) \in D
  <2>1. /\ Scan(s, d.from, w[k]).found \in Seq(Ivl) /\ Scan(s, d.from, w[k]).from \in Nat \ {0}
    BY <1>1, ScanOf
  <2>2. d.found \in Seq(Ivl)
    OBVIOUS
  <2> DEFINE a == d.found
             b == Scan(s, d.from, w[k]).found
             c == Scan(s, d.from, w[k]).from
  <2> HIDE DEF a, b, c
  <2>3. a \o b \in Seq(Ivl) /\ c \in Nat \ {0}
    BY <2>1, <2>2, ConcatElements DEF a, b, c
  <2>4. [found |-> a \o b, from |-> c] \in D
    BY <2>3
  <2> QED BY <2>4 DEF a, b, c
<1>3. zero \in D
  OBVIOUS
<1>4. g \in [(1 .. N) \X D -> D]
  <2> HIDE DEF D, next, N
  <2> QED BY <1>2
<1>5. PICK f \in [0 .. N -> D] : f[0] = zero /\ \A k \in 1 .. N : f[k] = g[<<k, f[k - 1]>>]
  <2> HIDE DEF D, g, zero, N
  <2>1. \E f \in [0 .. N -> D] : Unfolds(f, N, zero, g)
    BY <1>1, <1>3, <1>4, Recursion
  <2> QED BY <2>1 DEF Unfolds
<1>6. f = step(f)
  <2>1. ASSUME NEW k \in 0 .. N PROVE f[k] = IF k = 0 THEN zero ELSE next(f[k - 1], k)
    <3>1. CASE k = 0
      BY <1>5, <3>1
    <3>2. CASE k # 0
      <4>1. k \in 1 .. N /\ f[k - 1] \in D
        <5> HIDE DEF D
        <5> QED BY <1>1, <3>2
      <4> HIDE DEF D, next, zero, N
      <4>2. g[<<k, f[k - 1]>>] = next(f[k - 1], k)
        BY <4>1
      <4> HIDE DEF g
      <4> QED BY <1>5, <3>2, <4>1, <4>2
    <3> QED BY <3>1, <3>2
  <2> HIDE DEF D, next, zero, N
  <2> QED BY <2>1
<1> DEFINE Upto(h) == h = step(h)
           upto == CHOOSE h : Upto(h)
<1>7. Upto(upto)
  <2>1. \E h : Upto(h)
    BY <1>6
  <2> HIDE DEF Upto
  <2> QED BY <2>1
<1>8. intersection(s, w) = upto[N].found
  <2> HIDE DEF zero
  <2>1. upto = CHOOSE h : h = [k \in 0 .. N |-> IF k = 0 THEN zero ELSE next(h[k - 1], k)]
    OBVIOUS
  <2> HIDE DEF upto
  <2> QED BY <2>1 DEF intersection, zero
<1> HIDE DEF upto
<1> DEFINE S == {k \in Nat : k <= N => FoundUpto(upto[k], k, s, w)}
<1>9. 0 \in S
  <2>1. upto[0] = zero
    <3> HIDE DEF next, zero
    <3> QED BY <1>1, <1>7
  <2>2. zero.found = <<>> /\ zero.from = 1
    OBVIOUS
  <2>3. FoundUpto(zero, 0, s, w)
    <3>1. DOMAIN s = 1 .. Len(s) /\ Len(s) \in Nat
      BY SeqFunction
    <3> QED BY <2>2, <3>1 DEF FoundUpto, Ascending
  <2> QED BY <2>1, <2>3
<1>10. ASSUME NEW k \in S PROVE k + 1 \in S
  <2> SUFFICES ASSUME k + 1 <= N PROVE FoundUpto(upto[k + 1], k + 1, s, w)
    OBVIOUS
  <2>1. /\ k \in Nat /\ k + 1 \in 0 .. N /\ k + 1 # 0 /\ (k + 1) - 1 = k
        /\ k + 1 \in DOMAIN w /\ FoundUpto(upto[k], k, s, w)
    BY <1>1
  <2> HIDE DEF S
  <2>2. upto[k + 1] = next(upto[k], k + 1)
    <3> HIDE DEF next
    <3> QED BY <1>7, <2>1
  <2>3. FoundUpto(next(upto[k], k + 1), k + 1, s, w)
    BY <2>1, FoundNext
  <2> QED BY <2>2, <2>3
<1>11. S = Nat
  <2> HIDE DEF S
  <2>1. S \in SUBSET Nat
    BY DEF S
  <2> QED BY <1>9, <1>10, <2>1, AllNaturals
<1>12. FoundUpto(upto[N], N, s, w)
  <2>1. N \in S
    <3> HIDE DEF S
    <3> QED BY <1>1, <1>11
  <2> QED BY <1>1, <2>1
<1> DEFINE v == upto[N].found
<1>13. ASSUME Ascending(s), Fits(w, s), NEW x \in Leaves(s) \cap Leaves(w) PROVE Touches(x, s, w) \/ x \in Leaves(v)
  <2>1. PICK h \in 1 .. N : x \in Span(w[h])
    BY <1>1, LeavesOf
  <2> QED BY <1>12, <1>13, <2>1 DEF FoundUpto
<1> QED BY <1>8, <1>12, <1>13 DEF FoundUpto

-----------------------------------------------------------------------------
(* The inductive invariant *)

\* What is used of the types: who has a channel and a work unit, and ids.
Shape ==
  /\ unit = [w \in Workers |-> [id |-> unit[w].id, vs |-> unit[w].vs]]
  /\ st \in [Workers -> {"ready", "waiting", "out", "exited"}]
  /\ req = [w \in Workers |-> req[w]]
  /\ rep = [w \in Workers |-> rep[w]]
  /\ IsFiniteSet(DOMAIN ids)
  /\ DOMAIN ids \subseteq Nat \ {0}

\* A worker has one request under way and gets one answer to it; it reports
\* under the id of its work unit.
Channel(w) ==
  /\ st[w] \in {"ready", "exited"} => req[w].tag = "none" /\ rep[w].tag = "none"
  /\ st[w] = "waiting" =>
       \/ req[w].tag \in {"WORK", "BEST"} /\ rep[w].tag = "none"
       \/ req[w].tag = "none" /\ rep[w].tag \in {"WORK", "BEST", "NIL", "END"}
  /\ st[w] = "out" => req[w].tag \in {"none", "END"} /\ rep[w].tag = "none"
  /\ req[w].tag = "WORK" => req[w].id = unit[w].id
Channels == \A w \in Workers : Channel(w)

\* The workers whose confirmation was counted.
Confirmed == {w \in Workers : st[w] = "out" /\ req[w].tag = "none"}
CountInv == count_out = Cardinality(Confirmed)

IInv == Shape /\ Channels /\ OneOwner /\ CountInv

\* The master leaves its loop when every worker has left its own and no
\* message is under way: nobody waits for an answer that will never come.
LeavesLast ==
  ~Running => \A w \in Workers : st[w] = "out" /\ req[w].tag = "none" /\ rep[w].tag = "none"

-----------------------------------------------------------------------------
(* Ids *)

\* There is a number for a new work unit, and nobody uses it.
LEMMA FreshId ==
  ASSUME Shape
  PROVE  set_id \in Nat \ {0} /\ set_id \notin UsedIds
<1> DEFINE Ids == {unit[w].id : w \in Workers}
           Senders == {v \in Workers : rep[v].tag = "WORK"}
           Sent == {rep[w].id : w \in Senders}
<1>1. IsFiniteSet(Ids)
  <2> DEFINE f == [w \in Workers |-> unit[w].id]
  <2>1. f \in Surjection(Workers, Ids)
    BY DEF Surjection
  <2> QED BY <2>1, FS_Surjection, DistAssumption
<1>2. IsFiniteSet(Sent)
  <2> DEFINE f == [w \in Senders |-> rep[w].id]
  <2>1. f \in Surjection(Senders, Sent)
    BY DEF Surjection
  <2>2. IsFiniteSet(Senders)
    BY FS_Subset, DistAssumption
  <2> QED BY <2>1, <2>2, FS_Surjection
<1>3. IsFiniteSet(UsedIds)
  <2>1. UsedIds = (DOMAIN ids \cup Ids) \cup Sent
    BY DEF UsedIds
  <2> QED BY <1>1, <1>2, <2>1, FS_Union DEF Shape
<1> DEFINE n == Cardinality(UsedIds)
<1>4. n \in Nat
  BY <1>3, FS_CardinalityType
<1>5. PICK k \in 1 .. n + 1 : k \notin UsedIds
  <2> SUFFICES ASSUME 1 .. n + 1 \subseteq UsedIds PROVE FALSE
    OBVIOUS
  <2>1. Cardinality(1 .. n + 1) = n + 1
    BY <1>4, FS_Interval
  <2>2. Cardinality(1 .. n + 1) <= n
    BY <1>3, FS_Subset
  <2> QED BY <1>4, <2>1, <2>2
<1>6. Min((1 .. n + 1) \ UsedIds) \in (1 .. n + 1) \ UsedIds
  <2>1. (1 .. n + 1) \ UsedIds \in SUBSET Nat
    BY <1>4
  <2> QED BY <1>5, <2>1, LeastNumber
<1> QED BY <1>4, <1>6 DEF set_id

-----------------------------------------------------------------------------
(* The master *)

\* What the answer m to a report may be, and what goes with it in the pool.
AnswerIs(w, m) ==
  /\ rep' = [rep EXCEPT ![w] = m]
  /\ m.tag \in {"WORK", "NIL", "END"}
  /\ m.tag = "WORK" => m.id \in {req[w].id, set_id}
  /\ DOMAIN ids' \subseteq DOMAIN ids \cup {set_id}
  /\ set_id \in DOMAIN ids' => m.tag = "WORK" /\ m.id = set_id
Answered(w) == \E m : AnswerIs(w, m)

\* The fields of the messages.
LEMMA Fields ==
  /\ END.tag = "END"
  /\ \A b : NIL(b).tag = "NIL" /\ BEST(b).tag = "BEST"
  /\ \A k, max, u : WORK(k, max, u).tag = "WORK" /\ WORK(k, max, u).id = k
BY DEF END, NIL, BEST, WORK

\* Another work unit for worker w, p being a part of the pool.
LEMMA NewWorkAnswers ==
  ASSUME NEW w, NEW p, DOMAIN p \subseteq DOMAIN ids, set_id \notin DOMAIN ids,
         NewWork(w, req[w], p)
  PROVE  Answered(w)
<1> DEFINE m == req[w]
<1>1. CASE Shutdown(w, p)
  <2>1. AnswerIs(w, END)
    BY <1>1, Fields DEF Shutdown, Answer, AnswerIs
  <2> QED BY <2>1 DEF Answered
<1>2. CASE StealFails(w, p)
  <2>1. AnswerIs(w, NIL(sltn))
    BY <1>2, Fields DEF StealFails, Answer, AnswerIs
  <2> QED BY <2>1 DEF Answered
<1>3. CASE adopt(w, m, p, set_id)
  <2>1. PICK u, c : /\ Answer(w, WORK(set_id, m.max, u))
                    /\ ids' = id_insert(p, set_id, c)
    BY <1>3 DEF adopt
  <2>2. DOMAIN ids' = DOMAIN p \cup {set_id}
    BY <2>1 DEF id_insert
  <2>3. AnswerIs(w, WORK(set_id, m.max, u))
    BY <2>1, <2>2, Fields DEF Answer, AnswerIs
  <2> QED BY <2>3 DEF Answered
<1>4. CASE adoptPart(w, m, p, set_id)
  <2>1. PICK t : /\ Answer(w, WORK(set_id, m.max, t.given))
                 /\ ids' = id_insert(p, set_id, Copy(t.given))
    BY <1>4 DEF adoptPart
  <2>2. DOMAIN ids' = DOMAIN p \cup {set_id}
    BY <2>1 DEF id_insert
  <2>3. AnswerIs(w, WORK(set_id, m.max, t.given))
    BY <2>1, <2>2, Fields DEF Answer, AnswerIs
  <2> QED BY <2>3 DEF Answered
<1>5. CASE steal(w, m, p, set_id)
  <2>1. PICK k, d, r : /\ ids' = id_insert([p EXCEPT ![k] = r], set_id, Copy(d.given))
                       /\ Answer(w, WORK(set_id, m.max, d.given))
    BY <1>5, Zenon DEF steal
  <2>2. DOMAIN [p EXCEPT ![k] = r] = DOMAIN p
    OBVIOUS
  <2>3. PICK q : DOMAIN q = DOMAIN p /\ ids' = id_insert(q, set_id, Copy(d.given))
    BY <2>1, <2>2, Zenon
  <2>4. DOMAIN ids' = DOMAIN p \cup {set_id}
    BY <2>3 DEF id_insert
  <2>5. AnswerIs(w, WORK(set_id, m.max, d.given))
    BY <2>1, <2>4, Fields DEF Answer, AnswerIs
  <2> QED BY <2>5 DEF Answered
<1>6. CASE duplicate(w, m, p, set_id)
  <2>1. PICK k :
          /\ ids' = [p EXCEPT ![k].end_updated = @ \/ Len(p[k].u) <= m.max]
          /\ Answer(w, WORK(set_id, m.max, IF Len(p[k].u) <= m.max THEN p[k].u ELSE <<>>))
    BY <1>6 DEF duplicate
  <2>2. DOMAIN ids' = DOMAIN p
    BY <2>1
  <2>3. AnswerIs(w, WORK(set_id, m.max, IF Len(p[k].u) <= m.max THEN p[k].u ELSE <<>>))
    BY <2>1, <2>2, Fields DEF Answer, AnswerIs
  <2> QED BY <2>3 DEF Answered
<1> QED BY <1>1, <1>2, <1>3, <1>4, <1>5, <1>6 DEF NewWork

\* The answer to the report of worker w.
LEMMA ReportAnswers ==
  ASSUME Shape, NEW w, processRequest(w, req[w])
  PROVE  Answered(w)
<1>1. set_id \notin DOMAIN ids
  BY FreshId DEF UsedIds
<1>2. CASE NewWork(w, req[w], ids)
  BY <1>1, <1>2, NewWorkAnswers
<1>3. CASE NewWork(w, req[w], id_delete(ids, req[w].id))
  <2>1. DOMAIN id_delete(ids, req[w].id) \subseteq DOMAIN ids
    BY DEF id_delete
  <2> QED BY <1>1, <1>3, <2>1, NewWorkAnswers
<1>4. ASSUME NEW u, Keep(w, req[w], u) PROVE Answered(w)
  <2>1. PICK m : /\ rep' = [rep EXCEPT ![w] = m]
                 /\ m \in {WORK(req[w].id, req[w].max, u), NIL(sltn)}
    BY <1>4 DEF Keep, Answer
  <2>2. DOMAIN ids' = DOMAIN ids
    BY <1>4 DEF Keep
  <2>3. AnswerIs(w, m)
    BY <1>1, <2>1, <2>2, Fields DEF AnswerIs
  <2> QED BY <2>3 DEF Answered
<1> QED BY <1>2, <1>3, <1>4 DEF processRequest
-----------------------------------------------------------------------------
(* What each step does to ids and channels *)

\* Worker w works on its intervals.
Works(w) ==
  /\ \E vs : unit' = [unit EXCEPT ![w].vs = vs]
  /\ UNCHANGED <<ids, st, req, rep, count_out>>

\* Worker w sends the message m.
Sends(w, m) ==
  /\ st[w] = "ready" /\ st' = [st EXCEPT ![w] = "waiting"]
  /\ m.tag = "BEST" \/ (m.tag = "WORK" /\ m.id = unit[w].id)
  /\ req' = [req EXCEPT ![w] = m]
  /\ UNCHANGED <<ids, unit, rep, count_out>>

\* Worker w takes the answer that it was sent, of which u is the work unit, or
\* exits over it.
Takes(w, u) ==
  /\ rep[w].tag \in {"WORK", "BEST", "NIL"}
  /\ \E s \in {"ready", "exited"} : st' = [st EXCEPT ![w] = s]
  /\ rep' = [rep EXCEPT ![w] = None]
  /\ unit' = [unit EXCEPT ![w] = u]
  /\ u = [id |-> u.id, vs |-> u.vs]
  /\ u.id = IF rep[w].tag = "WORK" THEN rep[w].id ELSE unit[w].id
  /\ UNCHANGED <<ids, req, count_out>>

\* The master answers the message of worker w with m.
Serves(w, m) ==
  /\ \/ req[w].tag = "WORK" /\ AnswerIs(w, m)
     \/ /\ req[w].tag = "BEST" /\ m.tag \in {"BEST", "END"}
        /\ rep' = [rep EXCEPT ![w] = m]
        /\ UNCHANGED ids
  /\ req' = [req EXCEPT ![w] = None]
  /\ UNCHANGED <<unit, st, count_out>>

\* All is started again.
Restarts ==
  /\ ids' = << >> /\ count_out' = 0
  /\ unit' = FreshUnit /\ st' = FreshSt /\ req' = Empty /\ rep' = Empty

\* Every step is one of these, or it confirms an end, or leaves all of this alone.
LEMMA StepEffect ==
  ASSUME Shape, [Next]_vars
  PROVE  \/ \E w \in Workers :
              \/ Works(w)
              \/ \E m : Sends(w, m) \/ Serves(w, m)
              \/ \E u : Takes(w, u)
              \/ ReceiveEnd(w)
              \/ MasterEnd(w)
         \/ Restarts
         \/ UNCHANGED <<ids, unit, st, req, rep, count_out>>
<1>1. ASSUME NEW w \in Workers, Explore(w) PROVE Works(w)
  <2>1. \E vs : unit' = [unit EXCEPT ![w].vs = vs]
    BY <1>1, Zenon DEF Explore
  <2> QED BY <1>1, <2>1 DEF Explore, Works, pool
<1>2. ASSUME NEW w \in Workers, Share(w) PROVE Works(w)
  <2>1. \E vs : unit' = [unit EXCEPT ![w].vs = vs]
    BY <1>2, Zenon DEF Share
  <2> QED BY <1>2, <2>1 DEF Share, Works, pool
<1>3. ASSUME NEW w \in Workers, Send(w) PROVE \E m : Sends(w, m)
  <2>1. CASE tryLaunchCommWork(w)
    <3>1. Sends(w, WORK(unit[w].id, M[w], fact2dec(unit[w].vs)))
      BY <2>1, Fields DEF tryLaunchCommWork, Sends, pool
    <3> QED BY <3>1
  <2>2. CASE tryLaunchCommBest(w)
    <3>1. Sends(w, BEST(knows[w]))
      BY <2>2, Fields DEF tryLaunchCommBest, Sends, pool
    <3> QED BY <3>1
  <2> QED BY <1>3, <2>1, <2>2 DEF Send
<1>4. ASSUME NEW w \in Workers, updateWorkUnit(w) \/ ReceiveSolution(w)
      PROVE \E u : Takes(w, u)
  <2>1. CASE updateWorkUnit(w)
    <3> DEFINE u == [id |-> rep[w].id, vs |-> dec2fact(Active(rep[w].u))]
    <3>1. Takes(w, u)
      BY <2>1 DEF updateWorkUnit, Takes, pool
    <3> QED BY <3>1
  <2>2. CASE ReceiveSolution(w)
    <3>1. unit' = [unit EXCEPT ![w] = unit[w]]
      BY <2>2 DEF ReceiveSolution, Shape
    <3>2. Takes(w, unit[w])
      BY <2>2, <3>1 DEF ReceiveSolution, Takes, pool, Shape
    <3> QED BY <3>2
  <2> QED BY <1>4, <2>1, <2>2
<1>5. ASSUME NEW w \in Workers, MasterWork(w) PROVE \E m : Serves(w, m)
  <2>1. PICK m : AnswerIs(w, m)
    BY <1>5, ReportAnswers DEF MasterWork, Answered
  <2>2. Serves(w, m)
    BY <1>5, <2>1 DEF MasterWork, Serves, worker
  <2> QED BY <2>2
<1>6. ASSUME NEW w \in Workers, MasterBest(w) PROVE \E m : Serves(w, m)
  <2>1. PICK m : /\ rep' = [rep EXCEPT ![w] = m]
                 /\ m \in {END, BEST(sltn')}
    BY <1>6 DEF MasterBest, Answer
  <2>2. Serves(w, m)
    BY <1>6, <2>1, Fields DEF MasterBest, Serves, worker, pool
  <2> QED BY <2>2
<1>7. CASE Restart
  BY <1>7 DEF Restart, Restarts
<1>8. CASE Terminated \/ UNCHANGED vars
  BY <1>8 DEF Terminated, vars
<1> QED
  BY <1>1, <1>2, <1>3, <1>4, <1>5, <1>6, <1>7, <1>8 DEF Next, Receive, Serve
\* A worker's intervals change, its id does not.
LEMMA WorksKeepsIds ==
  ASSUME Shape, NEW w \in Workers, Works(w)
  PROVE  /\ unit' = [v \in Workers |-> [id |-> unit'[v].id, vs |-> unit'[v].vs]]
         /\ \A v \in Workers : unit'[v].id = unit[v].id
<1>1. PICK vs : unit' = [unit EXCEPT ![w].vs = vs]
  BY DEF Works
<1>2. unit = [v \in Workers |-> [id |-> unit[v].id, vs |-> unit[v].vs]]
  BY DEF Shape
<1>3. [unit[w] EXCEPT !.vs = vs] = [id |-> unit[w].id, vs |-> vs]
  BY <1>2
<1>4. unit' = [v \in Workers |-> IF v = w THEN [id |-> unit[w].id, vs |-> vs] ELSE unit[v]]
  BY <1>1, <1>2, <1>3
<1> QED BY <1>2, <1>4

-----------------------------------------------------------------------------
(* The invariant *)

\* The types are kept.
LEMMA ShapeStep ==
  ASSUME Shape, [Next]_vars PROVE Shape'
<1>1. ASSUME NEW w \in Workers, Works(w) PROVE Shape'
  BY <1>1, WorksKeepsIds DEF Works, Shape
<1>2. ASSUME NEW w \in Workers, NEW m, Sends(w, m) PROVE Shape'
  BY <1>2 DEF Sends, Shape
<1>3. ASSUME NEW w \in Workers, NEW m, Serves(w, m) PROVE Shape'
  <2>1. DOMAIN ids' \subseteq DOMAIN ids \cup {set_id}
    BY <1>3 DEF Serves, AnswerIs
  <2>2. IsFiniteSet(DOMAIN ids \cup {set_id})
    BY FS_AddElement DEF Shape
  <2>3. IsFiniteSet(DOMAIN ids') /\ DOMAIN ids' \subseteq Nat \ {0}
    BY <2>1, <2>2, FS_Subset, FreshId DEF Shape
  <2> QED BY <1>3, <2>3 DEF Serves, AnswerIs, Shape
<1>4. ASSUME NEW w \in Workers, NEW u, Takes(w, u) PROVE Shape'
  <2>1. unit' = [v \in Workers |-> [id |-> unit'[v].id, vs |-> unit'[v].vs]]
    BY <1>4 DEF Takes, Shape
  <2> QED BY <1>4, <2>1 DEF Takes, Shape
<1>5. ASSUME NEW w \in Workers, ReceiveEnd(w) \/ MasterEnd(w) PROVE Shape'
  <2>1. CASE ReceiveEnd(w)
    BY <2>1 DEF ReceiveEnd, Shape, pool
  <2>2. CASE MasterEnd(w)
    BY <2>2 DEF MasterEnd, Shape, pool, worker
  <2> QED BY <1>5, <2>1, <2>2
<1>6. CASE Restarts
  <2>1. DOMAIN ids' = {}
    BY <1>6 DEF Restarts
  <2>2. IsFiniteSet(DOMAIN ids')
    BY <2>1, FS_EmptySet
  <2> QED BY <1>6, <2>1, <2>2 DEF Restarts, Shape, FreshUnit, FreshSt, Empty
<1>7. CASE UNCHANGED <<ids, unit, st, req, rep, count_out>>
  BY <1>7 DEF Shape
<1> QED BY <1>1, <1>2, <1>3, <1>4, <1>5, <1>6, <1>7, StepEffect

\* Requests and answers alternate.
LEMMA ChannelStep ==
  ASSUME Shape, Channels, [Next]_vars PROVE Channels'
<1> SUFFICES ASSUME NEW v \in Workers PROVE Channel(v)'
  BY DEF Channels
<1>0. Channel(v) /\ None.tag = "none" /\ END.tag = "END"
  BY DEF Channels, None, END
<1>1. ASSUME NEW w \in Workers, Works(w) PROVE Channel(v)'
  BY <1>0, <1>1, WorksKeepsIds DEF Works, Channel
<1>2. ASSUME NEW w \in Workers, NEW m, Sends(w, m) PROVE Channel(v)'
  BY <1>0, <1>2 DEF Sends, Channel, Shape
<1>3. ASSUME NEW w \in Workers, NEW m, Serves(w, m) PROVE Channel(v)'
  <2>1. Channel(w) /\ st[w] \in {"ready", "waiting", "out", "exited"}
    BY DEF Channels, Shape
  <2>2. st[w] = "waiting" /\ m.tag \in {"WORK", "BEST", "NIL", "END"}
    BY <1>3, <2>1 DEF Serves, AnswerIs, Channel
  <2>3. rep' = [rep EXCEPT ![w] = m]
    BY <1>3 DEF Serves, AnswerIs
  <2> QED BY <1>0, <1>3, <2>2, <2>3 DEF Serves, Channel, Shape
<1>4. ASSUME NEW w \in Workers, NEW u, Takes(w, u) PROVE Channel(v)'
  <2>1. Channel(w) /\ st[w] \in {"ready", "waiting", "out", "exited"}
    BY DEF Channels, Shape
  <2>2. req[w].tag = "none"
    BY <1>4, <2>1 DEF Takes, Channel
  <2> QED BY <1>0, <1>4, <2>2 DEF Takes, Channel, Shape
<1>5. ASSUME NEW w \in Workers, ReceiveEnd(w) PROVE Channel(v)'
  BY <1>0, <1>5 DEF ReceiveEnd, Channel, Shape, pool
<1>6. ASSUME NEW w \in Workers, MasterEnd(w) PROVE Channel(v)'
  BY <1>0, <1>6 DEF MasterEnd, Channel, Shape, worker, pool
<1>7. CASE Restarts
  BY <1>0, <1>7 DEF Restarts, Channel, FreshUnit, FreshSt, Empty
<1>8. CASE UNCHANGED <<ids, unit, st, req, rep, count_out>>
  BY <1>0, <1>8 DEF Channel
<1> QED BY <1>1, <1>2, <1>3, <1>4, <1>5, <1>6, <1>7, <1>8, StepEffect

\* The id that a worker holds, or is about to, is in use.
LEMMA HeldUsed ==
  ASSUME NEW w \in Workers PROVE Held(w) \in UsedIds
BY DEF Held, UsedIds

\* Two workers do not report to the same copy: a unit that is handed out has an
\* id that nobody holds, and the others keep theirs.
LEMMA OwnerStep ==
  ASSUME Shape, Channels, OneOwner, [Next]_vars PROVE OneOwner'
<1>0. None.tag = "none" /\ END.tag = "END"
  BY DEF None, END
<1>1. ASSUME UNCHANGED ids, \A v \in Workers : Held(v)' = Held(v)
      PROVE  OneOwner'
  BY <1>1 DEF OneOwner
<1>2. ASSUME NEW w \in Workers, Works(w) PROVE OneOwner'
  <2>1. \A v \in Workers : Held(v)' = Held(v)
    BY <1>2, WorksKeepsIds DEF Works, Held
  <2> QED BY <1>1, <1>2, <2>1 DEF Works
<1>3. ASSUME NEW w \in Workers, NEW m, Sends(w, m) PROVE OneOwner'
  BY <1>1, <1>3 DEF Sends, Held
<1>4. ASSUME NEW w \in Workers, NEW m, Serves(w, m) PROVE OneOwner'
  <2>1. rep' = [rep EXCEPT ![w] = m] /\ unit' = unit
    BY <1>4 DEF Serves, AnswerIs
  <2>2. \A v \in Workers \ {w} : Held(v)' = Held(v)
    BY <2>1 DEF Held, Shape
  <2>3. Held(w) = unit[w].id
    BY <1>4 DEF Serves, Held, Channels, Channel, Shape
  <2>4. Held(w)' = IF m.tag = "WORK" THEN m.id ELSE unit[w].id
    BY <2>1 DEF Held, Shape
  <2>5. CASE req[w].tag = "BEST"
    <3>1. UNCHANGED ids /\ m.tag # "WORK"
      BY <1>4, <2>5 DEF Serves
    <3> QED BY <1>1, <2>2, <2>3, <2>4, <3>1
  <2>6. CASE req[w].tag = "WORK"
    <3>1. AnswerIs(w, m) /\ req[w].id = unit[w].id
      BY <1>4, <2>6 DEF Serves, Channels, Channel
    <3>2. Held(w)' \in {Held(w), set_id}
      BY <2>3, <2>4, <3>1 DEF AnswerIs
    <3>3. set_id \in DOMAIN ids' => Held(w)' = set_id
      BY <2>4, <3>1 DEF AnswerIs
    <3>4. DOMAIN ids' \subseteq DOMAIN ids \cup {set_id}
      BY <3>1 DEF AnswerIs
    <3>5. \A v \in Workers : Held(v) # set_id
      BY FreshId, HeldUsed
    <3>6. ASSUME NEW v \in Workers, NEW x \in Workers, v # x, Held(v)' = Held(x)'
          PROVE  Held(v)' \notin DOMAIN ids'
      <4>1. Held(v)' # set_id
        BY <2>2, <3>2, <3>5, <3>6
      <4>2. Held(v)' = Held(v) /\ Held(x)' = Held(x)
        BY <2>2, <3>2, <3>6, <4>1
      <4> QED BY <3>4, <3>6, <4>1, <4>2 DEF OneOwner
    <3> QED BY <3>6 DEF OneOwner
  <2> QED BY <1>4, <2>5, <2>6 DEF Serves
<1>5. ASSUME NEW w \in Workers, NEW u, Takes(w, u) PROVE OneOwner'
  <2>1. \A v \in Workers : Held(v)' = Held(v)
    BY <1>0, <1>5 DEF Takes, Held, Shape
  <2> QED BY <1>1, <1>5, <2>1 DEF Takes
<1>6. ASSUME NEW w \in Workers, ReceiveEnd(w) PROVE OneOwner'
  <2>1. \A v \in Workers : Held(v)' = Held(v)
    BY <1>0, <1>6 DEF ReceiveEnd, Held, Shape
  <2> QED BY <1>1, <1>6, <2>1 DEF ReceiveEnd, pool
<1>7. ASSUME NEW w \in Workers, MasterEnd(w) PROVE OneOwner'
  BY <1>1, <1>7 DEF MasterEnd, Held, worker, pool
<1>8. CASE Restarts
  <2>1. DOMAIN ids' = {}
    BY <1>8 DEF Restarts
  <2> QED BY <2>1 DEF OneOwner
<1>9. CASE UNCHANGED <<ids, unit, st, req, rep, count_out>>
  BY <1>9 DEF OneOwner, Held
<1> QED BY <1>2, <1>3, <1>4, <1>5, <1>6, <1>7, <1>8, <1>9, StepEffect

\* The master counts every confirmation once.
LEMMA CountStep ==
  ASSUME Shape, Channels, CountInv, [Next]_vars PROVE CountInv'
<1>0. None.tag = "none" /\ END.tag = "END"
  BY DEF None, END
<1>1. ASSUME UNCHANGED count_out, Confirmed' = Confirmed PROVE CountInv'
  BY <1>1 DEF CountInv
<1>2. ASSUME NEW w \in Workers, Works(w) PROVE CountInv'
  BY <1>1, <1>2 DEF Works, Confirmed
<1>3. ASSUME NEW w \in Workers, NEW m, Sends(w, m) PROVE CountInv'
  <2>1. Confirmed' = Confirmed
    BY <1>3 DEF Sends, Confirmed, Shape
  <2> QED BY <1>1, <1>3, <2>1 DEF Sends
<1>4. ASSUME NEW w \in Workers, NEW m, Serves(w, m) PROVE CountInv'
  <2>1. st[w] # "out"
    BY <1>4 DEF Serves, Channels, Channel
  <2>2. Confirmed' = Confirmed
    BY <1>4, <2>1 DEF Serves, Confirmed, Shape
  <2> QED BY <1>1, <1>4, <2>2 DEF Serves
<1>5. ASSUME NEW w \in Workers, NEW u, Takes(w, u) PROVE CountInv'
  <2>1. st[w] # "out"
    BY <1>5 DEF Takes, Channels, Channel
  <2>2. Confirmed' = Confirmed
    BY <1>5, <2>1 DEF Takes, Confirmed, Shape
  <2> QED BY <1>1, <1>5, <2>2 DEF Takes
<1>6. ASSUME NEW w \in Workers, ReceiveEnd(w) PROVE CountInv'
  <2>1. st[w] # "out"
    BY <1>6 DEF ReceiveEnd, Channels, Channel
  <2>2. Confirmed' = Confirmed
    BY <1>0, <1>6, <2>1 DEF ReceiveEnd, Confirmed, Shape
  <2> QED BY <1>1, <1>6, <2>2 DEF ReceiveEnd
<1>7. ASSUME NEW w \in Workers, MasterEnd(w) PROVE CountInv'
  <2>1. st[w] = "out" /\ w \notin Confirmed
    BY <1>7 DEF MasterEnd, Channels, Channel, Shape, Confirmed
  <2>2. Confirmed' = Confirmed \cup {w}
    BY <1>0, <1>7, <2>1 DEF MasterEnd, Confirmed, Shape, worker
  <2>3. IsFiniteSet(Confirmed)
    BY FS_Subset, DistAssumption DEF Confirmed
  <2> QED BY <1>7, <2>1, <2>2, <2>3, FS_AddElement DEF CountInv, MasterEnd
<1>8. CASE Restarts
  <2>1. Confirmed' = {}
    BY <1>8 DEF Restarts, Confirmed, FreshSt
  <2> QED BY <1>8, <2>1, FS_EmptySet DEF Restarts, CountInv
<1>9. CASE UNCHANGED <<ids, unit, st, req, rep, count_out>>
  BY <1>1, <1>9 DEF Confirmed
<1> QED BY <1>2, <1>3, <1>4, <1>5, <1>6, <1>7, <1>8, <1>9, StepEffect

\* The invariant holds in the beginning.
LEMMA InvInit ==
  ASSUME Init PROVE IInv
<1>1. DOMAIN ids = {}
  BY DEF Init
<1>2. Shape
  BY <1>1, FS_EmptySet DEF Init, Shape, FreshUnit, FreshSt, Empty
<1>3. Channels
  BY DEF Init, Channels, Channel, FreshSt, Empty, None
<1>4. OneOwner
  BY <1>1 DEF OneOwner
<1>5. Confirmed = {}
  BY DEF Init, Confirmed, FreshSt
<1> QED BY <1>2, <1>3, <1>4, <1>5, FS_EmptySet DEF IInv, CountInv, Init

\* The invariant holds in every state.
THEOREM Invariant == Spec => []IInv
<1>1. IInv /\ [Next]_vars => IInv'
  BY ShapeStep, ChannelStep, OwnerStep, CountStep DEF IInv
<1> QED BY <1>1, InvInit, PTL DEF Spec

\* No two workers report to one copy of the master, for any number of workers,
\* leaves, IVMs, crashes and however works are divided and duplicated.
THEOREM CopiesHaveOneOwner == Spec => []OneOwner
<1>1. IInv => OneOwner
  BY DEF IInv
<1> QED BY <1>1, Invariant, PTL

\* The master does not leave a worker behind that waits for an answer.
THEOREM MasterLeavesLast == Spec => []LeavesLast
<1>1. ASSUME IInv, ~Running PROVE \A w \in Workers : w \in Confirmed
  <2>1. Confirmed \subseteq Workers
    BY DEF Confirmed
  <2>2. /\ Cardinality(Confirmed) \in Nat /\ Cardinality(Workers) \in Nat
        /\ Cardinality(Confirmed) <= Cardinality(Workers)
        /\ Cardinality(Confirmed) = Cardinality(Workers) => Confirmed = Workers
    BY <2>1, FS_Subset, FS_CardinalityType, DistAssumption
  <2>3. Cardinality(Confirmed) = Cardinality(Workers)
    BY <1>1, <2>2 DEF IInv, CountInv, Running
  <2> QED BY <2>2, <2>3
<1>2. IInv => LeavesLast
  BY <1>1 DEF LeavesLast, Confirmed, IInv, Channels, Channel
<1> QED BY <1>2, Invariant, PTL

-----------------------------------------------------------------------------
(* Copies and what covers them *)

\* A work unit: it has intervals, and those of at least two leaves lie apart.
GoodWorks == {u \in Seq(Ivl) : u # <<>> /\ LongApart(u)}

\* Was the copy reported for certain?
Settled(c) == c.updated /\ ~c.unset

\* A copy is sorted once it was reported, and it is divided only after that, or if
\* it counts as reported by chance.
GoodCopy(c) ==
  /\ DOMAIN c = {"u", "size", "updated", "unset", "end_updated"}
  /\ c.u \in GoodWorks
  /\ c.end_updated => c.updated
  /\ Settled(c) => Ascending(c.u)

GoodPool(p, q) == (\A k \in DOMAIN p : GoodCopy(p[k])) /\ q \in Seq(GoodWorks)

InPool(x, p, q) ==
  \/ \E k \in DOMAIN p : x \in Leaves(p[k].u)
  \/ \E k \in DOMAIN q : x \in Leaves(q[k])

\* u can be intersected with the copy c, and none of the leaves Y is only in c.
Covers(u, c, Y) ==
  /\ Settled(c) => Fits(u, c.u)
  /\ \A x \in Y : x \in Leaves(c.u) => x \in Leaves(u)

\* What covers c1 covers c2.
Narrows(c2, c1) ==
  /\ Settled(c2) => Settled(c1)
  /\ \A u \in Seq(Ivl) : Fits(u, c1.u) => Fits(u, c2.u)
  /\ \A x \in Leaves(c2.u) : x \in Leaves(c1.u)

\* What covers a copy covers what is left of it.
LEMMA CoversNarrower ==
  ASSUME NEW u \in Seq(Ivl), NEW c1, NEW c2, NEW Y1, NEW Y2, Y2 \subseteq Y1,
         Covers(u, c1, Y1), Narrows(c2, c1)
  PROVE  Covers(u, c2, Y2)
BY DEF Covers, Narrows

\* A new copy ...
LEMMA CopyFields ==
  ASSUME NEW u
  PROVE  LET c == Copy(u) IN
         /\ DOMAIN c = {"u", "size", "updated", "unset", "end_updated"}
         /\ c.u = u /\ c.updated = FALSE /\ c.unset = FALSE /\ c.end_updated = FALSE
         /\ ~Settled(c)
         /\ u \in GoodWorks => GoodCopy(c)
<1> DEFINE c == Copy(u)
           z == set_size(u)
<1>1. c = [u |-> u, size |-> z, updated |-> FALSE, unset |-> FALSE, end_updated |-> FALSE]
  BY DEF Copy
<1> HIDE DEF c, z
<1>2. DOMAIN c = {"u", "size", "updated", "unset", "end_updated"}
  BY <1>1
<1>3. c.u = u /\ c.updated = FALSE /\ c.unset = FALSE /\ c.end_updated = FALSE
  BY <1>1
<1> QED BY <1>2, <1>3 DEF GoodCopy, Settled, c

\* ... and that of a work from a file.
LEMMA ReadCopyFields ==
  ASSUME NEW u \in GoodWorks, NEW chance
  PROVE  LET c == ReadCopy(u, chance) IN GoodCopy(c) /\ c.u = u /\ ~Settled(c)
<1> DEFINE c0 == Copy(u)
           c == [c0 EXCEPT !.updated = chance, !.unset = TRUE]
<1>1. /\ DOMAIN c0 = {"u", "size", "updated", "unset", "end_updated"}
      /\ c0.u = u /\ c0.end_updated = FALSE
  BY CopyFields
<1> HIDE DEF c0
<1>2. DOMAIN c = {"u", "size", "updated", "unset", "end_updated"}
  BY <1>1
<1>3. c.u = u /\ c.unset = TRUE /\ c.end_updated = FALSE
  BY <1>1
<1>4. ReadCopy(u, chance) = c
  BY DEF ReadCopy, c0
<1> HIDE DEF c
<1> QED BY <1>2, <1>3, <1>4 DEF GoodCopy, Settled

\* Once it was reported, which may leave open whether it counts as such.
After(u, a, b) == [Copy(u) EXCEPT !.updated = a, !.unset = b]
LEMMA ReportedCopy ==
  ASSUME NEW u, NEW a, NEW b
  PROVE  LET c == After(u, a, b) IN
         /\ DOMAIN c = {"u", "size", "updated", "unset", "end_updated"}
         /\ c.u = u /\ ~c.end_updated
<1> DEFINE c0 == Copy(u)
           c == After(u, a, b)
<1>1. /\ DOMAIN c0 = {"u", "size", "updated", "unset", "end_updated"}
      /\ c0.u = u /\ c0.end_updated = FALSE
  BY CopyFields
<1>2. c = [c0 EXCEPT !.updated = a, !.unset = b]
  BY DEF After
<1> HIDE DEF c0, c
<1>3. DOMAIN c = {"u", "size", "updated", "unset", "end_updated"}
  BY <1>1, <1>2
<1>4. c.u = u /\ c.end_updated = FALSE
  BY <1>1, <1>2
<1> QED BY <1>3, <1>4 DEF c

\* And divided since.
Divides(u, b) == [Copy(u) EXCEPT !.updated = TRUE, !.unset = b, !.end_updated = TRUE]
LEMMA DividedCopy ==
  ASSUME NEW u, NEW b
  PROVE  LET c == Divides(u, b) IN
         /\ DOMAIN c = {"u", "size", "updated", "unset", "end_updated"}
         /\ c.u = u /\ c.updated = TRUE /\ c.unset = b
<1> DEFINE c0 == Copy(u)
           c == Divides(u, b)
<1>1. DOMAIN c0 = {"u", "size", "updated", "unset", "end_updated"} /\ c0.u = u
  BY CopyFields
<1>2. c = [c0 EXCEPT !.updated = TRUE, !.unset = b, !.end_updated = TRUE]
  BY DEF Divides
<1> HIDE DEF c0, c
<1>3. DOMAIN c = {"u", "size", "updated", "unset", "end_updated"}
  BY <1>1, <1>2
<1>4. c.u = u /\ c.updated = TRUE /\ c.unset = b
  BY <1>1, <1>2
<1> QED BY <1>3, <1>4 DEF c

\* The first of the works that nobody has yet, and the others.
LEMMA FirstAndRest ==
  ASSUME NEW q \in Seq(GoodWorks), q # <<>>
  PROVE  /\ Head(q) \in GoodWorks /\ Tail(q) \in Seq(GoodWorks)
         /\ \A x : (\E k \in DOMAIN q : x \in Leaves(q[k]))
                   => x \in Leaves(Head(q)) \/ \E k \in DOMAIN Tail(q) : x \in Leaves(Tail(q)[k])
<1>1. Len(q) \in Nat \ {0} /\ DOMAIN q = 1 .. Len(q) /\ Head(q) = q[1] /\ Head(q) \in GoodWorks
  OBVIOUS
<1>2. /\ Tail(q) \in Seq(GoodWorks) /\ DOMAIN Tail(q) = 1 .. Len(q) - 1
      /\ \A k \in 1 .. Len(q) - 1 : Tail(q)[k] = q[k + 1]
  BY <1>1
<1>3. ASSUME NEW k \in DOMAIN q PROVE k = 1 \/ (k - 1 \in DOMAIN Tail(q) /\ Tail(q)[k - 1] = q[k])
  BY <1>1, <1>2
<1> QED BY <1>1, <1>2, <1>3

-----------------------------------------------------------------------------
(* Another work unit for a worker *)

\* p and q are the pool before, ids and unassigned the pool after, x the answer.
\* Y are leaves that must not be lost.
Supplied(x, new, p, Y) ==
  /\ GoodPool(ids', unassigned')
  /\ \A y \in Y : InPool(y, ids', unassigned')
  /\ \A k \in DOMAIN ids' : k = new \/ (k \in DOMAIN p /\ Narrows(ids'[k], p[k]))
  /\ x.tag = "WORK" => /\ x.id = new /\ x.u \in Seq(Ivl) /\ LongApart(x.u)
                       /\ new \in DOMAIN ids' => Covers(x.u, ids'[new], Y)
  /\ end' => end \/ Y = {}

\* The fields of a message with a work unit.
LEMMA WorkFields ==
  ASSUME NEW k, NEW max, NEW u
  PROVE  LET m == WORK(k, max, u) IN m.tag = "WORK" /\ m.id = k /\ m.max = max /\ m.u = u
BY DEF WORK

\* A copy that does not change.
LEMMA NarrowsItself ==
  ASSUME NEW c PROVE Narrows(c, c)
BY DEF Narrows

\* r is p with a copy of u under the id new, that u covers.
Added(r, p, new, u) ==
  /\ \A k \in DOMAIN r : GoodCopy(r[k])
  /\ \A k \in DOMAIN r : k = new \/ (k \in DOMAIN p /\ r[k] = p[k])
  /\ new \in DOMAIN r /\ r[new].u = u /\ \A Y : Covers(u, r[new], Y)
  /\ \A k \in DOMAIN p : k \in DOMAIN r /\ r[k] = p[k]

\* The copy c of u gets the id new.
LEMMA HandedOut ==
  ASSUME NEW p, NEW new, new \notin DOMAIN p, NEW u, NEW c, GoodCopy(c), c.u = u, ~Settled(c),
         \A k \in DOMAIN p : GoodCopy(p[k]), NEW r, r = id_insert(p, new, c)
  PROVE  Added(r, p, new, u)
<1>1. /\ DOMAIN r = DOMAIN p \cup {new}
      /\ r[new] = c
      /\ \A j \in DOMAIN p : j # new => r[j] = p[j]
  BY DEF id_insert
<1>2. DOMAIN r = DOMAIN p \cup {new} /\ r[new] = c /\ \A j \in DOMAIN p : r[j] = p[j]
  BY <1>1
<1>3. GoodCopy(r[new]) /\ r[new].u = u /\ \A Y : Covers(u, r[new], Y)
  BY <1>2 DEF Covers
<1>4. \A k \in DOMAIN r : k = new \/ (k \in DOMAIN p /\ r[k] = p[k])
  BY <1>2
<1>5. \A k \in DOMAIN r : GoodCopy(r[k])
  BY <1>3, <1>4
<1>6. \A k \in DOMAIN p : k \in DOMAIN r /\ r[k] = p[k]
  BY <1>2
<1>7. new \in DOMAIN r
  BY <1>2
<1> QED BY <1>3, <1>4, <1>5, <1>6, <1>7 DEF Added

\* adopt: the first of the works that nobody has yet is split and handed out.
LEMMA AdoptSupplies ==
  ASSUME NEW w, NEW m, NEW p, NEW new, NEW Y, GoodPool(p, unassigned), new \notin DOMAIN p,
         \A y \in Y : InPool(y, p, unassigned), m.max \in Nat, adopt(w, m, p, new)
  PROVE  \E x : rep' = [rep EXCEPT ![w] = x] /\ x.tag = "WORK" /\ Supplied(x, new, p, Y)
<1> DEFINE h == Head(unassigned)
           u == split(h, m.max)
           x == WORK(new, m.max, u)
<1>1. /\ unassigned # <<>> /\ rep' = [rep EXCEPT ![w] = x]
      /\ unassigned' = Tail(unassigned) /\ end' = end
  BY DEF adopt, Answer
<1>0. PICK c : /\ c = Copy(u) \/ \E b \in BOOLEAN : c = ReadCopy(u, b)
               /\ ids' = id_insert(p, new, c)
  BY DEF adopt
<1>2. /\ h \in GoodWorks /\ unassigned' \in Seq(GoodWorks)
      /\ \A y : (\E k \in DOMAIN unassigned : y \in Leaves(unassigned[k]))
                => y \in Leaves(h) \/ \E k \in DOMAIN unassigned' : y \in Leaves(unassigned'[k])
  BY <1>1, FirstAndRest DEF GoodPool
<1> HIDE DEF h
<1>3. u \in GoodWorks /\ \A y \in Leaves(h) : y \in Leaves(u)
  BY <1>2, Splitted DEF GoodWorks
<1> HIDE DEF u
<1>4. \A k \in DOMAIN p : GoodCopy(p[k])
  BY DEF GoodPool
<1>14. GoodCopy(c) /\ c.u = u /\ ~Settled(c)
  BY <1>0, <1>3, CopyFields, ReadCopyFields
<1> DEFINE r == id_insert(p, new, c)
<1>6. ids' = r /\ r = id_insert(p, new, c)
  BY <1>0
<1> HIDE DEF r
<1>5. Added(r, p, new, u)
  BY <1>4, <1>6, <1>14, HandedOut
<1>7. /\ \A k \in DOMAIN ids' : GoodCopy(ids'[k])
      /\ \A k \in DOMAIN ids' : k = new \/ (k \in DOMAIN p /\ ids'[k] = p[k])
      /\ new \in DOMAIN ids' /\ ids'[new].u = u /\ Covers(u, ids'[new], Y)
      /\ \A k \in DOMAIN p : k \in DOMAIN ids' /\ ids'[k] = p[k]
  BY <1>5, <1>6 DEF Added
<1>8. ASSUME NEW y \in Y PROVE InPool(y, ids', unassigned')
  <2>1. InPool(y, p, unassigned)
    OBVIOUS
  <2> QED BY <1>2, <1>3, <1>7, <2>1 DEF InPool
<1>9. GoodPool(ids', unassigned')
  BY <1>2, <1>7 DEF GoodPool
<1>10. x.tag = "WORK" /\ x.id = new /\ x.u = u
  BY WorkFields
<1> HIDE DEF x
<1>11. u \in Seq(Ivl) /\ LongApart(u)
  BY <1>3 DEF GoodWorks
<1>12. \A k \in DOMAIN ids' : k = new \/ (k \in DOMAIN p /\ Narrows(ids'[k], p[k]))
  BY <1>7, NarrowsItself
<1>13. Supplied(x, new, p, Y)
  BY <1>1, <1>7, <1>8, <1>9, <1>10, <1>11, <1>12 DEF Supplied
<1> QED BY <1>1, <1>10, <1>13

\* Two copies compared field by field.
LEMMA NarrowsParts ==
  ASSUME NEW c1, NEW c2, Settled(c2) => Settled(c1),
         \A u \in Seq(Ivl) : Fits(u, c1.u) => Fits(u, c2.u),
         \A x \in Leaves(c2.u) : x \in Leaves(c1.u)
  PROVE  Narrows(c2, c1)
BY DEF Narrows

\* adoptPart: its last intervals are handed out, the others stay.
LEMMA AdoptPartSupplies ==
  ASSUME NEW w, NEW m, NEW p, NEW new, NEW Y, GoodPool(p, unassigned), new \notin DOMAIN p,
         \A y \in Y : InPool(y, p, unassigned), m.max \in Nat \ {0}, adoptPart(w, m, p, new)
  PROVE  \E x : rep' = [rep EXCEPT ![w] = x] /\ x.tag = "WORK" /\ Supplied(x, new, p, Y)
<1> DEFINE h == Head(unassigned)
           t == take(h, m.max)
           u == t.given
           v == t.kept
           rest == Tail(unassigned)
           x == WORK(new, m.max, u)
<1>1. /\ unassigned # <<>> /\ rep' = [rep EXCEPT ![w] = x] /\ ids' = id_insert(p, new, Copy(u))
      /\ unassigned' = <<v>> \o rest /\ end' = end /\ Len(h) > m.max
  BY DEF adoptPart, Answer
<1>2. /\ h \in GoodWorks /\ rest \in Seq(GoodWorks)
      /\ \A y : (\E k \in DOMAIN unassigned : y \in Leaves(unassigned[k]))
                => y \in Leaves(h) \/ \E k \in DOMAIN rest : y \in Leaves(rest[k])
  BY <1>1, FirstAndRest DEF GoodPool
<1> HIDE DEF h, rest
<1>3. h \in Seq(Ivl) /\ LongApart(h) /\ Len(h) \in Nat
  BY <1>2 DEF GoodWorks
<1> DEFINE max == m.max
<1>4. max \in Nat /\ max <= Len(h)
  BY <1>1, <1>3
<1> HIDE DEF max
<1>5. /\ take(h, max).given \in Seq(Ivl) /\ Len(take(h, max).given) = max
      /\ take(h, max).kept \in Seq(Ivl) /\ Len(take(h, max).kept) = Len(h) - max
      /\ LongApart(h) => LongApart(take(h, max).given) /\ LongApart(take(h, max).kept)
      /\ \A y \in Leaves(h) : y \in Leaves(take(h, max).given) \/ y \in Leaves(take(h, max).kept)
  BY <1>3, <1>4, Taken
<1>6. /\ u \in Seq(Ivl) /\ Len(u) = m.max /\ LongApart(u)
      /\ v \in Seq(Ivl) /\ Len(v) = Len(h) - m.max /\ LongApart(v)
      /\ \A y \in Leaves(h) : y \in Leaves(u) \/ y \in Leaves(v)
  BY <1>3, <1>5 DEF max
<1> HIDE DEF u, v
<1>7. u # <<>> /\ v # <<>>
  BY <1>1, <1>3, <1>6
<1>8. u \in GoodWorks /\ v \in GoodWorks
  BY <1>6, <1>7 DEF GoodWorks
<1> DEFINE q == <<v>> \o rest
<1>9. /\ q \in Seq(GoodWorks)
      /\ 1 \in DOMAIN q /\ q[1] = v
      /\ \A k \in DOMAIN rest : k + 1 \in DOMAIN q /\ q[k + 1] = rest[k]
  BY <1>2, <1>8
<1>10. unassigned' = q
  BY <1>1
<1> HIDE DEF q
<1>11. \A k \in DOMAIN p : GoodCopy(p[k])
  BY DEF GoodPool
<1> DEFINE c == Copy(u)
           r == id_insert(p, new, c)
<1>20. GoodCopy(c) /\ c.u = u /\ ~Settled(c)
  BY <1>8, CopyFields
<1>13. ids' = r /\ r = id_insert(p, new, c)
  BY <1>1
<1> HIDE DEF c, r
<1>21. Added(r, p, new, u)
  BY <1>11, <1>13, <1>20, HandedOut
<1>12. /\ \A k \in DOMAIN r : GoodCopy(r[k])
       /\ \A k \in DOMAIN r : k = new \/ (k \in DOMAIN p /\ r[k] = p[k])
       /\ new \in DOMAIN r /\ r[new].u = u /\ Covers(u, r[new], Y)
       /\ \A k \in DOMAIN p : k \in DOMAIN r /\ r[k] = p[k]
  BY <1>21 DEF Added
<1>14. ASSUME NEW y \in Y PROVE InPool(y, ids', unassigned')
  <2>1. InPool(y, p, unassigned)
    OBVIOUS
  <2>2. CASE \E k \in DOMAIN p : y \in Leaves(p[k].u)
    BY <1>12, <1>13, <2>2 DEF InPool
  <2>3. CASE y \in Leaves(u)
    BY <1>12, <1>13, <2>3 DEF InPool
  <2>4. CASE y \in Leaves(v)
    BY <1>9, <1>10, <2>4 DEF InPool
  <2>5. CASE \E k \in DOMAIN rest : y \in Leaves(rest[k])
    BY <1>9, <1>10, <2>5 DEF InPool
  <2> QED BY <1>2, <1>6, <2>1, <2>2, <2>3, <2>4, <2>5 DEF InPool
<1>15. GoodPool(ids', unassigned')
  BY <1>9, <1>10, <1>12, <1>13 DEF GoodPool
<1>16. x.tag = "WORK" /\ x.id = new /\ x.u = u
  BY WorkFields
<1> HIDE DEF x
<1>17. \A k \in DOMAIN ids' : k = new \/ (k \in DOMAIN p /\ Narrows(ids'[k], p[k]))
  BY <1>12, <1>13, NarrowsItself
<1>18. new \in DOMAIN ids' => Covers(x.u, ids'[new], Y)
  BY <1>12, <1>13, <1>16
<1>19. Supplied(x, new, p, Y)
  BY <1>1, <1>6, <1>14, <1>15, <1>16, <1>17, <1>18 DEF Supplied
<1> QED BY <1>1, <1>16, <1>19

\* steal: the largest copy is divided, what is cut off is handed out.
LEMMA StealSupplies ==
  ASSUME NEW w, NEW m, NEW p, NEW new, NEW Y, GoodPool(p, unassigned), new \notin DOMAIN p,
         \A y \in Y : InPool(y, p, unassigned), steal(w, m, p, new)
  PROVE  \E x : rep' = [rep EXCEPT ![w] = x] /\ x.tag = "WORK" /\ Supplied(x, new, p, Y)
<1>0. PICK k \in sizes_big(p) : \E d \in {divide(p[k].u, m.max)} :
        /\ d.given # <<>>
        /\ ids' = id_insert([p EXCEPT ![k] = [Copy(d.kept) EXCEPT !.updated = TRUE,
                                                               !.unset = p[k].unset,
                                                               !.end_updated = TRUE]],
                            new, Copy(d.given))
        /\ Answer(w, WORK(new, m.max, d.given))
  BY Zenon DEF steal
<1>1. PICK d \in {divide(p[k].u, m.max)} :
        /\ d.given # <<>>
        /\ ids' = id_insert([p EXCEPT ![k] = [Copy(d.kept) EXCEPT !.updated = TRUE,
                                                               !.unset = p[k].unset,
                                                               !.end_updated = TRUE]],
                            new, Copy(d.given))
        /\ Answer(w, WORK(new, m.max, d.given))
  BY <1>0, Zenon
<1>2. unassigned' = unassigned /\ end' = end
  BY DEF steal
<1>3. k \in DOMAIN p /\ p[k].updated
  BY DEF sizes_big
<1> DEFINE s == p[k].u
           u == d.given
           v == d.kept
           unset == p[k].unset
           c == [Copy(v) EXCEPT !.updated = TRUE, !.unset = unset, !.end_updated = TRUE]
           p2 == [p EXCEPT ![k] = c]
           x == WORK(new, m.max, u)
           c1 == Copy(u)
           r == id_insert(p2, new, c1)
<1>4. ids' = r /\ rep' = [rep EXCEPT ![w] = x] /\ u # <<>> /\ d = divide(s, m.max)
  BY <1>1, Zenon DEF Answer
<1>5. GoodCopy(p[k])
  BY <1>3 DEF GoodPool
<1>6. s \in Seq(Ivl) /\ s # <<>> /\ LongApart(s) /\ (~unset => Ascending(s))
  BY <1>3, <1>5 DEF GoodCopy, GoodWorks, Settled
<1> HIDE DEF s
<1>7. /\ u \in Seq(Ivl) /\ v \in Seq(Ivl) /\ DOMAIN v = DOMAIN s
      /\ LongApart(u) /\ LongApart(v) /\ (~unset => Ascending(v))
      /\ \A z \in Seq(Ivl) : Fits(z, s) => Fits(z, v)
      /\ \A y \in Leaves(v) : y \in Leaves(s)
      /\ \A y \in Leaves(s) : y \in Leaves(u) \/ y \in Leaves(v)
  BY <1>4, <1>6, Divided
<1> HIDE DEF u, v
<1>8. v # <<>>
  BY <1>6, <1>7
<1>9. u \in GoodWorks /\ v \in GoodWorks
  BY <1>4, <1>7, <1>8 DEF GoodWorks
<1> HIDE DEF unset
<1>25. ~unset => Ascending(v)
  BY <1>7
<1>27. c = Divides(v, unset)
  BY DEF c, Divides
<1> HIDE DEF c
<1>29. /\ DOMAIN c = {"u", "size", "updated", "unset", "end_updated"}
       /\ c.u = v /\ c.updated = TRUE /\ c.unset = unset
  BY <1>27, DividedCopy
<1>10. GoodCopy(c) /\ c.u = v
  BY <1>9, <1>25, <1>29 DEF GoodCopy, Settled
<1>23. Settled(c) => Settled(p[k])
  BY <1>3, <1>29 DEF Settled, unset
<1>11. Narrows(c, p[k])
  BY <1>7, <1>10, <1>23, NarrowsParts DEF s
<1>12. /\ DOMAIN p2 = DOMAIN p /\ p2[k] = c
       /\ \A j \in DOMAIN p : j # k => p2[j] = p[j]
  BY <1>3
<1> HIDE DEF p2
<1>13. \A j \in DOMAIN p2 : GoodCopy(p2[j])
  BY <1>10, <1>12 DEF GoodPool
<1>14. \A j \in DOMAIN p2 : Narrows(p2[j], p[j])
  BY <1>11, <1>12, NarrowsItself
<1>15. new \notin DOMAIN p2
  BY <1>12
<1>24. GoodCopy(c1) /\ c1.u = u /\ ~Settled(c1)
  BY <1>9, CopyFields
<1>26. r = id_insert(p2, new, c1)
  BY DEF r
<1> HIDE DEF c1, r
<1>28. Added(r, p2, new, u)
  BY <1>13, <1>15, <1>24, <1>26, HandedOut
<1>16. /\ \A j \in DOMAIN r : GoodCopy(r[j])
       /\ \A j \in DOMAIN r : j = new \/ (j \in DOMAIN p2 /\ r[j] = p2[j])
       /\ new \in DOMAIN r /\ r[new].u = u /\ Covers(u, r[new], Y)
       /\ \A j \in DOMAIN p2 : j \in DOMAIN r /\ r[j] = p2[j]
  BY <1>28 DEF Added
<1>17. ASSUME NEW y \in Y PROVE InPool(y, ids', unassigned')
  <2>1. InPool(y, p, unassigned)
    OBVIOUS
  <2>2. CASE y \in Leaves(u)
    BY <1>4, <1>16, <2>2 DEF InPool
  <2>3. CASE y \in Leaves(v)
    BY <1>3, <1>4, <1>10, <1>12, <1>16, <2>3 DEF InPool
  <2>4. CASE y \in Leaves(s)
    BY <1>7, <2>2, <2>3, <2>4
  <2>5. CASE \E j \in DOMAIN p : j # k /\ y \in Leaves(p[j].u)
    BY <1>4, <1>12, <1>16, <2>5 DEF InPool
  <2>6. CASE \E j \in DOMAIN unassigned : y \in Leaves(unassigned[j])
    BY <1>2, <2>6 DEF InPool
  <2> QED BY <2>1, <2>4, <2>5, <2>6 DEF InPool, s
<1>18. GoodPool(ids', unassigned')
  BY <1>2, <1>4, <1>16 DEF GoodPool
<1>19. x.tag = "WORK" /\ x.id = new /\ x.u = u
  BY WorkFields
<1> HIDE DEF x
<1>20. \A j \in DOMAIN ids' : j = new \/ (j \in DOMAIN p /\ Narrows(ids'[j], p[j]))
  BY <1>4, <1>12, <1>14, <1>16
<1>21. new \in DOMAIN ids' => Covers(x.u, ids'[new], Y)
  BY <1>4, <1>16, <1>19
<1>22. Supplied(x, new, p, Y)
  BY <1>2, <1>7, <1>17, <1>18, <1>19, <1>20, <1>21 DEF Supplied
<1> QED BY <1>4, <1>19, <1>22

\* duplicate: the largest copy is handed out again.
LEMMA DuplicateSupplies ==
  ASSUME NEW w, NEW m, NEW p, NEW new, NEW Y, GoodPool(p, unassigned), new \notin DOMAIN p,
         \A y \in Y : InPool(y, p, unassigned), duplicate(w, m, p, new)
  PROVE  \E x : rep' = [rep EXCEPT ![w] = x] /\ x.tag = "WORK" /\ Supplied(x, new, p, Y)
<1>1. PICK k \in sizes_big(p) :
        /\ ids' = [p EXCEPT ![k].end_updated = @ \/ Len(p[k].u) <= m.max]
        /\ Answer(w, WORK(new, m.max, IF Len(p[k].u) <= m.max THEN p[k].u ELSE <<>>))
  BY DEF duplicate
<1>2. unassigned' = unassigned /\ end' = end
  BY DEF duplicate
<1>3. k \in DOMAIN p /\ p[k].updated
  BY DEF sizes_big
<1> DEFINE u == IF Len(p[k].u) <= m.max THEN p[k].u ELSE <<>>
           x == WORK(new, m.max, u)
           b == p[k].end_updated \/ Len(p[k].u) <= m.max
           c == [p[k] EXCEPT !.end_updated = b]
<1>4. rep' = [rep EXCEPT ![w] = x]
  BY <1>1 DEF Answer
<1>5. GoodCopy(p[k])
  BY <1>3 DEF GoodPool
<1>6. u \in Seq(Ivl) /\ LongApart(u)
  <2>1. <<>> \in Seq(Ivl) /\ LongApart(<<>>)
    BY DEF LongApart
  <2> QED BY <1>5, <2>1 DEF GoodCopy, GoodWorks
<1>7. /\ DOMAIN ids' = DOMAIN p /\ ids'[k] = c
      /\ \A j \in DOMAIN p : j # k => ids'[j] = p[j]
  BY <1>1, <1>3
<1> HIDE DEF b, u
<1>8. DOMAIN p[k] = {"u", "size", "updated", "unset", "end_updated"}
  BY <1>5 DEF GoodCopy
<1>9. c.u = p[k].u /\ c.updated = p[k].updated /\ c.unset = p[k].unset /\ DOMAIN c = DOMAIN p[k]
  BY <1>8
<1> HIDE DEF c
<1>10. GoodCopy(c)
  BY <1>3, <1>5, <1>9 DEF GoodCopy, Settled
<1>11. Narrows(c, p[k])
  BY <1>3, <1>9, NarrowsParts DEF Settled
<1>12. \A j \in DOMAIN ids' : GoodCopy(ids'[j]) /\ Narrows(ids'[j], p[j])
  BY <1>7, <1>10, <1>11, NarrowsItself DEF GoodPool
<1>13. GoodPool(ids', unassigned')
  BY <1>2, <1>12 DEF GoodPool
<1>14. ASSUME NEW y \in Y PROVE InPool(y, ids', unassigned')
  <2>1. InPool(y, p, unassigned)
    OBVIOUS
  <2> QED BY <1>2, <1>7, <1>9, <2>1 DEF InPool
<1>15. x.tag = "WORK" /\ x.id = new /\ x.u = u
  BY WorkFields
<1> HIDE DEF x
<1>16. Supplied(x, new, p, Y)
  BY <1>2, <1>6, <1>7, <1>12, <1>13, <1>14, <1>15 DEF Supplied
<1> QED BY <1>4, <1>15, <1>16

\* Nothing is left to hand out: there was nothing that must not be lost.
LEMMA ShutdownSupplies ==
  ASSUME NEW w, NEW p, NEW new, NEW Y, GoodPool(p, unassigned),
         \A y \in Y : InPool(y, p, unassigned), Shutdown(w, p)
  PROVE  rep' = [rep EXCEPT ![w] = END] /\ Supplied(END, new, p, Y)
<1>1. /\ DOMAIN p = {} /\ unassigned = <<>> /\ rep' = [rep EXCEPT ![w] = END]
      /\ ids' = p /\ unassigned' = unassigned
  BY DEF Shutdown, Answer
<1>2. Y = {}
  BY <1>1 DEF InPool
<1>3. END.tag # "WORK"
  BY DEF END
<1> QED BY <1>1, <1>2, <1>3 DEF Supplied

\* StealFails: nothing was reported yet, the worker has to ask again.
LEMMA StealFailsSupplies ==
  ASSUME NEW w, NEW p, NEW new, NEW Y, GoodPool(p, unassigned),
         \A y \in Y : InPool(y, p, unassigned), StealFails(w, p)
  PROVE  rep' = [rep EXCEPT ![w] = NIL(sltn)] /\ Supplied(NIL(sltn), new, p, Y)
<1>1. /\ rep' = [rep EXCEPT ![w] = NIL(sltn)] /\ ids' = p
      /\ unassigned' = unassigned /\ end' = end
  BY DEF StealFails, Answer
<1>2. NIL(sltn).tag # "WORK"
  BY DEF NIL
<1> QED BY <1>1, <1>2, NarrowsItself DEF Supplied

\* Whatever the master finds for a worker.
LEMMA NewWorkSupplies ==
  ASSUME NEW w, NEW m, NEW p, NEW Y, GoodPool(p, unassigned), set_id \notin DOMAIN p,
         \A y \in Y : InPool(y, p, unassigned), m.max \in Nat \ {0}, NewWork(w, m, p)
  PROVE  \E x : rep' = [rep EXCEPT ![w] = x] /\ Supplied(x, set_id, p, Y)
<1> DEFINE new == set_id
<1>1. \/ Shutdown(w, p) \/ StealFails(w, p) \/ adopt(w, m, p, new) \/ adoptPart(w, m, p, new)
      \/ steal(w, m, p, new) \/ duplicate(w, m, p, new)
  BY DEF NewWork
<1>2. new \notin DOMAIN p /\ m.max \in Nat
  OBVIOUS
<1> HIDE DEF new
<1>3. CASE Shutdown(w, p)
  BY <1>3, ShutdownSupplies DEF new
<1>4. CASE StealFails(w, p)
  BY <1>4, StealFailsSupplies DEF new
<1>5. CASE adopt(w, m, p, new)
  BY <1>2, <1>5, AdoptSupplies DEF new
<1>6. CASE adoptPart(w, m, p, new)
  BY <1>2, <1>6, AdoptPartSupplies DEF new
<1>7. CASE steal(w, m, p, new)
  BY <1>2, <1>7, StealSupplies DEF new
<1>8. CASE duplicate(w, m, p, new)
  BY <1>2, <1>8, DuplicateSupplies DEF new
<1> QED BY <1>1, <1>3, <1>4, <1>5, <1>6, <1>7, <1>8

-----------------------------------------------------------------------------
(* The invariant of the search *)

\* The leaves that must not be lost: the optimum, as long as nobody knows it
\* and it did not fall into one of the gaps.
Wanted == IF sltn \/ lost # {} \/ \E w \in Workers : knows[w] THEN {} ELSE {opt}

\* What worker w works on or is about to receive.
Holding(w) == IF rep[w].tag = "WORK" THEN rep[w].u ELSE Decimals(unit[w].vs)

\* Its intervals, as vectors and as numbers.
UnitInv(w) == unit[w].vs \in Seq(Vects) /\ LongApart(Decimals(unit[w].vs))
AnswerInv(w) == rep[w].tag = "WORK" => rep[w].u \in Seq(Ivl) /\ LongApart(rep[w].u)

\* What it reported is sorted, and what it has now is a part of that.
ReportInv(w) ==
  req[w].tag = "WORK" =>
    /\ req[w].max \in Nat \ {0}
    /\ req[w].u \in Seq(Ivl) /\ Ascending(req[w].u)
    /\ \A k \in DOMAIN req[w].u : req[w].u[k].b < req[w].u[k].e
    /\ Fits(Decimals(unit[w].vs), req[w].u)
    /\ \A x \in Wanted : x \in Leaves(req[w].u) => x \in Leaves(Decimals(unit[w].vs))

\* The copy of its work unit has no wanted leaf that the worker has not.
CopyInv(w) ==
  Held(w) \in DOMAIN ids =>
    /\ Covers(Holding(w), ids[Held(w)], Wanted)
    /\ req[w].tag = "WORK" => Covers(req[w].u, ids[Held(w)], Wanted)

WorkerInv(w) == UnitInv(w) /\ AnswerInv(w) /\ ReportInv(w) /\ CopyInv(w)
WorkersInv == \A w \in Workers : WorkerInv(w)

PoolInv == GoodPool(ids, unassigned) /\ \A x \in Wanted : InPool(x, ids, unassigned)
EndInv == end => Wanted = {}
KnowsInv == knows \in [Workers -> BOOLEAN] /\ opt \in Tree

SearchInv == KnowsInv /\ WorkersInv /\ PoolInv /\ EndInv

\* Nothing that concerns worker w changes, but its copy may lose leaves.
LEMMA Bystander ==
  ASSUME NEW w, WorkerInv(w), Wanted' \subseteq Wanted,
         UNCHANGED <<unit[w], rep[w], req[w]>>,
         Held(w) \in DOMAIN ids' =>
           Held(w) \in DOMAIN ids /\ Narrows(ids'[Held(w)], ids[Held(w)])
  PROVE  WorkerInv(w)'
<1>1. Held(w)' = Held(w) /\ Holding(w)' = Holding(w)
  BY DEF Held, Holding
<1>2. UnitInv(w)' /\ AnswerInv(w)'
  BY DEF WorkerInv, UnitInv, AnswerInv
<1>3. ReportInv(w)'
  BY DEF WorkerInv, ReportInv
<1>7. Holding(w) \in Seq(Ivl) /\ (req[w].tag = "WORK" => req[w].u \in Seq(Ivl))
  BY DecimalsOf DEF WorkerInv, UnitInv, AnswerInv, ReportInv, Holding
<1>4. ASSUME Held(w)' \in DOMAIN ids' PROVE Covers(Holding(w)', ids'[Held(w)'], Wanted')
  BY <1>1, <1>4, <1>7, CoversNarrower DEF WorkerInv, CopyInv
<1>5. ASSUME Held(w)' \in DOMAIN ids', req'[w].tag = "WORK"
      PROVE  Covers(req'[w].u, ids'[Held(w)'], Wanted')
  BY <1>1, <1>5, <1>7, CoversNarrower DEF WorkerInv, CopyInv
<1>6. CopyInv(w)'
  BY <1>4, <1>5 DEF CopyInv
<1> QED BY <1>2, <1>3, <1>6 DEF WorkerInv

\* Intervals in order are apart.
LEMMA AscendingApart ==
  ASSUME NEW u \in Seq(Ivl), Ascending(u) PROVE LongApart(u)
<1>1. ASSUME NEW i \in DOMAIN u, NEW j \in DOMAIN u, i # j
      PROVE  u[i].e < u[j].b \/ u[j].e < u[i].b
  <2>1. i \in Nat /\ j \in Nat
    BY Bounds
  <2>2. i < j \/ j < i
    BY <1>1, <2>1
  <2> QED BY <2>2 DEF Ascending
<1> QED BY <1>1 DEF LongApart

\* What the master makes of the report m.
LEMMA ReportedLeaves ==
  ASSUME NEW m, NEW Y \in SUBSET Tree, NEW c, c = ids[m.id], GoodCopy(c), Covers(m.u, c, Y),
         m.u \in Seq(Ivl), Ascending(m.u), \A k \in DOMAIN m.u : m.u[k].b < m.u[k].e,
         c.end_updated => Y \cap Touching(c.u, m.u) = {} /\ Y \cap Skipped(c, m.u) = {}
  PROVE  /\ Reported(m) \in Seq(Ivl) /\ Ascending(Reported(m))
         /\ \A y \in Y : y \in Leaves(c.u) => y \in Leaves(Reported(m))
<1> DEFINE r == m.u
           s == c.u
<1>1. s \in Seq(Ivl) /\ (c.end_updated /\ ~c.unset => Ascending(s) /\ Fits(r, s))
  BY DEF GoodCopy, GoodWorks, Covers, Settled
<1>2. \A y \in Y : y \in Leaves(s) => y \in Leaves(r)
  BY DEF Covers
<1>3. CASE r = <<>>
  <2>1. Reported(m) = r
    BY <1>3 DEF Reported
  <2> QED BY <1>2, <2>1
<1>4. CASE r # <<>> /\ ~c.end_updated
  <2>1. Reported(m) = r
    BY <1>4 DEF Reported
  <2> QED BY <1>2, <2>1
<1>5. CASE r # <<>> /\ c.end_updated
  <2>1. Reported(m) = intersection(s, r)
    BY <1>5 DEF Reported
  <2>2. /\ intersection(s, r) \in Seq(Ivl) /\ Ascending(intersection(s, r))
        /\ Ascending(s) /\ Fits(r, s) =>
             \A x \in Leaves(s) \cap Leaves(r) : Touches(x, s, r) \/ x \in Leaves(intersection(s, r))
    BY <1>1, Intersected
  <2>3. ASSUME NEW y \in Y, Touches(y, s, r) PROVE FALSE
    <3>1. y \in Touching(s, r)
      BY <2>3 DEF Touches, Touching, ToSet
    <3> QED BY <1>5, <3>1
  <2>4. ASSUME NEW y \in Y, y \in Leaves(s) PROVE y \in Leaves(intersection(s, r))
    <3>1. y \in Leaves(s) \cap Leaves(r)
      BY <1>2, <2>4
    <3>2. CASE c.unset
      BY <1>5, <3>1, <3>2 DEF Skipped
    <3>3. CASE ~c.unset
      BY <1>1, <1>5, <2>2, <2>3, <3>1, <3>3
    <3> QED BY <3>2, <3>3
  <2> QED BY <2>1, <2>2, <2>4
<1> QED BY <1>3, <1>4, <1>5

-----------------------------------------------------------------------------
(* The master takes a report into account *)

\* The copy of a worker that keeps its work unit.
LEMMA KeptCopy ==
  ASSUME NEW w, NEW m, NEW u, Keep(w, m, u)
  PROVE  \E a, b : ids' = [ids EXCEPT ![m.id] = After(u, a, b)]
<1>1. PICK positive \in {TRUE, ~ids[m.id].unset} :
         ids' = [ids EXCEPT ![m.id] = [Copy(u) EXCEPT !.updated = positive, !.unset = ~positive]]
  BY Zenon DEF Keep
<1>2. ids' = [ids EXCEPT ![m.id] = After(u, positive, ~positive)]
  BY <1>1, Zenon DEF After
<1> QED BY <1>2, Zenon

\* What the report of worker w leaves of its copy goes to it, and the others
\* keep theirs.
LEMMA KeepStep ==
  ASSUME Shape, OneOwner, SearchInv, Wanted' \subseteq Wanted, NEW w \in Workers, Channel(w),
         req[w].tag = "WORK", req[w].id \in DOMAIN ids,
         ids[req[w].id].end_updated => /\ Wanted' \cap Touching(ids[req[w].id].u, req[w].u) = {}
                                       /\ Wanted' \cap Skipped(ids[req[w].id], req[w].u) = {},
         Keep(w, req[w], Reported(req[w])),
         req' = [req EXCEPT ![w] = None], unit' = unit
  PROVE  WorkersInv' /\ PoolInv' /\ (end' => Wanted' = {})
<1> DEFINE m == req[w]
           k == m.id
           u == Reported(m)
           c == ids[k]
<1>1. Held(w) = k /\ rep[w].tag # "WORK" /\ k = unit[w].id
  BY DEF Channel, Held, Shape
<1>2. WorkerInv(w) /\ GoodPool(ids, unassigned)
  BY DEF SearchInv, WorkersInv, PoolInv
<1>3. GoodCopy(c) /\ k \in DOMAIN ids
  BY <1>2 DEF GoodPool
<1>4. /\ m.u \in Seq(Ivl) /\ Ascending(m.u) /\ \A n \in DOMAIN m.u : m.u[n].b < m.u[n].e
      /\ Fits(Decimals(unit[w].vs), m.u)
      /\ \A x \in Wanted : x \in Leaves(m.u) => x \in Leaves(Decimals(unit[w].vs))
      /\ Covers(m.u, c, Wanted) /\ Covers(Decimals(unit[w].vs), c, Wanted)
  BY <1>1, <1>2 DEF WorkerInv, ReportInv, CopyInv, Holding
<1>5. Wanted' \in SUBSET Tree
  BY DEF Wanted, SearchInv, KnowsInv
<1>6. Covers(m.u, c, Wanted')
  BY <1>4 DEF Covers
<1>7. /\ u \in Seq(Ivl) /\ Ascending(u)
      /\ \A y \in Wanted' : y \in Leaves(c.u) => y \in Leaves(u)
  BY <1>3, <1>4, <1>5, <1>6, ReportedLeaves
<1>0. PICK a, b : ids' = [ids EXCEPT ![k] = After(u, a, b)]
  BY KeptCopy
<1> DEFINE c2 == After(u, a, b)
<1>8. /\ u # <<>>
      /\ rep' = [rep EXCEPT ![w] = IF c.end_updated THEN WORK(k, m.max, u) ELSE NIL(sltn)]
      /\ unassigned' = unassigned /\ end' = end
  BY DEF Keep, Answer
<1>9. u = m.u \/ c.end_updated
  BY DEF Reported
<1> HIDE DEF u
<1>10. LongApart(u) /\ u \in GoodWorks
  BY <1>7, <1>8, AscendingApart DEF GoodWorks
<1>20. DOMAIN c2 = {"u", "size", "updated", "unset", "end_updated"} /\ c2.u = u /\ ~c2.end_updated
  BY ReportedCopy
<1>19. ids' = [ids EXCEPT ![k] = c2]
  BY <1>0
<1> HIDE DEF c2
<1>11. GoodCopy(c2) /\ c2.u = u
  BY <1>7, <1>10, <1>20 DEF GoodCopy
<1>12. /\ DOMAIN ids' = DOMAIN ids /\ ids'[k] = c2
       /\ \A j \in DOMAIN ids : j # k => ids'[j] = ids[j]
  BY <1>3, <1>19
<1>13. PoolInv'
  <2>1. GoodPool(ids', unassigned')
    BY <1>2, <1>8, <1>11, <1>12 DEF GoodPool
  <2>2. ASSUME NEW y \in Wanted' PROVE InPool(y, ids', unassigned')
    <3>1. InPool(y, ids, unassigned)
      BY DEF SearchInv, PoolInv
    <3>2. CASE \E j \in DOMAIN unassigned : y \in Leaves(unassigned[j])
      BY <1>8, <3>2 DEF InPool
    <3>3. ASSUME NEW j \in DOMAIN ids, y \in Leaves(ids[j].u) PROVE InPool(y, ids', unassigned')
      BY <1>7, <1>11, <1>12, <3>3 DEF InPool
    <3> QED BY <3>1, <3>2, <3>3 DEF InPool
  <2> QED BY <2>1, <2>2 DEF PoolInv
<1>14. req'[w] = None /\ unit'[w] = unit[w] /\ None.tag = "none"
  BY DEF Shape, None
<1>15. rep'[w] = IF c.end_updated THEN WORK(k, m.max, u) ELSE NIL(sltn)
  BY <1>8 DEF Shape
<1>16. WorkerInv(w)'
  <2>1. Fits(u, u)
    BY <1>7, AscendingFits
  <2>2. Covers(u, c2, Wanted')
    BY <1>11, <2>1 DEF Covers
  <2>3. UnitInv(w)' /\ ReportInv(w)'
    BY <1>2, <1>14 DEF WorkerInv, UnitInv, ReportInv
  <2>4. CASE c.end_updated
    <3>1. rep'[w].tag = "WORK" /\ rep'[w].id = k /\ rep'[w].u = u
      BY <1>15, <2>4, WorkFields
    <3>2. Held(w)' = k /\ Holding(w)' = u
      BY <3>1 DEF Held, Holding
    <3>3. AnswerInv(w)'
      BY <1>7, <1>10, <3>1 DEF AnswerInv
    <3>4. CopyInv(w)'
      BY <1>12, <1>14, <2>2, <3>2 DEF CopyInv
    <3> QED BY <2>3, <3>3, <3>4 DEF WorkerInv
  <2>5. CASE ~c.end_updated
    <3>1. rep'[w].tag # "WORK"
      BY <1>15, <2>5 DEF NIL
    <3>2. Held(w)' = k /\ Holding(w)' = Decimals(unit[w].vs)
      BY <1>1, <1>14, <3>1 DEF Held, Holding
    <3>3. AnswerInv(w)'
      BY <3>1 DEF AnswerInv
    <3>4. Covers(Decimals(unit[w].vs), c2, Wanted')
      BY <1>4, <1>9, <1>11, <2>5 DEF Covers
    <3>5. CopyInv(w)'
      BY <1>12, <1>14, <3>2, <3>4 DEF CopyInv
    <3> QED BY <2>3, <3>3, <3>5 DEF WorkerInv
  <2> QED BY <2>4, <2>5
<1>17. ASSUME NEW v \in Workers, v # w PROVE WorkerInv(v)'
  <2>1. WorkerInv(v)
    BY DEF SearchInv, WorkersInv
  <2>2. UNCHANGED <<unit[v], rep[v], req[v]>>
    BY <1>8, <1>17 DEF Shape
  <2>3. ASSUME Held(v) \in DOMAIN ids'
        PROVE  Held(v) \in DOMAIN ids /\ Narrows(ids'[Held(v)], ids[Held(v)])
    <3>1. Held(v) # k
      BY <1>1, <1>3, <1>17 DEF OneOwner
    <3> QED BY <1>12, <2>3, <3>1, NarrowsItself
  <2> QED BY <2>1, <2>2, <2>3, Bystander
<1>18. end' => Wanted' = {}
  BY <1>8 DEF SearchInv, EndInv
<1> QED BY <1>13, <1>16, <1>17, <1>18 DEF WorkersInv

\* Worker w gets another work unit, or none, p being the other copies.
LEMMA NewWorkStep ==
  ASSUME Shape, SearchInv, Wanted' \subseteq Wanted, NEW w \in Workers, Channel(w),
         req[w].tag = "WORK", NEW p, DOMAIN p = DOMAIN ids \ {req[w].id},
         \A k \in DOMAIN p : p[k] = ids[k],
         \A y \in Wanted' : InPool(y, p, unassigned),
         NewWork(w, req[w], p), req' = [req EXCEPT ![w] = None], unit' = unit
  PROVE  WorkersInv' /\ PoolInv' /\ (end' => Wanted' = {})
<1> DEFINE new == set_id
           Y == Wanted'
<1>1. new \notin UsedIds
  BY FreshId
<1>2. WorkerInv(w) /\ GoodPool(ids, unassigned)
  BY DEF SearchInv, WorkersInv, PoolInv
<1>3. GoodPool(p, unassigned)
  BY <1>2 DEF GoodPool
<1>4. new \notin DOMAIN p
  BY <1>1 DEF UsedIds
<1>5. req[w].max \in Nat \ {0}
  BY <1>2 DEF WorkerInv, ReportInv
<1>6. PICK x : rep' = [rep EXCEPT ![w] = x] /\ Supplied(x, new, p, Y)
  BY <1>3, <1>4, <1>5, NewWorkSupplies
<1> HIDE DEF new
<1>7. PoolInv' /\ (end' => Wanted' = {})
  BY <1>6 DEF Supplied, PoolInv, SearchInv, EndInv
<1>8. req'[w] = None /\ unit'[w] = unit[w] /\ None.tag = "none" /\ rep'[w] = x
  BY <1>6 DEF Shape, None
<1>9. Held(w) = req[w].id
  BY DEF Channel, Held, Shape
<1>10. WorkerInv(w)'
  <2>1. UnitInv(w)' /\ ReportInv(w)'
    BY <1>2, <1>8 DEF WorkerInv, UnitInv, ReportInv
  <2>2. AnswerInv(w)'
    BY <1>6, <1>8 DEF Supplied, AnswerInv
  <2>3. CASE x.tag = "WORK"
    <3>1. Held(w)' = new /\ Holding(w)' = x.u
      BY <1>6, <1>8, <2>3 DEF Supplied, Held, Holding
    <3>2. CopyInv(w)'
      BY <1>6, <1>8, <2>3, <3>1 DEF Supplied, CopyInv
    <3> QED BY <2>1, <2>2, <3>2 DEF WorkerInv
  <2>4. CASE x.tag # "WORK"
    <3>1. Held(w)' = req[w].id
      BY <1>8, <2>4 DEF Held, Channel
    <3>2. req[w].id # new
      BY <1>1, <1>9, HeldUsed DEF new
    <3>3. Held(w)' \notin DOMAIN ids'
      BY <1>6, <3>1, <3>2 DEF Supplied
    <3>4. CopyInv(w)'
      BY <3>3 DEF CopyInv
    <3> QED BY <2>1, <2>2, <3>4 DEF WorkerInv
  <2> QED BY <2>3, <2>4
<1>11. ASSUME NEW v \in Workers, v # w PROVE WorkerInv(v)'
  <2>1. WorkerInv(v)
    BY DEF SearchInv, WorkersInv
  <2>2. UNCHANGED <<unit[v], rep[v], req[v]>>
    BY <1>6, <1>11 DEF Shape
  <2>3. ASSUME Held(v) \in DOMAIN ids'
        PROVE  Held(v) \in DOMAIN ids /\ Narrows(ids'[Held(v)], ids[Held(v)])
    <3>1. Held(v) # new
      BY <1>1, HeldUsed DEF new
    <3> QED BY <1>6, <2>3, <3>1 DEF Supplied
  <2> QED BY <2>1, <2>2, <2>3, Bystander
<1> QED BY <1>7, <1>10, <1>11 DEF WorkersInv

\* The master serves the report of worker w.
LEMMA MasterWorkStep ==
  ASSUME Shape, OneOwner, SearchInv, Wanted' \subseteq Wanted, NEW w \in Workers, Channel(w),
         MasterWork(w)
  PROVE  WorkersInv' /\ PoolInv' /\ EndInv'
<1> DEFINE m == req[w]
           k == m.id
<1>1. /\ m.tag = "WORK" /\ processRequest(w, m)
      /\ req' = [req EXCEPT ![w] = None] /\ unit' = unit
  BY DEF MasterWork, worker
<1>2. ASSUME k \in DOMAIN ids, ids[k].end_updated
      PROVE  Wanted' \cap Touching(ids[k].u, m.u) = {} /\ Wanted' \cap Skipped(ids[k], m.u) = {}
  <2>1. opt' = opt /\ MissedBy(ids[k], m.u) \subseteq lost'
    BY <1>2 DEF MasterWork
  <2>2. CASE opt \in Touching(ids[k].u, m.u) \/ opt \in Skipped(ids[k], m.u)
    <3>1. MissedBy(ids[k], m.u) # {}
      BY <1>2, <2>2 DEF MissedBy
    <3> QED BY <2>1, <3>1 DEF Wanted
  <2>3. CASE ~(opt \in Touching(ids[k].u, m.u) \/ opt \in Skipped(ids[k], m.u))
    BY <2>1, <2>3 DEF Wanted
  <2> QED BY <2>2, <2>3
<1>3. ASSUME NEW y \in Wanted' PROVE InPool(y, ids, unassigned)
  BY DEF SearchInv, PoolInv
<1>4. CASE k \notin DOMAIN ids /\ NewWork(w, m, ids)
  <2>1. DOMAIN ids = DOMAIN ids \ {k}
    BY <1>4
  <2> QED BY <1>1, <1>3, <1>4, <2>1, NewWorkStep DEF EndInv
<1>5. CASE k \in DOMAIN ids /\ Keep(w, m, Reported(m))
  BY <1>1, <1>2, <1>5, KeepStep DEF EndInv
<1>6. CASE k \in DOMAIN ids /\ Reported(m) = <<>> /\ NewWork(w, m, id_delete(ids, k))
  <2> DEFINE p == id_delete(ids, k)
  <2>1. DOMAIN p = DOMAIN ids \ {k} /\ \A j \in DOMAIN p : p[j] = ids[j]
    BY DEF id_delete
  <2>2. Held(w) = k /\ WorkerInv(w)
    BY <1>1 DEF Channel, Held, Shape, SearchInv, WorkersInv
  <2>3. /\ m.u \in Seq(Ivl) /\ Ascending(m.u) /\ \A n \in DOMAIN m.u : m.u[n].b < m.u[n].e
        /\ Covers(m.u, ids[k], Wanted)
    BY <1>1, <1>6, <2>2 DEF WorkerInv, ReportInv, CopyInv
  <2>4. Covers(m.u, ids[k], Wanted')
    BY <2>3 DEF Covers
  <2>5. GoodCopy(ids[k])
    BY <1>6 DEF SearchInv, PoolInv, GoodPool
  <2>6. Wanted' \in SUBSET Tree
    BY DEF Wanted, SearchInv, KnowsInv
  <2>7. \A y \in Wanted' : y \in Leaves(ids[k].u) => y \in Leaves(Reported(m))
    BY <1>2, <1>6, <2>3, <2>4, <2>5, <2>6, ReportedLeaves
  <2>8. \A y : y \notin Leaves(<<>>)
    BY LeavesOf
  <2>9. \A y \in Wanted' : y \notin Leaves(ids[k].u)
    BY <1>6, <2>7, <2>8
  <2> HIDE DEF p
  <2>10. ASSUME NEW y \in Wanted' PROVE InPool(y, p, unassigned)
    BY <1>3, <2>1, <2>9 DEF InPool
  <2> QED BY <1>1, <1>6, <2>1, <2>10, NewWorkStep DEF EndInv, p
<1> QED BY <1>1, <1>4, <1>5, <1>6 DEF processRequest

-----------------------------------------------------------------------------
(* What the workers do *)

\* Nothing is wanted that was not wanted before.
LEMMA WantedStep ==
  ASSUME Shape, KnowsInv, [Next]_vars
  PROVE  Wanted' \subseteq Wanted /\ KnowsInv'
<1>1. ASSUME opt' = opt, sltn => sltn', lost # {} => lost' # {},
             \A w \in Workers : knows[w] => knows'[w] \/ sltn' \/ lost' # {}
      PROVE  Wanted' \subseteq Wanted
  BY <1>1 DEF Wanted
<1>2. ASSUME opt' = opt, knows' \in [Workers -> BOOLEAN] PROVE KnowsInv'
  BY <1>2 DEF KnowsInv
<1>3. ASSUME UNCHANGED <<opt, sltn, knows>>, lost \subseteq lost'
      PROVE  Wanted' \subseteq Wanted /\ KnowsInv'
  BY <1>1, <1>2, <1>3 DEF KnowsInv
<1>4. ASSUME NEW w \in Workers, NEW b, knows' = [knows EXCEPT ![w] = @ \/ b],
             UNCHANGED <<opt, sltn, lost>>
      PROVE  Wanted' \subseteq Wanted /\ KnowsInv'
  <2>1. knows' \in [Workers -> BOOLEAN] /\ \A v \in Workers : knows[v] => knows'[v]
    BY <1>4 DEF KnowsInv
  <2> QED BY <1>1, <1>2, <1>4, <2>1
<1>5. ASSUME NEW w \in Workers, Explore(w) PROVE Wanted' \subseteq Wanted /\ KnowsInv'
  <2>1. PICK b : knows' = [knows EXCEPT ![w] = @ \/ b]
    BY <1>5, Zenon DEF Explore
  <2> QED BY <1>4, <1>5, <2>1 DEF Explore
<1>6. ASSUME NEW w \in Workers, ReceiveSolution(w) PROVE Wanted' \subseteq Wanted /\ KnowsInv'
  <2>1. knows' = [knows EXCEPT ![w] = @ \/ rep[w].best]
    BY <1>6 DEF ReceiveSolution
  <2> QED BY <1>4, <1>6, <2>1 DEF ReceiveSolution
<1>7. ASSUME NEW w \in Workers,
             Share(w) \/ Send(w) \/ updateWorkUnit(w) \/ ReceiveEnd(w) \/ MasterWork(w) \/ MasterEnd(w)
      PROVE  Wanted' \subseteq Wanted /\ KnowsInv'
  <2>1. UNCHANGED <<opt, sltn, knows>>
    BY <1>7 DEF Share, Send, tryLaunchCommWork, tryLaunchCommBest, updateWorkUnit, ReceiveEnd,
               MasterWork, MasterEnd, worker
  <2>2. lost \subseteq lost'
    BY <1>7 DEF Share, Send, tryLaunchCommWork, tryLaunchCommBest, updateWorkUnit, ReceiveEnd,
               MasterWork, MasterEnd
  <2> QED BY <1>3, <2>1, <2>2
<1>8. ASSUME NEW w \in Workers, MasterBest(w) PROVE Wanted' \subseteq Wanted /\ KnowsInv'
  <2>1. UNCHANGED <<opt, knows, lost>> /\ (sltn => sltn')
    BY <1>8 DEF MasterBest, worker
  <2> QED BY <1>1, <1>2, <2>1 DEF KnowsInv
<1>9. CASE Restart
  <2>1. UNCHANGED <<opt, sltn>> /\ lost \subseteq lost'
    BY <1>9 DEF Restart
  <2>2. ASSUME NEW w \in Workers, knows[w] PROVE sltn' \/ lost' # {}
    BY <1>9, <2>2 DEF Restart
  <2>3. knows' \in [Workers -> BOOLEAN]
    BY <1>9 DEF Restart, Nobody
  <2> QED BY <1>1, <1>2, <2>1, <2>2, <2>3
<1>10. CASE Terminated \/ UNCHANGED vars
  BY <1>3, <1>10 DEF Terminated, vars
<1> QED
  BY <1>5, <1>6, <1>7, <1>8, <1>9, <1>10 DEF Next, Receive, Serve

\* What the pool has does not get lost, as long as it does not change.
LEMMA PoolStays ==
  ASSUME PoolInv, UNCHANGED pool, Wanted' \subseteq Wanted
  PROVE  PoolInv'
BY DEF PoolInv, GoodPool, InPool, pool

\* A worker that works on what it has keeps what its copy and its report need.
LEMMA WorkKeeps ==
  ASSUME NEW w \in Workers, WorkerInv(w), UNCHANGED <<ids, rep, req>>, Wanted' \subseteq Wanted,
         PoolInv, unit'[w].id = unit[w].id, unit'[w].vs \in Seq(Vects), Follows(unit'[w].vs, unit[w].vs),
         \A x \in Wanted' : x \in Leaves(Decimals(unit[w].vs)) => x \in Leaves(Decimals(unit'[w].vs))
  PROVE  WorkerInv(w)'
<1> DEFINE u == Decimals(unit[w].vs)
           v == Decimals(unit'[w].vs)
<1>1. u \in Seq(Ivl) /\ v \in Seq(Ivl) /\ LongApart(u)
  BY DecimalsOf DEF WorkerInv, UnitInv
<1>2. PICK p : Shrinks(v, u, p) /\ LongShrinks(v, u, p)
  BY DEF Follows
<1>3. \A x \in Wanted' : x \in Leaves(u) => x \in Leaves(v)
  OBVIOUS
<1> HIDE DEF u, v
<1>4. LongApart(v)
  BY <1>1, <1>2, LongApartKept
<1>5. \A s \in Seq(Ivl) : Fits(u, s) => Fits(v, s)
  BY <1>1, <1>2, FitsKept
<1>6. UnitInv(w)'
  BY <1>4 DEF UnitInv, v
<1>7. AnswerInv(w)'
  BY DEF WorkerInv, AnswerInv
<1>8. ReportInv(w)'
  BY <1>3, <1>5 DEF WorkerInv, ReportInv, u, v
<1>9. Held(w)' = Held(w)
  BY DEF Held
<1>10. Held(w) \in DOMAIN ids => Covers(Holding(w)', ids[Held(w)], Wanted')
  <2>1. CASE rep[w].tag = "WORK"
    BY <2>1 DEF Holding, WorkerInv, CopyInv, Covers
  <2>2. CASE rep[w].tag # "WORK"
    <3>1. Holding(w) = u /\ Holding(w)' = v
      BY <2>2 DEF Holding, u, v
    <3>2. Held(w) \in DOMAIN ids => ids[Held(w)].u \in Seq(Ivl)
      BY DEF PoolInv, GoodPool, GoodCopy, GoodWorks
    <3> QED BY <1>3, <1>5, <3>1, <3>2 DEF WorkerInv, CopyInv, Covers
  <2> QED BY <2>1, <2>2
<1>11. CopyInv(w)'
  BY <1>9, <1>10 DEF WorkerInv, CopyInv, Covers
<1> QED BY <1>6, <1>7, <1>8, <1>11 DEF WorkerInv

\* Messages without a work unit change nothing for the copies.
LEMMA TalkKeeps ==
  ASSUME NEW w \in Workers, WorkerInv(w), UNCHANGED <<ids, unit>>, Wanted' \subseteq Wanted,
         rep[w].tag # "WORK", rep'[w].tag # "WORK", req'[w].tag # "WORK"
  PROVE  WorkerInv(w)'
<1>1. Held(w)' = Held(w) /\ Holding(w)' = Holding(w)
  BY DEF Held, Holding
<1> QED BY <1>1 DEF WorkerInv, UnitInv, AnswerInv, ReportInv, CopyInv, Covers

\* Only worker w is concerned, and the pool is not.
LEMMA OneWorker ==
  ASSUME NEW w \in Workers, WorkersInv, UNCHANGED ids, Wanted' \subseteq Wanted,
         \A v \in Workers : v # w => UNCHANGED <<unit[v], rep[v], req[v]>>,
         WorkerInv(w)'
  PROVE  WorkersInv'
<1>1. ASSUME NEW v \in Workers, v # w PROVE WorkerInv(v)'
  BY <1>1, Bystander, NarrowsItself DEF WorkersInv
<1> QED BY <1>1 DEF WorkersInv

\* Worker w evaluates a leaf: it knows the optimum, or has it still.
LEMMA ExploreStep ==
  ASSUME Shape, SearchInv, Wanted' \subseteq Wanted, NEW w \in Workers, Explore(w)
  PROVE  WorkersInv'
<1> DEFINE vs == unit[w].vs
<1>1. PICK k \in DOMAIN vs :
        /\ unit' = [unit EXCEPT ![w].vs =
                      IF @[k].pos = @[k].end
                      THEN SubSeq(@, 1, k - 1) \o SubSeq(@, k + 1, Len(@))
                      ELSE [@ EXCEPT ![k].pos = Expand(Weigh(vs[k].pos) + 1)]]
        /\ knows' = [knows EXCEPT ![w] = @ \/ Weigh(vs[k].pos) = opt]
  BY DEF Explore
<1> DEFINE gone == SubSeq(vs, 1, k - 1) \o SubSeq(vs, k + 1, Len(vs))
           less == [vs EXCEPT ![k].pos = Expand(Weigh(vs[k].pos) + 1)]
           vs2 == IF vs[k].pos = vs[k].end THEN gone ELSE less
<1>2. UNCHANGED <<ids, rep, req>> /\ opt' = opt
  BY DEF Explore, pool
<1>3. WorkerInv(w) /\ PoolInv /\ vs \in Seq(Vects) /\ unit \in [Workers -> {unit[v] : v \in Workers}]
  BY DEF SearchInv, WorkersInv, WorkerInv, UnitInv, Shape
<1>4. unit' = [unit EXCEPT ![w].vs = vs2]
  BY <1>1
<1>5. /\ vs2 \in Seq(Vects) /\ Follows(vs2, vs)
      /\ \A x \in Leaves(Decimals(vs)) : x \in Leaves(Decimals(vs2)) \/ x = Weigh(vs[k].pos)
  BY <1>3, ExploredLast, ExploredFirst
<1> HIDE DEF vs2
<1>6. /\ unit'[w].id = unit[w].id /\ unit'[w].vs = vs2
      /\ \A v \in Workers : v # w => unit'[v] = unit[v]
  BY <1>4 DEF Shape
<1>7. Weigh(vs[k].pos) = opt => Wanted' = {}
  <2>1. Weigh(vs[k].pos) = opt => knows'[w]
    BY <1>1 DEF SearchInv, KnowsInv
  <2> QED BY <2>1 DEF Wanted
<1>8. \A x \in Wanted' : x = opt
  BY <1>2 DEF Wanted
<1>9. \A x \in Wanted' : x \in Leaves(Decimals(vs)) => x \in Leaves(Decimals(vs2))
  BY <1>5, <1>7, <1>8
<1>10. WorkerInv(w)'
  BY <1>2, <1>3, <1>5, <1>6, <1>9, WorkKeeps
<1> QED BY <1>2, <1>6, <1>10, OneWorker DEF SearchInv

\* A thread of worker w takes the end of the interval of another one.
LEMMA ShareStep ==
  ASSUME Shape, SearchInv, Wanted' \subseteq Wanted, NEW w \in Workers, Share(w)
  PROVE  WorkersInv'
<1> DEFINE vs == unit[w].vs
<1>1. PICK k \in DOMAIN vs, thief \in (0 .. M[w] - 1) \ Busy(vs) :
        \E c \in VectToBigint(vs[k]).b .. VectToBigint(vs[k]).e - 1 :
            unit' = [unit EXCEPT ![w].vs =
                       Append([@ EXCEPT ![k].end = Expand(c)],
                              [pos |-> Expand(c + 1), end |-> Expand(VectToBigint(vs[k]).e),
                               id |-> thief])]
  BY DEF Share
<1> DEFINE i == VectToBigint(vs[k])
<1>2. PICK c \in i.b .. i.e - 1 :
            unit' = [unit EXCEPT ![w].vs =
                       Append([@ EXCEPT ![k].end = Expand(c)],
                              [pos |-> Expand(c + 1), end |-> Expand(i.e), id |-> thief])]
  BY <1>1
<1> DEFINE vs2 == Append([vs EXCEPT ![k].end = Expand(c)],
                         [pos |-> Expand(c + 1), end |-> Expand(i.e), id |-> thief])
<1>9. thief \in Nat
  BY DistAssumption
<1>3. UNCHANGED <<ids, rep, req>>
  BY DEF Share, pool
<1>4. WorkerInv(w) /\ PoolInv /\ vs \in Seq(Vects)
  BY DEF SearchInv, WorkersInv, WorkerInv, UnitInv
<1>5. unit' = [unit EXCEPT ![w].vs = vs2]
  BY <1>2
<1>6. /\ vs2 \in Seq(Vects) /\ Follows(vs2, vs)
      /\ \A x \in Leaves(Decimals(vs)) : x \in Leaves(Decimals(vs2))
  BY <1>4, <1>9, Shared
<1> HIDE DEF vs2
<1>7. /\ unit'[w].id = unit[w].id /\ unit'[w].vs = vs2
      /\ \A v \in Workers : v # w => unit'[v] = unit[v]
  BY <1>5 DEF Shape
<1>8. WorkerInv(w)'
  BY <1>3, <1>4, <1>6, <1>7, WorkKeeps
<1> QED BY <1>3, <1>7, <1>8, OneWorker DEF SearchInv

\* Worker w reports: its intervals are sorted, those with one leaf are left out.
LEMMA ReportStep ==
  ASSUME Shape, SearchInv, Wanted' \subseteq Wanted, NEW w \in Workers, Channel(w),
         tryLaunchCommWork(w)
  PROVE  WorkersInv'
<1> DEFINE vs == unit[w].vs
           u == Decimals(vs)
           r == fact2dec(vs)
           m == WORK(unit[w].id, M[w], r)
<1>1. /\ UNCHANGED <<ids, rep, unit>> /\ req' = [req EXCEPT ![w] = m] /\ opt' = opt
      /\ st[w] = "ready"
      /\ Single(u, opt) => lost' # {}
  BY DEF tryLaunchCommWork, pool
<1>2. WorkerInv(w) /\ u \in Seq(Ivl) /\ LongApart(u)
  BY DecimalsOf DEF SearchInv, WorkersInv, WorkerInv, UnitInv
<1>3. /\ r \in Seq(Ivl) /\ Ascending(r)
      /\ \A n \in DOMAIN r : r[n].b < r[n].e
      /\ \A x \in Leaves(u) : x \in Leaves(r) \/ Single(u, x)
      /\ \A x \in Leaves(r) : x \in Leaves(u)
      /\ Fits(u, r)
      /\ \A s \in Seq(Ivl) : Fits(u, s) => Fits(r, s)
  BY <1>2, Report
<1>4. m.tag = "WORK" /\ m.max = M[w] /\ m.u = r
  BY WorkFields
<1>5. M[w] \in Nat \ {0}
  BY DistAssumption
<1> HIDE DEF r, m
<1>6. req'[w] = m /\ \A v \in Workers : v # w => req'[v] = req[v]
  BY <1>1 DEF Shape
<1>7. rep[w].tag # "WORK"
  BY <1>1 DEF Channel
<1>8. \A x \in Wanted' : x \in Leaves(u) => x \in Leaves(r)
  BY <1>1, <1>3 DEF Wanted
<1>9. UnitInv(w)' /\ AnswerInv(w)'
  BY <1>1, <1>2 DEF WorkerInv, UnitInv, AnswerInv
<1>10. ReportInv(w)'
  BY <1>1, <1>3, <1>4, <1>5, <1>6 DEF ReportInv
<1>11. Held(w)' = Held(w) /\ Holding(w)' = u /\ Holding(w) = u
  BY <1>1, <1>7 DEF Held, Holding
<1>12. ASSUME Held(w) \in DOMAIN ids
       PROVE  Covers(u, ids[Held(w)], Wanted') /\ Covers(r, ids[Held(w)], Wanted')
  <2>1. Covers(u, ids[Held(w)], Wanted)
    BY <1>2, <1>11, <1>12 DEF WorkerInv, CopyInv
  <2>2. Covers(u, ids[Held(w)], Wanted')
    BY <2>1 DEF Covers
  <2>3. ids[Held(w)].u \in Seq(Ivl)
    BY <1>12 DEF SearchInv, PoolInv, GoodPool, GoodCopy, GoodWorks
  <2> QED BY <1>3, <1>8, <2>2, <2>3 DEF Covers
<1>13. CopyInv(w)'
  BY <1>1, <1>4, <1>6, <1>11, <1>12 DEF CopyInv
<1>14. WorkerInv(w)'
  BY <1>9, <1>10, <1>13 DEF WorkerInv
<1> QED BY <1>1, <1>6, <1>14, OneWorker DEF SearchInv

\* Worker w takes the work unit it was sent, without inverted intervals.
LEMMA UpdateStep ==
  ASSUME Shape, SearchInv, Wanted' \subseteq Wanted, NEW w \in Workers, Channel(w),
         updateWorkUnit(w)
  PROVE  WorkersInv'
<1> DEFINE u == rep[w].u
           a == Active(u)
           vs == dec2fact(a)
<1>1. /\ UNCHANGED <<ids, req>> /\ rep[w].tag = "WORK"
      /\ unit' = [unit EXCEPT ![w] = [id |-> rep[w].id, vs |-> vs]]
      /\ rep' = [rep EXCEPT ![w] = None]
  BY DEF updateWorkUnit, pool
<1>2. WorkerInv(w) /\ u \in Seq(Ivl) /\ LongApart(u)
  BY <1>1 DEF SearchInv, WorkersInv, WorkerInv, AnswerInv
<1>3. /\ vs \in Seq(Vects) /\ Decimals(vs) = a /\ LongApart(a)
      /\ \A s \in Seq(Ivl) : Fits(u, s) => Fits(a, s)
      /\ \A x \in Leaves(u) : x \in Leaves(a)
  BY <1>2, Received DEF Active
<1> HIDE DEF vs, a
<1>4. /\ unit'[w].id = rep[w].id /\ unit'[w].vs = vs /\ rep'[w].tag = "none" /\ req'[w] = req[w]
      /\ \A v \in Workers : v # w => unit'[v] = unit[v] /\ rep'[v] = rep[v]
  BY <1>1 DEF Shape, None
<1>5. req[w].tag # "WORK"
  BY <1>1 DEF Channel, Shape
<1>6. UnitInv(w)' /\ AnswerInv(w)' /\ ReportInv(w)'
  BY <1>3, <1>4, <1>5 DEF UnitInv, AnswerInv, ReportInv
<1>7. Held(w) = rep[w].id /\ Held(w)' = rep[w].id /\ Holding(w) = u /\ Holding(w)' = a
  BY <1>1, <1>3, <1>4 DEF Held, Holding
<1>8. ASSUME Held(w) \in DOMAIN ids PROVE Covers(a, ids[Held(w)], Wanted')
  <2>1. Covers(u, ids[Held(w)], Wanted)
    BY <1>2, <1>7, <1>8 DEF WorkerInv, CopyInv
  <2>2. ids[Held(w)].u \in Seq(Ivl)
    BY <1>8 DEF SearchInv, PoolInv, GoodPool, GoodCopy, GoodWorks
  <2> QED BY <1>3, <2>1, <2>2 DEF Covers
<1>9. CopyInv(w)'
  BY <1>1, <1>4, <1>5, <1>7, <1>8 DEF CopyInv
<1>10. WorkerInv(w)'
  BY <1>6, <1>9 DEF WorkerInv
<1> QED BY <1>1, <1>4, <1>10, OneWorker DEF SearchInv

\* The other messages.
LEMMA TalkStep ==
  ASSUME Shape, SearchInv, Wanted' \subseteq Wanted, NEW w \in Workers, Channel(w),
         \/ tryLaunchCommBest(w) \/ ReceiveSolution(w) \/ ReceiveEnd(w)
         \/ MasterBest(w) \/ MasterEnd(w)
  PROVE  WorkersInv'
<1>1. WorkerInv(w)
  BY DEF SearchInv, WorkersInv
<1>2. UNCHANGED <<ids, unit>>
  BY DEF tryLaunchCommBest, ReceiveSolution, ReceiveEnd, MasterBest, MasterEnd, pool, worker
<1>3. ASSUME NEW a, NEW b, rep' = [rep EXCEPT ![w] = a], req' = [req EXCEPT ![w] = b],
             rep[w].tag # "WORK", a.tag # "WORK", b.tag # "WORK"
      PROVE  WorkersInv'
  <2>1. /\ rep'[w] = a /\ req'[w] = b
        /\ \A v \in Workers : v # w => rep'[v] = rep[v] /\ req'[v] = req[v]
    BY <1>3 DEF Shape
  <2>2. WorkerInv(w)'
    BY <1>1, <1>2, <1>3, <2>1, TalkKeeps
  <2> QED BY <1>2, <2>1, <2>2, OneWorker DEF SearchInv
<1>4. rep = [rep EXCEPT ![w] = rep[w]] /\ req = [req EXCEPT ![w] = req[w]]
  BY DEF Shape
<1>5. None.tag = "none"
  BY DEF None
<1>6. CASE tryLaunchCommBest(w)
  <2>1. /\ req' = [req EXCEPT ![w] = BEST(knows[w])] /\ rep' = [rep EXCEPT ![w] = rep[w]]
        /\ rep[w].tag # "WORK"
    BY <1>4, <1>6 DEF tryLaunchCommBest, Channel
  <2> QED BY <1>3, <2>1, Fields
<1>7. CASE ReceiveSolution(w)
  <2>1. /\ rep' = [rep EXCEPT ![w] = None] /\ req' = [req EXCEPT ![w] = req[w]]
        /\ rep[w].tag # "WORK" /\ req[w].tag # "WORK"
    BY <1>4, <1>7 DEF ReceiveSolution, Channel, Shape
  <2> QED BY <1>3, <1>5, <2>1
<1>8. CASE ReceiveEnd(w)
  <2>1. /\ rep' = [rep EXCEPT ![w] = None] /\ req' = [req EXCEPT ![w] = END]
        /\ rep[w].tag # "WORK"
    BY <1>8 DEF ReceiveEnd
  <2> QED BY <1>3, <1>5, <2>1, Fields
<1>9. CASE MasterBest(w)
  <2>1. PICK a : rep' = [rep EXCEPT ![w] = a] /\ a \in {END, BEST(sltn')}
    BY <1>9 DEF MasterBest, Answer
  <2>2. req' = [req EXCEPT ![w] = None] /\ rep[w].tag # "WORK"
    BY <1>9 DEF MasterBest, Channel, Shape
  <2> QED BY <1>3, <1>5, <2>1, <2>2, Fields
<1>10. CASE MasterEnd(w)
  <2>1. /\ req' = [req EXCEPT ![w] = None] /\ rep' = [rep EXCEPT ![w] = rep[w]]
        /\ rep[w].tag # "WORK"
    BY <1>4, <1>10 DEF MasterEnd, worker, Channel, Shape
  <2> QED BY <1>3, <1>5, <2>1
<1> QED BY <1>6, <1>7, <1>8, <1>9, <1>10

-----------------------------------------------------------------------------
(* Crashes *)

\* A worker that starts has no work unit.
Fresh == ids = << >> /\ unit = FreshUnit /\ req = Empty /\ rep = Empty
LEMMA FreshWorkers == Fresh => WorkersInv
<1> SUFFICES ASSUME Fresh, NEW w \in Workers PROVE WorkerInv(w)
  BY DEF WorkersInv
<1>1. unit[w].vs = <<>> /\ req[w].tag = "none" /\ rep[w].tag = "none"
  BY DEF Fresh, FreshUnit, Empty, None
<1>2. <<>> \in Seq(Vects) /\ DOMAIN Decimals(<<>>) = {}
  BY DEF Decimals
<1>3. UnitInv(w)
  BY <1>1, <1>2 DEF UnitInv, LongApart
<1>4. DOMAIN ids = {}
  BY DEF Fresh
<1> QED BY <1>1, <1>3, <1>4 DEF WorkerInv, AnswerInv, ReportInv, CopyInv

\* All copies are read again.
LEMMA ReadCopies ==
  ASSUME Shape, GoodPool(ids, unassigned)
  PROVE  /\ ReadWorks \in Seq(GoodWorks)
         /\ \A k \in DOMAIN ids : \E n \in DOMAIN ReadWorks : ReadWorks[n] = ids[k].u
<1> DEFINE S == DOMAIN ids
           c == Cardinality(S)
           ps == Places(S)
           active == At(ids, ps)
           a == [k \in DOMAIN active |-> active[k].u]
<1>1. S \in SUBSET Nat /\ IsFiniteSet(S)
  BY DEF Shape
<1>2. c \in Nat /\ ps \in [1 .. c -> S] /\ \A x \in S : \E n \in 1 .. c : ps[n] = x
  <2> DEFINE R == {p \in S \X S : p[1] < p[2]}
  <2>1. StrictOrder(R, S)
    BY <1>1, NumberOrder
  <2>2. ps = Listed(S, R)
    BY DEF Places
  <2> HIDE DEF S, R, ps, c
  <2>3. /\ Cardinality(S) \in Nat
        /\ Listed(S, R) \in [1 .. Cardinality(S) -> S]
        /\ \A x \in S : \E n \in 1 .. Cardinality(S) : Listed(S, R)[n] = x
    BY <1>1, <2>1, ListedElements
  <2> QED BY <2>2, <2>3 DEF c
<1> HIDE DEF c, ps
<1>3. DOMAIN a = 1 .. c /\ \A n \in 1 .. c : ps[n] \in S /\ a[n] = ids[ps[n]].u
  BY <1>2 DEF At
<1>4. a \in [1 .. c -> GoodWorks]
  <2>1. \A n \in 1 .. c : a[n] \in GoodWorks
    BY <1>3 DEF GoodPool, GoodCopy
  <2>2. a = [n \in 1 .. c |-> a[n]]
    BY <1>3
  <2> QED BY <2>1, <2>2
<1>5. a \in Seq(GoodWorks) /\ Len(a) = c
  BY <1>2, <1>4, FunctionSeq
<1>6. unassigned \in Seq(GoodWorks)
  BY DEF GoodPool
<1>7. FileWorks = a \o unassigned
  BY DEF FileWorks, ps
<1> HIDE DEF a
<1> DEFINE f == a \o unassigned
<1>8. /\ f \in Seq(GoodWorks) /\ Len(f) = Len(a) + Len(unassigned)
      /\ \A n \in 1 .. c : f[n] = a[n]
  BY <1>2, <1>5, <1>6
<1>9. c \in 0 .. Len(f)
  BY <1>2, <1>5, <1>6, <1>8
<1> HIDE DEF f
<1> DEFINE r == SubSeq(f, 1, c)
<1>10. r \in Seq(GoodWorks) /\ DOMAIN r = 1 .. c /\ \A n \in 1 .. c : r[n] = f[n]
  BY <1>8, <1>9, FrontElements
<1>11. ReadWorks = r
  BY <1>7 DEF ReadWorks, f, c
<1> HIDE DEF r
<1>12. \A k \in S : \E n \in DOMAIN r : r[n] = ids[k].u
  BY <1>2, <1>3, <1>8, <1>10
<1> QED BY <1>10, <1>11, <1>12

\* All is started again: what the file has not was in a gap.
LEMMA RestartStep ==
  ASSUME Shape, SearchInv, Wanted' \subseteq Wanted, Restart
  PROVE  WorkersInv' /\ PoolInv' /\ EndInv'
<1>1. WorkersInv'
  <2>1. Fresh'
    BY DEF Restart, Fresh
  <2> QED BY <2>1, FreshWorkers, PTL
<1>2. EndInv'
  BY DEF Restart, EndInv
<1>3. ids' = << >> /\ unassigned' = ReadWorks /\ opt' = opt
  BY DEF Restart
<1>4. DOMAIN ids' = {}
  BY <1>3
<1>5. /\ unassigned' \in Seq(GoodWorks)
      /\ \A k \in DOMAIN ids : \E n \in DOMAIN unassigned' : unassigned'[n] = ids[k].u
  BY <1>3, ReadCopies DEF SearchInv, PoolInv
<1>6. ASSUME NEW y \in Wanted' PROVE InPool(y, ids', unassigned')
  <2>1. y = opt /\ lost' = {}
    BY <1>3, <1>6 DEF Wanted
  <2>2. ~ \E k \in DOMAIN unassigned : y \in Leaves(unassigned[k])
    BY <2>1 DEF Restart
  <2>3. InPool(y, ids, unassigned)
    BY <1>6 DEF SearchInv, PoolInv
  <2> QED BY <1>5, <2>2, <2>3 DEF InPool
<1> QED BY <1>1, <1>2, <1>4, <1>5, <1>6 DEF PoolInv, GoodPool

-----------------------------------------------------------------------------
(* No wanted leaf is lost *)

\* A work unit for every interval.
LEMMA OneEach ==
  ASSUME NEW u \in Seq(Ivl) PROVE [k \in DOMAIN u |-> <<u[k]>>] \in Seq(GoodWorks)
<1>1. Len(u) \in Nat /\ DOMAIN u = 1 .. Len(u)
  BY Bounds
<1>2. ASSUME NEW k \in DOMAIN u PROVE <<u[k]>> \in GoodWorks
  <2>1. <<u[k]>> \in Seq(Ivl) /\ <<u[k]>> # <<>> /\ DOMAIN <<u[k]>> = {1}
    BY Bounds
  <2>2. LongApart(<<u[k]>>)
    BY <2>1 DEF LongApart
  <2> QED BY <2>1, <2>2 DEF GoodWorks
<1>3. [k \in DOMAIN u |-> <<u[k]>>] \in [1 .. Len(u) -> GoodWorks]
  BY <1>1, <1>2
<1> QED BY <1>1, <1>3, FunctionSeq

\* The works of the start, whole or split.
LEMMA InitialWorks ==
  ASSUME NEW mode \in {1, 3, 4} PROVE initWorks(mode) \in Seq(GoodWorks)
<1> DEFINE i == [b |-> FirstLeaf, e |-> LastLeaf, id |-> 0]
           n == Cardinality(Workers)
<1>1. i \in Ivl
  <2>1. depth[0] \in Nat \ {0}
    BY Depths, IntervalAssumption
  <2>2. LastLeaf \in Nat /\ FirstLeaf \in Nat
    BY <2>1 DEF LastLeaf, FirstLeaf
  <2> QED BY <2>2 DEF Ivl
<1>2. Whole = <<i>>
  BY DEF Whole
<1> HIDE DEF i
<1>3. Whole \in Seq(Ivl) /\ Whole # <<>> /\ Whole[1] = i
  BY <1>1, <1>2
<1>4. Whole \in GoodWorks
  BY <1>1, <1>2 DEF GoodWorks, LongApart
<1>5. n \in Nat \ {0}
  BY DistAssumption, FS_CardinalityType, FS_EmptySet
<1> HIDE DEF n
<1>6. CASE mode = 1
  BY <1>4, <1>6 DEF initWorks, init_complete
<1>7. CASE mode = 3
  <2> DEFINE u == split(Whole, n)
  <2>1. u \in Seq(Ivl)
    BY <1>3, <1>5, Splitted
  <2> HIDE DEF u
  <2>2. [k \in DOMAIN u |-> <<u[k]>>] \in Seq(GoodWorks)
    BY <2>1, OneEach
  <2>3. initWorks(mode) = [k \in DOMAIN u |-> <<u[k]>>]
    BY <1>7 DEF initWorks, init_complete_split, u, n
  <2> QED BY <2>2, <2>3
<1>8. CASE mode = 4
  <2> DEFINE u == split2(Whole, 100 * n)
             q == [k \in DOMAIN u |-> <<u[k]>>]
  <2>1. 100 * n \in Nat /\ 100 * n >= 2
    BY <1>5
  <2>2. u = LopParts(i, 100 * n)
    BY <1>3, <2>1 DEF split2
  <2>3. u \in Seq(Ivl)
    BY <1>1, <2>1, <2>2, LopPartsOf
  <2> HIDE DEF u
  <2>4. q \in Seq(GoodWorks)
    BY <2>3, OneEach
  <2>5. initWorks(mode) = Reverse(q)
    BY <1>8 DEF initWorks, init_complete_split_lop, u, n
  <2> HIDE DEF q
  <2>6. Reverse(q) \in Seq(GoodWorks)
    BY <2>4 DEF Reverse
  <2> QED BY <2>5, <2>6
<1> QED BY <1>6, <1>7, <1>8

\* The works of a file are such works.
LEMMA ReadFiles ==
  ASSUME NEW f \in Files PROVE f \in Seq(GoodWorks)
<1>1. f \in Seq(Seq(Ivl))
  BY DistAssumption DEF Ivl
<1>2. \A k \in DOMAIN f : f[k] \in GoodWorks
  BY <1>1, DistAssumption DEF GoodWorks
<1> QED BY <1>1, <1>2

\* The invariant holds in the beginning ...
LEMMA SearchInit ==
  ASSUME Init PROVE SearchInv
<1>1. KnowsInv
  BY DEF Init, KnowsInv, Nobody
<1>2. WorkersInv
  BY FreshWorkers DEF Init, Fresh
<1>3. DOMAIN ids = {}
  BY DEF Init
<1>4. unassigned \in Files \/ \E mode \in {1, 3, 4} : unassigned = initWorks(mode)
  BY DistAssumption DEF Init
<1>8. \A f \in Files : f \in Seq(GoodWorks)
  BY ReadFiles
<1>5. unassigned \in Seq(GoodWorks)
  BY <1>4, <1>8, InitialWorks
<1>6. ASSUME NEW y \in Wanted PROVE InPool(y, ids, unassigned)
  <2>1. y = opt /\ lost = {}
    BY <1>6 DEF Wanted
  <2>2. opt \in PoolLeaves
    BY <2>1, Zenon DEF Init
  <2> QED BY <2>1, <2>2 DEF PoolLeaves, InPool
<1>7. EndInv
  BY DEF Init, EndInv
<1> QED BY <1>1, <1>2, <1>3, <1>5, <1>6, <1>7 DEF SearchInv, PoolInv, GoodPool

\* ... and every step keeps it.
LEMMA SearchStep ==
  ASSUME IInv, SearchInv, [Next]_vars PROVE SearchInv'
<1>1. Shape /\ OneOwner /\ \A w \in Workers : Channel(w)
  BY DEF IInv, Channels
<1>2. Wanted' \subseteq Wanted /\ KnowsInv'
  BY <1>1, WantedStep DEF SearchInv
<1>3. ASSUME UNCHANGED pool PROVE PoolInv'
  BY <1>2, <1>3, PoolStays DEF SearchInv
<1>4. ASSUME end' = end PROVE EndInv'
  BY <1>2, <1>4 DEF SearchInv, EndInv
<1>5. ASSUME UNCHANGED <<pool, end>>, WorkersInv' PROVE SearchInv'
  BY <1>2, <1>3, <1>4, <1>5 DEF SearchInv
<1>6. ASSUME NEW w \in Workers, Explore(w) PROVE SearchInv'
  BY <1>1, <1>2, <1>5, <1>6, ExploreStep DEF Explore
<1>7. ASSUME NEW w \in Workers, Share(w) PROVE SearchInv'
  BY <1>1, <1>2, <1>5, <1>7, ShareStep DEF Share
<1>8. ASSUME NEW w \in Workers, tryLaunchCommWork(w) PROVE SearchInv'
  BY <1>1, <1>2, <1>5, <1>8, ReportStep DEF tryLaunchCommWork
<1>9. ASSUME NEW w \in Workers, updateWorkUnit(w) PROVE SearchInv'
  BY <1>1, <1>2, <1>5, <1>9, UpdateStep DEF updateWorkUnit
<1>10. ASSUME NEW w \in Workers,
              \/ tryLaunchCommBest(w) \/ ReceiveSolution(w) \/ ReceiveEnd(w)
              \/ MasterBest(w) \/ MasterEnd(w)
       PROVE  SearchInv'
  <2>1. WorkersInv'
    BY <1>1, <1>2, <1>10, TalkStep
  <2>2. UNCHANGED <<pool, end>>
    BY <1>10 DEF tryLaunchCommBest, ReceiveSolution, ReceiveEnd, MasterBest, MasterEnd
  <2> QED BY <1>5, <2>1, <2>2
<1>11. ASSUME NEW w \in Workers, MasterWork(w) PROVE SearchInv'
  BY <1>1, <1>2, <1>11, MasterWorkStep DEF SearchInv
<1>12. CASE Restart
  BY <1>1, <1>2, <1>12, RestartStep DEF SearchInv
<1>13. CASE Terminated \/ UNCHANGED vars
  <2>1. UNCHANGED vars
    BY <1>13 DEF Terminated
  <2>2. WorkersInv'
    BY <2>1 DEF vars, SearchInv, WorkersInv, WorkerInv, UnitInv, AnswerInv, ReportInv, CopyInv,
                Held, Holding, Wanted
  <2> QED BY <1>5, <2>1, <2>2 DEF vars, pool
<1> QED
  BY <1>6, <1>7, <1>8, <1>9, <1>10, <1>11, <1>12, <1>13 DEF Next, Send, Receive, Serve

\* No wanted leaf is lost.
THEOREM SearchKept == Spec => []SearchInv
<1>1. IInv /\ SearchInv /\ [Next]_vars => SearchInv'
  BY SearchStep
<1> QED BY <1>1, Invariant, SearchInit, PTL DEF Spec

\* No step loses the optimum outside the known gaps, for any number of workers,
\* leaves, IVMs and crashes and however works are split, divided, merged, duplicated
\* and restarted.
THEOREM OptimumIsSafe == Spec => []OptimumSafe
<1>1. SearchInv => OptimumSafe
  BY DEF SearchInv, PoolInv, Wanted, InPool, PoolLeaves, OptimumSafe
<1> QED BY <1>1, SearchKept, PTL

\* The master tells workers to stop only when the optimum was found, or fell into
\* a gap.
THEOREM EndIsSound == Spec => []EndSound
<1>1. SearchInv => EndSound
  BY DEF SearchInv, EndInv, Wanted, EndSound
<1> QED BY <1>1, SearchKept, PTL

\* Copies that a report will be intersected with are sorted and disjoint, unless
\* their update count was never set.
THEOREM CopiesAreSorted == Spec => []SortedCopies
<1>1. ASSUME SearchInv PROVE SortedCopies
  <2> SUFFICES ASSUME NEW k \in DOMAIN ids, ids[k].end_updated, ~ids[k].unset
               PROVE  Ordered(ids[k].u)
    BY DEF SortedCopies
  <2>1. GoodCopy(ids[k])
    BY <1>1 DEF SearchInv, PoolInv, GoodPool
  <2>2. Ascending(ids[k].u)
    BY <2>1 DEF GoodCopy, Settled
  <2> QED BY <2>2 DEF Ascending, Ordered
<1> QED BY <1>1, SearchKept, PTL

\* What work::intersection takes for granted of a report and a copy: both are
\* sorted, and an interval of the report meets one of the copy at most.  Only the
\* copies whose update count was never set may be otherwise.
ReportsFit ==
  \A w \in Workers :
    req[w].tag = "WORK" /\ req[w].id \in DOMAIN ids /\ ids[req[w].id].end_updated =>
      LET c == ids[req[w].id]
      IN Ascending(req[w].u) /\ (~c.unset => Ascending(c.u) /\ Fits(req[w].u, c.u))

\* Whenever the master intersects, it may, but for a copy whose update count was
\* never set.
THEOREM ReportsFitCopies == Spec => []ReportsFit
<1>1. ASSUME IInv, SearchInv PROVE ReportsFit
  <2> SUFFICES ASSUME NEW w \in Workers, req[w].tag = "WORK", req[w].id \in DOMAIN ids,
                      ids[req[w].id].end_updated
               PROVE  /\ Ascending(req[w].u)
                      /\ ~ids[req[w].id].unset =>
                           Ascending(ids[req[w].id].u) /\ Fits(req[w].u, ids[req[w].id].u)
    BY DEF ReportsFit
  <2>1. Held(w) = req[w].id
    BY <1>1 DEF IInv, Channels, Channel, Shape, Held
  <2>2. GoodCopy(ids[req[w].id]) /\ WorkerInv(w)
    BY <1>1 DEF SearchInv, PoolInv, GoodPool, WorkersInv
  <2>3. ~ids[req[w].id].unset => Settled(ids[req[w].id])
    BY <2>2 DEF GoodCopy, Settled
  <2> QED BY <2>1, <2>2, <2>3 DEF GoodCopy, WorkerInv, ReportInv, CopyInv, Covers
<1> QED BY <1>1, Invariant, SearchKept, PTL
=============================================================================
