----------------------------- MODULE Intervals ------------------------------
(***************************************************************************)
(* Work units as sequences of intervals of leaves and what the master and  *)
(* the workers do to them (distributed/src/interval.cpp, work.cpp,         *)
(* fact_work.cpp, weights.cpp).                                            *)
(*                                                                         *)
(* An interval is a record [b, e, id] of its first and its last leaf, both *)
(* included, and the number of the IVM it is on or is meant for.  A worker *)
(* holds its intervals as two factoradic vectors, records [pos, end, id],  *)
(* digit 1 being the most significant.                                     *)
(***************************************************************************)
EXTENDS Integers, FiniteSetsExt, SequencesExt

CONSTANTS
  pbsize,       \* number of jobs; the tree has pbsize! leaves
  lar,          \* divide leaves intervals shorter than this alone (362880)
  SmallestPart  \* split2 cuts off no part shorter than this (3628800)

ASSUME IntervalAssumption ==
  pbsize \in Nat \ {0} /\ lar \in Nat \ {0} /\ SmallestPart \in Nat

-----------------------------------------------------------------------------
(* weights.cpp *)

\* depth[i]: leaves below a node of depth i, i.e. (pbsize - i)!
depth[i \in 0 .. pbsize] == IF i = pbsize THEN 1 ELSE (pbsize - i) * depth[i + 1]

\* W[i][j] = j * depth[i]
W(i, j) == j * depth[i]

FirstLeaf == 0
LastLeaf == depth[0] - 1
Tree == FirstLeaf .. LastLeaf
Digits == [1 .. pbsize -> 0 .. pbsize]

-----------------------------------------------------------------------------
(* interval.cpp and the measures of a work unit *)

length(i) == i.e - i.b

\* The leaves of a work unit.  An interval with e < b has none.
Leaves(u) == UNION {u[k].b .. u[k].e : k \in DOMAIN u}

\* work::set_size, which counts one leaf less per interval.
set_size(u) ==
  LET sum[k \in 0 .. Len(u)] ==
        IF k = 0 THEN 0 ELSE sum[k - 1] + (IF u[k].e > u[k].b THEN length(u[k]) ELSE 0)
  IN sum[Len(u)]

\* Intervals of two leaves or more are disjoint, as in every work unit.
LongApart(u) ==
  \A i, j \in DOMAIN u :
    i # j /\ u[i].b < u[i].e /\ u[j].b < u[j].e => u[i].e < u[j].b \/ u[j].e < u[i].b

\* Is the leaf x an interval of its own?
Single(u, x) == \E k \in DOMAIN u : u[k].b = x /\ u[k].e = x

\* Every interval lies before the next one.
Ordered(u) == \A i, j \in DOMAIN u : i < j => u[i].e < u[j].b

\* Mutant: ids count from 1.
NumberedFrom1(u) == [k \in DOMAIN u |-> [b |-> u[k].b, e |-> u[k].e, id |-> k]]
\* The intervals get the ids 0, 1, ...
Numbered(u) == [k \in DOMAIN u |-> [b |-> u[k].b, e |-> u[k].e, id |-> k - 1]]

\* The elements of the set S in the strict total order R, a set of pairs.
Listed(S, R) ==
  [n \in 1 .. Cardinality(S) |->
     CHOOSE x \in S : Cardinality({y \in S : <<y, x>> \in R}) = n - 1]
Places(S) == Listed(S, {p \in S \X S : p[1] < p[2]})

\* What stands in u at the places ps, one after the other.
At(u, ps) == [n \in DOMAIN ps |-> u[ps[n]]]

byBegin(u) == {p \in (DOMAIN u) \X (DOMAIN u) :
                 u[p[1]].b < u[p[2]].b \/ (u[p[1]].b = u[p[2]].b /\ p[1] < p[2])}
\* Those that stand in u at the places S, sorted.
sortIntervals(u, S) == At(u, Listed(S, byBegin(u)))

-----------------------------------------------------------------------------
(* fact_work.cpp: between decimals and factoradic vectors *)

Weigh(v) ==
  LET sum[i \in 0 .. pbsize] == IF i = 0 THEN 0 ELSE sum[i - 1] + W(i, v[i]) IN sum[pbsize]
VectToBigint(i) == [b |-> Weigh(i.pos), e |-> Weigh(i.end), id |-> i.id]

\* Repeated division by the weights from the most significant digit on.
Expand(x) == [i \in 1 .. pbsize |->
                IF i = 1 THEN x \div depth[1] ELSE (x % depth[i - 1]) \div depth[i]]
Decimals(vs) == [k \in DOMAIN vs |-> VectToBigint(vs[k])]
BigintToVect(i) == [pos |-> Expand(i.b), end |-> Expand(i.e), id |-> i.id]

\* The report of a worker: an interval with a single leaf is left out.
fact2dec(vs) ==
  LET u == Decimals(vs) IN sortIntervals(u, {k \in DOMAIN u : u[k].b < u[k].e})
dec2fact(u) == [k \in DOMAIN u |-> BigintToVect(u[k])]

-----------------------------------------------------------------------------
(* work.cpp *)

Overlap(i, j) == i.e > j.b /\ i.b < j.e
Meet(i, j) == [b |-> IF i.b > j.b THEN i.b ELSE j.b,
               e |-> IF i.e < j.e THEN i.e ELSE j.e,
               id |-> j.id]

\* One interval j of the worker against the copy s from index from on: the
\* scan halts at the first interval that overlaps j or lies behind it, and
\* never returns to as many intervals as it found lying before j.
Scan(s, from, j) ==
  LET halts == {k \in from .. Len(s) : s[k].e >= j.b /\ (s[k].b > j.e \/ Overlap(s[k], j))}
      halt == IF halts = {} THEN Len(s) + 1 ELSE Min(halts)
      hit == halt <= Len(s) /\ Overlap(s[halt], j)
  IN [found |-> IF hit THEN <<Meet(s[halt], j)>> ELSE <<>>,
      from |-> from + Cardinality({k \in from .. halt - 1 : s[k].e < j.b})]

\* What is left of the copy s after its worker reported w.  Both are new
\* objects, so that the comparison of their pointers never finds them equal.
intersection(s, w) ==
  LET upto[k \in 0 .. Len(w)] ==
        IF k = 0 THEN [found |-> <<>>, from |-> 1]
        ELSE LET r == Scan(s, upto[k - 1].from, w[k])
             IN [found |-> upto[k - 1].found \o r.found, from |-> r.from]
  IN upto[Len(w)].found

\* take: the last max intervals, last first, and the intervals that stay.
take(u, max) ==
  [given |-> Numbered(Reverse(SubSeq(u, Len(u) - max + 1, Len(u)))),
   kept |-> SubSeq(u, 1, Len(u) - max)]

\* divide: the first max intervals that are long enough are cut in halves.
DividedIndices(u, max) ==
  LET long == {k \in DOMAIN u : length(u[k]) >= lar}
  IN {k \in long : Cardinality({h \in long : h < k}) < max}
coupe(i) == i.b + length(i) \div 2
Behind(i) == [b |-> coupe(i) + 1, e |-> i.e, id |-> i.id]
\* Mutant: the victim loses the leaf at the cut.
divide_open(u, max) ==
  LET cut == DividedIndices(u, max)
  IN [given |-> Numbered(At([k \in DOMAIN u |-> Behind(u[k])], Places(cut))),
      kept |-> [k \in DOMAIN u |->
                  IF k \in cut THEN [u[k] EXCEPT !.e = coupe(u[k]) - 1] ELSE u[k]]]
divide(u, max) ==
  LET cut == DividedIndices(u, max)
  IN [given |-> Numbered(At([k \in DOMAIN u |-> Behind(u[k])], Places(cut))),
      kept |-> [k \in DOMAIN u |->
                  IF k \in cut THEN [u[k] EXCEPT !.e = coupe(u[k])] ELSE u[k]]]

\* The quotient of numbers of any precision is rounded towards zero.
Quotient(x, n) == IF x < 0 THEN -((-x) \div n) ELSE x \div n

\* split: every interval into n \div Len(u) parts of the same length.  An inverted
\* one may get a part with a leaf again.
Parts(i, ratio) ==
  LET part == Quotient(length(i), ratio)
  IN [k \in 1 .. ratio |->
        [b |-> IF k = 1 THEN i.b ELSE i.b + (k - 1) * part + 1,
         e |-> IF k = ratio THEN i.e ELSE i.b + k * part,
         id |-> i.id]]
split(u, n) ==
  LET ratio == n \div Len(u)
  IN Numbered(IF ratio <= 1 THEN u
              ELSE [k \in 1 .. ratio * Len(u) |->
                      Parts(u[(k - 1) \div ratio + 1], ratio)[((k - 1) % ratio) + 1]])

\* split2, for a work of one interval: parts of a twentieth of what is left, from
\* its end on; a part that would be too short is not recorded, but what is before
\* it is.
Twentieth(first, e) == (5 * first) \div 100 + (95 * e) \div 100
LopParts(i, ratio) ==
  LET ends[k \in 0 .. ratio] == IF k = 0 THEN i.e ELSE Twentieth(i.b, ends[k - 1])
      Short(k) == ends[k] - ends[k + 1] < SmallestPart
      parts == CHOOSE k \in 1 .. ratio - 1 :
                 /\ k = ratio - 1 \/ Short(k)
                 /\ \A j \in 1 .. k - 1 : ~Short(j)
      rest == IF parts = ratio - 1 THEN parts ELSE parts + 1
  IN Numbered([k \in 1 .. parts |-> [b |-> ends[k], e |-> ends[k - 1], id |-> i.id]]
                \o <<[b |-> i.b, e |-> ends[rest], id |-> i.id]>>)
split2(u, n) == IF n <= 1 THEN u ELSE LopParts(u[1], n)
=============================================================================
