------------------------------ MODULE GpuProofs -----------------------------
(***************************************************************************)
(* Proofs about GpuBB and Heuristics, for every instance, number of jobs,  *)
(* machines and IVMs that the assumptions admit, and every setting: costs  *)
(* go with schedules that reach them, and bounds are admissible at every   *)
(* node the device reaches.                                                *)
(*                                                                         *)
(* The inductive invariant says that the heuristic works on schedules of   *)
(* all jobs, with costs not below their makespans, and that the matrix of  *)
(* an IVM with work stands for a node: a row has the jobs of the one above *)
(* it without the one that the position points at.  The proofs follow the  *)
(* kernels: each keeps matrices well formed, whatever is flagged, turned   *)
(* round, cut off, shared and read back.                                   *)
(***************************************************************************)
EXTENDS GpuBB, BoundsProofs

-----------------------------------------------------------------------------
(* The invariant *)

\* A schedule of all jobs.
Schedule == {s \in Seq(Job) : Distinct(s) /\ Range(s) = Job}

\* A cost that goes with a schedule.
Reached(s, cost) == s \in Schedule /\ cost \in Nat /\ evalSolution(s) <= cost

\* The state of the search is a record of these fields.
IgRecord(i) ==
  i = [at |-> i.at, iter |-> i.iter, perturb |-> i.perturb, cur |-> i.cur,
       curCost |-> i.curCost, temp |-> i.temp, tempCost |-> i.tempCost,
       best |-> i.best, bestCost |-> i.bestCost, visit |-> i.visit, stale |-> i.stale]

\* They hold lists of jobs, costs, counters and the tails left over from a move.
IgFields(i) ==
  /\ i.at \in {"none", "shuffle", "destruct", "search", "done"}
  /\ i.iter \in Nat /\ i.perturb \in Nat
  /\ i.cur \in Seq(Job) /\ i.curCost \in Nat /\ i.temp \in Seq(Job) /\ i.tempCost \in Nat
  /\ i.best \in Seq(Job) /\ i.bestCost \in Nat /\ i.visit \in Nat \ {0} /\ i.stale \in Time

\* The state of the search.
IgShape(i) == IgRecord(i) /\ IgFields(i)

\* The heuristic works on schedules, and its costs go with them.
SearchInv ==
  /\ IgShape(ig)
  /\ ig.at \in {"destruct", "search"} => Reached(ig.best, ig.bestCost) /\ Reached(ig.cur, ig.curCost)
  /\ ig.at = "search" => Reached(ig.temp, ig.tempCost)

\* No cost is below the optimum.
CostInv ==
  /\ sltn \in [perm : Schedule, cost : Nat]
  /\ best \in Nat /\ initialUB \in Nat
  /\ Optimum <= sltn.cost /\ sltn.cost <= best
  /\ pc = "build" => best = INT_MAX

\* The jobs of a row in order, flagged or not.
Absolutes(jobs) == [i \in 1 .. Len(jobs) |-> absolute(jobs[i])]

\* The set of them.
Jobs(row) == {absolute(row.jobs[i]) : i \in 1 .. Len(row.jobs)}

\* Rows of a matrix: those of line l have size - l cells, all of different jobs.
RowOK(row, l) ==
  /\ row \in [dir : {FRONT, BACK}, jobs : Seq(Int)]
  /\ Len(row.jobs) = size - l
  /\ Distinct(Absolutes(row.jobs))

\* The job that the position points at in row l.
Pointed(rows, pos, l) == absolute(rows[l].jobs[pos[l - 1] + 1])

\* A row has the jobs of the one above it, without the one pointed at.
StackOK(rows, pos) ==
  /\ Len(rows) \in 1 .. size
  /\ rows = [l \in 1 .. Len(rows) |-> rows[l]]
  /\ \A l \in 1 .. Len(rows) : RowOK(rows[l], l - 1)
  /\ Jobs(rows[1]) = Job
  /\ \A l \in 1 .. Len(rows) - 1 :
       /\ pos[l - 1] < size - (l - 1)
       /\ Jobs(rows[l + 1]) = Jobs(rows[l]) \ {Pointed(rows, pos, l)}

\* Positions and ends are cells of their lines.
Inside(v) == v \in [Line -> Nat] /\ \A l \in Line : v[l] < size - l

\* An IVM with work.
NodeOK(x) ==
  /\ x = [state |-> x.state, pos |-> x.pos, end |-> x.end, rows |-> x.rows]
  /\ x.state \in {-1, 1}
  /\ Inside(x.pos) /\ Inside(x.end)
  /\ StackOK(x.rows, x.pos)

\* There is nothing to branch at in a row of a single job.
LeafClosed(x) == Len(x.rows) = size => x.rows[size].jobs[1] < 0

\* IVMs with work are nodes of the tree; only between branching and bounding may
\* the cell of a leaf be open.  Work comes back to the row of the root.
IvmInv ==
  /\ ivm = [k \in IVM |-> ivm[k]]
  /\ \A k \in IVM : ivm[k].state # 0 =>
       NodeOK(ivm[k]) /\ (pc # "bound" => LeafClosed(ivm[k]))
  /\ iter \in 0 .. nbIVM - 1
  /\ pc \notin {"build", "root"} => RowOK(root, 0) /\ Jobs(root) = Job

\* The inductive invariant.
IInv ==
  /\ setting \in Settings /\ ptm = setting.ptm
  /\ SearchInv /\ CostInv /\ IvmInv

-----------------------------------------------------------------------------
(* Rows and stacks of rows *)

\* Rows of any length.
Row == [dir : {FRONT, BACK}, jobs : Seq(Int)]

\* A flag hides no job.
LEMMA Flags ==
  ASSUME NEW j \in Int
  PROVE  /\ absolute(j) \in Nat /\ negative(j) \in Int /\ negative(j) < 0
         /\ absolute(negative(j)) = absolute(j)
         /\ j >= 0 => absolute(j) = j
  BY DEF absolute, negative

\* The size of the matrix.
LEMMA MatrixSize ==
  /\ size \in Nat /\ size >= 2 /\ Line = 0 .. size - 1
  /\ FRONT \in Int /\ BACK \in Int /\ FRONT = 0 /\ BACK = 1
  BY Sizes DEF size, Line, FRONT, BACK

\* What makes a row of a line.
LEMMA RowFacts ==
  ASSUME NEW l \in 0 .. size - 1, NEW r, RowOK(r, l)
  PROVE  /\ r \in Row /\ r.jobs \in Seq(Int) /\ r.dir \in {FRONT, BACK}
         /\ Len(r.jobs) = size - l /\ DOMAIN r.jobs = 1 .. size - l
         /\ \A i \in 1 .. size - l :
              /\ r.jobs[i] \in Int /\ absolute(r.jobs[i]) \in Job /\ absolute(r.jobs[i]) \in Jobs(r)
         /\ \A i, k \in 1 .. size - l :
              absolute(r.jobs[i]) = absolute(r.jobs[k]) => i = k
         /\ \A j \in Jobs(r) : \E i \in 1 .. size - l : j = absolute(r.jobs[i])
         /\ Jobs(r) \in SUBSET Job
<1>1. /\ r \in Row /\ r.jobs \in Seq(Int) /\ r.dir \in {FRONT, BACK}
      /\ Len(r.jobs) = size - l /\ DOMAIN r.jobs = 1 .. size - l
      /\ Distinct(Absolutes(r.jobs))
  BY DEF RowOK, Row
<1>2. DEFINE a == Absolutes(r.jobs)
<1>3. /\ \A i \in 1 .. size - l : r.jobs[i] \in Int /\ a[i] = absolute(r.jobs[i])
      /\ Len(a) = size - l /\ a \in Seq(Job)
      /\ \A i, k \in 1 .. Len(a) : a[i] = a[k] => i = k
  <2>1. a = [i \in 1 .. size - l |-> absolute(r.jobs[i])]
    BY <1>1 DEF Absolutes
  <2>2. a \in Seq(Job) /\ \A i, k \in 1 .. Len(a) : a[i] = a[k] => i = k
    BY <1>1 DEF Distinct
  <2>3. size - l \in Nat
    BY MatrixSize
  <2>4. Len(a) = size - l
    <3> HIDE DEF a
    <3> QED BY <2>1, <2>2, <2>3
  <2>5. \A i \in 1 .. size - l : r.jobs[i] \in Int
    BY <1>1
  <2> HIDE DEF a
  <2> QED BY <2>1, <2>2, <2>4, <2>5
<1> HIDE DEF a
<1>4. \A i \in 1 .. size - l : a[i] \in Job
  BY <1>3
<1>5. Jobs(r) = {absolute(r.jobs[i]) : i \in 1 .. size - l}
  BY <1>1 DEF Jobs
<1> QED BY <1>1, <1>3, <1>4, <1>5

\* The same jobs in places given by a permutation make a row as good.
LEMMA RowAgain ==
  ASSUME NEW l \in 0 .. size - 1, NEW r, RowOK(r, l), NEW t \in Row, Len(t.jobs) = size - l,
         NEW u \in [1 .. size - l -> 1 .. size - l],
         \A i \in 1 .. size - l : u[u[i]] = i,
         \A i \in 1 .. size - l : absolute(t.jobs[i]) = absolute(r.jobs[u[i]])
  PROVE  RowOK(t, l) /\ Jobs(t) = Jobs(r)
<1>1. DEFINE n == size - l
             v(i) == absolute(t.jobs[i])
             w(i) == absolute(r.jobs[i])
             a == Absolutes(t.jobs)
<1>2. /\ n \in Nat /\ Len(t.jobs) = n /\ Len(r.jobs) = n
      /\ t.jobs \in Seq(Int) /\ DOMAIN t.jobs = 1 .. n
      /\ \A i \in 1 .. n : w(i) \in Job
      /\ \A i, k \in 1 .. n : w(i) = w(k) => i = k
  BY MatrixSize, RowFacts DEF Row
<1>3. /\ \A i \in 1 .. n : u[i] \in 1 .. n /\ u[u[i]] = i /\ v(i) = w(u[i])
      /\ a = [i \in 1 .. n |-> v(i)]
      /\ Jobs(t) = {v(i) : i \in 1 .. n} /\ Jobs(r) = {w(i) : i \in 1 .. n}
  <2>1. /\ \A i \in 1 .. n : u[i] \in 1 .. n /\ u[u[i]] = i /\ v(i) = w(u[i])
    OBVIOUS
  <2>2. a = [i \in 1 .. n |-> v(i)]
    BY <1>2 DEF Absolutes
  <2>3. Jobs(t) = {v(i) : i \in 1 .. n} /\ Jobs(r) = {w(i) : i \in 1 .. n}
    BY <1>2 DEF Jobs
  <2> HIDE DEF v, w, n, a
  <2> QED BY <2>1, <2>2, <2>3
<1>4. RowOK(t, l) <=> Len(t.jobs) = n /\ Distinct(a)
  BY DEF RowOK, Row
<1> HIDE DEF n, v, w, a
<1>5. \A i \in 1 .. n : v(i) \in Job
  BY <1>2, <1>3
<1>6. a \in Seq(Job) /\ Len(a) = n /\ \A i \in 1 .. n : a[i] = v(i)
  BY <1>2, <1>3, <1>5
<1>7. \A i, k \in 1 .. n : v(i) = v(k) => i = k
  <2> TAKE i, k \in 1 .. n
  <2> HAVE v(i) = v(k)
  <2>1. /\ w(u[i]) = w(u[k]) /\ u[i] \in 1 .. n /\ u[k] \in 1 .. n
        /\ u[u[i]] = i /\ u[u[k]] = k
    BY <1>3
  <2>2. u[i] = u[k]
    BY <1>2, <2>1
  <2> QED BY <2>1, <2>2
<1>8. RowOK(t, l)
  BY <1>2, <1>4, <1>6, <1>7 DEF Distinct
<1>9. \A j \in Jobs(t) : j \in Jobs(r)
  BY <1>3
<1>10. \A j \in Jobs(r) : j \in Jobs(t)
  <2> TAKE j \in Jobs(r)
  <2>1. PICK i \in 1 .. n : j = w(i)
    BY <1>3
  <2>2. u[i] \in 1 .. n /\ v(u[i]) = w(i)
    BY <1>3
  <2> QED BY <1>3, <2>1, <2>2
<1> QED BY <1>8, <1>9, <1>10

\* Flags alone change no row.
LEMMA RowFlagged ==
  ASSUME NEW l \in 0 .. size - 1, NEW r, RowOK(r, l), NEW t \in Row, Len(t.jobs) = size - l,
         \A i \in 1 .. size - l : absolute(t.jobs[i]) = absolute(r.jobs[i])
  PROVE  RowOK(t, l) /\ Jobs(t) = Jobs(r)
<1>1. DEFINE u == [i \in 1 .. size - l |-> i]
<1>2. /\ u \in [1 .. size - l -> 1 .. size - l]
      /\ \A i \in 1 .. size - l : u[u[i]] = i
      /\ \A i \in 1 .. size - l : absolute(t.jobs[i]) = absolute(r.jobs[u[i]])
  OBVIOUS
<1> HIDE DEF u
<1> QED BY <1>2, RowAgain

\* Nor does turning it round.
LEMMA RowReversed ==
  ASSUME NEW l \in 0 .. size - 1, NEW r, RowOK(r, l), NEW t \in Row, Len(t.jobs) = size - l,
         \A i \in 1 .. size - l : absolute(t.jobs[i]) = absolute(r.jobs[(size - l) + 1 - i])
  PROVE  RowOK(t, l) /\ Jobs(t) = Jobs(r)
<1>1. DEFINE u == [i \in 1 .. size - l |-> (size - l) + 1 - i]
<1>2. size - l \in Nat
  BY MatrixSize
<1>3. /\ u \in [1 .. size - l -> 1 .. size - l]
      /\ \A i \in 1 .. size - l : u[u[i]] = i
      /\ \A i \in 1 .. size - l : absolute(t.jobs[i]) = absolute(r.jobs[u[i]])
  BY <1>2
<1>4. \A f \in [1 .. size - l -> 1 .. size - l] :
        (\A i \in 1 .. size - l :
           f[f[i]] = i /\ absolute(t.jobs[i]) = absolute(r.jobs[f[i]]))
        => RowOK(t, l) /\ Jobs(t) = Jobs(r)
  BY RowAgain
<1> HIDE DEF u
<1> QED BY <1>3, <1>4

\* The rows of a matrix.
LEMMA StackFacts ==
  ASSUME NEW rows, NEW pos, StackOK(rows, pos)
  PROVE  /\ rows \in Seq(Row) /\ Len(rows) \in 1 .. size /\ DOMAIN rows = 1 .. Len(rows)
         /\ \A l \in 1 .. Len(rows) : RowOK(rows[l], l - 1) /\ l - 1 \in 0 .. size - 1
         /\ Last(rows) = rows[Len(rows)]
<1>1. /\ Len(rows) \in 1 .. size /\ size \in Nat
      /\ rows = [l \in 1 .. Len(rows) |-> rows[l]]
      /\ \A l \in 1 .. Len(rows) : RowOK(rows[l], l - 1)
  BY MatrixSize DEF StackOK
<1>2. \A l \in 1 .. Len(rows) : rows[l] \in Row
  BY <1>1 DEF RowOK, Row
<1>3. rows \in Seq(Row) /\ DOMAIN rows = 1 .. Len(rows)
  <2>1. \A n \in Nat : rows = [l \in 1 .. n |-> rows[l]] /\ (\A l \in 1 .. n : rows[l] \in Row)
          => rows \in Seq(Row)
    OBVIOUS
  <2> QED BY <1>1, <1>2, <2>1
<1> QED BY <1>1, <1>3 DEF Last

\* A matrix that is cut off, its last row being any with the same jobs.
LEMMA StackCut ==
  ASSUME NEW rows, NEW pos, StackOK(rows, pos), NEW n \in 1 .. Len(rows),
         NEW rs \in Seq(Row), Len(rs) = n, NEW p,
         \A l \in 1 .. n - 1 : rs[l] = rows[l], \A l \in 0 .. n - 2 : p[l] = pos[l],
         RowOK(rs[n], n - 1), Jobs(rs[n]) = Jobs(rows[n])
  PROVE  StackOK(rs, p)
<1>1. /\ size \in Nat /\ Len(rows) \in 1 .. size /\ n \in 1 .. size
      /\ \A l \in 1 .. Len(rows) : RowOK(rows[l], l - 1)
  BY MatrixSize, StackFacts
<1>2. rs = [l \in 1 .. Len(rs) |-> rs[l]]
  OBVIOUS
<1>3. \A l \in 1 .. n : RowOK(rs[l], l - 1) /\ Jobs(rs[l]) = Jobs(rows[l])
  BY <1>1
<1>4. \A l \in 1 .. n - 1 : Pointed(rs, p, l) = Pointed(rows, pos, l) /\ p[l - 1] = pos[l - 1]
  <2> TAKE l \in 1 .. n - 1
  <2>1. l - 1 \in 0 .. n - 2
    BY <1>1
  <2>2. p[l - 1] = pos[l - 1] /\ rs[l] = rows[l]
    BY <2>1
  <2> QED BY <2>2 DEF Pointed
<1>5. /\ Jobs(rows[1]) = Job
      /\ \A l \in 1 .. Len(rows) - 1 :
           /\ pos[l - 1] < size - (l - 1)
           /\ Jobs(rows[l + 1]) = Jobs(rows[l]) \ {Pointed(rows, pos, l)}
  BY DEF StackOK
<1>6. \A l \in 1 .. n - 1 :
        /\ p[l - 1] < size - (l - 1)
        /\ Jobs(rs[l + 1]) = Jobs(rs[l]) \ {Pointed(rs, p, l)}
  <2> TAKE l \in 1 .. n - 1
  <2>1. l \in 1 .. Len(rows) - 1 /\ l \in 1 .. n /\ l + 1 \in 1 .. n
    BY <1>1
  <2> QED BY <1>3, <1>4, <1>5, <2>1
<1>7. Jobs(rs[1]) = Job
  BY <1>1, <1>3, <1>5
<1> QED BY <1>1, <1>2, <1>3, <1>6, <1>7 DEF StackOK

\* A matrix with one row more.
LEMMA StackGrown ==
  ASSUME NEW rows, NEW pos, StackOK(rows, pos), Len(rows) < size,
         pos[Len(rows) - 1] < size - (Len(rows) - 1),
         NEW r, RowOK(r, Len(rows)), Jobs(r) = Jobs(rows[Len(rows)]) \ {Pointed(rows, pos, Len(rows))},
         NEW p, \A l \in 0 .. Len(rows) - 1 : p[l] = pos[l]
  PROVE  StackOK(Append(rows, r), p)
<1>1. DEFINE n == Len(rows)
             rs == Append(rows, r)
<1>2. /\ size \in Nat /\ n \in 1 .. size /\ n + 1 \in 1 .. size /\ n \in Nat
      /\ rows \in Seq(Row)
  BY MatrixSize, StackFacts
<1>3. r \in Row
  BY DEF RowOK, Row
<1>4. /\ rs \in Seq(Row) /\ Len(rs) = n + 1 /\ rs[n + 1] = r /\ rs = [l \in 1 .. n + 1 |-> rs[l]]
      /\ \A l \in 1 .. n : rs[l] = rows[l]
  <2>1. rs \in Seq(Row) /\ Len(rs) = n + 1 /\ rs[n + 1] = r
    BY <1>2, <1>3
  <2>2. \A l \in 1 .. n : rs[l] = rows[l]
    BY <1>2, <1>3
  <2>3. rs = [l \in 1 .. n + 1 |-> rs[l]]
    <3> HIDE DEF rs, n
    <3> QED BY <1>2, <2>1
  <2> HIDE DEF rs, n
  <2> QED BY <2>1, <2>2, <2>3
<1>5. /\ Jobs(rows[1]) = Job
      /\ \A l \in 1 .. n - 1 :
           /\ pos[l - 1] < size - (l - 1)
           /\ Jobs(rows[l + 1]) = Jobs(rows[l]) \ {Pointed(rows, pos, l)}
  BY DEF StackOK
<1>6. /\ RowOK(r, n) /\ pos[n - 1] < size - (n - 1)
      /\ Jobs(r) = Jobs(rows[n]) \ {Pointed(rows, pos, n)}
      /\ \A l \in 0 .. n - 1 : p[l] = pos[l]
      /\ \A l \in 1 .. n : RowOK(rows[l], l - 1)
  BY StackFacts
<1> HIDE DEF n, rs
<1>7. \A l \in 1 .. n : Pointed(rs, p, l) = Pointed(rows, pos, l) /\ p[l - 1] = pos[l - 1]
  <2> TAKE l \in 1 .. n
  <2>1. p[l - 1] = pos[l - 1] /\ rs[l] = rows[l]
    <3>1. l - 1 \in 0 .. n - 1
      BY <1>2
    <3> QED BY <1>4, <1>6, <3>1
  <2> QED BY <2>1 DEF Pointed
<1>8. \A l \in 1 .. n + 1 : RowOK(rs[l], l - 1)
  <2> TAKE l \in 1 .. n + 1
  <2>1. CASE l = n + 1
    <3>1. l - 1 = n
      BY <1>2, <2>1
    <3> QED BY <1>4, <1>6, <2>1, <3>1
  <2>2. CASE l # n + 1
    <3>1. l \in 1 .. n
      BY <1>2, <2>2
    <3> QED BY <1>4, <1>6, <3>1
  <2> QED BY <2>1, <2>2
<1>9. \A l \in 1 .. n :
        /\ p[l - 1] < size - (l - 1)
        /\ Jobs(rs[l + 1]) = Jobs(rs[l]) \ {Pointed(rs, p, l)}
  <2> TAKE l \in 1 .. n
  <2>1. CASE l = n
    BY <1>2, <1>4, <1>6, <1>7, <2>1
  <2>2. CASE l # n
    <3>1. l \in 1 .. n - 1 /\ l + 1 \in 1 .. n
      BY <1>2, <2>2
    <3> QED BY <1>4, <1>5, <1>7, <3>1
  <2> QED BY <2>1, <2>2
<1>10. Jobs(rs[1]) = Job
  <2>1. 1 \in 1 .. n
    BY <1>2
  <2> QED BY <1>4, <1>5, <2>1
<1>11. StackOK(rs, p)
  <2>1. (n + 1) - 1 = n
    BY <1>2
  <2> QED BY <1>2, <1>4, <1>8, <1>9, <1>10, <2>1 DEF StackOK
<1> QED BY <1>11 DEF rs

-----------------------------------------------------------------------------
(* Lists of jobs, and the row below a cell *)

\* A list of different jobs has as many jobs as places.
LEMMA DistinctSize ==
  ASSUME NEW s, Distinct(s)
  PROVE  /\ Range(s) = {s[i] : i \in 1 .. Len(s)} /\ Range(s) \in SUBSET Job
         /\ Cardinality(Range(s)) = Len(s) /\ Len(s) \in Nat
<1> DEFINE n == Len(s)
<1>1. /\ s \in Seq(Job) /\ n \in Nat /\ DOMAIN s = 1 .. n
      /\ \A i, j \in 1 .. n : s[i] = s[j] => i = j
  BY DEF Distinct
<1> HIDE DEF n
<1>2. Range(s) = {s[i] : i \in 1 .. n}
  BY <1>1 DEF Range
<1>3. s \in [1 .. n -> Range(s)] /\ \A i \in 1 .. n : s[i] \in Job
  <2>1. s = [i \in 1 .. n |-> s[i]]
    BY <1>1
  <2> QED BY <1>1, <1>2, <2>1
<1>4. s \in Bijection(1 .. n, Range(s))
  <2>1. IsInjective(s)
    BY <1>1 DEF IsInjective
  <2>2. \A y \in Range(s) : \E i \in 1 .. n : s[i] = y
    BY <1>2
  <2> QED BY <1>3, <2>1, <2>2 DEF Bijection, Injection, Surjection
<1>5. IsFiniteSet(1 .. n) /\ Cardinality(1 .. n) = n
  <2>1. 1 \in Int /\ n \in Int /\ (IF 1 > n THEN 0 ELSE n - 1 + 1) = n
    BY <1>1
  <2> QED BY <2>1, FS_Interval
<1>6. ExistsBijection(1 .. n, Range(s))
  BY <1>4 DEF ExistsBijection
<1>7. Cardinality(Range(s)) = n
  BY <1>5, <1>6, FS_Bijection
<1> QED BY <1>1, <1>2, <1>3, <1>7 DEF n

\* A job that is not flagged.
LEMMA OpenJob ==
  \A j \in Job : j \in Int /\ j >= 0 /\ absolute(j) = j
  BY Sizes DEF absolute

\* The number of all jobs.
LEMMA JobCount ==
  IsFiniteSet(Job) /\ Cardinality(Job) = nbJob /\ size = nbJob
<1>1. 0 \in Int /\ nbJob - 1 \in Int /\ (IF 0 > nbJob - 1 THEN 0 ELSE nbJob - 1 - 0 + 1) = nbJob
  BY Sizes
<1>2. IsFiniteSet(0 .. nbJob - 1) /\ Cardinality(0 .. nbJob - 1) = nbJob
  BY <1>1, FS_Interval
<1> QED BY <1>2, Sizes DEF size

\* A schedule is a list of nbJob different jobs.
LEMMA Schedules ==
  ASSUME NEW s, Distinct(s)
  PROVE  /\ s \in Schedule <=> Len(s) = nbJob
         /\ s \in Schedule <=> s \in SetToSeqs(Job)
<1>1. /\ Range(s) \in SUBSET Job /\ Cardinality(Range(s)) = Len(s) /\ s \in Seq(Job)
  BY DistinctSize DEF Distinct
<1>2. Range(s) = Job <=> Len(s) = nbJob
  BY <1>1, JobCount, FS_Subset
<1>3. s \in Schedule <=> Range(s) = Job
  BY <1>1 DEF Schedule
<1>4. s \in Schedule => s \in SetToSeqs(Job)
  <2> SUFFICES ASSUME s \in Schedule PROVE s \in SetToSeqs(Job)
    OBVIOUS
  <2>1. Len(s) = nbJob /\ Cardinality(Job) = nbJob /\ nbJob \in Nat
    BY <1>2, <1>3, JobCount, Sizes
  <2>2. s \in [1 .. nbJob -> Job]
    BY <1>1, <2>1
  <2>3. \A i, j \in 1 .. nbJob : i # j => s[i] # s[j]
    BY <2>1 DEF Distinct
  <2> QED BY <2>1, <2>2, <2>3 DEF SetToSeqs
<1>5. s \in SetToSeqs(Job) => Range(s) = Job
  BY SequencesOf
<1> QED BY <1>2, <1>3, <1>4, <1>5

\* A row has as many jobs as cells.
LEMMA RowSize ==
  ASSUME NEW l \in 0 .. size - 1, NEW r, RowOK(r, l)
  PROVE  Cardinality(Jobs(r)) = size - l
<1> DEFINE a == Absolutes(r.jobs)
<1>1. Distinct(a) /\ Len(r.jobs) = size - l /\ DOMAIN r.jobs = 1 .. size - l
  BY RowFacts DEF RowOK
<1>2. a = [i \in 1 .. size - l |-> absolute(r.jobs[i])] /\ size - l \in Nat
  BY <1>1, MatrixSize DEF Absolutes
<1>3. Len(a) = size - l /\ \A i \in 1 .. size - l : a[i] = absolute(r.jobs[i])
  <2>1. a \in Seq(Job)
    BY <1>1 DEF Distinct
  <2> HIDE DEF a
  <2> QED BY <1>2, <2>1
<1>4. Jobs(r) = {absolute(r.jobs[i]) : i \in 1 .. size - l}
  BY <1>1 DEF Jobs
<1> HIDE DEF a
<1>5. Jobs(r) = Range(a)
  <2>1. Range(a) = {a[i] : i \in 1 .. size - l}
    BY <1>1, <1>3, DistinctSize
  <2> QED BY <1>3, <1>4, <2>1
<1> QED BY <1>1, <1>3, <1>5, DistinctSize

\* The row that is generated below an inner node.
LEMMA BelowOf ==
  ASSUME NEW x, StackOK(x.rows, x.pos), x.pos[line(x)] \in Nat, x.pos[line(x)] < size - line(x),
         line(x) < size - 1
  PROVE  /\ RowOK(Below(x), Len(x.rows))
         /\ Jobs(Below(x)) = Jobs(x.rows[Len(x.rows)]) \ {Pointed(x.rows, x.pos, Len(x.rows))}
<1> DEFINE n == Len(x.rows)
           r == x.rows[n]
           k == x.pos[line(x)] + 1
           c == size - (n - 1)
           above == RemoveAt(Last(x.rows).jobs, k)
           new == [i \in DOMAIN above |-> absolute(above[i])]
<1>1. /\ n \in 1 .. size /\ size \in Nat /\ line(x) = n - 1 /\ n - 1 \in 0 .. size - 1
      /\ RowOK(r, n - 1) /\ Last(x.rows) = r /\ n < size
  <2>1. line(x) = n - 1
    BY DEF line
  <2>2. n \in 1 .. size /\ RowOK(r, n - 1) /\ Last(x.rows) = r /\ n - 1 \in 0 .. size - 1
    BY StackFacts, MatrixSize
  <2> HIDE DEF n, r
  <2> QED BY <2>1, <2>2, MatrixSize
<1>2. /\ k \in 1 .. c /\ c \in Nat /\ c - 1 \in Nat
  <2> HIDE DEF n
  <2> QED BY <1>1
<1>3. /\ r.jobs \in Seq(Int) /\ Len(r.jobs) = c
      /\ \A i \in 1 .. c : r.jobs[i] \in Int /\ absolute(r.jobs[i]) \in Job
      /\ \A i, j \in 1 .. c : absolute(r.jobs[i]) = absolute(r.jobs[j]) => i = j
      /\ Jobs(r) = {absolute(r.jobs[i]) : i \in 1 .. c}
  <2>1. Len(r.jobs) = c
    BY <1>1, RowFacts
  <2>2. Jobs(r) = {absolute(r.jobs[i]) : i \in 1 .. c}
    BY <2>1 DEF Jobs
  <2> HIDE DEF r, n
  <2> QED BY <1>1, <2>1, <2>2, RowFacts
<1>4. /\ above \in Seq(Int) /\ Len(above) = c - 1 /\ DOMAIN above = 1 .. c - 1
      /\ \A i \in 1 .. c - 1 : above[i] = r.jobs[IF i < k THEN i ELSE i + 1]
  <2>1. above = SubSeq(r.jobs, 1, k - 1) \o SubSeq(r.jobs, k + 1, Len(r.jobs))
    BY <1>1 DEF RemoveAt
  <2> DEFINE q == r.jobs
             ab == above
  <2>2. q \in Seq(Int) /\ Len(q) = c /\ ab = SubSeq(q, 1, k - 1) \o SubSeq(q, k + 1, Len(q))
    BY <1>3, <2>1
  <2> HIDE DEF q, ab, k, c
  <2>3. /\ ab \in Seq(Int) /\ Len(ab) = c - 1 /\ DOMAIN ab = 1 .. c - 1
        /\ \A i \in 1 .. c - 1 : ab[i] = q[IF i < k THEN i ELSE i + 1]
    BY <1>2, <2>2, WithoutElements
  <2> USE DEF q, ab
  <2> QED BY <2>3
<1>5. \A i \in 1 .. c - 1 : (IF i < k THEN i ELSE i + 1) \in 1 .. c
  <2> HIDE DEF k, c
  <2> QED BY <1>2
<1>6. \A i \in 1 .. c - 1 : new[i] = absolute(r.jobs[IF i < k THEN i ELSE i + 1])
                            /\ new[i] \in Job
  <2> HIDE DEF k, c, above, r
  <2> QED BY <1>3, <1>4, <1>5
<1>7. /\ new \in Seq(Int) /\ Len(new) = c - 1 /\ new \in Seq(Job) /\ DOMAIN new = 1 .. c - 1
  <2>1. new = [i \in 1 .. c - 1 |-> new[i]]
    BY <1>4
  <2>2. \A i \in 1 .. c - 1 : new[i] \in Job /\ new[i] \in Int
    <3>1. \A i \in 1 .. c - 1 : new[i] \in Job
      BY <1>6
    <3> HIDE DEF new, c
    <3> QED BY <3>1, OpenJob
  <2> HIDE DEF new, c
  <2> QED BY <1>2, <2>1, <2>2
<1>8. /\ Below(x) = [dir |-> FRONT, jobs |-> new]
  BY DEF Below
<1>9. /\ \A i, j \in 1 .. c - 1 : new[i] = new[j] => i = j
  <2> DEFINE up(i) == IF i < k THEN i ELSE i + 1
             v(i) == absolute(r.jobs[i])
  <2>1. \A i \in 1 .. c - 1 : new[i] = v(up(i)) /\ up(i) \in 1 .. c
    BY <1>5, <1>6
  <2>2. \A i, j \in 1 .. c - 1 : up(i) = up(j) => i = j
    <3> HIDE DEF k, c
    <3> QED BY <1>2
  <2>3. \A i, j \in 1 .. c : v(i) = v(j) => i = j
    BY <1>3
  <2> HIDE DEF up, v, new, c, k
  <2> QED BY <2>1, <2>2, <2>3
<1>10. Absolutes(Below(x).jobs) = new
  <2>1. Below(x).jobs = new /\ Len(Below(x).jobs) = c - 1
    BY <1>7, <1>8
  <2>2. \A i \in 1 .. c - 1 : absolute(new[i]) = new[i]
    <3>1. \A i \in 1 .. c - 1 : new[i] \in Job
      BY <1>6
    <3> HIDE DEF new, c
    <3> QED BY <3>1, OpenJob
  <2>3. new = [i \in 1 .. c - 1 |-> new[i]]
    BY <1>4
  <2> HIDE DEF new, c
  <2> QED BY <2>1, <2>2, <2>3 DEF Absolutes
<1>11. c - 1 = size - n
  BY <1>1
<1>12. RowOK(Below(x), Len(x.rows))
  <2>1. Distinct(new)
    <3> HIDE DEF new, c
    <3> QED BY <1>7, <1>9 DEF Distinct
  <2>2. Below(x) \in [dir : {FRONT, BACK}, jobs : Seq(Int)]
    <3> HIDE DEF new
    <3> QED BY <1>7, <1>8
  <2>3. Len(Below(x).jobs) = size - n
    <3> HIDE DEF new, c
    <3> QED BY <1>7, <1>8, <1>11
  <2> QED BY <1>10, <2>1, <2>2, <2>3 DEF RowOK
<1>13. Jobs(Below(x)) = {new[i] : i \in 1 .. c - 1}
  <2>1. Below(x).jobs = new /\ Len(Below(x).jobs) = c - 1
    BY <1>7, <1>8
  <2>2. \A i \in 1 .. c - 1 : absolute(new[i]) = new[i]
    <3>1. \A i \in 1 .. c - 1 : new[i] \in Job
      BY <1>6
    <3> HIDE DEF new, c
    <3> QED BY <3>1, OpenJob
  <2> HIDE DEF new, c
  <2> QED BY <2>1, <2>2 DEF Jobs
<1>14. Pointed(x.rows, x.pos, n) = absolute(r.jobs[k])
  BY <1>1 DEF Pointed
<1>15. {new[i] : i \in 1 .. c - 1} = Jobs(r) \ {absolute(r.jobs[k])}
  <2> DEFINE up(i) == IF i < k THEN i ELSE i + 1
             v(i) == absolute(r.jobs[i])
  <2>1. \A i \in 1 .. c - 1 : new[i] = v(up(i)) /\ up(i) \in 1 .. c /\ up(i) # k
    <3>1. \A i \in 1 .. c - 1 : up(i) # k
      <4> HIDE DEF k, c
      <4> QED BY <1>2
    <3>2. \A i \in 1 .. c - 1 : new[i] = v(up(i)) /\ up(i) \in 1 .. c
      BY <1>5, <1>6
    <3> HIDE DEF up, v, new, c, k
    <3> QED BY <3>1, <3>2
  <2>2. \A i \in 1 .. c : i # k => \E j \in 1 .. c - 1 : up(j) = i
    <3> TAKE i \in 1 .. c
    <3> HAVE i # k
    <3> HIDE DEF k, c
    <3>1. CASE i < k
      <4>1. i \in 1 .. c - 1 /\ up(i) = i
        BY <1>2, <3>1
      <4> QED BY <4>1
    <3>2. CASE i > k
      <4>1. i - 1 \in 1 .. c - 1 /\ up(i - 1) = i
        BY <1>2, <3>2
      <4> QED BY <4>1
    <3> QED BY <1>2, <3>1, <3>2
  <2>3. \A i, j \in 1 .. c : v(i) = v(j) => i = j
    BY <1>3
  <2>4. Jobs(r) = {v(i) : i \in 1 .. c} /\ k \in 1 .. c
    BY <1>2, <1>3
  <2> HIDE DEF up, v, new, c, k
  <2>5. \A j \in {new[i] : i \in 1 .. c - 1} : j \in Jobs(r) \ {v(k)}
    BY <2>1, <2>3, <2>4
  <2>6. \A j \in Jobs(r) \ {v(k)} : j \in {new[i] : i \in 1 .. c - 1}
    <3> TAKE j \in Jobs(r) \ {v(k)}
    <3>1. PICK i \in 1 .. c : j = v(i)
      BY <2>4
    <3>2. i # k
      BY <3>1
    <3>3. PICK e \in 1 .. c - 1 : up(e) = i
      BY <2>2, <3>2
    <3>4. new[e] = j
      BY <2>1, <3>1, <3>3
    <3> QED BY <3>4
  <2> QED BY <2>5, <2>6 DEF v
<1> QED BY <1>12, <1>13, <1>14, <1>15

-----------------------------------------------------------------------------
(* The node that a stack of rows stands for *)

\* The lists that tile_decodeIVM builds from the rows, one row after the other.
TakenOf(f, x, dir) ==
  /\ f \in [0 .. line(x) -> Seq(Job)]
  /\ f[0] = <<>>
  /\ \A l \in 1 .. line(x) :
       f[l] = IF x.rows[l].dir = dir THEN Append(f[l - 1], Pointed(x.rows, x.pos, l)) ELSE f[l - 1]

\* A row above the last one points at a job of its own.
LEMMA PointedJob ==
  ASSUME NEW rows, NEW pos, StackOK(rows, pos), pos \in [Line -> Nat], NEW l \in 1 .. Len(rows),
         pos[l - 1] < size - (l - 1)
  PROVE  Pointed(rows, pos, l) \in Job /\ Pointed(rows, pos, l) \in Jobs(rows[l])
<1>1. RowOK(rows[l], l - 1) /\ l - 1 \in 0 .. size - 1 /\ size \in Nat /\ Line = 0 .. size - 1
  BY StackFacts, MatrixSize
<1>2. pos[l - 1] + 1 \in 1 .. size - (l - 1)
  BY <1>1
<1> QED BY <1>1, <1>2, RowFacts DEF Pointed

\* The recursion that collects the jobs that were taken on one side has a solution.
LEMMA PartOf ==
  ASSUME NEW x, StackOK(x.rows, x.pos), x.pos \in [Line -> Nat], NEW dir
  PROVE  \E f : TakenOf(f, x, dir) /\ Part(x, dir) = f[line(x)]
<1> DEFINE n == line(x)
           P(l) == Pointed(x.rows, x.pos, l)
           g == [e \in (1 .. n) \X Seq(Job) |->
                   IF x.rows[e[1]].dir = dir THEN Append(e[2], P(e[1])) ELSE e[2]]
           step(f) == [l \in 0 .. n |->
                         IF l = 0 THEN <<>>
                         ELSE IF x.rows[l].dir = dir
                              THEN Append(f[l - 1], absolute(x.rows[l].jobs[x.pos[l - 1] + 1]))
                              ELSE f[l - 1]]
<1>1. n \in Nat /\ Len(x.rows) = n + 1 /\ n + 1 \in 1 .. size /\ size \in Nat
  <2>1. Len(x.rows) \in 1 .. size /\ size \in Nat
    BY StackFacts, MatrixSize
  <2> QED BY <2>1 DEF line
<1>2. \A l \in 1 .. n : P(l) \in Job
  <2> TAKE l \in 1 .. n
  <2> HIDE DEF n, P
  <2>1. l \in 1 .. Len(x.rows) - 1 /\ l \in 1 .. Len(x.rows)
    BY <1>1
  <2>2. x.pos[l - 1] < size - (l - 1)
    BY <2>1 DEF StackOK
  <2> QED BY <2>1, <2>2, PointedJob DEF P
<1>3. g \in [(1 .. n) \X Seq(Job) -> Seq(Job)]
  <2> HIDE DEF n, P
  <2> QED BY <1>2
<1>4. <<>> \in Seq(Job)
  OBVIOUS
<1>5. PICK f \in [0 .. n -> Seq(Job)] : Recurs(f, n, <<>>, g)
  <2> HIDE DEF g, n
  <2> QED BY <1>1, <1>3, <1>4, Recursive
<1>6. f = step(f)
  <2>1. ASSUME NEW l \in 0 .. n, l # 0
        PROVE  g[<<l, f[l - 1]>>] = IF x.rows[l].dir = dir
                              THEN Append(f[l - 1], absolute(x.rows[l].jobs[x.pos[l - 1] + 1]))
                              ELSE f[l - 1]
    <3>1. l \in 1 .. n /\ f[l - 1] \in Seq(Job)
      <4> HIDE DEF n
      <4> QED BY <1>1, <2>1
    <3>2. P(l) = absolute(x.rows[l].jobs[x.pos[l - 1] + 1])
      BY DEF Pointed
    <3> HIDE DEF n, P
    <3> QED BY <3>1, <3>2
  <2>2. step(f) = [l \in 0 .. n |-> IF l = 0 THEN <<>> ELSE g[<<l, f[l - 1]>>]]
    <3> HIDE DEF g, n
    <3> QED BY <2>1
  <2> QED BY <1>5, <2>2 DEF Recurs
<1>7. PICK h : h = step(h) /\ Part(x, dir) = h[n]
  BY <1>6 DEF Part
<1>8. \A l \in 0 .. n : h[l] = IF l = 0 THEN <<>>
                             ELSE IF x.rows[l].dir = dir THEN Append(h[l - 1], P(l)) ELSE h[l - 1]
  <2>1. \A l \in 0 .. n : P(l) = absolute(x.rows[l].jobs[x.pos[l - 1] + 1])
    BY DEF Pointed
  <2> HIDE DEF n, P
  <2> QED BY <1>7, <2>1
<1>9. \A l \in 0 .. n : l \in {i \in 0 .. n : h[i] \in Seq(Job)}
  <2> DEFINE S == {i \in 0 .. n : h[i] \in Seq(Job)}
  <2>1. 0 \in S
    <3>1. 0 \in 0 .. n
      BY <1>1
    <3>2. h[0] = <<>>
      <4> HIDE DEF n, P
      <4> QED BY <1>8, <3>1
    <3>3. h[0] \in Seq(Job)
      BY <1>4, <3>2
    <3> HIDE DEF n
    <3> QED BY <3>1, <3>3
  <2>2. ASSUME NEW l \in 0 .. n - 1, l \in S PROVE l + 1 \in S
    <3>1. l + 1 \in 1 .. n /\ l + 1 \in 0 .. n /\ (l + 1) - 1 = l /\ l + 1 # 0
      BY <1>1
    <3>2. h[l + 1] = IF x.rows[l + 1].dir = dir THEN Append(h[l], P(l + 1)) ELSE h[l]
      <4> HIDE DEF n, P
      <4> QED BY <1>8, <3>1
    <3>3. h[l] \in Seq(Job) /\ P(l + 1) \in Job
      BY <1>2, <2>2, <3>1
    <3>4. h[l + 1] \in Seq(Job)
      <4> HIDE DEF n, P, S
      <4> QED BY <3>2, <3>3
    <3> HIDE DEF n, P
    <3> QED BY <3>1, <3>4
  <2> HIDE DEF S, n
  <2> QED BY <1>1, <2>1, <2>2, UpTo DEF S
<1>10. TakenOf(h, x, dir)
  <2>1. h \in [0 .. n -> Seq(Job)]
    <3> HIDE DEF n
    <3> QED BY <1>7, <1>9
  <2>2. h[0] = <<>>
    BY <1>1, <1>8
  <2>3. ASSUME NEW l \in 1 .. n
        PROVE h[l] = IF x.rows[l].dir = dir THEN Append(h[l - 1], P(l)) ELSE h[l - 1]
    BY <1>1, <1>8
  <2> QED BY <2>1, <2>2, <2>3 DEF TakenOf
<1> QED BY <1>7, <1>10

\* A list turned round has the same jobs.
LEMMA ReversedList ==
  ASSUME NEW s, Distinct(s)
  PROVE  /\ Distinct(Reverse(s)) /\ Range(Reverse(s)) = Range(s) /\ Len(Reverse(s)) = Len(s)
         /\ \A i \in 1 .. Len(s) : Reverse(s)[i] = s[Len(s) + 1 - i]
         /\ DOMAIN Reverse(s) = 1 .. Len(s)
<1> DEFINE n == Len(s)
           t == Reverse(s)
<1>1. s \in Seq(Job) /\ n \in Nat /\ \A i, j \in 1 .. n : s[i] = s[j] => i = j
  BY DEF Distinct
<1>2. Range(s) = {s[i] : i \in 1 .. n}
  BY DistinctSize
<1>3. t = [i \in 1 .. n |-> s[(n - i) + 1]]
  BY DEF Reverse
<1> HIDE DEF n, t
<1>4. \A i \in 1 .. n : (n - i) + 1 \in 1 .. n /\ (n - i) + 1 = n + 1 - i
                        /\ (n - ((n - i) + 1)) + 1 = i
  BY <1>1
<1>5. t \in Seq(Job) /\ Len(t) = n /\ DOMAIN t = 1 .. n /\ \A i \in 1 .. n : t[i] = s[(n - i) + 1]
  <2>1. \A i \in 1 .. n : s[(n - i) + 1] \in Job
    BY <1>1, <1>4 DEF n
  <2> QED BY <1>1, <1>3, <2>1
<1>6. Range(t) = {t[i] : i \in 1 .. n}
  BY <1>5 DEF Range
<1>7. \A i, j \in 1 .. n : t[i] = t[j] => i = j
  <2> TAKE i, j \in 1 .. n
  <2> HAVE t[i] = t[j]
  <2>1. (n - i) + 1 = (n - j) + 1
    BY <1>1, <1>4, <1>5
  <2> QED BY <1>1, <2>1
<1>8. Range(t) = Range(s)
  <2>1. \A i \in 1 .. n : t[i] \in Range(s)
    BY <1>2, <1>4, <1>5
  <2>2. \A i \in 1 .. n : s[i] \in Range(t)
    <3> TAKE i \in 1 .. n
    <3>1. t[(n - i) + 1] = s[i] /\ (n - i) + 1 \in 1 .. n
      BY <1>4, <1>5
    <3> QED BY <1>6, <3>1
  <2> QED BY <1>2, <1>6, <2>1, <2>2
<1> QED BY <1>4, <1>5, <1>7, <1>8 DEF Distinct, n, t

\* What a matrix decodes to: the lists of both directions share no job and leave
\* those of the last row open.
LEMMA SplitsOf ==
  ASSUME NEW x, StackOK(x.rows, x.pos), x.pos \in [Line -> Nat]
  PROVE  /\ Splits(front(x), open(x), back(x))
         /\ open(x) = Jobs(x.rows[Len(x.rows)])
         /\ Cardinality(open(x)) = size - line(x)
<1> DEFINE n == line(x)
           P(l) == Pointed(x.rows, x.pos, l)
<1>1. n \in Nat /\ Len(x.rows) = n + 1 /\ n + 1 \in 1 .. size /\ size \in Nat
  <2>1. Len(x.rows) \in 1 .. size /\ size \in Nat
    BY StackFacts, MatrixSize
  <2> QED BY <2>1 DEF line
<1>2. PICK f : TakenOf(f, x, FRONT) /\ Part(x, FRONT) = f[n]
  BY PartOf
<1>3. PICK b : TakenOf(b, x, BACK) /\ Part(x, BACK) = b[n]
  BY PartOf
<1>4. \A l \in 1 .. n : /\ x.rows[l].dir \in {FRONT, BACK}
                        /\ P(l) \in Job /\ P(l) \in Jobs(x.rows[l])
                        /\ Jobs(x.rows[l + 1]) = Jobs(x.rows[l]) \ {P(l)}
  <2> TAKE l \in 1 .. n
  <2> HIDE DEF n
  <2>1. l \in 1 .. Len(x.rows) - 1 /\ l \in 1 .. Len(x.rows)
    BY <1>1
  <2>2. x.pos[l - 1] < size - (l - 1) /\ Jobs(x.rows[l + 1]) = Jobs(x.rows[l]) \ {P(l)}
    BY <2>1 DEF StackOK
  <2>3. P(l) \in Job /\ P(l) \in Jobs(x.rows[l])
    BY <2>1, <2>2, PointedJob
  <2>4. x.rows[l].dir \in {FRONT, BACK}
    BY <2>1, StackFacts DEF RowOK
  <2> QED BY <2>2, <2>3, <2>4
<1>5. Jobs(x.rows[1]) = Job
  BY DEF StackOK
<1>6. /\ f \in [0 .. n -> Seq(Job)] /\ f[0] = <<>> /\ b \in [0 .. n -> Seq(Job)] /\ b[0] = <<>>
      /\ \A l \in 1 .. n : /\ f[l] = IF x.rows[l].dir = FRONT THEN Append(f[l - 1], P(l)) ELSE f[l - 1]
                           /\ b[l] = IF x.rows[l].dir = BACK THEN Append(b[l - 1], P(l)) ELSE b[l - 1]
  BY <1>2, <1>3 DEF TakenOf
<1> DEFINE Good(l) == Splits(f[l], Jobs(x.rows[l + 1]), b[l])
           S == {l \in 0 .. n : Good(l)}
<1>7. 0 \in S
  <2>1. Distinct(<<>>) /\ Range(<<>>) = {}
    BY DEF Distinct, Range
  <2>2. Jobs(x.rows[0 + 1]) = Job
    BY <1>5
  <2>3. Good(0)
    <3> HIDE DEF n, P
    <3> QED BY <1>6, <2>1, <2>2 DEF Splits
  <2> HIDE DEF n, P, Good
  <2> QED BY <1>1, <2>3
<1>8. ASSUME NEW l \in 0 .. n - 1, l \in S PROVE l + 1 \in S
  <2>1. l + 1 \in 1 .. n /\ l + 1 \in 0 .. n /\ (l + 1) - 1 = l
    BY <1>1
  <2> DEFINE j == P(l + 1)
             O == Jobs(x.rows[l + 1])
             R == Jobs(x.rows[(l + 1) + 1])
  <2>2. Splits(f[l], O, b[l])
    BY <1>8
  <2>3. j \in O /\ R = O \ {j} /\ x.rows[l + 1].dir \in {FRONT, BACK}
    BY <1>4, <2>1
  <2>4. /\ f[l + 1] = IF x.rows[l + 1].dir = FRONT THEN Append(f[l], j) ELSE f[l]
        /\ b[l + 1] = IF x.rows[l + 1].dir = BACK THEN Append(b[l], j) ELSE b[l]
    BY <1>6, <2>1
  <2>5. Splits(f[l], O \ {j}, <<j>> \o b[l]) /\ Splits(Append(f[l], j), O \ {j}, b[l])
    <3> HIDE DEF O, R, j
    <3> QED BY <2>2, <2>3, ChildSplits
  <2>6. Splits(f[l], R, Append(b[l], j)) /\ Splits(Append(f[l], j), R, b[l])
    <3>1. Distinct(<<j>> \o b[l]) /\ Distinct(b[l]) /\ b[l] \in Seq(Job) /\ j \in Job
      <4>1. Distinct(<<j>> \o b[l]) /\ Distinct(b[l])
        BY <2>2, <2>5 DEF Splits
      <4> HIDE DEF P
      <4>2. j \in Job
        BY <1>4, <2>1
      <4> HIDE DEF j
      <4> QED BY <4>1, <4>2 DEF Distinct
    <3> DEFINE s == <<j>> \o b[l]
               t == Append(b[l], j)
               m == Len(b[l])
    <3>2. /\ m \in Nat /\ t \in Seq(Job) /\ Len(t) = m + 1 /\ t[m + 1] = j
          /\ \A i \in 1 .. m : t[i] = b[l][i]
      BY <3>1
    <3>3. Range(s) = Range(b[l]) \cup {j} /\ j \notin Range(b[l])
      <4>1. j \notin Range(b[l])
        BY <2>2, <2>3 DEF Splits
      <4>2. s \in Seq(Job) /\ Len(s) = m + 1 /\ s[1] = j /\ \A i \in 1 .. m : s[i + 1] = b[l][i]
        BY <3>1
      <4>3. Range(s) = {s[i] : i \in 1 .. m + 1} /\ Range(b[l]) = {b[l][i] : i \in 1 .. m}
        BY <3>1, <4>2, DistinctSize
      <4> HIDE DEF s, t, j
      <4>4. \A i \in 1 .. m + 1 : s[i] \in Range(b[l]) \cup {j}
        <5> TAKE i \in 1 .. m + 1
        <5>1. CASE i = 1
          BY <4>2, <5>1
        <5>2. CASE i # 1
          <6> HIDE DEF m
          <6>1. i - 1 \in 1 .. m /\ (i - 1) + 1 = i
            BY <3>2, <5>2
          <6>2. s[i] = b[l][i - 1]
            BY <4>2, <6>1
          <6> QED BY <4>3, <6>1, <6>2
        <5> QED BY <5>1, <5>2
      <4>5. \A i \in 1 .. m : b[l][i] \in Range(s)
        <5> TAKE i \in 1 .. m
        <5> HIDE DEF m
        <5>1. i + 1 \in 1 .. m + 1
          BY <3>2
        <5> QED BY <4>2, <4>3, <5>1
      <4>6. j \in Range(s)
        <5>1. 1 \in 1 .. m + 1
          BY <3>2
        <5> QED BY <4>2, <4>3, <5>1
      <4> QED BY <4>1, <4>3, <4>4, <4>5, <4>6
    <3>4. Distinct(t) /\ Range(t) = Range(b[l]) \cup {j}
      <4>1. Range(t) = {t[i] : i \in 1 .. m + 1} /\ Range(b[l]) = {b[l][i] : i \in 1 .. m}
        <5>1. DOMAIN t = 1 .. m + 1
          BY <3>2
        <5> HIDE DEF t, m
        <5>2. Range(t) = {t[i] : i \in 1 .. m + 1}
          BY <5>1 DEF Range
        <5> QED BY <3>1, <5>2, DistinctSize DEF m
      <4>2. \A i \in 1 .. m + 1 : i = m + 1 \/ i \in 1 .. m
        BY <3>2
      <4>3. \A i, k \in 1 .. m : b[l][i] = b[l][k] => i = k
        BY <3>1 DEF Distinct
      <4> HIDE DEF t, j, m
      <4>4. \A i \in 1 .. m : t[i] \in Range(b[l]) /\ t[i] # j
        BY <3>2, <3>3, <4>1
      <4>5. \A i, k \in 1 .. m + 1 : t[i] = t[k] => i = k
        BY <3>2, <4>2, <4>3, <4>4
      <4>6. \A i \in 1 .. m : b[l][i] \in Range(t)
        BY <3>2, <4>1
      <4>7. j \in Range(t)
        BY <3>2, <4>1
      <4>8. \A i \in 1 .. m + 1 : t[i] \in Range(b[l]) \cup {j}
        BY <3>2, <4>2, <4>4
      <4>9. Range(t) = Range(b[l]) \cup {j}
        BY <4>1, <4>6, <4>7, <4>8
      <4> QED BY <3>2, <4>5, <4>9 DEF Distinct
    <3> HIDE DEF s, t, j, O, R
    <3> QED BY <2>3, <2>5, <3>3, <3>4 DEF Splits, s, t
  <2>7. Good(l + 1)
    <3>1. CASE x.rows[l + 1].dir = FRONT
      <4>1. x.rows[l + 1].dir # BACK
        BY <3>1, MatrixSize
      <4> QED BY <2>4, <2>6, <3>1, <4>1
    <3>2. CASE x.rows[l + 1].dir = BACK
      <4>1. x.rows[l + 1].dir # FRONT
        BY <3>2, MatrixSize
      <4> QED BY <2>4, <2>6, <3>2, <4>1
    <3> QED BY <2>3, <3>1, <3>2
  <2> HIDE DEF Good, n
  <2> QED BY <2>1, <2>7
<1>9. n \in S
  <2> HIDE DEF S, n
  <2>1. \A k \in 0 .. n : k \in S
    BY <1>1, <1>7, <1>8, UpTo
  <2> QED BY <1>1, <2>1
<1>10. Splits(f[n], Jobs(x.rows[n + 1]), b[n])
  BY <1>9
<1>11. open(x) = Jobs(x.rows[Len(x.rows)])
  <2> DEFINE r == x.rows[Len(x.rows)]
  <2>1. Last(x.rows) = r /\ DOMAIN r.jobs = 1 .. Len(r.jobs)
    <3>1. Last(x.rows) = r /\ RowOK(r, Len(x.rows) - 1)
      BY <1>1, StackFacts
    <3>2. r.jobs \in Seq(Int)
      BY <3>1 DEF RowOK
    <3> QED BY <3>1, <3>2
  <2>2. Range(r.jobs) = {r.jobs[i] : i \in 1 .. Len(r.jobs)}
    BY <2>1 DEF Range
  <2>3. open(x) = {absolute(j) : j \in Range(r.jobs)}
    BY <2>1 DEF open
  <2> HIDE DEF r
  <2>4. open(x) = {absolute(r.jobs[i]) : i \in 1 .. Len(r.jobs)}
    BY <2>2, <2>3
  <2> QED BY <2>4 DEF Jobs, r
<1>12. front(x) = f[n] /\ back(x) = Reverse(b[n])
  BY <1>2, <1>3 DEF front, back
<1>13. Splits(front(x), open(x), back(x))
  <2>1. Len(x.rows) = n + 1
    BY <1>1
  <2>2. Distinct(Reverse(b[n])) /\ Range(Reverse(b[n])) = Range(b[n])
    BY <1>10, ReversedList DEF Splits
  <2> HIDE DEF n
  <2> QED BY <1>10, <1>11, <1>12, <2>1, <2>2 DEF Splits
<1>14. Cardinality(open(x)) = size - line(x)
  <2>1. RowOK(x.rows[Len(x.rows)], n) /\ n \in 0 .. size - 1
    <3>1. Len(x.rows) - 1 = n /\ Len(x.rows) \in 1 .. Len(x.rows)
      BY <1>1
    <3> QED BY <3>1, StackFacts
  <2> QED BY <1>11, <2>1, RowSize
<1> QED BY <1>11, <1>13, <1>14

-----------------------------------------------------------------------------
(* Positions that move through a matrix *)

\* An IVM on its way to the next open cell: in the last row its position may be
\* behind the end of the row.
Moving(x) ==
  /\ x = [state |-> x.state, pos |-> x.pos, end |-> x.end, rows |-> x.rows]
  /\ x.pos \in [Line -> Nat] /\ Inside(x.end)
  /\ \A i \in Line : x.pos[i] < size - i \/ (i = line(x) /\ x.pos[i] = size - i)
  /\ StackOK(x.rows, x.pos) /\ LeafClosed(x)

\* Lines and rows.
LEMMA Lines ==
  ASSUME NEW x, StackOK(x.rows, x.pos)
  PROVE  /\ line(x) \in Line /\ line(x) \in Nat /\ Len(x.rows) = line(x) + 1 /\ line(x) + 1 \in 1 .. size
         /\ line(x) + 1 \in 1 .. Len(x.rows)
         /\ line(x) <= size - 1 /\ x.rows \in Seq(Row) /\ Last(x.rows) = x.rows[line(x) + 1]
         /\ RowOK(x.rows[line(x) + 1], line(x)) /\ x.rows[line(x) + 1] \in Row
         /\ x.rows[line(x) + 1].jobs \in Seq(Int) /\ x.rows[line(x) + 1].dir \in {FRONT, BACK}
         /\ Len(x.rows[line(x) + 1].jobs) = size - line(x)
<1>1. /\ Len(x.rows) \in 1 .. size /\ size \in Nat /\ Line = 0 .. size - 1 /\ x.rows \in Seq(Row)
      /\ Last(x.rows) = x.rows[Len(x.rows)] /\ RowOK(x.rows[Len(x.rows)], Len(x.rows) - 1)
  BY StackFacts, MatrixSize
<1>2. line(x) = Len(x.rows) - 1
  BY DEF line
<1>3. /\ line(x) \in Line /\ line(x) \in Nat /\ Len(x.rows) = line(x) + 1 /\ line(x) + 1 \in 1 .. size
      /\ line(x) <= size - 1 /\ line(x) + 1 \in 1 .. Len(x.rows)
  BY <1>1, <1>2
<1>4. RowOK(x.rows[line(x) + 1], line(x))
  BY <1>1, <1>2, <1>3
<1> QED BY <1>1, <1>3, <1>4 DEF RowOK, Row

\* On to the next cell of the row.
LEMMA MovedRight ==
  ASSUME NEW x, Moving(x), ~AtEnd(x)
  PROVE  Moving(goRight(x)) /\ goRight(x).state = x.state
<1> DEFINE n == line(x)
           p == [x.pos EXCEPT ![n] = @ + 1]
           y == goRight(x)
<1>1. /\ x = [state |-> x.state, pos |-> x.pos, end |-> x.end, rows |-> x.rows]
      /\ x.pos \in [Line -> Nat] /\ Inside(x.end) /\ StackOK(x.rows, x.pos) /\ LeafClosed(x)
      /\ \A i \in Line : x.pos[i] < size - i \/ (i = line(x) /\ x.pos[i] = size - i)
  BY DEF Moving
<1>2. y = [state |-> x.state, pos |-> p, end |-> x.end, rows |-> x.rows]
  BY <1>1 DEF goRight
<1>3. /\ n \in Line /\ n \in Nat /\ Len(x.rows) = n + 1 /\ size \in Nat /\ Line = 0 .. size - 1
  BY <1>1, Lines, MatrixSize
<1>4. y.state = x.state /\ y.pos = p /\ y.end = x.end /\ y.rows = x.rows /\ line(y) = n
  BY <1>2 DEF line
<1>5. x.pos[n] < size - n
  BY <1>1, <1>3 DEF AtEnd
<1> HIDE DEF n
<1>6. /\ p \in [Line -> Nat] /\ p[n] = x.pos[n] + 1
      /\ \A i \in Line : i # n => p[i] = x.pos[i]
  BY <1>1, <1>3
<1> HIDE DEF p, y
<1>7. \A i \in Line : p[i] < size - i \/ (i = n /\ p[i] = size - i)
  <2> TAKE i \in Line
  <2>1. CASE i = n
    BY <1>1, <1>3, <1>5, <1>6, <2>1
  <2>2. CASE i # n
    BY <1>1, <1>6, <2>2 DEF n
  <2> QED BY <2>1, <2>2
<1>8. StackOK(x.rows, p)
  <2>1. /\ x.rows \in Seq(Row) /\ n + 1 \in 1 .. Len(x.rows)
        /\ RowOK(x.rows[n + 1], n)
    BY <1>1, Lines DEF n
  <2>2. \A l \in 0 .. (n + 1) - 2 : p[l] = x.pos[l]
    BY <1>3, <1>6
  <2>3. (n + 1) - 1 = n
    BY <1>3
  <2> QED BY <1>1, <1>3, <2>1, <2>2, <2>3, StackCut
<1>9. LeafClosed(y)
  BY <1>1, <1>4 DEF LeafClosed
<1> QED BY <1>1, <1>2, <1>4, <1>6, <1>7, <1>8, <1>9 DEF Moving, y

\* Back to the row above, where the cell is done.
LEMMA MovedUp ==
  ASSUME NEW x, Moving(x), line(x) # 0
  PROVE  Moving(goUp(x)) /\ goUp(x).state = x.state
<1> DEFINE n == line(x)
           p == [x.pos EXCEPT ![n] = 0]
           k == x.pos[n - 1] + 1
           rs == [Front(x.rows) EXCEPT ![n].jobs[k] = negative(@)]
           r == x.rows[n]
           t == [r EXCEPT !.jobs[k] = negative(@)]
           y == goUp(x)
<1>1. /\ x = [state |-> x.state, pos |-> x.pos, end |-> x.end, rows |-> x.rows]
      /\ x.pos \in [Line -> Nat] /\ Inside(x.end) /\ StackOK(x.rows, x.pos) /\ LeafClosed(x)
      /\ \A i \in Line : x.pos[i] < size - i \/ (i = line(x) /\ x.pos[i] = size - i)
  BY DEF Moving
<1>2. y = [state |-> x.state, pos |-> p, end |-> x.end, rows |-> rs]
  <2>1. y = [x EXCEPT !.pos = p, !.rows = rs]
    BY DEF goUp
  <2> HIDE DEF p, rs, y
  <2> QED BY <1>1, <2>1
<1>3. /\ n \in Line /\ n \in Nat /\ n >= 1 /\ Len(x.rows) = n + 1 /\ size \in Nat /\ Line = 0 .. size - 1
      /\ x.rows \in Seq(Row) /\ n - 1 \in Line /\ n \in 1 .. Len(x.rows) /\ n <= size - 1
  <2>1. /\ n \in Line /\ n \in Nat /\ Len(x.rows) = n + 1 /\ size \in Nat /\ Line = 0 .. size - 1
        /\ x.rows \in Seq(Row)
    BY <1>1, Lines, MatrixSize
  <2> HIDE DEF n
  <2> QED BY <2>1 DEF n
<1>4. RowOK(r, n - 1) /\ r \in Row /\ r.jobs \in Seq(Int) /\ Len(r.jobs) = size - (n - 1)
  <2>1. RowOK(r, n - 1)
    BY <1>1, <1>3, StackFacts
  <2> QED BY <2>1 DEF RowOK, Row
<1>5. k \in 1 .. size - (n - 1) /\ size - (n - 1) \in Nat
  <2>1. x.pos[n - 1] < size - (n - 1) /\ x.pos[n - 1] \in Nat
    <3>1. n - 1 # line(x) /\ n - 1 \in Line
      BY <1>3
    <3> QED BY <1>1, <1>3, <3>1
  <2> HIDE DEF n
  <2> QED BY <1>3, <2>1
<1>6. t \in Row /\ t.dir = r.dir /\ Len(t.jobs) = size - (n - 1)
      /\ \A i \in 1 .. size - (n - 1) : absolute(t.jobs[i]) = absolute(r.jobs[i])
  <2> DEFINE c == size - (n - 1)
             q == r.jobs
             v == [q EXCEPT ![k] = negative(@)]
  <2>1. t = [dir |-> r.dir, jobs |-> v]
    BY <1>4 DEF Row
  <2>2. q \in Seq(Int) /\ Len(q) = c /\ k \in 1 .. c /\ c \in Nat /\ r.dir \in {FRONT, BACK}
    BY <1>4, <1>5 DEF Row
  <2> HIDE DEF q, c, k
  <2>3. negative(q[k]) \in Int /\ absolute(negative(q[k])) = absolute(q[k])
    <3>1. q[k] \in Int
      BY <2>2
    <3> QED BY <3>1, Flags
  <2>4. v \in Seq(Int) /\ Len(v) = c /\ v[k] = negative(q[k]) /\ \A i \in 1 .. c : i # k => v[i] = q[i]
    BY <2>2, <2>3
  <2> HIDE DEF v
  <2>5. \A i \in 1 .. c : absolute(v[i]) = absolute(q[i])
    BY <2>3, <2>4
  <2>6. t.jobs = v /\ t.dir = r.dir /\ t \in Row
    <3> HIDE DEF t
    <3> QED BY <2>1, <2>2, <2>4 DEF Row
  <2> HIDE DEF t
  <2> QED BY <2>4, <2>5, <2>6 DEF q, c
<1>7. /\ rs \in Seq(Row) /\ Len(rs) = n /\ rs[n] = t /\ \A i \in 1 .. n - 1 : rs[i] = x.rows[i]
  <2> DEFINE a == Front(x.rows)
  <2>1. a = SubSeq(x.rows, 1, n)
    BY <1>3 DEF Front
  <2> HIDE DEF n
  <2>2. n \in 0 .. Len(x.rows)
    BY <1>3
  <2>3. a \in Seq(Row) /\ Len(a) = n /\ DOMAIN a = 1 .. n /\ \A i \in 1 .. n : a[i] = x.rows[i]
    BY <1>3, <2>1, <2>2, FrontElements
  <2>4. rs = [a EXCEPT ![n] = t]
    <3>1. a[n] = r
      BY <1>3, <2>3
    <3>2. rs = [a EXCEPT ![n] = [a[n] EXCEPT !.jobs[k] = negative(@)]]
      OBVIOUS
    <3> HIDE DEF a, r, k, rs
    <3> QED BY <3>1, <3>2
  <2> HIDE DEF a, r, k, t, rs
  <2> QED BY <1>3, <1>6, <2>3, <2>4
<1>8. y.state = x.state /\ y.pos = p /\ y.end = x.end /\ y.rows = rs /\ line(y) = n - 1
  <2> HIDE DEF rs, p
  <2>1. y.state = x.state /\ y.pos = p /\ y.end = x.end /\ y.rows = rs
    BY <1>2
  <2> QED BY <1>7, <2>1 DEF line
<1>9. /\ p \in [Line -> Nat] /\ p[n] = 0
      /\ \A i \in Line : i # n => p[i] = x.pos[i]
  <2> HIDE DEF n
  <2> QED BY <1>1, <1>3
<1>10. RowOK(t, n - 1) /\ Jobs(t) = Jobs(r)
  <2>1. n - 1 \in 0 .. size - 1
    BY <1>3
  <2> HIDE DEF t, r, n
  <2> QED BY <1>4, <1>6, <2>1, RowFlagged
<1> HIDE DEF n, p, y, rs, t, k
<1>11. \A i \in Line : p[i] < size - i \/ (i = n - 1 /\ p[i] = size - i)
  <2> TAKE i \in Line
  <2>1. CASE i = n
    BY <1>3, <1>9, <2>1
  <2>2. CASE i # n
    BY <1>1, <1>9, <2>2 DEF n
  <2> QED BY <2>1, <2>2
<1>12. StackOK(rs, p)
  <2>1. \A l \in 0 .. n - 2 : p[l] = x.pos[l]
    BY <1>3, <1>9
  <2>2. RowOK(rs[n], n - 1) /\ Jobs(rs[n]) = Jobs(x.rows[n])
    BY <1>7, <1>10
  <2>3. n \in 1 .. Len(x.rows)
    BY <1>3
  <2> QED BY <1>1, <1>7, <2>1, <2>2, <2>3, StackCut
<1>13. LeafClosed(y)
  BY <1>3, <1>7, <1>8 DEF LeafClosed
<1>14. y = [state |-> y.state, pos |-> y.pos, end |-> y.end, rows |-> y.rows]
  BY <1>2, <1>8
<1> QED BY <1>1, <1>8, <1>9, <1>11, <1>12, <1>13, <1>14 DEF Moving, y

-----------------------------------------------------------------------------
(* Selecting and branching *)

\* The walk to the next open cell.
LEMMA Walked ==
  ASSUME NEW x, Moving(x), NEW l
  PROVE  Moving(Advance(x, l)) /\ Advance(x, l).state = x.state
<1> DEFINE Stops(y) == y.pos[l] > y.end[l] \/ AtOpen(y) \/ (AtEnd(y) /\ line(y) = 0)
           next(y) == IF Stops(y) THEN y ELSE IF AtEnd(y) THEN goUp(y) ELSE goRight(y)
           n == Turns
           step(f) == [k \in 0 .. n |->
                         IF k = 0 THEN x
                         ELSE LET y == f[k - 1] IN
                              IF Stops(y) THEN y ELSE IF AtEnd(y) THEN goUp(y) ELSE goRight(y)]
           D == {y \in [state : {x.state}, pos : [Line -> Nat], end : [Line -> Nat], rows : Seq(Row)] :
                   Moving(y)}
           g == [e \in (1 .. n) \X D |-> next(e[2])]
<1>1. n \in Nat
  BY MatrixSize DEF Turns
<1>2. \A y : y \in D <=> Moving(y) /\ y.state = x.state
  <2> TAKE y
  <2>1. y \in D => Moving(y) /\ y.state = x.state
    OBVIOUS
  <2>2. ASSUME Moving(y), y.state = x.state PROVE y \in D
    <3>1. /\ y = [state |-> y.state, pos |-> y.pos, end |-> y.end, rows |-> y.rows]
          /\ y.pos \in [Line -> Nat] /\ y.end \in [Line -> Nat] /\ StackOK(y.rows, y.pos)
      BY <2>2 DEF Moving, Inside
    <3>2. y.rows \in Seq(Row)
      BY <3>1, StackFacts
    <3>3. y \in [state : {x.state}, pos : [Line -> Nat], end : [Line -> Nat], rows : Seq(Row)]
      BY <2>2, <3>1, <3>2
    <3> QED BY <2>2, <3>3
  <2> HIDE DEF D
  <2> QED BY <2>1, <2>2
<1> HIDE DEF D
<1>3. \A y \in D : next(y) \in D
  <2> TAKE y \in D
  <2>1. Moving(y) /\ y.state = x.state
    BY <1>2
  <2>2. CASE Stops(y)
    BY <2>2
  <2>3. CASE ~Stops(y) /\ AtEnd(y)
    <3>1. line(y) # 0
      BY <2>3
    <3>2. goUp(y) \in D
      BY <1>2, <2>1, <3>1, MovedUp
    <3> QED BY <2>3, <3>2
  <2>4. CASE ~Stops(y) /\ ~AtEnd(y)
    <3>1. goRight(y) \in D
      BY <1>2, <2>1, <2>4, MovedRight
    <3> QED BY <2>4, <3>1
  <2> QED BY <2>2, <2>3, <2>4
<1>4. x \in D
  BY <1>2
<1>5. g \in [(1 .. n) \X D -> D]
  <2> HIDE DEF n, next
  <2> QED BY <1>3
<1>6. PICK f \in [0 .. n -> D] : Recurs(f, n, x, g)
  <2> HIDE DEF g, n
  <2> QED BY <1>1, <1>4, <1>5, Recursive
<1>7. f = step(f)
  <2>1. ASSUME NEW k \in 0 .. n, k # 0
        PROVE  g[<<k, f[k - 1]>>] = next(f[k - 1])
    <3>1. k \in 1 .. n /\ f[k - 1] \in D
      <4> HIDE DEF n
      <4> QED BY <1>1, <2>1
    <3> HIDE DEF n, next
    <3> QED BY <3>1
  <2>2. step(f) = [k \in 0 .. n |-> IF k = 0 THEN x ELSE g[<<k, f[k - 1]>>]]
    <3>1. step(f) = [k \in 0 .. n |-> IF k = 0 THEN x ELSE next(f[k - 1])]
      OBVIOUS
    <3> HIDE DEF g, n, next, step
    <3> QED BY <2>1, <3>1
  <2> QED BY <1>6, <2>2 DEF Recurs
<1>8. PICK h : h = step(h) /\ Advance(x, l) = h[n]
  BY <1>7 DEF Advance
<1>9. \A k \in 0 .. n : h[k] = IF k = 0 THEN x ELSE next(h[k - 1])
  <2>1. step(h) = [k \in 0 .. n |-> IF k = 0 THEN x ELSE next(h[k - 1])]
    OBVIOUS
  <2> HIDE DEF n, next, step
  <2> QED BY <1>8, <2>1
<1>10. \A k \in 0 .. n : k \in {i \in 0 .. n : h[i] \in D}
  <2> DEFINE S == {i \in 0 .. n : h[i] \in D}
  <2>1. 0 \in S
    <3>1. 0 \in 0 .. n
      BY <1>1
    <3>2. h[0] = x
      <4> HIDE DEF n, next
      <4> QED BY <1>9, <3>1
    <3> HIDE DEF n
    <3> QED BY <1>4, <3>1, <3>2
  <2>2. ASSUME NEW k \in 0 .. n - 1, k \in S PROVE k + 1 \in S
    <3>1. k + 1 \in 0 .. n /\ (k + 1) - 1 = k /\ k + 1 # 0
      BY <1>1
    <3>2. h[k + 1] = next(h[k])
      <4> HIDE DEF n, next
      <4> QED BY <1>9, <3>1
    <3>3. h[k] \in D
      BY <2>2
    <3> HIDE DEF n, next
    <3> QED BY <1>3, <3>1, <3>2, <3>3
  <2> HIDE DEF S, n
  <2> QED BY <1>1, <2>1, <2>2, UpTo DEF S
<1>11. h[n] \in D
  <2>1. n \in 0 .. n
    BY <1>1
  <2> HIDE DEF n
  <2> QED BY <1>10, <2>1
<1> QED BY <1>2, <1>8, <1>11

\* An IVM with work can move.
LEMMA MovesAtNode ==
  ASSUME NEW x, NodeOK(x), LeafClosed(x)
  PROVE  Moving(x)
  BY DEF Moving, NodeOK, Inside

\* An IVM that can be branched at: its cell is open and not in the last line.
Open(x) == NodeOK(x) /\ LeafClosed(x) /\ Cell(x) >= 0 /\ line(x) < size - 1 /\ x.state = 1

\* exploreStep stops at an open cell that is not a leaf, or without work.
LEMMA Explored ==
  ASSUME NEW x, NodeOK(x), LeafClosed(x), x.state = 1
  PROVE  exploreStep(x).state = 0 \/ Open(exploreStep(x))
<1>1. CASE x.pos = x.end
  <2>1. exploreStep(x) = [x EXCEPT !.state = 0]
    BY <1>1 DEF exploreStep
  <2>2. x = [state |-> x.state, pos |-> x.pos, end |-> x.end, rows |-> x.rows]
    BY DEF NodeOK
  <2>3. exploreStep(x) = [state |-> 0, pos |-> x.pos, end |-> x.end, rows |-> x.rows]
    BY <2>1, <2>2
  <2> QED BY <2>3
<1>2. CASE x.pos # x.end
  <2> DEFINE l == Min({i \in Line : x.pos[i] # x.end[i]})
             y == Advance(x, l)
             b == y.pos[l] <= y.end[l] /\ AtOpen(y) /\ beforeEndPart(y, l)
             z == exploreStep(x)
  <2>1. z = [y EXCEPT !.state = IF b THEN 1 ELSE 0]
    BY <1>2 DEF exploreStep
  <2> HIDE DEF l
  <2>2. Moving(y) /\ y.state = 1
    BY MovesAtNode, Walked
  <2> HIDE DEF y
  <2>3. y = [state |-> y.state, pos |-> y.pos, end |-> y.end, rows |-> y.rows]
    BY <2>2 DEF Moving
  <2>4. CASE ~b
    <3>1. z = [state |-> 0, pos |-> y.pos, end |-> y.end, rows |-> y.rows]
      <4> HIDE DEF b, z
      <4> QED BY <2>1, <2>3, <2>4
    <3> QED BY <3>1
  <2>5. CASE b
    <3>1. z = y
      <4> HIDE DEF z
      <4>1. z = [y EXCEPT !.state = 1]
        BY <2>1, <2>5
      <4> QED BY <2>2, <2>3, <4>1
    <3>2. AtOpen(y)
      BY <2>5
    <3>3. y.pos[line(y)] < size - line(y) /\ Cell(y) >= 0
      <4>1. y.pos[line(y)] \in Nat /\ size - line(y) \in Int
        BY <2>2, Lines, MatrixSize DEF Moving
      <4> QED BY <3>2, <4>1 DEF AtOpen, AtEnd
    <3>4. NodeOK(y)
      <4>1. y.pos \in [Line -> Nat] /\ \A i \in Line : y.pos[i] < size - i
        BY <2>2, <3>3 DEF Moving
      <4> QED BY <2>2, <4>1 DEF NodeOK, Moving, Inside
    <3>5. line(y) < size - 1
      <4> SUFFICES ASSUME line(y) >= size - 1 PROVE FALSE
        BY <2>2, Lines, MatrixSize DEF Moving
      <4>1. line(y) = size - 1 /\ Len(y.rows) = size /\ line(y) \in Nat /\ line(y) + 1 = size
            /\ line(y) \in Line
        BY <2>2, Lines, MatrixSize DEF Moving
      <4>2. y.pos[line(y)] = 0
        <5>1. y.pos[line(y)] \in Nat
          BY <2>2, <4>1 DEF Moving
        <5>2. y.pos[line(y)] < size - line(y) /\ line(y) = size - 1 /\ size \in Nat
          BY <3>3, <4>1, MatrixSize
        <5> QED BY <5>1, <5>2
      <4>3. Cell(y) = y.rows[size].jobs[1]
        BY <4>1, <4>2 DEF Cell
      <4>4. y.rows[size].jobs[1] < 0 /\ y.rows[size].jobs[1] \in Int
        <5>1. LeafClosed(y) /\ StackOK(y.rows, y.pos)
          BY <2>2 DEF Moving
        <5>2. y.rows[size].jobs \in Seq(Int) /\ Len(y.rows[size].jobs) = 1
          <6>1. /\ y.rows[line(y) + 1].jobs \in Seq(Int)
                /\ Len(y.rows[line(y) + 1].jobs) = size - line(y)
            BY <5>1, Lines
          <6>2. size - line(y) = 1
            BY <4>1, MatrixSize
          <6> QED BY <4>1, <6>1, <6>2
        <5> QED BY <4>1, <5>1, <5>2 DEF LeafClosed
      <4> QED BY <3>3, <4>3, <4>4
    <3>6. LeafClosed(y)
      BY <2>2 DEF Moving
    <3> QED BY <2>2, <3>1, <3>3, <3>4, <3>5, <3>6 DEF Open
  <2> QED BY <2>4, <2>5
<1> QED BY <1>1, <1>2

\* initStep goes down the matrix or has found the node.
LEMMA Prepared ==
  ASSUME NEW x, NodeOK(x), LeafClosed(x), x.state = -1
  PROVE  NodeOK(initStep(x)) /\ LeafClosed(initStep(x))
<1> DEFINE y == initStep(x)
           n == line(x)
<1>1. /\ x = [state |-> x.state, pos |-> x.pos, end |-> x.end, rows |-> x.rows]
      /\ Inside(x.pos) /\ Inside(x.end) /\ StackOK(x.rows, x.pos)
      /\ x.pos \in [Line -> Nat] /\ \A i \in Line : x.pos[i] < size - i
  BY DEF NodeOK, Inside
<1>2. /\ n \in Line /\ n \in Nat /\ Len(x.rows) = n + 1 /\ size \in Nat /\ Line = 0 .. size - 1
      /\ x.rows \in Seq(Row) /\ n + 1 \in 1 .. Len(x.rows) /\ RowOK(x.rows[n + 1], n) /\ (n + 1) - 1 = n
  BY <1>1, Lines, MatrixSize
<1>3. CASE Cell(x) < 0
  <2> DEFINE p == [l \in Line |-> IF l > n THEN 0 ELSE x.pos[l]]
  <2>1. y = [state |-> 1, pos |-> p, end |-> x.end, rows |-> x.rows]
    BY <1>1, <1>3 DEF initStep
  <2>2. Inside(p) /\ \A l \in 0 .. n : p[l] = x.pos[l]
    <3> HIDE DEF n
    <3>1. \A l \in Line : p[l] = (IF l > n THEN 0 ELSE x.pos[l])
      OBVIOUS
    <3>2. \A l \in Line : p[l] \in Nat /\ p[l] < size - l
      <4> TAKE l \in Line
      <4>1. l \in 0 .. size - 1 /\ size \in Nat
        BY <1>2
      <4>2. x.pos[l] \in Nat /\ x.pos[l] < size - l
        BY <1>1
      <4>3. p[l] = 0 \/ p[l] = x.pos[l]
        BY <3>1
      <4> HIDE DEF p
      <4> QED BY <4>1, <4>2, <4>3
    <3>3. p \in [Line -> Nat]
      BY <3>2
    <3> HIDE DEF p
    <3>4. \A l \in 0 .. n : l \in Line /\ ~(l > n)
      BY <1>2
    <3> QED BY <3>1, <3>2, <3>3, <3>4 DEF Inside
  <2> HIDE DEF p, n
  <2>3. StackOK(x.rows, p)
    <3>1. \A l \in 0 .. (n + 1) - 2 : p[l] = x.pos[l]
      <4> TAKE l \in 0 .. (n + 1) - 2
      <4>1. l \in 0 .. n
        BY <1>2
      <4> QED BY <2>2, <4>1
    <3>2. /\ n + 1 \in 1 .. Len(x.rows) /\ Len(x.rows) = n + 1 /\ x.rows \in Seq(Row)
          /\ RowOK(x.rows[n + 1], (n + 1) - 1)
      BY <1>2
    <3> QED BY <1>1, <3>1, <3>2, StackCut
  <2>4. y.state = 1 /\ y.pos = p /\ y.end = x.end /\ y.rows = x.rows
    BY <2>1
  <2> HIDE DEF y
  <2> QED BY <1>1, <2>1, <2>2, <2>3, <2>4 DEF NodeOK, LeafClosed, y
<1>4. CASE ~(Cell(x) < 0) /\ n < size - 2
  <2> DEFINE b == Below(x)
             rs == Append(x.rows, b)
  <2>1. y = [state |-> x.state, pos |-> x.pos, end |-> x.end, rows |-> rs]
    BY <1>1, <1>4 DEF initStep
  <2>2. x.pos[n] \in Nat /\ x.pos[n] < size - n /\ n < size - 1
    BY <1>1, <1>2, <1>4
  <2>3. /\ RowOK(b, Len(x.rows))
        /\ Jobs(b) = Jobs(x.rows[Len(x.rows)]) \ {Pointed(x.rows, x.pos, Len(x.rows))}
    BY <1>1, <2>2, BelowOf
  <2> HIDE DEF b, n
  <2>4. StackOK(rs, x.pos)
    <3>1. /\ x.pos[Len(x.rows) - 1] < size - (Len(x.rows) - 1) /\ Len(x.rows) < size
          /\ \A l \in 0 .. Len(x.rows) - 1 : x.pos[l] = x.pos[l]
      BY <1>2, <2>2
    <3> QED BY <1>1, <2>3, <3>1, StackGrown
  <2>5. Len(rs) # size
    <3>1. b \in Row
      BY <2>3 DEF RowOK, Row
    <3>2. Len(rs) = n + 2
      BY <1>2, <3>1
    <3> HIDE DEF rs
    <3> QED BY <1>2, <1>4, <3>2 DEF n
  <2>6. y.state = x.state /\ y.pos = x.pos /\ y.end = x.end /\ y.rows = rs
    <3> HIDE DEF rs
    <3> QED BY <2>1
  <2> HIDE DEF y, rs
  <2> QED BY <1>1, <2>1, <2>4, <2>5, <2>6 DEF NodeOK, LeafClosed, y
<1>5. CASE ~(Cell(x) < 0) /\ ~(n < size - 2)
  <2>1. y = [state |-> 1, pos |-> x.pos, end |-> x.end, rows |-> x.rows]
    BY <1>1, <1>5 DEF initStep
  <2>2. y.state = 1 /\ y.pos = x.pos /\ y.end = x.end /\ y.rows = x.rows
    BY <2>1
  <2> HIDE DEF y
  <2> QED BY <1>1, <2>1, <2>2 DEF NodeOK, LeafClosed, y
<1> QED BY <1>3, <1>4, <1>5

\* goToNext2 leaves an IVM without work, still being set up, or at an open cell.
LEMMA Chosen ==
  ASSUME NEW x, x.state # 0 => NodeOK(x) /\ LeafClosed(x)
  PROVE  LET y == Selected(x) IN
         y.state = 0 \/ (NodeOK(y) /\ y.state = -1) \/ Open(y)
<1>1. CASE x.state = 0
  BY <1>1 DEF Selected
<1>2. CASE x.state # 0
  <2>1. NodeOK(x) /\ LeafClosed(x) /\ x.state \in {-1, 1}
    BY <1>2 DEF NodeOK
  <2> DEFINE y == IF x.state < 0 THEN initStep(x) ELSE x
  <2>2. NodeOK(y) /\ LeafClosed(y) /\ y.state \in {-1, 1}
    <3>1. CASE x.state = -1
      <4>1. y = initStep(x)
        BY <3>1
      <4>2. NodeOK(initStep(x)) /\ LeafClosed(initStep(x))
        BY <2>1, <3>1, Prepared
      <4> HIDE DEF y
      <4> QED BY <4>1, <4>2 DEF NodeOK
    <3>2. CASE x.state = 1
      <4>1. y = x
        BY <3>2
      <4> QED BY <2>1, <3>2, <4>1
    <3> QED BY <2>1, <3>1, <3>2
  <2>3. Selected(x) = IF y.state > 0 THEN exploreStep(y) ELSE y
    BY <1>2 DEF Selected
  <2> HIDE DEF y
  <2>4. CASE y.state = 1
    BY <2>2, <2>3, <2>4, Explored
  <2>5. CASE y.state = -1
    BY <2>2, <2>3, <2>5
  <2> QED BY <2>2, <2>4, <2>5
<1> QED BY <1>1, <1>2

\* A row more for an IVM at an open cell.
LEMMA RowAdded ==
  ASSUME NEW x, x.state = 0 \/ (NodeOK(x) /\ x.state = -1) \/ Open(x)
  PROVE  Branched(x).state # 0 => NodeOK(Branched(x))
<1>1. CASE x.state = 0
  <2>1. Branched(x) = Empty
    BY <1>1 DEF Branched
  <2> QED BY <2>1 DEF Empty
<1>2. CASE NodeOK(x) /\ x.state = -1
  <2>1. Branched(x) = x
    BY <1>2 DEF Branched
  <2> QED BY <1>2, <2>1
<1>3. CASE Open(x)
  <2> DEFINE n == line(x)
             p == [x.pos EXCEPT ![n + 1] = 0]
             b == Below(x)
             rs == Append(x.rows, b)
             y == Branched(x)
  <2>1. /\ x = [state |-> x.state, pos |-> x.pos, end |-> x.end, rows |-> x.rows] /\ x.state = 1
        /\ Inside(x.pos) /\ Inside(x.end) /\ StackOK(x.rows, x.pos)
        /\ x.pos \in [Line -> Nat] /\ \A i \in Line : x.pos[i] < size - i
        /\ n < size - 1
    BY <1>3 DEF Open, NodeOK, Inside
  <2>2. /\ n \in Line /\ n \in Nat /\ Len(x.rows) = n + 1 /\ size \in Nat /\ Line = 0 .. size - 1
    BY <2>1, Lines, MatrixSize
  <2>3. y = [state |-> 1, pos |-> p, end |-> x.end, rows |-> rs]
    <3>1. y = [x EXCEPT !.pos[n + 1] = 0, !.rows = Append(@, b)]
      BY <2>1 DEF Branched
    <3> HIDE DEF b, n
    <3> QED BY <2>1, <3>1
  <2>4. /\ RowOK(b, Len(x.rows))
        /\ Jobs(b) = Jobs(x.rows[Len(x.rows)]) \ {Pointed(x.rows, x.pos, Len(x.rows))}
    BY <2>1, <2>2, BelowOf
  <2> HIDE DEF b, n, y
  <2>5. Inside(p) /\ \A l \in 0 .. n : p[l] = x.pos[l]
    <3>1. p \in [Line -> Nat] /\ p[n + 1] = 0 /\ \A l \in Line : l # n + 1 => p[l] = x.pos[l]
      BY <2>1, <2>2
    <3> HIDE DEF p
    <3>2. \A l \in Line : p[l] < size - l
      <4> TAKE l \in Line
      <4>1. l \in 0 .. size - 1 /\ size \in Nat /\ n \in Nat /\ n < size - 1
        BY <2>1, <2>2
      <4>2. x.pos[l] < size - l
        BY <2>1
      <4>3. CASE l = n + 1
        BY <3>1, <4>1, <4>3
      <4>4. CASE l # n + 1
        BY <3>1, <4>2, <4>4
      <4> QED BY <4>3, <4>4
    <3>3. \A l \in 0 .. n : l \in Line /\ l # n + 1
      BY <2>2
    <3> QED BY <3>1, <3>2, <3>3 DEF Inside
  <2> HIDE DEF p
  <2>6. StackOK(rs, p)
    <3>1. /\ x.pos[Len(x.rows) - 1] < size - (Len(x.rows) - 1) /\ Len(x.rows) < size
          /\ \A l \in 0 .. Len(x.rows) - 1 : p[l] = x.pos[l]
      BY <2>1, <2>2, <2>5
    <3> QED BY <2>1, <2>4, <3>1, StackGrown
  <2>7. y.state = 1 /\ y.pos = p /\ y.end = x.end /\ y.rows = rs
    <3> HIDE DEF rs
    <3> QED BY <2>3
  <2> HIDE DEF rs
  <2> QED BY <2>1, <2>3, <2>5, <2>6, <2>7 DEF NodeOK, y
<1> QED BY <1>1, <1>2, <1>3

-----------------------------------------------------------------------------
(* Bounding and pruning a node *)

\* branching chooses one of the two sides.
LEMMA BranchingSide ==
  ASSUME NEW mode, NEW costs, NEW ub
  PROVE  branching(mode, costs, ub) \in {FRONT, BACK}
  BY DEF branching, tile_branchMaxSum, tile_branchMinMin, tile_MinBranch

\* tile_prune flags cells, all of them in the last line.
LEMMA FlaggedOf ==
  ASSUME NEW jobs \in Seq(Int), NEW costs, NEW dir, NEW l \in Int, NEW lb
  PROVE  LET f == flagged(jobs, costs, dir, l, lb) IN
         /\ f \in Seq(Int) /\ Len(f) = Len(jobs)
         /\ \A i \in 1 .. Len(jobs) : /\ absolute(f[i]) = absolute(jobs[i])
                                      /\ l >= size - 1 => f[i] < 0
<1> DEFINE f == flagged(jobs, costs, dir, l, lb)
           n == Len(jobs)
<1>1. n \in Nat /\ DOMAIN jobs = 1 .. n /\ \A i \in 1 .. n : jobs[i] \in Int
  OBVIOUS
<1>2. /\ f = [i \in 1 .. n |-> f[i]]
      /\ \A i \in 1 .. n : f[i] = jobs[i] \/ f[i] = negative(jobs[i])
      /\ l >= size - 1 => \A i \in 1 .. n : f[i] = negative(jobs[i])
  BY <1>1 DEF flagged
<1> HIDE DEF f, n
<1>3. \A i \in 1 .. n : /\ f[i] \in Int /\ absolute(f[i]) = absolute(jobs[i])
                        /\ l >= size - 1 => f[i] < 0
  BY <1>1, <1>2, Flags
<1>4. f \in Seq(Int) /\ Len(f) = n
  BY <1>1, <1>2, <1>3
<1> QED BY <1>3, <1>4 DEF f, n

\* An IVM whose last row is replaced by one with the same jobs.
LEMMA RowReplaced ==
  ASSUME NEW x, NodeOK(x), NEW t, RowOK(t, line(x)), Jobs(t) = Jobs(x.rows[line(x) + 1])
  PROVE  LET y == [x EXCEPT !.rows[line(x) + 1] = t] IN
         /\ NodeOK(y) /\ y.state = x.state
         /\ y.rows \in Seq(Row) /\ Len(y.rows) = line(x) + 1 /\ y.rows[line(x) + 1] = t
<1> DEFINE n == line(x)
           rs == [x.rows EXCEPT ![n + 1] = t]
           y == [x EXCEPT !.rows[n + 1] = t]
<1>1. /\ x = [state |-> x.state, pos |-> x.pos, end |-> x.end, rows |-> x.rows]
      /\ x.state \in {-1, 1} /\ Inside(x.pos) /\ Inside(x.end) /\ StackOK(x.rows, x.pos)
  BY DEF NodeOK
<1>2. y = [state |-> x.state, pos |-> x.pos, end |-> x.end, rows |-> rs]
  BY <1>1
<1>3. /\ n \in Nat /\ Len(x.rows) = n + 1 /\ x.rows \in Seq(Row) /\ n + 1 \in 1 .. Len(x.rows)
      /\ (n + 1) - 1 = n
  BY <1>1, Lines
<1>4. t \in Row
  BY DEF RowOK, Row
<1> HIDE DEF n
<1>5. /\ rs \in Seq(Row) /\ Len(rs) = n + 1 /\ rs[n + 1] = t
      /\ \A i \in 1 .. (n + 1) - 1 : rs[i] = x.rows[i]
  BY <1>3, <1>4
<1> HIDE DEF rs, y
<1>6. StackOK(rs, x.pos)
  <2>1. RowOK(rs[n + 1], (n + 1) - 1) /\ Jobs(rs[n + 1]) = Jobs(x.rows[n + 1])
    BY <1>3, <1>5 DEF n
  <2>2. \A i \in 0 .. (n + 1) - 2 : x.pos[i] = x.pos[i]
    OBVIOUS
  <2> QED BY <1>1, <1>3, <1>5, <2>1, <2>2, StackCut
<1>7. y.state = x.state /\ y.pos = x.pos /\ y.end = x.end /\ y.rows = rs
  BY <1>2
<1>8. NodeOK(y)
  BY <1>1, <1>2, <1>6, <1>7 DEF NodeOK
<1> QED BY <1>5, <1>7, <1>8 DEF y, n

\* Bounding and pruning keep an IVM as it is; in the last line nothing stays open.
LEMMA PrunedNode ==
  ASSUME NEW x, NodeOK(x), NEW lb, NEW mode, NEW ub
  PROVE  NodeOK(Pruned(x, lb, mode, ub)) /\ LeafClosed(Pruned(x, lb, mode, ub))
<1> DEFINE n == line(x)
           r == x.rows[n + 1]
           c == size - n
           costs == boundWeak(front(x), open(x), back(x))
           dir == branching(mode, costs, ub)
           prev_dir == IF line(x) = 0 THEN FRONT ELSE x.rows[line(x)].dir
           fresh == [i \in DOMAIN Last(x.rows).jobs |-> absolute(Last(x.rows).jobs[i])]
           jobs == IF mode > 0 /\ prev_dir # dir THEN Reverse(fresh) ELSE fresh
           f == flagged(jobs, costs, dir, n, lb)
           t == [dir |-> dir, jobs |-> f]
           y == Pruned(x, lb, mode, ub)
<1>1. y = [x EXCEPT !.rows[line(x) + 1] = t]
  BY DEF Pruned
<1>2. /\ StackOK(x.rows, x.pos) /\ n \in Nat /\ Last(x.rows) = r /\ RowOK(r, n)
      /\ r.jobs \in Seq(Int) /\ Len(r.jobs) = c /\ n \in 0 .. size - 1 /\ size \in Nat
      /\ c \in Nat /\ DOMAIN r.jobs = 1 .. c
  <2>1. StackOK(x.rows, x.pos)
    BY DEF NodeOK
  <2>2. /\ n \in Nat /\ Last(x.rows) = r /\ RowOK(r, n) /\ r.jobs \in Seq(Int) /\ Len(r.jobs) = c
        /\ n \in Line /\ Line = 0 .. size - 1 /\ size \in Nat
    BY <2>1, Lines, MatrixSize
  <2> HIDE DEF n, r
  <2> QED BY <2>1, <2>2
<1>3. dir \in {FRONT, BACK}
  BY BranchingSide
<1> HIDE DEF dir, costs, prev_dir
<1>4. fresh \in Seq(Int) /\ Len(fresh) = c /\ \A i \in 1 .. c : fresh[i] = absolute(r.jobs[i])
  <2>1. fresh = [i \in 1 .. c |-> absolute(r.jobs[i])]
    BY <1>2
  <2>2. \A i \in 1 .. c : absolute(r.jobs[i]) \in Int /\ r.jobs[i] \in Int
    <3>1. \A i \in 1 .. c : r.jobs[i] \in Int
      BY <1>2
    <3> HIDE DEF c, r
    <3> QED BY <3>1, Flags
  <2> HIDE DEF fresh, c, r
  <2> QED BY <1>2, <2>1, <2>2
<1>5. \A i \in 1 .. c : r.jobs[i] \in Int /\ absolute(absolute(r.jobs[i])) = absolute(r.jobs[i])
  <2>1. \A j \in Int : absolute(absolute(j)) = absolute(j)
    BY DEF absolute
  <2>2. \A i \in 1 .. c : r.jobs[i] \in Int
    BY <1>2
  <2> HIDE DEF r, c
  <2> QED BY <2>1, <2>2
<1> HIDE DEF fresh
<1>6. jobs \in Seq(Int) /\ Len(jobs) = c /\
      \/ \A i \in 1 .. c : absolute(jobs[i]) = absolute(r.jobs[i])
      \/ \A i \in 1 .. c : absolute(jobs[i]) = absolute(r.jobs[c + 1 - i])
  <2>1. CASE jobs = fresh
    <3> HIDE DEF jobs, r, c
    <3> QED BY <1>4, <1>5, <2>1
  <2>2. CASE jobs = Reverse(fresh)
    <3>1. Reverse(fresh) = [i \in 1 .. c |-> fresh[(c - i) + 1]]
      BY <1>4 DEF Reverse
    <3> HIDE DEF jobs, r, c
    <3>2. \A i \in 1 .. c : (c - i) + 1 \in 1 .. c /\ (c - i) + 1 = c + 1 - i
      BY <1>2
    <3>3. \A i \in 1 .. c : fresh[(c - i) + 1] \in Int
      BY <1>4, <3>2
    <3>4. jobs \in Seq(Int) /\ Len(jobs) = c /\ \A i \in 1 .. c : jobs[i] = fresh[(c - i) + 1]
      BY <1>2, <2>2, <3>1, <3>3
    <3>5. \A i \in 1 .. c : absolute(jobs[i]) = absolute(r.jobs[c + 1 - i])
      <4> TAKE i \in 1 .. c
      <4>1. jobs[i] = absolute(r.jobs[(c - i) + 1])
        BY <1>4, <3>2, <3>4
      <4>2. absolute(jobs[i]) = absolute(r.jobs[(c - i) + 1])
        BY <1>5, <3>2, <4>1
      <4> QED BY <3>2, <4>2
    <3> QED BY <3>4, <3>5
  <2> QED BY <2>1, <2>2
<1> HIDE DEF jobs
<1>7. /\ f \in Seq(Int) /\ Len(f) = c
      /\ \A i \in 1 .. c : absolute(f[i]) = absolute(jobs[i])
      /\ n >= size - 1 => \A i \in 1 .. c : f[i] < 0
  <2> HIDE DEF n, c, r
  <2>1. n \in Int
    BY <1>2
  <2> QED BY <1>6, <2>1, FlaggedOf
<1> HIDE DEF f
<1>8. t \in Row /\ t.jobs = f
  BY <1>3, <1>7 DEF Row
<1> HIDE DEF t
<1>9. RowOK(t, n) /\ Jobs(t) = Jobs(r)
  <2>1. CASE \A i \in 1 .. c : absolute(jobs[i]) = absolute(r.jobs[i])
    <3>1. \A i \in 1 .. size - n : absolute(t.jobs[i]) = absolute(r.jobs[i])
      BY <1>7, <1>8, <2>1
    <3>2. Len(t.jobs) = size - n
      BY <1>7, <1>8
    <3> HIDE DEF n, r
    <3>3. n \in 0 .. size - 1 /\ RowOK(r, n) /\ t \in Row
      BY <1>2, <1>8
    <3> QED BY <3>1, <3>2, <3>3, RowFlagged
  <2>2. CASE \A i \in 1 .. c : absolute(jobs[i]) = absolute(r.jobs[c + 1 - i])
    <3>1. \A i \in 1 .. size - n : absolute(t.jobs[i]) = absolute(r.jobs[(size - n) + 1 - i])
      BY <1>7, <1>8, <2>2
    <3>2. Len(t.jobs) = size - n
      BY <1>7, <1>8
    <3> HIDE DEF n, r
    <3> QED BY <1>2, <1>8, <3>1, <3>2, RowReversed
  <2> QED BY <1>6, <2>1, <2>2
<1>10. /\ NodeOK(y) /\ Len(y.rows) = n + 1 /\ y.rows[n + 1] = t
  <2> HIDE DEF y
  <2> QED BY <1>1, <1>9, RowReplaced
<1>11. LeafClosed(y)
  <2> SUFFICES ASSUME Len(y.rows) = size PROVE y.rows[size].jobs[1] < 0
    BY DEF LeafClosed
  <2> HIDE DEF y, n
  <2>1. n + 1 = size /\ n >= size - 1 /\ 1 \in 1 .. size - n
    BY <1>2, <1>10
  <2> QED BY <1>7, <1>8, <1>10, <2>1
<1> QED BY <1>10, <1>11 DEF y

\* So does pruning by the second bound.
LEMMA PrunedAgainNode ==
  ASSUME NEW x, NodeOK(x), line(x) # size - 1, NEW lb, NEW chosen
  PROVE  NodeOK(PrunedAgain(x, lb, chosen)) /\ LeafClosed(PrunedAgain(x, lb, chosen))
<1> DEFINE n == line(x)
           r == x.rows[n + 1]
           c == size - n
           row == Last(x.rows)
           f == [i \in DOMAIN row.jobs |->
                   IF /\ row.jobs[i] \in chosen
                      /\ computeCostFast(front(x), open(x), back(x), row.dir, row.jobs[i]) >= lb
                   THEN negative(row.jobs[i]) ELSE row.jobs[i]]
           t == [r EXCEPT !.jobs = f]
           y == PrunedAgain(x, lb, chosen)
<1>1. /\ StackOK(x.rows, x.pos) /\ n \in Nat /\ Last(x.rows) = r /\ RowOK(r, n) /\ r \in Row
      /\ r.jobs \in Seq(Int) /\ Len(r.jobs) = c /\ n \in 0 .. size - 1 /\ size \in Nat
      /\ c \in Nat /\ DOMAIN r.jobs = 1 .. c /\ \A i \in 1 .. c : r.jobs[i] \in Int
  <2>1. StackOK(x.rows, x.pos)
    BY DEF NodeOK
  <2>2. /\ n \in Nat /\ Last(x.rows) = r /\ RowOK(r, n) /\ r.jobs \in Seq(Int) /\ Len(r.jobs) = c
        /\ n \in Line /\ Line = 0 .. size - 1 /\ size \in Nat /\ r \in Row
    BY <2>1, Lines, MatrixSize
  <2> HIDE DEF n, r
  <2> QED BY <2>1, <2>2
<1>2. y = [x EXCEPT !.rows[line(x) + 1] = t]
  <2>1. y = [x EXCEPT !.rows[n + 1].jobs = f]
    BY DEF PrunedAgain
  <2> HIDE DEF f, y
  <2> QED BY <2>1
<1>3. f = [i \in 1 .. c |-> f[i]] /\ \A i \in 1 .. c : f[i] = r.jobs[i] \/ f[i] = negative(r.jobs[i])
  BY <1>1
<1> HIDE DEF f
<1>4. f \in Seq(Int) /\ Len(f) = c /\ \A i \in 1 .. c : absolute(f[i]) = absolute(r.jobs[i])
  <2> HIDE DEF r, c
  <2>1. \A i \in 1 .. c : f[i] \in Int /\ absolute(f[i]) = absolute(r.jobs[i])
    <3> TAKE i \in 1 .. c
    <3>1. r.jobs[i] \in Int
      BY <1>1
    <3>2. /\ negative(r.jobs[i]) \in Int
          /\ absolute(negative(r.jobs[i])) = absolute(r.jobs[i])
      BY <3>1, Flags
    <3>3. f[i] = r.jobs[i] \/ f[i] = negative(r.jobs[i])
      BY <1>3
    <3> QED BY <3>1, <3>2, <3>3
  <2>2. c \in Nat /\ f = [i \in 1 .. c |-> f[i]]
    BY <1>1, <1>3
  <2>3. f \in Seq(Int) /\ Len(f) = c
    BY <2>1, <2>2
  <2> QED BY <2>1, <2>3
<1>5. t \in Row /\ t.jobs = f
  <2> HIDE DEF r
  <2> QED BY <1>1, <1>4 DEF Row
<1> HIDE DEF t
<1>6. RowOK(t, n) /\ Jobs(t) = Jobs(r)
  <2>1. \A i \in 1 .. size - n : absolute(t.jobs[i]) = absolute(r.jobs[i])
    BY <1>4, <1>5
  <2>2. Len(t.jobs) = size - n
    BY <1>4, <1>5
  <2> HIDE DEF n, r
  <2>3. n \in 0 .. size - 1 /\ RowOK(r, n) /\ t \in Row
    BY <1>1, <1>5
  <2> QED BY <2>1, <2>2, <2>3, RowFlagged
<1>7. NodeOK(y) /\ Len(y.rows) = n + 1
  <2> HIDE DEF y
  <2> QED BY <1>2, <1>6, RowReplaced
<1>8. LeafClosed(y)
  <2>1. n + 1 # size
    BY <1>1
  <2> HIDE DEF y, n
  <2> QED BY <1>7, <2>1 DEF LeafClosed
<1> QED BY <1>7, <1>8 DEF y

-----------------------------------------------------------------------------
(* Cutting an interval *)

\* The number of elements of R from a to b.
Counted(R, a, b) == Cardinality({i \in a .. b : i \in R})

\* Half of the elements from a on come before the last place b.
LEMMA HalfOf ==
  ASSUME NEW a \in Nat, NEW b \in Nat, a <= b, NEW R
  PROVE  \E p \in a .. b : Counted(R, a, p - 1) = Counted(R, a, b) \div 2
<1> DEFINE keep == Counted(R, a, b) \div 2
           C(p) == Cardinality({i \in a .. p - 1 : i \in R})
           F(p) == IsFiniteSet({i \in a .. p - 1 : i \in R})
           S == {d \in 0 .. (b + 1) - a : F(a + d) /\ C(a + d) \in Nat}
           n == (b + 1) - a
<1>1. n \in Nat
  OBVIOUS
<1>2. \A p \in a .. b + 1 : F(p) /\ C(p) \in Nat
  <2> TAKE p \in a .. b + 1
  <2>1. IsFiniteSet(a .. p - 1)
    BY FS_Interval
  <2>2. {i \in a .. p - 1 : i \in R} \subseteq a .. p - 1
    OBVIOUS
  <2>3. F(p)
    BY <2>1, <2>2, FS_Subset
  <2> QED BY <2>3, FS_CardinalityType
<1>3. C(a) = 0
  <2>1. {i \in a .. a - 1 : i \in R} = {}
    OBVIOUS
  <2> QED BY <2>1, FS_EmptySet
<1>4. \A p \in a .. b : C(p + 1) = C(p) \/ C(p + 1) = C(p) + 1
  <2> TAKE p \in a .. b
  <2> DEFINE T(q) == {i \in a .. q - 1 : i \in R}
  <2>1. p \in a .. b + 1 /\ (p + 1) - 1 = p /\ p \notin T(p)
    OBVIOUS
  <2>2. T(p + 1) = T(p) \/ T(p + 1) = T(p) \cup {p}
    OBVIOUS
  <2>3. IsFiniteSet(T(p))
    BY <1>2, <2>1
  <2>4. Cardinality(T(p) \cup {p}) = Cardinality(T(p)) + 1
    <3> HIDE DEF T
    <3> QED BY <2>1, <2>3, FS_AddElement
  <2> HIDE DEF T
  <2>5. Cardinality(T(p + 1)) = Cardinality(T(p)) \/ Cardinality(T(p + 1)) = Cardinality(T(p)) + 1
    BY <2>2, <2>4
  <2> QED BY <2>5 DEF T
<1>5. keep = C(b + 1) \div 2
  <2>1. (b + 1) - 1 = b
    OBVIOUS
  <2> QED BY <2>1 DEF Counted
<1> HIDE DEF C, F, keep
<1>6. C(b + 1) \in Nat /\ keep \in Nat /\ 2 * keep <= C(b + 1) /\ C(b + 1) <= 2 * keep + 1
  <2>1. C(b + 1) \in Nat
    BY <1>2
  <2> QED BY <1>5, <2>1
<1> DEFINE W == {p \in a .. b : C(p) <= keep}
<1>7. W \in SUBSET Nat /\ W # {} /\ IsFiniteSet(W)
  <2>1. a \in W
    BY <1>3, <1>6
  <2>2. IsFiniteSet(a .. b) /\ W \subseteq a .. b
    BY FS_Interval
  <2>3. IsFiniteSet(W)
    <3> HIDE DEF W
    <3> QED BY <2>2, FS_Subset
  <2> QED BY <2>1, <2>3
<1>8. PICK q \in W : \A p \in W : p <= q
  <2> HIDE DEF W
  <2> QED BY <1>7, LargestNumber
<1>9. q \in a .. b /\ C(q) <= keep /\ C(q) \in Nat
  BY <1>2
<1>10. C(q) = keep
  <2>1. CASE q = b
    BY <1>4, <1>6, <1>9, <2>1
  <2>2. CASE q # b
    <3>1. q + 1 \in a .. b /\ q + 1 \notin W
      BY <1>8, <1>9, <2>2
    <3>2. C(q + 1) > keep
      BY <1>2, <1>6, <3>1
    <3> QED BY <1>2, <1>4, <1>6, <1>9, <3>1, <3>2
  <2> QED BY <2>1, <2>2
<1> QED BY <1>9, <1>10 DEF C, Counted, keep

\* cuttingPosition leaves work on both sides.
LEMMA CutBetween ==
  ASSUME NEW x, NEW l, x.pos[l] \in Nat, x.end[l] \in Nat, x.pos[l] < x.end[l]
  PROVE  cuttingPosition(x, l) \in x.pos[l] + 1 .. x.end[l]
<1> DEFINE row == x.rows[l + 1].jobs
           a == x.pos[l] + 1
           b == x.end[l]
           R == {i \in a .. b : row[i + 1] >= 0}
           explorable(u, v) == Cardinality({i \in u .. v : row[i + 1] >= 0})
           keep == explorable(a, b) \div 2
           S == {p \in a .. b + 1 : explorable(a, p - 1) = keep}
<1>1. a \in Nat /\ b \in Nat /\ a <= b
  OBVIOUS
<1>2. cuttingPosition(x, l) = Min(S)
  BY DEF cuttingPosition
<1>3. \A p \in a .. b + 1 : explorable(a, p - 1) = Cardinality({i \in a .. p - 1 : i \in R})
  <2> TAKE p \in a .. b + 1
  <2> HIDE DEF a, b, row
  <2>1. {i \in a .. p - 1 : row[i + 1] >= 0} = {i \in a .. p - 1 : i \in R}
    BY <1>1
  <2> QED BY <2>1
<1>4. keep = Cardinality({i \in a .. b : i \in R}) \div 2
  <2> HIDE DEF a, b, row
  <2>1. {i \in a .. b : row[i + 1] >= 0} = {i \in a .. b : i \in R}
    BY <1>1
  <2> QED BY <2>1
<1>5. PICK p \in a .. b : Cardinality({i \in a .. p - 1 : i \in R}) = keep
  <2>1. keep = Counted(R, a, b) \div 2
    BY <1>4 DEF Counted
  <2> HIDE DEF a, b, R, keep
  <2>2. \E p \in a .. b : Counted(R, a, p - 1) = Counted(R, a, b) \div 2
    BY <1>1, HalfOf
  <2> QED BY <2>1, <2>2 DEF Counted
<1>6. p \in S
  <2>1. p \in a .. b + 1
    BY <1>1
  <2>2. explorable(a, p - 1) = keep
    BY <1>3, <1>5, <2>1
  <2> HIDE DEF a, b, explorable, keep
  <2> QED BY <2>1, <2>2
<1>7. S \in SUBSET Nat /\ \A q \in S : q >= a
  BY <1>1
<1> HIDE DEF S, a, b
<1>8. PICK m \in S : m = Min(S) /\ m <= p
  BY <1>6, <1>7, LeastNumber
<1>9. m \in a .. b
  BY <1>1, <1>7, <1>8
<1> QED BY <1>2, <1>8, <1>9 DEF a, b

\* The line of the cut.
LEMMA CutLine ==
  ASSUME NEW x, NodeOK(x)
  PROVE  ShareLine(x) \in 0 .. line(x) /\ ShareLine(x) \in Line
<1> DEFINE n == line(x)
           S == {l \in 0 .. n : x.pos[l] # x.end[l] \/ l = n \/ l >= size - Margin}
<1>1. n \in Nat /\ n \in Line /\ Line = 0 .. size - 1 /\ size \in Nat
  BY Lines, MatrixSize DEF NodeOK
<1>2. ShareLine(x) = Min(S)
  BY DEF ShareLine
<1> HIDE DEF n
<1>3. n \in S /\ S \in SUBSET Nat
  BY <1>1
<1>4. Min(S) \in S
  <2> HIDE DEF S
  <2> QED BY <1>3, LeastNumber
<1>5. Min(S) \in 0 .. n
  BY <1>4
<1> HIDE DEF S
<1> QED BY <1>1, <1>2, <1>5 DEF n

\* Thief and victim after the cut are IVMs with work.
LEMMA CutNodes ==
  ASSUME NEW x, NodeOK(x), LeafClosed(x), NEW l \in 0 .. line(x), l \in Line,
         NEW cut \in x.pos[l] + 1 .. x.end[l]
  PROVE  /\ NodeOK(thief(x, l, cut)) /\ LeafClosed(thief(x, l, cut))
         /\ NodeOK(victim(x, l, cut)) /\ LeafClosed(victim(x, l, cut))
<1>1. /\ x = [state |-> x.state, pos |-> x.pos, end |-> x.end, rows |-> x.rows]
      /\ x.state \in {-1, 1} /\ Inside(x.pos) /\ Inside(x.end) /\ StackOK(x.rows, x.pos)
      /\ x.pos \in [Line -> Nat] /\ x.end \in [Line -> Nat]
      /\ \A i \in Line : x.pos[i] < size - i /\ x.end[i] < size - i
  BY DEF NodeOK, Inside
<1>2. /\ line(x) \in Nat /\ Len(x.rows) = line(x) + 1 /\ x.rows \in Seq(Row) /\ l \in Nat
      /\ l + 1 \in 1 .. Len(x.rows) /\ (l + 1) - 1 = l
      /\ size \in Nat /\ Line = 0 .. size - 1 /\ Len(x.rows) \in 1 .. size
  BY <1>1, Lines, MatrixSize
<1>3. /\ x.pos[l] \in Nat /\ x.end[l] \in Nat /\ cut \in Nat /\ cut >= 1 /\ cut <= x.end[l]
      /\ x.end[l] < size - l /\ cut < size - l
  BY <1>1, <1>2
<1>4. NodeOK(thief(x, l, cut)) /\ LeafClosed(thief(x, l, cut))
  <2> DEFINE y == thief(x, l, cut)
             rs == SubSeq(x.rows, 1, l + 1)
             p == [i \in Line |-> IF i < l THEN x.pos[i] ELSE IF i = l THEN cut ELSE 0]
  <2>1. y = [state |-> x.state, pos |-> p, end |-> x.end, rows |-> rs]
    <3>1. y = [x EXCEPT !.rows = rs, !.pos = p]
      BY DEF thief
    <3> HIDE DEF rs, p, y
    <3> QED BY <1>1, <3>1
  <2>2. rs \in Seq(Row) /\ Len(rs) = l + 1 /\ \A i \in 1 .. l + 1 : rs[i] = x.rows[i]
    <3>1. l + 1 \in 0 .. Len(x.rows)
      BY <1>2
    <3> QED BY <1>2, <3>1, FrontElements
  <2>3. Inside(p) /\ \A i \in 0 .. (l + 1) - 2 : p[i] = x.pos[i]
    <3>1. \A i \in Line : p[i] = IF i < l THEN x.pos[i] ELSE IF i = l THEN cut ELSE 0
      OBVIOUS
    <3>2. \A i \in Line : p[i] \in Nat /\ p[i] < size - i
      <4> TAKE i \in Line
      <4>1. i \in 0 .. size - 1 /\ x.pos[i] \in Nat /\ x.pos[i] < size - i
        BY <1>1, <1>2
      <4>2. p[i] = IF i < l THEN x.pos[i] ELSE IF i = l THEN cut ELSE 0
        BY <3>1
      <4> HIDE DEF p
      <4> QED BY <1>2, <1>3, <4>1, <4>2
    <3>3. p \in [Line -> Nat]
      BY <3>2
    <3> HIDE DEF p
    <3>4. \A i \in 0 .. (l + 1) - 2 : i \in Line /\ i < l
      BY <1>2
    <3> QED BY <3>1, <3>2, <3>3, <3>4 DEF Inside
  <2> HIDE DEF p, rs, y
  <2>4. StackOK(rs, p)
    <3>1. RowOK(rs[l + 1], (l + 1) - 1) /\ Jobs(rs[l + 1]) = Jobs(x.rows[l + 1])
      <4>1. RowOK(x.rows[l + 1], (l + 1) - 1)
        BY <1>1, <1>2, StackFacts
      <4>2. rs[l + 1] = x.rows[l + 1]
        BY <1>2, <2>2
      <4> QED BY <4>1, <4>2
    <3>2. \A i \in 1 .. (l + 1) - 1 : rs[i] = x.rows[i]
      BY <1>2, <2>2
    <3>3. l + 1 \in 1 .. Len(x.rows) /\ StackOK(x.rows, x.pos)
      BY <1>1, <1>2
    <3> QED BY <2>2, <2>3, <3>1, <3>2, <3>3, StackCut
  <2>5. y.state = x.state /\ y.pos = p /\ y.end = x.end /\ y.rows = rs
    BY <2>1
  <2>6. LeafClosed(y)
    <3> SUFFICES ASSUME Len(rs) = size PROVE rs[size].jobs[1] < 0
      BY <2>5 DEF LeafClosed
    <3>1. l + 1 = size /\ Len(x.rows) = size /\ rs[size] = x.rows[size]
      <4>1. l + 1 = size
        BY <1>2, <2>2
      <4>2. Len(x.rows) = size
        BY <1>2, <4>1
      <4> QED BY <1>2, <2>2, <4>1, <4>2
    <3> QED BY <3>1 DEF LeafClosed
  <2> QED BY <1>1, <2>1, <2>3, <2>4, <2>5, <2>6 DEF NodeOK, y
<1>5. NodeOK(victim(x, l, cut)) /\ LeafClosed(victim(x, l, cut))
  <2> DEFINE y == victim(x, l, cut)
             e == [i \in Line |-> IF i < l THEN x.end[i] ELSE IF i = l THEN cut - 1
                                  ELSE size - i - 1]
  <2>1. y = [state |-> x.state, pos |-> x.pos, end |-> e, rows |-> x.rows]
    <3>1. y = [x EXCEPT !.end = e]
      BY DEF victim
    <3> HIDE DEF e, y
    <3> QED BY <1>1, <3>1
  <2>2. Inside(e)
    <3>1. \A i \in Line : e[i] = IF i < l THEN x.end[i] ELSE IF i = l THEN cut - 1
                                  ELSE size - i - 1
      OBVIOUS
    <3>2. \A i \in Line : e[i] \in Nat /\ e[i] < size - i
      <4> TAKE i \in Line
      <4>1. i \in 0 .. size - 1 /\ x.end[i] \in Nat /\ x.end[i] < size - i
        BY <1>1, <1>2
      <4>2. e[i] = IF i < l THEN x.end[i] ELSE IF i = l THEN cut - 1
                                  ELSE size - i - 1
        BY <3>1
      <4> HIDE DEF e
      <4> QED BY <1>2, <1>3, <4>1, <4>2
    <3>3. e \in [Line -> Nat]
      BY <3>2
    <3> HIDE DEF e
    <3> QED BY <3>2, <3>3 DEF Inside
  <2> HIDE DEF e, y
  <2>3. y.state = x.state /\ y.pos = x.pos /\ y.end = e /\ y.rows = x.rows
    BY <2>1
  <2>4. LeafClosed(y)
    BY <2>3 DEF LeafClosed
  <2> QED BY <1>1, <2>1, <2>2, <2>3, <2>4 DEF NodeOK, y
<1> QED BY <1>4, <1>5

-----------------------------------------------------------------------------
(* Work stealing between the IVMs *)

\* IVMs are counted modulo their number.
LEMMA IvmNumbers ==
  /\ nbIVM \in Nat /\ nbIVM >= 1 /\ IVM = 0 .. nbIVM - 1
  /\ \A i \in Int : i % nbIVM \in IVM
<1>1. nbIVM \in {1, 4}
  BY IvmAssumption
<1>2. CASE nbIVM = 1
  BY <1>2 DEF IVM
<1>3. CASE nbIVM = 4
  BY <1>3 DEF IVM
<1> QED BY <1>1, <1>2, <1>3

\* Thieves and victims are IVMs.
LEMMA Pairing ==
  ASSUME iter \in 0 .. nbIVM - 1, NEW mean
  PROVE  victims(mean) \in SUBSET (IVM \X IVM)
<1> DEFINE n == nbIVM
           D == SUBSET (IVM \X IVM)
           prec(t, off) == (t - off) % nbIVM
           new(s, F) == LET off == (iter + s - 1) % nbIVM
                            flag == UNION {{f[1], f[2]} : f \in F}
                        IN {t \in IVM : LET v == prec(t, off) IN
                              /\ ivm[t].state = 0
                              /\ ivm[v].state # 0 /\ v \notin flag
                              /\ ~isSmaller(length[v], mean)}
           next(s, F) == {f \in F : f[1] \notin new(s, F)}
                           \cup {<<t, prec(t, (iter + s - 1) % nbIVM)>> : t \in new(s, F)}
           step(found) ==
             [s \in 0 .. nbIVM |->
                IF s = 0 THEN {}
                ELSE LET off == (iter + s - 1) % nbIVM
                         flag == UNION {{f[1], f[2]} : f \in found[s - 1]}
                         new1 == {t \in IVM : LET v == prec(t, off) IN
                                   /\ ivm[t].state = 0
                                   /\ ivm[v].state # 0 /\ v \notin flag
                                   /\ ~isSmaller(length[v], mean)}
                     IN {f \in found[s - 1] : f[1] \notin new1}
                          \cup {<<t, prec(t, off)>> : t \in new1}]
           g == [e \in (1 .. n) \X D |-> next(e[1], e[2])]
<1>1. n \in Nat /\ IVM = 0 .. n - 1 /\ \A i \in Int : i % nbIVM \in IVM
  BY IvmNumbers
<1>2. \A s \in 0 .. n : \A F : new(s, F) \subseteq IVM
  OBVIOUS
<1>3. \A s \in 0 .. n : \A t \in IVM : prec(t, (iter + s - 1) % nbIVM) \in IVM
  <2> TAKE s \in 0 .. n
  <2> TAKE t \in IVM
  <2>1. iter + s - 1 \in Int
    BY <1>1
  <2>2. (iter + s - 1) % nbIVM \in IVM
    BY <1>1, <2>1
  <2> DEFINE off == (iter + s - 1) % nbIVM
  <2> HIDE DEF off
  <2>3. t - off \in Int
    <3>1. off \in IVM
      BY <2>2 DEF off
    <3> QED BY <1>1, <3>1
  <2>4. prec(t, off) \in IVM
    BY <1>1, <2>3
  <2> QED BY <2>4 DEF off
<1> HIDE DEF new
<1>4. \A s \in 0 .. n : \A F \in D : next(s, F) \in D
  <2> TAKE s \in 0 .. n
  <2> TAKE F \in D
  <2>1. \A t \in new(s, F) : t \in IVM /\ prec(t, (iter + s - 1) % nbIVM) \in IVM
    BY <1>2, <1>3
  <2> HIDE DEF prec
  <2>2. {<<t, prec(t, (iter + s - 1) % nbIVM)>> : t \in new(s, F)} \in D
    BY <2>1
  <2> QED BY <2>2
<1>5. {} \in D
  OBVIOUS
<1>6. \A f : step(f) = [s \in 0 .. n |-> IF s = 0 THEN {} ELSE next(s, f[s - 1])]
  BY DEF new
<1> HIDE DEF next, D, step
<1>7. g \in [(1 .. n) \X D -> D]
  <2> HIDE DEF n
  <2>1. \A s \in 1 .. n : s \in 0 .. n
    BY <1>1
  <2> QED BY <1>4, <2>1
<1>8. PICK f \in [0 .. n -> D] : Recurs(f, n, {}, g)
  <2> HIDE DEF g, n
  <2> QED BY <1>1, <1>5, <1>7, Recursive
<1>9. f = step(f)
  <2>1. ASSUME NEW k \in 0 .. n, k # 0
        PROVE  g[<<k, f[k - 1]>>] = next(k, f[k - 1])
    <3>1. k \in 1 .. n /\ f[k - 1] \in D
      <4> HIDE DEF n
      <4> QED BY <1>1, <2>1
    <3> HIDE DEF n
    <3> QED BY <3>1
  <2>2. step(f) = [k \in 0 .. n |-> IF k = 0 THEN {} ELSE g[<<k, f[k - 1]>>]]
    <3> HIDE DEF g, n
    <3> QED BY <1>6, <2>1
  <2> QED BY <1>8, <2>2 DEF Recurs
<1>10. PICK h : h = step(h) /\ victims(mean) = h[n]
  BY <1>9 DEF victims, step
<1>11. \A k \in 0 .. n : h[k] = IF k = 0 THEN {} ELSE next(k, h[k - 1])
  <2> HIDE DEF n
  <2> QED BY <1>6, <1>10
<1>12. \A k \in 0 .. n : k \in {i \in 0 .. n : h[i] \in D}
  <2> DEFINE S == {i \in 0 .. n : h[i] \in D}
  <2>1. 0 \in S
    <3>1. 0 \in 0 .. n
      BY <1>1
    <3>2. h[0] = {}
      <4> HIDE DEF n
      <4> QED BY <1>11, <3>1
    <3> HIDE DEF n
    <3> QED BY <1>5, <3>1, <3>2
  <2>2. ASSUME NEW k \in 0 .. n - 1, k \in S PROVE k + 1 \in S
    <3>1. k + 1 \in 0 .. n /\ (k + 1) - 1 = k /\ k + 1 # 0
      BY <1>1
    <3>2. h[k + 1] = next(k + 1, h[k])
      <4> HIDE DEF n
      <4> QED BY <1>11, <3>1
    <3>3. h[k] \in D
      BY <2>2
    <3> HIDE DEF n
    <3> QED BY <1>4, <3>1, <3>2, <3>3
  <2> HIDE DEF S, n
  <2> QED BY <1>1, <2>1, <2>2, UpTo DEF S
<1>13. h[n] \in D
  <2>1. n \in 0 .. n
    BY <1>1
  <2> HIDE DEF n
  <2> QED BY <1>12, <2>1
<1> QED BY <1>10, <1>13 DEF D

\* An IVM that may take part in the next step.
Ready(x) == x.state # 0 => NodeOK(x) /\ LeafClosed(x)

\* Stealing leaves all IVMs fit for work.
LEMMA SharedNodes ==
  ASSUME \A k \in IVM : Ready(ivm[k]), NEW found \in SUBSET (IVM \X IVM)
  PROVE  LET v == share_on_gpu2(found) IN
         v = [k \in IVM |-> v[k]] /\ \A k \in IVM : Ready(v[k])
<1> DEFINE work == {f \in found : LET x == ivm[f[2]] IN
                      x.state = 1 /\ x.pos[ShareLine(x)] < x.end[ShareLine(x)]}
           cut(x) == cuttingPosition(x, ShareLine(x))
           v == share_on_gpu2(found)
<1>1. v = [k \in IVM |->
        IF \E f \in work : f[1] = k
        THEN LET x == ivm[(CHOOSE f \in work : f[1] = k)[2]] IN thief(x, ShareLine(x), cut(x))
        ELSE IF \E f \in work : f[2] = k THEN victim(ivm[k], ShareLine(ivm[k]), cut(ivm[k]))
        ELSE ivm[k]]
  BY DEF share_on_gpu2
<1>2. ASSUME NEW f \in work
      PROVE  LET x == ivm[f[2]] IN
             /\ Ready(thief(x, ShareLine(x), cut(x)))
             /\ Ready(victim(x, ShareLine(x), cut(x)))
  <2> DEFINE x == ivm[f[2]]
             l == ShareLine(x)
  <2>1. f[2] \in IVM /\ x.state = 1 /\ x.pos[l] < x.end[l]
    OBVIOUS
  <2>2. Ready(x)
    BY <2>1
  <2> HIDE DEF x
  <2>3. NodeOK(x) /\ LeafClosed(x)
    BY <2>1, <2>2 DEF Ready
  <2>4. l \in 0 .. line(x) /\ l \in Line
    BY <2>3, CutLine
  <2>5. x.pos[l] \in Nat /\ x.end[l] \in Nat
    BY <2>3, <2>4 DEF NodeOK, Inside
  <2> HIDE DEF l
  <2>6. cuttingPosition(x, l) \in x.pos[l] + 1 .. x.end[l]
    BY <2>1, <2>5, CutBetween
  <2> DEFINE c == cuttingPosition(x, l)
  <2> HIDE DEF c
  <2>7. c \in x.pos[l] + 1 .. x.end[l]
    BY <2>6 DEF c
  <2>8. Ready(thief(x, l, c)) /\ Ready(victim(x, l, c))
    BY <2>3, <2>4, <2>7, CutNodes DEF Ready
  <2> QED BY <2>8 DEF c, l, x
<1> HIDE DEF work, cut, v
<1>3. ASSUME NEW k \in IVM PROVE Ready(v[k])
  <2>1. CASE \E f \in work : f[1] = k
    <3> DEFINE f == CHOOSE f \in work : f[1] = k
               x == ivm[f[2]]
    <3>1. f \in work
      BY <2>1
    <3>2. v[k] = thief(x, ShareLine(x), cut(x))
      BY <1>1, <2>1
    <3>3. Ready(thief(x, ShareLine(x), cut(x)))
      <4> HIDE DEF f
      <4> QED BY <1>2, <3>1
    <3> QED BY <3>2, <3>3
  <2>2. CASE (~\E f \in work : f[1] = k) /\ \E f \in work : f[2] = k
    <3> DEFINE x == ivm[k]
    <3>1. v[k] = victim(x, ShareLine(x), cut(x))
      BY <1>1, <2>2
    <3>2. PICK f \in work : f[2] = k
      BY <2>2
    <3>3. Ready(victim(x, ShareLine(x), cut(x)))
      BY <1>2, <3>2
    <3> QED BY <3>1, <3>3
  <2>3. CASE (~\E f \in work : f[1] = k) /\ ~\E f \in work : f[2] = k
    BY <1>1, <2>3
  <2> QED BY <2>1, <2>2, <2>3
<1>4. v = [k \in IVM |-> v[k]]
  <2>1. \E F : v = [k \in IVM |-> F[k]]
    <3> DEFINE F == [k \in IVM |->
        IF \E f \in work : f[1] = k
        THEN LET x == ivm[(CHOOSE f \in work : f[1] = k)[2]] IN thief(x, ShareLine(x), cut(x))
        ELSE IF \E f \in work : f[2] = k THEN victim(ivm[k], ShareLine(ivm[k]), cut(ivm[k]))
        ELSE ivm[k]]
    <3>1. F = [k \in IVM |-> F[k]]
      OBVIOUS
    <3> QED BY <1>1, <3>1
  <2>2. PICK F : v = [k \in IVM |-> F[k]]
    BY <2>1
  <2> QED BY <2>2
<1> QED BY <1>3, <1>4 DEF v

-----------------------------------------------------------------------------
(* Leaves, and the optimum *)

\* The open jobs in any order complete a node to a schedule.
LEMMA LeafSchedule ==
  ASSUME NEW f, NEW O, NEW b, Splits(f, O, b), O # {}, NEW s \in SetToSeqs(O)
  PROVE  f \o s \o b \in Schedule
<1> DEFINE t == f \o s
           c == t \o b
<1>1. /\ O \in SUBSET Job /\ O = Job \ (Range(f) \cup Range(b)) /\ Distinct(f) /\ Distinct(b)
  BY DEF Splits
<1>2. /\ Distinct(s) /\ Range(s) = O /\ Distinct(c)
  <2>1. Distinct(s) /\ Range(s) = O
    BY <1>1, SequencesOf
  <2>2. Completes(f \o s \o b, f, O, b)
    BY CompletesNode
  <2> QED BY <2>1, <2>2 DEF Completes
<1>3. /\ f \in Seq(Job) /\ s \in Seq(Job) /\ b \in Seq(Job)
      /\ Range(f) = {f[i] : i \in 1 .. Len(f)} /\ Range(s) = {s[i] : i \in 1 .. Len(s)}
      /\ Range(b) = {b[i] : i \in 1 .. Len(b)} /\ Range(c) = {c[i] : i \in 1 .. Len(c)}
      /\ Range(c) \in SUBSET Job
  <2> HIDE DEF c
  <2>1. \A e : Distinct(e) => /\ e \in Seq(Job) /\ Range(e) = {e[i] : i \in 1 .. Len(e)}
                             /\ Range(e) \in SUBSET Job
    BY DistinctSize DEF Distinct
  <2> QED BY <1>1, <1>2, <2>1
<1>4. /\ t \in Seq(Job) /\ Len(t) = Len(f) + Len(s)
      /\ \A i \in 1 .. Len(f) + Len(s) : t[i] = IF i <= Len(f) THEN f[i] ELSE s[i - Len(f)]
  BY <1>3, ConcatElements
<1> HIDE DEF t
<1>5. /\ Len(c) = Len(t) + Len(b)
      /\ \A i \in 1 .. Len(t) + Len(b) : c[i] = IF i <= Len(t) THEN t[i] ELSE b[i - Len(t)]
  BY <1>3, <1>4, ConcatElements
<1> HIDE DEF c
<1>6. Len(f) \in Nat /\ Len(s) \in Nat /\ Len(b) \in Nat
  BY <1>3
<1>7. \A j \in Job : j \in Range(c)
  <2> TAKE j \in Job
  <2>1. CASE j \in Range(f)
    <3>1. PICK i \in 1 .. Len(f) : j = f[i]
      BY <1>3, <2>1
    <3>2. i \in 1 .. Len(f) + Len(s) /\ i <= Len(f) /\ i \in 1 .. Len(t) + Len(b) /\ i <= Len(t)
      BY <1>4, <1>6
    <3>3. c[i] = j
      BY <1>4, <1>5, <3>1, <3>2
    <3> QED BY <1>3, <1>5, <3>2, <3>3
  <2>2. CASE j \in Range(b)
    <3>1. PICK i \in 1 .. Len(b) : j = b[i]
      BY <1>3, <2>2
    <3>2. /\ Len(t) + i \in 1 .. Len(t) + Len(b) /\ ~(Len(t) + i <= Len(t))
          /\ (Len(t) + i) - Len(t) = i
      BY <1>4, <1>6
    <3>3. c[Len(t) + i] = j
      BY <1>5, <3>1, <3>2
    <3> QED BY <1>3, <1>5, <3>2, <3>3
  <2>3. CASE j \in O
    <3>1. PICK i \in 1 .. Len(s) : j = s[i]
      BY <1>2, <1>3, <2>3
    <3>2. /\ Len(f) + i \in 1 .. Len(f) + Len(s) /\ ~(Len(f) + i <= Len(f))
          /\ (Len(f) + i) - Len(f) = i /\ Len(f) + i <= Len(t) /\ Len(f) + i \in 1 .. Len(t) + Len(b)
      BY <1>4, <1>6
    <3>3. t[Len(f) + i] = j
      BY <1>4, <3>1, <3>2
    <3>4. c[Len(f) + i] = j
      BY <1>5, <3>2, <3>3
    <3> QED BY <1>3, <1>5, <3>2, <3>4
  <2> QED BY <1>1, <2>1, <2>2, <2>3
<1>8. Range(c) = Job
  BY <1>3, <1>7
<1>9. c \in Schedule
  BY <1>2, <1>8 DEF Schedule, Distinct
<1> QED BY <1>9 DEF c, t

\* The leaves that boundLeaves evaluates are schedules.
LEMMA LeavesOf ==
  ASSUME \A k \in IVM : ivm[k].state # 0 => NodeOK(ivm[k])
  PROVE  Leaves \in Seq(Schedule)
<1> DEFINE n == nbIVM
           D == Seq(Schedule)
           leaf(x) == front(x) \o SetToSeq(open(x)) \o back(x)
           at(k) == ivm[k - 1].state # 0 /\ line(ivm[k - 1]) = size - 1
           next(k, L) == IF at(k) THEN Append(L, leaf(ivm[k - 1])) ELSE L
           step(reached) ==
             [k \in 0 .. nbIVM |->
                IF k = 0 THEN <<>>
                ELSE LET x == ivm[k - 1] IN
                     IF x.state # 0 /\ line(x) = size - 1
                     THEN Append(reached[k - 1], front(x) \o SetToSeq(open(x)) \o back(x))
                     ELSE reached[k - 1]]
           g == [e \in (1 .. n) \X D |-> next(e[1], e[2])]
<1>1. n \in Nat /\ IVM = 0 .. n - 1
  BY IvmNumbers
<1>2. \A k \in 1 .. n : at(k) => leaf(ivm[k - 1]) \in Schedule
  <2> TAKE k \in 1 .. n
  <2> HAVE at(k)
  <2> DEFINE x == ivm[k - 1]
  <2>1. k - 1 \in IVM
    BY <1>1
  <2>2. NodeOK(x) /\ line(x) = size - 1
    BY <2>1
  <2> HIDE DEF x
  <2>3. /\ Splits(front(x), open(x), back(x)) /\ Cardinality(open(x)) = size - line(x)
    BY <2>2, SplitsOf DEF NodeOK, Inside
  <2>4. open(x) # {}
    <3>1. Cardinality(open(x)) # 0
      BY <2>2, <2>3, MatrixSize
    <3> QED BY <3>1, FS_EmptySet
  <2>5. SetToSeq(open(x)) \in SetToSeqs(open(x))
    BY <2>3, SequencesOf DEF Splits
  <2>6. leaf(x) \in Schedule
    BY <2>3, <2>4, <2>5, LeafSchedule
  <2> QED BY <2>6 DEF x
<1>3. \A k \in 1 .. n : \A L \in D : next(k, L) \in D
  <2> TAKE k \in 1 .. n
  <2> TAKE L \in D
  <2>1. CASE at(k)
    <3>1. leaf(ivm[k - 1]) \in Schedule
      BY <1>2, <2>1
    <3> HIDE DEF leaf
    <3>2. Append(L, leaf(ivm[k - 1])) \in Seq(Schedule)
      BY <3>1
    <3> QED BY <2>1, <3>2
  <2>2. CASE ~at(k)
    BY <2>2
  <2> QED BY <2>1, <2>2
<1>4. <<>> \in D
  OBVIOUS
<1>5. \A f : step(f) = [k \in 0 .. n |-> IF k = 0 THEN <<>> ELSE next(k, f[k - 1])]
  OBVIOUS
<1> HIDE DEF next, D, step
<1>6. g \in [(1 .. n) \X D -> D]
  <2> HIDE DEF n
  <2> QED BY <1>3
<1>7. PICK f \in [0 .. n -> D] : Recurs(f, n, <<>>, g)
  <2> HIDE DEF g, n
  <2> QED BY <1>1, <1>4, <1>6, Recursive
<1>8. f = step(f)
  <2>1. ASSUME NEW k \in 0 .. n, k # 0
        PROVE  g[<<k, f[k - 1]>>] = next(k, f[k - 1])
    <3>1. k \in 1 .. n /\ f[k - 1] \in D
      <4> HIDE DEF n
      <4> QED BY <1>1, <2>1
    <3> HIDE DEF n
    <3> QED BY <3>1
  <2>2. step(f) = [k \in 0 .. n |-> IF k = 0 THEN <<>> ELSE g[<<k, f[k - 1]>>]]
    <3> HIDE DEF g, n
    <3> QED BY <1>5, <2>1
  <2> QED BY <1>7, <2>2 DEF Recurs
<1>9. PICK h : h = step(h) /\ Leaves = h[n]
  BY <1>8 DEF Leaves, step
<1>10. \A k \in 0 .. n : h[k] = IF k = 0 THEN <<>> ELSE next(k, h[k - 1])
  <2> HIDE DEF n
  <2> QED BY <1>5, <1>9
<1>11. \A k \in 0 .. n : k \in {i \in 0 .. n : h[i] \in D}
  <2> DEFINE S == {i \in 0 .. n : h[i] \in D}
  <2>1. 0 \in S
    <3>1. 0 \in 0 .. n
      BY <1>1
    <3>2. h[0] = <<>>
      <4> HIDE DEF n
      <4> QED BY <1>10, <3>1
    <3> HIDE DEF n
    <3> QED BY <1>4, <3>1, <3>2
  <2>2. ASSUME NEW k \in 0 .. n - 1, k \in S PROVE k + 1 \in S
    <3>1. k + 1 \in 0 .. n /\ (k + 1) - 1 = k /\ k + 1 # 0 /\ k + 1 \in 1 .. n
      BY <1>1
    <3>2. h[k + 1] = next(k + 1, h[k])
      <4> HIDE DEF n
      <4> QED BY <1>10, <3>1
    <3>3. h[k] \in D
      BY <2>2
    <3> HIDE DEF n
    <3> QED BY <1>3, <3>1, <3>2, <3>3
  <2> HIDE DEF S, n
  <2> QED BY <1>1, <2>1, <2>2, UpTo DEF S
<1>12. h[n] \in D
  <2>1. n \in 0 .. n
    BY <1>1
  <2> HIDE DEF n
  <2> QED BY <1>11, <2>1
<1> QED BY <1>9, <1>12 DEF D

\* The first of the positions with the smallest value.
LEMMA FirstBestOf ==
  ASSUME NEW positions \in SUBSET Nat, positions # {}, NEW value,
         \A p \in positions : value[p] \in Nat
  PROVE  /\ FirstBest(value, positions) \in positions
         /\ \A q \in positions : value[FirstBest(value, positions)] <= value[q]
<1> DEFINE V == {value[p] : p \in positions}
           Good(p) == \A q \in positions :
                        value[p] < value[q] \/ (value[p] = value[q] /\ p <= q)
<1>1. V \in SUBSET Nat /\ V # {}
  OBVIOUS
<1>2. PICK v \in V : \A x \in V : v <= x
  <2> HIDE DEF V
  <2>1. PICK e \in V : TRUE
    BY <1>1
  <2> QED BY <1>1, <2>1, LeastNumber
<1> DEFINE P == {p \in positions : value[p] = v}
<1>3. P \in SUBSET Nat /\ P # {}
  OBVIOUS
<1>4. PICK p \in P : \A x \in P : p <= x
  <2> HIDE DEF P
  <2>1. PICK e \in P : TRUE
    BY <1>3
  <2> QED BY <1>3, <2>1, LeastNumber
<1>5. p \in positions /\ Good(p)
  <2>1. p \in positions /\ value[p] = v
    OBVIOUS
  <2>2. ASSUME NEW q \in positions
        PROVE  value[p] < value[q] \/ (value[p] = value[q] /\ p <= q)
    <3>1. value[q] \in V /\ value[q] \in Nat /\ v \in Nat
      BY <1>1
    <3>2. v <= value[q]
      BY <1>2, <3>1
    <3>3. value[q] = v => p <= q
      BY <1>4
    <3> QED BY <2>1, <3>1, <3>2, <3>3
  <2> QED BY <2>1, <2>2
<1>6. FirstBest(value, positions) = CHOOSE x \in positions : Good(x)
  BY DEF FirstBest
<1> HIDE DEF Good, V, P
<1>7. PICK m \in positions : m = FirstBest(value, positions) /\ Good(m)
  BY <1>5, <1>6
<1>8. \A q \in positions : value[m] <= value[q]
  <2> TAKE q \in positions
  <2>1. value[m] < value[q] \/ value[m] = value[q]
    BY <1>7 DEF Good
  <2>2. value[m] \in Nat /\ value[q] \in Nat
    OBVIOUS
  <2> QED BY <2>1, <2>2
<1> QED BY <1>7, <1>8

\* Schedules have makespans, and none is below the optimum.
LEMMA OptimumLeast ==
  ASSUME ptm \in Instances
  PROVE  /\ Optimum \in Nat
         /\ \A s \in Schedule : evalSolution(s) \in Nat /\ Optimum <= evalSolution(s)
<1> DEFINE V == {evalSolution(s) : s \in SetToSeqs(Job)}
<1>1. \A s \in SetToSeqs(Job) : evalSolution(s) \in Nat
  BY SequencesOf, EvalOf
<1>2. V \in SUBSET Nat
  BY <1>1
<1>3. SetToSeq(Job) \in SetToSeqs(Job)
  BY SequencesOf
<1>4. evalSolution(SetToSeq(Job)) \in V
  BY <1>3
<1>5. Optimum = Min(V)
  BY DEF Optimum
<1>6. \A s \in Schedule : evalSolution(s) \in V
  <2> TAKE s \in Schedule
  <2>1. s \in SetToSeqs(Job)
    BY Schedules DEF Schedule
  <2> QED BY <2>1
<1> HIDE DEF V
<1>7. Min(V) \in V /\ \A e \in V : Min(V) <= e
  BY <1>2, <1>4, LeastNumber
<1> QED BY <1>2, <1>5, <1>6, <1>7

\* The optimum is an int.
LEMMA OptimumBelow ==
  ASSUME ptm \in Instances
  PROVE  Optimum <= INT_MAX /\ INT_MAX \in Nat
<1> DEFINE s == SetToSeq(Job)
           n == Len(s)
<1>1. PICK longest \in 0 .. INT_MAX :
        /\ \A p \in Instances : \A m \in Machine : \A j \in Job : p[m][j] <= longest
        /\ (nbJob + nbMachines) * longest < INT_MAX
  BY HeuristicsAssumption
<1>2. INT_MAX \in Nat /\ longest \in Nat
  BY HeuristicsAssumption
<1>3. /\ s \in SetToSeqs(Job) /\ Distinct(s) /\ s \in Seq(Job) /\ n = nbJob
  BY SequencesOf, JobCount
<1>4. PICK h : HeadsOf(h, s) /\ evalSolution(s) = h[n][nbMachines]
  BY <1>3, EvalOf
<1>5. /\ \A k \in 0 .. n : \A m \in Machine : h[k][m] \in Nat
      /\ \A k \in 1 .. n : \A m \in Machine :
           h[k][m] = (IF m = 1 THEN h[k - 1][1] ELSE Larger(h[k - 1][m], h[k][m - 1]))
                       + ptm[m][s[k]]
      /\ \A m \in Machine : h[0][m] = 0
  <2>1. h[0] = NoTime
    BY <1>4 DEF HeadsOf
  <2> QED BY <1>3, <1>4, <2>1, HeadsGrow DEF NoTime
<1>6. \A k \in 1 .. n : s[k] \in Job
  BY <1>3
<1>7. \A k \in 1 .. n : \A m \in Machine : ptm[m][s[k]] \in Nat /\ ptm[m][s[k]] <= longest
  BY <1>1, <1>6, Durations
<1> HIDE DEF s, n
<1> DEFINE w(i) == i * longest
<1>8. \A i \in Nat : w(i) \in Nat /\ w(i + 1) = w(i) + longest
  BY <1>2
<1>9. \A i \in Nat, j \in Nat : i <= j => w(i) <= w(j)
  BY <1>2, Times
<1>10. (nbJob + nbMachines) * longest = w(nbJob + nbMachines)
  OBVIOUS
<1> HIDE DEF w
<1>11. /\ n \in Nat /\ n = nbJob /\ nbMachines \in Nat /\ nbMachines \in Machine /\ 1 \in Machine
       /\ Machine = 1 .. nbMachines
  BY <1>3, Sizes
<1> DEFINE Low(k, m) == h[k][m] <= w(k + m)
           S == {k \in 0 .. n : \A m \in Machine : Low(k, m)}
<1>12. 0 \in S
  <2>1. ASSUME NEW m \in Machine PROVE Low(0, m)
    <3>1. h[0][m] = 0 /\ 0 + m \in Nat
      BY <1>5, <1>11
    <3>2. w(0 + m) \in Nat
      BY <1>8, <3>1
    <3> QED BY <3>1, <3>2
  <2> HIDE DEF Low
  <2> QED BY <1>11, <2>1
<1>13. ASSUME NEW k \in 0 .. n - 1, k \in S PROVE k + 1 \in S
  <2>1. k + 1 \in 1 .. n /\ k + 1 \in 0 .. n /\ (k + 1) - 1 = k /\ k \in Nat
    BY <1>11
  <2> DEFINE T == {i \in 0 .. nbMachines : i = 0 \/ Low(k + 1, i)}
  <2>2. 0 \in T
    BY <1>11
  <2>3. ASSUME NEW i \in 0 .. nbMachines - 1, i \in T PROVE i + 1 \in T
    <3>1. i + 1 \in Machine /\ i + 1 \in 0 .. nbMachines /\ (i + 1) - 1 = i /\ i \in Nat
      BY <1>11
    <3> DEFINE a == h[k][i + 1]
               b == h[k + 1][i]
               c == h[k + 1][i + 1]
               d == ptm[i + 1][s[k + 1]]
    <3>2. c = (IF i + 1 = 1 THEN h[k][1] ELSE Larger(a, b)) + d
      BY <1>5, <2>1, <3>1
    <3>3. d \in Nat /\ d <= longest /\ a \in Nat /\ c \in Nat
      <4>1. d \in Nat /\ d <= longest
        <5> HIDE DEF S, T, Low
        <5> QED BY <1>7, <2>1, <3>1
      <4>2. k \in 0 .. n
        BY <1>11
      <4>3. a \in Nat /\ c \in Nat
        <5> HIDE DEF S, T, Low
        <5> QED BY <1>5, <2>1, <3>1, <4>2
      <4> QED BY <4>1, <4>3
    <3>4. a <= w(k + (i + 1))
      BY <1>13, <3>1
    <3>5. k + (i + 1) \in Nat /\ (k + 1) + (i + 1) = (k + (i + 1)) + 1 /\ (k + 1) + i = k + (i + 1)
      BY <2>1, <3>1
    <3>6. w((k + 1) + (i + 1)) = w(k + (i + 1)) + longest /\ w(k + (i + 1)) \in Nat
      BY <1>8, <3>5
    <3>7. CASE i = 0
      <4>1. c = a + d
        BY <3>2, <3>7
      <4> HIDE DEF a, c, d
      <4>2. c <= w((k + 1) + (i + 1))
        BY <1>2, <3>3, <3>4, <3>6, <4>1
      <4> QED BY <3>1, <4>2 DEF c
    <3>8. CASE i # 0
      <4>1. i \in Machine /\ i + 1 # 1
        BY <1>11, <3>1, <3>8
      <4>2. b <= w(k + (i + 1)) /\ b \in Nat
        BY <1>5, <2>1, <2>3, <3>5, <3>8, <4>1
      <4>3. c = Larger(a, b) + d
        BY <3>2, <4>1
      <4> HIDE DEF a, b, c, d
      <4>4. c <= w((k + 1) + (i + 1))
        BY <1>2, <3>3, <3>4, <3>6, <4>2, <4>3 DEF Larger
      <4> QED BY <3>1, <4>4 DEF c
    <3> QED BY <3>7, <3>8
  <2>4. \A i \in 0 .. nbMachines : i \in T
    <3> HIDE DEF T
    <3> QED BY <1>11, <2>2, <2>3, UpTo
  <2>5. ASSUME NEW m \in Machine PROVE Low(k + 1, m)
    BY <1>11, <2>4
  <2> HIDE DEF Low
  <2> QED BY <2>1, <2>5
<1>14. \A k \in 0 .. n : k \in S
  <2> HIDE DEF S
  <2> QED BY <1>11, <1>12, <1>13, UpTo
<1>15. h[n][nbMachines] <= w(nbJob + nbMachines)
  BY <1>11, <1>14
<1>16. evalSolution(s) \in Nat /\ Optimum \in Nat /\ Optimum <= evalSolution(s)
  <2>1. s \in Schedule
    BY <1>3, Schedules
  <2> QED BY <2>1, OptimumLeast
<1>17. w(nbJob + nbMachines) \in Nat /\ w(nbJob + nbMachines) < INT_MAX
  <2>1. nbJob + nbMachines \in Nat
    BY <1>11
  <2> QED BY <1>1, <1>8, <1>10, <2>1
<1> QED BY <1>2, <1>4, <1>15, <1>16, <1>17

-----------------------------------------------------------------------------
(* Putting jobs into a schedule and taking them out *)

\* A job is put into a list.
LEMMA InsertedList ==
  ASSUME NEW s, Distinct(s), NEW j \in Job, j \notin Range(s), NEW p \in 1 .. Len(s) + 1
  PROVE  /\ Distinct(InsertAt(s, p, j)) /\ Len(InsertAt(s, p, j)) = Len(s) + 1
         /\ Range(InsertAt(s, p, j)) = Range(s) \cup {j}
         /\ InsertAt(s, p, j) \in Seq(Job)
<1> DEFINE n == Len(s)
           v == InsertAt(s, p, j)
<1>1. /\ s \in Seq(Job) /\ n \in Nat /\ \A i, k \in 1 .. n : s[i] = s[k] => i = k
      /\ Range(s) = {s[i] : i \in 1 .. n}
  BY DistinctSize DEF Distinct
<1>2. /\ v \in Seq(Job) /\ Len(v) = n + 1 /\ DOMAIN v = 1 .. n + 1
      /\ \A i \in 1 .. n + 1 : v[i] = IF i < p THEN s[i] ELSE IF i = p THEN j ELSE s[i - 1]
  BY <1>1, InsertAtElements
<1> HIDE DEF v, n
<1>3. p \in 1 .. n + 1
  BY DEF n
<1>4. \A i \in 1 .. n + 1 : /\ i < p => i \in 1 .. n /\ v[i] = s[i]
                            /\ i = p => v[i] = j
                            /\ i > p => i - 1 \in 1 .. n /\ v[i] = s[i - 1]
  BY <1>1, <1>2, <1>3
<1>5. \A i \in 1 .. n + 1 : i # p => v[i] \in Range(s) /\ v[i] # j
  <2> TAKE i \in 1 .. n + 1
  <2> HAVE i # p
  <2>1. i < p \/ i > p
    BY <1>1, <1>3
  <2> QED BY <1>1, <1>4, <2>1
<1>6. \A i, k \in 1 .. n + 1 : v[i] = v[k] => i = k
  <2> TAKE i, k \in 1 .. n + 1
  <2> HAVE v[i] = v[k]
  <2>1. CASE i = p \/ k = p
    BY <1>4, <1>5, <2>1
  <2>2. CASE i < p /\ k < p
    BY <1>1, <1>4, <2>2
  <2>3. CASE i > p /\ k > p
    <3>1. i - 1 = k - 1
      BY <1>1, <1>4, <2>3
    <3> QED BY <1>1, <3>1
  <2>4. CASE i < p /\ k > p
    <3>1. i = k - 1
      BY <1>1, <1>4, <2>4
    <3> QED BY <1>1, <1>3, <2>4, <3>1
  <2>5. CASE i > p /\ k < p
    <3>1. k = i - 1
      BY <1>1, <1>4, <2>5
    <3> QED BY <1>1, <1>3, <2>5, <3>1
  <2> QED BY <1>1, <1>3, <2>1, <2>2, <2>3, <2>4, <2>5
<1>7. Range(v) = {v[i] : i \in 1 .. n + 1}
  BY <1>2 DEF Range
<1>8. \A i \in 1 .. n : s[i] \in Range(v)
  <2> TAKE i \in 1 .. n
  <2>1. CASE i < p
    <3>1. i \in 1 .. n + 1
      BY <1>1
    <3> QED BY <1>4, <1>7, <2>1, <3>1
  <2>2. CASE ~(i < p)
    <3>1. i + 1 \in 1 .. n + 1 /\ i + 1 > p /\ (i + 1) - 1 = i
      BY <1>1, <1>3, <2>2
    <3>2. v[i + 1] = s[i]
      BY <1>4, <3>1
    <3> QED BY <1>7, <3>1, <3>2
  <2> QED BY <2>1, <2>2
<1>9. j \in Range(v)
  BY <1>3, <1>4, <1>7
<1>10. \A i \in 1 .. n + 1 : v[i] \in Range(s) \cup {j}
  BY <1>4, <1>5
<1>11. Range(v) = Range(s) \cup {j}
  BY <1>1, <1>7, <1>8, <1>9, <1>10
<1> QED BY <1>2, <1>6, <1>11 DEF Distinct, n, v

\* A job is taken out of a list.
LEMMA RemovedList ==
  ASSUME NEW s, Distinct(s), NEW p \in 1 .. Len(s)
  PROVE  /\ Distinct(RemoveAt(s, p)) /\ Len(RemoveAt(s, p)) = Len(s) - 1
         /\ Range(RemoveAt(s, p)) = Range(s) \ {s[p]}
         /\ RemoveAt(s, p) \in Seq(Job)
<1> DEFINE n == Len(s)
           v == RemoveAt(s, p)
           up(i) == IF i < p THEN i ELSE i + 1
<1>1. /\ s \in Seq(Job) /\ n \in Nat /\ \A i, k \in 1 .. n : s[i] = s[k] => i = k
      /\ Range(s) = {s[i] : i \in 1 .. n} /\ p \in 1 .. n
  BY DistinctSize DEF Distinct
<1>2. /\ v \in Seq(Job) /\ Len(v) = n - 1 /\ DOMAIN v = 1 .. n - 1
      /\ \A i \in 1 .. n - 1 : v[i] = s[IF i < p THEN i ELSE i + 1]
  <2>1. v = SubSeq(s, 1, p - 1) \o SubSeq(s, p + 1, Len(s))
    BY DEF RemoveAt
  <2> HIDE DEF v
  <2> QED BY <1>1, <2>1, WithoutElements
<1> HIDE DEF v, n
<1>3. /\ \A i \in 1 .. n - 1 : up(i) \in 1 .. n /\ up(i) # p
      /\ \A i, k \in 1 .. n - 1 : up(i) = up(k) => i = k
  BY <1>1
<1>4. \A i \in 1 .. n : i # p => \E k \in 1 .. n - 1 : up(k) = i
  <2> TAKE i \in 1 .. n
  <2> HAVE i # p
  <2>1. CASE i < p
    <3>1. i \in 1 .. n - 1 /\ up(i) = i
      BY <1>1, <2>1
    <3> QED BY <3>1
  <2>2. CASE i > p
    <3>1. i - 1 \in 1 .. n - 1 /\ up(i - 1) = i
      BY <1>1, <2>2
    <3> QED BY <3>1
  <2> QED BY <1>1, <2>1, <2>2
<1>5. \A i \in 1 .. n - 1 : v[i] = s[up(i)]
  BY <1>2
<1> HIDE DEF up
<1>6. \A i, k \in 1 .. n - 1 : v[i] = v[k] => i = k
  <2> TAKE i, k \in 1 .. n - 1
  <2> HAVE v[i] = v[k]
  <2>1. up(i) = up(k)
    BY <1>1, <1>3, <1>5
  <2> QED BY <1>3, <2>1
<1>7. Range(v) = {v[i] : i \in 1 .. n - 1}
  BY <1>2 DEF Range
<1>8. \A i \in 1 .. n - 1 : v[i] \in Range(s) \ {s[p]}
  BY <1>1, <1>3, <1>5
<1>9. \A e \in Range(s) \ {s[p]} : e \in Range(v)
  <2> TAKE e \in Range(s) \ {s[p]}
  <2>1. PICK i \in 1 .. n : e = s[i]
    BY <1>1
  <2>2. i # p
    BY <2>1
  <2>3. PICK k \in 1 .. n - 1 : up(k) = i
    BY <1>4, <2>2
  <2>4. v[k] = e
    BY <1>5, <2>1, <2>3
  <2> QED BY <1>7, <2>4
<1>10. Range(v) = Range(s) \ {s[p]}
  BY <1>7, <1>8, <1>9
<1> QED BY <1>2, <1>6, <1>10 DEF Distinct, n, v

\* The makespan of a list with a job more, at the end.
LEMMA Appended ==
  ASSUME ptm \in Instances, NEW s, Distinct(s), NEW j \in Job, j \notin Range(s)
  PROVE  /\ evalSolution(InsertAt(s, Len(s) + 1, j)) = AddFirst(Heads(s), j)[nbMachines]
         /\ AddFirst(Heads(s), j) \in Time
<1> DEFINE n == Len(s)
           v == InsertAt(s, n + 1, j)
<1>1. s \in Seq(Job) /\ n \in Nat
  BY DEF Distinct
<1>2. n + 1 \in 1 .. n + 1
  BY <1>1
<1>3. /\ v \in Seq(Job) /\ Len(v) = n + 1
      /\ \A i \in 1 .. n + 1 : v[i] = IF i < n + 1 THEN s[i] ELSE IF i = n + 1 THEN j ELSE s[i - 1]
  BY <1>1, <1>2, InsertAtElements
<1> HIDE DEF v, n
<1>4. v[n + 1] = j /\ \A i \in 1 .. n : v[i] = s[i]
  BY <1>1, <1>3
<1>5. PICK h : HeadsOf(h, v) /\ Heads(v) = h[n + 1]
  BY <1>3, HeadsExist
<1>6. Heads(s) = h[n]
  <2>1. n <= Len(v)
    BY <1>1, <1>3
  <2> QED BY <1>1, <1>3, <1>4, <1>5, <2>1, HeadsOfBeginning DEF n
<1>7. h[n + 1] = AddFirst(h[n], j) /\ h[n + 1] \in Time
  <2>1. n + 1 \in 1 .. Len(v) /\ (n + 1) - 1 = n /\ n + 1 \in 0 .. Len(v)
    BY <1>1, <1>3
  <2>2. h[n + 1] = AddFirst(h[(n + 1) - 1], v[n + 1])
    BY <1>5, <2>1 DEF HeadsOf
  <2> QED BY <1>4, <1>5, <2>1, <2>2 DEF HeadsOf
<1> QED BY <1>5, <1>6, <1>7 DEF evalSolution, v, n

\* What insertJob finds are makespans, and numbers.
LEMMA Insertions ==
  ASSUME ptm \in Instances, NEW s, Distinct(s), NEW j \in Job, j \notin Range(s)
  PROVE  /\ DOMAIN insertJob(s, j) = 1 .. Len(s)
         /\ insertJob(s, j) \in Seq(Nat) /\ Len(insertJob(s, j)) = Len(s)
         /\ \A p \in 1 .. Len(s) : /\ insertJob(s, j)[p] = evalSolution(InsertAt(s, p, j))
                                   /\ insertJob(s, j)[p] \in Nat
         /\ \A p \in 1 .. Len(s) + 1 : evalSolution(InsertAt(s, p, j)) \in Nat
<1> DEFINE n == Len(s)
           v == insertJob(s, j)
<1>1. n \in Nat
  BY DEF Distinct
<1>2. \A p \in 1 .. n + 1 : evalSolution(InsertAt(s, p, j)) \in Nat
  BY InsertedList, EvalOf
<1>3. v = [p \in 1 .. n |-> evalSolution(InsertAt(s, p, j))]
  BY DEF insertJob
<1> HIDE DEF v, n
<1>4. \A p \in 1 .. n : v[p] = evalSolution(InsertAt(s, p, j)) /\ v[p] \in Nat
  BY <1>1, <1>2, <1>3
<1>5. v \in Seq(Nat) /\ Len(v) = n /\ DOMAIN v = 1 .. n
  <2>1. v = [p \in 1 .. n |-> v[p]]
    BY <1>3
  <2> QED BY <1>1, <1>4, <2>1
<1> QED BY <1>2, <1>4, <1>5 DEF v, n

\* What insertMakespans finds is never below the makespan, whatever the tail.
LEMMA StaleInsertions ==
  ASSUME ptm \in Instances, NEW s, Distinct(s), NEW j \in Job, j \notin Range(s), NEW stale \in Time
  PROVE  \A p \in 1 .. Len(s) + 1 :
           /\ insertMakespans(s, j, stale)[p] \in Nat
           /\ evalSolution(InsertAt(s, p, j)) <= insertMakespans(s, j, stale)[p]
<1> DEFINE n == Len(s)
           v == insertJob(s, j)
           inser == AddFirst(Heads(s), j)
           x == [m \in 1 .. nbMachines |-> inser[m] + stale[m]]
           e == Max({inser[m] + stale[m] : m \in Machine})
           w == insertMakespans(s, j, stale)
<1>1. n \in Nat
  BY DEF Distinct
<1>2. /\ v \in Seq(Nat) /\ Len(v) = n
      /\ \A p \in 1 .. n : v[p] = evalSolution(InsertAt(s, p, j)) /\ v[p] \in Nat
      /\ \A p \in 1 .. n + 1 : evalSolution(InsertAt(s, p, j)) \in Nat
  BY Insertions
<1>3. inser \in Time /\ evalSolution(InsertAt(s, n + 1, j)) = inser[nbMachines]
  BY Appended
<1>4. w = Append(v, e)
  BY DEF insertMakespans
<1>5. e \in Nat /\ inser[nbMachines] <= e
  <2>1. \A m \in Machine : inser[m] \in Nat /\ stale[m] \in Nat
    <3> HIDE DEF inser
    <3> QED BY <1>3 DEF Time
  <2> HIDE DEF inser
  <2>2. x \in [1 .. nbMachines -> Nat] /\ nbMachines \in Nat \ {0} /\ nbMachines \in 1 .. nbMachines
    BY <2>1, Sizes
  <2>3. {x[k] : k \in 1 .. nbMachines} = {inser[m] + stale[m] : m \in Machine}
    BY Sizes
  <2>4. e = Max({x[k] : k \in 1 .. nbMachines})
    BY <2>3
  <2>5. x[nbMachines] = inser[nbMachines] + stale[nbMachines]
    BY <2>2
  <2> HIDE DEF x, e
  <2>6. e \in Nat /\ x[nbMachines] <= e
    BY <2>2, <2>4, LargestValue
  <2>7. inser[nbMachines] \in Nat /\ stale[nbMachines] \in Nat
    BY <2>1, Sizes
  <2> QED BY <2>5, <2>6, <2>7
<1> HIDE DEF v, n, e, w, inser
<1>6. /\ \A p \in 1 .. n : w[p] = v[p]
      /\ w[n + 1] = e
  BY <1>1, <1>2, <1>4, <1>5
<1>7. \A p \in 1 .. n + 1 : w[p] \in Nat /\ evalSolution(InsertAt(s, p, j)) <= w[p]
  <2> TAKE p \in 1 .. n + 1
  <2>1. CASE p = n + 1
    BY <1>3, <1>5, <1>6, <2>1
  <2>2. CASE p # n + 1
    <3>1. p \in 1 .. n
      BY <1>1, <2>2
    <3> QED BY <1>2, <1>6, <3>1
  <2> QED BY <2>1, <2>2
<1> QED BY <1>7 DEF n, w

-----------------------------------------------------------------------------
(* Chains of moves *)

\* What a recursion begins with and each step keeps, it has throughout.
LEMMA Stays ==
  ASSUME NEW n \in Nat, NEW D, NEW h, h[0] \in D, \A k \in 1 .. n : h[k - 1] \in D => h[k] \in D
  PROVE  \A k \in 0 .. n : h[k] \in D
<1> DEFINE S == {k \in 0 .. n : h[k] \in D}
<1>1. 0 \in S
  OBVIOUS
<1>2. ASSUME NEW k \in 0 .. n - 1, k \in S PROVE k + 1 \in S
  <2>1. k + 1 \in 1 .. n /\ (k + 1) - 1 = k /\ k + 1 \in 0 .. n
    OBVIOUS
  <2>2. h[(k + 1) - 1] \in D
    BY <1>2, <2>1
  <2> QED BY <2>1, <2>2
<1>3. \A k \in 0 .. n : k \in S
  <2> HIDE DEF S
  <2> QED BY <1>1, <1>2, UpTo
<1> QED BY <1>3

\* kmax is one of the positions.
LEMMA TurnCount == kmax \in Position /\ kmax - 1 \in Nat
<1> DEFINE S == {k \in Position : k * k <= nbJob}
<1>1. nbJob \in Nat /\ nbJob >= 2
  BY Sizes
<1>2. IsFiniteSet(S)
  <2>1. IsFiniteSet(1 .. nbJob)
    BY <1>1, FS_Interval
  <2>2. S \subseteq 1 .. nbJob
    BY DEF Position
  <2> HIDE DEF S
  <2> QED BY <2>1, <2>2, FS_Subset
<1>3. 1 \in S
  BY <1>1 DEF Position
<1>4. S \in SUBSET Nat
  BY DEF Position
<1>5. kmax = Max(S)
  BY DEF kmax
<1> HIDE DEF S
<1>6. kmax \in S
  BY <1>2, <1>3, <1>4, <1>5, LargestNumber
<1>7. kmax \in Position
  BY <1>6 DEF S
<1> QED BY <1>1, <1>7 DEF Position

\* The positions of a schedule, from the middle outwards, are positions.
LEMMA VisitPosition == \A i \in Position : visitOrder[i] \in Position
<1> TAKE i \in Position
<1> DEFINE a == nbJob \div 2
           b == nbJob % 2
           c == i \div 2
           d == i % 2
<1>1. nbJob \in Nat /\ i \in Nat /\ i <= nbJob /\ i >= 1
  BY Sizes DEF Position
<1>2. a \in Nat /\ b \in Nat /\ b < 2 /\ nbJob = a * 2 + b
  BY <1>1, QuotientRemainder
<1>3. c \in Nat /\ d \in Nat /\ d < 2 /\ i = c * 2 + d
  BY <1>1, QuotientRemainder
<1>4. visitOrder[i] = 1 + a + (IF d = 1 THEN c ELSE -c)
  BY DEF visitOrder
<1> HIDE DEF a, b, c, d
<1>5. CASE d = 1
  BY <1>1, <1>2, <1>3, <1>4, <1>5 DEF Position
<1>6. CASE d = 0
  BY <1>1, <1>2, <1>3, <1>4, <1>6 DEF Position
<1> QED BY <1>3, <1>5, <1>6

\* The job that bestRemove2 chooses is at a position.
LEMMA RemovePosition ==
  ASSUME NEW s, NEW tabu
  PROVE  bestRemove2(s, tabu) \in SUBSET Position
<1>1. 1 \in Position
  BY Sizes DEF Position
<1> QED BY <1>1 DEF bestRemove2

\* A schedule with one of its jobs taken out.
Cut == {c \in [arr : Seq(Job), job : Job, tabu : SUBSET Job, stale : Time] :
          Distinct(c.arr) /\ Len(c.arr) = nbJob - 1 /\ c.job \notin Range(c.arr)}

\* A move and the cost that goes with its schedule.
Move == {c \in [arr : Schedule, cmax : Nat, stale : Time] : evalSolution(c.arr) <= c.cmax}

\* Taking a job out of a schedule.
LEMMA CutOf ==
  ASSUME NEW s \in Schedule, NEW i \in Position, NEW tabu \in SUBSET Job, NEW stale \in Time
  PROVE  [arr |-> RemoveAt(s, i), job |-> s[i], tabu |-> tabu, stale |-> stale] \in Cut
<1>1. Distinct(s) /\ Len(s) = nbJob /\ s \in Seq(Job)
  BY Schedules DEF Schedule
<1>2. i \in 1 .. Len(s) /\ s[i] \in Job
  BY <1>1 DEF Position
<1>3. /\ Distinct(RemoveAt(s, i)) /\ Len(RemoveAt(s, i)) = nbJob - 1
      /\ s[i] \notin Range(RemoveAt(s, i)) /\ RemoveAt(s, i) \in Seq(Job)
  BY <1>1, <1>2, RemovedList
<1> QED BY <1>2, <1>3 DEF Cut

\* Putting it back.
LEMMA MoveOf ==
  ASSUME ptm \in Instances, NEW c \in Cut
  PROVE  bestInsert(c) \in Move
<1> DEFINE w == insertMakespans(c.arr, c.job, c.stale)
           P == 2 .. nbJob
           p == FirstBest(w, P)
<1>1. /\ Distinct(c.arr) /\ Len(c.arr) = nbJob - 1 /\ c.job \notin Range(c.arr)
      /\ c.arr \in Seq(Job) /\ c.job \in Job /\ c.stale \in Time
  BY DEF Cut
<1>2. P \in SUBSET Nat /\ P # {} /\ nbJob \in Nat /\ nbJob >= 2
  <2>1. nbJob \in Nat /\ nbJob >= 2
    BY Sizes
  <2>2. 2 \in P
    BY <2>1
  <2> QED BY <2>1, <2>2
<1>3. \A k \in 1 .. Len(c.arr) + 1 :
        /\ w[k] \in Nat
        /\ evalSolution(InsertAt(c.arr, k, c.job)) <= w[k]
  BY <1>1, StaleInsertions
<1> HIDE DEF w
<1>4. \A k \in P : k \in 1 .. Len(c.arr) + 1
  BY <1>1, <1>2
<1>5. p \in P
  <2>1. \A k \in P : w[k] \in Nat
    BY <1>3, <1>4
  <2> HIDE DEF P
  <2> QED BY <1>2, <2>1, FirstBestOf
<1>6. bestInsert(c) = [arr |-> InsertAt(c.arr, p, c.job), cmax |-> w[p], stale |-> c.stale]
  BY DEF bestInsert, w
<1> HIDE DEF P, p
<1>7. p \in 1 .. Len(c.arr) + 1
  BY <1>4, <1>5
<1>8. /\ Distinct(InsertAt(c.arr, p, c.job)) /\ Len(InsertAt(c.arr, p, c.job)) = nbJob
  BY <1>1, <1>2, <1>7, InsertedList
<1>9. InsertAt(c.arr, p, c.job) \in Schedule
  BY <1>8, Schedules
<1> QED BY <1>1, <1>3, <1>6, <1>7, <1>9 DEF Move

\* A chain of moves yields a schedule and a cost that goes with it.
LEMMA kImoveOf ==
  ASSUME ptm \in Instances, NEW s \in Schedule, NEW pos \in Position, NEW stale \in Time
  PROVE  kImove(s, pos, stale) \in SUBSET Move
<1> DEFINE n == kmax - 1
           D == SUBSET Cut
           Found(c) == bestInsert(c).cmax <= evalSolution(s)
           Taken(c) ==
             LET t == bestInsert(c).arr
             IN {[arr |-> RemoveAt(t, i), job |-> t[i], tabu |-> c.tabu \cup {c.job},
                  stale |-> Tails(<<Last(t)>>)] : i \in bestRemove2(t, c.tabu)}
           start == {[arr |-> RemoveAt(s, pos), job |-> s[pos], tabu |-> {0}, stale |-> stale]}
           next(S) == UNION {Taken(c) : c \in {d \in S : ~Found(d)}}
           step(turns) ==
             [k \in 0 .. kmax - 1 |->
                IF k = 0
                THEN {[arr |-> RemoveAt(s, pos), job |-> s[pos], tabu |-> {0}, stale |-> stale]}
                ELSE UNION {Taken(c) : c \in {d \in turns[k - 1] : ~Found(d)}}]
           ended(turns) ==
             {bestInsert(c) : c \in turns[kmax - 1] \cup UNION {{d \in turns[k] : Found(d)} :
                                                                k \in 0 .. kmax - 1}}
           g == [e \in (1 .. n) \X D |-> next(e[2])]
<1>1. n \in Nat
  BY TurnCount
<1>2. start \in D
  <2>1. {0} \in SUBSET Job
    BY Sizes
  <2> QED BY <2>1, CutOf
<1>3. \A c \in Cut : Taken(c) \in D
  <2> TAKE c \in Cut
  <2> DEFINE t == bestInsert(c).arr
             behind == Tails(<<Last(t)>>)
             more == c.tabu \cup {c.job}
  <2>1. t \in Schedule
    BY MoveOf DEF Move
  <2>2. more \in SUBSET Job
    BY DEF Cut
  <2>3. behind \in Time
    <3> HIDE DEF t
    <3>1. t \in Seq(Job) /\ Len(t) = nbJob
      BY <2>1, Schedules DEF Schedule
    <3>2. Last(t) = t[nbJob] /\ t[nbJob] \in Job
      BY <3>1, Sizes DEF Last
    <3> DEFINE u == <<Last(t)>>
    <3>3. u \in Seq(Job)
      BY <3>2
    <3>4. Len(u) \in Nat
      BY <3>3
    <3> HIDE DEF u
    <3>5. PICK r : TailsOf(r, u) /\ Tails(u) = r[1]
      BY <3>3, TailsExist
    <3>6. Tails(u) \in Time
      BY <3>4, <3>5 DEF TailsOf
    <3> QED BY <3>6 DEF u
  <2>4. Taken(c) = {[arr |-> RemoveAt(t, i), job |-> t[i], tabu |-> more, stale |-> behind] :
                       i \in bestRemove2(t, c.tabu)}
    OBVIOUS
  <2> HIDE DEF t, behind, more, Taken
  <2>5. \A i \in bestRemove2(t, c.tabu) : i \in Position
    BY RemovePosition
  <2>6. \A i \in Position :
          [arr |-> RemoveAt(t, i), job |-> t[i], tabu |-> more, stale |-> behind] \in Cut
    BY <2>1, <2>2, <2>3, CutOf
  <2> QED BY <2>4, <2>5, <2>6
<1>4. \A f : step(f) = [k \in 0 .. n |-> IF k = 0 THEN start ELSE next(f[k - 1])]
  OBVIOUS
<1> HIDE DEF Taken, Found, start
<1>5. \A S \in D : next(S) \in D
  BY <1>3
<1> HIDE DEF next, D, step
<1>6. g \in [(1 .. n) \X D -> D]
  <2> HIDE DEF n
  <2> QED BY <1>5
<1>7. PICK f \in [0 .. n -> D] : Recurs(f, n, start, g)
  <2> HIDE DEF g, n
  <2> QED BY <1>1, <1>2, <1>6, Recursive
<1>8. f = step(f)
  <2>1. ASSUME NEW k \in 0 .. n, k # 0
        PROVE  g[<<k, f[k - 1]>>] = next(f[k - 1])
    <3>1. k \in 1 .. n /\ f[k - 1] \in D
      <4> HIDE DEF n
      <4> QED BY <1>1, <2>1
    <3> HIDE DEF n
    <3> QED BY <3>1
  <2>2. step(f) = [k \in 0 .. n |-> IF k = 0 THEN start ELSE g[<<k, f[k - 1]>>]]
    <3> HIDE DEF g, n
    <3> QED BY <1>4, <2>1
  <2> QED BY <1>7, <2>2 DEF Recurs
<1>9. PICK h : h = step(h) /\ kImove(s, pos, stale) = ended(h)
  <2> DEFINE chosen == CHOOSE h : h = step(h)
  <2>1. kImove(s, pos, stale) = ended(chosen)
    BY Zenon DEF kImove, step, Taken, Found
  <2> HIDE DEF ended
  <2>2. chosen = step(chosen)
    <3> HIDE DEF step
    <3> QED BY <1>8
  <2> QED BY <2>1, <2>2
<1>10. \A k \in 0 .. n : h[k] = IF k = 0 THEN start ELSE next(h[k - 1])
  <2> HIDE DEF n
  <2> QED BY <1>4, <1>9
<1>11. \A k \in 0 .. n : h[k] \in D
  <2>1. h[0] \in D
    <3> HIDE DEF n
    <3> QED BY <1>1, <1>2, <1>10
  <2>2. \A k \in 1 .. n : h[k - 1] \in D => h[k] \in D
    <3> HIDE DEF n
    <3> TAKE k \in 1 .. n
    <3>1. k \in 0 .. n /\ k # 0
      BY <1>1
    <3> QED BY <1>5, <1>10, <3>1
  <2> HIDE DEF n
  <2> QED BY <1>1, <2>1, <2>2, Stays
<1>12. h[kmax - 1] \in D
  <2>1. h[n] \in D
    <3> HIDE DEF n
    <3>1. n \in 0 .. n
      BY <1>1
    <3> QED BY <1>11, <3>1
  <2> QED BY <2>1
<1>13. \A k \in 0 .. kmax - 1 : {d \in h[k] : Found(d)} \in SUBSET Cut
  BY <1>11 DEF D
<1>14. \A c \in h[kmax - 1] \cup UNION {{d \in h[k] : Found(d)} : k \in 0 .. kmax - 1} : c \in Cut
  BY <1>12, <1>13 DEF D
<1>15. \A c \in Cut : bestInsert(c) \in Move
  BY MoveOf
<1> QED BY <1>9, <1>14, <1>15

-----------------------------------------------------------------------------
(* NEH *)

\* Lists of the first k jobs of s.
Firsts(s, k) == {r \in Seq(Job) : Distinct(r) /\ Len(r) = k /\ Range(r) = {s[i] : i \in 1 .. k}}

\* A job is put into a list at the position that makes it shortest, or last.
LEMMA InsertedBest ==
  ASSUME ptm \in Instances, NEW r, Distinct(r), r # <<>>, NEW j \in Job, j \notin Range(r)
  PROVE  FirstBest(insertJob(r, j), 1 .. Len(r)) \in 1 .. Len(r)
<1> DEFINE P == 1 .. Len(r)
<1>1. r \in Seq(Job) /\ Len(r) \in Nat /\ Len(r) # 0
  <2>1. r \in Seq(Job)
    BY DEF Distinct
  <2> QED BY <2>1
<1>2. P \in SUBSET Nat /\ P # {}
  <2>1. 1 \in P
    BY <1>1
  <2> QED BY <2>1
<1>3. \A p \in P : insertJob(r, j)[p] \in Nat
  BY Insertions
<1> HIDE DEF P
<1>4. FirstBest(insertJob(r, j), P) \in P
  BY <1>2, <1>3, FirstBestOf
<1> QED BY <1>4 DEF P

\* One step of runNEH.
LEMMA NextBuilt ==
  ASSUME ptm \in Instances, NEW s \in Schedule, NEW k \in 3 .. nbJob, NEW r \in Firsts(s, k - 1),
         NEW p \in {FirstBest(insertJob(r, s[k]), 1 .. k - 1), k}
  PROVE  InsertAt(r, p, s[k]) \in Firsts(s, k)
<1>1. Distinct(s) /\ Len(s) = nbJob /\ \A i, l \in 1 .. nbJob : s[i] = s[l] => i = l
  BY Schedules DEF Schedule, Distinct
<1>2. nbJob \in Nat /\ k \in 1 .. nbJob /\ k \in Nat /\ k >= 3 /\ k - 1 \in Nat /\ k - 1 # 0
  BY Sizes
<1>3. \A i \in 1 .. nbJob : s[i] \in Job
  <2>1. s \in Seq(Job)
    BY DEF Schedule
  <2> QED BY <1>1, <2>1
<1>4. r \in Seq(Job) /\ Distinct(r) /\ Len(r) = k - 1 /\ Range(r) = {s[i] : i \in 1 .. k - 1}
  BY DEF Firsts
<1>5. s[k] \in Job /\ s[k] \notin Range(r)
  <2>1. \A i \in 1 .. k - 1 : s[i] # s[k]
    BY <1>1, <1>2
  <2> QED BY <1>2, <1>3, <1>4, <2>1
<1>6. r # <<>>
  BY <1>2, <1>4
<1>7. p \in 1 .. Len(r) + 1
  <2>1. FirstBest(insertJob(r, s[k]), 1 .. k - 1) \in 1 .. k - 1
    <3>1. FirstBest(insertJob(r, s[k]), 1 .. Len(r)) \in 1 .. Len(r)
      BY <1>4, <1>5, <1>6, InsertedBest
    <3> QED BY <1>4, <3>1
  <2> DEFINE q == FirstBest(insertJob(r, s[k]), 1 .. k - 1)
  <2> HIDE DEF q
  <2>2. q \in 1 .. k - 1
    BY <2>1 DEF q
  <2>3. p = q \/ p = k
    BY DEF q
  <2> QED BY <1>2, <1>4, <2>2, <2>3
<1>8. /\ Distinct(InsertAt(r, p, s[k])) /\ Len(InsertAt(r, p, s[k])) = (k - 1) + 1
      /\ Range(InsertAt(r, p, s[k])) = Range(r) \cup {s[k]}
      /\ InsertAt(r, p, s[k]) \in Seq(Job)
  BY <1>4, <1>5, <1>7, InsertedList
<1>9. {s[i] : i \in 1 .. k - 1} \cup {s[k]} = {s[i] : i \in 1 .. k}
  BY <1>2
<1> QED BY <1>2, <1>4, <1>8, <1>9 DEF Firsts

\* runNEH yields schedules.
LEMMA runNEHOf ==
  ASSUME ptm \in Instances, NEW s \in Schedule
  PROVE  runNEH(s) \in SUBSET Schedule
<1> DEFINE n == nbJob - 2
           D == SUBSET Seq(Job)
           pair == <<s[1], s[2]>>
           first == IF evalSolution(pair) < evalSolution(Reverse(pair)) THEN pair
                                                                       ELSE Reverse(pair)
           next(k, S) == UNION {{InsertAt(r, p, s[k]) :
                                   p \in {FirstBest(insertJob(r, s[k]), 1 .. k - 1), k}} :
                                r \in S}
           step(built) ==
             [k \in 2 .. nbJob |->
                IF k = 2 THEN {first}
                ELSE UNION {{InsertAt(r, p, s[k]) :
                               p \in {FirstBest(insertJob(r, s[k]), 1 .. k - 1), k}} :
                            r \in built[k - 1]}]
           kept(k, S) == IF S \subseteq Firsts(s, k + 1) THEN next(k + 2, S) ELSE {}
           g == [e \in (1 .. n) \X D |-> kept(e[1], e[2])]
<1>1. nbJob \in Nat /\ nbJob >= 2 /\ n \in Nat /\ n = nbJob - 2
  BY Sizes
<1>2. Distinct(s) /\ Len(s) = nbJob /\ s \in Seq(Job) /\ Range(s) = Job
      /\ \A i, l \in 1 .. nbJob : s[i] = s[l] => i = l
  BY Schedules DEF Schedule, Distinct
<1>3. s[1] \in Job /\ s[2] \in Job /\ s[1] # s[2]
  <2>1. 1 \in 1 .. nbJob /\ 2 \in 1 .. nbJob
    BY <1>1
  <2> QED BY <1>2, <2>1
<1>4. first \in Firsts(s, 2)
  <2>1. pair \in Seq(Job) /\ Len(pair) = 2 /\ pair[1] = s[1] /\ pair[2] = s[2]
    BY <1>3
  <2> HIDE DEF pair
  <2>2. Distinct(pair)
    <3>1. \A i, l \in 1 .. 2 : pair[i] = pair[l] => i = l
      BY <1>3, <2>1
    <3> QED BY <2>1, <3>1 DEF Distinct
  <2>3. Range(pair) = {s[i] : i \in 1 .. 2}
    <3>1. Range(pair) = {pair[i] : i \in 1 .. 2}
      BY <2>1, <2>2, DistinctSize
    <3> QED BY <2>1, <3>1
  <2>4. /\ Distinct(Reverse(pair)) /\ Range(Reverse(pair)) = Range(pair)
        /\ Len(Reverse(pair)) = Len(pair)
    BY <2>2, ReversedList
  <2>5. first = pair \/ first = Reverse(pair)
    OBVIOUS
  <2> HIDE DEF first
  <2>6. Distinct(first) /\ Len(first) = 2 /\ Range(first) = {s[i] : i \in 1 .. 2}
    <3>1. CASE first = pair
      BY <2>1, <2>2, <2>3, <3>1
    <3>2. CASE first = Reverse(pair)
      <4> DEFINE R == {s[i] : i \in 1 .. 2}
      <4> HIDE DEF R
      <4>1. Range(pair) = R
        BY <2>3 DEF R
      <4>2. Distinct(first) /\ Len(first) = 2 /\ Range(first) = R
        BY <2>1, <2>4, <3>2, <4>1
      <4> QED BY <4>2 DEF R
    <3> QED BY <2>5, <3>1, <3>2
  <2> QED BY <2>6 DEF Firsts, Distinct
<1>5. \A f : step(f) = [k \in 2 .. nbJob |-> IF k = 2 THEN {first} ELSE next(k, f[k - 1])]
  OBVIOUS
<1> HIDE DEF first
<1>6. \A k \in 3 .. nbJob : \A S \in SUBSET Firsts(s, k - 1) : next(k, S) \in SUBSET Firsts(s, k)
  <2> TAKE k \in 3 .. nbJob
  <2> TAKE S \in SUBSET Firsts(s, k - 1)
  <2>1. \A r \in Firsts(s, k - 1) :
          \A p \in {FirstBest(insertJob(r, s[k]), 1 .. k - 1), k} :
            InsertAt(r, p, s[k]) \in Firsts(s, k)
    BY NextBuilt
  <2> QED BY <2>1
<1> HIDE DEF next, step
<1>7. \A k \in 1 .. n : \A S \in D : kept(k, S) \in D
  <2> TAKE k \in 1 .. n
  <2> TAKE S \in D
  <2>1. CASE S \subseteq Firsts(s, k + 1)
    <3>1. k + 2 \in 3 .. nbJob /\ (k + 2) - 1 = k + 1
      BY <1>1
    <3>2. next(k + 2, S) \in SUBSET Firsts(s, k + 2)
      BY <1>6, <2>1, <3>1
    <3> QED BY <2>1, <3>2 DEF Firsts
  <2>2. CASE ~(S \subseteq Firsts(s, k + 1))
    BY <2>2
  <2> QED BY <2>1, <2>2
<1>8. {first} \in D
  BY <1>4 DEF Firsts
<1> HIDE DEF kept, D
<1>9. g \in [(1 .. n) \X D -> D]
  <2> HIDE DEF n
  <2> QED BY <1>7
<1>10. PICK f \in [0 .. n -> D] : Recurs(f, n, {first}, g)
  <2> HIDE DEF g, n
  <2> QED BY <1>1, <1>8, <1>9, Recursive
<1>11. \A k \in 0 .. n : f[k] = IF k = 0 THEN {first} ELSE kept(k, f[k - 1])
  <2> TAKE k \in 0 .. n
  <2>1. f[k] = IF k = 0 THEN {first} ELSE g[<<k, f[k - 1]>>]
    <3> HIDE DEF g, n
    <3> QED BY <1>10 DEF Recurs
  <2>2. ASSUME k # 0 PROVE g[<<k, f[k - 1]>>] = kept(k, f[k - 1])
    <3>1. k \in 1 .. n /\ f[k - 1] \in D
      <4> HIDE DEF n
      <4>1. k \in 1 .. n /\ k - 1 \in 0 .. n
        BY <1>1, <2>2
      <4> QED BY <4>1
    <3> HIDE DEF n
    <3> QED BY <3>1
  <2> QED BY <2>1, <2>2
<1>12. \A k \in 0 .. n : f[k] \in SUBSET Firsts(s, k + 2)
  <2> DEFINE S == {k \in 0 .. n : f[k] \in SUBSET Firsts(s, k + 2)}
  <2> HIDE DEF n
  <2>1. 0 \in S
    <3>1. f[0] = {first} /\ 0 \in 0 .. n /\ 0 + 2 = 2
      BY <1>1, <1>11
    <3> QED BY <1>4, <3>1
  <2>2. ASSUME NEW k \in 0 .. n - 1, k \in S PROVE k + 1 \in S
    <3>1. /\ k + 1 \in 0 .. n /\ (k + 1) - 1 = k /\ k + 1 # 0
          /\ (k + 1) + 1 = k + 2 /\ (k + 1) + 2 = k + 3 /\ k + 3 \in 3 .. nbJob /\ (k + 3) - 1 = k + 2
      BY <1>1
    <3>2. f[k] \subseteq Firsts(s, k + 2)
      BY <2>2
    <3>3. f[k + 1] = kept(k + 1, f[k])
      BY <1>11, <3>1
    <3>4. f[k + 1] = next(k + 3, f[k])
      BY <3>1, <3>2, <3>3 DEF kept
    <3>5. next(k + 3, f[k]) \in SUBSET Firsts(s, k + 3)
      BY <1>6, <3>1, <3>2
    <3> QED BY <3>1, <3>4, <3>5
  <2>3. \A k \in 0 .. n : k \in S
    <3> HIDE DEF S
    <3> QED BY <1>1, <2>1, <2>2, UpTo
  <2> QED BY <2>3
<1> DEFINE b == [k \in 2 .. nbJob |-> f[k - 2]]
<1>13. b = step(b)
  <2> HIDE DEF n
  <2>1. \A k \in 2 .. nbJob : b[k] = IF k = 2 THEN {first} ELSE next(k, b[k - 1])
    <3> TAKE k \in 2 .. nbJob
    <3>1. k - 2 \in 0 .. n /\ b[k] = f[k - 2]
      BY <1>1
    <3>2. CASE k = 2
      <4>1. k - 2 = 0
        BY <3>2
      <4> QED BY <1>11, <3>1, <3>2, <4>1
    <3>3. CASE k # 2
      <4>1. /\ k - 2 # 0 /\ (k - 2) + 1 = k - 1 /\ (k - 2) + 2 = k /\ k - 1 \in 2 .. nbJob
            /\ (k - 2) - 1 \in 0 .. n /\ ((k - 2) - 1) + 2 = k - 1 /\ (k - 2) - 1 = (k - 1) - 2
        BY <1>1, <3>3
      <4>2. b[k - 1] = f[(k - 2) - 1]
        BY <4>1
      <4>3. f[(k - 2) - 1] \subseteq Firsts(s, k - 1)
        BY <1>12, <4>1
      <4>4. f[k - 2] = kept(k - 2, f[(k - 2) - 1])
        BY <1>11, <3>1, <4>1
      <4>5. f[k - 2] = next(k, f[(k - 2) - 1])
        BY <4>1, <4>3, <4>4 DEF kept
      <4> HIDE DEF b
      <4> QED BY <3>1, <3>3, <4>2, <4>5
    <3> QED BY <3>2, <3>3
  <2>2. step(b) = [k \in 2 .. nbJob |-> IF k = 2 THEN {first} ELSE next(k, b[k - 1])]
    BY <1>5
  <2>3. b = [k \in 2 .. nbJob |-> b[k]]
    OBVIOUS
  <2> HIDE DEF b
  <2> QED BY <2>1, <2>2, <2>3
<1>14. PICK h : h = step(h) /\ runNEH(s) = h[nbJob]
  <2> DEFINE chosen == CHOOSE h : h = step(h)
  <2>1. runNEH(s) = chosen[nbJob]
    BY Zenon DEF runNEH, step, first
  <2>2. chosen = step(chosen)
    <3> HIDE DEF b
    <3> QED BY <1>13
  <2> QED BY <2>1, <2>2
<1>15. \A k \in 2 .. nbJob : h[k] = IF k = 2 THEN {first} ELSE next(k, h[k - 1])
  BY <1>5, <1>14
<1>16. h[nbJob] \in SUBSET Firsts(s, nbJob)
  <2> DEFINE S == {k \in 0 .. n : h[k + 2] \in SUBSET Firsts(s, k + 2)}
  <2> HIDE DEF n
  <2>1. 0 \in S
    <3>1. h[2] = {first} /\ 0 \in 0 .. n /\ 0 + 2 = 2
      BY <1>1, <1>15
    <3> QED BY <1>4, <3>1
  <2>2. ASSUME NEW k \in 0 .. n - 1, k \in S PROVE k + 1 \in S
    <3>1. /\ k + 1 \in 0 .. n /\ (k + 1) + 2 = k + 3 /\ k + 3 \in 3 .. nbJob /\ (k + 3) - 1 = k + 2
          /\ k + 3 \in 2 .. nbJob /\ k + 3 # 2
      BY <1>1
    <3>2. h[k + 2] \subseteq Firsts(s, k + 2)
      BY <2>2
    <3>3. h[k + 3] = next(k + 3, h[k + 2])
      BY <1>15, <3>1
    <3>4. next(k + 3, h[k + 2]) \in SUBSET Firsts(s, k + 3)
      BY <1>6, <3>1, <3>2
    <3> QED BY <3>1, <3>3, <3>4
  <2>3. \A k \in 0 .. n : k \in S
    <3> HIDE DEF S
    <3> QED BY <1>1, <2>1, <2>2, UpTo
  <2>4. n \in 0 .. n /\ n + 2 = nbJob
    BY <1>1
  <2> QED BY <2>3, <2>4
<1>17. Firsts(s, nbJob) \subseteq Schedule
  BY Schedules DEF Firsts
<1> QED BY <1>14, <1>16, <1>17

-----------------------------------------------------------------------------
(* Destruction and construction *)

\* Lists of the jobs that are not taken out and of the first k that are.
Grown(out, k) ==
  {r \in Seq(Job) : Distinct(r) /\ Range(r) = (Job \ Range(out)) \cup {out[i] : i \in 1 .. k}}

\* destruction takes different jobs out, and not all of them.
LEMMA TakenOut ==
  ASSUME NEW k \in Nat, k < nbJob, NEW out \in destruction(k)
  PROVE  /\ Distinct(out) /\ Len(out) = k /\ Job \ Range(out) # {}
         /\ \A i \in 1 .. k : out[i] \in Job
         /\ Range(out) = {out[i] : i \in 1 .. k}
<1>1. out \in [1 .. k -> Job] /\ \A i, l \in 1 .. k : out[i] = out[l] => i = l
  BY DEF destruction, IsInjective
<1>2. out \in Seq(Job) /\ Len(out) = k
  BY <1>1
<1>3. Distinct(out)
  BY <1>1, <1>2 DEF Distinct
<1>4. Cardinality(Range(out)) = k /\ Range(out) = {out[i] : i \in 1 .. k} /\ Range(out) \in SUBSET Job
  BY <1>2, <1>3, DistinctSize
<1>5. Range(out) # Job
  <2>1. nbJob \in Nat
    BY Sizes
  <2> QED BY <1>4, <2>1, JobCount
<1> QED BY <1>1, <1>2, <1>3, <1>4, <1>5

\* construction yields a schedule.
LEMMA constructionOf ==
  ASSUME ptm \in Instances, NEW s \in Schedule, NEW K \in Nat, K < nbJob, NEW out \in destruction(K)
  PROVE  construction(s, out) \in Schedule
<1> DEFINE n == Len(s)
           D == Seq(Job)
           stays(i, r) == IF s[i] \in Range(out) THEN r ELSE Append(r, s[i])
           keeping(kept) ==
             [i \in 0 .. Len(s) |->
                IF i = 0 THEN <<>>
                ELSE IF s[i] \in Range(out) THEN kept[i - 1] ELSE Append(kept[i - 1], s[i])]
           growing(grown, kept) ==
             [k \in 0 .. Len(out) |->
                IF k = 0 THEN kept[Len(s)]
                ELSE InsertAt(grown[k - 1],
                              FirstBest(insertJob(grown[k - 1], out[k]), DOMAIN grown[k - 1]),
                              out[k])]
           grow(k, r) == InsertAt(r, FirstBest(insertJob(r, out[k]), DOMAIN r), out[k])
           g == [e \in (1 .. n) \X D |-> stays(e[1], e[2])]
<1>1. /\ Distinct(s) /\ n = nbJob /\ s \in Seq(Job) /\ Range(s) = Job /\ n \in Nat
      /\ \A i, l \in 1 .. n : s[i] = s[l] => i = l
      /\ Range(s) = {s[i] : i \in 1 .. n}
      /\ \A i \in 1 .. n : s[i] \in Job
  <2>1. Distinct(s) /\ n = nbJob /\ s \in Seq(Job) /\ Range(s) = Job
    BY Schedules DEF Schedule
  <2>2. Range(s) = {s[i] : i \in 1 .. n} /\ n \in Nat
    BY <2>1, DistinctSize
  <2>3. \A i \in 1 .. n : s[i] \in Job
    BY <2>1
  <2> QED BY <2>1, <2>2, <2>3 DEF Distinct
<1>2. /\ Distinct(out) /\ Len(out) = K /\ Job \ Range(out) # {}
      /\ \A i \in 1 .. K : out[i] \in Job
      /\ Range(out) = {out[i] : i \in 1 .. K}
  BY TakenOut
<1>3. <<>> \in D
  OBVIOUS
<1>4. \A i \in 1 .. n : \A r \in D : stays(i, r) \in D
  <2> HIDE DEF n
  <2> TAKE i \in 1 .. n
  <2> TAKE r \in D
  <2>1. s[i] \in Job
    BY <1>1
  <2> QED BY <2>1
<1>5. \A f : keeping(f) = [i \in 0 .. n |-> IF i = 0 THEN <<>> ELSE stays(i, f[i - 1])]
  OBVIOUS
<1>6. \A f, t : growing(f, t) = [k \in 0 .. Len(out) |-> IF k = 0 THEN t[Len(s)] ELSE grow(k, f[k - 1])]
  OBVIOUS
<1> HIDE DEF stays, D, keeping, growing, grow
<1>7. g \in [(1 .. n) \X D -> D]
  <2> HIDE DEF n
  <2> QED BY <1>4
<1>8. PICK f \in [0 .. n -> D] : Recurs(f, n, <<>>, g)
  <2> HIDE DEF g, n
  <2> QED BY <1>1, <1>3, <1>7, Recursive
<1>9. f = keeping(f)
  <2>1. ASSUME NEW k \in 0 .. n, k # 0
        PROVE  g[<<k, f[k - 1]>>] = stays(k, f[k - 1])
    <3>1. k \in 1 .. n /\ f[k - 1] \in D
      <4> HIDE DEF n
      <4>1. k \in 1 .. n /\ k - 1 \in 0 .. n
        BY <1>1, <2>1
      <4> QED BY <4>1
    <3> HIDE DEF n
    <3> QED BY <3>1
  <2>2. keeping(f) = [k \in 0 .. n |-> IF k = 0 THEN <<>> ELSE g[<<k, f[k - 1]>>]]
    <3> HIDE DEF g, n
    <3> QED BY <1>5, <2>1
  <2> QED BY <1>8, <2>2 DEF Recurs
<1> DEFINE kept == CHOOSE t : t = keeping(t)
           grown == CHOOSE t : t = growing(t, kept)
<1>10. construction(s, out) = grown[Len(out)]
  BY Zenon DEF construction, keeping, growing
<1>11. kept = keeping(kept)
  <2>1. \E t : t = keeping(t)
    BY <1>9
  <2> QED BY <2>1
<1> HIDE DEF kept
<1>12. kept[n] \in Grown(out, 0)
  <2> DEFINE In(k) == {s[i] : i \in 1 .. k} \ Range(out)
             S == {k \in 0 .. n : Distinct(kept[k]) /\ Range(kept[k]) = In(k)}
  <2>0. \A k \in 0 .. n : kept[k] = IF k = 0 THEN <<>> ELSE stays(k, kept[k - 1])
    <3> HIDE DEF n
    <3> QED BY <1>5, <1>11
  <2> HIDE DEF n
  <2>1. 0 \in S
    <3>1. kept[0] = <<>>
      BY <1>1, <2>0
    <3>2. Distinct(<<>>) /\ Range(<<>>) = {}
      BY DEF Distinct, Range
    <3> QED BY <1>1, <3>1, <3>2
  <2>2. ASSUME NEW k \in 0 .. n - 1, k \in S PROVE k + 1 \in S
    <3>1. /\ k + 1 \in 1 .. n /\ k + 1 \in 0 .. n /\ (k + 1) - 1 = k /\ k + 1 # 0 /\ k \in Nat
          /\ 1 .. k + 1 = (1 .. k) \cup {k + 1}
          /\ \A i \in 1 .. k : i \in 1 .. n /\ i # k + 1
      BY <1>1
    <3> DEFINE j == s[k + 1]
               r == kept[k]
    <3>2. {s[i] : i \in 1 .. k + 1} = {s[i] : i \in 1 .. k} \cup {j}
      BY <3>1
    <3>3. kept[k + 1] = stays(k + 1, r)
      <4> HIDE DEF S
      <4> QED BY <2>0, <3>1
    <3>4. Distinct(r) /\ Range(r) = In(k)
      BY <2>2
    <3>5. j \in Job
      BY <1>1, <3>1
    <3>6. CASE j \in Range(out)
      <4>1. kept[k + 1] = r
        BY <3>3, <3>6 DEF stays
      <4>2. In(k + 1) = In(k)
        BY <3>2, <3>6
      <4> HIDE DEF In, r, j
      <4>3. Distinct(kept[k + 1]) /\ Range(kept[k + 1]) = In(k + 1)
        BY <3>4, <4>1, <4>2
      <4> QED BY <3>1, <4>3
    <3>7. CASE j \notin Range(out)
      <4>1. kept[k + 1] = Append(r, j)
        BY <3>3, <3>7 DEF stays
      <4>2. In(k + 1) = In(k) \cup {j}
        BY <3>2, <3>7
      <4>3. j \notin In(k)
        BY <1>1, <3>1
      <4>4. /\ r \in Seq(Job) /\ Len(r) \in Nat /\ Range(r) = {r[i] : i \in 1 .. Len(r)}
            /\ \A i, l \in 1 .. Len(r) : r[i] = r[l] => i = l
        <5> HIDE DEF In, r, j
        <5> QED BY <3>4, DistinctSize DEF Distinct
      <4> HIDE DEF In, r, j
      <4> DEFINE a == Append(r, j)
      <4>5. /\ a \in Seq(Job) /\ Len(a) = Len(r) + 1 /\ a[Len(r) + 1] = j
            /\ \A i \in 1 .. Len(r) : a[i] = r[i]
        BY <3>5, <4>4
      <4> HIDE DEF a
      <4>6. \A i \in 1 .. Len(r) + 1 : (i \in 1 .. Len(r) /\ a[i] = r[i]) \/ (i = Len(r) + 1 /\ a[i] = j)
        BY <4>4, <4>5
      <4>7. \A i \in 1 .. Len(r) : r[i] # j
        BY <3>4, <4>3, <4>4
      <4>8. Distinct(a)
        <5>1. \A i, l \in 1 .. Len(a) : a[i] = a[l] => i = l
          BY <4>4, <4>5, <4>6, <4>7
        <5> QED BY <4>5, <5>1 DEF Distinct
      <4>9. Range(a) = In(k + 1)
        <5>1. Range(a) = {a[i] : i \in 1 .. Len(r) + 1}
          BY <4>5, <4>8, DistinctSize
        <5>2. \A i \in 1 .. Len(r) + 1 : a[i] \in Range(r) \cup {j}
          BY <4>4, <4>6
        <5>3. \A e \in Range(r) : e \in Range(a)
          <6> TAKE e \in Range(r)
          <6>1. PICK i \in 1 .. Len(r) : e = r[i]
            BY <4>4
          <6>2. i \in 1 .. Len(r) + 1 /\ a[i] = e
            BY <4>4, <4>5, <6>1
          <6> QED BY <5>1, <6>2
        <5>4. j \in Range(a)
          <6>1. Len(r) + 1 \in 1 .. Len(r) + 1
            BY <4>4
          <6> QED BY <4>5, <5>1, <6>1
        <5>5. Range(a) = Range(r) \cup {j}
          BY <5>1, <5>2, <5>3, <5>4
        <5> QED BY <3>4, <4>2, <5>5
      <4> QED BY <3>1, <4>1, <4>8, <4>9 DEF a
    <3> QED BY <3>6, <3>7
  <2>3. \A k \in 0 .. n : k \in S
    <3> HIDE DEF S
    <3> QED BY <1>1, <2>1, <2>2, UpTo
  <2>4. n \in S
    <3> HIDE DEF S
    <3>1. n \in 0 .. n
      BY <1>1
    <3> QED BY <2>3, <3>1
  <2>5. In(n) = Job \ Range(out)
    BY <1>1
  <2>6. {out[i] : i \in 1 .. 0} = {}
    OBVIOUS
  <2>7. Distinct(kept[n]) /\ Range(kept[n]) = Job \ Range(out)
    <3> HIDE DEF In
    <3> QED BY <2>4, <2>5
  <2> QED BY <2>6, <2>7 DEF Grown, Distinct
<1>13. \A k \in 1 .. K : \A r \in Grown(out, k - 1) : grow(k, r) \in Grown(out, k)
  <2> TAKE k \in 1 .. K
  <2> TAKE r \in Grown(out, k - 1)
  <2> DEFINE p == FirstBest(insertJob(r, out[k]), DOMAIN r)
             j == out[k]
  <2>1. Distinct(r) /\ r \in Seq(Job) /\ Range(r) = (Job \ Range(out)) \cup {out[i] : i \in 1 .. k - 1}
    BY DEF Grown
  <2>2. j \in Job /\ j \notin Range(r)
    <3>1. j \in Job /\ j \in Range(out)
      BY <1>2
    <3>2. \A i \in 1 .. k - 1 : out[i] # j
      <4>1. \A i, l \in 1 .. K : out[i] = out[l] => i = l
        BY <1>2 DEF Distinct
      <4> QED BY <4>1
    <3> QED BY <2>1, <3>1, <3>2
  <2>3. r # <<>>
    <3>1. Range(r) # {}
      BY <1>2, <2>1
    <3>2. Range(<<>>) = {}
      BY DEF Range
    <3> QED BY <3>1, <3>2
  <2>4. DOMAIN r = 1 .. Len(r) /\ Len(r) \in Nat
    BY <2>1
  <2>5. p \in 1 .. Len(r)
    <3> HIDE DEF j
    <3>1. FirstBest(insertJob(r, j), 1 .. Len(r)) \in 1 .. Len(r)
      BY <2>1, <2>2, <2>3, InsertedBest
    <3> QED BY <2>4, <3>1 DEF j
  <2> HIDE DEF p, j
  <2>6. p \in 1 .. Len(r) + 1
    BY <2>4, <2>5
  <2>7. /\ Distinct(InsertAt(r, p, j)) /\ Range(InsertAt(r, p, j)) = Range(r) \cup {j}
        /\ InsertAt(r, p, j) \in Seq(Job)
    BY <2>1, <2>2, <2>6, InsertedList
  <2>8. {out[i] : i \in 1 .. k} = {out[i] : i \in 1 .. k - 1} \cup {j}
    <3>1. 1 .. k = (1 .. k - 1) \cup {k}
      OBVIOUS
    <3> QED BY <3>1 DEF j
  <2>9. grow(k, r) = InsertAt(r, p, j)
    BY DEF grow, p, j
  <2>10. Range(r) \cup {j} = (Job \ Range(out)) \cup {out[i] : i \in 1 .. k}
    BY <2>1, <2>8
  <2> QED BY <2>7, <2>9, <2>10 DEF Grown
<1> DEFINE pushed(k, r) == IF r \in Grown(out, k - 1) THEN grow(k, r) ELSE <<>>
           q == [e \in (1 .. K) \X D |-> pushed(e[1], e[2])]
<1>14. \A k \in 1 .. K : \A r \in D : pushed(k, r) \in D
  <2> TAKE k \in 1 .. K
  <2> TAKE r \in D
  <2>1. CASE r \in Grown(out, k - 1)
    <3>1. grow(k, r) \in Grown(out, k)
      BY <1>13, <2>1
    <3> QED BY <2>1, <3>1 DEF Grown, D
  <2>2. CASE r \notin Grown(out, k - 1)
    BY <1>3, <2>2
  <2> QED BY <2>1, <2>2
<1> DEFINE start == kept[n]
<1>15. start \in D
  BY <1>12 DEF Grown, D
<1> HIDE DEF pushed
<1>16. q \in [(1 .. K) \X D -> D]
  BY <1>14
<1>17. PICK f2 \in [0 .. K -> D] : Recurs(f2, K, start, q)
  <2> HIDE DEF q, start
  <2> QED BY <1>15, <1>16, Recursive
<1> HIDE DEF start
<1>18. \A k \in 0 .. K : f2[k] = IF k = 0 THEN start ELSE pushed(k, f2[k - 1])
  <2> TAKE k \in 0 .. K
  <2>1. f2[k] = IF k = 0 THEN start ELSE q[<<k, f2[k - 1]>>]
    <3> HIDE DEF q
    <3> QED BY <1>17 DEF Recurs
  <2>2. ASSUME k # 0 PROVE q[<<k, f2[k - 1]>>] = pushed(k, f2[k - 1])
    <3>1. k \in 1 .. K /\ f2[k - 1] \in D
      <4>1. k \in 1 .. K /\ k - 1 \in 0 .. K
        BY <2>2
      <4> QED BY <4>1
    <3> QED BY <3>1
  <2> QED BY <2>1, <2>2
<1>19. ASSUME NEW t, \A k \in 0 .. K : t[k] = IF k = 0 THEN start ELSE
                       IF t[k - 1] \in Grown(out, k - 1) THEN grow(k, t[k - 1]) ELSE t[k]
       PROVE  \A k \in 0 .. K : t[k] \in Grown(out, k)
  <2> DEFINE S == {k \in 0 .. K : t[k] \in Grown(out, k)}
  <2>1. 0 \in S
    BY <1>12, <1>19 DEF start
  <2>2. ASSUME NEW k \in 0 .. K - 1, k \in S PROVE k + 1 \in S
    <3>1. k + 1 \in 0 .. K /\ (k + 1) - 1 = k /\ k + 1 # 0 /\ k + 1 \in 1 .. K
      OBVIOUS
    <3>2. t[k] \in Grown(out, k)
      BY <2>2
    <3>3. t[k + 1] = grow(k + 1, t[k])
      <4> HIDE DEF S
      <4> QED BY <1>19, <3>1, <3>2
    <3>4. grow(k + 1, t[k]) \in Grown(out, k + 1)
      <4> HIDE DEF S
      <4> QED BY <1>13, <3>1, <3>2
    <3> QED BY <3>1, <3>3, <3>4
  <2>3. \A k \in 0 .. K : k \in S
    <3> HIDE DEF S
    <3> QED BY <2>1, <2>2, UpTo
  <2> QED BY <2>3
<1>20. \A k \in 0 .. K : f2[k] \in Grown(out, k)
  <2>1. \A k \in 0 .. K : f2[k] = IF k = 0 THEN start ELSE
                       IF f2[k - 1] \in Grown(out, k - 1) THEN grow(k, f2[k - 1]) ELSE f2[k]
    BY <1>18 DEF pushed
  <2> QED BY <1>19, <2>1
<1>21. f2 = growing(f2, kept)
  <2>1. ASSUME NEW k \in 0 .. K, k # 0 PROVE f2[k] = grow(k, f2[k - 1])
    <3>1. k - 1 \in 0 .. K
      BY <2>1
    <3> QED BY <1>18, <1>20, <2>1, <3>1 DEF pushed
  <2>2. f2[0] = start /\ 0 \in 0 .. K
    BY <1>18
  <2>3. growing(f2, kept) = [k \in 0 .. K |-> IF k = 0 THEN start ELSE grow(k, f2[k - 1])]
    BY <1>2, <1>6 DEF start
  <2>4. f2 = [k \in 0 .. K |-> f2[k]]
    OBVIOUS
  <2> QED BY <2>1, <2>2, <2>3, <2>4
<1>22. grown = growing(grown, kept)
  <2>1. \E t : t = growing(t, kept)
    BY <1>21
  <2> QED BY <2>1
<1> HIDE DEF grown
<1>23. \A k \in 0 .. K : grown[k] = IF k = 0 THEN start ELSE grow(k, grown[k - 1])
  BY <1>2, <1>6, <1>22 DEF start
<1>24. grown[K] \in Grown(out, K)
  <2>1. \A k \in 0 .. K : grown[k] = IF k = 0 THEN start ELSE
                 IF grown[k - 1] \in Grown(out, k - 1) THEN grow(k, grown[k - 1]) ELSE grown[k]
    BY <1>23
  <2>2. K \in 0 .. K
    OBVIOUS
  <2> QED BY <1>19, <2>1, <2>2
<1>25. Grown(out, K) \subseteq Schedule
  <2>1. (Job \ Range(out)) \cup {out[i] : i \in 1 .. K} = Job
    <3>1. Range(out) \subseteq Job
      BY <1>2
    <3> QED BY <1>2, <3>1
  <2> QED BY <2>1 DEF Grown, Schedule
<1> QED BY <1>2, <1>10, <1>24, <1>25

-----------------------------------------------------------------------------
(* The steps of the heuristic keep the invariant *)

\* The makespans depend on the instance alone.
LEMMA CostsKept ==
  ASSUME ptm' = ptm
  PROVE  (\A s : evalSolution(s)' = evalSolution(s)) /\ Optimum' = Optimum
<1>1. \A s : evalSolution(s)' = evalSolution(s)
  BY DEF Heads, AddFirst, evalSolution
<1>2. Optimum' = Optimum
  BY <1>1 DEF Optimum
<1> QED BY <1>1, <1>2

\* The instance is one of those that the run is about.
LEMMA RightInstance ==
  ASSUME IInv
  PROVE  ptm \in Instances
BY IvmAssumption DEF IInv

\* Schedules with their own makespans.
LEMMA OwnCost ==
  ASSUME ptm \in Instances, NEW s \in Schedule
  PROVE  Reached(s, evalSolution(s)) /\ s \in Seq(Job)
BY OptimumLeast DEF Reached, Schedule

\* ig_thread: NEH yields schedules.
LEMMA ThreadKeeps ==
  ASSUME IInv, ptm' = ptm, ig_thread
  PROVE  SearchInv' /\ sltn' = sltn
<1>1. ptm \in Instances
  BY RightInstance
<1>2. PICK s \in Starts : \E neh \in runNEH(s) : \E again \in runNEH(neh) :
        ig' = [ig EXCEPT !.at = "destruct",
                         !.best = neh, !.bestCost = evalSolution(neh),
                         !.cur = again, !.curCost = evalSolution(again)]
  BY DEF ig_thread
<1>3. s \in Schedule
  BY HeuristicsAssumption, SequencesOf, Schedules
<1>4. PICK neh \in runNEH(s) : \E again \in runNEH(neh) :
        ig' = [ig EXCEPT !.at = "destruct",
                         !.best = neh, !.bestCost = evalSolution(neh),
                         !.cur = again, !.curCost = evalSolution(again)]
  BY <1>2
<1>5. neh \in Schedule
  BY <1>1, <1>3, runNEHOf
<1>6. PICK again \in runNEH(neh) :
        ig' = [ig EXCEPT !.at = "destruct",
                         !.best = neh, !.bestCost = evalSolution(neh),
                         !.cur = again, !.curCost = evalSolution(again)]
  BY <1>4
<1>7. again \in Schedule
  BY <1>1, <1>5, runNEHOf
<1>8. /\ Reached(neh, evalSolution(neh)) /\ Reached(again, evalSolution(again))
      /\ neh \in Seq(Job) /\ again \in Seq(Job)
  BY <1>1, <1>5, <1>7, OwnCost
<1>9. IgShape(ig)
  BY DEF IInv, SearchInv
<1>10. IgShape(ig')
  BY <1>6, <1>8, <1>9 DEF IgShape, IgRecord, IgFields, Reached
<1>11. /\ ig'.at = "destruct" /\ ig'.best = neh /\ ig'.bestCost = evalSolution(neh)
       /\ ig'.cur = again /\ ig'.curCost = evalSolution(again)
  BY <1>6, <1>9 DEF IgShape, IgRecord, IgFields
<1>12. Reached(ig.best, ig.bestCost)' /\ Reached(ig.cur, ig.curCost)'
  BY <1>8, <1>11, CostsKept DEF Reached
<1> QED BY <1>10, <1>11, <1>12 DEF SearchInv, ig_thread

\* perturbation: a part of the current schedule is built anew.
LEMMA PerturbationKeeps ==
  ASSUME IInv, ptm' = ptm, perturbation
  PROVE  SearchInv' /\ sltn' = sltn
<1>1. ptm \in Instances
  BY RightInstance
<1>2. PICK out \in destruction(ig.perturb) :
        ig' = [ig EXCEPT !.at = "search", !.visit = 1,
                         !.temp = construction(ig.cur, out),
                         !.tempCost = evalSolution(construction(ig.cur, out))]
  BY DEF perturbation
<1>3. IgShape(ig) /\ ig.perturb \in Nat /\ ig.perturb < nbJob
  BY DEF IInv, SearchInv, IgShape, IgRecord, IgFields, perturbation
<1>4. Reached(ig.best, ig.bestCost) /\ Reached(ig.cur, ig.curCost)
  BY DEF IInv, SearchInv, perturbation
<1> DEFINE s == construction(ig.cur, out)
<1>5. s \in Schedule
  BY <1>1, <1>3, <1>4, constructionOf DEF Reached
<1>6. ig' = [ig EXCEPT !.at = "search", !.visit = 1, !.temp = s, !.tempCost = evalSolution(s)]
  BY <1>2
<1> HIDE DEF s
<1>7. Reached(s, evalSolution(s)) /\ s \in Seq(Job)
  BY <1>1, <1>5, OwnCost
<1>8. IgShape(ig')
  <2>1. IgRecord(ig')
    BY <1>3, <1>6 DEF IgShape, IgRecord
  <2>2. IgFields(ig')
    BY <1>3, <1>6, <1>7 DEF IgShape, IgRecord, IgFields, Reached
  <2> QED BY <2>1, <2>2 DEF IgShape
<1>9. /\ ig'.at = "search" /\ ig'.temp = s /\ ig'.tempCost = evalSolution(s)
      /\ ig'.best = ig.best /\ ig'.bestCost = ig.bestCost
      /\ ig'.cur = ig.cur /\ ig'.curCost = ig.curCost
  BY <1>3, <1>6 DEF IgShape, IgRecord, IgFields
<1>10. Reached(ig.best, ig.bestCost)' /\ Reached(ig.cur, ig.curCost)'
       /\ Reached(ig.temp, ig.tempCost)'
  BY <1>4, <1>7, <1>9, CostsKept DEF Reached
<1> QED BY <1>8, <1>10 DEF SearchInv, perturbation

\* localSearchKI: a chain of moves may be taken over.
LEMMA LocalSearchKeeps ==
  ASSUME IInv, ptm' = ptm, localSearchKI
  PROVE  SearchInv' /\ sltn' = sltn
<1>1. ptm \in Instances
  BY RightInstance
<1>2. /\ IgShape(ig) /\ ig.visit \in Nat \ {0} /\ ig.visit <= nbJob /\ ig.stale \in Time
      /\ ig.at = "search"
  BY DEF IInv, SearchInv, IgShape, IgRecord, IgFields, localSearchKI
<1>3. /\ Reached(ig.best, ig.bestCost) /\ Reached(ig.cur, ig.curCost)
      /\ Reached(ig.temp, ig.tempCost)
  BY <1>2 DEF IInv, SearchInv
<1>4. visitOrder[ig.visit] \in Position
  <2>1. ig.visit \in Position
    BY <1>2, Sizes DEF Position
  <2> QED BY <2>1, VisitPosition
<1>5. PICK move \in kImove(ig.temp, visitOrder[ig.visit], ig.stale) :
        ig' = IF move.cmax < ig.tempCost
              THEN [ig EXCEPT !.temp = move.arr, !.tempCost = move.cmax,
                              !.visit = 1, !.stale = move.stale]
              ELSE [ig EXCEPT !.visit = @ + 1, !.stale = move.stale]
  BY DEF localSearchKI
<1>6. move \in Move
  BY <1>1, <1>2, <1>3, <1>4, kImoveOf DEF Reached
<1>7. Reached(move.arr, move.cmax) /\ move.arr \in Seq(Job) /\ move.stale \in Time
  BY <1>6 DEF Move, Reached, Schedule
<1>8. CASE move.cmax < ig.tempCost
  <2>1. ig' = [ig EXCEPT !.temp = move.arr, !.tempCost = move.cmax,
                         !.visit = 1, !.stale = move.stale]
    BY <1>5, <1>8
  <2>2. IgShape(ig')
    <3>1. IgRecord(ig')
      BY <1>2, <2>1 DEF IgShape, IgRecord
    <3>2. IgFields(ig')
      BY <1>2, <1>7, <2>1 DEF IgShape, IgRecord, IgFields, Reached
    <3> QED BY <3>1, <3>2 DEF IgShape
  <2>3. /\ ig'.temp = move.arr /\ ig'.tempCost = move.cmax
        /\ ig'.best = ig.best /\ ig'.bestCost = ig.bestCost
        /\ ig'.cur = ig.cur /\ ig'.curCost = ig.curCost
    BY <1>2, <2>1 DEF IgShape, IgRecord, IgFields
  <2>4. Reached(ig.best, ig.bestCost)' /\ Reached(ig.cur, ig.curCost)'
        /\ Reached(ig.temp, ig.tempCost)'
    BY <1>3, <1>7, <2>3, CostsKept DEF Reached
  <2> QED BY <2>2, <2>4 DEF SearchInv, localSearchKI
<1>9. CASE ~(move.cmax < ig.tempCost)
  <2>1. ig' = [ig EXCEPT !.visit = @ + 1, !.stale = move.stale]
    BY <1>5, <1>9
  <2>2. IgShape(ig')
    <3>1. IgRecord(ig')
      BY <1>2, <2>1 DEF IgShape, IgRecord
    <3>2. IgFields(ig')
      BY <1>2, <1>7, <2>1 DEF IgShape, IgRecord, IgFields
    <3> QED BY <3>1, <3>2 DEF IgShape
  <2>3. /\ ig'.temp = ig.temp /\ ig'.tempCost = ig.tempCost
        /\ ig'.best = ig.best /\ ig'.bestCost = ig.bestCost
        /\ ig'.cur = ig.cur /\ ig'.curCost = ig.curCost
    BY <1>2, <2>1 DEF IgShape, IgRecord, IgFields
  <2>4. Reached(ig.best, ig.bestCost)' /\ Reached(ig.cur, ig.curCost)'
        /\ Reached(ig.temp, ig.tempCost)'
    BY <1>3, <2>3, CostsKept DEF Reached
  <2> QED BY <2>2, <2>4 DEF SearchInv, localSearchKI
<1> QED BY <1>8, <1>9

\* acceptance: the schedule that was found may become the current or the best one.
LEMMA JudgeKeeps ==
  ASSUME IInv, ptm' = ptm, Judge
  PROVE  SearchInv' /\ sltn' = sltn
<1>1. IgShape(ig) /\ ig.at = "search"
  BY DEF IInv, SearchInv, Judge
<1>2. /\ Reached(ig.best, ig.bestCost) /\ Reached(ig.cur, ig.curCost)
      /\ Reached(ig.temp, ig.tempCost)
  BY <1>1 DEF IInv, SearchInv
<1>3. PICK accept \in BOOLEAN : \E next \in
            {IF accept
             THEN [ig EXCEPT !.cur = ig.temp, !.curCost = ig.tempCost, !.perturb = 2]
             ELSE [ig EXCEPT !.perturb = IF @ + 1 > 5 THEN 2 ELSE @ + 1]} :
            ig' = [next EXCEPT
                     !.at = "destruct", !.iter = @ + 1,
                     !.temp = <<>>, !.tempCost = 0, !.visit = 1,
                     !.best = IF ig.tempCost < ig.bestCost THEN ig.temp ELSE @,
                     !.bestCost = IF ig.tempCost < ig.bestCost THEN ig.tempCost ELSE @]
  BY DEF Judge
<1> DEFINE next == IF accept
                   THEN [ig EXCEPT !.cur = ig.temp, !.curCost = ig.tempCost, !.perturb = 2]
                   ELSE [ig EXCEPT !.perturb = IF @ + 1 > 5 THEN 2 ELSE @ + 1]
<1>4. ig' = [next EXCEPT
               !.at = "destruct", !.iter = @ + 1,
               !.temp = <<>>, !.tempCost = 0, !.visit = 1,
               !.best = IF ig.tempCost < ig.bestCost THEN ig.temp ELSE @,
               !.bestCost = IF ig.tempCost < ig.bestCost THEN ig.tempCost ELSE @]
  BY <1>3
<1>5. /\ IgShape(next) /\ next.best = ig.best /\ next.bestCost = ig.bestCost
      /\ Reached(next.cur, next.curCost)
  <2>1. CASE accept
    <3>1. next = [ig EXCEPT !.cur = ig.temp, !.curCost = ig.tempCost, !.perturb = 2]
      BY <2>1
    <3> HIDE DEF next
    <3>2. next.cur = ig.temp /\ next.curCost = ig.tempCost
      BY <1>1, <3>1 DEF IgShape, IgRecord, IgFields
    <3>3. IgShape(next) /\ next.best = ig.best /\ next.bestCost = ig.bestCost
      <4>1. IgRecord(next)
        BY <1>1, <3>1 DEF IgShape, IgRecord
      <4>2. IgFields(next)
        BY <1>1, <3>1 DEF IgShape, IgRecord, IgFields
      <4>3. next.best = ig.best /\ next.bestCost = ig.bestCost
        BY <1>1, <3>1 DEF IgShape, IgRecord
      <4> QED BY <4>1, <4>2, <4>3 DEF IgShape
    <3> QED BY <1>2, <3>2, <3>3
  <2>2. CASE ~accept
    <3>1. next = [ig EXCEPT !.perturb = IF @ + 1 > 5 THEN 2 ELSE @ + 1]
      BY <2>2
    <3> HIDE DEF next
    <3>2. next.cur = ig.cur /\ next.curCost = ig.curCost
      BY <1>1, <3>1 DEF IgShape, IgRecord, IgFields
    <3>3. IgShape(next) /\ next.best = ig.best /\ next.bestCost = ig.bestCost
      <4>1. IgRecord(next)
        BY <1>1, <3>1 DEF IgShape, IgRecord
      <4>2. IgFields(next)
        BY <1>1, <3>1 DEF IgShape, IgRecord, IgFields
      <4>3. next.best = ig.best /\ next.bestCost = ig.bestCost
        BY <1>1, <3>1 DEF IgShape, IgRecord
      <4> QED BY <4>1, <4>2, <4>3 DEF IgShape
    <3> QED BY <1>2, <3>2, <3>3
  <2> QED BY <2>1, <2>2
<1> HIDE DEF next
<1>6. <<>> \in Seq(Job)
  OBVIOUS
<1>7. CASE ig.tempCost < ig.bestCost
  <2>1. ig' = [next EXCEPT !.at = "destruct", !.iter = @ + 1,
                           !.temp = <<>>, !.tempCost = 0, !.visit = 1,
                           !.best = ig.temp, !.bestCost = ig.tempCost]
    BY <1>4, <1>7
  <2>2. IgShape(ig')
    <3>1. IgRecord(ig')
      BY <1>5, <2>1 DEF IgShape, IgRecord
    <3>2. IgFields(ig')
      BY <1>1, <1>5, <1>6, <2>1 DEF IgShape, IgRecord, IgFields
    <3> QED BY <3>1, <3>2 DEF IgShape
  <2>3. /\ ig'.at = "destruct" /\ ig'.best = ig.temp /\ ig'.bestCost = ig.tempCost
        /\ ig'.cur = next.cur /\ ig'.curCost = next.curCost
    BY <1>5, <2>1 DEF IgShape, IgRecord, IgFields
  <2>4. Reached(ig.best, ig.bestCost)' /\ Reached(ig.cur, ig.curCost)'
    BY <1>2, <1>5, <2>3, CostsKept DEF Reached
  <2> QED BY <2>2, <2>3, <2>4 DEF SearchInv, Judge
<1>8. CASE ~(ig.tempCost < ig.bestCost)
  <2>1. ig' = [next EXCEPT !.at = "destruct", !.iter = @ + 1,
                           !.temp = <<>>, !.tempCost = 0, !.visit = 1,
                           !.best = @, !.bestCost = @]
    BY <1>4, <1>8
  <2>2. IgShape(ig')
    <3>1. IgRecord(ig')
      BY <1>5, <2>1 DEF IgShape, IgRecord
    <3>2. IgFields(ig')
      BY <1>1, <1>5, <1>6, <2>1 DEF IgShape, IgRecord, IgFields
    <3> QED BY <3>1, <3>2 DEF IgShape
  <2>3. /\ ig'.at = "destruct" /\ ig'.best = next.best /\ ig'.bestCost = next.bestCost
        /\ ig'.cur = next.cur /\ ig'.curCost = next.curCost
    BY <1>5, <2>1 DEF IgShape, IgRecord, IgFields
  <2>4. Reached(ig.best, ig.bestCost)' /\ Reached(ig.cur, ig.curCost)'
    BY <1>2, <1>5, <2>3, CostsKept DEF Reached
  <2> QED BY <2>2, <2>3, <2>4 DEF SearchInv, Judge
<1> QED BY <1>7, <1>8

\* Finish: the best cost, which some schedule reaches, goes to the solution.
LEMMA FinishKeeps ==
  ASSUME IInv, ptm' = ptm, best' = best, pc' = pc, initialUB' = initialUB, Finish
  PROVE  SearchInv' /\ CostInv'
<1>1. ptm \in Instances
  BY RightInstance
<1>2. IgShape(ig) /\ ig.at = "destruct"
  BY DEF IInv, SearchInv, Finish
<1>3. Reached(ig.best, ig.bestCost) /\ Reached(ig.cur, ig.curCost)
  BY <1>2 DEF IInv, SearchInv
<1>4. ig' = [ig EXCEPT !.at = "done", !.iter = 0, !.perturb = 2,
                       !.cur = <<>>, !.curCost = 0, !.best = <<>>, !.bestCost = 0,
                       !.stale = NoTime]
  BY DEF Finish
<1>5. NoTime \in Time
  BY DEF NoTime, Time
<1>6. IgShape(ig')
  <2>1. IgRecord(ig')
    BY <1>2, <1>4 DEF IgShape, IgRecord
  <2>2. IgFields(ig')
    BY <1>2, <1>4, <1>5 DEF IgShape, IgRecord, IgFields
  <2> QED BY <2>1, <2>2 DEF IgShape
<1>7. ig'.at = "done"
  BY <1>2, <1>4 DEF IgShape, IgRecord, IgFields
<1>8. SearchInv'
  BY <1>6, <1>7 DEF SearchInv
<1>9. /\ sltn \in [perm : Schedule, cost : Nat] /\ best \in Nat /\ initialUB \in Nat
      /\ Optimum <= sltn.cost /\ sltn.cost <= best /\ (pc = "build" => best = INT_MAX)
      /\ Optimum \in Nat /\ Optimum <= evalSolution(ig.best) /\ evalSolution(ig.best) \in Nat
  BY <1>1, <1>3, OptimumLeast DEF IInv, CostInv, Reached
<1>10. /\ sltn' = (IF ig.bestCost < sltn.cost THEN [perm |-> ig.cur, cost |-> ig.bestCost] ELSE sltn)
       /\ ig.bestCost \in Nat /\ evalSolution(ig.best) <= ig.bestCost /\ ig.cur \in Schedule
  BY <1>3 DEF Finish, update, Reached
<1>11. Optimum' = Optimum
  BY CostsKept
<1>12. /\ sltn' \in [perm : Schedule, cost : Nat]
       /\ Optimum <= sltn'.cost /\ sltn'.cost <= best
  <2>1. CASE ig.bestCost < sltn.cost
    <3>1. sltn' = [perm |-> ig.cur, cost |-> ig.bestCost]
      BY <1>10, <2>1
    <3>2. sltn'.cost = ig.bestCost /\ sltn' \in [perm : Schedule, cost : Nat] /\ sltn.cost \in Nat
      BY <1>9, <1>10, <3>1
    <3>3. Optimum <= ig.bestCost /\ ig.bestCost <= best
      <4> DEFINE e == evalSolution(ig.best)
                 o == Optimum
                 b == ig.bestCost
                 c == sltn.cost
      <4>1. o \in Nat /\ e \in Nat /\ b \in Nat /\ c \in Nat /\ best \in Nat /\ o <= e /\ e <= b
            /\ b < c /\ c <= best
        BY <1>9, <1>10, <2>1, <3>2
      <4> HIDE DEF o, e, b, c
      <4>2. o <= b /\ b <= best
        BY <4>1
      <4> QED BY <4>2 DEF o, b
    <3> QED BY <3>2, <3>3
  <2>2. CASE ~(ig.bestCost < sltn.cost)
    BY <1>9, <1>10, <2>2
  <2> QED BY <2>1, <2>2
<1>13. CostInv'
  BY <1>9, <1>11, <1>12 DEF CostInv
<1> QED BY <1>8, <1>13

-----------------------------------------------------------------------------
(* The initial state and the root *)

\* A step that leaves the heuristic alone keeps its part of the invariant.
LEMMA SearchSame ==
  ASSUME SearchInv, ptm' = ptm, ig' = ig
  PROVE  SearchInv'
<1>1. \A s, c : Reached(s, c)' <=> Reached(s, c)
  BY CostsKept DEF Reached
<1> QED BY <1>1, CostsKept DEF SearchInv, Reached

\* And one that leaves the costs alone keeps theirs.
LEMMA CostSame ==
  ASSUME CostInv, ptm' = ptm, sltn' = sltn, best' = best, initialUB' = initialUB, pc' # "build"
  PROVE  CostInv'
<1>1. Optimum' = Optimum
  BY CostsKept
<1> QED BY <1>1 DEF CostInv

\* The row of the root: a schedule whose jobs may be flagged.
LEMMA RootRow ==
  ASSUME NEW s \in Schedule, NEW dir \in {FRONT, BACK}, NEW costs, NEW lb
  PROVE  LET r == [dir |-> dir, jobs |-> flagged(s, costs, dir, 0, lb)] IN
         RowOK(r, 0) /\ Jobs(r) = Job
<1> DEFINE f == flagged(s, costs, dir, 0, lb)
           r == [dir |-> dir, jobs |-> f]
<1>1. /\ Distinct(s) /\ Len(s) = nbJob /\ s \in Seq(Job) /\ Range(s) = Job
      /\ Range(s) = {s[i] : i \in 1 .. Len(s)} /\ Len(s) \in Nat
      /\ \A i, k \in 1 .. Len(s) : s[i] = s[k] => i = k
  BY Schedules, DistinctSize DEF Schedule, Distinct
<1>2. s \in Seq(Int) /\ \A i \in 1 .. Len(s) : s[i] \in Job /\ absolute(s[i]) = s[i]
  <2>1. \A i \in 1 .. Len(s) : s[i] \in Job
    BY <1>1
  <2>2. \A i \in 1 .. Len(s) : s[i] \in Int /\ absolute(s[i]) = s[i]
    BY <2>1, OpenJob
  <2>3. s \in Seq(Int)
    <3>1. Job \subseteq Int
      BY OpenJob
    <3> QED BY <1>1, <3>1
  <2> QED BY <2>1, <2>2, <2>3
<1>3. 0 \in Int
  OBVIOUS
<1>4. /\ f \in Seq(Int) /\ Len(f) = Len(s)
      /\ \A i \in 1 .. Len(s) : absolute(f[i]) = absolute(s[i])
  BY <1>2, <1>3, FlaggedOf
<1> HIDE DEF f
<1>5. /\ r.dir = dir /\ r.jobs = f /\ r \in Row
  BY <1>4 DEF Row
<1>6. \A i \in 1 .. Len(s) : absolute(f[i]) = s[i]
  BY <1>2, <1>4
<1> HIDE DEF r
<1>7. Absolutes(f) \in Seq(Job) /\ Len(Absolutes(f)) = Len(s)
      /\ \A i \in 1 .. Len(s) : Absolutes(f)[i] = s[i]
  BY <1>1, <1>2, <1>4, <1>6 DEF Absolutes
<1>8. Distinct(Absolutes(f))
  BY <1>1, <1>7 DEF Distinct
<1>9. Jobs(r) = Job
  BY <1>1, <1>4, <1>5, <1>6 DEF Jobs
<1>10. Len(r.jobs) = size - 0
  BY <1>1, <1>4, <1>5, JobCount
<1>11. RowOK(r, 0)
  BY <1>5, <1>8, <1>10 DEF RowOK, Row
<1> QED BY <1>9, <1>11 DEF r, f

\* An IVM that begins at the root.
LEMMA RootNode ==
  ASSUME NEW r, RowOK(r, 0), Jobs(r) = Job, NEW x,
         x = [state |-> -1, pos |-> x.pos, end |-> x.end, rows |-> <<r>>],
         Inside(x.pos), Inside(x.end)
  PROVE  NodeOK(x) /\ LeafClosed(x) /\ x.state # 0
<1>1. x.state = -1 /\ x.rows = <<r>>
  OBVIOUS
<1>2. size \in Nat /\ size >= 2
  BY MatrixSize
<1>3. StackOK(<<r>>, x.pos)
  <2>1. Len(<<r>>) = 1 /\ <<r>>[1] = r
    OBVIOUS
  <2>2. 1 \in 1 .. size /\ 1 - 1 = 0
    BY <1>2
  <2>3. \A l \in 1 .. 1 : l = 1
    OBVIOUS
  <2>4. \A l \in 1 .. 1 - 1 : FALSE
    OBVIOUS
  <2>5. <<r>> = [l \in 1 .. Len(<<r>>) |-> <<r>>[l]]
    OBVIOUS
  <2> DEFINE q == <<r>>
  <2>6. Len(q) = 1 /\ q[1] = r /\ q = [l \in 1 .. Len(q) |-> q[l]]
    BY <2>1, <2>5
  <2> HIDE DEF q
  <2>7. StackOK(q, x.pos)
    BY <2>2, <2>3, <2>4, <2>6 DEF StackOK
  <2> QED BY <2>7 DEF q
<1>4. NodeOK(x)
  BY <1>1, <1>3 DEF NodeOK
<1>5. Len(x.rows) # size
  BY <1>1, <1>2
<1> QED BY <1>1, <1>4, <1>5 DEF LeafClosed

\* The positions and ends of the whole tree.
LEMMA WholeTree ==
  /\ Inside(Zero) /\ Inside([l \in Line |-> size - l - 1])
BY MatrixSize DEF Inside, Zero

\* The initial states satisfy the invariant.
LEMMA InitHolds ==
  ASSUME Init
  PROVE  IInv
<1>1. setting \in Settings /\ ptm = setting.ptm /\ ptm \in Instances
  BY IvmAssumption DEF Init
<1>2. SearchInv
  <2> DEFINE at == IF setting.init_solution = 1 THEN "shuffle" ELSE "none"
  <2>1. ig = [at |-> at, iter |-> 0, perturb |-> 2,
              cur |-> <<>>, curCost |-> 0, temp |-> <<>>, tempCost |-> 0,
              best |-> <<>>, bestCost |-> 0, visit |-> 1, stale |-> NoTime]
    BY DEF Init, HeuristicInit
  <2>2. at \in {"none", "shuffle"}
    OBVIOUS
  <2> HIDE DEF at
  <2>3. NoTime \in Time
    BY DEF NoTime, Time
  <2>4. IgRecord(ig)
    BY <2>1 DEF IgRecord
  <2>5. IgFields(ig)
    BY <2>1, <2>2, <2>3 DEF IgFields
  <2>6. ig.at = at
    BY <2>1
  <2> QED BY <2>2, <2>4, <2>5, <2>6 DEF SearchInv, IgShape
<1>3. CostInv
  <2> DEFINE s == [i \in Position |-> i - 1]
  <2>1. sltn = [perm |-> s, cost |-> INT_MAX]
    BY DEF Init, HeuristicInit
  <2>2. nbJob \in Nat
    BY Sizes
  <2>3. s \in Seq(Job) /\ Len(s) = nbJob /\ \A i \in 1 .. nbJob : s[i] = i - 1
    BY <2>2 DEF Position, Job
  <2> HIDE DEF s
  <2>4. Distinct(s)
    BY <2>2, <2>3 DEF Distinct
  <2>5. s \in Schedule
    BY <2>3, <2>4, Schedules
  <2>6. Optimum <= INT_MAX /\ INT_MAX \in Nat
    BY <1>1, OptimumBelow
  <2>7. best = INT_MAX /\ initialUB = INT_MAX
    BY DEF Init
  <2>8. sltn.cost = INT_MAX /\ sltn \in [perm : Schedule, cost : Nat]
    BY <2>1, <2>5, <2>6
  <2> QED BY <2>6, <2>7, <2>8 DEF CostInv
<1>4. IvmInv
  <2>1. ivm = [k \in IVM |-> Empty] /\ iter = 0 /\ pc = "build"
    BY DEF Init
  <2>2. Empty.state = 0
    BY DEF Empty
  <2>3. iter \in 0 .. nbIVM - 1
    BY <2>1, IvmNumbers
  <2>4. \A k \in IVM : ivm[k].state = 0
    BY <2>1, <2>2
  <2>5. ivm = [k \in IVM |-> ivm[k]]
    BY <2>1
  <2> QED BY <2>1, <2>3, <2>4, <2>5 DEF IvmInv
<1> QED BY <1>1, <1>2, <1>3, <1>4 DEF IInv

\* The heuristic.
LEMMA heuristicKeeps ==
  ASSUME IInv, heuristic
  PROVE  IInv'
<1>1. /\ ptm' = ptm /\ pc' = pc /\ setting' = setting /\ ivm' = ivm /\ root' = root /\ best' = best
      /\ initialUB' = initialUB /\ iter' = iter /\ pc = "build"
  BY DEF heuristic
<1>2. SearchInv' /\ CostInv'
  <2>1. ASSUME SearchInv' /\ sltn' = sltn PROVE SearchInv' /\ CostInv'
    <3>1. Optimum' = Optimum
      BY <1>1, CostsKept
    <3> QED BY <1>1, <2>1, <3>1 DEF IInv, CostInv
  <2>2. CASE ig_thread
    BY <1>1, <2>1, <2>2, ThreadKeeps
  <2>3. CASE perturbation
    BY <1>1, <2>1, <2>3, PerturbationKeeps
  <2>4. CASE localSearchKI
    BY <1>1, <2>1, <2>4, LocalSearchKeeps
  <2>5. CASE Judge
    BY <1>1, <2>1, <2>5, JudgeKeeps
  <2>6. CASE Finish
    BY <1>1, <2>6, FinishKeeps
  <2> QED BY <2>2, <2>3, <2>4, <2>5, <2>6 DEF heuristic, Search
<1>3. IvmInv'
  BY <1>1 DEF IInv, IvmInv
<1> QED BY <1>1, <1>2, <1>3 DEF IInv

\* The upper bound to begin with.
LEMMA buildInitialUBKeeps ==
  ASSUME IInv, buildInitialUB
  PROVE  IInv'
<1>1. /\ ptm' = ptm /\ pc = "build" /\ pc' = "root" /\ setting' = setting /\ ivm' = ivm
      /\ root' = root /\ best' = best /\ iter' = iter
      /\ ig' = [ig EXCEPT !.at = "none"] /\ initialUB' = sltn'.cost
      /\ sltn' = [sltn EXCEPT !.cost = IF setting.init_mode = 3 THEN INT_MAX ELSE @]
  BY DEF buildInitialUB
<1>2. ptm \in Instances
  BY RightInstance
<1>3. SearchInv'
  <2>1. IgShape(ig)
    BY DEF IInv, SearchInv
  <2>2. IgRecord(ig')
    BY <1>1, <2>1 DEF IgShape, IgRecord
  <2>3. IgFields(ig')
    BY <1>1, <2>1 DEF IgShape, IgRecord, IgFields
  <2>4. ig'.at = "none"
    BY <1>1, <2>1 DEF IgShape, IgRecord
  <2> QED BY <2>2, <2>3, <2>4 DEF SearchInv, IgShape
<1>4. CostInv'
  <2>1. /\ sltn \in [perm : Schedule, cost : Nat] /\ best \in Nat
        /\ Optimum <= sltn.cost /\ sltn.cost <= best /\ best = INT_MAX
    BY <1>1 DEF IInv, CostInv
  <2>2. Optimum <= INT_MAX /\ INT_MAX \in Nat /\ Optimum' = Optimum
    BY <1>1, <1>2, OptimumBelow, CostsKept
  <2>3. /\ sltn' \in [perm : Schedule, cost : Nat]
        /\ sltn'.cost = INT_MAX \/ sltn'.cost = sltn.cost
    BY <1>1, <2>1, <2>2
  <2>4. Optimum <= sltn'.cost /\ sltn'.cost <= best
    <3>1. CASE sltn'.cost = INT_MAX
      BY <2>1, <2>2, <3>1
    <3>2. CASE sltn'.cost = sltn.cost
      BY <2>1, <3>2
    <3> QED BY <2>3, <3>1, <3>2
  <2> QED BY <1>1, <2>1, <2>2, <2>3, <2>4 DEF CostInv
<1>5. IvmInv'
  BY <1>1 DEF IInv, IvmInv
<1> QED BY <1>1, <1>3, <1>4, <1>5 DEF IInv

\* The root and its IVM.
LEMMA initFullIntervalKeeps ==
  ASSUME IInv, initFullInterval
  PROVE  IInv'
<1>1. /\ ptm' = ptm /\ pc' = "steal" /\ pc = "root" /\ setting' = setting /\ sltn' = sltn
      /\ ig' = ig /\ best' = sltn.cost /\ iter' = iter /\ initialUB' = initialUB /\ boundRoot
      /\ ivm' = [ivm EXCEPT ![0] = [state |-> -1, pos |-> Zero, rows |-> <<root'>>,
                                    end |-> [l \in Line |-> size - l - 1]]]
  BY DEF initFullInterval, heuristicVars
<1>2. SearchInv'
  BY <1>1, SearchSame DEF IInv
<1>3. CostInv'
  <2>1. Optimum' = Optimum
    BY <1>1, CostsKept
  <2> QED BY <1>1, <2>1 DEF IInv, CostInv
<1>4. RowOK(root', 0) /\ Jobs(root') = Job
  <2> DEFINE dir == branching(setting.branchingMode, rootCosts, sltn.cost)
             jobs == IF dir = BACK THEN Reverse(sltn.perm) ELSE sltn.perm
  <2>1. root' = [dir |-> dir, jobs |-> flagged(jobs, rootCosts, dir, 0, sltn.cost)]
    BY <1>1 DEF boundRoot
  <2>2. dir \in {FRONT, BACK}
    BY BranchingSide
  <2>3. sltn.perm \in Schedule
    BY DEF IInv, CostInv
  <2>4. jobs \in Schedule
    <3>1. Reverse(sltn.perm) \in Schedule
      <4>1. Distinct(sltn.perm) /\ Len(sltn.perm) = nbJob
        BY <2>3, Schedules DEF Schedule
      <4>2. Distinct(Reverse(sltn.perm)) /\ Len(Reverse(sltn.perm)) = nbJob
        BY <4>1, ReversedList
      <4> QED BY <4>2, Schedules
    <3> QED BY <2>3, <3>1
  <2> HIDE DEF dir, jobs
  <2> QED BY <2>1, <2>2, <2>4, RootRow
<1>5. IvmInv'
  <2> DEFINE x == [state |-> -1, pos |-> Zero, rows |-> <<root'>>,
                   end |-> [l \in Line |-> size - l - 1]]
  <2>1. NodeOK(x) /\ LeafClosed(x)
    <3>1. x = [state |-> -1, pos |-> x.pos, end |-> x.end, rows |-> <<root'>>]
      OBVIOUS
    <3>2. Inside(x.pos) /\ Inside(x.end)
      BY WholeTree
    <3> HIDE DEF x
    <3> QED BY <1>4, <3>1, <3>2, RootNode
  <2>2. ivm' = [ivm EXCEPT ![0] = x] /\ ivm = [k \in IVM |-> ivm[k]] /\ iter \in 0 .. nbIVM - 1
    BY <1>1 DEF IInv, IvmInv
  <2>3. \A k \in IVM : ivm[k].state # 0 => NodeOK(ivm[k]) /\ LeafClosed(ivm[k])
    BY <1>1 DEF IInv, IvmInv
  <2> HIDE DEF x
  <2>4. ivm' = [k \in IVM |-> ivm'[k]] /\ \A k \in IVM : ivm'[k] = x \/ ivm'[k] = ivm[k]
    BY <2>2
  <2>5. ASSUME NEW k \in IVM, ivm'[k].state # 0
        PROVE  NodeOK(ivm'[k]) /\ LeafClosed(ivm'[k])
    BY <2>1, <2>3, <2>4, <2>5
  <2> QED BY <1>1, <1>4, <2>2, <2>4, <2>5 DEF IvmInv
<1> QED BY <1>1, <1>2, <1>3, <1>5 DEF IInv

-----------------------------------------------------------------------------
(* The steps of the search keep the invariant *)

\* What a step of the IVMs leaves to show.
LEMMA StepKeeps ==
  ASSUME IInv, setting' = setting, ptm' = ptm, ig' = ig, CostInv', IvmInv'
  PROVE  IInv'
<1>1. SearchInv'
  BY SearchSame DEF IInv
<1> QED BY <1>1 DEF IInv

\* The costs after a step.
LEMMA CostMade ==
  ASSUME ptm' = ptm, sltn' \in [perm : Schedule, cost : Nat], best' \in Nat, initialUB' \in Nat,
         Optimum <= sltn'.cost, sltn'.cost <= best', pc' # "build"
  PROVE  CostInv'
<1>1. Optimum' = Optimum
  BY CostsKept
<1> QED BY <1>1 DEF CostInv

\* IVMs with work are nodes whose leaves are closed.
LEMMA ReadyAll ==
  ASSUME IInv, pc # "bound"
  PROVE  \A k \in IVM : Ready(ivm[k])
BY DEF IInv, IvmInv, Ready

\* Work stealing.
LEMMA stealKeeps ==
  ASSUME IInv, steal_in_device
  PROVE  IInv'
<1>1. /\ setting' = setting /\ ptm' = ptm /\ ig' = ig /\ sltn' = sltn /\ best' = best
      /\ initialUB' = initialUB /\ iter' = iter /\ root' = root /\ pc = "steal" /\ pc' = "select"
  BY DEF steal_in_device, heuristicVars
<1>2. CostInv'
  BY <1>1, CostSame DEF IInv
<1>3. /\ ivm = [k \in IVM |-> ivm[k]] /\ iter \in 0 .. nbIVM - 1
      /\ RowOK(root, 0) /\ Jobs(root) = Job
  BY <1>1 DEF IInv, IvmInv
<1>4. \A k \in IVM : Ready(ivm[k])
  BY <1>1, ReadyAll
<1>5. ivm' = [k \in IVM |-> ivm'[k]] /\ \A k \in IVM : Ready(ivm'[k])
  <2>1. CASE ivm' = ivm
    BY <1>3, <1>4, <2>1
  <2>2. CASE ivm' # ivm
    <3>1. \E found \in {victims(meanLength(search_cut'))} : ivm' = share_on_gpu2(found)
      BY <2>2 DEF steal_in_device
    <3> DEFINE mean == meanLength(search_cut')
    <3> HIDE DEF mean
    <3>2. ivm' = share_on_gpu2(victims(mean))
      BY <3>1 DEF mean
    <3> DEFINE found == victims(mean)
    <3>3. found \in SUBSET (IVM \X IVM)
      BY <1>3, Pairing
    <3> HIDE DEF found
    <3> DEFINE v == share_on_gpu2(found)
    <3>4. v = [k \in IVM |-> v[k]] /\ \A k \in IVM : Ready(v[k])
      BY <1>4, <3>3, SharedNodes
    <3> HIDE DEF v
    <3> QED BY <3>2, <3>4 DEF v, found
  <2> QED BY <2>1, <2>2
<1>6. IvmInv'
  BY <1>1, <1>3, <1>5 DEF IvmInv, Ready
<1> QED BY <1>1, <1>2, <1>6, StepKeeps

\* Selection and branching.
LEMMA selectKeeps ==
  ASSUME IInv, selectAndBranch
  PROVE  IInv'
<1>1. /\ setting' = setting /\ ptm' = ptm /\ ig' = ig /\ sltn' = sltn /\ best' = best
      /\ initialUB' = initialUB /\ iter' = iter /\ root' = root /\ pc = "select"
  BY DEF selectAndBranch, heuristicVars
<1> DEFINE next == [k \in IVM |-> Selected(ivm[k])]
<1>2. /\ ivm' = [k \in IVM |-> Branched(next[k])]
      /\ pc' = IF \A k \in IVM : next[k].state = 0 THEN "done" ELSE "bound"
  BY DEF selectAndBranch
<1>3. pc' \in {"done", "bound"}
  BY <1>2
<1>4. CostInv'
  BY <1>1, <1>3, CostSame DEF IInv
<1>5. /\ ivm = [k \in IVM |-> ivm[k]] /\ iter \in 0 .. nbIVM - 1
      /\ RowOK(root, 0) /\ Jobs(root) = Job
  BY <1>1 DEF IInv, IvmInv
<1>6. \A k \in IVM : Ready(ivm[k])
  BY <1>1, ReadyAll
<1>7. ASSUME NEW k \in IVM
      PROVE  /\ ivm'[k] = Branched(next[k])
             /\ ivm'[k].state # 0 => NodeOK(ivm'[k])
             /\ next[k].state = 0 => ivm'[k].state = 0
  <2> DEFINE y == Selected(ivm[k])
  <2>1. ivm'[k] = Branched(y) /\ next[k] = y
    BY <1>2
  <2>2. ivm[k].state # 0 => NodeOK(ivm[k]) /\ LeafClosed(ivm[k])
    BY <1>6 DEF Ready
  <2>3. y.state = 0 \/ (NodeOK(y) /\ y.state = -1) \/ Open(y)
    <3> DEFINE x == ivm[k]
    <3>1. x.state # 0 => NodeOK(x) /\ LeafClosed(x)
      BY <2>2
    <3> HIDE DEF x
    <3>2. LET z == Selected(x) IN z.state = 0 \/ (NodeOK(z) /\ z.state = -1) \/ Open(z)
      BY <3>1, Chosen
    <3> QED BY <3>2 DEF x
  <2> HIDE DEF y, next
  <2>4. Branched(y).state # 0 => NodeOK(Branched(y))
    BY <2>3, RowAdded
  <2>5. y.state = 0 => Branched(y).state = 0
    BY DEF Branched, Empty
  <2> QED BY <2>1, <2>4, <2>5
<1> HIDE DEF next
<1>8. ivm' = [k \in IVM |-> ivm'[k]]
  BY <1>2
<1>9. ASSUME NEW k \in IVM, ivm'[k].state # 0
      PROVE  NodeOK(ivm'[k]) /\ (pc' # "bound" => LeafClosed(ivm'[k]))
  <2>1. next[k].state # 0
    BY <1>7, <1>9
  <2>2. pc' = "bound"
    BY <1>2, <2>1
  <2> QED BY <1>7, <1>9, <2>2
<1>10. IvmInv'
  BY <1>1, <1>5, <1>8, <1>9 DEF IvmInv
<1> QED BY <1>1, <1>4, <1>10, StepKeeps

\* The first bound.
LEMMA weakBoundKeeps ==
  ASSUME IInv, weakBound
  PROVE  IInv'
<1>1. /\ setting' = setting /\ ptm' = ptm /\ ig' = ig /\ sltn' = sltn /\ best' = best
      /\ initialUB' = initialUB /\ iter' = iter /\ root' = root /\ pc = "bound" /\ pc' = "leaves"
      /\ ivm' = [k \in IVM |-> IF ivm[k].state = 0 THEN ivm[k]
                               ELSE Pruned(ivm[k], best, setting.branchingMode, initialUB)]
  BY DEF weakBound, heuristicVars
<1>2. CostInv'
  BY <1>1, CostSame DEF IInv
<1>3. /\ iter \in 0 .. nbIVM - 1 /\ RowOK(root, 0) /\ Jobs(root) = Job
      /\ \A k \in IVM : ivm[k].state # 0 => NodeOK(ivm[k])
  BY <1>1 DEF IInv, IvmInv
<1>4. ASSUME NEW k \in IVM, ivm'[k].state # 0
      PROVE  NodeOK(ivm'[k]) /\ LeafClosed(ivm'[k])
  <2>1. ivm[k].state # 0
    BY <1>1, <1>4
  <2>2. ivm'[k] = Pruned(ivm[k], best, setting.branchingMode, initialUB)
    BY <1>1, <2>1
  <2> DEFINE x == ivm[k]
             mode == setting.branchingMode
  <2>3. NodeOK(x)
    BY <1>3, <2>1
  <2> HIDE DEF x, mode
  <2>4. NodeOK(Pruned(x, best, mode, initialUB)) /\ LeafClosed(Pruned(x, best, mode, initialUB))
    BY <2>3, PrunedNode
  <2> QED BY <2>2, <2>4 DEF x, mode
<1>5. ivm' = [k \in IVM |-> ivm'[k]]
  BY <1>1
<1>6. IvmInv'
  BY <1>1, <1>3, <1>4, <1>5 DEF IvmInv
<1> QED BY <1>1, <1>2, <1>6, StepKeeps

\* The leaves: the best one is a schedule.
LEMMA boundLeavesKeeps ==
  ASSUME IInv, boundLeaves
  PROVE  IInv'
<1>1. /\ setting' = setting /\ ptm' = ptm /\ ig' = ig /\ initialUB' = initialUB /\ iter' = iter
      /\ root' = root /\ ivm' = ivm /\ pc = "leaves" /\ pc' = "strong"
  BY DEF boundLeaves
<1>2. ptm \in Instances
  BY RightInstance
<1>3. /\ ivm = [k \in IVM |-> ivm[k]] /\ iter \in 0 .. nbIVM - 1
      /\ RowOK(root, 0) /\ Jobs(root) = Job
      /\ \A k \in IVM : ivm[k].state # 0 => NodeOK(ivm[k]) /\ LeafClosed(ivm[k])
  BY <1>1 DEF IInv, IvmInv
<1>4. IvmInv'
  BY <1>1, <1>3 DEF IvmInv
<1>5. /\ sltn \in [perm : Schedule, cost : Nat] /\ best \in Nat /\ initialUB \in Nat
      /\ Optimum <= sltn.cost /\ sltn.cost <= best
  BY DEF IInv, CostInv
<1>6. Optimum' = Optimum
  BY <1>1, CostsKept
<1> DEFINE leaves == Leaves
           better == {i \in DOMAIN leaves : evalSolution(leaves[i]) < best}
           i == FirstBest([k \in better |-> evalSolution(leaves[k])], better)
<1>7. leaves \in Seq(Schedule)
  BY <1>3, LeavesOf
<1>8. \/ better = {} /\ best' = best /\ sltn' = sltn
      \/ better # {} /\ best' = evalSolution(leaves[i]) /\ update(leaves[i], evalSolution(leaves[i]))
  BY DEF boundLeaves
<1> HIDE DEF leaves
<1>9. \A k \in better : /\ k \in Nat /\ leaves[k] \in Schedule /\ evalSolution(leaves[k]) \in Nat
                        /\ Optimum <= evalSolution(leaves[k]) /\ evalSolution(leaves[k]) < best
  <2> TAKE k \in better
  <2>1. k \in DOMAIN leaves /\ evalSolution(leaves[k]) < best
    OBVIOUS
  <2>2. k \in Nat /\ leaves[k] \in Schedule
    BY <1>7, <2>1
  <2> QED BY <1>2, <2>1, <2>2, OptimumLeast
<1> HIDE DEF better
<1>10. ASSUME better = {}, best' = best, sltn' = sltn PROVE CostInv'
  <2>1. /\ sltn' \in [perm : Schedule, cost : Nat] /\ best' \in Nat /\ initialUB' \in Nat
        /\ Optimum <= sltn'.cost /\ sltn'.cost <= best'
    BY <1>1, <1>5, <1>10
  <2> QED BY <1>1, <2>1, CostMade
<1>11. ASSUME better # {}, best' = evalSolution(leaves[i]),
              update(leaves[i], evalSolution(leaves[i]))
       PROVE  CostInv'
  <2>1. i \in better
    <3> DEFINE value == [k \in better |-> evalSolution(leaves[k])]
    <3>1. \A p \in better : value[p] \in Nat
      BY <1>9
    <3>2. better \in SUBSET Nat
      BY <1>9
    <3> HIDE DEF value
    <3>3. FirstBest(value, better) \in better
      BY <1>11, <3>1, <3>2, FirstBestOf
    <3> QED BY <3>3 DEF value
  <2> HIDE DEF i
  <2> DEFINE s == leaves[i]
             c == evalSolution(s)
             o == Optimum
  <2>2. s \in Schedule /\ c \in Nat /\ o <= c /\ c < best
    BY <1>9, <2>1
  <2>3. best' = c /\ sltn' = IF c < sltn.cost THEN [perm |-> s, cost |-> c] ELSE sltn
    BY <1>11 DEF update
  <2>4. o <= sltn.cost
    BY <1>5
  <2> HIDE DEF s, c
  <2>5. sltn' \in [perm : Schedule, cost : Nat]
    BY <1>5, <2>2, <2>3
  <2>6. o <= sltn'.cost /\ sltn'.cost <= best'
    <3>1. CASE c < sltn.cost
      <4>1. sltn'.cost = c
        BY <2>3, <3>1
      <4> QED BY <2>2, <2>3, <4>1
    <3>2. CASE ~(c < sltn.cost)
      <4>1. sltn'.cost = sltn.cost /\ sltn.cost \in Nat
        BY <1>5, <2>3, <3>2
      <4> QED BY <2>2, <2>3, <2>4, <3>2, <4>1
    <3> QED BY <3>1, <3>2
  <2>7. CostInv'
    <3>1. best' \in Nat /\ initialUB' \in Nat
      BY <1>1, <1>5, <2>2, <2>3
    <3>2. Optimum <= sltn'.cost /\ sltn'.cost <= best'
      BY <2>6
    <3> QED BY <1>1, <2>5, <3>1, <3>2, CostMade
  <2> QED BY <2>7
<1>12. CostInv'
  BY <1>8, <1>10, <1>11
<1> QED BY <1>1, <1>4, <1>12, StepKeeps

\* The second bound.
LEMMA strongBoundKeeps ==
  ASSUME IInv, strongBound
  PROVE  IInv'
<1>1. /\ setting' = setting /\ ptm' = ptm /\ ig' = ig /\ sltn' = sltn /\ best' = best
      /\ initialUB' = initialUB /\ iter' = (iter + 1) % nbIVM /\ root' = root
      /\ pc = "strong" /\ pc' = "steal"
  BY DEF strongBound, heuristicVars
<1>2. CostInv'
  BY <1>1, CostSame DEF IInv
<1>3. /\ ivm = [k \in IVM |-> ivm[k]] /\ iter \in 0 .. nbIVM - 1
      /\ RowOK(root, 0) /\ Jobs(root) = Job
      /\ \A k \in IVM : ivm[k].state # 0 => NodeOK(ivm[k]) /\ LeafClosed(ivm[k])
  BY <1>1 DEF IInv, IvmInv
<1>4. iter' \in 0 .. nbIVM - 1
  <2>1. iter + 1 \in Int
    BY <1>3, IvmNumbers
  <2>2. (iter + 1) % nbIVM \in IVM
    BY <2>1, IvmNumbers
  <2> QED BY <1>1, <2>2, IvmNumbers
<1>5. ivm' = [k \in IVM |-> ivm'[k]]
      /\ \A k \in IVM : ivm'[k].state # 0 => NodeOK(ivm'[k]) /\ LeafClosed(ivm'[k])
  <2>1. CASE setting.boundMode # 2
    BY <1>3, <2>1 DEF strongBound
  <2>2. CASE setting.boundMode = 2
    <3>1. PICK chosen \in StrongChoices :
            ivm' = [k \in IVM |-> IF ivm[k].state = 0 \/ line(ivm[k]) = size - 1 THEN ivm[k]
                                  ELSE PrunedAgain(ivm[k], best, chosen)]
      BY <2>2 DEF strongBound
    <3>2. ASSUME NEW k \in IVM, ivm'[k].state # 0
          PROVE  NodeOK(ivm'[k]) /\ LeafClosed(ivm'[k])
      <4>1. CASE ivm[k].state = 0 \/ line(ivm[k]) = size - 1
        <5>1. ivm'[k] = ivm[k]
          BY <3>1, <4>1
        <5> QED BY <1>3, <3>2, <5>1
      <4>2. CASE ivm[k].state # 0 /\ line(ivm[k]) # size - 1
        <5>1. ivm'[k] = PrunedAgain(ivm[k], best, chosen)
          BY <3>1, <4>2
        <5> DEFINE x == ivm[k]
        <5>2. NodeOK(x) /\ line(x) # size - 1
          BY <1>3, <4>2
        <5> HIDE DEF x
        <5>3. NodeOK(PrunedAgain(x, best, chosen)) /\ LeafClosed(PrunedAgain(x, best, chosen))
          BY <5>2, PrunedAgainNode
        <5> QED BY <5>1, <5>3 DEF x
      <4> QED BY <4>1, <4>2
    <3>3. ivm' = [k \in IVM |-> ivm'[k]]
      BY <3>1
    <3> QED BY <3>2, <3>3
  <2> QED BY <2>1, <2>2
<1>6. IvmInv'
  BY <1>1, <1>3, <1>4, <1>5 DEF IvmInv
<1> QED BY <1>1, <1>2, <1>6, StepKeeps

\* The intervals come back: every IVM with work begins at the root again.
LEMMA ReloadKeeps ==
  ASSUME IInv, Reload
  PROVE  IInv'
<1>1. /\ setting' = setting /\ ptm' = ptm /\ ig' = ig /\ sltn' = sltn /\ best' = sltn.cost
      /\ initialUB' = initialUB /\ iter' = 0 /\ root' = root /\ pc = "steal" /\ pc' = "steal"
      /\ ivm' = [k \in IVM |-> IF ivm[k].state = 0 THEN Empty
                               ELSE [ivm[k] EXCEPT !.state = -1, !.rows = <<root>>]]
  BY DEF Reload, heuristicVars
<1>2. CostInv'
  <2>1. /\ sltn \in [perm : Schedule, cost : Nat] /\ initialUB \in Nat /\ Optimum <= sltn.cost
    BY DEF IInv, CostInv
  <2>2. /\ sltn' \in [perm : Schedule, cost : Nat] /\ best' \in Nat /\ initialUB' \in Nat
        /\ Optimum <= sltn'.cost /\ sltn'.cost <= best'
    <3>1. /\ sltn' = sltn /\ best' = sltn.cost /\ initialUB' = initialUB
      BY <1>1
    <3>2. sltn.cost \in Nat
      BY <2>1
    <3> QED BY <2>1, <3>1, <3>2
  <2> QED BY <1>1, <2>2, CostMade
<1>3. /\ RowOK(root, 0) /\ Jobs(root) = Job
      /\ \A k \in IVM : ivm[k].state # 0 => NodeOK(ivm[k]) /\ LeafClosed(ivm[k])
  BY <1>1 DEF IInv, IvmInv
<1>4. 0 \in 0 .. nbIVM - 1
  BY IvmNumbers
<1>5. ASSUME NEW k \in IVM, ivm'[k].state # 0
      PROVE  NodeOK(ivm'[k]) /\ LeafClosed(ivm'[k])
  <2>1. CASE ivm[k].state = 0
    <3>1. ivm'[k] = Empty
      BY <1>1, <2>1
    <3> QED BY <1>5, <3>1 DEF Empty
  <2>2. CASE ivm[k].state # 0
    <3> DEFINE x == ivm[k]
               y == ivm'[k]
    <3>1. y = [x EXCEPT !.state = -1, !.rows = <<root>>]
      BY <1>1, <2>2
    <3>2. /\ x = [state |-> x.state, pos |-> x.pos, end |-> x.end, rows |-> x.rows]
          /\ Inside(x.pos) /\ Inside(x.end)
      BY <1>3, <2>2 DEF NodeOK
    <3> HIDE DEF x, y
    <3>3. /\ y = [state |-> -1, pos |-> y.pos, end |-> y.end, rows |-> <<root>>]
          /\ y.pos = x.pos /\ y.end = x.end
      BY <3>1, <3>2
    <3>4. NodeOK(y) /\ LeafClosed(y)
      BY <1>3, <3>2, <3>3, RootNode
    <3> QED BY <3>4 DEF y
  <2> QED BY <2>1, <2>2
<1>6. ivm' = [k \in IVM |-> ivm'[k]]
  BY <1>1
<1>7. IvmInv'
  BY <1>1, <1>3, <1>4, <1>5, <1>6 DEF IvmInv
<1> QED BY <1>1, <1>2, <1>7, StepKeeps

\* Every step keeps the invariant.
LEMMA NextKeeps ==
  ASSUME IInv, [Next]_vars
  PROVE  IInv'
<1>1. CASE UNCHANGED vars
  <2>1. /\ setting' = setting /\ ptm' = ptm /\ ig' = ig /\ sltn' = sltn /\ best' = best
        /\ initialUB' = initialUB /\ iter' = iter /\ root' = root /\ pc' = pc /\ ivm' = ivm
    BY <1>1 DEF vars
  <2>2. CostInv'
    <3>1. Optimum' = Optimum
      BY <2>1, CostsKept
    <3> QED BY <2>1, <3>1 DEF IInv, CostInv
  <2>3. IvmInv'
    BY <2>1 DEF IInv, IvmInv
  <2> QED BY <2>1, <2>2, <2>3, StepKeeps
<1>2. CASE Next
  BY <1>1, <1>2, heuristicKeeps, buildInitialUBKeeps, initFullIntervalKeeps, stealKeeps, selectKeeps,
     weakBoundKeeps, boundLeavesKeeps, strongBoundKeeps, ReloadKeeps DEF Next
<1> QED BY <1>1, <1>2

\* The inductive invariant holds: the heuristic and gpubb work on schedules, with
\* costs that these reach, and the matrices of the device stand for nodes.
THEOREM InvariantHolds == Spec => []IInv
<1>1. Init => IInv
  BY InitHolds
<1>2. IInv /\ [Next]_vars => IInv'
  BY NextKeeps
<1> QED BY <1>1, <1>2, PTL DEF Spec

\* Costs go with schedules that reach them, in the heuristic (IG.cpp) whatever it
\* reads behind the last position, and in the search; no upper bound is below the
\* optimum.
THEOREM UpperBoundAttainedHolds == Spec => []UpperBoundAttained
<1>1. IInv => UpperBoundAttained
  <2> SUFFICES ASSUME IInv PROVE UpperBoundAttained
    OBVIOUS
  <2>1. SearchInv /\ CostInv
    BY DEF IInv
  <2>2. CostsReached
    BY <2>1 DEF CostsReached, SearchInv, Reached, CostInv
  <2> QED BY <2>1, <2>2 DEF UpperBoundAttained, CostInv
<1> QED BY <1>1, InvariantHolds, PTL

\* No node of the search, and no child of one on either side, gets a bound above its
\* best completion: not from bound_fsp_weak and bound_fsp_strong on the host, nor
\* from boundWeak and boundOne on the device.
THEOREM BoundsAdmissibleHolds == Spec => []BoundsAdmissible
<1>1. IInv => BoundsAdmissible
  <2> SUFFICES ASSUME IInv, pc = "leaves",
                      NEW k \in {i \in IVM : ivm[i].state # 0 /\ line(ivm[i]) < size - 1}
               PROVE
      LET x == ivm[k]
          f == front(x)
          b == back(x)
          cheapest(ff, jobs, bb) == Min({evalSolution(s) : s \in Completions(ff, jobs, bb)})
          jobs == SetToSeq(open(x))
          host == boundChildren(f, jobs, b)
          device == boundWeak(f, open(x), b)
      IN /\ bornes_calculer(f, jobs, b) <= cheapest(f, open(x), b)
         /\ StrongBound(f, jobs, b, setting.johnsonPairs) <= cheapest(f, open(x), b)
         /\ \A j \in open(x) : \A dir \in {FRONT, BACK} :
              LET least == IF dir = FRONT THEN cheapest(Append(f, j), open(x) \ {j}, b)
                                          ELSE cheapest(f, open(x) \ {j}, <<j>> \o b)
              IN /\ host[j][dir + 1] <= least
                 /\ device[j][dir + 1] <= least
                 /\ computeCostFast(f, open(x), b, dir, j) <= least
    BY DEF BoundsAdmissible
  <2> DEFINE x == ivm[k]
             f == front(x)
             b == back(x)
             O == open(x)
  <2>1. ptm \in Instances
    BY RightInstance
  <2>2. NodeOK(x) /\ line(x) < size - 1
    BY DEF IInv, IvmInv
  <2>3. Splits(f, O, b) /\ Cardinality(O) = size - line(x)
    <3> HIDE DEF x
    <3>1. StackOK(x.rows, x.pos) /\ x.pos \in [Line -> Nat]
      BY <2>2 DEF NodeOK, Inside
    <3> QED BY <3>1, SplitsOf
  <2>4. Cardinality(O) >= 2
    <3>1. size \in Nat /\ line(x) \in Nat
      <4> HIDE DEF x
      <4>1. StackOK(x.rows, x.pos)
        BY <2>2 DEF NodeOK
      <4> QED BY <4>1, Lines, MatrixSize
    <3> DEFINE n == line(x)
    <3> HIDE DEF n
    <3>2. Cardinality(O) = size - n /\ n < size - 1 /\ n \in Nat /\ size \in Nat
      BY <2>2, <2>3, <3>1 DEF n
    <3> HIDE DEF O
    <3> QED BY <3>2
  <2> HIDE DEF f, b, O
  <2>5. LET cheapest(ff, jobs, bb) == Min({evalSolution(s) : s \in Completions(ff, jobs, bb)})
            list == SetToSeq(O)
        IN /\ bornes_calculer(f, list, b) <= cheapest(f, O, b)
           /\ StrongBound(f, list, b, setting.johnsonPairs) <= cheapest(f, O, b)
           /\ \A j \in O : \A dir \in {FRONT, BACK} :
                LET least == IF dir = FRONT THEN cheapest(Append(f, j), O \ {j}, b)
                                            ELSE cheapest(f, O \ {j}, <<j>> \o b)
                IN /\ boundChildren(f, list, b)[j][dir + 1] <= least
                   /\ boundWeak(f, O, b)[j][dir + 1] <= least
                   /\ computeCostFast(f, O, b, dir, j) <= least
    BY <2>1, <2>3, <2>4, NodeAdmissible
  <2> QED BY <2>5 DEF f, b, O, x
<1> QED BY <1>1, InvariantHolds, PTL
=============================================================================
