----------------------------- MODULE IvmProofs ------------------------------
(*****************************************************************************)
(* Proofs about Ivm, for every number of jobs and explorers: the matrices    *)
(* stay permutations, whatever is branched, flagged, skipped and shared,     *)
(* and a cut falls inside the columns of its line; where an interval ends,   *)
(* and that intervals, flags and cuts implement the pool of work (WorkPool). *)
(*                                                                           *)
(* The second part shows, for every instance and every admissible bound,     *)
(* that no schedule is evaluated twice, that at the end the best cost is     *)
(* that of an optimal schedule, and that with findAll every optimal schedule *)
(* was evaluated.                                                            *)
(*****************************************************************************)
EXTENDS Ivm, DataLemmas, SequenceTheorems

-----------------------------------------------------------------------------
(* The invariant *)

Cells == -size .. size - 1

\* The jobs of a row, flagged or not.
JobsOf(jobs) == {absolute(jobs[i]) : i \in DOMAIN jobs}

\* A row with the columns 0 .. n that holds n + 1 different jobs.
RowOK(jobs, n) ==
  /\ jobs \in [0 .. n -> Cells]
  /\ \A i, j \in 0 .. n : absolute(jobs[i]) = absolute(jobs[j]) => i = j

\* The jobs that are fixed by the lines above row r.
Pointed(s, pos, r) == {absolute(s[k].jobs[pos[k - 1]]) : k \in 1 .. r - 1}

\* A stack of rows under a position vector: each row has the jobs that those
\* above it leave, and these point into their columns.
AnyRow == [dir : {FRONT, BACK}, jobs : UNION {[0 .. n -> Cells] : n \in Nat}]
StackOK(s, pos) ==
  /\ s \in Seq(AnyRow)
  /\ Len(s) <= size
  /\ \A r \in 1 .. Len(s) : RowOK(s[r].jobs, size - r)
  /\ \A r \in 1 .. Len(s) : JobsOf(s[r].jobs) = Job \ Pointed(s, pos, r)
  /\ \A r \in 1 .. Len(s) - 1 : pos[r - 1] \in 0 .. size - r

Shape ==
  /\ pc \in [Explorer -> {"root", "unfold", "ready", "in", "empty"}]
  /\ rows = [e \in Explorer |-> rows[e]]
  /\ posVect \in [Explorer -> [Line -> Nat]]
  /\ endVect \in [Explorer -> [Line -> Line]]

\* There is a root unless nothing was ever given to e; unfold starts with the
\* first column of every line.
Phase(e) ==
  /\ pc[e] \in {"unfold", "ready", "in"} => rows[e] # <<>>
  /\ pc[e] = "unfold" => \A l \in Line : posVect[e][l] = 0

Matrices == \A e \in Explorer : StackOK(rows[e], posVect[e])
IInv == Shape /\ Matrices /\ \A e \in Explorer : Phase(e)

-----------------------------------------------------------------------------
(* Flags and rows *)

\* A flag hides a job and does not change it.
LEMMA Flags ==
  ASSUME NEW c \in Cells
  PROVE  /\ absolute(c) \in Job
         /\ c >= 0 => absolute(c) = c
         /\ negative(c) \in Cells /\ absolute(negative(c)) = absolute(c)
BY SizeAssumption DEF Cells, Job, absolute, negative

\* A row has as many columns as its domain has elements.
LEMMA ColumnCount ==
  ASSUME NEW n \in Nat PROVE Cardinality(0 .. n) = n + 1
BY FS_Interval

\* generateLine drops the job of one column and clears all flags.
LEMMA GeneratedLine ==
  ASSUME NEW n \in Nat \ {0}, NEW jobs, RowOK(jobs, n), NEW c \in 0 .. n
  PROVE  /\ generateLine(jobs, c) \in [0 .. n - 1 -> Job]
         /\ RowOK(generateLine(jobs, c), n - 1)
         /\ JobsOf(generateLine(jobs, c)) = JobsOf(jobs) \ {absolute(jobs[c])}
<1> DEFINE g == generateLine(jobs, c)
           from(i) == IF i < c THEN i ELSE i + 1
<1>1. jobs \in [0 .. n -> Cells] /\ DOMAIN jobs = 0 .. n
  BY DEF RowOK
<1>2. g = [i \in 0 .. n - 1 |-> absolute(jobs[from(i)])]
  BY <1>1, ColumnCount DEF generateLine
<1>3. \A i \in 0 .. n - 1 : from(i) \in 0 .. n /\ from(i) # c
  OBVIOUS
<1>4. \A i \in 0 .. n - 1 : g[i] = absolute(jobs[from(i)]) /\ g[i] \in Job
  BY <1>1, <1>2, <1>3, Flags
<1>5. g \in [0 .. n - 1 -> Job] /\ Job \subseteq Cells
  BY <1>2, <1>4, SizeAssumption DEF Job, Cells
<1>6. \A i \in 0 .. n - 1 : absolute(g[i]) = g[i]
  BY <1>4, Flags DEF Job, absolute
<1>7. \A i, j \in 0 .. n - 1 : from(i) = from(j) => i = j
  OBVIOUS
<1> HIDE DEF g, from
<1>8. RowOK(g, n - 1)
  BY <1>3, <1>4, <1>5, <1>6, <1>7 DEF RowOK
<1>9. JobsOf(g) = JobsOf(jobs) \ {absolute(jobs[c])}
  <2>1. JobsOf(g) = {absolute(jobs[from(i)]) : i \in 0 .. n - 1}
    BY <1>4, <1>5, <1>6 DEF JobsOf
  <2>2. \A k \in (0 .. n) \ {c} : \E i \in 0 .. n - 1 : from(i) = k
    <3> TAKE k \in (0 .. n) \ {c}
    <3> WITNESS (IF k < c THEN k ELSE k - 1) \in 0 .. n - 1
    <3> QED BY DEF from
  <2>3. \A k \in (0 .. n) \ {c} : absolute(jobs[k]) # absolute(jobs[c])
    BY DEF RowOK
  <2>4. ASSUME NEW x \in JobsOf(g) PROVE x \in JobsOf(jobs) \ {absolute(jobs[c])}
    <3>1. PICK i \in 0 .. n - 1 : x = absolute(jobs[from(i)])
      BY <2>1, <2>4
    <3>2. from(i) \in (0 .. n) \ {c}
      BY <1>3
    <3> QED BY <1>1, <2>3, <3>1, <3>2 DEF JobsOf
  <2>5. ASSUME NEW x \in JobsOf(jobs) \ {absolute(jobs[c])} PROVE x \in JobsOf(g)
    <3>1. PICK k \in 0 .. n : x = absolute(jobs[k])
      BY <1>1, <2>5 DEF JobsOf
    <3>2. k # c
      BY <2>5, <3>1
    <3> QED BY <2>1, <2>2, <3>1, <3>2
  <2> QED BY <2>4, <2>5
<1> QED BY <1>5, <1>8, <1>9 DEF g

\* An injection of a row's columns to themselves hits all of them.
LEMMA Reordered ==
  ASSUME NEW n \in Nat, NEW p \in [0 .. n -> 0 .. n],
         \A i, j \in 0 .. n : p[i] = p[j] => i = j
  PROVE  \A k \in 0 .. n : \E i \in 0 .. n : p[i] = k
<1>1. IsFiniteSet(0 .. n)
  BY FS_Interval
<1>2. p \in Injection(0 .. n, 0 .. n)
  BY DEF Injection, IsInjective
<1>3. p \in Surjection(0 .. n, 0 .. n)
  BY <1>1, <1>2, FS_Injection
<1> QED BY <1>3 DEF Surjection

\* Bounding reorders a row and flags some of its jobs, none of which leads to a
\* schedule that improves on lb.
LEMMA BoundedRow ==
  ASSUME NEW n \in Nat, NEW jobs \in [0 .. n -> Job], RowOK(jobs, n),
         NEW stack, NEW pos, NEW lb, NEW row \in BoundedRows(stack, pos, jobs, lb)
  PROVE  /\ row \in AnyRow
         /\ RowOK(row.jobs, n)
         /\ JobsOf(row.jobs) = JobsOf(jobs)
         /\ \A i \in 0 .. n : row.jobs[i] < 0 =>
              \A s \in Completions(stack, pos) :
                s[NextSlot(stack, row.dir)] = absolute(row.jobs[i]) => gtBest(cost[s], lb)
<1> DEFINE prev_dir == IF stack = <<>> THEN FRONT ELSE Last(stack).dir
           free == {jobs[i] : i \in DOMAIN jobs}
           flagged(order, cut) == [i \in DOMAIN jobs |-> IF order[i] \in cut
                                                         THEN negative(order[i]) ELSE order[i]]
           cuts(dir) == SUBSET Prunable(stack, pos, free, dir, lb)
           ordered(dir, order) == {[dir |-> dir, jobs |-> flagged(order, cut)] : cut \in cuts(dir)}
           options(dir) == UNION {ordered(dir, order) : order \in Orders(jobs, prev_dir, dir)}
<1>1. PICK dir \in chooseChildrenSet(Len(stack)) : row \in options(dir)
  <2>1. BoundedRows(stack, pos, jobs, lb)
          = UNION {options(dir) : dir \in chooseChildrenSet(Len(stack))}
    BY Zenon DEF BoundedRows
  <2> HIDE DEF options
  <2> QED BY <2>1
<1>2. PICK order \in Orders(jobs, prev_dir, dir), cut \in cuts(dir) :
        row = [dir |-> dir, jobs |-> flagged(order, cut)]
  <2>1. PICK order \in Orders(jobs, prev_dir, dir) : row \in ordered(dir, order)
    <3> HIDE DEF ordered
    <3> QED BY <1>1
  <2> HIDE DEF flagged, cuts
  <2> QED BY <2>1
<1> HIDE DEF options, ordered, cuts, free, prev_dir
<1>3. PICK p \in [0 .. n -> 0 .. n] :
        /\ \A i, j \in 0 .. n : p[i] = p[j] => i = j
        /\ order = [i \in 0 .. n |-> jobs[p[i]]]
  <2>1. CASE sortNodes = 0 /\ prev_dir = dir
    <3> DEFINE p == [i \in 0 .. n |-> i]
    <3>1. order = jobs
      BY <1>2, <2>1 DEF Orders
    <3>2. p \in [0 .. n -> 0 .. n] /\ \A i \in 0 .. n : p[i] = i
      OBVIOUS
    <3> HIDE DEF p
    <3>3. order = [i \in 0 .. n |-> jobs[p[i]]]
      BY <3>1, <3>2
    <3> QED BY <3>2, <3>3
  <2>2. CASE sortNodes = 0 /\ prev_dir # dir
    <3> DEFINE p == [i \in 0 .. n |-> n - i]
    <3>1. Columns(jobs) = n + 1
      BY ColumnCount DEF Columns
    <3>2. order = [i \in DOMAIN jobs |-> jobs[Columns(jobs) - 1 - i]]
      <4>1. Orders(jobs, prev_dir, dir) = {[i \in DOMAIN jobs |-> jobs[Columns(jobs) - 1 - i]]}
        BY <2>2, Zenon DEF Orders
      <4> HIDE DEF flagged
      <4> QED BY <1>2, <4>1
    <3>3. DOMAIN jobs = 0 .. n /\ \A i \in 0 .. n : Columns(jobs) - 1 - i = p[i]
      BY <3>1
    <3> HIDE DEF p
    <3>4. order = [i \in 0 .. n |-> jobs[p[i]]]
      BY <3>2, <3>3
    <3> USE DEF p
    <3>5. p \in [0 .. n -> 0 .. n]
      OBVIOUS
    <3>6. \A i, j \in 0 .. n : p[i] = p[j] => i = j
      OBVIOUS
    <3> QED BY <3>4, <3>5, <3>6
  <2>3. CASE sortNodes # 0
    <3>1. order \in {[i \in DOMAIN jobs |-> jobs[q[i]]] :
                      q \in {q \in [DOMAIN jobs -> DOMAIN jobs] : IsInjective(q)}}
      BY <1>2, <2>3 DEF Orders
    <3>2. DOMAIN jobs = 0 .. n
      OBVIOUS
    <3> QED BY <3>1, <3>2 DEF IsInjective
  <2> QED BY <2>1, <2>2, <2>3
<1>4. \A i \in 0 .. n : order[i] = jobs[p[i]] /\ order[i] \in Job /\ order[i] \in Cells
  <2>1. \A i \in 0 .. n : p[i] \in 0 .. n /\ order[i] = jobs[p[i]]
    BY <1>3
  <2>2. \A k \in 0 .. n : jobs[k] \in Job
    OBVIOUS
  <2>3. Job \subseteq Cells
    BY SizeAssumption DEF Job, Cells
  <2> QED BY <2>1, <2>2, <2>3
<1>5. row.dir = dir /\ row.jobs = [i \in 0 .. n |-> IF order[i] \in cut THEN negative(order[i])
                                                                      ELSE order[i]]
  BY <1>2
<1>6. \A i \in 0 .. n : row.jobs[i] \in Cells /\ absolute(row.jobs[i]) = absolute(jobs[p[i]])
  BY <1>4, <1>5, Flags
<1>7. row.jobs \in [0 .. n -> Cells]
  BY <1>5, <1>6
<1>8. dir \in {FRONT, BACK}
  BY <1>1, FlagAssumption DEF chooseChildrenSet
<1>9. row \in AnyRow
  BY <1>2, <1>5, <1>7, <1>8 DEF AnyRow
<1>10. RowOK(row.jobs, n)
  BY <1>3, <1>6, <1>7 DEF RowOK
<1>11. JobsOf(row.jobs) = JobsOf(jobs)
  <2>1. JobsOf(row.jobs) = {absolute(jobs[p[i]]) : i \in 0 .. n}
    BY <1>6, <1>7 DEF JobsOf
  <2>2. \A k \in 0 .. n : \E i \in 0 .. n : p[i] = k
    BY <1>3, Reordered
  <2>3. JobsOf(jobs) = {absolute(jobs[k]) : k \in 0 .. n}
    BY DEF JobsOf
  <2>4. \A i \in 0 .. n : p[i] \in 0 .. n
    OBVIOUS
  <2>5. JobsOf(row.jobs) \subseteq JobsOf(jobs)
    BY <2>1, <2>3, <2>4
  <2>6. JobsOf(jobs) \subseteq JobsOf(row.jobs)
    BY <2>1, <2>2, <2>3
  <2> QED BY <2>5, <2>6
<1>12. ASSUME NEW i \in 0 .. n, row.jobs[i] < 0, NEW s \in Completions(stack, pos),
              s[NextSlot(stack, row.dir)] = absolute(row.jobs[i])
       PROVE  gtBest(cost[s], lb)
  <2>1. order[i] \in cut /\ absolute(row.jobs[i]) = order[i]
    BY <1>4, <1>5, <1>12, Flags DEF Job
  <2>2. order[i] \in Prunable(stack, pos, free, dir, lb)
    BY <2>1 DEF cuts
  <2> QED BY <1>5, <1>12, <2>1, <2>2 DEF Prunable
<1> QED BY <1>9, <1>10, <1>11, <1>12
-----------------------------------------------------------------------------
(* Stacks of rows *)

\* A part of a stack, with other flags in its rows, under a vector that points
\* to the same cells above its last row.
LEMMA StackPart ==
  ASSUME NEW s, NEW pos, NEW t \in Seq(AnyRow), NEW new, StackOK(s, pos),
         Len(t) <= Len(s),
         \A r \in 1 .. Len(t) :
           /\ RowOK(t[r].jobs, size - r)
           /\ \A i \in 0 .. size - r : absolute(t[r].jobs[i]) = absolute(s[r].jobs[i]),
         \A r \in 1 .. Len(t) - 1 : new[r - 1] = pos[r - 1]
  PROVE  StackOK(t, new)
<1>1. Len(s) \in Nat /\ Len(t) \in Nat
  BY LenProperties DEF StackOK
<1>2. \A r \in 1 .. Len(t) : RowOK(s[r].jobs, size - r)
  BY <1>1 DEF StackOK
<1>3. \A r \in 1 .. Len(t) : JobsOf(t[r].jobs) = JobsOf(s[r].jobs)
  <2> TAKE r \in 1 .. Len(t)
  <2>1. DOMAIN t[r].jobs = 0 .. size - r /\ DOMAIN s[r].jobs = 0 .. size - r
    BY <1>2 DEF RowOK
  <2> QED BY <2>1 DEF JobsOf
<1>4. \A r \in 1 .. Len(t) - 1 : new[r - 1] \in 0 .. size - r
  BY <1>1 DEF StackOK
<1>5. \A r \in 1 .. Len(t) - 1 :
        absolute(t[r].jobs[new[r - 1]]) = absolute(s[r].jobs[pos[r - 1]])
  BY <1>1, <1>4
<1>6. \A r \in 1 .. Len(t) : Pointed(t, new, r) = Pointed(s, pos, r)
  <2> TAKE r \in 1 .. Len(t)
  <2>1. \A k \in 1 .. r - 1 : k \in 1 .. Len(t) - 1
    BY <1>1
  <2> QED BY <1>5, <2>1 DEF Pointed
<1>7. \A r \in 1 .. Len(t) : JobsOf(t[r].jobs) = Job \ Pointed(t, new, r)
  <2> TAKE r \in 1 .. Len(t)
  <2>1. JobsOf(s[r].jobs) = Job \ Pointed(s, pos, r)
    BY <1>1 DEF StackOK
  <2> QED BY <1>3, <1>6, <2>1
<1>8. Len(t) <= size /\ \A r \in 1 .. Len(t) : RowOK(t[r].jobs, size - r)
  BY <1>1, SizeAssumption DEF StackOK
<1> QED BY <1>4, <1>7, <1>8 DEF StackOK

\* Another row, of the jobs that the last one leaves.
LEMMA StackPush ==
  ASSUME NEW s, NEW pos, NEW row \in AnyRow, NEW new, StackOK(s, pos),
         s # <<>>, Len(s) < size, pos[Len(s) - 1] \in 0 .. size - Len(s),
         RowOK(row.jobs, size - Len(s) - 1),
         JobsOf(row.jobs) = JobsOf(s[Len(s)].jobs)
                              \ {absolute(s[Len(s)].jobs[pos[Len(s) - 1]])},
         \A r \in 1 .. Len(s) : new[r - 1] = pos[r - 1]
  PROVE  StackOK(Append(s, row), new)
<1> DEFINE t == Append(s, row)
           n == Len(s)
<1>1. /\ n \in Nat \ {0} /\ t \in Seq(AnyRow) /\ Len(t) = n + 1
      /\ t[n + 1] = row /\ \A r \in 1 .. n : t[r] = s[r]
  BY EmptySeq, AppendProperties DEF StackOK
<1> HIDE DEF t
<1>2. \A r \in 1 .. n + 1 : RowOK(t[r].jobs, size - r)
  <2>1. ASSUME NEW r \in 1 .. n PROVE RowOK(t[r].jobs, size - r)
    BY <1>1 DEF StackOK
  <2>2. RowOK(t[n + 1].jobs, size - (n + 1))
    <3>1. size - (n + 1) = size - n - 1
      BY <1>1, SizeAssumption
    <3> QED BY <1>1, <3>1
  <2> QED BY <1>1, <2>1, <2>2
<1>3. \A r \in 1 .. n : new[r - 1] \in 0 .. size - r
  BY <1>1 DEF StackOK
<1>4. \A r \in 1 .. n : Pointed(t, new, r) = Pointed(s, pos, r)
  <2> SUFFICES ASSUME NEW r \in 1 .. n PROVE Pointed(t, new, r) = Pointed(s, pos, r)
    OBVIOUS
  <2>1. \A k \in 1 .. r - 1 : k \in 1 .. n
    BY <1>1
  <2>2. \A k \in 1 .. r - 1 : t[k] = s[k] /\ new[k - 1] = pos[k - 1]
    BY <1>1, <2>1
  <2>3. \A k \in 1 .. r - 1 : absolute(t[k].jobs[new[k - 1]]) = absolute(s[k].jobs[pos[k - 1]])
    BY <2>2
  <2> QED BY <2>3 DEF Pointed
<1>5. Pointed(t, new, n + 1) = Pointed(s, pos, n) \cup {absolute(s[n].jobs[pos[n - 1]])}
  <2>1. \A k \in 1 .. n : t[k] = s[k] /\ new[k - 1] = pos[k - 1]
    BY <1>1
  <2>2. Pointed(t, new, n + 1) = {absolute(s[k].jobs[pos[k - 1]]) : k \in 1 .. n}
    <3>1. n + 1 - 1 = n
      BY <1>1
    <3> QED BY <2>1, <3>1 DEF Pointed
  <2>3. 1 .. n = (1 .. n - 1) \cup {n}
    BY <1>1
  <2> QED BY <2>2, <2>3 DEF Pointed
<1>6. ASSUME NEW r \in 1 .. n PROVE JobsOf(t[r].jobs) = Job \ Pointed(t, new, r)
  BY <1>1, <1>4, <1>6 DEF StackOK
<1>7. JobsOf(t[n + 1].jobs) = Job \ Pointed(t, new, n + 1)
  <2>1. JobsOf(s[n].jobs) = Job \ Pointed(s, pos, n)
    BY <1>1 DEF StackOK
  <2> QED BY <1>1, <1>5, <2>1
<1>8. \A r \in 1 .. Len(t) : JobsOf(t[r].jobs) = Job \ Pointed(t, new, r)
  BY <1>1, <1>6, <1>7
<1>9. StackOK(t, new)
  BY <1>1, <1>2, <1>3, <1>8, SizeAssumption DEF StackOK
<1> QED BY <1>9 DEF t

\* The row of the root holds all jobs.
LEMMA StackRoot ==
  ASSUME NEW row \in AnyRow, NEW pos, RowOK(row.jobs, size - 1), JobsOf(row.jobs) = Job
  PROVE  StackOK(<<row>>, pos)
<1>1. Pointed(<<row>>, pos, 1) = {}
  BY DEF Pointed
<1>2. <<row>> \in Seq(AnyRow) /\ Len(<<row>>) = 1 /\ <<row>>[1] = row
  OBVIOUS
<1> QED BY <1>1, <1>2, SizeAssumption DEF StackOK

\* The stack without its last row, and with a flag on column p of row l.
PoppedStack(s, l, p) == [Front(s) EXCEPT ![l].jobs[p] = negative(@)]

\* The last row is dropped and the cell that led to it is flagged: the rows above
\* it are kept, and so is that row but for the flag.
LEMMA Popped ==
  ASSUME NEW s, NEW pos, StackOK(s, pos), NEW l \in Nat, l > 0, Len(s) = l + 1,
         NEW p, p = pos[l - 1],
         NEW t, t = PoppedStack(s, l, p)
  PROVE  /\ l \in 1 .. size - 1 /\ p \in 0 .. size - l /\ Len(s) = l + 1
         /\ t \in Seq(AnyRow) /\ Len(t) = l
         /\ \A r \in 1 .. l - 1 : t[r] = s[r]
         /\ t[l].dir = s[l].dir
         /\ t[l].jobs \in [0 .. size - l -> Cells]
         /\ \A i \in 0 .. size - l :
              t[l].jobs[i] = IF i = p THEN negative(s[l].jobs[i]) ELSE s[l].jobs[i]
<1> DEFINE old == s[l].jobs
           jobs == [old EXCEPT ![p] = negative(@)]
           row == [s[l] EXCEPT !.jobs = jobs]
           u == [Front(s) EXCEPT ![l] = row]
<1>1. Len(s) \in Nat /\ l \in Nat \ {0} /\ l = Len(s) - 1 /\ l <= size - 1
  BY LenProperties, SizeAssumption DEF StackOK
<1>2. /\ Front(s) \in Seq(AnyRow) /\ Len(Front(s)) = l
      /\ \A r \in 1 .. l : Front(s)[r] = s[r]
  <2>1. \A i \in 1 .. l : s[i] \in AnyRow
    BY <1>1, ElementOfSeq DEF StackOK
  <2> QED BY <1>1, <2>1, SubSeqProperties DEF Front
<1>3. s[l] \in AnyRow /\ old \in [0 .. size - l -> Cells] /\ p \in 0 .. size - l
  <2>1. l \in 1 .. Len(s) /\ l \in 1 .. Len(s) - 1
    BY <1>1
  <2> QED BY <1>1, <2>1, ElementOfSeq DEF StackOK, RowOK
<1>4. row.jobs = jobs /\ row = [dir |-> s[l].dir, jobs |-> jobs] /\ row.dir = s[l].dir
  <2> HIDE DEF jobs
  <2> QED BY <1>3 DEF AnyRow
<1>5. /\ jobs \in [0 .. size - l -> Cells]
      /\ \A i \in 0 .. size - l : jobs[i] = IF i = p THEN negative(old[i]) ELSE old[i]
  <2> HIDE DEF old
  <2>1. \A i \in 0 .. size - l : jobs[i] = IF i = p THEN negative(old[i]) ELSE old[i]
    BY <1>3
  <2>2. jobs = [i \in 0 .. size - l |-> jobs[i]]
    BY <1>3
  <2> HIDE DEF jobs
  <2>3. \A i \in 0 .. size - l : jobs[i] \in Cells
    BY <1>3, <2>1, Flags
  <2> QED BY <2>1, <2>2, <2>3
<1>6. row \in AnyRow
  <2>1. size - l \in Nat /\ s[l].dir \in {FRONT, BACK}
    BY <1>1, <1>3, SizeAssumption DEF AnyRow
  <2> HIDE DEF row, jobs
  <2>2. jobs \in UNION {[0 .. m -> Cells] : m \in Nat}
    BY <1>5, <2>1
  <2> QED BY <1>4, <2>1, <2>2 DEF AnyRow
<1>7. u \in Seq(AnyRow) /\ Len(u) = l /\ \A r \in 1 .. l : u[r] = IF r = l THEN row ELSE s[r]
  BY <1>1, <1>2, <1>6, ExceptSeq
<1>8. u = t
  <2>1. Front(s)[l] = s[l]
    BY <1>1, <1>2
  <2>2. t = [Front(s) EXCEPT ![l] = [Front(s)[l] EXCEPT !.jobs = [Front(s)[l].jobs EXCEPT ![p] = negative(@)]]]
    BY DEF PoppedStack
  <2> QED BY <2>1, <2>2
<1>9. \A r \in 1 .. l - 1 : r \in 1 .. l /\ r # l
  BY <1>1
<1>10. l \in 1 .. size - 1 /\ l \in 1 .. l /\ Len(s) = l + 1
  BY <1>1, SizeAssumption
<1> HIDE DEF row, u, jobs
<1>11. t[l] = row /\ \A r \in 1 .. l - 1 : t[r] = s[r]
  BY <1>7, <1>8, <1>9, <1>10
<1>12. t \in Seq(AnyRow) /\ Len(t) = l
  BY <1>7, <1>8
<1> QED BY <1>3, <1>4, <1>5, <1>10, <1>11, <1>12

\* That keeps the stack consistent.
LEMMA StackPop ==
  ASSUME NEW s, NEW pos, NEW new, StackOK(s, pos), NEW l \in Nat, l > 0, Len(s) = l + 1,
         \A r \in 1 .. l - 1 : new[r - 1] = pos[r - 1],
         NEW t, t = PoppedStack(s, l, pos[l - 1])
  PROVE  StackOK(t, new)
<1> DEFINE p == pos[l - 1]
<1>2. /\ l \in 1 .. size - 1 /\ p \in 0 .. size - l /\ Len(s) = l + 1
      /\ t \in Seq(AnyRow) /\ Len(t) = l
      /\ \A r \in 1 .. l - 1 : t[r] = s[r]
      /\ t[l].jobs \in [0 .. size - l -> Cells]
      /\ \A i \in 0 .. size - l :
           t[l].jobs[i] = IF i = p THEN negative(s[l].jobs[i]) ELSE s[l].jobs[i]
  BY Popped
<1> HIDE DEF p
<1>3. /\ \A r \in 1 .. l : RowOK(s[r].jobs, size - r)
      /\ \A r \in 1 .. l - 1 : new[r - 1] = pos[r - 1]
  BY <1>2, SizeAssumption DEF StackOK
<1>4. \A i \in 0 .. size - l : absolute(t[l].jobs[i]) = absolute(s[l].jobs[i])
  <2> DEFINE old == s[l].jobs
  <2>1. old \in [0 .. size - l -> Cells]
    BY <1>2, <1>3 DEF RowOK
  <2> HIDE DEF old
  <2>2. \A i \in 0 .. size - l : absolute(negative(old[i])) = absolute(old[i])
    BY <2>1, Flags
  <2> QED BY <1>2, <2>2 DEF old
<1>5. \A r \in 1 .. l : /\ RowOK(t[r].jobs, size - r)
                        /\ \A i \in 0 .. size - r : absolute(t[r].jobs[i]) = absolute(s[r].jobs[i])
  <2> SUFFICES ASSUME NEW r \in 1 .. l
               PROVE  /\ RowOK(t[r].jobs, size - r)
                      /\ \A i \in 0 .. size - r : absolute(t[r].jobs[i]) = absolute(s[r].jobs[i])
    OBVIOUS
  <2>1. CASE r = l
    BY <1>2, <1>3, <1>4, <2>1 DEF RowOK
  <2>2. CASE r # l
    <3>1. r \in 1 .. l - 1
      BY <1>2, <2>2, SizeAssumption
    <3> QED BY <1>2, <1>3, <3>1
  <2> QED BY <2>1, <2>2
<1>6. /\ Len(t) <= Len(s) /\ t \in Seq(AnyRow)
      /\ \A r \in 1 .. Len(t) :
           /\ RowOK(t[r].jobs, size - r)
           /\ \A i \in 0 .. size - r : absolute(t[r].jobs[i]) = absolute(s[r].jobs[i])
      /\ \A r \in 1 .. Len(t) - 1 : new[r - 1] = pos[r - 1]
  BY <1>2, <1>3, <1>5
<1> HIDE <1>2, <1>3, <1>5
<1> QED BY <1>6, StackPart
-----------------------------------------------------------------------------
(* The cut of a line *)

\* Between the columns pos and end there is one that has half of the open ones
\* before it, and the least of these leaves the thief something.
LEMMA CutColumn ==
  ASSUME NEW jobs, NEW pos \in Nat, NEW end \in Nat, pos < end
  PROVE  cuttingPosition(jobs, pos, end, 2) \in pos + 1 .. end
<1> DEFINE Seen(b) == {i \in pos + 1 .. b : jobs[i] >= 0}
           f(p) == Cardinality(Seen(p - 1))
           keep == Cardinality(Seen(end)) \div 2
           Cuts == {p \in pos + 1 .. end + 1 : f(p) = keep}
<1>1. \A b \in Nat : IsFiniteSet(Seen(b)) /\ Cardinality(Seen(b)) \in Nat
  <2> TAKE b \in Nat
  <2>1. IsFiniteSet(pos + 1 .. b) /\ Seen(b) \subseteq pos + 1 .. b
    BY FS_Interval
  <2> HIDE DEF Seen
  <2> QED BY <2>1, FS_Subset, FS_CardinalityType
<1>2. f(pos + 1) = 0
  <2>1. Seen(pos + 1 - 1) = {}
    OBVIOUS
  <2> HIDE DEF Seen
  <2> QED BY <2>1, FS_EmptySet
<1>3. \A p \in pos + 1 .. end : f(p + 1) <= f(p) + 1
  <2> TAKE p \in pos + 1 .. end
  <2>1. Seen(p + 1 - 1) \subseteq Seen(p - 1) \cup {p}
    OBVIOUS
  <2>2. p - 1 \in Nat /\ p + 1 - 1 \in Nat
    OBVIOUS
  <2> HIDE DEF Seen
  <2>3. /\ IsFiniteSet(Seen(p - 1) \cup {p})
        /\ Cardinality(Seen(p - 1) \cup {p}) <= Cardinality(Seen(p - 1)) + 1
    <3>1. IsFiniteSet(Seen(p - 1)) /\ Cardinality(Seen(p - 1)) \in Nat
      BY <1>1, <2>2
    <3>2. /\ IsFiniteSet(Seen(p - 1) \cup {p})
          /\ Cardinality(Seen(p - 1) \cup {p}) \in {Cardinality(Seen(p - 1)), Cardinality(Seen(p - 1)) + 1}
      BY <3>1, FS_AddElement
    <3> QED BY <3>1, <3>2
  <2>4. /\ Cardinality(Seen(p + 1 - 1)) <= Cardinality(Seen(p - 1) \cup {p})
        /\ Cardinality(Seen(p - 1) \cup {p}) \in Nat
    BY <2>1, <2>3, FS_Subset, FS_CardinalityType
  <2> QED BY <1>1, <2>2, <2>3, <2>4
<1>4. f(end + 1) = Cardinality(Seen(end))
  <2>1. end + 1 - 1 = end
    OBVIOUS
  <2> QED BY <2>1
<1>5. \A p \in pos + 1 .. end + 1 : f(p) \in Nat
  <2> TAKE p \in pos + 1 .. end + 1
  <2>1. p - 1 \in Nat
    OBVIOUS
  <2> HIDE DEF Seen
  <2> QED BY <1>1, <2>1
<1>6. cuttingPosition(jobs, pos, end, 2) = Min(Cuts)
  BY DEF cuttingPosition
<1> HIDE DEF Seen, f
<1>7. /\ Cardinality(Seen(end)) \in Nat /\ keep \in Nat /\ keep <= Cardinality(Seen(end))
      /\ keep = Cardinality(Seen(end)) => keep = 0
  BY <1>1
<1> HIDE DEF keep
<1>8. Cuts # {}
  <2> DEFINE Above == {p \in pos + 1 .. end + 1 : f(p) > keep}
  <2>1. CASE Above = {}
    <3>1. ~(f(end + 1) > keep)
      BY <2>1
    <3>2. f(end + 1) = keep
      BY <1>4, <1>7, <3>1
    <3> QED BY <3>2
  <2>2. CASE Above # {}
    <3>1. PICK q \in Above : \A p \in Above : q <= p
      <4>1. Above \in SUBSET Nat
        OBVIOUS
      <4> HIDE DEF Above
      <4> QED BY <2>2, <4>1, LeastNumber
    <3>2. q # pos + 1
      BY <1>2, <1>7, <3>1
    <3>3. q - 1 \in pos + 1 .. end /\ (q - 1) + 1 = q
      BY <3>1, <3>2
    <3>4. ~(f(q - 1) > keep)
      BY <3>1, <3>3
    <3>5. f(q) <= f(q - 1) + 1 /\ f(q) > keep
      BY <1>3, <3>1, <3>3
    <3>6. f(q) \in Nat /\ f(q - 1) \in Nat
      BY <1>5, <3>1, <3>3
    <3>7. f(q - 1) = keep
      BY <1>7, <3>4, <3>5, <3>6
    <3> QED BY <3>3, <3>7
  <2> QED BY <2>1, <2>2
<1>9. Min(Cuts) \in Cuts /\ \A p \in Cuts : Min(Cuts) <= p
  <2>1. Cuts \in SUBSET Nat
    OBVIOUS
  <2> HIDE DEF Cuts
  <2> QED BY <1>8, <2>1, LeastNumber
<1>10. Min(Cuts) # end + 1
  <2> SUFFICES ASSUME Min(Cuts) = end + 1 PROVE FALSE
    OBVIOUS
  <2>1. f(end + 1) = keep
    BY <1>9
  <2>2. keep = 0
    BY <1>4, <1>7, <2>1
  <2>3. pos + 1 \in Cuts
    BY <1>2, <2>2
  <2>4. end + 1 <= pos + 1
    BY <1>9, <2>3
  <2> QED BY <2>4
<1>11. Min(Cuts) \in pos + 1 .. end + 1
  BY <1>9
<1> HIDE DEF Cuts
<1> QED BY <1>6, <1>10, <1>11

\* The line of the cut is at or above the current one.
LEMMA CutLine ==
  ASSUME NEW v, Len(rows[v]) \in 1 .. size
  PROVE  ShareLine(v) \in 0 .. line(v) /\ ShareLine(v) \in Line
<1> DEFINE S == {l \in 0 .. line(v) : \/ posVect[v][l] # endVect[v][l]
                                     \/ l = line(v)
                                     \/ l >= size - Margin}
<1>1. line(v) \in Nat /\ line(v) < size
  BY SizeAssumption DEF line
<1>2. line(v) \in S /\ S \in SUBSET Nat /\ S \subseteq 0 .. line(v)
  BY <1>1
<1>3. ShareLine(v) = Min(S)
  BY DEF ShareLine
<1> HIDE DEF S
<1>4. ShareLine(v) \in 0 .. line(v)
  BY <1>2, <1>3, LeastNumber
<1> QED BY <1>1, <1>4, SizeAssumption DEF Line
-----------------------------------------------------------------------------
(* Steps *)

\* The matrix of explorer e after a step; what other explorers have is kept.
LEMMA OneExplorer ==
  ASSUME IInv, NEW e \in Explorer, NEW stack, NEW pos \in [Line -> Nat],
         NEW last \in [Line -> Line],
         NEW at \in {"root", "unfold", "ready", "in", "empty"},
         rows' = [rows EXCEPT ![e] = stack],
         posVect' = [posVect EXCEPT ![e] = pos],
         endVect' = [endVect EXCEPT ![e] = last],
         pc' = [pc EXCEPT ![e] = at],
         StackOK(stack, pos),
         at \in {"unfold", "ready", "in"} => stack # <<>>,
         at = "unfold" => \A l \in Line : pos[l] = 0
  PROVE  IInv'
<1>1. Shape'
  BY DEF IInv, Shape
<1>2. \A x \in Explorer :
        /\ rows'[x] = IF x = e THEN stack ELSE rows[x]
        /\ posVect'[x] = IF x = e THEN pos ELSE posVect[x]
        /\ pc'[x] = IF x = e THEN at ELSE pc[x]
  BY DEF IInv, Shape
<1>3. Matrices'
  BY <1>2 DEF IInv, Matrices
<1>4. \A x \in Explorer : Phase(x)'
  BY <1>2 DEF IInv, Phase
<1> QED BY <1>1, <1>3, <1>4 DEF IInv

\* The parts of an explorer, and that nothing changes in what is left alone.
LEMMA Parts ==
  ASSUME IInv, NEW e \in Explorer
  PROVE  /\ StackOK(rows[e], posVect[e]) /\ Phase(e)
         /\ Len(rows[e]) \in 0 .. size /\ rows[e] \in Seq(AnyRow)
         /\ rows[e] # <<>> => Len(rows[e]) \in 1 .. size
         /\ posVect[e] \in [Line -> Nat] /\ endVect[e] \in [Line -> Line]
         /\ pc[e] \in {"root", "unfold", "ready", "in", "empty"}
         /\ rows = [rows EXCEPT ![e] = rows[e]]
         /\ posVect = [posVect EXCEPT ![e] = posVect[e]]
         /\ endVect = [endVect EXCEPT ![e] = endVect[e]]
         /\ pc = [pc EXCEPT ![e] = pc[e]]
<1>1. StackOK(rows[e], posVect[e]) /\ Phase(e)
  BY DEF IInv, Matrices
<1>2. rows[e] \in Seq(AnyRow) /\ Len(rows[e]) <= size
  BY <1>1 DEF StackOK
<1>3. Len(rows[e]) \in 0 .. size /\ (rows[e] # <<>> => Len(rows[e]) \in 1 .. size)
  BY <1>2, LenProperties, EmptySeq, SizeAssumption
<1>4. rows = [rows EXCEPT ![e] = rows[e]]
  BY DEF IInv, Shape
<1> QED BY <1>1, <1>2, <1>3, <1>4 DEF IInv, Shape

\* A row that is pushed below an inner cell: the stack stays consistent, and what
\* the row flags cannot improve on the best cost its explorer knows.
LEMMA Pushed ==
  ASSUME IInv, NEW e \in Explorer, rows[e] # <<>>, Len(rows[e]) < size,
         posVect[e][line(e)] < size - line(e), PushRow(e)
  PROVE  \E row \in AnyRow : \E stack :
           /\ stack = Append(rows[e], row)
           /\ rows' = [rows EXCEPT ![e] = stack] /\ stack # <<>>
           /\ \A new : (\A r \in 1 .. Len(rows[e]) : new[r - 1] = posVect[e][r - 1])
                       => StackOK(stack, new)
           /\ \A i \in 0 .. size - Len(rows[e]) - 1 : row.jobs[i] < 0 =>
                \A x \in Completions(rows[e], posVect[e]) :
                  x[NextSlot(rows[e], row.dir)] = absolute(row.jobs[i])
                    => gtBest(cost[x], local_best[e])
<1> DEFINE n == Len(rows[e])
           s == rows[e]
           jobs == s[n].jobs
           c == posVect[e][n - 1]
<1>1. /\ n \in 1 .. size /\ n < size /\ StackOK(s, posVect[e])
      /\ s \in Seq(AnyRow) /\ n - 1 \in Line /\ posVect[e] \in [Line -> Nat]
  BY Parts, SizeAssumption DEF Line
<1>2. c \in 0 .. size - n /\ line(e) = n - 1
  <2>1. c \in Nat /\ line(e) = n - 1
    BY <1>1 DEF line
  <2>2. c < size - (n - 1)
    BY <2>1
  <2> HIDE DEF n, s, c
  <2> QED BY <1>1, <2>1, <2>2, SizeAssumption
<1>3. Row(e, line(e)) = s[n]
  <2>1. line(e) + 1 = n
    BY <1>1, <1>2
  <2> QED BY <2>1 DEF Row
<1>4. RowOK(jobs, size - n) /\ size - n \in Nat \ {0} /\ size - n - 1 \in Nat
  <2>1. size - n \in Nat \ {0} /\ size - n - 1 \in Nat /\ n \in 1 .. n
    <3>1. n \in 1 .. size /\ n < size
      BY <1>1
    <3> HIDE DEF n, s, jobs, c
    <3> QED BY <3>1, SizeAssumption
  <2>2. RowOK(s[n].jobs, size - n)
    <3>1. \A r \in 1 .. Len(s) : RowOK(s[r].jobs, size - r)
      BY <1>1 DEF StackOK
    <3> QED BY <2>1, <3>1
  <2> QED BY <2>1, <2>2
<1> DEFINE g == generateLine(jobs, c)
<1>5. /\ g \in [0 .. size - n - 1 -> Job] /\ RowOK(g, size - n - 1)
      /\ JobsOf(g) = JobsOf(jobs) \ {absolute(jobs[c])}
  BY <1>2, <1>4, GeneratedLine
<1>6. PICK row \in BoundedRows(rows[e], posVect[e], g, local_best[e]) :
        rows' = [rows EXCEPT ![e] = Append(@, row)]
  BY <1>2, <1>3 DEF PushRow
<1>7. /\ row \in AnyRow /\ RowOK(row.jobs, size - n - 1)
      /\ JobsOf(row.jobs) = JobsOf(jobs) \ {absolute(jobs[c])}
      /\ \A i \in 0 .. size - n - 1 : row.jobs[i] < 0 =>
           \A x \in Completions(rows[e], posVect[e]) :
             x[NextSlot(rows[e], row.dir)] = absolute(row.jobs[i]) => gtBest(cost[x], local_best[e])
  <2> HIDE DEF g
  <2> QED BY <1>4, <1>5, <1>6, BoundedRow
<1>8. \A new : (\A r \in 1 .. n : new[r - 1] = posVect[e][r - 1]) => StackOK(Append(s, row), new)
  BY <1>1, <1>2, <1>7, StackPush
<1>9. Append(s, row) # <<>>
  BY <1>1, <1>7, AppendProperties
<1> QED BY <1>6, <1>7, <1>8, <1>9

\* The root is bounded.
LEMMA Inv_setRoot ==
  ASSUME IInv, NEW e \in Explorer, setRoot(e) PROVE IInv'
<1> DEFINE all == [i \in Line |-> i]
           zero == [l \in Line |-> 0]
<1>1. size - 1 \in Nat /\ Line = 0 .. size - 1 /\ Job = Line
  BY SizeAssumption DEF Line, Job
<1>2. all \in [0 .. size - 1 -> Job] /\ RowOK(all, size - 1) /\ JobsOf(all) = Job
  <2>1. \A i \in Line : absolute(all[i]) = i /\ i \in Cells
    BY <1>1, SizeAssumption DEF absolute, Cells
  <2>2. all \in [0 .. size - 1 -> Job] /\ all \in [0 .. size - 1 -> Cells] /\ DOMAIN all = Line
    BY <1>1, <2>1
  <2> HIDE DEF all
  <2> QED BY <1>1, <2>1, <2>2 DEF RowOK, JobsOf
<1>3. PICK row \in BoundedRows(<<>>, posVect[e], all, best) : rows' = [rows EXCEPT ![e] = <<row>>]
  BY DEF setRoot
<1>4. row \in AnyRow /\ RowOK(row.jobs, size - 1) /\ JobsOf(row.jobs) = Job
  <2> HIDE DEF all
  <2> QED BY <1>1, <1>2, <1>3, BoundedRow
<1>5. StackOK(<<row>>, zero)
  BY <1>4, StackRoot
<1>6. zero \in [Line -> Nat] /\ LastLeaf \in [Line -> Line] /\ \A l \in Line : zero[l] = 0
  BY <1>1 DEF LastLeaf
<1>7. /\ posVect' = [posVect EXCEPT ![e] = zero] /\ endVect' = [endVect EXCEPT ![e] = LastLeaf]
      /\ pc' = [pc EXCEPT ![e] = "unfold"]
  BY DEF setRoot
<1>8. <<row>> # <<>>
  OBVIOUS
<1> HIDE DEF zero
<1> QED BY <1>3, <1>5, <1>6, <1>7, <1>8, OneExplorer

\* The first node is unfolded.
LEMMA Inv_unfold ==
  ASSUME IInv, NEW e \in Explorer, unfold(e) PROVE IInv'
<1>1. /\ rows[e] # <<>> /\ \A l \in Line : posVect[e][l] = 0
      /\ Len(rows[e]) \in 1 .. size /\ line(e) = Len(rows[e]) - 1
      /\ endVect' = endVect
  BY Parts DEF unfold, Phase, line
<1>2. CASE line(e) < size - 2 /\ ~pruningCellState(e)
  <2>1. /\ PushRow(e) /\ posVect' = posVect /\ pc' = pc /\ pc[e] = "unfold"
    BY <1>2 DEF unfold
  <2>2. posVect[e][line(e)] < size - line(e) /\ Len(rows[e]) < size
    <3>1. line(e) \in Line /\ line(e) \in Int /\ line(e) < size - 2
      BY <1>1, <1>2, SizeAssumption DEF Line
    <3>2. posVect[e][line(e)] = 0
      BY <1>1, <3>1
    <3>3. Len(rows[e]) = line(e) + 1
      BY <1>1, SizeAssumption
    <3> QED BY <3>1, <3>2, <3>3, SizeAssumption
  <2>3. PICK stack : /\ rows' = [rows EXCEPT ![e] = stack] /\ stack # <<>>
                     /\ StackOK(stack, posVect[e])
    BY <1>1, <2>1, <2>2, Pushed
  <2>4. /\ posVect[e] \in [Line -> Nat] /\ endVect[e] \in [Line -> Line]
        /\ posVect' = [posVect EXCEPT ![e] = posVect[e]]
        /\ endVect' = [endVect EXCEPT ![e] = endVect[e]]
        /\ pc' = [pc EXCEPT ![e] = "unfold"]
    BY <1>1, <2>1, Parts
  <2> QED BY <1>1, <2>3, <2>4, OneExplorer
<1>3. CASE ~(line(e) < size - 2 /\ ~pruningCellState(e))
  <2> DEFINE pos == IF line(e) < size - 2
                    THEN [l \in Line |-> IF l > line(e) THEN 0 ELSE posVect[e][l]]
                    ELSE posVect[e]
  <2>1. /\ posVect' = [posVect EXCEPT ![e] = pos] /\ pc' = [pc EXCEPT ![e] = "ready"]
        /\ rows' = rows
    BY <1>3 DEF unfold
  <2>2. pos = posVect[e]
    BY <1>1, Parts
  <2> HIDE DEF pos
  <2> QED BY <1>1, <2>1, <2>2, Parts, OneExplorer
<1> QED BY <1>2, <1>3

\* The call of next, and its last return.
LEMMA Inv_EnterNext ==
  ASSUME IInv, NEW e \in Explorer, EnterNext(e) \/ Exhausted(e) PROVE IInv'
<1>1. PICK at \in {"in", "empty"} :
        /\ pc' = [pc EXCEPT ![e] = at] /\ rows' = rows /\ posVect' = posVect /\ endVect' = endVect
        /\ pc[e] \in {"ready", "in"}
  BY DEF EnterNext, Exhausted
<1>2. rows[e] # <<>>
  BY <1>1, Parts DEF Phase
<1> QED BY <1>1, <1>2, Parts, OneExplorer
\* Backtracking: the root row is never left, as its end is the interval's.
LEMMA Inv_goUp ==
  ASSUME IInv, NEW e \in Explorer, goUp(e) PROVE IInv'
<1> DEFINE n == Len(rows[e])
           pos == [posVect[e] EXCEPT ![n - 1] = 0]
           stack == PoppedStack(rows[e], n - 1, posVect[e][n - 1 - 1])
<1>1. /\ rows[e] # <<>> /\ n \in 1 .. size /\ line(e) = n - 1 /\ n - 1 \in Line
      /\ StackOK(rows[e], posVect[e])
  BY Parts, SizeAssumption DEF goUp, Phase, line, Line
<1>2. n # 1
  <2> SUFFICES ASSUME n = 1 PROVE FALSE
    OBVIOUS
  <2>1. line(e) = 0 /\ 0 \in Line
    BY <1>1, SizeAssumption DEF Line
  <2>2. posVect[e][0] \in Nat /\ endVect[e][0] \in 0 .. size - 1 /\ posVect[e][0] >= size
    <3>1. posVect[e][0] \in Nat /\ endVect[e][0] \in Line
      BY <2>1, Parts
    <3>2. posVect[e][0] >= size - 0
      BY <2>1 DEF goUp, lineEndState
    <3> QED BY <3>1, <3>2, SizeAssumption DEF Line
  <2>3. posVect[e][0] > endVect[e][0]
    BY <2>2, SizeAssumption
  <2>4. LexLeq(posVect[e], endVect[e])
    BY DEF goUp, beforeEnd
  <2>5. PICK k \in 0 .. 0 - 1 : posVect[e][k] < endVect[e][k]
    BY <2>1, <2>3, <2>4 DEF LexLeq
  <2> QED BY <2>5
<1>3. /\ posVect' = [posVect EXCEPT ![e] = pos]
      /\ rows' = [rows EXCEPT ![e] = stack]
      /\ endVect' = endVect /\ pc' = pc /\ pc[e] = "in"
  <2>1. n - 1 - 1 = n - 2
    BY <1>1
  <2> QED BY <1>1, <2>1 DEF goUp, PoppedStack
<1>4. pos \in [Line -> Nat] /\ \A r \in 1 .. n - 2 : pos[r - 1] = posVect[e][r - 1]
  BY <1>1, Parts DEF Line
<1>5. StackOK(stack, pos)
  <2> DEFINE l == n - 1
  <2>1. l \in Nat /\ l > 0 /\ n = l + 1 /\ l - 1 = n - 2
    <3>1. n \in 1 .. size /\ n # 1
      BY <1>1, <1>2
    <3> HIDE DEF n, pos, stack
    <3> QED BY <3>1, SizeAssumption
  <2>2. stack = PoppedStack(rows[e], l, posVect[e][l - 1])
    OBVIOUS
  <2>3. Len(rows[e]) = l + 1 /\ \A r \in 1 .. l - 1 : pos[r - 1] = posVect[e][r - 1]
    BY <1>4, <2>1
  <2> HIDE DEF pos, l, n, stack
  <2> QED BY <1>1, <2>1, <2>2, <2>3, StackPop
<1>6. stack # <<>>
  <2>1. \A i \in 1 .. n - 1 : rows[e][i] \in AnyRow
    BY <1>1, ElementOfSeq DEF StackOK
  <2>2. Len(Front(rows[e])) = n - 1 /\ Front(rows[e]) \in Seq(AnyRow)
    BY <1>1, <1>2, <2>1, SubSeqProperties DEF Front
  <2>3. DOMAIN Front(rows[e]) = 1 .. n - 1
    BY <2>2, LenProperties
  <2>4. DOMAIN stack = 1 .. n - 1
    BY <2>3 DEF PoppedStack
  <2>5. 1 \in DOMAIN stack
    <3>1. n \in 1 .. size /\ n # 1
      BY <1>1, <1>2
    <3> HIDE DEF n, pos, stack
    <3> QED BY <2>4, <3>1, SizeAssumption
  <2> HIDE DEF stack
  <2> QED BY <2>5
<1> HIDE DEF pos, stack
<1>7. /\ endVect[e] \in [Line -> Line] /\ endVect' = [endVect EXCEPT ![e] = endVect[e]]
      /\ pc' = [pc EXCEPT ![e] = "in"]
  BY <1>3, Parts
<1> QED BY <1>3, <1>4, <1>5, <1>6, <1>7, OneExplorer

\* A flagged cell is skipped.
LEMMA Inv_goRight ==
  ASSUME IInv, NEW e \in Explorer, goRight(e) PROVE IInv'
<1> DEFINE n == Len(rows[e])
           pos == [posVect[e] EXCEPT ![n - 1] = @ + 1]
<1>1. /\ rows[e] # <<>> /\ n \in 1 .. size /\ line(e) = n - 1 /\ n - 1 \in Line
      /\ StackOK(rows[e], posVect[e]) /\ rows[e] \in Seq(AnyRow)
  BY Parts, SizeAssumption DEF goRight, Phase, line, Line
<1>2. /\ posVect' = [posVect EXCEPT ![e] = pos]
      /\ rows' = rows /\ endVect' = endVect /\ pc' = pc /\ pc[e] = "in"
  BY <1>1 DEF goRight
<1>3. pos \in [Line -> Nat] /\ \A r \in 1 .. n - 1 : pos[r - 1] = posVect[e][r - 1]
  <2>1. posVect[e] \in [Line -> Nat] /\ \A r \in 1 .. n - 1 : r - 1 # n - 1 /\ r - 1 \in Line
    BY <1>1, Parts, SizeAssumption DEF Line
  <2>2. posVect[e][n - 1] + 1 \in Nat
    BY <1>1, <2>1
  <2> HIDE DEF n
  <2> QED BY <2>1, <2>2
<1> HIDE DEF pos
<1>4. StackOK(rows[e], pos)
  <2>1. \A r \in 1 .. n : RowOK(rows[e][r].jobs, size - r)
    BY <1>1 DEF StackOK
  <2>2. n <= n
    BY <1>1
  <2> QED BY <1>1, <1>3, <2>1, <2>2, StackPart
<1>5. /\ endVect[e] \in [Line -> Line] /\ endVect' = [endVect EXCEPT ![e] = endVect[e]]
      /\ pc' = [pc EXCEPT ![e] = "in"] /\ rows' = [rows EXCEPT ![e] = rows[e]]
  BY <1>2, Parts
<1> QED BY <1>1, <1>2, <1>3, <1>4, <1>5, OneExplorer

\* An inner node is branched.
LEMMA Inv_Branch ==
  ASSUME IInv, NEW e \in Explorer, Branch(e) PROVE IInv'
<1> DEFINE n == Len(rows[e])
           pos == [posVect[e] EXCEPT ![n] = 0]
<1>1. /\ rows[e] # <<>> /\ n \in 1 .. size /\ line(e) = n - 1
      /\ posVect[e] \in [Line -> Nat]
  BY Parts DEF Branch, Open, Phase, line
<1>2. n < size /\ n \in Line /\ posVect[e][line(e)] < size - line(e)
  <2>1. n < size - 1 /\ n - 1 \in Line
    BY <1>1, SizeAssumption DEF Branch, Line
  <2>2. posVect[e][line(e)] \in Nat /\ ~(posVect[e][line(e)] >= size - line(e))
    BY <1>1, <2>1 DEF Branch, Open, lineEndState
  <2>3. n < size /\ n \in Line
    BY <1>1, <2>1, SizeAssumption DEF Line
  <2>4. line(e) \in Int
    BY <1>1
  <2>5. posVect[e][line(e)] < size - line(e)
    <3> DEFINE p == posVect[e][line(e)]
    <3>1. p \in Nat /\ ~(p >= size - line(e))
      BY <2>2
    <3> HIDE DEF p
    <3>2. p < size - line(e)
      BY <2>4, <3>1, SizeAssumption
    <3> QED BY <3>2 DEF p
  <2> QED BY <2>3, <2>5
<1>3. PICK stack :
        /\ rows' = [rows EXCEPT ![e] = stack] /\ stack # <<>>
        /\ \A new : (\A r \in 1 .. n : new[r - 1] = posVect[e][r - 1]) => StackOK(stack, new)
  BY <1>1, <1>2, Pushed DEF Branch
<1>4. /\ posVect' = [posVect EXCEPT ![e] = pos] /\ pc' = [pc EXCEPT ![e] = "ready"]
      /\ endVect' = endVect
  <2>1. line(e) + 1 = n
    BY <1>1
  <2> QED BY <2>1 DEF Branch
<1>5. pos \in [Line -> Nat] /\ \A r \in 1 .. n : pos[r - 1] = posVect[e][r - 1]
  BY <1>1, <1>2 DEF Line
<1> HIDE DEF pos
<1>6. StackOK(stack, pos)
  BY <1>3, <1>5
<1>7. endVect[e] \in [Line -> Line] /\ endVect' = [endVect EXCEPT ![e] = endVect[e]]
  BY <1>4, Parts
<1> QED BY <1>3, <1>4, <1>5, <1>6, <1>7, OneExplorer

\* A leaf is visited: its only cell, flagged, is the last row.
LEMMA Inv_VisitLeaf ==
  ASSUME IInv, NEW e \in Explorer, VisitLeaf(e) PROVE IInv'
<1> DEFINE n == Len(rows[e])
           s == rows[e]
           pos == [posVect[e] EXCEPT ![size - 1] = 0]
           c == posVect[e][n - 1]
           g == generateLine(s[n].jobs, c)
           row == [dir |-> FRONT, jobs |-> [i \in {0} |-> negative(g[0])]]
<1>1. /\ s # <<>> /\ n = size - 1 /\ line(e) = n - 1 /\ n - 1 \in Line /\ size - 1 \in Line
      /\ posVect[e] \in [Line -> Nat] /\ StackOK(s, posVect[e]) /\ s \in Seq(AnyRow)
      /\ n \in 1 .. size
  <2>1. s # <<>> /\ line(e) + 1 = size - 1 /\ n \in 1 .. size
    BY Parts DEF VisitLeaf, Open, Phase
  <2> QED BY <2>1, Parts, SizeAssumption DEF line, Line
<1>2. c \in 0 .. size - n
  <2>1. c \in Nat /\ ~(c >= size - (n - 1))
    BY <1>1 DEF VisitLeaf, Open, lineEndState
  <2> QED BY <1>1, <2>1, SizeAssumption
<1>3. RowOK(s[n].jobs, size - n) /\ size - n = 1
  BY <1>1, SizeAssumption DEF StackOK
<1>4. /\ g \in [0 .. 0 -> Job]
      /\ JobsOf(g) = JobsOf(s[n].jobs) \ {absolute(s[n].jobs[c])}
  <2>1. 1 - 1 = 0 /\ 1 \in Nat \ {0} /\ c \in 0 .. 1 /\ RowOK(s[n].jobs, 1)
    BY <1>2, <1>3
  <2> HIDE DEF c
  <2> QED BY <2>1, GeneratedLine
<1>5. /\ posVect' = [posVect EXCEPT ![e] = pos] /\ rows' = [rows EXCEPT ![e] = Append(@, row)]
      /\ endVect' = endVect /\ pc' = pc /\ pc[e] = "in"
  <2>1. Row(e, line(e)) = s[n] /\ posVect[e][line(e)] = c
    <3>1. n - 1 + 1 = n
      BY <1>1
    <3> QED BY <1>1, <3>1 DEF Row
  <2> QED BY <2>1 DEF VisitLeaf, Open
<1> HIDE DEF g
<1>6. g[0] \in Job /\ g[0] \in Cells /\ absolute(g[0]) = g[0] /\ JobsOf(g) = {g[0]}
  <2>1. g[0] \in Job /\ DOMAIN g = {0}
    BY <1>4
  <2>2. g[0] \in Cells /\ absolute(g[0]) = g[0]
    BY <2>1, SizeAssumption DEF Job, Cells, absolute
  <2> QED BY <2>1, <2>2 DEF JobsOf
<1>7. /\ row.jobs = [i \in {0} |-> negative(g[0])] /\ row.jobs \in [0 .. 0 -> Cells]
      /\ absolute(row.jobs[0]) = g[0]
  <2>1. negative(g[0]) \in Cells /\ absolute(negative(g[0])) = g[0]
    BY <1>6, Flags
  <2>2. 0 .. 0 = {0}
    OBVIOUS
  <2> QED BY <2>1, <2>2
<1>8. row \in AnyRow
  <2>1. row.jobs \in UNION {[0 .. m -> Cells] : m \in Nat}
    BY <1>7
  <2> QED BY <2>1 DEF AnyRow
<1>9. RowOK(row.jobs, size - n - 1) /\ JobsOf(row.jobs) = {g[0]}
  <2>1. size - n - 1 = 0
    BY <1>3
  <2>2. \A i \in 0 .. 0 : i = 0
    OBVIOUS
  <2>3. DOMAIN row.jobs = {0}
    OBVIOUS
  <2> HIDE DEF row
  <2> QED BY <1>7, <2>1, <2>2, <2>3 DEF RowOK, JobsOf
<1>10. pos \in [Line -> Nat] /\ \A r \in 1 .. n : pos[r - 1] = posVect[e][r - 1]
  BY <1>1 DEF Line
<1> HIDE DEF row, pos
<1>11. StackOK(Append(s, row), pos)
  <2>1. n < size
    BY <1>1, SizeAssumption
  <2> QED BY <1>1, <1>2, <1>4, <1>6, <1>8, <1>9, <1>10, <2>1, StackPush
<1>12. Append(s, row) # <<>>
  BY <1>1, <1>8, AppendProperties
<1>13. /\ endVect[e] \in [Line -> Line] /\ endVect' = [endVect EXCEPT ![e] = endVect[e]]
       /\ pc' = [pc EXCEPT ![e] = "in"]
  BY <1>5, Parts
<1> QED BY <1>5, <1>10, <1>11, <1>12, <1>13, OneExplorer

\* An interval is shared: the thief copies the rows down to the line of the cut
\* and points to the cells that the victim points to above it.
LEMMA Inv_shareWork ==
  ASSUME IInv, NEW v \in Explorer, NEW t \in Explorer, shareWork(v, t) PROVE IInv'
<1> DEFINE l == ShareLine(v)
           cut == cuttingPosition(Row(v, l).jobs, posVect[v][l], endVect[v][l], 2)
           stack == SubSeq(rows[v], 1, l + 1)
<1>1. /\ v # t /\ pc[v] = "ready"
      /\ posVect[v][l] < endVect[v][l]
      /\ rows' = [rows EXCEPT ![t] = stack]
      /\ posVect' = [posVect EXCEPT ![t] = ThiefPos(v, l, cut)]
      /\ endVect' = [endVect EXCEPT ![t] = endVect[v], ![v] = VictimEnd(v, l, cut)]
      /\ pc' = [pc EXCEPT ![t] = "ready"]
  BY DEF shareWork
<1>2. /\ StackOK(rows[v], posVect[v]) /\ rows[v] \in Seq(AnyRow)
      /\ Len(rows[v]) \in 1 .. size
      /\ posVect[v] \in [Line -> Nat] /\ endVect[v] \in [Line -> Line]
  BY <1>1, Parts DEF Phase
<1>3. l \in 0 .. Len(rows[v]) - 1 /\ l \in Line /\ l \in Nat
  BY <1>2, CutLine DEF line, Line
<1>4. cut \in Nat \ {0} /\ cut - 1 \in Line
  <2>1. posVect[v][l] \in Nat /\ endVect[v][l] \in Line
    BY <1>2, <1>3
  <2>2. endVect[v][l] \in Nat
    BY <2>1 DEF Line
  <2>3. cut \in posVect[v][l] + 1 .. endVect[v][l]
    BY <1>1, <2>1, <2>2, CutColumn
  <2> HIDE DEF cut
  <2> QED BY <2>1, <2>2, <2>3, SizeAssumption DEF Line
<1> HIDE DEF l, cut
<1>5. ThiefPos(v, l, cut) \in [Line -> Nat]
  <2>1. \A i \in Line : posVect[v][i] \in Nat
    BY <1>2
  <2> QED BY <1>4, <2>1 DEF ThiefPos
<1>6. VictimEnd(v, l, cut) \in [Line -> Line]
  <2>1. \A i \in Line : endVect[v][i] \in Line /\ size - i - 1 \in Line
    BY <1>2, SizeAssumption DEF Line
  <2> QED BY <1>4, <2>1 DEF VictimEnd
<1>7. \A r \in 1 .. l : ThiefPos(v, l, cut)[r - 1] = posVect[v][r - 1]
  <2>1. \A r \in 1 .. l : r - 1 \in Line /\ r - 1 < l
    BY <1>3, SizeAssumption DEF Line
  <2> QED BY <2>1 DEF ThiefPos
<1>8. /\ stack \in Seq(AnyRow) /\ Len(stack) = l + 1
      /\ \A r \in 1 .. l + 1 : stack[r] = rows[v][r]
  <2>1. \A i \in 1 .. l + 1 : rows[v][i] \in AnyRow
    <3>1. \A i \in 1 .. l + 1 : i \in 1 .. Len(rows[v])
      BY <1>2, <1>3, SizeAssumption
    <3> QED BY <1>2, <3>1, ElementOfSeq
  <2>2. 1 <= l + 1 /\ l + 1 \in Int /\ l + 1 - 1 + 1 = l + 1
    BY <1>3
  <2>3. \A r \in 1 .. l + 1 : 1 + r - 1 = r
    BY <1>3
  <2> QED BY <2>1, <2>2, <2>3, SubSeqProperties
<1>9. stack # <<>>
  <2> HIDE DEF stack
  <2> QED BY <1>3, <1>8
<1> HIDE DEF stack
<1>10. StackOK(stack, ThiefPos(v, l, cut))
  <2>1. Len(stack) <= Len(rows[v])
    BY <1>2, <1>3, <1>8, SizeAssumption
  <2>2. \A r \in 1 .. Len(stack) :
          /\ RowOK(stack[r].jobs, size - r)
          /\ \A i \in 0 .. size - r : absolute(stack[r].jobs[i]) = absolute(rows[v][r].jobs[i])
    <3> SUFFICES ASSUME NEW r \in 1 .. l + 1
                 PROVE  /\ RowOK(stack[r].jobs, size - r)
                        /\ stack[r] = rows[v][r]
      BY <1>8
    <3>1. r \in 1 .. Len(rows[v])
      BY <1>2, <1>3, SizeAssumption
    <3> QED BY <1>2, <1>8, <3>1 DEF StackOK
  <2>3. \A r \in 1 .. Len(stack) - 1 : ThiefPos(v, l, cut)[r - 1] = posVect[v][r - 1]
    <3>1. Len(stack) - 1 = l
      BY <1>3, <1>8
    <3> QED BY <1>7, <3>1
  <2> QED BY <1>2, <1>8, <2>1, <2>2, <2>3, StackPart
<1>11. Shape'
  BY <1>1, <1>2, <1>5, <1>6 DEF IInv, Shape
<1>12. \A x \in Explorer :
         /\ rows'[x] = IF x = t THEN stack ELSE rows[x]
         /\ posVect'[x] = IF x = t THEN ThiefPos(v, l, cut) ELSE posVect[x]
         /\ pc'[x] = IF x = t THEN "ready" ELSE pc[x]
  BY <1>1 DEF IInv, Shape
<1>13. Matrices'
  BY <1>10, <1>12 DEF IInv, Matrices
<1>14. \A x \in Explorer : Phase(x)'
  BY <1>9, <1>12 DEF IInv, Phase
<1> QED BY <1>11, <1>13, <1>14 DEF IInv

-----------------------------------------------------------------------------
(* Theorems *)

\* No rows, no cells: the start.
LEMMA InvInit ==
  ASSUME Init PROVE IInv
<1>1. \A p : StackOK(<<>>, p)
  <2>1. <<>> \in Seq(AnyRow) /\ Len(<<>>) = 0
    OBVIOUS
  <2> QED BY <2>1, SizeAssumption DEF StackOK
<1>2. Shape
  <2>1. size \in Nat /\ 0 \in Line
    BY SizeAssumption DEF Line
  <2> QED BY <2>1 DEF Init, Shape
<1>3. \A e \in Explorer : rows[e] = <<>> /\ pc[e] \in {"root", "empty"}
  BY DEF Init
<1>4. Matrices
  BY <1>1, <1>3 DEF Matrices
<1>5. \A e \in Explorer : Phase(e)
  BY <1>3 DEF Phase
<1> QED BY <1>2, <1>4, <1>5 DEF IInv

\* Every step keeps the invariant.
LEMMA InvStep ==
  ASSUME IInv, [Next]_vars PROVE IInv'
<1>1. ASSUME NEW e \in Explorer, Step(e) PROVE IInv'
  BY <1>1, Inv_setRoot, Inv_unfold, Inv_EnterNext, Inv_goUp, Inv_goRight, Inv_Branch,
     Inv_VisitLeaf DEF Step
<1>2. ASSUME NEW v \in Explorer, NEW t \in Explorer, shareWork(v, t) PROVE IInv'
  BY <1>2, Inv_shareWork
<1>3. CASE UNCHANGED vars
  BY <1>3 DEF vars, IInv, Shape, Matrices, Phase
<1> QED BY <1>1, <1>2, <1>3 DEF Next, Finished

\* The stack of rows is consistent at all times.
THEOREM Invariant == Spec => []IInv
<1>1. Init => IInv
  BY InvInit
<1>2. IInv /\ [Next]_vars => IInv'
  BY InvStep
<1> QED BY <1>1, <1>2, PTL DEF Spec

\* However intervals are branched, pruned and shared, each row of a matrix holds
\* exactly the jobs that the lines above leave: decoded schedules are permutations.
THEOREM PermutationsKept == Spec => []RowsArePermutations
<1>1. IInv => RowsArePermutations
  <2> SUFFICES ASSUME IInv, NEW e \in Explorer, NEW r \in DOMAIN rows[e]
               PROVE  JobsOf(rows[e][r].jobs) = Job \ Pointed(rows[e], posVect[e], r)
    BY DEF RowsArePermutations, JobsOf, Pointed
  <2>1. StackOK(rows[e], posVect[e]) /\ rows[e] \in Seq(AnyRow)
    BY Parts
  <2>2. DOMAIN rows[e] = 1 .. Len(rows[e])
    BY <2>1, LenProperties
  <2> QED BY <2>1, <2>2 DEF StackOK
<1> QED BY <1>1, Invariant, PTL

\* A cut leaves the victim its column and the thief at least one: the error exits
\* of cuttingPosition are never taken.
THEOREM CutsInside == Spec => []CutInside
<1>1. IInv => CutInside
  <2> SUFFICES ASSUME IInv, NEW v \in Explorer, pc[v] = "ready",
                      posVect[v][ShareLine(v)] < endVect[v][ShareLine(v)]
               PROVE  cuttingPosition(Row(v, ShareLine(v)).jobs, posVect[v][ShareLine(v)],
                                      endVect[v][ShareLine(v)], 2)
                        \in posVect[v][ShareLine(v)] + 1 .. endVect[v][ShareLine(v)]
    BY DEF CutInside
  <2>1. Len(rows[v]) \in 1 .. size
    BY Parts DEF Phase
  <2>2. ShareLine(v) \in Line
    BY <2>1, CutLine
  <2>3. posVect[v][ShareLine(v)] \in Nat /\ endVect[v][ShareLine(v)] \in Line
    BY <2>2, Parts
  <2>4. endVect[v][ShareLine(v)] \in Nat
    BY <2>3 DEF Line
  <2> QED BY <2>3, <2>4, CutColumn
<1> QED BY <1>1, Invariant, PTL

-----------------------------------------------------------------------------
(* Intervals, flags and cuts *)

\* Digits of both ends; the position may be one column past the last.
Digits(pos, last) ==
  \A i \in Line : pos[i] \in 0 .. size - i /\ last[i] \in 0 .. size - i - 1

\* An interval and the current line l: below it the position is the first column,
\* above it the end is not passed, and the end is the last column of every line
\* except where position and end agree on all lines above.
Fits(l, pos, last) ==
  /\ \A i \in Line : i > l => pos[i] = 0
  /\ \A i \in Line : i < l => pos[i] <= last[i]
  /\ \A i \in Line : \/ last[i] = size - i - 1
                     \/ i <= l /\ \A k \in 0 .. i - 1 : pos[k] = last[k]

Active(e) == pc[e] \in {"unfold", "ready", "in"}

\* The interval of an explorer; it is exhausted when nothing is left to do.
IntervalOK(e) ==
  /\ Digits(posVect[e], endVect[e])
  /\ Active(e) => Fits(line(e), posVect[e], endVect[e])
  /\ pc[e] = "empty" => ~LexLeq(posVect[e], endVect[e])
IntervalInv == \A e \in Explorer : IntervalOK(e)

-----------------------------------------------------------------------------
(* The order of leaves *)

\* The lines, and the numbers of columns they may have.
LEMMA Lines ==
  /\ size \in Nat /\ size >= 2 /\ Line = 0 .. size - 1 /\ Job = 0 .. size - 1
  /\ 0 \in Line /\ size - 1 \in Line
  /\ \A i \in Line : i \in Nat /\ i < size /\ \A k \in 0 .. i - 1 : k \in Line /\ k < i
BY SizeAssumption DEF Line, Job

\* Two vectors that differ do so first at some line.
LEMMA FirstDifference ==
  ASSUME NEW u \in [Line -> Nat], NEW v \in [Line -> Nat],
         NEW l \in Line, u[l] # v[l]
  PROVE  \E i \in Line : /\ i <= l /\ u[i] # v[i]
                         /\ \A k \in 0 .. i - 1 : u[k] = v[k]
<1> DEFINE D == {i \in Line : u[i] # v[i]}
<1>1. D \in SUBSET Nat /\ l \in D
  BY Lines
<1>2. Min(D) \in D /\ \A x \in D : Min(D) <= x
  <2> HIDE DEF D
  <2> QED BY <1>1, LeastNumber
<1>3. \A k \in 0 .. Min(D) - 1 : u[k] = v[k]
  <2> SUFFICES ASSUME NEW k \in 0 .. Min(D) - 1, u[k] # v[k] PROVE FALSE
    OBVIOUS
  <2>1. Min(D) \in Line /\ k \in Line /\ ~(Min(D) <= k)
    BY <1>2, Lines
  <2>2. k \in D
    BY <2>1
  <2> QED BY <1>2, <2>1, <2>2
<1> QED BY <1>1, <1>2, <1>3

\* What comes first is decided at the first line where two vectors differ.
LEMMA LexAt ==
  ASSUME NEW u \in [Line -> Nat], NEW v \in [Line -> Nat],
         NEW i \in Line, u[i] # v[i], \A k \in 0 .. i - 1 : u[k] = v[k]
  PROVE  LexLeq(u, v) <=> u[i] < v[i]
<1>1. u[i] \in Nat /\ v[i] \in Nat
  OBVIOUS
<1>2. ASSUME LexLeq(u, v) PROVE u[i] < v[i]
  <2>1. ~(u[i] > v[i])
    <3> SUFFICES ASSUME u[i] > v[i] PROVE FALSE
      OBVIOUS
    <3>1. PICK k \in 0 .. i - 1 : u[k] < v[k]
      BY <1>2 DEF LexLeq
    <3>2. u[k] = v[k] /\ v[k] \in Nat
      BY Lines
    <3> QED BY <3>1, <3>2
  <2> QED BY <1>1, <2>1
<1>3. ASSUME u[i] < v[i] PROVE LexLeq(u, v)
  <2> SUFFICES ASSUME NEW l \in Line, u[l] > v[l] PROVE \E k \in 0 .. l - 1 : u[k] < v[k]
    BY DEF LexLeq
  <2>1. i < l
    <3> SUFFICES ASSUME ~(i < l) PROVE FALSE
      OBVIOUS
    <3>1. l = i \/ l \in 0 .. i - 1
      BY Lines
    <3>2. u[l] \in Nat /\ v[l] \in Nat
      OBVIOUS
    <3> QED BY <1>1, <1>3, <3>1, <3>2
  <2>2. i \in 0 .. l - 1
    BY <2>1, Lines
  <2> QED BY <1>3, <2>2
<1> QED BY <1>2, <1>3

\* Before is before or equal to the same.
LEMMA LexSame ==
  ASSUME NEW u \in [Line -> Nat], NEW v \in [Line -> Nat], \A i \in Line : u[i] = v[i]
  PROVE  LexLeq(u, v)
BY DEF LexLeq

\* The order is transitive.
LEMMA LexTransitive ==
  ASSUME NEW u \in [Line -> Nat], NEW v \in [Line -> Nat], NEW w \in [Line -> Nat],
         LexLeq(u, v), LexLeq(v, w)
  PROVE  LexLeq(u, w)
<1> SUFFICES ASSUME NEW l \in Line, u[l] > w[l]
             PROVE  \E k \in 0 .. l - 1 : u[k] < w[k]
  BY DEF LexLeq
<1>0. \A i \in Line : u[i] \in Nat /\ v[i] \in Nat /\ w[i] \in Nat
  OBVIOUS
<1>1. PICK i \in Line : i <= l /\ u[i] # w[i] /\ \A k \in 0 .. i - 1 : u[k] = w[k]
  <2>1. u[l] # w[l]
    BY <1>0
  <2> QED BY <2>1, FirstDifference
<1>2. u[i] < w[i]
  <2> SUFFICES ASSUME u[i] > w[i] PROVE FALSE
    BY <1>0, <1>1
  <2>1. CASE \A k \in 0 .. i - 1 : u[k] = v[k]
    <3>1. u[i] <= v[i]
      <4> SUFFICES ASSUME u[i] # v[i] PROVE u[i] < v[i]
        BY <1>0
      <4> QED BY <2>1, LexAt
    <3>2. \A k \in 0 .. i - 1 : v[k] = w[k]
      BY <1>1, <2>1
    <3>3. v[i] <= w[i]
      <4> SUFFICES ASSUME v[i] # w[i] PROVE v[i] < w[i]
        BY <1>0
      <4> QED BY <3>2, LexAt
    <3> QED BY <1>0, <3>1, <3>3
  <2>2. CASE \E k \in 0 .. i - 1 : u[k] # v[k]
    <3>1. PICK k \in 0 .. i - 1 : u[k] # v[k]
      BY <2>2
    <3>2. k \in Line /\ k < i
      BY Lines
    <3>3. PICK j \in Line : j <= k /\ u[j] # v[j] /\ \A m \in 0 .. j - 1 : u[m] = v[m]
      BY <3>1, <3>2, FirstDifference
    <3>4. j \in 0 .. i - 1 /\ \A m \in 0 .. j - 1 : m \in 0 .. i - 1
      BY <3>2, <3>3, Lines
    <3>5. u[j] < v[j]
      BY <3>3, LexAt
    <3>6. u[j] = w[j] /\ \A m \in 0 .. j - 1 : v[m] = w[m]
      BY <1>1, <3>3, <3>4
    <3>7. v[j] < w[j]
      <4>1. v[j] # w[j]
        BY <1>0, <3>5, <3>6
      <4> QED BY <3>6, <4>1, LexAt
    <3> QED BY <1>0, <3>5, <3>6, <3>7
  <2> QED BY <2>1, <2>2
<1>3. i # l
  BY <1>0, <1>2
<1>4. i \in 0 .. l - 1
  BY <1>1, <1>3, Lines
<1> QED BY <1>2, <1>4

-----------------------------------------------------------------------------
(* How intervals move *)

\* A position whose line l starts again, or goes on by a column.
Restarted(pos, l) == [pos EXCEPT ![l] = 0]
Advanced(pos, l) == [pos EXCEPT ![l] = @ + 1]

\* The numbers at hand.
LEMMA Numbers ==
  ASSUME NEW pos \in [Line -> Nat], NEW last \in [Line -> Line]
  PROVE  \A i \in Line : /\ i \in Int /\ 0 <= i /\ i < size /\ size \in Int
                         /\ pos[i] \in Int /\ 0 <= pos[i] /\ last[i] \in Int
                         /\ last[i] \in Nat
                         /\ \A k \in 0 .. i - 1 : k \in Line /\ k \in Int /\ k < i
BY Lines

\* Backtracking from line l resets it; its end is the last column, as some line
\* above has not reached its end.
LEMMA FitsUp ==
  ASSUME NEW pos \in [Line -> Nat], NEW last \in [Line -> Line], NEW l \in Line, l > 0,
         Digits(pos, last), Fits(l, pos, last), LexLeq(pos, last), pos[l] >= size - l
  PROVE  Digits(Restarted(pos, l), last) /\ Fits(l - 1, Restarted(pos, l), last)
<1> DEFINE new == Restarted(pos, l)
<1>0. \A i \in Line : /\ i \in Int /\ 0 <= i /\ i < size /\ size \in Int
                      /\ pos[i] \in Int /\ 0 <= pos[i] /\ last[i] \in Int
                      /\ \A k \in 0 .. i - 1 : k \in Line /\ k \in Int /\ k < i
  BY Numbers
<1>1. \A i \in Line : new[i] = IF i = l THEN 0 ELSE pos[i]
  BY DEF Restarted
<1> HIDE DEF new
<1>2. PICK k \in 0 .. l - 1 : pos[k] < last[k]
  <2>1. last[l] \in 0 .. size - l - 1
    BY DEF Digits
  <2>2. pos[l] > last[l]
    BY <1>0, <2>1
  <2> QED BY <2>2 DEF LexLeq
<1>3. last[l] = size - l - 1
  <2>1. pos[k] # last[k]
    BY <1>0, <1>2
  <2> QED BY <1>2, <2>1 DEF Fits
<1>4. Digits(new, last)
  <2>1. \A i \in Line : 0 \in 0 .. size - i
    BY <1>0
  <2> QED BY <1>1, <2>1 DEF Digits
<1>5. ASSUME NEW i \in Line
      PROVE  /\ i > l - 1 => new[i] = 0
             /\ i < l - 1 => new[i] <= last[i]
             /\ \/ last[i] = size - i - 1
                \/ i <= l - 1 /\ \A j \in 0 .. i - 1 : new[j] = last[j]
  <2>1. CASE i < l
    <3>1. \A j \in 0 .. i - 1 : new[j] = pos[j]
      BY <1>0, <1>1, <2>1
    <3>2. new[i] = pos[i] /\ i <= l - 1 /\ ~(i > l - 1)
      BY <1>0, <1>1, <2>1
    <3> QED BY <2>1, <3>1, <3>2 DEF Fits
  <2>2. CASE i = l
    <3>1. i > l - 1 /\ ~(i < l - 1)
      BY <1>0, <2>2
    <3> QED BY <1>1, <1>3, <2>2, <3>1
  <2>3. CASE i > l
    <3>1. ~(i <= l) /\ ~(i < l - 1) /\ i # l
      BY <1>0, <2>3
    <3> QED BY <1>1, <2>3, <3>1 DEF Fits
  <2>4. i < l \/ i = l \/ i > l
    BY <1>0
  <2> QED BY <2>1, <2>2, <2>3, <2>4
<1>6. Fits(l - 1, new, last)
  BY <1>5 DEF Fits
<1> QED BY <1>4, <1>6 DEF new

\* The next column of the last line.
LEMMA FitsRight ==
  ASSUME NEW pos \in [Line -> Nat], NEW last \in [Line -> Line], NEW l \in Line,
         Digits(pos, last), Fits(l, pos, last), pos[l] < size - l
  PROVE  Digits(Advanced(pos, l), last) /\ Fits(l, Advanced(pos, l), last)
<1> DEFINE new == Advanced(pos, l)
<1>0. \A i \in Line : /\ i \in Int /\ 0 <= i /\ i < size /\ size \in Int
                      /\ pos[i] \in Int /\ 0 <= pos[i] /\ last[i] \in Int
                      /\ \A k \in 0 .. i - 1 : k \in Line /\ k \in Int /\ k < i
  BY Numbers
<1>1. \A i \in Line : new[i] = IF i = l THEN pos[l] + 1 ELSE pos[i]
  BY DEF Advanced
<1> HIDE DEF new
<1>2. Digits(new, last)
  <2>1. pos[l] + 1 \in 0 .. size - l
    BY <1>0
  <2> QED BY <1>1, <2>1 DEF Digits
<1>3. ASSUME NEW i \in Line
      PROVE  /\ i > l => new[i] = 0
             /\ i < l => new[i] <= last[i]
             /\ \/ last[i] = size - i - 1
                \/ i <= l /\ \A j \in 0 .. i - 1 : new[j] = last[j]
  <2>1. CASE i <= l
    <3>1. \A j \in 0 .. i - 1 : new[j] = pos[j]
      BY <1>0, <1>1, <2>1
    <3>2. i < l => new[i] = pos[i]
      BY <1>0, <1>1
    <3> QED BY <1>0, <2>1, <3>1, <3>2 DEF Fits
  <2>2. CASE i > l
    <3>1. ~(i <= l) /\ ~(i < l) /\ i # l
      BY <1>0, <2>2
    <3> QED BY <1>1, <2>2, <3>1 DEF Fits
  <2> QED BY <1>0, <2>1, <2>2
<1>4. Fits(l, new, last)
  BY <1>3 DEF Fits
<1> QED BY <1>2, <1>4 DEF new

\* A position in the interval whose last line is not finished is in it there.
LEMMA FitsHere ==
  ASSUME NEW pos \in [Line -> Nat], NEW last \in [Line -> Line], NEW l \in Line,
         Fits(l, pos, last), LexLeq(pos, last), pos[l] < size - l
  PROVE  pos[l] <= last[l]
<1>0. \A i \in Line : /\ i \in Int /\ 0 <= i /\ i < size /\ size \in Int
                      /\ pos[i] \in Int /\ 0 <= pos[i] /\ last[i] \in Int
                      /\ \A k \in 0 .. i - 1 : k \in Line /\ k \in Int /\ k < i
  BY Numbers
<1> SUFFICES ASSUME pos[l] > last[l] PROVE FALSE
  BY <1>0
<1>1. PICK k \in 0 .. l - 1 : pos[k] < last[k]
  BY DEF LexLeq
<1>2. pos[k] # last[k]
  BY <1>0, <1>1
<1>3. last[l] = size - l - 1
  BY <1>1, <1>2 DEF Fits
<1> QED BY <1>0, <1>3

\* A line below, from its first column.
LEMMA FitsDown ==
  ASSUME NEW pos \in [Line -> Nat], NEW last \in [Line -> Line], NEW l \in Line,
         NEW m \in Line, m = l + 1, Digits(pos, last), Fits(l, pos, last), pos[l] <= last[l]
  PROVE  Digits(Restarted(pos, m), last) /\ Fits(m, Restarted(pos, m), last)
<1> DEFINE new == Restarted(pos, m)
<1>0. \A i \in Line : /\ i \in Int /\ 0 <= i /\ i < size /\ size \in Int
                      /\ pos[i] \in Int /\ 0 <= pos[i] /\ last[i] \in Int
                      /\ \A k \in 0 .. i - 1 : k \in Line /\ k \in Int /\ k < i
  BY Numbers
<1>1. \A i \in Line : new[i] = IF i = m THEN 0 ELSE pos[i]
  BY DEF Restarted
<1> HIDE DEF new
<1>2. Digits(new, last)
  <2>1. \A i \in Line : 0 \in 0 .. size - i
    BY <1>0
  <2> QED BY <1>1, <2>1 DEF Digits
<1>3. ASSUME NEW i \in Line
      PROVE  /\ i > m => new[i] = 0
             /\ i < m => new[i] <= last[i]
             /\ \/ last[i] = size - i - 1
                \/ i <= m /\ \A j \in 0 .. i - 1 : new[j] = last[j]
  <2>1. CASE i <= l
    <3>1. \A j \in 0 .. i - 1 : new[j] = pos[j]
      BY <1>0, <1>1, <2>1
    <3>2. new[i] = pos[i] /\ i <= m /\ ~(i > m) /\ (i = l \/ i < l)
      BY <1>0, <1>1, <2>1
    <3> QED BY <2>1, <3>1, <3>2 DEF Fits
  <2>2. CASE i > l
    <3>1. ~(i <= l) /\ ~(i < m)
      BY <1>0, <2>2
    <3>2. i > m => new[i] = pos[i]
      BY <1>0, <1>1
    <3> QED BY <2>2, <3>1, <3>2 DEF Fits
  <2> QED BY <1>0, <2>1, <2>2
<1>4. Fits(m, new, last)
  BY <1>3 DEF Fits
<1> QED BY <1>2, <1>4 DEF new

\* All leaves: the interval of the root.
LEMMA FitsAll ==
  ASSUME NEW pos \in [Line -> Nat], \A i \in Line : pos[i] = 0, NEW l \in Line
  PROVE  LastLeaf \in [Line -> Line] /\ Digits(pos, LastLeaf) /\ Fits(l, pos, LastLeaf)
<1>1. \A i \in Line : size - i - 1 \in Line /\ size - i - 1 \in 0 .. size - i - 1 /\ 0 \in 0 .. size - i
                      /\ 0 <= size - i - 1
  BY Lines
<1>2. LastLeaf \in [Line -> Line] /\ \A i \in Line : LastLeaf[i] = size - i - 1
  BY <1>1 DEF LastLeaf
<1> QED BY <1>1, <1>2 DEF Digits, Fits


\* Line l of the victim is the first at which its position and end differ, and
\* the cut falls between them.
LEMMA SharedLine ==
  ASSUME IInv, NEW v \in Explorer, Len(rows[v]) \in 1 .. size,
         NEW l, l = ShareLine(v), posVect[v][l] < endVect[v][l]
  PROVE  /\ l \in Line /\ l \in 0 .. line(v)
         /\ \A k \in 0 .. l - 1 : posVect[v][k] = endVect[v][k]
         /\ cuttingPosition(Row(v, l).jobs, posVect[v][l], endVect[v][l], 2)
              \in posVect[v][l] + 1 .. endVect[v][l]
<1> DEFINE S == {i \in 0 .. line(v) : \/ posVect[v][i] # endVect[v][i]
                                     \/ i = line(v)
                                     \/ i >= size - Margin}
<1>1. l \in 0 .. line(v) /\ l \in Line /\ line(v) \in Nat
  BY CutLine DEF line
<1>2. posVect[v] \in [Line -> Nat] /\ endVect[v] \in [Line -> Line]
  BY Parts
<1>3. S \in SUBSET Nat /\ line(v) \in S /\ l = Min(S)
  BY <1>1 DEF ShareLine
<1>4. \A i \in S : l <= i
  <2> HIDE DEF S
  <2> QED BY <1>3, LeastNumber
<1>5. \A k \in 0 .. l - 1 : posVect[v][k] = endVect[v][k]
  <2> SUFFICES ASSUME NEW k \in 0 .. l - 1, posVect[v][k] # endVect[v][k] PROVE FALSE
    OBVIOUS
  <2>1. k \in 0 .. line(v) /\ ~(l <= k)
    BY <1>1
  <2> QED BY <1>4, <2>1
<1>6. posVect[v][l] \in Nat /\ endVect[v][l] \in Nat
  BY <1>1, <1>2, Lines
<1> QED BY <1>1, <1>5, <1>6, CutColumn

\* The thief's interval begins at the cut and ends where the victim's did.
LEMMA FitsThief ==
  ASSUME NEW v, NEW pos \in [Line -> Nat], pos = posVect[v], NEW last \in [Line -> Line],
         NEW m, NEW l \in Line, l <= m, Digits(pos, last), Fits(m, pos, last),
         \A k \in 0 .. l - 1 : pos[k] = last[k],
         pos[l] < last[l], NEW cut \in pos[l] + 1 .. last[l]
  PROVE  /\ ThiefPos(v, l, cut) \in [Line -> Nat]
         /\ Digits(ThiefPos(v, l, cut), last) /\ Fits(l, ThiefPos(v, l, cut), last)
<1> DEFINE new == ThiefPos(v, l, cut)
<1>0. \A i \in Line : /\ i \in Int /\ 0 <= i /\ i < size /\ size \in Int
                      /\ pos[i] \in Int /\ 0 <= pos[i] /\ last[i] \in Int
                      /\ \A k \in 0 .. i - 1 : k \in Line /\ k \in Int /\ k < i
  BY Numbers
<1>1. /\ DOMAIN new = Line /\ new = [i \in Line |-> new[i]]
      /\ \A i \in Line : new[i] = IF i < l THEN pos[i] ELSE IF i = l THEN cut ELSE 0
  BY DEF ThiefPos
<1> HIDE DEF new
<1>2. cut \in Nat /\ cut \in 0 .. size - l
  <2>1. last[l] \in 0 .. size - l - 1
    BY DEF Digits
  <2> QED BY <1>0, <2>1
<1>3. new \in [Line -> Nat]
  <2>1. \A i \in Line : new[i] \in Nat
    BY <1>0, <1>1, <1>2
  <2> QED BY <1>1, <2>1
<1>4. Digits(new, last)
  <2>1. \A i \in Line : 0 \in 0 .. size - i
    BY <1>0
  <2> QED BY <1>1, <1>2, <2>1 DEF Digits
<1>5. ASSUME NEW i \in Line
      PROVE  /\ i > l => new[i] = 0
             /\ i < l => new[i] <= last[i]
             /\ \/ last[i] = size - i - 1
                \/ i <= l /\ \A j \in 0 .. i - 1 : new[j] = last[j]
  <2>1. CASE i <= l
    <3>1. \A j \in 0 .. i - 1 : new[j] = last[j]
      BY <1>0, <1>1, <2>1
    <3>2. i < l => new[i] = last[i] /\ new[i] \in Int
      BY <1>0, <1>1
    <3> QED BY <1>0, <2>1, <3>1, <3>2
  <2>2. CASE i > l
    <3>1. ~(i < l) /\ i # l /\ l \in 0 .. i - 1 /\ pos[l] # last[l]
      BY <1>0, <2>2
    <3> QED BY <1>1, <3>1 DEF Fits
  <2> QED BY <1>0, <2>1, <2>2
<1>6. Fits(l, new, last)
  BY <1>5 DEF Fits
<1> QED BY <1>3, <1>4, <1>6 DEF new

\* The victim's interval ends before the cut.
LEMMA FitsVictim ==
  ASSUME NEW v, NEW pos \in [Line -> Nat], NEW last \in [Line -> Line], last = endVect[v],
         NEW m \in Line, NEW l \in Line, l <= m, Digits(pos, last), Fits(m, pos, last),
         \A k \in 0 .. l - 1 : pos[k] = last[k],
         pos[l] < last[l], NEW cut \in pos[l] + 1 .. last[l]
  PROVE  /\ VictimEnd(v, l, cut) \in [Line -> Line]
         /\ Digits(pos, VictimEnd(v, l, cut)) /\ Fits(m, pos, VictimEnd(v, l, cut))
<1> DEFINE new == VictimEnd(v, l, cut)
<1>0. \A i \in Line : /\ i \in Int /\ 0 <= i /\ i < size /\ size \in Int
                      /\ pos[i] \in Int /\ 0 <= pos[i] /\ last[i] \in Int
                      /\ \A k \in 0 .. i - 1 : k \in Line /\ k \in Int /\ k < i
  BY Numbers
<1>1. /\ DOMAIN new = Line /\ new = [i \in Line |-> new[i]]
      /\ \A i \in Line : new[i] = IF i < l THEN last[i]
                                  ELSE IF i = l THEN cut - 1 ELSE size - i - 1
  BY DEF VictimEnd
<1> HIDE DEF new
<1>2. cut - 1 \in 0 .. size - l - 1 /\ pos[l] <= cut - 1 /\ cut - 1 \in Line
  <2>1. last[l] \in 0 .. size - l - 1
    BY DEF Digits
  <2>2. cut \in Int /\ pos[l] < cut /\ cut <= last[l] /\ pos[l] \in Int /\ 0 <= pos[l]
    BY <1>0
  <2>3. cut - 1 \in 0 .. size - l - 1 /\ pos[l] <= cut - 1
    BY <1>0, <2>1, <2>2
  <2>4. cut - 1 \in 0 .. size - 1
    BY <1>0, <2>3
  <2> QED BY <2>3, <2>4, Lines
<1>3. \A i \in Line : size - i - 1 \in Line /\ size - i - 1 \in 0 .. size - i - 1
  BY Lines
<1>4. new \in [Line -> Line]
  <2>1. \A i \in Line : new[i] \in Line
    BY <1>1, <1>2, <1>3
  <2> QED BY <1>1, <2>1
<1>5. Digits(pos, new)
  BY <1>1, <1>2, <1>3 DEF Digits
<1>6. ASSUME NEW i \in Line
      PROVE  /\ i > m => pos[i] = 0
             /\ i < m => pos[i] <= new[i]
             /\ \/ new[i] = size - i - 1
                \/ i <= m /\ \A j \in 0 .. i - 1 : pos[j] = new[j]
  <2>1. i > m => pos[i] = 0
    BY DEF Fits
  <2>2. CASE i <= l
    <3>1. \A j \in 0 .. i - 1 : new[j] = pos[j]
      BY <1>0, <1>1, <2>2
    <3>2. i <= m
      BY <1>0, <2>2
    <3>3. pos[i] <= new[i]
      <4>1. CASE i = l
        BY <1>0, <1>1, <1>2, <4>1
      <4>2. CASE i < l
        BY <1>0, <1>1, <4>2
      <4> QED BY <1>0, <2>2, <4>1, <4>2
    <3> QED BY <2>1, <3>1, <3>2, <3>3
  <2>3. CASE i > l
    <3>1. new[i] = size - i - 1
      BY <1>0, <1>1, <2>3
    <3>2. i < m => pos[i] <= last[i]
      BY DEF Fits
    <3>3. last[i] <= size - i - 1
      BY DEF Digits
    <3> QED BY <1>0, <2>1, <3>1, <3>2, <3>3
  <2> QED BY <1>0, <2>2, <2>3
<1>7. Fits(m, pos, new)
  BY <1>6 DEF Fits
<1> QED BY <1>4, <1>5, <1>7 DEF new


-----------------------------------------------------------------------------
(* How explorers move *)

\* The stack s under the position pos, at line l, is left for the row above it,
\* where the cell that led to the last row gets a flag.
Up(s, pos, t, new, l) ==
  /\ l \in Line /\ l > 0 /\ Len(s) = l + 1 /\ Len(t) = l
  /\ pos[l] >= size - l /\ new = Restarted(pos, l)
  /\ \A r \in 1 .. l :
       /\ t[r].dir = s[r].dir
       /\ \A i \in 0 .. size - r :
            t[r].jobs[i] = IF r = l /\ i = pos[l - 1] THEN negative(s[r].jobs[i])
                                                      ELSE s[r].jobs[i]

\* A flagged cell is left for the next one.
Right(s, pos, t, new, l) ==
  /\ l \in Line /\ Len(s) = l + 1 /\ t = s
  /\ pos[l] < size - l /\ new = Advanced(pos, l)
  /\ s[l + 1].jobs[pos[l]] < 0

\* A row is added below an open cell, from its first column on.
Down(s, pos, t, new, l) ==
  /\ l \in Line /\ Len(s) = l + 1 /\ Len(t) = l + 2 /\ l + 1 \in Line
  /\ pos[l] < size - l /\ new = Restarted(pos, l + 1)
  /\ s[l + 1].jobs[pos[l]] >= 0
  /\ \A r \in 1 .. l + 1 : t[r] = s[r]

\* What the row that Down adds to line l flags cannot improve on lb.
Bounded(s, pos, t, l, lb) ==
  \A i \in 0 .. size - l - 2 : t[l + 2].jobs[i] < 0 =>
    \A x \in Completions(s, pos) :
      x[NextSlot(s, t[l + 2].dir)] = absolute(t[l + 2].jobs[i]) => gtBest(cost[x], lb)

\* What explorer e does leaves the others and its own end alone.
Alone(e) ==
  /\ \A x \in Explorer \ {e} : /\ rows'[x] = rows[x] /\ posVect'[x] = posVect[x]
                              /\ endVect'[x] = endVect[x] /\ pc'[x] = pc[x]
  /\ endVect'[e] = endVect[e]

\* The current line of an explorer that has rows.
LEMMA Current ==
  ASSUME IInv, NEW e \in Explorer, Active(e)
  PROVE  /\ line(e) \in Line /\ line(e) \in Int /\ 0 <= line(e) /\ line(e) < size
         /\ Len(rows[e]) = line(e) + 1 /\ Len(rows[e]) \in 1 .. size
         /\ Row(e, line(e)) = rows[e][line(e) + 1]
         /\ posVect[e] \in [Line -> Nat] /\ endVect[e] \in [Line -> Line]
         /\ posVect[e][line(e)] \in Nat
         /\ StackOK(rows[e], posVect[e])
<1>1. Len(rows[e]) \in 1 .. size /\ posVect[e] \in [Line -> Nat] /\ endVect[e] \in [Line -> Line]
      /\ StackOK(rows[e], posVect[e])
  BY Parts DEF Active, Phase
<1>2. line(e) = Len(rows[e]) - 1
  BY DEF line
<1>3. /\ line(e) \in Line /\ line(e) \in Int /\ 0 <= line(e) /\ line(e) < size
      /\ Len(rows[e]) = line(e) + 1
  BY <1>1, <1>2, Lines
<1> QED BY <1>1, <1>3 DEF Row

\* Explorers that are left alone.
LEMMA LeftAlone ==
  ASSUME IInv, NEW e \in Explorer, NEW stack, NEW pos, NEW at,
         rows' = [rows EXCEPT ![e] = stack], posVect' = [posVect EXCEPT ![e] = pos],
         endVect' = endVect, pc' = [pc EXCEPT ![e] = at]
  PROVE  Alone(e) /\ rows'[e] = stack /\ posVect'[e] = pos /\ pc'[e] = at
BY DEF IInv, Shape, Alone

\* goUp moves up.
LEMMA Move_goUp ==
  ASSUME IInv, NEW e \in Explorer, goUp(e), line(e) > 0
  PROVE  /\ Up(rows[e], posVect[e], rows'[e], posVect'[e], line(e))
         /\ Alone(e) /\ pc'[e] = "in"
<1> DEFINE s == rows[e]
           pos == posVect[e]
           l == line(e)
           p == pos[l - 1]
           t == PoppedStack(s, l, p)
<1>0. Active(e)
  BY DEF goUp, Active
<1>1. /\ l \in Line /\ l \in Nat /\ l > 0 /\ Len(s) = l + 1 /\ StackOK(s, pos) /\ l < size
  BY <1>0, Current
<1>2. pos[l] >= size - l /\ pc[e] = "in"
  BY DEF goUp, lineEndState
<1>3. /\ rows' = [rows EXCEPT ![e] = t] /\ posVect' = [posVect EXCEPT ![e] = Restarted(pos, l)]
      /\ endVect' = endVect /\ pc' = [pc EXCEPT ![e] = pc[e]]
  BY Parts DEF goUp, PoppedStack, Restarted
<1>4. /\ Alone(e) /\ rows'[e] = t /\ posVect'[e] = Restarted(pos, l) /\ pc'[e] = "in"
  <2> HIDE DEF t, s, l, pos
  <2> QED BY <1>2, <1>3, LeftAlone
<1>5. /\ Len(t) = l
      /\ \A r \in 1 .. l - 1 : t[r] = s[r]
      /\ t[l].dir = s[l].dir
      /\ \A i \in 0 .. size - l :
           t[l].jobs[i] = IF i = p THEN negative(s[l].jobs[i]) ELSE s[l].jobs[i]
  <2> HIDE DEF s, l, pos
  <2> QED BY <1>1, Popped
<1> HIDE DEF t
<1>6. ASSUME NEW r \in 1 .. l
      PROVE  /\ t[r].dir = s[r].dir
             /\ \A i \in 0 .. size - r :
                  t[r].jobs[i] = IF r = l /\ i = p THEN negative(s[r].jobs[i]) ELSE s[r].jobs[i]
  <2>1. CASE r = l
    BY <1>5, <2>1
  <2>2. CASE r # l
    <3>1. r \in 1 .. l - 1
      BY <1>1, <2>2
    <3> QED BY <1>5, <2>2, <3>1
  <2> QED BY <2>1, <2>2
<1> HIDE DEF s, l, pos, p
<1>7. Up(s, pos, t, Restarted(pos, l), l)
  BY <1>1, <1>2, <1>5, <1>6 DEF Up, p
<1> QED BY <1>4, <1>7 DEF s, l, pos

\* goRight moves right.
LEMMA Move_goRight ==
  ASSUME IInv, NEW e \in Explorer, goRight(e)
  PROVE  /\ Right(rows[e], posVect[e], rows'[e], posVect'[e], line(e))
         /\ Alone(e) /\ pc'[e] = "in"
<1> DEFINE pos == posVect[e]
           l == line(e)
<1>0. Active(e)
  BY DEF goRight, Active
<1>1. /\ l \in Line /\ Len(rows[e]) = l + 1 /\ pos[l] \in Nat /\ l \in Int
      /\ Row(e, l) = rows[e][l + 1]
  BY <1>0, Current
<1>2. pos[l] < size - l
  <2>1. ~(pos[l] >= size - l)
    BY DEF goRight, lineEndState
  <2> HIDE DEF pos, l
  <2> QED BY <1>1, <2>1, Lines
<1>3. rows[e][l + 1].jobs[pos[l]] < 0 /\ pc[e] = "in"
  BY <1>1 DEF goRight, pruningCellState, Cell
<1>4. /\ rows' = [rows EXCEPT ![e] = rows[e]]
      /\ posVect' = [posVect EXCEPT ![e] = Advanced(pos, l)]
      /\ endVect' = endVect /\ pc' = [pc EXCEPT ![e] = pc[e]]
  BY Parts DEF goRight, Advanced
<1> HIDE DEF pos, l
<1>5. /\ Alone(e) /\ rows'[e] = rows[e] /\ posVect'[e] = Advanced(pos, l) /\ pc'[e] = "in"
  BY <1>3, <1>4, LeftAlone
<1>6. Right(rows[e], pos, rows[e], Advanced(pos, l), l)
  BY <1>1, <1>2, <1>3 DEF Right
<1> QED BY <1>5, <1>6 DEF pos, l


\* The cell an explorer points at in its current line.
LEMMA PointedCell ==
  ASSUME IInv, NEW e \in Explorer, Active(e), posVect[e][line(e)] < size - line(e)
  PROVE  /\ Cell(e) = rows[e][line(e) + 1].jobs[posVect[e][line(e)]]
         /\ Cell(e) \in Cells /\ Cell(e) \in Int
<1> DEFINE l == line(e)
           p == posVect[e][l]
           jobs == rows[e][l + 1].jobs
<1>1. /\ Cell(e) = jobs[p] /\ l \in Line /\ l \in Int /\ 0 <= l /\ l < size
      /\ Len(rows[e]) = l + 1 /\ p \in Nat /\ StackOK(rows[e], posVect[e])
  BY Current DEF Cell
<1>2. l + 1 \in 1 .. Len(rows[e])
  <2> HIDE DEF l
  <2> QED BY <1>1
<1>3. jobs \in [0 .. size - (l + 1) -> Cells]
  <2> HIDE DEF l
  <2> QED BY <1>1, <1>2 DEF StackOK, RowOK
<1>4. p \in 0 .. size - (l + 1)
  <2>1. p < size - l
    OBVIOUS
  <2> HIDE DEF l, p
  <2> QED BY <1>1, <2>1, Lines
<1>5. jobs[p] \in Cells
  <2> HIDE DEF l, p, jobs
  <2> QED BY <1>3, <1>4
<1>6. Cells \subseteq Int
  BY Lines DEF Cells
<1> QED BY <1>1, <1>5, <1>6

\* The rows after a push.
LEMMA PushedRows ==
  ASSUME IInv, NEW e \in Explorer, Active(e), line(e) + 1 \in Line,
         posVect[e][line(e)] < size - line(e), PushRow(e)
  PROVE  \E t : /\ rows' = [rows EXCEPT ![e] = t]
                /\ Len(t) = line(e) + 2
                /\ \A r \in 1 .. line(e) + 1 : t[r] = rows[e][r]
                /\ Bounded(rows[e], posVect[e], t, line(e), local_best[e])
<1> DEFINE s == rows[e]
           l == line(e)
<1>1. /\ l \in Nat /\ Len(s) = l + 1 /\ s \in Seq(AnyRow) /\ s # <<>> /\ Len(s) < size
  <2>1. /\ l \in Int /\ 0 <= l /\ Len(s) = l + 1 /\ s \in Seq(AnyRow)
    BY Current, Parts
  <2>2. l + 1 < size
    BY Lines
  <2>3. s # <<>>
    BY Parts DEF Active, Phase
  <2> HIDE DEF s, l
  <2> QED BY <2>1, <2>2, <2>3
<1>2. PICK row \in AnyRow :
        /\ rows' = [rows EXCEPT ![e] = Append(s, row)]
        /\ \A i \in 0 .. size - Len(s) - 1 : row.jobs[i] < 0 =>
             \A x \in Completions(s, posVect[e]) :
               x[NextSlot(s, row.dir)] = absolute(row.jobs[i]) => gtBest(cost[x], local_best[e])
  BY <1>1, Pushed
<1> DEFINE t == Append(s, row)
<1>3. Len(t) = l + 2 /\ t[l + 2] = row /\ \A r \in 1 .. l + 1 : t[r] = s[r]
  <2> HIDE DEF s, l
  <2>1. Len(s) + 1 = l + 2 /\ l + 1 = Len(s)
    BY <1>1
  <2> QED BY <1>1, <2>1, AppendProperties
<1>4. size - Len(s) - 1 = size - l - 2
  <2> HIDE DEF s, l
  <2> QED BY <1>1, Lines
<1>5. Bounded(s, posVect[e], t, l, local_best[e])
  <2> HIDE DEF s, l, t
  <2> QED BY <1>2, <1>3, <1>4 DEF Bounded
<1> HIDE DEF t
<1> QED BY <1>2, <1>3, <1>5 DEF t

\* Branch moves down.
LEMMA Move_Branch ==
  ASSUME IInv, NEW e \in Explorer, Branch(e)
  PROVE  /\ Down(rows[e], posVect[e], rows'[e], posVect'[e], line(e))
         /\ Bounded(rows[e], posVect[e], rows'[e], line(e), local_best[e])
         /\ Alone(e) /\ pc'[e] = "ready"
<1> DEFINE s == rows[e]
           pos == posVect[e]
           l == line(e)
           new == Restarted(pos, l + 1)
<1>0. Active(e)
  BY DEF Branch, Open, Active
<1>1. /\ l \in Line /\ l \in Int /\ 0 <= l /\ Len(s) = l + 1 /\ pos[l] \in Nat
  BY <1>0, Current
<1>2. l + 1 < size - 1 /\ ~(pos[l] >= size - l) /\ ~(Cell(e) < 0)
  BY DEF Branch, Open, lineEndState, pruningCellState
<1>3. l + 1 \in Line /\ pos[l] < size - l
  <2> HIDE DEF pos, l
  <2> QED BY <1>1, <1>2, Lines
<1>4. s[l + 1].jobs[pos[l]] >= 0
  <2>1. Cell(e) = s[l + 1].jobs[pos[l]] /\ Cell(e) \in Int
    BY <1>0, <1>3, PointedCell
  <2> QED BY <1>2, <2>1
<1>5. PICK t : /\ rows' = [rows EXCEPT ![e] = t]
               /\ Len(t) = l + 2
               /\ \A r \in 1 .. l + 1 : t[r] = s[r]
               /\ Bounded(s, pos, t, l, local_best[e])
  BY <1>0, <1>3, PushedRows DEF Branch
<1>6. /\ posVect' = [posVect EXCEPT ![e] = new] /\ endVect' = endVect
      /\ pc' = [pc EXCEPT ![e] = "ready"]
  BY DEF Branch, Restarted
<1> HIDE DEF new, s, l, pos
<1>7. Alone(e) /\ rows'[e] = t /\ posVect'[e] = new /\ pc'[e] = "ready"
  BY <1>5, <1>6, LeftAlone
<1>8. Down(s, pos, t, new, l)
  BY <1>1, <1>3, <1>4, <1>5 DEF Down, new
<1> QED BY <1>5, <1>7, <1>8 DEF s, pos, l

\* unfold moves down or comes to its end.
LEMMA Move_unfold ==
  ASSUME IInv, NEW e \in Explorer, unfold(e)
  PROVE  /\ \/ /\ Down(rows[e], posVect[e], rows'[e], posVect'[e], line(e))
               /\ Bounded(rows[e], posVect[e], rows'[e], line(e), local_best[e])
               /\ pc'[e] = "unfold"
            \/ rows'[e] = rows[e] /\ posVect'[e] = posVect[e] /\ pc'[e] = "ready"
         /\ Alone(e) /\ \A i \in Line : posVect[e][i] = 0
<1> DEFINE s == rows[e]
           pos == posVect[e]
           l == line(e)
           new == Restarted(pos, l + 1)
<1>0. Active(e) /\ pc[e] = "unfold"
  BY DEF unfold, Active
<1>1. /\ l \in Line /\ l \in Int /\ 0 <= l /\ Len(s) = l + 1 /\ pos[l] \in Nat
      /\ pos \in [Line -> Nat]
  BY <1>0, Current
<1>2. \A i \in Line : pos[i] = 0
  BY <1>0, Parts DEF Phase
<1>3. CASE l < size - 2 /\ ~(Cell(e) < 0)
  <2>1. /\ PushRow(e) /\ endVect' = endVect
        /\ posVect' = [posVect EXCEPT ![e] = pos] /\ pc' = [pc EXCEPT ![e] = "unfold"]
    BY <1>0, <1>3, Parts DEF unfold, pruningCellState
  <2>2. l + 1 \in Line /\ pos[l] < size - l
    <3>1. pos[l] = 0
      BY <1>1, <1>2
    <3> HIDE DEF pos, l
    <3> QED BY <1>1, <1>3, <3>1, Lines
  <2>3. s[l + 1].jobs[pos[l]] >= 0
    <3>1. Cell(e) = s[l + 1].jobs[pos[l]] /\ Cell(e) \in Int
      BY <1>0, <2>2, PointedCell
    <3> QED BY <1>3, <3>1
  <2>4. PICK t : /\ rows' = [rows EXCEPT ![e] = t]
                 /\ Len(t) = l + 2
                 /\ \A r \in 1 .. l + 1 : t[r] = s[r]
                 /\ Bounded(s, pos, t, l, local_best[e])
    BY <1>0, <2>1, <2>2, PushedRows
  <2>5. new = pos
    <3> HIDE DEF l, pos
    <3> QED BY <1>1, <1>2, <2>2 DEF Restarted
  <2> HIDE DEF new, s, l, pos
  <2>6. Alone(e) /\ rows'[e] = t /\ posVect'[e] = pos /\ pc'[e] = "unfold"
    BY <2>1, <2>4, LeftAlone
  <2>7. Down(s, pos, t, pos, l)
    BY <1>1, <2>2, <2>3, <2>4, <2>5 DEF Down, new
  <2> QED BY <1>2, <2>4, <2>6, <2>7 DEF s, pos, l
<1>4. CASE ~(l < size - 2 /\ ~(Cell(e) < 0))
  <2>1. /\ posVect' = [posVect EXCEPT ![e] =
               IF l < size - 2 THEN [i \in Line |-> IF i > l THEN 0 ELSE pos[i]] ELSE pos]
        /\ pc' = [pc EXCEPT ![e] = "ready"] /\ rows' = [rows EXCEPT ![e] = s]
        /\ endVect' = endVect
    BY <1>4, Parts DEF unfold, pruningCellState
  <2>2. [i \in Line |-> IF i > l THEN 0 ELSE pos[i]] = pos
    <3> HIDE DEF l, pos
    <3> QED BY <1>1, <1>2
  <2> HIDE DEF s, l, pos
  <2>3. /\ posVect' = [posVect EXCEPT ![e] = pos] /\ endVect' = endVect
        /\ pc' = [pc EXCEPT ![e] = "ready"] /\ rows' = [rows EXCEPT ![e] = s]
    BY <2>1, <2>2
  <2>4. Alone(e) /\ rows'[e] = s /\ posVect'[e] = pos /\ pc'[e] = "ready"
    BY <2>3, LeftAlone
  <2> QED BY <1>2, <2>4 DEF s, pos
<1> QED BY <1>3, <1>4


\* VisitLeaf moves down to a row whose only cell is flagged.
LEMMA Move_VisitLeaf ==
  ASSUME IInv, NEW e \in Explorer, VisitLeaf(e)
  PROVE  /\ Down(rows[e], posVect[e], rows'[e], posVect'[e], line(e))
         /\ line(e) + 2 = size
         /\ Alone(e) /\ pc'[e] = "in"
<1> DEFINE s == rows[e]
           pos == posVect[e]
           l == line(e)
           g == generateLine(Row(e, l).jobs, pos[l])
           row == [dir |-> FRONT, jobs |-> [i \in {0} |-> negative(g[0])]]
           t == Append(s, row)
           new == Restarted(pos, l + 1)
<1>0. Active(e) /\ pc[e] = "in"
  BY DEF VisitLeaf, Open, Active
<1>1. /\ l \in Line /\ l \in Int /\ 0 <= l /\ Len(s) = l + 1 /\ pos[l] \in Nat
      /\ s \in Seq(AnyRow)
  BY <1>0, Current, Parts
<1>2. l + 1 = size - 1 /\ ~(pos[l] >= size - l) /\ ~(Cell(e) < 0)
  BY DEF VisitLeaf, Open, lineEndState, pruningCellState
<1>3. l + 1 \in Line /\ pos[l] < size - l /\ l + 2 = size
  <2> HIDE DEF pos, l
  <2> QED BY <1>1, <1>2, Lines
<1>4. s[l + 1].jobs[pos[l]] >= 0
  <2>1. Cell(e) = s[l + 1].jobs[pos[l]] /\ Cell(e) \in Int
    BY <1>0, <1>3, PointedCell
  <2> QED BY <1>2, <2>1
<1>5. /\ rows' = [rows EXCEPT ![e] = t] /\ posVect' = [posVect EXCEPT ![e] = new]
      /\ endVect' = endVect /\ pc' = [pc EXCEPT ![e] = pc[e]]
  <2>1. /\ rows' = [rows EXCEPT ![e] = t] /\ endVect' = endVect
        /\ pc' = [pc EXCEPT ![e] = pc[e]]
    BY Parts DEF VisitLeaf
  <2>2. posVect' = [posVect EXCEPT ![e] = new]
    BY <1>2 DEF VisitLeaf, Restarted
  <2> QED BY <2>1, <2>2
<1>6. Len(t) = l + 2 /\ \A r \in 1 .. l + 1 : t[r] = s[r]
  <2>1. \A n \in Nat : Len(s) = n => Len(Append(s, row)) = n + 1
                         /\ \A r \in 1 .. n : Append(s, row)[r] = s[r]
    <3> HIDE DEF s, row
    <3> QED BY <1>1
  <2>2. l + 1 \in Nat /\ l + 1 + 1 = l + 2
    <3> HIDE DEF l
    <3> QED BY <1>1
  <2> HIDE DEF s, l, row
  <2> QED BY <1>1, <2>1, <2>2
<1> HIDE DEF t, new, s, l, pos
<1>7. Alone(e) /\ rows'[e] = t /\ posVect'[e] = new /\ pc'[e] = "in"
  BY <1>0, <1>5, LeftAlone
<1>8. Down(s, pos, t, new, l)
  BY <1>1, <1>3, <1>4, <1>6 DEF Down, new
<1> QED BY <1>3, <1>7, <1>8 DEF s, pos, l

\* setRoot gives the first explorer all leaves.
LEMMA Move_setRoot ==
  ASSUME IInv, NEW e \in Explorer, setRoot(e)
  PROVE  /\ \E row \in BoundedRows(<<>>, posVect[e], [i \in Line |-> i], best) : rows'[e] = <<row>>
         /\ posVect'[e] = [i \in Line |-> 0] /\ endVect'[e] = LastLeaf
         /\ pc'[e] = "unfold"
         /\ \A x \in Explorer \ {e} : /\ rows'[x] = rows[x] /\ posVect'[x] = posVect[x]
                                     /\ endVect'[x] = endVect[x] /\ pc'[x] = pc[x]
<1>1. PICK row \in BoundedRows(<<>>, posVect[e], [i \in Line |-> i], best) :
        rows' = [rows EXCEPT ![e] = <<row>>]
  BY DEF setRoot
<1>2. /\ rows'[e] = <<row>> /\ posVect'[e] = [i \in Line |-> 0] /\ endVect'[e] = LastLeaf
      /\ pc'[e] = "unfold"
  BY <1>1 DEF setRoot, IInv, Shape
<1>3. \A x \in Explorer \ {e} : /\ rows'[x] = rows[x] /\ posVect'[x] = posVect[x]
                               /\ endVect'[x] = endVect[x] /\ pc'[x] = pc[x]
  BY <1>1 DEF setRoot, IInv, Shape
<1> QED BY <1>2, <1>3

\* A part of the victim's interval moves to the thief.
Shared(v, t, l, cut) ==
  /\ v # t /\ pc[v] = "ready" /\ pc[t] = "empty"
  /\ l \in Line /\ l <= line(v)
  /\ \A k \in 0 .. l - 1 : posVect[v][k] = endVect[v][k]
  /\ posVect[v][l] < endVect[v][l]
  /\ cut \in posVect[v][l] + 1 .. endVect[v][l]
  /\ Len(rows'[t]) = l + 1 /\ \A r \in 1 .. l + 1 : rows'[t][r] = rows[v][r]
  /\ posVect'[t] = ThiefPos(v, l, cut) /\ endVect'[t] = endVect[v] /\ pc'[t] = "ready"
  /\ endVect'[v] = VictimEnd(v, l, cut)
  /\ \A x \in Explorer \ {t} : rows'[x] = rows[x] /\ posVect'[x] = posVect[x] /\ pc'[x] = pc[x]
  /\ \A x \in Explorer \ {v, t} : endVect'[x] = endVect[x]

\* That is what shareWork does.
LEMMA Move_shareWork ==
  ASSUME IInv, NEW v \in Explorer, NEW t \in Explorer, shareWork(v, t)
  PROVE  \E l \in Line : \E cut : Shared(v, t, l, cut)
<1> DEFINE l == ShareLine(v)
           cut == cuttingPosition(Row(v, l).jobs, posVect[v][l], endVect[v][l], 2)
           stack == SubSeq(rows[v], 1, l + 1)
<1>1. /\ v # t /\ pc[v] = "ready" /\ pc[t] = "empty"
      /\ posVect[v][l] < endVect[v][l]
      /\ rows' = [rows EXCEPT ![t] = stack]
      /\ posVect' = [posVect EXCEPT ![t] = ThiefPos(v, l, cut)]
      /\ endVect' = [endVect EXCEPT ![t] = endVect[v], ![v] = VictimEnd(v, l, cut)]
      /\ pc' = [pc EXCEPT ![t] = "ready"]
  BY DEF shareWork
<1>2. Active(v) /\ Len(rows[v]) \in 1 .. size /\ line(v) \in Nat /\ Len(rows[v]) = line(v) + 1
      /\ rows[v] \in Seq(AnyRow)
  <2>1. Active(v)
    BY <1>1 DEF Active
  <2> QED BY <2>1, Current, Parts
<1>3. /\ l \in Line /\ l \in 0 .. line(v)
      /\ \A k \in 0 .. l - 1 : posVect[v][k] = endVect[v][k]
      /\ cut \in posVect[v][l] + 1 .. endVect[v][l]
  <2>1. l = ShareLine(v)
    OBVIOUS
  <2> HIDE DEF l
  <2> QED BY <1>1, <1>2, <2>1, SharedLine
<1>4. Len(stack) = l + 1 /\ \A r \in 1 .. l + 1 : stack[r] = rows[v][r]
  <2> HIDE DEF l
  <2>1. l \in Nat /\ l <= line(v)
    BY <1>2, <1>3
  <2>2. \A i \in 1 .. l + 1 : i \in 1 .. Len(rows[v])
    BY <1>2, <2>1
  <2>3. \A i \in 1 .. l + 1 : rows[v][i] \in AnyRow
    BY <1>2, <2>2, ElementOfSeq
  <2>4. 1 <= l + 1 /\ l + 1 \in Int /\ l + 1 - 1 + 1 = l + 1
    BY <2>1
  <2>5. \A r \in 1 .. l + 1 : 1 + r - 1 = r
    BY <2>1
  <2> QED BY <2>3, <2>4, <2>5, SubSeqProperties
<1> HIDE DEF stack, cut, l
<1>5. /\ rows'[t] = stack /\ posVect'[t] = ThiefPos(v, l, cut) /\ endVect'[t] = endVect[v]
      /\ pc'[t] = "ready" /\ endVect'[v] = VictimEnd(v, l, cut)
  BY <1>1 DEF IInv, Shape
<1>6. /\ \A x \in Explorer \ {t} : rows'[x] = rows[x] /\ posVect'[x] = posVect[x] /\ pc'[x] = pc[x]
      /\ \A x \in Explorer \ {v, t} : endVect'[x] = endVect[x]
  BY <1>1 DEF IInv, Shape
<1>7. Shared(v, t, l, cut)
  <2>1. l <= line(v)
    BY <1>2, <1>3
  <2> QED BY <1>1, <1>3, <1>4, <1>5, <1>6, <2>1 DEF Shared
<1> QED BY <1>3, <1>7


-----------------------------------------------------------------------------
(* The intervals stay consistent *)

\* An interval that nobody touches.
LEMMA IntervalKept ==
  ASSUME NEW x \in Explorer, IntervalOK(x), rows'[x] = rows[x], posVect'[x] = posVect[x],
         endVect'[x] = endVect[x], pc'[x] = pc[x]
  PROVE  IntervalOK(x)'
BY DEF IntervalOK, Active, line

\* An interval of an explorer that goes on.
LEMMA IntervalActive ==
  ASSUME NEW x \in Explorer, NEW l \in Line, Len(rows'[x]) = l + 1,
         Digits(posVect'[x], endVect'[x]), Fits(l, posVect'[x], endVect'[x]),
         pc'[x] \in {"unfold", "ready", "in"}
  PROVE  IntervalOK(x)'
<1>1. line(x)' = l
  BY Lines DEF line
<1> QED BY <1>1 DEF IntervalOK, Active

\* The stack of an explorer that goes up has more than the root's row.
LEMMA NotRoot ==
  ASSUME IInv, NEW e \in Explorer, goUp(e) PROVE line(e) > 0
<1>1. Active(e) /\ LexLeq(posVect[e], endVect[e]) /\ posVect[e][line(e)] >= size - line(e)
  BY DEF goUp, Active, beforeEnd, lineEndState
<1>2. line(e) \in Int /\ 0 <= line(e) /\ posVect[e] \in [Line -> Nat] /\ endVect[e] \in [Line -> Line]
  BY <1>1, Current
<1> SUFFICES ASSUME line(e) = 0 PROVE FALSE
  BY <1>2
<1>3. posVect[e][0] > endVect[e][0] /\ 0 \in Line
  BY <1>1, <1>2, Lines
<1> QED BY <1>1, <1>3 DEF LexLeq

\* Every step of an explorer keeps its own interval consistent.
LEMMA OwnInterval ==
  ASSUME IInv, IntervalInv, NEW e \in Explorer, Step(e)
  PROVE  IntervalOK(e)'
<1> DEFINE pos == posVect[e]
           last == endVect[e]
           l == line(e)
<1>1. IntervalOK(e)
  BY DEF IntervalInv
<1>2. ASSUME Active(e)
      PROVE  /\ l \in Line /\ l \in Int /\ 0 <= l /\ Len(rows[e]) = l + 1
             /\ pos \in [Line -> Nat] /\ last \in [Line -> Line]
             /\ Digits(pos, last) /\ Fits(l, pos, last)
  BY <1>1, <1>2, Current DEF IntervalOK
<1>3. CASE setRoot(e)
  <2>1. /\ rows'[e] # <<>> /\ Len(rows'[e]) = 0 + 1 /\ pc'[e] = "unfold"
        /\ posVect'[e] = [i \in Line |-> 0] /\ endVect'[e] = LastLeaf
    <3>1. PICK row : rows'[e] = <<row>>
      BY <1>3, Move_setRoot
    <3>2. <<row>> # <<>> /\ Len(<<row>>) = 0 + 1
      OBVIOUS
    <3> QED BY <1>3, <3>1, <3>2, Move_setRoot
  <2>2. posVect'[e] \in [Line -> Nat] /\ \A i \in Line : posVect'[e][i] = 0
    BY <2>1
  <2>3. 0 \in Line
    BY Lines
  <2>4. Digits(posVect'[e], LastLeaf) /\ Fits(0, posVect'[e], LastLeaf)
    BY <2>2, <2>3, FitsAll
  <2> QED BY <2>1, <2>3, <2>4, IntervalActive
<1>4. ASSUME Active(e), Alone(e), Down(rows[e], pos, rows'[e], posVect'[e], l),
             pc'[e] \in {"unfold", "ready", "in"}, pos[l] <= last[l]
      PROVE  IntervalOK(e)'
  <2> HIDE DEF pos, last, l
  <2> DEFINE m == l + 1
  <2>2. /\ m \in Line /\ Len(rows'[e]) = m + 1 /\ m = l + 1
        /\ posVect'[e] = Restarted(pos, m) /\ endVect'[e] = last
    BY <1>2, <1>4 DEF Down, Alone, last
  <2> HIDE DEF m
  <2>3. Digits(posVect'[e], endVect'[e]) /\ Fits(m, posVect'[e], endVect'[e])
    BY <1>2, <1>4, <2>2, FitsDown
  <2> QED BY <1>4, <2>2, <2>3, IntervalActive
<1>5. ASSUME Active(e), rows'[e] = rows[e], posVect'[e] = pos, endVect'[e] = last,
             pc'[e] \in {"unfold", "ready", "in"}
      PROVE  IntervalOK(e)'
  BY <1>2, <1>5, IntervalActive
<1>6. CASE unfold(e)
  <2>1. Active(e)
    BY <1>6 DEF unfold, Active
  <2>2. \A i \in Line : pos[i] = 0
    BY <1>6, Move_unfold
  <2>3. pos[l] <= last[l]
    BY <1>2, <2>1, <2>2, Numbers
  <2> QED BY <1>4, <1>5, <1>6, <2>1, <2>3, Move_unfold DEF Alone
<1>7. CASE EnterNext(e)
  <2>1. /\ Active(e) /\ rows'[e] = rows[e] /\ posVect'[e] = pos /\ endVect'[e] = last
        /\ pc'[e] = "in"
    BY <1>7 DEF EnterNext, Active, IInv, Shape
  <2> QED BY <1>5, <2>1
<1>8. CASE Exhausted(e)
  <2>1. /\ posVect' = posVect /\ endVect' = endVect /\ ~LexLeq(pos, last) /\ pc'[e] = "empty"
    BY <1>8 DEF Exhausted, beforeEnd, IInv, Shape
  <2> QED BY <1>1, <2>1 DEF IntervalOK, Active
<1>9. CASE goUp(e)
  <2>1. Active(e) /\ LexLeq(pos, last)
    BY <1>9 DEF goUp, Active, beforeEnd
  <2>2. Up(rows[e], pos, rows'[e], posVect'[e], l) /\ Alone(e) /\ pc'[e] = "in"
    BY <1>9, NotRoot, Move_goUp
  <2> HIDE DEF pos, last, l
  <2>3. /\ l > 0 /\ Len(rows'[e]) = l - 1 + 1 /\ l - 1 \in Line /\ endVect'[e] = last
        /\ pos[l] >= size - l /\ posVect'[e] = Restarted(pos, l)
    BY <1>2, <2>1, <2>2, Lines DEF Up, Alone, last
  <2>4. Digits(posVect'[e], endVect'[e]) /\ Fits(l - 1, posVect'[e], endVect'[e])
    BY <1>2, <2>1, <2>3, FitsUp
  <2> QED BY <2>2, <2>3, <2>4, IntervalActive
<1>10. CASE goRight(e)
  <2>1. Active(e)
    BY <1>10 DEF goRight, Active
  <2>2. Right(rows[e], pos, rows'[e], posVect'[e], l) /\ Alone(e) /\ pc'[e] = "in"
    BY <1>10, Move_goRight
  <2> HIDE DEF pos, last, l
  <2>3. /\ Len(rows'[e]) = l + 1 /\ endVect'[e] = last
        /\ pos[l] < size - l /\ posVect'[e] = Advanced(pos, l)
    BY <2>2 DEF Right, Alone, last
  <2>4. Digits(posVect'[e], endVect'[e]) /\ Fits(l, posVect'[e], endVect'[e])
    BY <1>2, <2>1, <2>3, FitsRight
  <2> QED BY <1>2, <2>1, <2>2, <2>3, <2>4, IntervalActive
<1>11. ASSUME Open(e), Down(rows[e], pos, rows'[e], posVect'[e], l), Alone(e),
              pc'[e] \in {"ready", "in"}
       PROVE  IntervalOK(e)'
  <2>1. Active(e) /\ LexLeq(pos, last)
    BY <1>11 DEF Open, Active, beforeEnd
  <2>2. pos[l] < size - l
    BY <1>11 DEF Down
  <2>3. pos[l] <= last[l]
    <3> HIDE DEF pos, last, l
    <3> QED BY <1>2, <2>1, <2>2, FitsHere
  <2> QED BY <1>4, <1>11, <2>1, <2>3
<1>12. CASE Branch(e)
  BY <1>11, <1>12, Move_Branch DEF Branch
<1>13. CASE VisitLeaf(e)
  BY <1>11, <1>13, Move_VisitLeaf DEF VisitLeaf
<1> QED BY <1>3, <1>6, <1>7, <1>8, <1>9, <1>10, <1>12, <1>13 DEF Step

\* What an explorer does on its own leaves the others alone.
LEMMA Others ==
  ASSUME IInv, NEW e \in Explorer, Step(e), NEW x \in Explorer, x # e
  PROVE  /\ rows'[x] = rows[x] /\ posVect'[x] = posVect[x]
         /\ endVect'[x] = endVect[x] /\ pc'[x] = pc[x]
<1>1. CASE setRoot(e)
  BY <1>1, Move_setRoot
<1>2. CASE EnterNext(e) \/ Exhausted(e)
  BY <1>2 DEF EnterNext, Exhausted, IInv, Shape
<1>3. CASE unfold(e) \/ goUp(e) \/ goRight(e) \/ Branch(e) \/ VisitLeaf(e)
  BY <1>3, Move_unfold, NotRoot, Move_goUp, Move_goRight, Move_Branch, Move_VisitLeaf DEF Alone
<1> QED BY <1>1, <1>2, <1>3 DEF Step

\* Sharing gives both explorers consistent intervals.
LEMMA SharedIntervals ==
  ASSUME IInv, IntervalInv, NEW v \in Explorer, NEW t \in Explorer, shareWork(v, t)
  PROVE  IntervalInv'
<1> DEFINE pos == posVect[v]
           last == endVect[v]
           m == line(v)
<1>1. PICK l \in Line : \E cut : Shared(v, t, l, cut)
  BY Move_shareWork
<1>2. PICK cut : Shared(v, t, l, cut)
  BY <1>1
<1>3. Active(v) /\ IntervalOK(v)
  BY <1>2 DEF Shared, Active, IntervalInv
<1>4. /\ m \in Line /\ Len(rows[v]) = m + 1
      /\ pos \in [Line -> Nat] /\ last \in [Line -> Line]
      /\ Digits(pos, last) /\ Fits(m, pos, last)
  BY <1>3, Current DEF IntervalOK
<1>5. /\ l <= m /\ \A k \in 0 .. l - 1 : pos[k] = last[k]
      /\ pos[l] < last[l] /\ cut \in pos[l] + 1 .. last[l]
  BY <1>2 DEF Shared
<1>6. pos = posVect[v] /\ last = endVect[v]
  OBVIOUS
<1> HIDE DEF pos, last, m
<1>7. IntervalOK(t)'
  <2>1. Digits(ThiefPos(v, l, cut), last) /\ Fits(l, ThiefPos(v, l, cut), last)
    BY <1>4, <1>5, <1>6, FitsThief
  <2>2. /\ posVect'[t] = ThiefPos(v, l, cut) /\ endVect'[t] = last /\ Len(rows'[t]) = l + 1
        /\ pc'[t] = "ready"
    BY <1>2, <1>6 DEF Shared
  <2> QED BY <2>1, <2>2, IntervalActive
<1>8. IntervalOK(v)'
  <2>1. Digits(pos, VictimEnd(v, l, cut)) /\ Fits(m, pos, VictimEnd(v, l, cut))
    BY <1>4, <1>5, <1>6, FitsVictim
  <2>2. /\ posVect'[v] = pos /\ endVect'[v] = VictimEnd(v, l, cut) /\ rows'[v] = rows[v]
        /\ pc'[v] = "ready"
    BY <1>2, <1>6 DEF Shared
  <2> QED BY <1>4, <2>1, <2>2, IntervalActive
<1> SUFFICES ASSUME NEW x \in Explorer, x # v, x # t PROVE IntervalOK(x)'
  BY <1>7, <1>8 DEF IntervalInv
<1>9. /\ rows'[x] = rows[x] /\ posVect'[x] = posVect[x]
      /\ endVect'[x] = endVect[x] /\ pc'[x] = pc[x]
  BY <1>2 DEF Shared
<1> QED BY <1>9, IntervalKept DEF IntervalInv

\* An explorer that starts without work has nothing in its interval.
LEMMA IntervalInit ==
  ASSUME Init PROVE IntervalInv
<1> SUFFICES ASSUME NEW e \in Explorer PROVE IntervalOK(e)
  BY DEF IntervalInv
<1>1. /\ posVect[e] = [l \in Line |-> IF l = 0 THEN size ELSE 0]
      /\ endVect[e] = [l \in Line |-> 0] /\ pc[e] \in {"root", "empty"}
  BY DEF Init
<1>2. Digits(posVect[e], endVect[e])
  BY <1>1, Lines DEF Digits
<1>3. ~LexLeq(posVect[e], endVect[e])
  <2>1. 0 \in Line /\ posVect[e][0] > endVect[e][0]
    BY <1>1, Lines
  <2> QED BY <2>1 DEF LexLeq
<1> QED BY <1>1, <1>2, <1>3 DEF IntervalOK, Active

\* Every step keeps all intervals consistent.
LEMMA IntervalStep ==
  ASSUME IInv, IntervalInv, [Next]_vars PROVE IntervalInv'
<1>1. ASSUME NEW e \in Explorer, Step(e) PROVE IntervalInv'
  <2> SUFFICES ASSUME NEW x \in Explorer, x # e PROVE IntervalOK(x)'
    BY <1>1, OwnInterval DEF IntervalInv
  <2> QED BY <1>1, Others, IntervalKept DEF IntervalInv
<1>2. ASSUME NEW v \in Explorer, NEW t \in Explorer, shareWork(v, t) PROVE IntervalInv'
  BY <1>2, SharedIntervals
<1>3. CASE UNCHANGED vars
  <2>1. \A x \in Explorer : /\ rows'[x] = rows[x] /\ posVect'[x] = posVect[x]
                            /\ endVect'[x] = endVect[x] /\ pc'[x] = pc[x]
    BY <1>3 DEF vars
  <2> QED BY <2>1, IntervalKept DEF IntervalInv
<1> QED BY <1>1, <1>2, <1>3 DEF Next, Finished

\* Position and end vectors of every explorer delimit an interval, in which the
\* position never runs past the columns of the matrix.
THEOREM IntervalsKept == Spec => []IntervalInv
<1>1. Init => IntervalInv
  BY IntervalInit
<1>2. IInv /\ IntervalInv /\ [Next]_vars => IntervalInv'
  BY IntervalStep
<1> QED BY <1>1, <1>2, Invariant, PTL DEF Spec


-----------------------------------------------------------------------------
(* Open leaves *)

\* The leaves of an interval that no flag of a stack cuts off.
Remaining(s, pos, last) ==
  {d \in Leaf : /\ LexLeq(pos, d) /\ LexLeq(d, last)
                /\ ~\E r \in 1 .. Len(s) : /\ \A k \in 0 .. r - 2 : d[k] = pos[k]
                                           /\ s[r].jobs[d[r - 1]] < 0}

\* They are what an explorer has to visit yet.
LEMMA OpenAre ==
  ASSUME NEW e, rows[e] \in Seq(AnyRow)
  PROVE  OpenLeaves(e) = Remaining(rows[e], posVect[e], endVect[e])
<1>1. DOMAIN rows[e] = 1 .. Len(rows[e])
  BY LenProperties
<1> QED BY <1>1 DEF OpenLeaves, Remaining

\* A leaf has a column in every line.
LEMMA Leaves ==
  ASSUME NEW d \in Leaf
  PROVE  /\ d \in [Line -> Nat]
         /\ \A i \in Line : d[i] \in Nat /\ d[i] \in Int /\ 0 <= d[i] /\ d[i] <= size - i - 1
<1>1. d \in [Line -> Line] /\ \A i \in Line : d[i] < size - i
  BY DEF Leaf
<1>2. \A i \in Line : d[i] \in Nat /\ d[i] <= size - i - 1
  BY <1>1, Lines
<1> QED BY <1>1, <1>2

\* A flag stays one.
LEMMA StillFlagged ==
  ASSUME NEW c PROVE c < 0 => negative(c) < 0
BY DEF negative

\* Going up loses nothing but leaves below the flagged cell.
LEMMA RemainingUp ==
  ASSUME NEW s, NEW pos \in [Line -> Nat], NEW last, NEW t, NEW new \in [Line -> Nat],
         NEW l, Up(s, pos, t, new, l), StackOK(s, pos)
  PROVE  Remaining(t, new, last) \subseteq Remaining(s, pos, last)
<1>1. /\ l \in Line /\ l \in Int /\ 0 < l /\ Len(s) = l + 1 /\ Len(t) = l
      /\ \A i \in Line : new[i] = IF i = l THEN 0 ELSE pos[i]
      /\ \A r \in 1 .. l : \A i \in 0 .. size - r :
           t[r].jobs[i] = IF r = l /\ i = pos[l - 1] THEN negative(s[r].jobs[i])
                                                     ELSE s[r].jobs[i]
  BY Lines DEF Up, Restarted
<1>2. SUFFICES ASSUME NEW d \in Remaining(t, new, last) PROVE d \in Remaining(s, pos, last)
  OBVIOUS
<1>3. /\ d \in Leaf /\ d \in [Line -> Nat] /\ LexLeq(new, d) /\ LexLeq(d, last)
      /\ \A i \in Line : d[i] \in Int /\ 0 <= d[i] /\ d[i] <= size - i - 1
  BY Leaves DEF Remaining
<1>4. \A r \in 1 .. l : (\A k \in 0 .. r - 2 : d[k] = new[k]) => ~(t[r].jobs[d[r - 1]] < 0)
  BY <1>1 DEF Remaining
<1>5. \A r \in 1 .. l : r - 1 \in Line /\ d[r - 1] \in 0 .. size - r
  <2> TAKE r \in 1 .. l
  <2>1. r - 1 \in Line
    BY <1>1, Lines
  <2>2. d[r - 1] \in Int /\ 0 <= d[r - 1] /\ d[r - 1] <= size - (r - 1) - 1
    BY <1>3, <2>1
  <2> QED BY <1>1, <2>1, <2>2, Lines
<1>6. \A k \in 0 .. l - 1 : k \in Line /\ new[k] = pos[k] /\ pos[k] \in Nat
  BY <1>1, Lines
<1>7. PICK k \in 0 .. l - 1 : d[k] # new[k]
  <2> SUFFICES ASSUME \A k \in 0 .. l - 1 : d[k] = new[k] PROVE FALSE
    OBVIOUS
  <2>1. l \in 1 .. l /\ \A k \in 0 .. l - 2 : k \in 0 .. l - 1
    BY <1>1
  <2>2. d[l - 1] = pos[l - 1] /\ d[l - 1] \in 0 .. size - l
    <3>1. l - 1 \in 0 .. l - 1
      BY <1>1
    <3> QED BY <1>5, <1>6, <2>1, <3>1
  <2>3. t[l].jobs[d[l - 1]] = negative(s[l].jobs[d[l - 1]])
    BY <1>1, <2>1, <2>2
  <2>4. s[l].jobs[d[l - 1]] \in Cells
    <3>1. l \in 1 .. Len(s)
      BY <1>1
    <3>2. s[l].jobs \in [0 .. size - l -> Cells]
      BY <3>1 DEF StackOK, RowOK
    <3> QED BY <2>2, <3>2
  <2>5. \A c \in Cells : negative(c) < 0
    BY Lines DEF Cells, negative
  <2> QED BY <1>4, <2>1, <2>3, <2>4, <2>5
<1>8. PICK i \in Line : i <= k /\ new[i] # d[i] /\ \A j \in 0 .. i - 1 : new[j] = d[j]
  BY <1>3, <1>6, <1>7, FirstDifference
<1>9. LexLeq(pos, d)
  <2>1. new[i] < d[i]
    BY <1>3, <1>8, LexAt
  <2>2. i \in 0 .. l - 1 /\ \A j \in 0 .. i - 1 : j \in 0 .. l - 1
    BY <1>1, <1>7, <1>8, Lines
  <2>3. pos[i] # d[i] /\ pos[i] < d[i] /\ \A j \in 0 .. i - 1 : pos[j] = d[j]
    BY <1>6, <1>8, <2>1, <2>2
  <2> QED BY <1>3, <2>3, LexAt
<1>10. ASSUME NEW r \in 1 .. l + 1, \A j \in 0 .. r - 2 : d[j] = pos[j], s[r].jobs[d[r - 1]] < 0
       PROVE  FALSE
  <2>1. r # l + 1
    <3> SUFFICES ASSUME r = l + 1 PROVE FALSE
      OBVIOUS
    <3>1. k \in 0 .. r - 2
      BY <1>1
    <3> QED BY <1>6, <1>7, <1>10, <3>1
  <2>2. r \in 1 .. l
    BY <1>1, <2>1
  <2>3. \A j \in 0 .. r - 2 : j \in 0 .. l - 1
    BY <1>1, <2>2
  <2>4. t[r].jobs[d[r - 1]] < 0
    <3> DEFINE c == s[r].jobs[d[r - 1]]
    <3>1. t[r].jobs[d[r - 1]] = negative(c) \/ t[r].jobs[d[r - 1]] = c
      BY <1>1, <1>5, <2>2
    <3>2. c < 0
      BY <1>10
    <3> HIDE DEF c
    <3>3. negative(c) < 0
      BY <3>2, StillFlagged
    <3> QED BY <3>1, <3>2, <3>3
  <2> QED BY <1>4, <1>6, <1>10, <2>2, <2>3, <2>4
<1> QED BY <1>1, <1>3, <1>9, <1>10 DEF Remaining

\* Going right loses nothing but leaves below the flagged cell.
LEMMA RemainingRight ==
  ASSUME NEW s, NEW pos \in [Line -> Nat], NEW last, NEW t, NEW new \in [Line -> Nat],
         NEW l, Right(s, pos, t, new, l)
  PROVE  Remaining(t, new, last) \subseteq Remaining(s, pos, last)
<1>1. /\ l \in Line /\ l \in Int /\ 0 <= l /\ Len(s) = l + 1 /\ t = s
      /\ \A i \in Line : new[i] = IF i = l THEN pos[i] + 1 ELSE pos[i]
  BY Lines DEF Right, Advanced
<1>2. SUFFICES ASSUME NEW d \in Remaining(t, new, last) PROVE d \in Remaining(s, pos, last)
  OBVIOUS
<1>3. /\ d \in Leaf /\ d \in [Line -> Nat] /\ LexLeq(new, d) /\ LexLeq(d, last)
  BY Leaves DEF Remaining
<1>4. \A k \in 0 .. l - 1 : new[k] = pos[k]
  BY <1>1, Lines
<1>5. LexLeq(pos, d)
  <2>1. pos[l] # new[l] /\ pos[l] < new[l]
    <3>1. pos[l] \in Nat /\ new[l] = pos[l] + 1
      BY <1>1
    <3> QED BY <3>1
  <2>2. LexLeq(pos, new)
    BY <1>1, <1>4, <2>1, LexAt
  <2> QED BY <1>3, <2>2, LexTransitive
<1>6. ASSUME NEW r \in 1 .. l + 1, \A k \in 0 .. r - 2 : d[k] = pos[k], s[r].jobs[d[r - 1]] < 0
      PROVE  FALSE
  <2>1. \A k \in 0 .. r - 2 : k \in 0 .. l - 1
    BY <1>1
  <2>2. \A k \in 0 .. r - 2 : d[k] = new[k]
    BY <1>4, <1>6, <2>1
  <2> QED BY <1>1, <1>6, <2>2 DEF Remaining
<1> QED BY <1>1, <1>3, <1>5, <1>6 DEF Remaining

\* A new row loses nothing but what its flags cut off.
LEMMA RemainingDown ==
  ASSUME NEW s, NEW pos \in [Line -> Nat], NEW last, NEW t, NEW new,
         NEW l, Down(s, pos, t, new, l), Fits(l, pos, last)
  PROVE  new = pos /\ Remaining(t, new, last) \subseteq Remaining(s, pos, last)
<1>1. /\ l \in Line /\ l \in Int /\ 0 <= l /\ Len(s) = l + 1 /\ Len(t) = l + 2
      /\ l + 1 \in Line /\ new = Restarted(pos, l + 1) /\ \A r \in 1 .. l + 1 : t[r] = s[r]
  BY Lines DEF Down
<1>2. pos[l + 1] = 0
  BY <1>1 DEF Fits
<1>3. new = pos
  BY <1>1, <1>2 DEF Restarted
<1>4. \A r \in 1 .. l + 1 : r \in 1 .. l + 2
  BY <1>1
<1> QED BY <1>1, <1>3, <1>4 DEF Remaining


\* Two vectors agree above line l.
Agree(u, w, l) == \A k \in 0 .. l - 1 : u[k] = w[k]

\* What lies between two vectors agrees with them as far as these agree.
LEMMA Squeezed ==
  ASSUME NEW u \in [Line -> Nat], NEW d \in [Line -> Nat], NEW w \in [Line -> Nat],
         LexLeq(u, d), LexLeq(d, w), NEW l \in Line, Agree(u, w, l)
  PROVE  Agree(d, u, l) /\ Agree(d, w, l) /\ u[l] <= d[l] /\ d[l] <= w[l]
<1> USE DEF Agree
<1>0. \A i \in Line : u[i] \in Nat /\ d[i] \in Nat /\ w[i] \in Nat
  OBVIOUS
<1>1. \A k \in 0 .. l - 1 : d[k] = u[k]
  <2> SUFFICES ASSUME NEW k \in 0 .. l - 1, d[k] # u[k] PROVE FALSE
    OBVIOUS
  <2>1. k \in Line
    BY Lines
  <2>2. PICK i \in Line : i <= k /\ u[i] # d[i] /\ \A j \in 0 .. i - 1 : u[j] = d[j]
    BY <2>1, FirstDifference
  <2>3. i \in 0 .. l - 1 /\ \A j \in 0 .. i - 1 : j \in 0 .. l - 1
    BY <2>1, <2>2, Lines
  <2>4. u[i] < d[i]
    BY <2>2, LexAt
  <2>5. d[i] # w[i] /\ \A j \in 0 .. i - 1 : d[j] = w[j]
    BY <2>2, <2>3
  <2>6. d[i] < w[i]
    BY <2>5, LexAt
  <2>7. u[i] = w[i]
    BY <2>3
  <2> QED BY <1>0, <2>4, <2>6, <2>7
<1>2. u[l] <= d[l]
  <2> SUFFICES ASSUME u[l] # d[l] PROVE u[l] < d[l]
    BY <1>0
  <2> QED BY <1>1, LexAt
<1>3. d[l] <= w[l]
  <2> SUFFICES ASSUME w[l] # d[l] PROVE d[l] < w[l]
    BY <1>0
  <2>1. \A k \in 0 .. l - 1 : d[k] = w[k]
    BY <1>1
  <2> QED BY <2>1, LexAt
<1> QED BY <1>1, <1>2, <1>3

\* The interval from pos to last is cut at a column of line l: T is the first leaf
\* of the right part, E the last one of the left part.
CutAt(pos, last, l, cut, T, E) ==
  /\ pos \in [Line -> Nat] /\ last \in [Line -> Nat] /\ T \in [Line -> Nat] /\ E \in [Line -> Nat]
  /\ l \in Line /\ Agree(pos, last, l)
  /\ cut \in Int /\ pos[l] < cut /\ cut <= last[l]
  /\ \A i \in Line : /\ T[i] = IF i < l THEN pos[i] ELSE IF i = l THEN cut ELSE 0
                     /\ E[i] = IF i < l THEN last[i] ELSE IF i = l THEN cut - 1 ELSE size - i - 1

\* Victim and thief share rows down to that line.
SameRows(t, s, l) == /\ Len(s) \in Nat /\ l + 1 <= Len(s) /\ Len(t) = l + 1
                     /\ \A r \in 1 .. l + 1 : t[r] = s[r]

\* That is how an interval is shared.
LEMMA SharedCut ==
  ASSUME IInv, IInv', NEW v \in Explorer, NEW t \in Explorer, NEW l, NEW cut, Shared(v, t, l, cut)
  PROVE  /\ CutAt(posVect[v], endVect[v], l, cut, posVect'[t], endVect'[v])
         /\ SameRows(rows'[t], rows[v], l)
<1> DEFINE pos == posVect[v]
           last == endVect[v]
           T == posVect'[t]
           E == endVect'[v]
<1>1. /\ Active(v) /\ l \in Line /\ l <= line(v) /\ \A k \in 0 .. l - 1 : pos[k] = last[k]
      /\ pos[l] < last[l] /\ cut \in pos[l] + 1 .. last[l]
      /\ T = ThiefPos(v, l, cut) /\ E = VictimEnd(v, l, cut)
      /\ Len(rows'[t]) = l + 1 /\ \A r \in 1 .. l + 1 : rows'[t][r] = rows[v][r]
  BY DEF Shared, Active
<1>2. /\ pos \in [Line -> Nat] /\ last \in [Line -> Line] /\ last \in [Line -> Nat]
      /\ T \in [Line -> Nat] /\ E \in [Line -> Nat]
  <2>1. Line \subseteq Nat
    BY Lines
  <2>2. /\ posVect[v] \in [Line -> Nat] /\ endVect[v] \in [Line -> Line]
        /\ posVect'[t] \in [Line -> Nat] /\ endVect'[v] \in [Line -> Line]
    BY DEF IInv, Shape
  <2> HIDE DEF pos, last, T, E
  <2> QED BY <2>1, <2>2 DEF pos, last, T, E
<1>3. \A i \in Line : /\ T[i] = IF i < l THEN pos[i] ELSE IF i = l THEN cut ELSE 0
                      /\ E[i] = IF i < l THEN last[i] ELSE IF i = l THEN cut - 1 ELSE size - i - 1
  BY <1>1 DEF ThiefPos, VictimEnd
<1>4. SameRows(rows'[t], rows[v], l)
  <2>1. Len(rows[v]) \in Nat /\ Len(rows[v]) = line(v) + 1 /\ line(v) \in Int /\ l \in Int
    BY <1>1, Current, Lines
  <2> QED BY <1>1, <2>1 DEF SameRows
<1> HIDE DEF pos, last, T, E
<1>5. cut \in Int /\ pos[l] < cut /\ cut <= last[l]
  <2>1. pos[l] \in Int /\ last[l] \in Int
    BY <1>1, <1>2
  <2> QED BY <1>1, <2>1
<1>6. CutAt(pos, last, l, cut, T, E)
  BY <1>1, <1>2, <1>3, <1>5 DEF CutAt, Agree
<1> QED BY <1>4, <1>6 DEF pos, last, T, E

\* What the parts of a cut interval have in common.
LEMMA CutParts ==
  ASSUME NEW pos, NEW last, NEW l, NEW cut, NEW T, NEW E, CutAt(pos, last, l, cut, T, E)
  PROVE  /\ pos \in [Line -> Nat] /\ last \in [Line -> Nat] /\ T \in [Line -> Nat]
         /\ E \in [Line -> Nat] /\ l \in Line /\ l \in Nat /\ l < size
         /\ Agree(pos, last, l) /\ Agree(T, last, l) /\ Agree(T, pos, l)
         /\ Agree(E, last, l) /\ Agree(E, pos, l)
         /\ cut \in Int /\ pos[l] < cut /\ cut <= last[l]
         /\ T[l] = cut /\ E[l] = cut - 1
         /\ \A i \in Line : i > l => T[i] = 0 /\ E[i] = size - i - 1
<1>1. /\ pos \in [Line -> Nat] /\ last \in [Line -> Nat] /\ T \in [Line -> Nat] /\ E \in [Line -> Nat]
      /\ l \in Line /\ \A k \in 0 .. l - 1 : pos[k] = last[k]
      /\ cut \in Int /\ pos[l] < cut /\ cut <= last[l]
      /\ \A i \in Line : /\ T[i] = IF i < l THEN pos[i] ELSE IF i = l THEN cut ELSE 0
                         /\ E[i] = IF i < l THEN last[i] ELSE IF i = l THEN cut - 1 ELSE size - i - 1
  BY DEF CutAt, Agree
<1>2. \A k \in 0 .. l - 1 : k \in Line /\ k < l /\ k \in Int
  BY <1>1, Lines
<1>3. l \in Nat /\ l < size
  BY <1>1, Lines
<1>4. \A k \in 0 .. l - 1 : T[k] = pos[k] /\ E[k] = last[k]
  BY <1>1, <1>2
<1>5. T[l] = cut /\ E[l] = cut - 1
  BY <1>1, <1>3
<1>6. ASSUME NEW i \in Line, i > l PROVE T[i] = 0 /\ E[i] = size - i - 1
  <2>1. ~(i < l) /\ i # l
    BY <1>3, <1>6, Lines
  <2> QED BY <1>1, <2>1
<1> QED BY <1>1, <1>3, <1>4, <1>5, <1>6 DEF Agree

\* A cut gives the thief some of the victim's leaves, and the victim the others.
LEMMA RemainingShared ==
  ASSUME NEW pos \in [Line -> Nat], NEW last \in [Line -> Nat], NEW l \in Line, NEW cut \in Int,
         NEW T \in [Line -> Nat], NEW E \in [Line -> Nat], CutAt(pos, last, l, cut, T, E),
         NEW s, NEW t, SameRows(t, s, l)
  PROVE  /\ Remaining(t, T, last) \subseteq Remaining(s, pos, last)
         /\ Remaining(s, pos, E) = Remaining(s, pos, last) \ Remaining(t, T, last)
<1>0. /\ l \in Line /\ l \in Nat /\ Len(s) \in Nat /\ l + 1 <= Len(s) /\ Len(t) = l + 1
      /\ \A r \in 1 .. l + 1 : t[r] = s[r]
      /\ \A i \in Line : i \in Int /\ 0 <= i /\ i < size /\ size \in Int
                         /\ pos[i] \in Int /\ 0 <= pos[i] /\ last[i] \in Int
                         /\ \A k \in 0 .. i - 1 : k \in Line /\ k \in Int /\ k < i
  <2>1. \A i \in Line : pos[i] \in Nat /\ last[i] \in Nat
    OBVIOUS
  <2> QED BY <2>1, Lines DEF SameRows
<1>1. T \in [Line -> Nat] /\ \A i \in Line : i > l => T[i] = 0
  BY CutParts
<1>2. E \in [Line -> Nat] /\ \A i \in Line : i > l => E[i] = size - i - 1
  BY CutParts
<1>3. pos \in [Line -> Nat] /\ last \in [Line -> Nat] /\ Agree(T, last, l) /\ Agree(pos, last, l)
  BY CutParts
<1>4. /\ cut \in Int /\ pos[l] < cut /\ cut <= last[l]
      /\ \A k \in 0 .. l - 1 : T[k] = pos[k] /\ E[k] = last[k] /\ T[k] = last[k] /\ E[k] = pos[k]
      /\ T[l] = cut /\ E[l] = cut - 1
  BY CutParts DEF Agree
<1>5. LexLeq(pos, T)
  <2>1. pos[l] # T[l] /\ \A k \in 0 .. l - 1 : pos[k] = T[k]
    <3>1. pos[l] \in Int
      BY <1>0
    <3> QED BY <1>4, <3>1
  <2> QED BY <1>1, <1>4, <2>1, LexAt
<1>6. LexLeq(E, last)
  <2>1. E[l] # last[l] /\ E[l] < last[l] /\ \A k \in 0 .. l - 1 : E[k] = last[k]
    BY <1>0, <1>4
  <2> QED BY <1>2, <1>3, <2>1, LexAt
<1>7. ASSUME NEW d \in Remaining(t, T, last)
      PROVE  d \in Remaining(s, pos, last) /\ ~LexLeq(d, E)
  <2>1. d \in Leaf /\ d \in [Line -> Nat] /\ LexLeq(T, d) /\ LexLeq(d, last)
    BY <1>7, Leaves DEF Remaining
  <2>2. LexLeq(pos, d)
    BY <1>1, <1>5, <2>1, LexTransitive
  <2>3. /\ \A k \in 0 .. l - 1 : d[k] = T[k] /\ d[k] = last[k]
        /\ T[l] <= d[l]
    <3>1. /\ T \in [Line -> Nat] /\ d \in [Line -> Nat] /\ last \in [Line -> Nat]
          /\ LexLeq(T, d) /\ LexLeq(d, last) /\ Agree(T, last, l)
      BY <1>1, <1>3, <2>1
    <3>2. Agree(d, T, l) /\ Agree(d, last, l) /\ T[l] <= d[l]
      BY <1>0, <3>1, Squeezed
    <3> QED BY <3>2 DEF Agree
  <2>4. d[l] \in Int /\ cut <= d[l] /\ \A k \in 0 .. l - 1 : d[k] = pos[k]
    BY <1>4, <2>1, <2>3, Leaves
  <2>5. ASSUME NEW r \in 1 .. Len(s), \A k \in 0 .. r - 2 : d[k] = pos[k], s[r].jobs[d[r - 1]] < 0
        PROVE  FALSE
    <3>1. CASE r <= l + 1
      <4>1. r \in 1 .. l + 1 /\ \A k \in 0 .. r - 2 : k \in 0 .. l - 1
        BY <1>0, <3>1
      <4>2. \A k \in 0 .. r - 2 : d[k] = T[k]
        BY <2>3, <4>1
      <4>3. r \in 1 .. Len(t) /\ t[r].jobs[d[r - 1]] < 0
        BY <1>0, <2>5, <4>1
      <4> QED BY <1>7, <4>2, <4>3 DEF Remaining
    <3>2. CASE r > l + 1
      <4>1. l \in 0 .. r - 2
        BY <1>0, <3>2
      <4>2. d[l] = pos[l]
        BY <2>5, <4>1
      <4> QED BY <1>0, <1>4, <2>4, <4>2
    <3> QED BY <1>0, <3>1, <3>2
  <2>6. ~LexLeq(d, E)
    <3>1. d[l] # E[l] /\ ~(d[l] < E[l]) /\ \A k \in 0 .. l - 1 : d[k] = E[k]
      BY <1>4, <2>4
    <3> QED BY <1>2, <2>1, <3>1, LexAt
  <2> QED BY <2>1, <2>2, <2>5, <2>6 DEF Remaining
<1>8. ASSUME NEW d \in Remaining(s, pos, E) PROVE d \in Remaining(s, pos, last)
  <2>1. d \in Leaf /\ d \in [Line -> Nat] /\ LexLeq(pos, d) /\ LexLeq(d, E)
    BY <1>8, Leaves DEF Remaining
  <2>2. LexLeq(d, last)
    BY <1>2, <1>3, <1>6, <2>1, LexTransitive
  <2> QED BY <1>8, <2>2 DEF Remaining
<1>9. ASSUME NEW d \in Remaining(s, pos, last), d \notin Remaining(t, T, last)
      PROVE  d \in Remaining(s, pos, E)
  <2>1. /\ d \in Leaf /\ d \in [Line -> Nat] /\ LexLeq(pos, d) /\ LexLeq(d, last)
        /\ \A i \in Line : d[i] \in Int /\ 0 <= d[i] /\ d[i] <= size - i - 1
    BY <1>9, Leaves DEF Remaining
  <2>2. /\ \A k \in 0 .. l - 1 : d[k] = pos[k] /\ d[k] = last[k]
        /\ pos[l] <= d[l] /\ d[l] <= last[l]
    <3>1. /\ d \in [Line -> Nat] /\ last \in [Line -> Nat]
          /\ LexLeq(pos, d) /\ LexLeq(d, last) /\ Agree(pos, last, l)
      BY <1>3, <2>1
    <3>2. Agree(d, pos, l) /\ Agree(d, last, l) /\ pos[l] <= d[l] /\ d[l] <= last[l]
      BY <1>0, <3>1, Squeezed
    <3> QED BY <3>2 DEF Agree
  <2>3. ~LexLeq(T, d)
    <3> SUFFICES ASSUME LexLeq(T, d) PROVE FALSE
      OBVIOUS
    <3>1. PICK r \in 1 .. l + 1 : (\A k \in 0 .. r - 2 : d[k] = T[k]) /\ t[r].jobs[d[r - 1]] < 0
      BY <1>0, <1>9, <2>1 DEF Remaining
    <3>2. r \in 1 .. Len(s) /\ \A k \in 0 .. r - 2 : k \in 0 .. l - 1
      BY <1>0, <3>1
    <3>3. \A k \in 0 .. r - 2 : d[k] = pos[k]
      BY <2>2, <3>2
    <3>4. s[r].jobs[d[r - 1]] < 0
      BY <1>0, <3>1
    <3> QED BY <1>9, <3>2, <3>3, <3>4 DEF Remaining
  <2>4. d[l] < cut
    <3> SUFFICES ASSUME ~(d[l] < cut) PROVE FALSE
      OBVIOUS
    <3>1. CASE d[l] = cut
      <4>1. ASSUME NEW i \in Line, T[i] > d[i] PROVE FALSE
        <5>1. CASE i < l
          <6>1. i \in 0 .. l - 1
            BY <1>0, <5>1
          <6> QED BY <1>4, <2>1, <2>2, <4>1, <6>1
        <5>2. CASE i = l
          BY <1>4, <2>1, <3>1, <4>1, <5>2
        <5>3. CASE i > l
          <6>1. T[i] = 0
            BY <1>0, <1>1, <5>3
          <6> QED BY <2>1, <4>1, <6>1
        <5> QED BY <1>0, <5>1, <5>2, <5>3
      <4> QED BY <2>3, <4>1 DEF LexLeq
    <3>2. CASE d[l] # cut
      <4>1. T[l] # d[l] /\ T[l] < d[l] /\ \A k \in 0 .. l - 1 : T[k] = d[k]
        BY <1>4, <2>1, <2>2, <3>2
      <4> QED BY <1>1, <2>1, <2>3, <4>1, LexAt
    <3> QED BY <3>1, <3>2
  <2>5. LexLeq(d, E)
    <3> SUFFICES ASSUME NEW i \in Line, d[i] > E[i] PROVE FALSE
      BY DEF LexLeq
    <3>1. CASE i < l
      <4>1. i \in 0 .. l - 1
        BY <1>0, <3>1
      <4> QED BY <1>4, <2>1, <2>2, <4>1
    <3>2. CASE i = l
      BY <1>4, <2>1, <2>4, <3>2
    <3>3. CASE i > l
      <4>1. E[i] = size - i - 1
        BY <1>0, <1>2, <3>3
      <4> QED BY <1>0, <2>1, <4>1
    <3> QED BY <1>0, <3>1, <3>2, <3>3
  <2> QED BY <1>9, <2>5 DEF Remaining
<1>10. ASSUME NEW d \in Remaining(s, pos, E) PROVE d \notin Remaining(t, T, last)
  <2>1. LexLeq(d, E)
    BY <1>10 DEF Remaining
  <2> QED BY <1>7, <2>1
<1> QED BY <1>7, <1>8, <1>9, <1>10


-----------------------------------------------------------------------------
(* The pool of work *)

\* What explorer e has in the pool.
Owned(e) == IF pc[e] = "root" THEN Leaf ELSE OpenLeaves(e)

\* What it has, by its stack and its interval, before a step.
LEMMA OwnedNow ==
  ASSUME IInv, NEW e \in Explorer
  PROVE  Owned(e) = IF pc[e] = "root" THEN Leaf ELSE Remaining(rows[e], posVect[e], endVect[e])
BY OpenAre, Parts DEF Owned

\* The same, after the step.
LEMMA OwnedNext ==
  ASSUME IInv', NEW e \in Explorer
  PROVE  Owned(e)' = IF pc'[e] = "root" THEN Leaf ELSE Remaining(rows'[e], posVect'[e], endVect'[e])
<1>1. rows'[e] \in Seq(AnyRow)
  BY DEF IInv, Matrices, StackOK
<1>2. DOMAIN rows'[e] = 1 .. Len(rows'[e])
  BY <1>1, LenProperties
<1>3. OpenLeaves(e)' = Remaining(rows'[e], posVect'[e], endVect'[e])
  BY <1>2 DEF OpenLeaves, Remaining
<1> QED BY <1>3 DEF Owned

\* What an explorer does on its own only takes leaves out of its part of the pool.
LEMMA OwnedStep ==
  ASSUME IInv, IInv', IntervalInv, NEW e \in Explorer, Step(e)
  PROVE  Owned(e)' \subseteq Owned(e)
<1> DEFINE s == rows[e]
           pos == posVect[e]
           last == endVect[e]
           t == rows'[e]
           new == posVect'[e]
           l == line(e)
<1>1. /\ pos \in [Line -> Nat] /\ new \in [Line -> Nat] /\ StackOK(s, pos)
      /\ Owned(e) \subseteq Leaf /\ Owned(e)' \subseteq Leaf
  <2>1. pos \in [Line -> Nat] /\ new \in [Line -> Nat] /\ StackOK(s, pos)
    BY Parts DEF IInv, Shape
  <2>2. Owned(e) \subseteq Leaf /\ Owned(e)' \subseteq Leaf
    BY OwnedNow, OwnedNext DEF Remaining
  <2> QED BY <2>1, <2>2
<1>2. CASE setRoot(e)
  BY <1>1, <1>2 DEF setRoot, Owned
<1>3. ASSUME pc[e] # "root", pc'[e] # "root", endVect'[e] = last,
             Remaining(t, new, last) \subseteq Remaining(s, pos, last)
      PROVE  Owned(e)' \subseteq Owned(e)
  BY <1>3, OwnedNow, OwnedNext
<1>4. CASE EnterNext(e) \/ Exhausted(e)
  <2>1. t = s /\ new = pos /\ endVect'[e] = last /\ pc[e] # "root" /\ pc'[e] # "root"
    BY <1>4 DEF EnterNext, Exhausted, IInv, Shape
  <2> QED BY <1>3, <2>1
<1>5. ASSUME Active(e), Down(s, pos, t, new, l)
      PROVE  Remaining(t, new, last) \subseteq Remaining(s, pos, last)
  <2>1. Fits(l, pos, last)
    BY <1>5 DEF IntervalInv, IntervalOK
  <2> HIDE DEF s, pos, last, t, new, l
  <2> QED BY <1>1, <1>5, <2>1, RemainingDown
<1>6. CASE unfold(e)
  <2>1. /\ Active(e) /\ pc[e] # "root" /\ pc'[e] # "root" /\ endVect'[e] = last
        /\ Down(s, pos, t, new, l) \/ (t = s /\ new = pos)
    BY <1>6, Move_unfold DEF unfold, Active, Alone
  <2> HIDE DEF s, pos, last, t, new, l
  <2> QED BY <1>3, <1>5, <2>1
<1>7. CASE goUp(e)
  <2>1. Up(s, pos, t, new, l) /\ pc[e] # "root" /\ pc'[e] # "root" /\ endVect'[e] = last
    BY <1>7, NotRoot, Move_goUp DEF goUp, Alone
  <2> HIDE DEF s, pos, last, t, new, l
  <2>2. Remaining(t, new, last) \subseteq Remaining(s, pos, last)
    BY <1>1, <2>1, RemainingUp
  <2> QED BY <1>3, <2>1, <2>2
<1>8. CASE goRight(e)
  <2>1. Right(s, pos, t, new, l) /\ pc[e] # "root" /\ pc'[e] # "root" /\ endVect'[e] = last
    BY <1>8, Move_goRight DEF goRight, Alone
  <2> HIDE DEF s, pos, last, t, new, l
  <2>2. Remaining(t, new, last) \subseteq Remaining(s, pos, last)
    BY <1>1, <2>1, RemainingRight
  <2> QED BY <1>3, <2>1, <2>2
<1>9. CASE Branch(e) \/ VisitLeaf(e)
  <2>1. /\ Active(e) /\ Down(s, pos, t, new, l)
        /\ pc[e] # "root" /\ pc'[e] # "root" /\ endVect'[e] = last
    BY <1>9, Move_Branch, Move_VisitLeaf DEF Branch, VisitLeaf, Open, Active, Alone
  <2> HIDE DEF s, pos, last, t, new, l
  <2> QED BY <1>3, <1>5, <2>1
<1> QED BY <1>2, <1>4, <1>6, <1>7, <1>8, <1>9 DEF Step

\* An explorer without work has nothing in the pool.
LEMMA EmptyOwned ==
  ASSUME IInv, IntervalInv, NEW e \in Explorer, pc[e] = "empty"
  PROVE  Owned(e) = {}
<1>1. posVect[e] \in [Line -> Nat] /\ endVect[e] \in [Line -> Nat]
  BY Parts, Lines
<1>2. ~LexLeq(posVect[e], endVect[e])
  BY DEF IntervalInv, IntervalOK
<1> SUFFICES ASSUME NEW d \in Remaining(rows[e], posVect[e], endVect[e]) PROVE FALSE
  BY OwnedNow
<1>3. d \in [Line -> Nat] /\ LexLeq(posVect[e], d) /\ LexLeq(d, endVect[e])
  BY Leaves DEF Remaining
<1> QED BY <1>1, <1>2, <1>3, LexTransitive

\* Sharing moves leaves from the victim to the thief.
LEMMA OwnedShared ==
  ASSUME IInv, IInv', IntervalInv, IntervalInv', NEW v \in Explorer, NEW t \in Explorer,
         shareWork(v, t)
  PROVE  /\ v # t /\ Owned(t) = {} /\ Owned(t)' \subseteq Owned(v)
         /\ Owned(v)' = Owned(v) \ Owned(t)'
         /\ \A x \in Explorer \ {v, t} : Owned(x)' = Owned(x)
<1>1. PICK l \in Line : \E cut : Shared(v, t, l, cut)
  BY Move_shareWork
<1>2. PICK cut : Shared(v, t, l, cut)
  BY <1>1
<1>3. /\ v # t /\ pc[v] = "ready" /\ pc[t] = "empty" /\ pc'[t] = "ready" /\ pc'[v] = "ready"
      /\ endVect'[t] = endVect[v] /\ posVect'[v] = posVect[v] /\ rows'[v] = rows[v]
  BY <1>2 DEF Shared
<1>4. /\ Owned(v) = Remaining(rows[v], posVect[v], endVect[v])
      /\ Owned(v)' = Remaining(rows[v], posVect[v], endVect'[v])
      /\ Owned(t)' = Remaining(rows'[t], posVect'[t], endVect[v])
  BY <1>3, OwnedNow, OwnedNext
<1>5. /\ CutAt(posVect[v], endVect[v], l, cut, posVect'[t], endVect'[v])
      /\ SameRows(rows'[t], rows[v], l)
  BY <1>2, SharedCut
<1>6. /\ Owned(t)' \subseteq Owned(v)
      /\ Owned(v)' = Owned(v) \ Owned(t)'
  <2>1. /\ posVect[v] \in [Line -> Nat] /\ endVect[v] \in [Line -> Nat] /\ cut \in Int
        /\ posVect'[t] \in [Line -> Nat] /\ endVect'[v] \in [Line -> Nat]
    BY <1>5, CutParts
  <2>2. /\ Remaining(rows'[t], posVect'[t], endVect[v]) \subseteq Remaining(rows[v], posVect[v], endVect[v])
        /\ Remaining(rows[v], posVect[v], endVect'[v])
             = Remaining(rows[v], posVect[v], endVect[v]) \ Remaining(rows'[t], posVect'[t], endVect[v])
    <3> DEFINE pos == posVect[v]
               last == endVect[v]
               T == posVect'[t]
               E == endVect'[v]
               s == rows[v]
               r == rows'[t]
    <3>1. /\ pos \in [Line -> Nat] /\ last \in [Line -> Nat] /\ cut \in Int
          /\ T \in [Line -> Nat] /\ E \in [Line -> Nat] /\ CutAt(pos, last, l, cut, T, E)
          /\ SameRows(r, s, l)
      BY <1>5, <2>1
    <3> HIDE DEF pos, last, T, E, s, r
    <3>2. /\ Remaining(r, T, last) \subseteq Remaining(s, pos, last)
          /\ Remaining(s, pos, E) = Remaining(s, pos, last) \ Remaining(r, T, last)
      BY <3>1, RemainingShared
    <3> QED BY <3>2 DEF pos, last, T, E, s, r
  <2> QED BY <1>4, <2>2
<1>7. Owned(t) = {}
  BY <1>3, EmptyOwned
<1>8. ASSUME NEW x \in Explorer \ {v, t} PROVE Owned(x)' = Owned(x)
  <2>1. rows'[x] = rows[x] /\ posVect'[x] = posVect[x] /\ endVect'[x] = endVect[x] /\ pc'[x] = pc[x]
    BY <1>2 DEF Shared
  <2> QED BY <2>1, OwnedNow, OwnedNext
<1> QED BY <1>3, <1>6, <1>7, <1>8

\* The pool at the start: all leaves are the first explorer's.
LEMMA PoolInit ==
  ASSUME Init PROVE Pool!Init
<1> DEFINE pool == [e \in Explorer |-> IF pc[e] = "root" THEN Leaf ELSE OpenLeaves(e)]
<1>1. IInv /\ IntervalInv
  BY InvInit, IntervalInit
<1>2. \A e \in Explorer : pc[e] = IF e = 0 THEN "root" ELSE "empty"
  BY DEF Init
<1>3. \A e \in Explorer : pool[e] = Owned(e)
  BY DEF Owned
<1>4. \A e \in Explorer : pool[e] = IF e = 0 THEN Leaf ELSE {}
  <2>1. \A e \in Explorer : e # 0 => Owned(e) = {}
    BY <1>1, <1>2, EmptyOwned
  <2> QED BY <1>2, <1>3, <2>1 DEF Owned
<1>5. pool \in [Explorer -> SUBSET Leaf]
  <2>1. \A e \in Explorer : pool[e] \in SUBSET Leaf
    BY <1>4
  <2> QED BY <2>1
<1> HIDE DEF pool
<1>6. \A d, e \in Explorer : d # e => pool[d] \cap pool[e] = {}
  BY <1>4
<1> USE DEF pool
<1>7. Pool!Disjoint(pool)
  BY <1>6 DEF Pool!Disjoint
<1> QED BY <1>5, <1>7 DEF Pool!Init

\* Every step is one of the pool, or none at all.
LEMMA PoolStep ==
  ASSUME IInv, IInv', IntervalInv, IntervalInv', [Next]_vars
  PROVE  [Pool!Next]_<<[e \in Explorer |-> IF pc[e] = "root" THEN Leaf ELSE OpenLeaves(e)], FALSE>>
<1> DEFINE pool == [e \in Explorer |-> IF pc[e] = "root" THEN Leaf ELSE OpenLeaves(e)]
<1>1. \A e \in Explorer : pool[e] = Owned(e) /\ pool'[e] = Owned(e)'
  BY DEF Owned
<1>2. pool = [e \in Explorer |-> pool[e]] /\ pool' = [e \in Explorer |-> pool'[e]]
  OBVIOUS
<1>3. ASSUME NEW e \in Explorer, Step(e) PROVE Pool!Explore(e)
  <2>1. pool'[e] \subseteq pool[e]
    BY <1>1, <1>3, OwnedStep
  <2>2. ASSUME NEW x \in Explorer, x # e PROVE pool'[x] = pool[x]
    <3>1. rows'[x] = rows[x] /\ posVect'[x] = posVect[x] /\ endVect'[x] = endVect[x] /\ pc'[x] = pc[x]
      BY <1>3, <2>2, Others
    <3> QED BY <1>1, <3>1, OwnedNow, OwnedNext
  <2> HIDE DEF pool
  <2>3. pool' = [pool EXCEPT ![e] = pool'[e]]
    BY <1>2, <2>2
  <2> QED BY <2>1, <2>3 DEF Pool!Explore, pool
<1>4. ASSUME NEW v \in Explorer, NEW t \in Explorer, shareWork(v, t) PROVE Pool!Steal(v, t)
  <2>1. /\ v # t /\ pool[t] = {} /\ pool'[t] \subseteq pool[v]
        /\ pool'[v] = pool[v] \ pool'[t]
        /\ \A x \in Explorer \ {v, t} : pool'[x] = pool[x]
    <3>1. /\ v # t /\ Owned(t) = {} /\ Owned(t)' \subseteq Owned(v)
          /\ Owned(v)' = Owned(v) \ Owned(t)'
          /\ \A x \in Explorer \ {v, t} : Owned(x)' = Owned(x)
      BY <1>4, OwnedShared
    <3> HIDE DEF pool
    <3> QED BY <1>1, <3>1
  <2> HIDE DEF pool
  <2>2. pool' = [pool EXCEPT ![v] = @ \ pool'[t], ![t] = pool'[t]]
    BY <1>2, <2>1
  <2> QED BY <2>1, <2>2 DEF Pool!Steal, pool
<1>5. ASSUME UNCHANGED vars PROVE pool' = pool
  <2>1. rows' = rows /\ posVect' = posVect /\ endVect' = endVect /\ pc' = pc
    BY <1>5 DEF vars
  <2> QED BY <2>1 DEF OpenLeaves
<1>6. CASE \E e \in Explorer : Step(e)
  BY <1>3, <1>6 DEF Pool!Next
<1>7. CASE \E v, t \in Explorer : shareWork(v, t)
  BY <1>4, <1>7 DEF Pool!Next
<1> QED BY <1>5, <1>6, <1>7 DEF Next, Finished

\* Intervals, flags and cuts implement the pool of work: an explorer's own steps
\* only take leaves out of its part, and sharing moves leaves from a victim to a
\* thief that has none, so that no leaf is ever lost to, or visited by, two.
THEOREM Refinement == Spec => ImplementsPool
<1>1. Init => Pool!Init
  BY PoolInit
<1>2. /\ IInv /\ IInv' /\ IntervalInv /\ IntervalInv' /\ [Next]_vars
      => [Pool!Next]_<<[e \in Explorer |-> IF pc[e] = "root" THEN Leaf ELSE OpenLeaves(e)], FALSE>>
  BY PoolStep
<1> QED
  BY <1>1, <1>2, Invariant, IntervalsKept, PTL DEF Spec, ImplementsPool, Pool!Spec, Pool!poolVars

-----------------------------------------------------------------------------
(* What is evaluated: the invariant *)

\* A schedule has the jobs that a stack points at in its first n rows.
Led(s, pos, n, x) == \A k \in 1 .. n : x[Slot(s, k)] = PointedJob(s, pos, k)

\* The first column of row r that is still to be explored: the rows above the
\* current one are being explored below the column they point at.
FirstAhead(s, pos, r) == IF r < Len(s) THEN pos[r - 1] + 1 ELSE pos[r - 1]

\* The open jobs of row r from there to the end of the interval.
Coming(s, pos, last, r) ==
  {s[r].jobs[c] : c \in {i \in 0 .. size - r : FirstAhead(s, pos, r) <= i /\ i <= last[r - 1]}}

\* A schedule leaves the path of the stack in row r, at an open job.
LeavesAt(s, pos, last, r, x) ==
  Led(s, pos, r - 1, x) /\ x[Slot(s, r)] \in Coming(s, pos, last, r)

\* The schedules that an explorer with a stack and an interval will reach, unless
\* they are cut off.
Ahead(s, pos, last) ==
  {x \in Schedule : \E r \in 1 .. Len(s) : LeavesAt(s, pos, last, r, x)}

Todo(e) == IF pc[e] = "root" THEN Schedule
           ELSE IF pc[e] = "empty" THEN {} ELSE Ahead(rows[e], posVect[e], endVect[e])

Types ==
  /\ cost \in Costs /\ best \in Nat
  /\ local_best \in [Explorer -> Nat] /\ visited \in [Schedule -> Nat]

\* A schedule that need not be evaluated any more.
Settled(x) == best <= cost[x] /\ (findAll => visited[x] > 0 \/ cost[x] > best)

\* No schedule is ahead of two explorers, or ahead of one and evaluated; what is
\* ahead of nobody is settled; and nobody knows a better cost than the shared one.
Apart == \A e, f \in Explorer : e # f => Todo(e) \cap Todo(f) = {}
Once == \A x \in Schedule : visited[x] <= 1 /\ (visited[x] = 1 => \A e \in Explorer : x \notin Todo(e))
Covered == \A x \in Schedule : (\E e \in Explorer : x \in Todo(e)) \/ Settled(x)
BestKnown == \A e \in Explorer : best <= local_best[e]
SearchInv == Types /\ Apart /\ Once /\ Covered /\ BestKnown

-----------------------------------------------------------------------------
(* The places that rows fill *)

\* The first n rows have directions and are no more than the jobs.
Directed(s, n) == n \in Nat /\ n <= size /\ \A r \in 1 .. n : s[r].dir \in {FRONT, BACK}

\* Each row counts for its direction.
LEMMA FilledRow ==
  ASSUME NEW s, NEW r \in Nat \ {0}, NEW d
  PROVE  /\ Filled(s, r, d) \in Nat /\ Filled(s, r - 1, d) \in Nat
         /\ s[r].dir = d => Filled(s, r, d) = Filled(s, r - 1, d) + 1
         /\ s[r].dir # d => Filled(s, r, d) = Filled(s, r - 1, d)
<1> DEFINE K(n) == {k \in 1 .. n : s[k].dir = d}
<1>1. \A n \in Nat : IsFiniteSet(K(n)) /\ Cardinality(K(n)) \in Nat
  <2> TAKE n \in Nat
  <2>1. IsFiniteSet(1 .. n) /\ K(n) \in SUBSET (1 .. n)
    BY FS_Interval
  <2> QED BY <2>1, FS_Subset, FS_CardinalityType
<1>2. 1 .. r = (1 .. r - 1) \cup {r} /\ r \notin 1 .. r - 1 /\ r - 1 \in Nat
  OBVIOUS
<1>3. s[r].dir = d => K(r) = K(r - 1) \cup {r} /\ r \notin K(r - 1)
  BY <1>2
<1>4. s[r].dir # d => K(r) = K(r - 1)
  BY <1>2
<1> HIDE DEF K
<1>5. s[r].dir = d => Cardinality(K(r)) = Cardinality(K(r - 1)) + 1
  BY <1>1, <1>2, <1>3, FS_AddElement
<1>6. Filled(s, r, d) = Cardinality(K(r)) /\ Filled(s, r - 1, d) = Cardinality(K(r - 1))
  BY DEF Filled, K
<1> QED BY <1>1, <1>2, <1>4, <1>5, <1>6

\* The counts do not fall.
LEMMA FilledGrows ==
  ASSUME NEW s, NEW q \in Nat, NEW r \in Nat, q <= r, NEW d
  PROVE  Filled(s, q, d) \in Nat /\ Filled(s, r, d) \in Nat /\ Filled(s, q, d) <= Filled(s, r, d)
<1> DEFINE Q == {k \in 1 .. q : s[k].dir = d}
           R == {k \in 1 .. r : s[k].dir = d}
<1>1. IsFiniteSet(1 .. r) /\ R \in SUBSET (1 .. r) /\ Q \in SUBSET R
  BY FS_Interval
<1>2. IsFiniteSet(R) /\ Q \in SUBSET R
  BY <1>1, FS_Subset
<1> HIDE DEF Q, R
<1>3. IsFiniteSet(Q) /\ Cardinality(Q) <= Cardinality(R)
  BY <1>2, FS_Subset
<1>4. Cardinality(Q) \in Nat /\ Cardinality(R) \in Nat
  BY <1>2, <1>3, FS_CardinalityType
<1> QED BY <1>3, <1>4 DEF Filled, Q, R

\* Every row counts once.
LEMMA FilledAll ==
  ASSUME NEW s, NEW n, Directed(s, n)
  PROVE  Filled(s, n, FRONT) + Filled(s, n, BACK) = n
<1> DEFINE F == {k \in 1 .. n : s[k].dir = FRONT}
           B == {k \in 1 .. n : s[k].dir = BACK}
<1>1. n \in Nat /\ IsFiniteSet(1 .. n) /\ Cardinality(1 .. n) = n
  BY FS_Interval DEF Directed
<1>2. F \in SUBSET (1 .. n) /\ B \in SUBSET (1 .. n) /\ F \cup B = 1 .. n /\ F \cap B = {}
  BY DEF Directed, FRONT, BACK
<1> HIDE DEF F, B
<1>3. IsFiniteSet(F) /\ IsFiniteSet(B)
  BY <1>1, <1>2, FS_Subset
<1>4. Cardinality(F) \in Nat /\ Cardinality(B) \in Nat
  BY <1>3, FS_CardinalityType
<1>5. n = Cardinality(F) + Cardinality(B) - 0
  BY <1>1, <1>2, <1>3, FS_Union, FS_EmptySet
<1>6. Filled(s, n, FRONT) = Cardinality(F) /\ Filled(s, n, BACK) = Cardinality(B)
  BY DEF Filled, F, B
<1> QED BY <1>4, <1>5, <1>6

\* Rows fill places of the schedule, each another one.
LEMMA SlotsApart ==
  ASSUME NEW s, NEW n, Directed(s, n), NEW q \in 1 .. n, NEW r \in 1 .. n
  PROVE  Slot(s, r) \in 1 .. size /\ (q # r => Slot(s, q) # Slot(s, r))
<1> DEFINE F(k) == Filled(s, k, FRONT)
           B(k) == Filled(s, k, BACK)
<1>0. n \in Nat /\ n <= size /\ size \in Nat /\ FRONT # BACK
  BY Lines DEF Directed, FRONT, BACK
<1>1. F(n) + B(n) = n
  BY FilledAll
<1>2. ASSUME NEW k \in 1 .. n
      PROVE  /\ F(k) \in Nat /\ B(k) \in Nat /\ F(k - 1) \in Nat /\ B(k - 1) \in Nat
             /\ F(k) <= F(n) /\ B(k) <= B(n) /\ F(n) \in Nat /\ B(n) \in Nat
             /\ \/ s[k].dir = FRONT /\ F(k) = F(k - 1) + 1 /\ Slot(s, k) = F(k)
                \/ s[k].dir = BACK /\ B(k) = B(k - 1) + 1 /\ Slot(s, k) = size + 1 - B(k)
  <2>1. k \in Nat \ {0} /\ k <= n
    BY <1>0
  <2>2. s[k].dir = FRONT \/ s[k].dir = BACK
    BY DEF Directed
  <2>3. /\ F(k) \in Nat /\ B(k) \in Nat /\ F(k - 1) \in Nat /\ B(k - 1) \in Nat
        /\ s[k].dir = FRONT => F(k) = F(k - 1) + 1
        /\ s[k].dir = BACK => B(k) = B(k - 1) + 1
    BY <2>1, FilledRow
  <2>4. F(k) <= F(n) /\ B(k) <= B(n) /\ F(n) \in Nat /\ B(n) \in Nat
    BY <1>0, <2>1, FilledGrows
  <2>5. /\ s[k].dir = FRONT => Slot(s, k) = F(k)
        /\ s[k].dir = BACK => Slot(s, k) = size + 1 - B(k)
    BY <1>0 DEF Slot
  <2> HIDE DEF F, B
  <2> QED BY <2>2, <2>3, <2>4, <2>5
<1>3. ASSUME NEW i \in 1 .. n, NEW k \in 1 .. n, i < k
      PROVE  F(i) <= F(k - 1) /\ B(i) <= B(k - 1)
  <2>1. i \in Nat /\ k - 1 \in Nat /\ i <= k - 1
    BY <1>0, <1>3
  <2> QED BY <2>1, FilledGrows
<1> HIDE DEF F, B
<1>4. ASSUME NEW i \in 1 .. n, NEW k \in 1 .. n, i < k PROVE Slot(s, i) # Slot(s, k)
  BY <1>0, <1>1, <1>2, <1>3, <1>4
<1>5. Slot(s, r) \in 1 .. size
  BY <1>0, <1>1, <1>2
<1>6. q < r \/ q = r \/ r < q
  BY <1>0
<1> QED BY <1>4, <1>5, <1>6

\* Places depend on directions only.
LEMMA SlotSame ==
  ASSUME NEW s, NEW t, NEW r \in Nat \ {0}, \A k \in 1 .. r : t[k].dir = s[k].dir
  PROVE  Slot(t, r) = Slot(s, r)
<1>1. \A d : {k \in 1 .. r : t[k].dir = d} = {k \in 1 .. r : s[k].dir = d}
  OBVIOUS
<1>2. \A d : Filled(t, r, d) = Filled(s, r, d)
  BY <1>1 DEF Filled
<1>3. t[r].dir = s[r].dir
  OBVIOUS
<1> QED BY <1>2, <1>3 DEF Slot

\* A row that is added fills the next place.
LEMMA SlotNext ==
  ASSUME NEW s, NEW t, NEW n \in Nat, Len(s) = n,
         \A k \in 1 .. n : t[k].dir = s[k].dir, t[n + 1].dir \in {FRONT, BACK}
  PROVE  Slot(t, n + 1) = NextSlot(s, t[n + 1].dir)
<1>1. \A d : {k \in 1 .. n : t[k].dir = d} = {k \in 1 .. n : s[k].dir = d}
  OBVIOUS
<1>2. \A d : Filled(t, n, d) = Filled(s, n, d)
  BY <1>1 DEF Filled
<1>3. PICK m \in Nat \ {0} : m = n + 1 /\ m - 1 = n
  OBVIOUS
<1>4. /\ Filled(t, n, FRONT) \in Nat /\ Filled(t, n, BACK) \in Nat
      /\ t[n + 1].dir = FRONT => Filled(t, n + 1, FRONT) = Filled(t, n, FRONT) + 1
      /\ t[n + 1].dir = BACK => Filled(t, n + 1, BACK) = Filled(t, n, BACK) + 1
  <2>1. /\ Filled(t, m - 1, FRONT) \in Nat /\ Filled(t, m - 1, BACK) \in Nat
        /\ t[m].dir = FRONT => Filled(t, m, FRONT) = Filled(t, m - 1, FRONT) + 1
        /\ t[m].dir = BACK => Filled(t, m, BACK) = Filled(t, m - 1, BACK) + 1
    BY FilledRow
  <2> QED BY <1>3, <2>1
<1>5. FRONT # BACK /\ size \in Nat
  BY Lines DEF FRONT, BACK
<1>6. CASE t[n + 1].dir = FRONT
  BY <1>2, <1>4, <1>6 DEF Slot, NextSlot
<1>7. CASE t[n + 1].dir = BACK
  BY <1>2, <1>4, <1>5, <1>7 DEF Slot, NextSlot
<1> QED BY <1>6, <1>7

\* The rows of a matrix have directions.
LEMMA StackDirected ==
  ASSUME NEW s, NEW pos, StackOK(s, pos)
  PROVE  /\ Directed(s, Len(s)) /\ Len(s) \in Nat /\ Len(s) <= size
         /\ \A r \in 1 .. Len(s) : Directed(s, r) /\ s[r] \in AnyRow
<1>1. s \in Seq(AnyRow) /\ Len(s) \in Nat /\ Len(s) <= size
  BY LenProperties DEF StackOK
<1>2. \A r \in 1 .. Len(s) : s[r] \in AnyRow
  BY <1>1, ElementOfSeq
<1>3. \A r \in 1 .. Len(s) : s[r].dir \in {FRONT, BACK}
  BY <1>2 DEF AnyRow
<1>4. Directed(s, Len(s))
  BY <1>1, <1>3 DEF Directed
<1>5. ASSUME NEW r \in 1 .. Len(s) PROVE Directed(s, r)
  <2>1. r \in Nat /\ r <= size /\ \A k \in 1 .. r : k \in 1 .. Len(s)
    BY <1>1, Lines
  <2> QED BY <1>3, <2>1 DEF Directed
<1> QED BY <1>1, <1>2, <1>4, <1>5

-----------------------------------------------------------------------------
(* What is ahead *)

\* A schedule has a different job in every place.
LEMMA Schedules ==
  ASSUME NEW x \in Schedule
  PROVE  /\ x \in [1 .. size -> Job] /\ \A i \in 1 .. size : x[i] \in Job /\ x[i] >= 0
         /\ \A i, j \in 1 .. size : x[i] = x[j] => i = j
<1>1. x \in [1 .. size -> Job] /\ \A i, j \in 1 .. size : x[i] = x[j] => i = j
  BY DEF Schedule, IsInjective
<1>2. \A j \in Job : j >= 0
  BY Lines
<1> QED BY <1>1, <1>2

\* A schedule that follows the stack down to a row has one of the row's jobs there.
LEMMA LedToRow ==
  ASSUME NEW s, NEW pos, StackOK(s, pos), NEW r \in 1 .. Len(s),
         NEW x \in Schedule, Led(s, pos, r - 1, x)
  PROVE  \E c \in 0 .. size - r : absolute(s[r].jobs[c]) = x[Slot(s, r)]
<1>1. Directed(s, Len(s)) /\ Len(s) \in Nat
  BY StackDirected
<1>2. Slot(s, r) \in 1 .. size /\ x[Slot(s, r)] \in Job
  BY <1>1, SlotsApart, Schedules
<1>3. ASSUME NEW k \in 1 .. r - 1 PROVE absolute(s[k].jobs[pos[k - 1]]) # x[Slot(s, r)]
  <2>1. k \in 1 .. Len(s) /\ k # r
    BY <1>1
  <2>2. Slot(s, k) \in 1 .. size /\ Slot(s, k) # Slot(s, r)
    BY <1>1, <2>1, SlotsApart
  <2>3. x[Slot(s, k)] = absolute(s[k].jobs[pos[k - 1]])
    BY DEF Led, PointedJob
  <2> QED BY <1>2, <2>2, <2>3, Schedules
<1>4. x[Slot(s, r)] \in JobsOf(s[r].jobs)
  <2>1. x[Slot(s, r)] \notin Pointed(s, pos, r)
    BY <1>3 DEF Pointed
  <2> QED BY <1>2, <2>1 DEF StackOK
<1>5. DOMAIN s[r].jobs = 0 .. size - r
  BY DEF StackOK, RowOK
<1> QED BY <1>4, <1>5 DEF JobsOf

\* The cells of a row: numbers that hide different jobs.
LEMMA RowCells ==
  ASSUME NEW s, NEW pos, StackOK(s, pos), NEW r \in 1 .. Len(s), NEW c \in 0 .. size - r
  PROVE  /\ s[r].jobs[c] \in Int /\ absolute(s[r].jobs[c]) \in Job
         /\ s[r].jobs[c] \in Job <=> s[r].jobs[c] >= 0
         /\ s[r].jobs[c] >= 0 => absolute(s[r].jobs[c]) = s[r].jobs[c]
         /\ \A i \in 0 .. size - r : absolute(s[r].jobs[i]) = absolute(s[r].jobs[c]) => i = c
<1>1. RowOK(s[r].jobs, size - r)
  BY DEF StackOK
<1>2. s[r].jobs[c] \in Cells
  BY <1>1 DEF RowOK
<1>3. s[r].jobs[c] \in Int /\ (s[r].jobs[c] \in Job <=> s[r].jobs[c] >= 0)
  BY <1>2, Lines DEF Cells
<1> QED BY <1>1, <1>2, <1>3, Flags DEF RowOK

\* Two stacks lead to row r the same way.
SameWay(s, pos, t, new, r) ==
  /\ r \in Nat \ {0} /\ \A k \in 1 .. r : t[k].dir = s[k].dir
  /\ \A k \in 1 .. r - 1 : PointedJob(t, new, k) = PointedJob(s, pos, k)

\* Two rows have the same open jobs.
SameJobs(A, B) == \A j \in Job : j \in A <=> j \in B

\* Schedules leave both stacks in that row alike.
LEMMA LeaveSame ==
  ASSUME NEW s, NEW pos, NEW t, NEW new, NEW r, SameWay(s, pos, t, new, r), NEW last, NEW end,
         SameJobs(Coming(s, pos, last, r), Coming(t, new, end, r)),
         Slot(s, r) \in 1 .. size, NEW x \in Schedule
  PROVE  LeavesAt(t, new, end, r, x) <=> LeavesAt(s, pos, last, r, x)
<1>1. /\ r \in Nat \ {0} /\ \A k \in 1 .. r : t[k].dir = s[k].dir
      /\ \A k \in 1 .. r - 1 : PointedJob(t, new, k) = PointedJob(s, pos, k)
  BY DEF SameWay
<1>2. \A k \in 1 .. r : Slot(t, k) = Slot(s, k)
  <2> TAKE k \in 1 .. r
  <2>1. k \in Nat \ {0} /\ \A i \in 1 .. k : t[i].dir = s[i].dir
    BY <1>1
  <2> QED BY <2>1, SlotSame
<1>3. Slot(t, r) = Slot(s, r) /\ \A k \in 1 .. r - 1 : Slot(t, k) = Slot(s, k)
  BY <1>1, <1>2
<1>4. Led(t, new, r - 1, x) <=> Led(s, pos, r - 1, x)
  BY <1>1, <1>3 DEF Led
<1>5. x[Slot(s, r)] \in Job
  BY Schedules
<1> QED BY <1>3, <1>4, <1>5 DEF LeavesAt, SameJobs

\* Skipping a flagged cell changes nothing.
LEMMA AheadRight ==
  ASSUME NEW s, NEW pos \in [Line -> Nat], NEW last \in [Line -> Nat], NEW t,
         NEW new \in [Line -> Nat], NEW l, Right(s, pos, t, new, l), StackOK(s, pos)
  PROVE  Ahead(t, new, last) = Ahead(s, pos, last)
<1>1. /\ l \in Line /\ l \in Nat /\ Len(s) = l + 1 /\ t = s /\ pos[l] < size - l
      /\ s[l + 1].jobs[pos[l]] < 0
      /\ \A i \in Line : new[i] = IF i = l THEN pos[l] + 1 ELSE pos[i]
      /\ \A i \in Line : pos[i] \in Nat
  BY Lines DEF Right, Advanced
<1>2. ASSUME NEW r \in 1 .. l + 1
      PROVE  SameWay(s, pos, t, new, r) /\ Slot(s, r) \in 1 .. size
  <2>1. \A k \in 1 .. r - 1 : k - 1 \in Line /\ k - 1 # l
    BY <1>1, Lines
  <2>2. \A k \in 1 .. r - 1 : PointedJob(t, new, k) = PointedJob(s, pos, k)
    BY <1>1, <2>1 DEF PointedJob
  <2>3. r \in Nat \ {0}
    BY <1>1
  <2>4. Slot(s, r) \in 1 .. size
    BY <1>1, StackDirected, SlotsApart
  <2> QED BY <1>1, <2>2, <2>3, <2>4 DEF SameWay
<1>3. ASSUME NEW r \in 1 .. l + 1
      PROVE  SameJobs(Coming(s, pos, last, r), Coming(t, new, last, r))
  <2>1. CASE r < l + 1
    <3>1. r - 1 \in Line /\ r - 1 # l
      BY <1>1, <2>1, Lines
    <3> QED BY <1>1, <2>1, <3>1 DEF SameJobs, Coming, FirstAhead
  <2>2. CASE r = l + 1
    <3>1. FirstAhead(s, pos, r) = pos[l] /\ FirstAhead(t, new, r) = pos[l] + 1 /\ r - 1 = l
      BY <1>1, <2>2 DEF FirstAhead
    <3>2. s[r].jobs[pos[l]] \notin Job
      BY <1>1, <2>2, Lines
    <3>3. ASSUME NEW j \in Job, NEW c \in 0 .. size - r, s[r].jobs[c] = j
          PROVE  pos[l] <= c <=> pos[l] + 1 <= c
      <4>1. c # pos[l] /\ pos[l] \in Nat
        BY <1>1, <3>2, <3>3
      <4> QED BY <4>1
    <3> QED BY <1>1, <3>1, <3>3 DEF SameJobs, Coming
  <2> QED BY <1>1, <2>1, <2>2
<1>4. ASSUME NEW x \in Schedule, NEW r \in 1 .. l + 1
      PROVE  LeavesAt(t, new, last, r, x) <=> LeavesAt(s, pos, last, r, x)
  BY <1>2, <1>3, LeaveSame
<1> QED BY <1>1, <1>4 DEF Ahead

\* Backtracking changes nothing: the row that is left has no column to come.
LEMMA AheadUp ==
  ASSUME NEW s, NEW pos \in [Line -> Nat], NEW last \in [Line -> Nat], NEW t,
         NEW new \in [Line -> Nat], NEW l, Up(s, pos, t, new, l), StackOK(s, pos)
  PROVE  Ahead(t, new, last) = Ahead(s, pos, last)
<1>0. /\ l \in Nat /\ l > 0 /\ l < size /\ size \in Nat /\ Line = 0 .. size - 1
      /\ Len(s) = l + 1 /\ Len(t) = l
  BY Lines DEF Up
<1>1. /\ l \in Line /\ l \in Nat /\ l > 0 /\ l < size /\ size \in Nat
      /\ Len(s) = l + 1 /\ Len(t) = l /\ pos[l] >= size - l
      /\ \A i \in Line : new[i] = IF i = l THEN 0 ELSE pos[i]
      /\ \A i \in Line : pos[i] \in Nat
      /\ \A r \in 1 .. l :
           /\ t[r].dir = s[r].dir
           /\ \A i \in 0 .. size - r :
                t[r].jobs[i] = IF r = l /\ i = pos[l - 1] THEN negative(s[r].jobs[i])
                                                          ELSE s[r].jobs[i]
  BY Lines DEF Up, Restarted
<1>2. \A r \in 1 .. l : pos[r - 1] \in 0 .. size - r /\ r \in 1 .. Len(s)
  <2>1. Len(s) - 1 = l /\ \A r \in 1 .. l : r \in 1 .. Len(s)
    BY <1>0
  <2> QED BY <2>1 DEF StackOK
<1>3. ASSUME NEW r \in 1 .. l
      PROVE  SameWay(s, pos, t, new, r) /\ Slot(s, r) \in 1 .. size
  <2>1. \A k \in 1 .. r - 1 : k - 1 \in Line /\ k - 1 # l /\ k \in 1 .. l /\ k # l
    BY <1>0
  <2>2. ASSUME NEW k \in 1 .. r - 1 PROVE t[k].jobs[new[k - 1]] = s[k].jobs[pos[k - 1]]
    <3>1. new[k - 1] = pos[k - 1] /\ pos[k - 1] \in 0 .. size - k /\ k \in 1 .. l /\ k # l
      BY <1>1, <1>2, <2>1
    <3> QED BY <1>1, <3>1
  <2>3. \A k \in 1 .. r - 1 : PointedJob(t, new, k) = PointedJob(s, pos, k)
    BY <2>2 DEF PointedJob
  <2>4. r \in Nat \ {0} /\ \A k \in 1 .. r : t[k].dir = s[k].dir
    BY <1>1
  <2>5. Slot(s, r) \in 1 .. size
    BY <1>1, StackDirected, SlotsApart
  <2> QED BY <2>3, <2>4, <2>5 DEF SameWay
<1>4. ASSUME NEW r \in 1 .. l
      PROVE  SameJobs(Coming(s, pos, last, r), Coming(t, new, last, r))
  <2>0. r - 1 \in Line /\ r - 1 # l /\ new[r - 1] = pos[r - 1] /\ pos[r - 1] \in Nat
        /\ FirstAhead(s, pos, r) = pos[r - 1] + 1
    <3>1. r - 1 \in Line /\ r - 1 # l /\ r < Len(s)
      BY <1>0
    <3> QED BY <1>1, <3>1 DEF FirstAhead
  <2>1. CASE r < l
    <3>1. FirstAhead(t, new, r) = FirstAhead(s, pos, r) /\ r # l
      BY <1>1, <2>0, <2>1 DEF FirstAhead
    <3>2. \A i \in 0 .. size - r : t[r].jobs[i] = s[r].jobs[i]
      BY <1>1, <3>1
    <3> QED BY <3>1, <3>2 DEF SameJobs, Coming
  <2>2. CASE r = l
    <3>1. FirstAhead(t, new, r) = pos[r - 1]
      BY <1>1, <2>0, <2>2 DEF FirstAhead
    <3>2. t[r].jobs[pos[r - 1]] \notin Job
      <4>1. t[r].jobs[pos[r - 1]] = negative(s[r].jobs[pos[r - 1]])
        BY <1>1, <1>2, <2>2
      <4>2. s[r].jobs[pos[r - 1]] \in Int
        <5>1. r \in 1 .. Len(s) /\ pos[r - 1] \in 0 .. size - r
          BY <1>2
        <5> QED BY <5>1, RowCells
      <4>3. negative(s[r].jobs[pos[r - 1]]) < 0
        BY <4>2 DEF negative
      <4> QED BY <4>1, <4>3, Lines
    <3>3. \A i \in 0 .. size - r : i # pos[r - 1] => t[r].jobs[i] = s[r].jobs[i]
      BY <1>1, <2>2
    <3>4. ASSUME NEW j \in Job, NEW i \in 0 .. size - r
          PROVE  (pos[r - 1] + 1 <= i /\ s[r].jobs[i] = j) <=> (pos[r - 1] <= i /\ t[r].jobs[i] = j)
      <4>1. CASE i = pos[r - 1]
        BY <2>0, <3>2, <4>1
      <4>2. CASE i # pos[r - 1]
        BY <2>0, <3>3, <4>2
      <4> QED BY <4>1, <4>2
    <3> QED BY <2>0, <3>1, <3>4 DEF SameJobs, Coming
  <2> QED BY <1>1, <2>1, <2>2
<1>5. ASSUME NEW x \in Schedule, NEW r \in 1 .. l
      PROVE  LeavesAt(t, new, last, r, x) <=> LeavesAt(s, pos, last, r, x)
  BY <1>3, <1>4, LeaveSame
<1>6. ASSUME NEW x PROVE ~LeavesAt(s, pos, last, l + 1, x)
  <2>1. FirstAhead(s, pos, l + 1) = pos[l] /\ pos[l] \in Nat
    BY <1>1 DEF FirstAhead
  <2>2. Coming(s, pos, last, l + 1) = {}
    BY <1>1, <2>1 DEF Coming
  <2> QED BY <2>2 DEF LeavesAt
<1>7. 1 .. l + 1 = (1 .. l) \cup {l + 1}
  BY <1>1
<1> QED BY <1>1, <1>5, <1>6, <1>7 DEF Ahead

\* A row that is added loses only the schedules of the jobs flagged in it.
LEMMA AheadDown ==
  ASSUME NEW s, NEW pos \in [Line -> Nat], NEW last \in [Line -> Nat], NEW t,
         NEW new \in [Line -> Nat], NEW l, Down(s, pos, t, new, l),
         StackOK(s, pos), StackOK(t, new), pos[l] <= last[l], last[l + 1] = size - l - 2
  PROVE  /\ Ahead(t, new, last) \subseteq Ahead(s, pos, last)
         /\ \A x \in Ahead(s, pos, last) \ Ahead(t, new, last) :
              /\ x \in Completions(s, pos)
              /\ \E c \in 0 .. size - l - 2 :
                   /\ t[l + 2].jobs[c] < 0
                   /\ x[NextSlot(s, t[l + 2].dir)] = absolute(t[l + 2].jobs[c])
         /\ \A x \in Schedule : Led(s, pos, l + 1, x) =>
              x \in Ahead(s, pos, last) /\ Led(t, new, l + 1, x)
<1>0. l \in Nat /\ l + 1 < size /\ size \in Nat /\ Line = 0 .. size - 1
  <2>1. l \in Line /\ l + 1 \in Line
    BY DEF Down
  <2> QED BY <2>1, Lines
<1>1. /\ l \in Line /\ l \in Nat /\ l + 1 \in Line /\ size \in Nat
      /\ Len(s) = l + 1 /\ Len(t) = l + 2 /\ pos[l] < size - l
      /\ s[l + 1].jobs[pos[l]] >= 0
      /\ \A i \in Line : new[i] = IF i = l + 1 THEN 0 ELSE pos[i]
      /\ \A i \in Line : pos[i] \in Nat
      /\ \A r \in 1 .. l + 1 : t[r] = s[r]
  BY Lines DEF Down, Restarted
<1>2. ASSUME NEW k \in 1 .. l + 1
      PROVE  /\ k - 1 \in Line /\ new[k - 1] = pos[k - 1] /\ t[k] = s[k]
             /\ PointedJob(t, new, k) = PointedJob(s, pos, k)
             /\ Slot(s, k) \in 1 .. size /\ Slot(t, k) = Slot(s, k)
  <2>1. k - 1 \in Line /\ k - 1 # l + 1 /\ k \in Nat \ {0} /\ \A i \in 1 .. k : i \in 1 .. l + 1
    BY <1>0
  <2>2. new[k - 1] = pos[k - 1] /\ t[k] = s[k]
    BY <1>1, <2>1
  <2>3. Slot(s, k) \in 1 .. size
    BY <1>1, StackDirected, SlotsApart
  <2>4. Slot(t, k) = Slot(s, k)
    <3>1. \A i \in 1 .. k : t[i].dir = s[i].dir
      BY <1>1, <2>1
    <3> QED BY <2>1, <3>1, SlotSame
  <2> QED BY <2>1, <2>2, <2>3, <2>4 DEF PointedJob
<1>3. \A x : \A r \in 0 .. l + 1 : Led(t, new, r, x) <=> Led(s, pos, r, x)
  <2>1. \A r \in 0 .. l + 1 : \A k \in 1 .. r : k \in 1 .. l + 1
    BY <1>1
  <2> QED BY <1>2, <2>1 DEF Led
<1>4. ASSUME NEW x, NEW r \in 1 .. l
      PROVE  LeavesAt(t, new, last, r, x) <=> LeavesAt(s, pos, last, r, x)
  <2>1. r \in 1 .. l + 1 /\ r - 1 \in 0 .. l + 1 /\ r < Len(s) /\ r < Len(t)
    BY <1>1
  <2>2. FirstAhead(t, new, r) = FirstAhead(s, pos, r)
    BY <1>2, <2>1 DEF FirstAhead
  <2>3. Coming(t, new, last, r) = Coming(s, pos, last, r)
    BY <1>2, <2>1, <2>2 DEF Coming
  <2> QED BY <1>2, <1>3, <2>1, <2>3 DEF LeavesAt
<1>5. /\ l + 1 \in 1 .. l + 1 /\ l + 1 \in 0 .. l + 1 /\ l + 1 - 1 = l /\ l \in 0 .. l + 1
      /\ l + 2 \in 1 .. l + 2 /\ l + 2 - 1 = l + 1 /\ size - (l + 2) = size - l - 2
      /\ pos[l] \in 0 .. size - (l + 1)
  BY <1>1
<1>6. /\ FirstAhead(s, pos, l + 1) = pos[l] /\ FirstAhead(t, new, l + 1) = pos[l] + 1
      /\ FirstAhead(t, new, l + 2) = 0
  <2>1. new[l] = pos[l] /\ new[l + 1] = 0 /\ ~(l + 1 < Len(s)) /\ l + 1 < Len(t) /\ ~(l + 2 < Len(t))
    BY <1>1
  <2> QED BY <1>1, <1>5, <2>1 DEF FirstAhead
<1>7. PointedJob(s, pos, l + 1) = s[l + 1].jobs[pos[l]]
  <2>1. absolute(s[l + 1].jobs[pos[l]]) = s[l + 1].jobs[pos[l]]
    BY <1>1 DEF absolute
  <2> QED BY <1>5, <2>1 DEF PointedJob
<1>8. Coming(s, pos, last, l + 1) = Coming(t, new, last, l + 1) \cup {s[l + 1].jobs[pos[l]]}
  <2> DEFINE A == {i \in 0 .. size - (l + 1) : pos[l] <= i /\ i <= last[l]}
             B == {i \in 0 .. size - (l + 1) : pos[l] + 1 <= i /\ i <= last[l]}
  <2>1. A = B \cup {pos[l]}
    BY <1>1, <1>5
  <2>2. Coming(s, pos, last, l + 1) = {s[l + 1].jobs[c] : c \in A}
    BY <1>5, <1>6 DEF Coming
  <2>3. Coming(t, new, last, l + 1) = {s[l + 1].jobs[c] : c \in B}
    BY <1>1, <1>5, <1>6 DEF Coming
  <2> HIDE DEF A, B
  <2> QED BY <2>1, <2>2, <2>3
<1>9. ASSUME NEW x
      PROVE  LeavesAt(s, pos, last, l + 1, x) <=>
               LeavesAt(t, new, last, l + 1, x) \/ Led(s, pos, l + 1, x)
  <2>1. Led(s, pos, l + 1, x) <=> Led(s, pos, l, x) /\ x[Slot(s, l + 1)] = s[l + 1].jobs[pos[l]]
    <3>1. 1 .. l + 1 = (1 .. l) \cup {l + 1}
      BY <1>1
    <3> QED BY <1>7, <3>1 DEF Led
  <2>2. LeavesAt(t, new, last, l + 1, x)
          <=> Led(s, pos, l, x) /\ x[Slot(s, l + 1)] \in Coming(t, new, last, l + 1)
    BY <1>2, <1>3, <1>5 DEF LeavesAt
  <2>3. LeavesAt(s, pos, last, l + 1, x)
          <=> Led(s, pos, l, x) /\ x[Slot(s, l + 1)] \in Coming(s, pos, last, l + 1)
    BY <1>5 DEF LeavesAt
  <2> QED BY <1>8, <2>1, <2>2, <2>3
<1>10. ASSUME NEW x, LeavesAt(t, new, last, l + 2, x) PROVE Led(s, pos, l + 1, x)
  BY <1>3, <1>5, <1>10 DEF LeavesAt
<1>11. 1 .. Len(t) = (1 .. l) \cup {l + 1, l + 2} /\ 1 .. Len(s) = (1 .. l) \cup {l + 1}
  BY <1>1
<1>12. Ahead(t, new, last) \subseteq Ahead(s, pos, last)
  BY <1>4, <1>9, <1>10, <1>11 DEF Ahead
<1>13. ASSUME NEW x \in Ahead(s, pos, last), x \notin Ahead(t, new, last)
       PROVE  /\ x \in Completions(s, pos)
              /\ \E c \in 0 .. size - l - 2 :
                   /\ t[l + 2].jobs[c] < 0
                   /\ x[NextSlot(s, t[l + 2].dir)] = absolute(t[l + 2].jobs[c])
  <2>1. x \in Schedule /\ Led(s, pos, l + 1, x)
    BY <1>4, <1>9, <1>11, <1>13 DEF Ahead
  <2>2. x \in Completions(s, pos)
    <3>1. s \in Seq(AnyRow) /\ DOMAIN s = 1 .. Len(s)
      BY LenProperties DEF StackOK
    <3> QED BY <1>1, <2>1, <3>1 DEF Completions, Led
  <2>3. Led(t, new, l + 1, x)
    BY <1>3, <1>5, <2>1
  <2>4. PICK c \in 0 .. size - (l + 2) : absolute(t[l + 2].jobs[c]) = x[Slot(t, l + 2)]
    BY <1>1, <1>5, <2>1, <2>3, LedToRow
  <2>5. t[l + 2].jobs[c] < 0
    <3> SUFFICES ASSUME ~(t[l + 2].jobs[c] < 0) PROVE FALSE
      OBVIOUS
    <3>0. PICK r \in 1 .. Len(t) : r = l + 2 /\ c \in 0 .. size - r
      BY <1>1
    <3>1. t[r].jobs[c] = x[Slot(t, r)]
      BY <2>4, <3>0, RowCells
    <3>2. FirstAhead(t, new, r) <= c /\ c <= last[r - 1]
      <4>1. r - 1 = l + 1 /\ r = l + 2
        BY <1>0, <3>0
      <4>2. FirstAhead(t, new, r) = 0 /\ last[r - 1] = size - l - 2
        BY <1>6, <4>1
      <4> QED BY <1>0, <3>0, <4>1, <4>2
    <3>3. x[Slot(t, l + 2)] \in Coming(t, new, last, l + 2)
      BY <3>0, <3>1, <3>2 DEF Coming
    <3>4. LeavesAt(t, new, last, l + 2, x)
      BY <1>5, <2>3, <3>3 DEF LeavesAt
    <3> QED BY <1>11, <1>13, <2>1, <3>4 DEF Ahead
  <2>6. Slot(t, l + 2) = NextSlot(s, t[l + 2].dir)
    <3>1. t[l + 2].dir \in {FRONT, BACK}
      BY <1>1, <1>5, StackDirected DEF Directed
    <3>2. PICK n \in Nat : n = l + 1 /\ n + 1 = l + 2 /\ Len(s) = n
      BY <1>1
    <3>3. Slot(t, n + 1) = NextSlot(s, t[n + 1].dir)
      <4>1. \A k \in 1 .. n : t[k].dir = s[k].dir
        BY <1>1, <3>2
      <4>2. t[n + 1].dir \in {FRONT, BACK}
        BY <3>1, <3>2
      <4> QED BY <3>2, <4>1, <4>2, SlotNext
    <3> QED BY <3>2, <3>3
  <2> QED BY <1>5, <2>2, <2>4, <2>5, <2>6
<1>14. \A x \in Schedule : Led(s, pos, l + 1, x) =>
         x \in Ahead(s, pos, last) /\ Led(t, new, l + 1, x)
  BY <1>3, <1>5, <1>9, <1>11 DEF Ahead
<1> QED BY <1>12, <1>13, <1>14

\* Nothing is ahead when the position is past the end.
LEMMA AheadNone ==
  ASSUME NEW s, NEW pos \in [Line -> Nat], NEW last \in [Line -> Line], NEW l \in Line,
         Len(s) = l + 1, Fits(l, pos, last), ~LexLeq(pos, last)
  PROVE  Ahead(s, pos, last) = {}
<1>0. /\ l \in Nat /\ l < size /\ size \in Nat /\ Line = 0 .. size - 1
      /\ \A i \in Line : pos[i] \in Nat /\ last[i] \in Nat
  BY Lines
<1>1. PICK i \in Line : pos[i] > last[i] /\ \A k \in 0 .. i - 1 : ~(pos[k] < last[k])
  BY DEF LexLeq
<1>2. i = l
  <2>1. ~(i > l)
    BY <1>0, <1>1 DEF Fits
  <2>2. ~(i < l)
    BY <1>0, <1>1 DEF Fits
  <2> QED BY <1>0, <2>1, <2>2
<1>3. ASSUME NEW r \in 1 .. Len(s) PROVE Coming(s, pos, last, r) = {}
  <2>0. l \in Nat /\ l < size /\ size \in Nat /\ Line = 0 .. size - 1
    BY <1>0
  <2>1. r - 1 \in Line /\ pos[r - 1] \in Nat /\ last[r - 1] \in Nat
    <3>1. r - 1 \in Line
      BY <2>0
    <3> QED BY <1>0, <3>1
  <2>2. CASE r = l + 1
    <3>1. FirstAhead(s, pos, r) = pos[r - 1] /\ pos[r - 1] > last[r - 1]
      BY <1>0, <1>1, <1>2, <2>2 DEF FirstAhead
    <3> QED BY <2>1, <3>1 DEF Coming
  <2>3. CASE r < l + 1
    <3>1. FirstAhead(s, pos, r) = pos[r - 1] + 1
      BY <2>3 DEF FirstAhead
    <3>2. ~(pos[r - 1] < last[r - 1])
      <4>1. r - 1 \in 0 .. i - 1
        BY <1>0, <1>2, <2>3
      <4> QED BY <1>1, <4>1
    <3> QED BY <2>1, <3>1, <3>2 DEF Coming
  <2> QED BY <1>0, <2>2, <2>3
<1> QED BY <1>3 DEF Ahead, LeavesAt

\* Below line l the end is the last column.
FullBelow(last, l) == \A i \in Line : i > l => last[i] = size - i - 1

\* A cut gives the thief some of the schedules ahead of the victim, and leaves the
\* victim the others.
LEMMA AheadShared ==
  ASSUME NEW pos \in [Line -> Nat], NEW last \in [Line -> Nat], NEW l \in Line, NEW cut \in Int,
         NEW T \in [Line -> Nat], NEW E \in [Line -> Nat], CutAt(pos, last, l, cut, T, E),
         NEW s, NEW t, SameRows(t, s, l), StackOK(s, pos), FullBelow(last, l)
  PROVE  /\ Ahead(s, pos, last) = Ahead(s, pos, E) \cup Ahead(t, T, last)
         /\ Ahead(s, pos, E) \cap Ahead(t, T, last) = {}
<1>0. /\ l \in Nat /\ l < size /\ size \in Nat /\ Line = 0 .. size - 1
      /\ Len(s) \in Nat /\ l + 1 <= Len(s) /\ Len(t) = l + 1 /\ Len(s) <= size
  BY Lines, StackDirected DEF SameRows
<1>1. \A r \in 1 .. l + 1 : t[r] = s[r] /\ r \in 1 .. Len(s)
  BY <1>0 DEF SameRows
<1>2. /\ \A k \in 0 .. l - 1 : pos[k] = last[k] /\ T[k] = pos[k] /\ E[k] = last[k]
      /\ T[l] = cut /\ E[l] = cut - 1 /\ pos[l] < cut /\ cut <= last[l]
  BY CutParts DEF Agree
<1>3. \A i \in Line : pos[i] \in Nat /\ last[i] \in Nat /\ T[i] \in Nat /\ E[i] \in Nat
  OBVIOUS
<1>4. \A i \in Line : i > l => E[i] = last[i]
  BY CutParts DEF FullBelow
<1>5. ASSUME NEW r \in 1 .. l
      PROVE  Coming(s, pos, last, r) = {} /\ Coming(s, pos, E, r) = {} /\ Coming(t, T, last, r) = {}
  <2>1. r - 1 \in Line /\ r - 1 \in 0 .. l - 1 /\ r < Len(s) /\ r < Len(t)
    BY <1>0
  <2>2. /\ FirstAhead(s, pos, r) = pos[r - 1] + 1 /\ FirstAhead(t, T, r) = pos[r - 1] + 1
        /\ last[r - 1] = pos[r - 1] /\ E[r - 1] = pos[r - 1] /\ pos[r - 1] \in Nat
    BY <1>2, <1>3, <2>1 DEF FirstAhead
  <2> QED BY <2>2 DEF Coming
<1> DEFINE n == l + 1
<1>6. /\ n \in Nat \ {0} /\ n = l + 1 /\ n - 1 = l /\ n \in 1 .. Len(s) /\ Len(t) = n
      /\ 1 .. n = (1 .. l) \cup {n} /\ t[n] = s[n]
  <2>1. n = l + 1
    OBVIOUS
  <2> HIDE DEF n
  <2>2. n \in Nat \ {0} /\ n - 1 = l /\ n \in 1 .. Len(s) /\ Len(t) = n /\ n \in 1 .. l + 1
    BY <1>0, <2>1
  <2>3. ASSUME NEW i PROVE i \in 1 .. n <=> i \in 1 .. l \/ i = n
    BY <1>0, <2>1
  <2>4. 1 .. n = (1 .. l) \cup {n}
    BY <2>3
  <2>5. t[n] = s[n]
    BY <1>1, <2>2
  <2> QED BY <2>1, <2>2, <2>4, <2>5
<1> HIDE DEF n
<1>7. FirstAhead(s, pos, n) \in {pos[l], pos[l] + 1} /\ FirstAhead(t, T, n) = cut
  BY <1>2, <1>6 DEF FirstAhead
<1>8. Coming(s, pos, last, n) = Coming(s, pos, E, n) \cup Coming(t, T, last, n)
  <2> DEFINE first == FirstAhead(s, pos, n)
             A == {i \in 0 .. size - n : first <= i /\ i <= last[l]}
             B == {i \in 0 .. size - n : first <= i /\ i <= cut - 1}
             C == {i \in 0 .. size - n : cut <= i /\ i <= last[l]}
  <2>1. first \in Int /\ first <= cut /\ last[l] \in Int /\ cut \in Int /\ cut <= last[l]
    BY <1>2, <1>3, <1>7
  <2> HIDE DEF first
  <2>2. A = B \cup C
    BY <2>1
  <2>3. Coming(s, pos, last, n) = {s[n].jobs[c] : c \in A}
    BY <1>6 DEF Coming, first
  <2>4. Coming(s, pos, E, n) = {s[n].jobs[c] : c \in B}
    BY <1>2, <1>6 DEF Coming, first
  <2>5. Coming(t, T, last, n) = {s[n].jobs[c] : c \in C}
    BY <1>6, <1>7 DEF Coming
  <2> HIDE DEF A, B, C
  <2> QED BY <2>2, <2>3, <2>4, <2>5
<1>9. ASSUME NEW r \in 1 .. Len(s), r > n
      PROVE  Coming(s, pos, E, r) = Coming(s, pos, last, r)
  <2>1. r - 1 \in Line /\ r - 1 > l
    <3>1. l \in Nat /\ n = l + 1 /\ Len(s) \in Nat /\ Len(s) <= size /\ size \in Nat /\ Line = 0 .. size - 1
      BY <1>0, <1>6
    <3> QED BY <1>9, <3>1
  <2> QED BY <1>4, <2>1 DEF Coming
<1>10. ASSUME NEW x PROVE Led(t, T, l, x) <=> Led(s, pos, l, x)
  <2>1. ASSUME NEW k \in 1 .. l PROVE Slot(t, k) = Slot(s, k) /\ PointedJob(t, T, k) = PointedJob(s, pos, k)
    <3>1. k \in Nat \ {0} /\ k - 1 \in 0 .. l - 1 /\ k \in 1 .. l + 1 /\ \A i \in 1 .. k : i \in 1 .. l + 1
      BY <1>0
    <3>2. \A i \in 1 .. k : t[i].dir = s[i].dir
      BY <1>1, <3>1
    <3>3. Slot(t, k) = Slot(s, k)
      BY <3>1, <3>2, SlotSame
    <3> QED BY <1>1, <1>2, <3>1, <3>3 DEF PointedJob
  <2> QED BY <2>1 DEF Led
<1>11. Slot(t, n) = Slot(s, n)
  <2>1. n \in Nat \ {0} /\ \A i \in 1 .. n : t[i].dir = s[i].dir
    BY <1>1, <1>6
  <2> QED BY <2>1, SlotSame
<1>12. ASSUME NEW x
       PROVE  /\ LeavesAt(t, T, last, n, x)
                   <=> Led(s, pos, l, x) /\ x[Slot(s, n)] \in Coming(t, T, last, n)
              /\ LeavesAt(s, pos, last, n, x)
                   <=> LeavesAt(s, pos, E, n, x) \/ LeavesAt(t, T, last, n, x)
              /\ \A r \in 1 .. l : /\ ~LeavesAt(s, pos, last, r, x) /\ ~LeavesAt(s, pos, E, r, x)
                                   /\ ~LeavesAt(t, T, last, r, x)
              /\ \A r \in 1 .. Len(s) : r > n =>
                   (LeavesAt(s, pos, last, r, x) <=> LeavesAt(s, pos, E, r, x))
  <2>1. LeavesAt(t, T, last, n, x)
          <=> Led(s, pos, l, x) /\ x[Slot(s, n)] \in Coming(t, T, last, n)
    BY <1>6, <1>10, <1>11 DEF LeavesAt
  <2>2. LeavesAt(s, pos, last, n, x)
          <=> LeavesAt(s, pos, E, n, x) \/ LeavesAt(t, T, last, n, x)
    BY <1>6, <1>8, <2>1 DEF LeavesAt
  <2>3. \A r \in 1 .. l : /\ ~LeavesAt(s, pos, last, r, x) /\ ~LeavesAt(s, pos, E, r, x)
                          /\ ~LeavesAt(t, T, last, r, x)
    BY <1>5 DEF LeavesAt
  <2>4. \A r \in 1 .. Len(s) : r > n =>
          (LeavesAt(s, pos, last, r, x) <=> LeavesAt(s, pos, E, r, x))
    BY <1>9 DEF LeavesAt
  <2> QED BY <2>1, <2>2, <2>3, <2>4
<1>13. \A r \in 1 .. Len(s) : r \in 1 .. l \/ r = n \/ r > n
  BY <1>0, <1>6
<1>14. n \in 1 .. Len(s) /\ 1 .. Len(t) = (1 .. l) \cup {n}
  BY <1>6
<1>15. Ahead(s, pos, last) = Ahead(s, pos, E) \cup Ahead(t, T, last)
  <2>1. ASSUME NEW x \in Schedule
        PROVE  x \in Ahead(s, pos, last) <=> x \in Ahead(s, pos, E) \/ x \in Ahead(t, T, last)
    BY <1>12, <1>13, <1>14 DEF Ahead
  <2> QED BY <2>1 DEF Ahead
<1>16. ASSUME NEW x \in Schedule, x \in Ahead(t, T, last), x \in Ahead(s, pos, E) PROVE FALSE
  <2>1. Led(s, pos, l, x) /\ x[Slot(s, n)] \in Coming(t, T, last, n)
    BY <1>12, <1>14, <1>16 DEF Ahead
  <2>2. PICK c \in 0 .. size - n : cut <= c /\ s[n].jobs[c] = x[Slot(s, n)]
    BY <1>6, <1>7, <2>1 DEF Coming
  <2>3. x[Slot(s, n)] \in Job /\ x[Slot(s, n)] >= 0
    <3>1. Slot(s, n) \in 1 .. size
      BY <1>14, StackDirected, SlotsApart
    <3> QED BY <3>1, Schedules
  <2>4. ASSUME NEW i \in 0 .. size - n, absolute(s[n].jobs[i]) = x[Slot(s, n)]
        PROVE  i = c
    <3>1. absolute(s[n].jobs[c]) = x[Slot(s, n)]
      <4>1. s[n].jobs[c] >= 0
        BY <2>2, <2>3
      <4> QED BY <2>2, <4>1 DEF absolute
    <3> QED BY <1>14, <2>4, <3>1, RowCells
  <2>5. PICK r \in 1 .. Len(s) : LeavesAt(s, pos, E, r, x)
    BY <1>16 DEF Ahead
  <2>6. CASE r = n
    <3>1. x[Slot(s, n)] \in Coming(s, pos, E, n)
      BY <2>5, <2>6 DEF LeavesAt
    <3>2. PICK i \in 0 .. size - n : i <= cut - 1 /\ s[n].jobs[i] = x[Slot(s, n)]
      <4>1. E[n - 1] = cut - 1
        BY <1>2, <1>6
      <4> QED BY <3>1, <4>1 DEF Coming
    <3>3. absolute(s[n].jobs[i]) = x[Slot(s, n)]
      <4>1. s[n].jobs[i] >= 0
        BY <2>3, <3>2
      <4> QED BY <3>2, <4>1 DEF absolute
    <3>4. i = c
      BY <2>4, <3>3
    <3> QED BY <1>0, <2>2, <3>2, <3>4
  <2>7. CASE r > n
    <3>1. n \in 1 .. r - 1 /\ n \in 1 .. Len(s) - 1 /\ n - 1 = l
      BY <1>0, <1>6, <2>7
    <3>2. x[Slot(s, n)] = absolute(s[n].jobs[pos[n - 1]])
      BY <2>5, <3>1 DEF LeavesAt, Led, PointedJob
    <3>3. pos[n - 1] \in 0 .. size - n
      BY <3>1 DEF StackOK
    <3>4. pos[l] = c
      BY <2>4, <3>1, <3>2, <3>3
    <3> QED BY <1>2, <1>3, <2>2, <3>4
  <2> QED BY <1>12, <1>13, <2>5, <2>6, <2>7
<1> QED BY <1>15, <1>16 DEF Ahead

\* Below the first row that is bounded, only the schedules of flagged jobs are lost.
LEMMA AheadRoot ==
  ASSUME NEW s, NEW pos, NEW last, StackOK(s, pos), Len(s) = 1, pos[0] = 0, last[0] = size - 1,
         NEW x \in Schedule, x \notin Ahead(s, pos, last)
  PROVE  \E c \in 0 .. size - 1 : s[1].jobs[c] < 0 /\ x[Slot(s, 1)] = absolute(s[1].jobs[c])
<1>1. 1 \in 1 .. Len(s) /\ Led(s, pos, 1 - 1, x) /\ 1 - 1 = 0
  BY DEF Led
<1>2. PICK c \in 0 .. size - 1 : absolute(s[1].jobs[c]) = x[Slot(s, 1)]
  BY <1>1, LedToRow
<1>3. s[1].jobs[c] < 0
  <2> SUFFICES ASSUME ~(s[1].jobs[c] < 0) PROVE FALSE
    OBVIOUS
  <2>1. s[1].jobs[c] = x[Slot(s, 1)]
    BY <1>1, <1>2, RowCells
  <2>2. FirstAhead(s, pos, 1) = 0
    BY <1>1 DEF FirstAhead
  <2>3. FirstAhead(s, pos, 1) <= c /\ c <= last[1 - 1]
    BY <1>1, <2>2
  <2>4. LeavesAt(s, pos, last, 1, x)
    BY <1>1, <2>1, <2>3 DEF LeavesAt, Coming
  <2> QED BY <1>1, <2>4 DEF Ahead
<1> QED BY <1>2, <1>3

\* What goes on below the column of a row does not leave the path there.
LEMMA NotLeaving ==
  ASSUME NEW s, NEW pos, NEW last, StackOK(s, pos), NEW r \in 1 .. Len(s) - 1,
         pos[r - 1] \in Nat, NEW x \in Schedule, Led(s, pos, r, x)
  PROVE  ~LeavesAt(s, pos, last, r, x)
<1> SUFFICES ASSUME x[Slot(s, r)] \in Coming(s, pos, last, r) PROVE FALSE
  BY DEF LeavesAt
<1>1. Len(s) \in Nat /\ r \in Nat /\ r < Len(s) /\ r \in 1 .. Len(s) /\ r \in 1 .. r
  BY StackDirected
<1>2. FirstAhead(s, pos, r) = pos[r - 1] + 1
  BY <1>1 DEF FirstAhead
<1>3. PICK c \in 0 .. size - r : pos[r - 1] + 1 <= c /\ s[r].jobs[c] = x[Slot(s, r)]
  BY <1>2 DEF Coming
<1>4. Slot(s, r) \in 1 .. size
  BY <1>1, StackDirected, SlotsApart
<1>5. absolute(s[r].jobs[c]) = x[Slot(s, r)]
  <2>1. s[r].jobs[c] >= 0
    BY <1>3, <1>4, Schedules
  <2> QED BY <1>3, <2>1 DEF absolute
<1>6. x[Slot(s, r)] = absolute(s[r].jobs[pos[r - 1]])
  BY <1>1 DEF Led, PointedJob
<1>7. pos[r - 1] \in 0 .. size - r
  BY DEF StackOK
<1>8. pos[r - 1] = c
  BY <1>1, <1>5, <1>6, <1>7, RowCells
<1> QED BY <1>3, <1>8

\* Rows point at different jobs.
LEMMA PointedApart ==
  ASSUME NEW s, NEW pos, StackOK(s, pos), pos[Len(s) - 1] \in 0 .. size - Len(s),
         NEW q \in 1 .. Len(s), NEW r \in 1 .. Len(s)
  PROVE  /\ PointedJob(s, pos, r) \in Job
         /\ q # r => PointedJob(s, pos, q) # PointedJob(s, pos, r)
<1>1. ASSUME NEW k \in 1 .. Len(s) PROVE PointedJob(s, pos, k) \in Job \ Pointed(s, pos, k)
  <2>1. pos[k - 1] \in 0 .. size - k
    <3>1. k = Len(s) \/ k \in 1 .. Len(s) - 1
      BY StackDirected
    <3> QED BY <3>1 DEF StackOK
  <2>2. PointedJob(s, pos, k) \in JobsOf(s[k].jobs)
    BY <2>1 DEF PointedJob, JobsOf, StackOK, RowOK
  <2> QED BY <2>2 DEF StackOK
<1>2. ASSUME NEW i \in 1 .. Len(s), NEW k \in 1 .. Len(s), i < k
      PROVE  PointedJob(s, pos, i) # PointedJob(s, pos, k)
  <2>1. i \in 1 .. k - 1
    BY <1>2, StackDirected
  <2>2. PointedJob(s, pos, i) \in Pointed(s, pos, k)
    BY <2>1 DEF Pointed, PointedJob
  <2> QED BY <1>1, <2>2
<1>3. q < r \/ q = r \/ r < q
  BY StackDirected
<1> QED BY <1>1, <1>2, <1>3

\* All rows but the last leave one place.
LEMMA FreePlace ==
  ASSUME NEW s, NEW n, Directed(s, n), n = size - 1
  PROVE  \E f \in 1 .. size : /\ \A k \in 1 .. n : Slot(s, k) # f
                             /\ \A i \in 1 .. size : i = f \/ \E k \in 1 .. n : Slot(s, k) = i
<1> DEFINE S == {Slot(s, k) : k \in 1 .. n}
           g == [k \in 1 .. n |-> Slot(s, k)]
           R == (1 .. size) \ S
<1>1. n \in Nat /\ size \in Nat
  BY Lines
<1>2. \A q, r \in 1 .. n : Slot(s, r) \in 1 .. size /\ (q # r => Slot(s, q) # Slot(s, r))
  BY SlotsApart
<1>3. /\ IsFiniteSet(1 .. n) /\ Cardinality(1 .. n) = n
      /\ IsFiniteSet(1 .. size) /\ Cardinality(1 .. size) = size
  BY <1>1, FS_Interval
<1>4. g \in Bijection(1 .. n, S)
  <2>1. g \in [1 .. n -> S]
    OBVIOUS
  <2>2. \A q, r \in 1 .. n : g[q] = g[r] => q = r
    BY <1>2
  <2>3. \A y \in S : \E k \in 1 .. n : g[k] = y
    OBVIOUS
  <2> HIDE DEF g, S
  <2> QED BY <2>1, <2>2, <2>3 DEF Bijection, Injection, Surjection, IsInjective
<1>5. S \subseteq 1 .. size
  BY <1>2
<1>6. \A y : y \in S <=> \E k \in 1 .. n : Slot(s, k) = y
  OBVIOUS
<1> HIDE DEF S, g
<1>7. IsFiniteSet(S) /\ Cardinality(S) = n
  BY <1>3, <1>4, FS_Bijection DEF ExistsBijection
<1>8. IsFiniteSet(R) /\ Cardinality(R) = 1
  <2>1. (1 .. size) \cap S = S
    BY <1>5
  <2>2. IsFiniteSet(R) /\ Cardinality(R) = Cardinality(1 .. size) - Cardinality((1 .. size) \cap S)
    BY <1>3, FS_Difference
  <2>3. Cardinality((1 .. size) \cap S) = n
    BY <1>7, <2>1
  <2> HIDE DEF R
  <2>4. Cardinality(R) = size - n
    BY <1>3, <2>2, <2>3
  <2> QED BY <1>1, <2>2, <2>4
<1>9. PICK f : R = {f}
  BY <1>8, FS_Singleton
<1> QED BY <1>6, <1>9

\* The one job that the pointed ones leave.
Left(s, pos, j) ==
  /\ j \in Job /\ \A k \in 1 .. Len(s) : PointedJob(s, pos, k) # j
  /\ \A i \in Job : i = j \/ \E k \in 1 .. Len(s) : PointedJob(s, pos, k) = i

\* A stack of all rows but one, and the job that is left, make a schedule, and
\* there is no other one that follows the stack.
LEMMA Decoded ==
  ASSUME NEW s, NEW pos, StackOK(s, pos), Len(s) = size - 1,
         pos[Len(s) - 1] \in 0 .. size - Len(s), NEW j, Left(s, pos, j)
  PROVE  /\ prepareSchedule(s, pos, j) \in Schedule
         /\ Led(s, pos, Len(s), prepareSchedule(s, pos, j))
         /\ \A x \in Completions(s, pos) : x = prepareSchedule(s, pos, j)
<1> DEFINE d == prepareSchedule(s, pos, j)
           n == Len(s)
<1>1. DOMAIN s = 1 .. n /\ Directed(s, n)
  BY StackDirected, LenProperties DEF StackOK
<1>2. PICK f \in 1 .. size : /\ \A k \in 1 .. n : Slot(s, k) # f
                             /\ \A i \in 1 .. size : i = f \/ \E k \in 1 .. n : Slot(s, k) = i
  BY <1>1, FreePlace
<1>3. \A q, r \in 1 .. n : Slot(s, r) \in 1 .. size /\ (q # r => Slot(s, q) # Slot(s, r))
  BY <1>1, SlotsApart
<1>4. \A q, r \in 1 .. n : /\ PointedJob(s, pos, r) \in Job
                           /\ q # r => PointedJob(s, pos, q) # PointedJob(s, pos, r)
  BY PointedApart
<1>5. \A r \in 1 .. n : d[Slot(s, r)] = PointedJob(s, pos, r)
  <2> TAKE r \in 1 .. n
  <2>1. (CHOOSE q \in DOMAIN s : Slot(s, q) = Slot(s, r)) = r
    BY <1>1, <1>3
  <2> QED BY <1>1, <1>3, <2>1 DEF prepareSchedule
<1>6. d[f] = j
  BY <1>1, <1>2 DEF prepareSchedule
<1>7. DOMAIN d = 1 .. size /\ d = [i \in 1 .. size |-> d[i]]
  BY DEF prepareSchedule
<1>8. j \in Job /\ (\A k \in 1 .. n : PointedJob(s, pos, k) # j)
      /\ \A i \in Job : i = j \/ \E k \in 1 .. n : PointedJob(s, pos, k) = i
  BY DEF Left
<1> HIDE DEF d, n
<1>9. \A i \in 1 .. size : d[i] \in Job
  BY <1>2, <1>4, <1>5, <1>6, <1>8
<1>10. \A i, k \in 1 .. size : d[i] = d[k] => i = k
  BY <1>2, <1>4, <1>5, <1>6, <1>8
<1>11. d \in Schedule
  <2>1. d \in [1 .. size -> Job]
    BY <1>7, <1>9
  <2> QED BY <1>7, <1>10, <2>1 DEF Schedule, IsInjective
<1>12. ASSUME NEW x \in Completions(s, pos) PROVE x = d
  <2>1. x \in Schedule /\ \A r \in 1 .. n : x[Slot(s, r)] = PointedJob(s, pos, r)
    BY <1>1 DEF Completions
  <2>2. /\ x \in [1 .. size -> Job] /\ \A i \in 1 .. size : x[i] \in Job
        /\ \A i, k \in 1 .. size : x[i] = x[k] => i = k
    BY <2>1, Schedules
  <2>3. \A k \in 1 .. n : x[f] # PointedJob(s, pos, k)
    BY <1>2, <1>3, <2>1, <2>2
  <2>4. x[f] = j
    BY <1>8, <2>2, <2>3
  <2>5. \A i \in 1 .. size : x[i] = d[i]
    BY <1>2, <1>5, <1>6, <2>1, <2>4
  <2> QED BY <1>7, <2>2, <2>5
<1> QED BY <1>5, <1>11, <1>12 DEF d, n, Led

\* generateLine leaves one job for the last line.
LEMMA LastJob ==
  ASSUME NEW s, NEW pos, StackOK(s, pos), Len(s) = size - 1,
         pos[Len(s) - 1] \in 0 .. size - Len(s)
  PROVE  LET j == generateLine(s[Len(s)].jobs, pos[Len(s) - 1])[0]
         IN Left(s, pos, j) /\ j \in Job
<1> DEFINE n == Len(s)
           jobs == s[n].jobs
           c == pos[n - 1]
           g == generateLine(jobs, c)
<1>1. n \in 1 .. Len(s) /\ n \in Nat \ {0} /\ size - n = 1
  BY Lines
<1>2. RowOK(jobs, 1) /\ JobsOf(jobs) = Job \ Pointed(s, pos, n) /\ c \in 0 .. 1
  BY <1>1 DEF StackOK
<1> HIDE DEF n, jobs, c, g
<1>3. g \in [0 .. 0 -> Job] /\ JobsOf(g) = JobsOf(jobs) \ {absolute(jobs[c])}
  <2>1. 1 \in Nat \ {0} /\ 1 - 1 = 0
    OBVIOUS
  <2> QED BY <1>2, <2>1, GeneratedLine DEF g
<1>4. 0 \in 0 .. 0 /\ \A i \in 0 .. 0 : i = 0
  OBVIOUS
<1>5. g[0] \in Job /\ absolute(g[0]) = g[0] /\ JobsOf(g) = {g[0]}
  <2>1. g[0] \in Job /\ DOMAIN g = 0 .. 0
    BY <1>3, <1>4
  <2>2. absolute(g[0]) = g[0]
    BY <2>1, Lines DEF absolute
  <2> QED BY <1>4, <2>1, <2>2 DEF JobsOf
<1>6. absolute(jobs[c]) = PointedJob(s, pos, n)
  BY DEF PointedJob, jobs, c
<1>7. \A k \in 1 .. n : k \in 1 .. n - 1 \/ k = n
  BY <1>1
<1>8. Pointed(s, pos, n) = {PointedJob(s, pos, k) : k \in 1 .. n - 1}
  BY DEF Pointed, PointedJob
<1>9. \A k \in 1 .. n : PointedJob(s, pos, k) # g[0]
  BY <1>2, <1>3, <1>5, <1>6, <1>7, <1>8
<1>10. \A i \in Job : i = g[0] \/ \E k \in 1 .. n : PointedJob(s, pos, k) = i
  <2>1. n \in 1 .. n /\ \A k \in 1 .. n - 1 : k \in 1 .. n
    BY <1>1
  <2> QED BY <1>2, <1>3, <1>5, <1>6, <1>8, <2>1
<1> QED BY <1>5, <1>9, <1>10 DEF Left, n, jobs, c, g

\* The visit of a leaf takes just the schedule that is evaluated from those ahead.
LEMMA AheadLeaf ==
  ASSUME NEW s, NEW pos \in [Line -> Nat], NEW last \in [Line -> Nat], NEW t,
         NEW new \in [Line -> Nat], NEW l, Down(s, pos, t, new, l), l + 2 = size,
         StackOK(s, pos), StackOK(t, new), pos[l] <= last[l], last[l + 1] = size - l - 2,
         NEW j, Left(s, pos, j), t[size].jobs[0] < 0
  PROVE  LET d == prepareSchedule(s, pos, j)
         IN /\ d \in Schedule /\ d \in Ahead(s, pos, last) /\ d \notin Ahead(t, new, last)
            /\ \A x \in Ahead(s, pos, last) : x \in Ahead(t, new, last) \/ x = d
<1> DEFINE d == prepareSchedule(s, pos, j)
<1>1. /\ l \in Nat /\ Len(s) = l + 1 /\ Len(s) = size - 1 /\ Len(t) = size /\ size = l + 2
      /\ Len(s) - 1 = l /\ pos[l] \in Nat /\ pos[l] < size - l /\ size \in Nat /\ l \in Line
  BY Lines DEF Down
<1>2. pos[Len(s) - 1] \in 0 .. size - Len(s)
  BY <1>1
<1>3. d \in Schedule /\ Led(s, pos, l + 1, d) /\ \A x \in Completions(s, pos) : x = d
  BY <1>1, <1>2, Decoded
<1> HIDE DEF d
<1>4. d \in Ahead(s, pos, last) /\ Led(t, new, l + 1, d)
  BY <1>3, AheadDown
<1>5. ASSUME NEW r \in 1 .. Len(t) PROVE ~LeavesAt(t, new, last, r, d)
  <2>1. CASE r \in 1 .. Len(t) - 1
    <3>1. r - 1 \in Line /\ new[r - 1] \in Nat /\ \A k \in 1 .. r : k \in 1 .. l + 1
      BY <1>1, <2>1, Lines
    <3>2. Led(t, new, r, d)
      BY <1>4, <3>1 DEF Led
    <3> QED BY <1>3, <2>1, <3>1, <3>2, NotLeaving
  <2>2. CASE r = size
    <3>1. 0 .. size - r = {0}
      BY <1>1, <2>2
    <3>2. Coming(t, new, last, r) \subseteq {t[size].jobs[0]}
      BY <2>2, <3>1 DEF Coming
    <3>3. Slot(t, r) \in 1 .. size
      BY StackDirected, SlotsApart
    <3>4. d[Slot(t, r)] # t[size].jobs[0]
      <4>1. d[Slot(t, r)] \in Job
        BY <1>3, <3>3, Schedules
      <4>2. t[size].jobs[0] \notin Job
        BY Lines
      <4> QED BY <4>1, <4>2
    <3> QED BY <3>2, <3>4 DEF LeavesAt
  <2>3. Len(t) \in Nat /\ (r \in 1 .. Len(t) - 1 \/ r = Len(t))
    BY StackDirected
  <2> QED BY <1>1, <2>1, <2>2, <2>3
<1>6. d \notin Ahead(t, new, last)
  BY <1>5 DEF Ahead
<1>7. \A x \in Ahead(s, pos, last) : x \in Ahead(t, new, last) \/ x = d
  BY <1>3, AheadDown
<1> QED BY <1>3, <1>4, <1>6, <1>7 DEF d

-----------------------------------------------------------------------------
(* What a step takes from an explorer *)

\* A schedule that cannot improve on the best cost known, and, with findAll,
\* cannot equal it.
Hopeless(x) == best <= cost[x] /\ (findAll => cost[x] > best)

\* Such are those that a bound cuts off, as nobody knows a better cost than the
\* shared one.
LEMMA CutOff ==
  ASSUME Types, NEW lb \in Nat, best <= lb, NEW x \in Schedule, gtBest(cost[x], lb)
  PROVE  Hopeless(x)
<1>1. cost[x] \in Nat /\ best \in Nat
  <2>1. cost \in [Schedule -> 0 .. Infinity - 1] /\ best \in Nat
    BY CostAssumption DEF Types
  <2>2. cost[x] \in 0 .. Infinity - 1
    BY <2>1
  <2> QED BY <2>1, <2>2
<1>2. CASE findAll
  BY <1>1, <1>2 DEF gtBest, Hopeless
<1>3. CASE ~findAll
  BY <1>1, <1>3 DEF gtBest, Hopeless
<1> QED BY <1>2, <1>3

\* What is ahead of an explorer that goes on, before and after a step.
LEMMA TodoActive ==
  ASSUME NEW e
  PROVE  /\ Active(e) => Todo(e) = Ahead(rows[e], posVect[e], endVect[e])
         /\ pc'[e] \in {"unfold", "ready", "in"}
              => Todo(e)' = Ahead(rows'[e], posVect'[e], endVect'[e])
<1>1. Active(e) => pc[e] # "root" /\ pc[e] # "empty"
  BY DEF Active
<1> QED BY <1>1 DEF Todo

\* The interval of an explorer whose pointed cell is open.
LEMMA HereOpen ==
  ASSUME IInv, IntervalInv, NEW e \in Explorer, Active(e), line(e) + 1 \in Line,
         posVect[e][line(e)] < size - line(e),
         LexLeq(posVect[e], endVect[e]) \/ posVect[e][line(e)] = 0
  PROVE  /\ posVect[e][line(e)] <= endVect[e][line(e)]
         /\ endVect[e][line(e) + 1] = size - line(e) - 2
<1> DEFINE pos == posVect[e]
           last == endVect[e]
           l == line(e)
<1>1. /\ l \in Line /\ pos \in [Line -> Nat] /\ last \in [Line -> Line] /\ l \in Int
      /\ Fits(l, pos, last)
  BY Current DEF IntervalInv, IntervalOK
<1>2. pos[l] < size - l /\ l + 1 \in Line /\ (LexLeq(pos, last) \/ pos[l] = 0)
  OBVIOUS
<1> HIDE DEF pos, last, l
<1>3. pos[l] <= last[l]
  <2>1. CASE LexLeq(pos, last)
    BY <1>1, <1>2, <2>1, FitsHere
  <2>2. CASE pos[l] = 0
    <3>1. last[l] \in Line
      BY <1>1
    <3> QED BY <2>2, <3>1, Lines
  <2> QED BY <1>2, <2>1, <2>2
<1>4. last[l + 1] = size - l - 2
  <2>1. ~(l + 1 <= l) /\ size - (l + 1) - 1 = size - l - 2
    BY <1>1, Lines
  <2> QED BY <1>1, <1>2, <2>1 DEF Fits
<1> QED BY <1>3, <1>4 DEF pos, last, l

\* A node that is bounded loses the schedules of its flagged jobs.
LEMMA TodoDown ==
  ASSUME IInv, IInv', IntervalInv, NEW e \in Explorer, Active(e),
         LexLeq(posVect[e], endVect[e]) \/ posVect[e][line(e)] = 0, Alone(e),
         Down(rows[e], posVect[e], rows'[e], posVect'[e], line(e)),
         pc'[e] \in {"unfold", "ready", "in"}, NEW lb,
         Bounded(rows[e], posVect[e], rows'[e], line(e), lb)
  PROVE  /\ Todo(e)' \subseteq Todo(e)
         /\ \A x \in Todo(e) \ Todo(e)' : x \in Schedule /\ gtBest(cost[x], lb)
<1> DEFINE s == rows[e]
           pos == posVect[e]
           last == endVect[e]
           l == line(e)
           t == rows'[e]
           new == posVect'[e]
<1>1. /\ StackOK(s, pos) /\ StackOK(t, new) /\ pos \in [Line -> Nat] /\ new \in [Line -> Nat]
      /\ last \in [Line -> Nat]
  <2>1. StackOK(s, pos) /\ pos \in [Line -> Nat] /\ last \in [Line -> Line]
    BY Parts
  <2>2. StackOK(t, new) /\ new \in [Line -> Nat]
    BY DEF IInv, Matrices, Shape
  <2>3. last \in [Line -> Nat]
    BY <2>1, Lines
  <2> QED BY <2>1, <2>2, <2>3
<1>2. Down(s, pos, t, new, l) /\ Bounded(s, pos, t, l, lb)
  OBVIOUS
<1>3. pos[l] <= last[l] /\ last[l + 1] = size - l - 2
  <2>1. line(e) + 1 \in Line /\ posVect[e][line(e)] < size - line(e)
    BY DEF Down
  <2> QED BY <2>1, HereOpen
<1>4. /\ Todo(e) = Ahead(s, pos, last)
      /\ Todo(e)' = Ahead(t, new, last)
  BY TodoActive DEF Alone
<1> HIDE DEF s, pos, last, l, t, new
<1>5. /\ Ahead(t, new, last) \subseteq Ahead(s, pos, last)
      /\ \A x \in Ahead(s, pos, last) \ Ahead(t, new, last) :
              /\ x \in Completions(s, pos)
              /\ \E c \in 0 .. size - l - 2 :
                   /\ t[l + 2].jobs[c] < 0
                   /\ x[NextSlot(s, t[l + 2].dir)] = absolute(t[l + 2].jobs[c])
  BY <1>1, <1>2, <1>3, AheadDown
<1>6. \A x \in Ahead(s, pos, last) \ Ahead(t, new, last) : gtBest(cost[x], lb)
  BY <1>2, <1>5 DEF Bounded
<1>7. Ahead(s, pos, last) \subseteq Schedule
  BY DEF Ahead
<1> QED BY <1>4, <1>5, <1>6, <1>7

\* Bounding the root: the same from all schedules.
LEMMA TodoRoot ==
  ASSUME IInv, IInv', NEW e \in Explorer, setRoot(e)
  PROVE  /\ Todo(e)' \subseteq Todo(e)
         /\ \A x \in Todo(e) \ Todo(e)' : x \in Schedule /\ gtBest(cost[x], best)
<1>1. PICK row \in BoundedRows(<<>>, posVect[e], [i \in Line |-> i], best) : rows'[e] = <<row>>
  BY Move_setRoot
<1>2. /\ posVect'[e] = [i \in Line |-> 0] /\ endVect'[e] = LastLeaf /\ pc'[e] = "unfold"
      /\ pc[e] = "root"
  BY Move_setRoot DEF setRoot
<1> DEFINE s == rows'[e]
           pos == posVect'[e]
           last == endVect'[e]
           jobs == [i \in Line |-> i]
           n == size - 1
<1>3. Todo(e) = Schedule /\ Todo(e)' = Ahead(s, pos, last)
  BY <1>2, TodoActive DEF Todo
<1>4. StackOK(s, pos)
  BY DEF IInv, Matrices
<1>5. Len(s) = 1 /\ s[1] = row /\ pos[0] = 0 /\ last[0] = size - 1
  BY <1>1, <1>2, Lines DEF LastLeaf
<1>6. n \in Nat /\ jobs \in [0 .. n -> Job] /\ RowOK(jobs, n)
  <2>1. n \in Nat /\ 0 .. n = Line /\ Job = Line
    BY Lines
  <2>2. \A i \in Line : absolute(i) = i /\ i \in Cells
    BY Lines DEF absolute, Cells
  <2>3. jobs \in [0 .. n -> Job] /\ jobs \in [0 .. n -> Cells] /\ \A i \in 0 .. n : jobs[i] = i
    BY <2>1, <2>2
  <2> HIDE DEF jobs, n
  <2> QED BY <2>1, <2>2, <2>3 DEF RowOK
<1>7. row \in BoundedRows(<<>>, posVect[e], jobs, best)
  OBVIOUS
<1> HIDE DEF s, pos, last, jobs, n
<1>8. \A i \in 0 .. n : row.jobs[i] < 0 =>
         \A x \in Completions(<<>>, posVect[e]) :
           x[NextSlot(<<>>, row.dir)] = absolute(row.jobs[i]) => gtBest(cost[x], best)
  BY <1>6, <1>7, BoundedRow
<1>9. Slot(s, 1) = NextSlot(<<>>, row.dir)
  <2>1. 0 \in Nat /\ Len(<<>>) = 0 /\ \A k \in 1 .. 0 : s[k].dir = <<>>[k].dir
    OBVIOUS
  <2>2. s[0 + 1].dir \in {FRONT, BACK} /\ 0 + 1 = 1
    BY <1>4, <1>5, StackDirected DEF Directed
  <2>3. Slot(s, 0 + 1) = NextSlot(<<>>, s[0 + 1].dir)
    BY <2>1, <2>2, SlotNext
  <2> QED BY <1>5, <2>2, <2>3
<1>10. ASSUME NEW x \in Schedule, x \notin Ahead(s, pos, last) PROVE gtBest(cost[x], best)
  <2>1. x \in Completions(<<>>, posVect[e])
    BY DEF Completions
  <2>2. PICK c \in 0 .. size - 1 : s[1].jobs[c] < 0 /\ x[Slot(s, 1)] = absolute(s[1].jobs[c])
    BY <1>4, <1>5, <1>10, AheadRoot
  <2> QED BY <1>5, <1>8, <1>9, <2>1, <2>2 DEF n
<1> QED BY <1>3, <1>10 DEF Ahead

\* The steps that evaluate no leaf.
Quiet(e) == setRoot(e) \/ unfold(e) \/ EnterNext(e) \/ Exhausted(e) \/ goUp(e) \/ goRight(e) \/ Branch(e)

\* They take only hopeless schedules from an explorer.
LEMMA TodoQuiet ==
  ASSUME IInv, IInv', IntervalInv, Types, BestKnown, NEW e \in Explorer, Quiet(e)
  PROVE  Todo(e)' \subseteq Todo(e) /\ \A x \in Todo(e) \ Todo(e)' : Hopeless(x)
<1>0. best \in Nat /\ local_best[e] \in Nat /\ best <= local_best[e] /\ best <= best
  BY DEF Types, BestKnown
<1>1. ASSUME NEW lb \in Nat, best <= lb, Todo(e)' \subseteq Todo(e),
             \A x \in Todo(e) \ Todo(e)' : x \in Schedule /\ gtBest(cost[x], lb)
      PROVE  Todo(e)' \subseteq Todo(e) /\ \A x \in Todo(e) \ Todo(e)' : Hopeless(x)
  BY <1>1, CutOff
<1>2. CASE setRoot(e)
  BY <1>0, <1>1, <1>2, TodoRoot
<1>3. CASE unfold(e)
  <2>1. Active(e)
    BY <1>3 DEF unfold, Active
  <2>2. CASE Down(rows[e], posVect[e], rows'[e], posVect'[e], line(e))
    <3>1. /\ Bounded(rows[e], posVect[e], rows'[e], line(e), local_best[e])
          /\ pc'[e] \in {"unfold", "ready", "in"} /\ Alone(e) /\ posVect[e][line(e)] = 0
      <4>1. rows'[e] # rows[e] /\ line(e) \in Line
        <5>1. Len(rows[e]) = line(e) + 1 /\ Len(rows'[e]) = line(e) + 2 /\ line(e) \in Line
          BY <2>2 DEF Down
        <5> QED BY <5>1, Lines
      <4>2. Bounded(rows[e], posVect[e], rows'[e], line(e), local_best[e]) /\ pc'[e] = "unfold"
        BY <1>3, <4>1, Move_unfold
      <4>3. Alone(e) /\ \A i \in Line : posVect[e][i] = 0
        BY <1>3, Move_unfold
      <4> QED BY <4>1, <4>2, <4>3
    <3> QED BY <1>0, <1>1, <2>1, <2>2, <3>1, TodoDown
  <2>3. CASE rows'[e] = rows[e] /\ posVect'[e] = posVect[e] /\ pc'[e] = "ready"
    <3>1. endVect'[e] = endVect[e]
      BY <1>3, Move_unfold DEF Alone
    <3>2. Todo(e)' = Todo(e)
      BY <2>1, <2>3, <3>1, TodoActive
    <3> QED BY <3>2
  <2> QED BY <1>3, <2>2, <2>3, Move_unfold
<1>4. CASE EnterNext(e)
  <2>1. /\ Active(e) /\ rows'[e] = rows[e] /\ posVect'[e] = posVect[e] /\ endVect'[e] = endVect[e]
        /\ pc'[e] = "in"
    BY <1>4 DEF EnterNext, Active, IInv, Shape
  <2>2. Todo(e)' = Todo(e)
    BY <2>1, TodoActive
  <2> QED BY <2>2
<1>5. CASE Exhausted(e)
  <2>1. Active(e) /\ ~LexLeq(posVect[e], endVect[e]) /\ pc'[e] = "empty"
    BY <1>5 DEF Exhausted, Active, beforeEnd, IInv, Shape
  <2>2. Ahead(rows[e], posVect[e], endVect[e]) = {}
    <3>1. /\ line(e) \in Line /\ Len(rows[e]) = line(e) + 1 /\ posVect[e] \in [Line -> Nat]
          /\ endVect[e] \in [Line -> Line] /\ Fits(line(e), posVect[e], endVect[e])
      BY <2>1, Current DEF IntervalInv, IntervalOK
    <3> QED BY <2>1, <3>1, AheadNone
  <2>3. Todo(e)' = {}
    BY <2>1 DEF Todo
  <2> QED BY <2>1, <2>2, <2>3, TodoActive
<1>6. ASSUME Active(e), Alone(e), pc'[e] = "in",
             \/ Up(rows[e], posVect[e], rows'[e], posVect'[e], line(e))
             \/ Right(rows[e], posVect[e], rows'[e], posVect'[e], line(e))
      PROVE  Todo(e)' = Todo(e)
  <2> DEFINE s == rows[e]
             pos == posVect[e]
             last == endVect[e]
             l == line(e)
             t == rows'[e]
             new == posVect'[e]
  <2>1. /\ StackOK(s, pos) /\ pos \in [Line -> Nat] /\ new \in [Line -> Nat] /\ last \in [Line -> Nat]
    <3>1. StackOK(s, pos) /\ pos \in [Line -> Nat] /\ last \in [Line -> Line]
      BY Parts
    <3>2. new \in [Line -> Nat]
      BY DEF IInv, Shape
    <3>3. last \in [Line -> Nat]
      BY <3>1, Lines
    <3> QED BY <3>1, <3>2, <3>3
  <2>2. Todo(e) = Ahead(s, pos, last) /\ Todo(e)' = Ahead(t, new, last)
    BY <1>6, TodoActive DEF Alone
  <2>3. Up(s, pos, t, new, l) \/ Right(s, pos, t, new, l)
    BY <1>6
  <2> HIDE DEF s, pos, last, l, t, new
  <2>4. Ahead(t, new, last) = Ahead(s, pos, last)
    BY <2>1, <2>3, AheadUp, AheadRight
  <2> QED BY <2>2, <2>4
<1>7. CASE goUp(e)
  <2>1. Active(e)
    BY <1>7 DEF goUp, Active
  <2>2. Todo(e)' = Todo(e)
    BY <1>6, <1>7, <2>1, NotRoot, Move_goUp
  <2> QED BY <2>2
<1>8. CASE goRight(e)
  <2>1. Active(e)
    BY <1>8 DEF goRight, Active
  <2>2. Todo(e)' = Todo(e)
    BY <1>6, <1>8, <2>1, Move_goRight
  <2> QED BY <2>2
<1>9. CASE Branch(e)
  <2>1. Active(e) /\ LexLeq(posVect[e], endVect[e])
    BY <1>9 DEF Branch, Open, Active, beforeEnd
  <2>2. /\ Down(rows[e], posVect[e], rows'[e], posVect'[e], line(e)) /\ Alone(e)
        /\ Bounded(rows[e], posVect[e], rows'[e], line(e), local_best[e])
        /\ pc'[e] \in {"unfold", "ready", "in"}
    BY <1>9, Move_Branch
  <2> QED BY <1>0, <1>1, <2>1, <2>2, TodoDown
<1> QED BY <1>2, <1>3, <1>4, <1>5, <1>7, <1>8, <1>9 DEF Quiet

\* A schedule is evaluated: it counts, and it may be the best one.
Evaluated(e, d) ==
  /\ visited' = [visited EXCEPT ![d] = @ + 1]
  /\ IF gtBest(cost[d], local_best[e])
     THEN UNCHANGED <<local_best, best>>
     ELSE /\ local_best' = [local_best EXCEPT ![e] = cost[d]]
          /\ best' = IF cost[d] < best THEN cost[d] ELSE best

\* A leaf that is visited takes the schedule that is evaluated, and only that one.
LEMMA TodoVisit ==
  ASSUME IInv, IInv', IntervalInv, NEW e \in Explorer, VisitLeaf(e)
  PROVE  \E d \in Schedule :
           /\ Evaluated(e, d) /\ d \in Todo(e) /\ d \notin Todo(e)' /\ Todo(e)' \subseteq Todo(e)
           /\ \A x \in Todo(e) : x \in Todo(e)' \/ x = d
<1> DEFINE s == rows[e]
           pos == posVect[e]
           last == endVect[e]
           l == line(e)
           t == rows'[e]
           new == posVect'[e]
           j == generateLine(Row(e, l).jobs, pos[l])[0]
           d == prepareSchedule(s, pos, j)
<1>0. Active(e) /\ LexLeq(pos, last) /\ l + 1 = size - 1
  BY DEF VisitLeaf, Open, Active, beforeEnd
<1>1. /\ Down(s, pos, t, new, l) /\ l + 2 = size /\ Alone(e) /\ pc'[e] = "in"
  BY Move_VisitLeaf
<1>2. Evaluated(e, d)
  BY DEF VisitLeaf, Evaluated
<1>3. /\ StackOK(s, pos) /\ StackOK(t, new) /\ pos \in [Line -> Nat] /\ new \in [Line -> Nat]
      /\ last \in [Line -> Nat]
  <2>1. StackOK(s, pos) /\ pos \in [Line -> Nat] /\ last \in [Line -> Line]
    BY Parts
  <2>2. StackOK(t, new) /\ new \in [Line -> Nat]
    BY DEF IInv, Matrices, Shape
  <2>3. last \in [Line -> Nat]
    BY <2>1, Lines
  <2> QED BY <2>1, <2>2, <2>3
<1>4. pos[l] <= last[l] /\ last[l + 1] = size - l - 2
  <2>1. line(e) + 1 \in Line /\ posVect[e][line(e)] < size - line(e)
    BY <1>1 DEF Down
  <2> QED BY <1>0, <2>1, HereOpen
<1>5. /\ Todo(e) = Ahead(s, pos, last) /\ Todo(e)' = Ahead(t, new, last)
  BY <1>0, <1>1, TodoActive DEF Alone
<1>6. /\ Len(s) = l + 1 /\ l \in Line /\ l \in Nat /\ Len(s) = size - 1 /\ Len(s) - 1 = l
      /\ pos[l] \in Nat /\ pos[l] < size - l /\ pos[l] \in 0 .. size - Len(s)
      /\ Row(e, l) = s[Len(s)] /\ s \in Seq(AnyRow)
  <2>1. Len(s) = l + 1 /\ l \in Line /\ l \in Int /\ pos[l] \in Nat /\ pos[l] < size - l
        /\ Row(e, l) = s[l + 1] /\ l < size /\ 0 <= l
    BY <1>0, <1>1, Current DEF Down
  <2>2. s \in Seq(AnyRow)
    BY Parts
  <2>3. l + 2 = size /\ l \in Line /\ size \in Nat
    BY <1>1, Lines DEF Down
  <2> HIDE DEF s, pos, l
  <2>4. Len(s) = size - 1 /\ Len(s) - 1 = l /\ l \in Nat /\ pos[l] \in 0 .. size - Len(s)
    BY <2>1, <2>3
  <2>5. Row(e, l) = s[Len(s)]
    BY <2>1
  <2> QED BY <2>1, <2>2, <2>3, <2>4, <2>5
<1>7. Left(s, pos, j) /\ j \in Job
  BY <1>3, <1>6, LastJob
<1>8. t[size].jobs[0] < 0
  <2>1. rows' = [rows EXCEPT ![e] = Append(@, [dir |-> FRONT, jobs |-> [i \in {0} |-> negative(j)]])]
    BY DEF VisitLeaf
  <2>2. t = Append(s, [dir |-> FRONT, jobs |-> [i \in {0} |-> negative(j)]])
    BY <2>1 DEF IInv, Shape
  <2>3. t[Len(s) + 1] = [dir |-> FRONT, jobs |-> [i \in {0} |-> negative(j)]]
    <3> HIDE DEF j, s
    <3>1. [dir |-> FRONT, jobs |-> [i \in {0} |-> negative(j)]] \in AnyRow
      <4>1. negative(j) \in Cells
        BY <1>7, Flags, Lines DEF Cells
      <4>2. [i \in {0} |-> negative(j)] \in [0 .. 0 -> Cells] /\ 0 \in Nat
        BY <4>1
      <4> QED BY <4>2 DEF AnyRow, FRONT
    <3> QED BY <1>6, <2>2, <3>1, AppendProperties
  <2>4. Len(s) + 1 = size /\ negative(j) < 0
    <3> HIDE DEF j, s, l
    <3>1. j >= 0 /\ j \in Int
      BY <1>7, Lines
    <3> QED BY <1>6, <3>1, Lines DEF negative
  <2> QED BY <2>3, <2>4
<1> HIDE DEF s, pos, last, l, t, new, j
<1>9. /\ d \in Schedule /\ d \in Ahead(s, pos, last) /\ d \notin Ahead(t, new, last)
      /\ \A x \in Ahead(s, pos, last) : x \in Ahead(t, new, last) \/ x = d
  BY <1>1, <1>3, <1>4, <1>7, <1>8, AheadLeaf
<1>10. Ahead(t, new, last) \subseteq Ahead(s, pos, last)
  BY <1>1, <1>3, <1>4, AheadDown
<1> HIDE DEF d
<1> QED BY <1>2, <1>5, <1>9, <1>10

\* Sharing divides what is ahead of the victim between victim and thief.
LEMMA TodoShared ==
  ASSUME IInv, IInv', IntervalInv, NEW v \in Explorer, NEW t \in Explorer, shareWork(v, t)
  PROVE  /\ v # t /\ Todo(t) = {} /\ Todo(v) = Todo(v)' \cup Todo(t)' /\ Todo(v)' \cap Todo(t)' = {}
         /\ \A x \in Explorer \ {v, t} : Todo(x)' = Todo(x)
<1>1. PICK l \in Line : \E cut : Shared(v, t, l, cut)
  BY Move_shareWork
<1>2. PICK cut : Shared(v, t, l, cut)
  BY <1>1
<1>3. /\ v # t /\ pc[v] = "ready" /\ pc[t] = "empty" /\ pc'[t] = "ready" /\ pc'[v] = "ready"
      /\ endVect'[t] = endVect[v] /\ posVect'[v] = posVect[v] /\ rows'[v] = rows[v]
      /\ l <= line(v) /\ Active(v)
  BY <1>2 DEF Shared, Active
<1> DEFINE pos == posVect[v]
           last == endVect[v]
           T == posVect'[t]
           E == endVect'[v]
           s == rows[v]
           r == rows'[t]
<1>4. /\ Todo(v) = Ahead(s, pos, last) /\ Todo(v)' = Ahead(s, pos, E)
      /\ Todo(t)' = Ahead(r, T, last)
  BY <1>3, TodoActive
<1>5. CutAt(pos, last, l, cut, T, E) /\ SameRows(r, s, l) /\ StackOK(s, pos)
  BY <1>2, SharedCut, Parts
<1>6. FullBelow(last, l)
  <2>1. Fits(line(v), pos, last)
    BY <1>3 DEF IntervalInv, IntervalOK
  <2>2. pos[l] # last[l]
    <3>1. pos[l] < last[l] /\ pos[l] \in Nat /\ last[l] \in Nat
      BY <1>2, Parts, Lines DEF Shared
    <3> QED BY <3>1
  <2>3. ASSUME NEW i \in Line, i > l PROVE l \in 0 .. i - 1
    BY <2>3, Lines
  <2> QED BY <2>1, <2>2, <2>3 DEF Fits, FullBelow
<1> HIDE DEF pos, last, T, E, s, r
<1>7. /\ pos \in [Line -> Nat] /\ last \in [Line -> Nat] /\ cut \in Int
      /\ T \in [Line -> Nat] /\ E \in [Line -> Nat]
  BY <1>5, CutParts
<1>8. /\ Ahead(s, pos, last) = Ahead(s, pos, E) \cup Ahead(r, T, last)
      /\ Ahead(s, pos, E) \cap Ahead(r, T, last) = {}
  BY <1>5, <1>6, <1>7, AheadShared
<1>9. Todo(t) = {}
  BY <1>3 DEF Todo
<1>10. ASSUME NEW x \in Explorer \ {v, t} PROVE Todo(x)' = Todo(x)
  <2>1. rows'[x] = rows[x] /\ posVect'[x] = posVect[x] /\ endVect'[x] = endVect[x] /\ pc'[x] = pc[x]
    BY <1>2 DEF Shared
  <2> QED BY <2>1 DEF Todo
<1> QED BY <1>3, <1>4, <1>8, <1>9, <1>10

-----------------------------------------------------------------------------
(* The invariant is kept *)

\* What a step of one explorer leaves to the others.
LEMMA TodoOthers ==
  ASSUME IInv, NEW e \in Explorer, Step(e), NEW x \in Explorer, x # e
  PROVE  Todo(x)' = Todo(x)
BY Others DEF Todo

\* Costs are numbers.
LEMMA CostNumber ==
  ASSUME Types, NEW x \in Schedule PROVE cost[x] \in Nat /\ cost[x] < Infinity /\ Infinity \in Nat
<1>1. cost \in [Schedule -> 0 .. Infinity - 1] /\ Infinity \in Nat
  BY CostAssumption DEF Types
<1>2. cost[x] \in 0 .. Infinity - 1
  BY <1>1
<1> QED BY <1>1, <1>2

\* At the start the root has all schedules ahead, and none is evaluated.
LEMMA SearchInit ==
  ASSUME Init PROVE SearchInv
<1>1. Infinity \in Nat /\ cost \in [Schedule -> 0 .. Infinity - 1]
  BY CostAssumption DEF Init
<1>2. best \in Nat /\ best <= Infinity
  <2>1. CASE best = Infinity
    BY <1>1, <2>1
  <2>2. CASE best # Infinity
    <3>1. PICK s \in Schedule : best = cost[s]
      BY <2>2 DEF Init
    <3>2. cost[s] \in 0 .. Infinity - 1
      BY <1>1
    <3> QED BY <1>1, <3>1, <3>2
  <2> QED BY <2>1, <2>2
<1>3. Types
  BY <1>1, <1>2 DEF Types, Init
<1>4. /\ Todo(0) = Schedule /\ 0 \in Explorer
      /\ \A e \in Explorer : e # 0 => Todo(e) = {}
  BY ExplorerAssumption DEF Init, Todo
<1>5. Apart
  BY <1>4 DEF Apart
<1>6. Once
  <2>1. \A x \in Schedule : visited[x] = 0
    BY DEF Init
  <2> QED BY <2>1 DEF Once
<1>7. Covered
  BY <1>4 DEF Covered
<1>8. BestKnown
  BY <1>2 DEF BestKnown, Init
<1> QED BY <1>3, <1>5, <1>6, <1>7, <1>8 DEF SearchInv

\* Less to do for one explorer, the others as before: still nothing is ahead of two.
LEMMA StillApart ==
  ASSUME IInv, Apart, NEW e \in Explorer, Step(e), Todo(e)' \subseteq Todo(e)
  PROVE  Apart'
<1> SUFFICES ASSUME NEW f \in Explorer, NEW g \in Explorer, f # g
             PROVE  Todo(f)' \cap Todo(g)' = {}
  BY DEF Apart
<1>1. Todo(f)' \subseteq Todo(f) /\ Todo(g)' \subseteq Todo(g)
  <2>1. \A x \in Explorer : x # e => Todo(x)' = Todo(x)
    BY TodoOthers
  <2> QED BY <2>1
<1>2. Todo(f) \cap Todo(g) = {}
  BY DEF Apart
<1> QED BY <1>1, <1>2

\* A step that evaluates nothing: what it takes away is settled.
LEMMA SearchQuiet ==
  ASSUME IInv, IInv', IntervalInv, SearchInv, NEW e \in Explorer, Quiet(e) PROVE SearchInv'
<1>1. Types /\ Apart /\ Once /\ Covered /\ BestKnown
  BY DEF SearchInv
<1>2. Step(e)
  BY DEF Quiet, Step
<1>3. Todo(e)' \subseteq Todo(e) /\ \A x \in Todo(e) \ Todo(e)' : Hopeless(x)
  BY <1>1, TodoQuiet
<1>4. /\ cost' = cost /\ best' = best /\ visited' = visited
      /\ local_best' = local_best \/ local_best' = [local_best EXCEPT ![e] = best]
  BY DEF Quiet, setRoot, unfold, EnterNext, Exhausted, goUp, goRight, Branch
<1>5. \A x \in Explorer : Todo(x)' \subseteq Todo(x) /\ (x # e => Todo(x)' = Todo(x))
  BY <1>2, <1>3, TodoOthers
<1>6. Types'
  BY <1>1, <1>4 DEF Types
<1>7. Apart'
  BY <1>1, <1>2, <1>3, StillApart
<1>8. Once'
  BY <1>1, <1>4, <1>5 DEF Once
<1>9. Covered'
  <2> SUFFICES ASSUME NEW x \in Schedule, \A f \in Explorer : x \notin Todo(f)'
               PROVE  Settled(x)'
    BY DEF Covered
  <2>1. CASE \E f \in Explorer : x \in Todo(f)
    <3>1. x \in Todo(e) \ Todo(e)'
      BY <1>5, <2>1
    <3> QED BY <1>3, <1>4, <3>1 DEF Settled, Hopeless
  <2>2. CASE Settled(x)
    BY <1>4, <2>2 DEF Settled
  <2> QED BY <1>1, <2>1, <2>2 DEF Covered
<1>10. BestKnown'
  BY <1>1, <1>4 DEF BestKnown, Types
<1> QED BY <1>6, <1>7, <1>8, <1>9, <1>10 DEF SearchInv

\* A visit: the schedule that is evaluated is settled and never comes again.
LEMMA SearchVisit ==
  ASSUME IInv, IInv', IntervalInv, SearchInv, NEW e \in Explorer, VisitLeaf(e) PROVE SearchInv'
<1>1. Types /\ Apart /\ Once /\ Covered /\ BestKnown
  BY DEF SearchInv
<1>2. Step(e) /\ cost' = cost
  BY DEF Step, VisitLeaf
<1>3. PICK d \in Schedule :
        /\ Evaluated(e, d) /\ d \in Todo(e) /\ d \notin Todo(e)' /\ Todo(e)' \subseteq Todo(e)
        /\ \A x \in Todo(e) : x \in Todo(e)' \/ x = d
  BY TodoVisit
<1>4. /\ visited' = [visited EXCEPT ![d] = visited[d] + 1] /\ visited \in [Schedule -> Nat]
      /\ visited[d] = 0
  <2>1. visited \in [Schedule -> Nat] /\ visited[d] <= 1 /\ visited[d] # 1
    BY <1>1, <1>3 DEF Types, Once
  <2> QED BY <1>3, <2>1 DEF Evaluated
<1>5. visited' \in [Schedule -> Nat] /\ \A x \in Schedule : visited'[x] = IF x = d THEN 1 ELSE visited[x]
  BY <1>4
<1>6. \A x \in Explorer : Todo(x)' \subseteq Todo(x) /\ (x # e => Todo(x)' = Todo(x))
  BY <1>2, <1>3, TodoOthers
<1>7. \A f \in Explorer : d \notin Todo(f)'
  <2>1. \A f \in Explorer : f # e => d \notin Todo(f)
    BY <1>1, <1>3 DEF Apart
  <2> QED BY <1>3, <1>6, <2>1
<1>8. cost[d] \in Nat /\ best \in Nat /\ local_best \in [Explorer -> Nat] /\ best <= local_best[e]
  BY <1>1, CostNumber DEF Types, BestKnown
<1>9. /\ best' \in Nat /\ best' <= best /\ best' <= cost[d]
      /\ local_best' \in [Explorer -> Nat]
      /\ \A f \in Explorer : local_best'[f] = local_best[f] \/ local_best'[f] = cost[d]
  <2>1. CASE gtBest(cost[d], local_best[e])
    <3>1. UNCHANGED <<local_best, best>>
      BY <1>3, <2>1 DEF Evaluated
    <3>2. cost[d] >= local_best[e]
      BY <1>8, <2>1 DEF gtBest
    <3> QED BY <1>8, <3>1, <3>2
  <2>2. CASE ~gtBest(cost[d], local_best[e])
    <3>1. /\ local_best' = [local_best EXCEPT ![e] = cost[d]]
          /\ best' = IF cost[d] < best THEN cost[d] ELSE best
      BY <1>3, <2>2 DEF Evaluated
    <3> QED BY <1>8, <3>1
  <2> QED BY <2>1, <2>2
<1>10. Types'
  BY <1>1, <1>2, <1>5, <1>9 DEF Types
<1>11. Apart'
  BY <1>1, <1>2, <1>3, StillApart
<1>12. Once'
  BY <1>1, <1>5, <1>6, <1>7 DEF Once
<1>13. Covered'
  <2> SUFFICES ASSUME NEW x \in Schedule, \A f \in Explorer : x \notin Todo(f)'
               PROVE  Settled(x)'
    BY DEF Covered
  <2>1. CASE x = d
    BY <1>2, <1>5, <1>9, <2>1 DEF Settled
  <2>2. CASE x # d
    <3>1. \A f \in Explorer : x \notin Todo(f)
      BY <1>3, <1>6, <2>2
    <3>2. Settled(x) /\ cost[x] \in Nat
      BY <1>1, <3>1, CostNumber DEF Covered
    <3>3. best' <= cost[x] /\ (cost[x] > best => cost[x] > best')
      BY <1>8, <1>9, <3>2 DEF Settled
    <3>4. visited'[x] = visited[x] /\ cost'[x] = cost[x]
      BY <1>2, <1>5, <2>2
    <3> QED BY <3>2, <3>3, <3>4 DEF Settled
  <2> QED BY <2>1, <2>2
<1>14. BestKnown'
  <2> SUFFICES ASSUME NEW f \in Explorer PROVE best' <= local_best'[f]
    BY DEF BestKnown
  <2>1. best <= local_best[f] /\ local_best[f] \in Nat
    BY <1>1 DEF BestKnown, Types
  <2> QED BY <1>8, <1>9, <2>1
<1> QED BY <1>10, <1>11, <1>12, <1>13, <1>14 DEF SearchInv

\* Sharing moves schedules from one explorer to another.
LEMMA SearchShared ==
  ASSUME IInv, IInv', IntervalInv, SearchInv, NEW v \in Explorer, NEW t \in Explorer, shareWork(v, t)
  PROVE  SearchInv'
<1>1. Types /\ Apart /\ Once /\ Covered /\ BestKnown
  BY DEF SearchInv
<1>2. /\ v # t /\ Todo(t) = {} /\ Todo(v) = Todo(v)' \cup Todo(t)' /\ Todo(v)' \cap Todo(t)' = {}
      /\ \A x \in Explorer \ {v, t} : Todo(x)' = Todo(x)
  BY TodoShared
<1>3. UNCHANGED <<local_best, best, cost, visited>>
  BY DEF shareWork
<1>4. \A x \in Explorer : Todo(x)' \subseteq IF x = t THEN Todo(v) ELSE Todo(x)
  BY <1>2
<1>5. Types' /\ BestKnown'
  BY <1>1, <1>3 DEF Types, BestKnown
<1>6. Apart'
  <2> SUFFICES ASSUME NEW f \in Explorer, NEW g \in Explorer, f # g
               PROVE  Todo(f)' \cap Todo(g)' = {}
    BY DEF Apart
  <2>1. CASE {f, g} = {v, t}
    BY <1>2, <2>1
  <2>2. CASE f \notin {v, t}
    <3>1. Todo(f) \cap Todo(g) = {} /\ Todo(f) \cap Todo(v) = {}
      BY <1>1, <2>2 DEF Apart
    <3> QED BY <1>4, <2>2, <3>1
  <2>3. CASE g \notin {v, t}
    <3>1. Todo(f) \cap Todo(g) = {} /\ Todo(g) \cap Todo(v) = {}
      BY <1>1, <2>3 DEF Apart
    <3> QED BY <1>4, <2>3, <3>1
  <2> QED BY <2>1, <2>2, <2>3
<1>7. Once'
  BY <1>1, <1>3, <1>4 DEF Once
<1>8. Covered'
  <2> SUFFICES ASSUME NEW x \in Schedule, \A f \in Explorer : x \notin Todo(f)'
               PROVE  Settled(x)'
    BY DEF Covered
  <2>1. \A f \in Explorer : x \notin Todo(f)
    BY <1>2
  <2>2. Settled(x)
    BY <1>1, <2>1 DEF Covered
  <2> QED BY <1>3, <2>2 DEF Settled
<1> QED BY <1>5, <1>6, <1>7, <1>8 DEF SearchInv

\* Every step keeps the invariant.
LEMMA SearchStep ==
  ASSUME IInv, IInv', IntervalInv, SearchInv, [Next]_vars PROVE SearchInv'
<1>1. ASSUME NEW e \in Explorer, Step(e) PROVE SearchInv'
  BY <1>1, SearchQuiet, SearchVisit DEF Step, Quiet
<1>2. ASSUME NEW v \in Explorer, NEW t \in Explorer, shareWork(v, t) PROVE SearchInv'
  BY <1>2, SearchShared
<1>3. CASE UNCHANGED vars
  <2>1. /\ rows' = rows /\ posVect' = posVect /\ endVect' = endVect /\ pc' = pc
        /\ best' = best /\ cost' = cost /\ visited' = visited /\ local_best' = local_best
    BY <1>3 DEF vars
  <2>2. \A x \in Explorer : Todo(x)' = Todo(x)
    BY <2>1 DEF Todo
  <2>3. \A x \in Schedule : Settled(x)' = Settled(x)
    BY <2>1 DEF Settled
  <2>4. Types' /\ BestKnown'
    BY <2>1 DEF SearchInv, Types, BestKnown
  <2>5. Apart' /\ Once'
    BY <2>1, <2>2 DEF SearchInv, Apart, Once
  <2>6. Covered'
    BY <2>2, <2>3 DEF SearchInv, Covered
  <2> QED BY <2>4, <2>5, <2>6 DEF SearchInv
<1> QED BY <1>1, <1>2, <1>3 DEF Next, Finished

-----------------------------------------------------------------------------
(* Theorems *)

\* What is ahead of the explorers, what was evaluated and what is settled are all
\* schedules, without overlap, however intervals are branched, cut off and shared.
THEOREM SearchKept == Spec => []SearchInv
<1>1. Init => SearchInv
  BY SearchInit
<1>2. IInv /\ IInv' /\ IntervalInv /\ SearchInv /\ [Next]_vars => SearchInv'
  BY SearchStep
<1> QED BY <1>1, <1>2, Invariant, IntervalsKept, PTL DEF Spec

\* The variables of the explorers have their types at all times.
THEOREM TypesKept == Spec => []TypeOK
<1>1. IInv /\ IntervalInv /\ SearchInv => TypeOK
  <2> SUFFICES ASSUME IInv, IntervalInv, SearchInv PROVE TypeOK
    OBVIOUS
  <2>1. Shape /\ Types
    BY DEF IInv, SearchInv
  <2>2. posVect \in [Explorer -> [Line -> 0 .. size]]
    <3>1. \A e \in Explorer : \A i \in Line : posVect[e][i] \in 0 .. size
      <4> TAKE e \in Explorer
      <4> TAKE i \in Line
      <4>1. posVect[e][i] \in 0 .. size - i
        BY DEF IntervalInv, IntervalOK, Digits
      <4> QED BY <4>1, Lines
    <3>2. posVect \in [Explorer -> [Line -> Nat]]
      BY <2>1 DEF Shape
    <3>3. \A e \in Explorer : posVect[e] \in [Line -> 0 .. size]
      BY <3>1, <3>2
    <3> QED BY <3>2, <3>3
  <2>3. ASSUME NEW e \in Explorer
        PROVE  /\ Len(rows[e]) <= size
               /\ \A r \in DOMAIN rows[e] :
                    /\ rows[e][r].dir \in {FRONT, BACK}
                    /\ rows[e][r].jobs \in [0 .. size - r -> -size .. size - 1]
    <3>1. StackOK(rows[e], posVect[e]) /\ rows[e] \in Seq(AnyRow)
      BY Parts
    <3>2. DOMAIN rows[e] = 1 .. Len(rows[e])
      BY <3>1, LenProperties
    <3>3. Len(rows[e]) <= size /\ \A r \in 1 .. Len(rows[e]) : RowOK(rows[e][r].jobs, size - r)
      BY <3>1 DEF StackOK
    <3>4. \A r \in DOMAIN rows[e] : rows[e][r] \in AnyRow
      BY <3>1, ElementOfSeq, <3>2
    <3> QED BY <3>2, <3>3, <3>4 DEF AnyRow, RowOK, Cells
  <2>4. best \in Int /\ local_best \in [Explorer -> Int] /\ visited \in [Schedule -> Nat]
    BY <2>1 DEF Types
  <2> QED BY <2>1, <2>2, <2>3, <2>4 DEF TypeOK, Shape
<1> QED BY <1>1, Invariant, IntervalsKept, SearchKept, PTL

\* No schedule is evaluated twice, by one explorer or by two.
THEOREM EvaluatedOnce == Spec => []VisitedOnce
<1>1. SearchInv => VisitedOnce
  BY DEF SearchInv, Once, VisitedOnce
<1> QED BY <1>1, SearchKept, PTL

\* When all explorers are done, the best cost is that of an optimal schedule.
THEOREM BestIsOptimal == Spec => []Exact
<1>1. SearchInv => Exact
  <2> SUFFICES ASSUME SearchInv, Done, NEW s \in Schedule PROVE best <= cost[s]
    BY DEF Exact
  <2>1. \A e \in Explorer : s \notin Todo(e)
    BY DEF Done, Todo
  <2> QED BY <2>1 DEF SearchInv, Covered, Settled
<1> QED BY <1>1, SearchKept, PTL

\* With findAll, every optimal schedule was evaluated when all explorers are done.
THEOREM OptimaEvaluated == Spec => []AllOptimaVisited
<1>1. SearchInv => AllOptimaVisited
  <2> SUFFICES ASSUME SearchInv, findAll, Done, NEW s \in Schedule, cost[s] = best
               PROVE  visited[s] > 0
    BY DEF AllOptimaVisited
  <2>1. \A e \in Explorer : s \notin Todo(e)
    BY DEF Done, Todo
  <2>2. visited[s] > 0 \/ cost[s] > best
    BY <2>1 DEF SearchInv, Covered, Settled
  <2>3. best \in Nat
    BY DEF SearchInv, Types
  <2> QED BY <2>2, <2>3
<1> QED BY <1>1, SearchKept, PTL

=============================================================================
