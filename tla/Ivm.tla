-------------------------------- MODULE Ivm ---------------------------------
(***************************************************************************)
(* The exploration of the permutation tree on Integer-Vector-Matrix        *)
(* structures (multicore/src/ivm.cpp, ivm_bound.cpp, sequentialbb.cpp) by  *)
(* a set of explorers that share work (bbthread::shareWork).               *)
(*                                                                         *)
(* An IVM is a stack of rows, the position and the end vector.  Row l      *)
(* holds the jobs that can be scheduled at depth l, a pruned or finished   *)
(* job being flagged as -job-1, and the direction (front or back) in which *)
(* depth l fills the schedule.  Rows below the current line are always     *)
(* regenerated before they are read and are not kept.                      *)
(*                                                                         *)
(* The bound is any admissible one: a child may be pruned when none of its *)
(* completions can improve on the best cost the explorer knows.  The       *)
(* direction of a row, a heuristic of chooseChildrenSet, may be either.    *)
(***************************************************************************)
EXTENDS Integers, FiniteSetsExt, SequencesExt

CONSTANTS
  size,      \* number of jobs
  Explorer,  \* the explorers (threads), numbered from 0; 0 starts with all
  Costs,     \* cost functions of the instances to solve
  sortNodes, \* arguments::sortNodes: 0, or siblings are sorted by some key
  branchingMode, \* arguments::branchingMode, how rows get their direction
  findAll,   \* arguments::findAll: visit every optimal solution
  Margin     \* shareWork does not descend below line size - Margin (10 there)

ASSUME SizeAssumption == size \in Nat /\ size >= 2
ASSUME ExplorerAssumption == 0 \in Explorer
ASSUME FlagAssumption == /\ findAll \in BOOLEAN
                         /\ sortNodes \in Nat
                         /\ branchingMode \in {-3, -2, -1, 1, 2, 3}

Line == 0 .. size - 1
Job  == 0 .. size - 1
FRONT == 0
BACK  == 1

\* Schedules, as sequences of jobs.
Schedule == {s \in [1 .. size -> Job] : IsInjective(s)}

\* The leaves of the tree: one digit per line, the column taken there.
Leaf == {d \in [Line -> Line] : \A l \in Line : d[l] < size - l}

VARIABLES
  pc,         \* "root", "unfold": being set up; "in": inside next();
              \* "ready": next() returned true; "empty": it returned false
  rows,       \* rows[e]: rows of jobMat and dirVect down to the current line
  posVect,    \* posVect[e]
  endVect,    \* endVect[e], the last leaf of e's interval
  local_best, \* best cost known to explorer e
  best,       \* solution::cost, the best cost known to all
  cost,       \* the instance: cost[s] is the makespan of schedule s
  visited     \* schedules evaluated so far, once per visit (history)

vars == <<pc, rows, posVect, endVect, local_best, best, cost, visited>>

-----------------------------------------------------------------------------
(* misc.h *)

negative(i) == IF i < 0 THEN i ELSE -i - 1
absolute(i) == IF i >= 0 THEN i ELSE -i - 1

-----------------------------------------------------------------------------
(* ivm.cpp *)

line(e) == Len(rows[e]) - 1
Row(e, l) == rows[e][l + 1]
Cell(e) == Row(e, line(e)).jobs[posVect[e][line(e)]]

lineEndState(e) == posVect[e][line(e)] >= size - line(e)

\* Mutant: the flag of job 0 is job 0.
pruningWithoutOffset(e) == Cell(e) <= 0
pruningCellState(e) == Cell(e) < 0

\* v is lexicographically at or before w.
LexLeq(v, w) ==
  \A l \in Line : v[l] > w[l] => \E k \in 0 .. l - 1 : v[k] < w[k]

beforeEnd(e) == LexLeq(posVect[e], endVect[e])

\* Mutant: the pointed job is kept and its neighbour dropped.
generateShifted(above, column) ==
  [i \in 0 .. Cardinality(DOMAIN above) - 2 |->
     absolute(above[IF i <= column THEN i ELSE i + 1])]

\* generateLine: the jobs of the row above without the one it points at.
generateLine(above, column) ==
  [i \in 0 .. Cardinality(DOMAIN above) - 2 |->
     absolute(above[IF i < column THEN i ELSE i + 1])]

\* The first column after pos with half of the explorable columns up to the
\* end between pos and it.
cuttingPosition(jobs, pos, end, division) ==
  LET explorable(a, b) == Cardinality({i \in a .. b : jobs[i] >= 0})
      keep == explorable(pos + 1, end) \div division
  IN Min({p \in pos + 1 .. end + 1 : explorable(pos + 1, p - 1) = keep})

-----------------------------------------------------------------------------
(* ivm_bound.cpp *)

\* prepareSchedule: the place in the schedule that row r of a stack fills, the
\* next one at the front or at the back, and the job it puts there.
Filled(stack, r, dir) == Cardinality({k \in 1 .. r : stack[k].dir = dir})
Slot(stack, r) == IF stack[r].dir = FRONT THEN Filled(stack, r, FRONT)
                                          ELSE size + 1 - Filled(stack, r, BACK)
PointedJob(stack, pos, r) == absolute(stack[r].jobs[pos[r - 1]])

\* The place that one more row would fill.
NextSlot(stack, dir) == IF dir = FRONT THEN Filled(stack, Len(stack), FRONT) + 1
                                       ELSE size - Filled(stack, Len(stack), BACK)

\* The schedule that a stack and the job that is left make.
prepareSchedule(stack, pos, last) ==
  [i \in 1 .. size |->
     IF \E r \in DOMAIN stack : Slot(stack, r) = i
     THEN PointedJob(stack, pos, CHOOSE r \in DOMAIN stack : Slot(stack, r) = i)
     ELSE last]

\* The schedules below the node that a stack points at.
Completions(stack, pos) ==
  {s \in Schedule : \A r \in DOMAIN stack : s[Slot(stack, r)] = PointedJob(stack, pos, r)}

\* Mutant: equally good solutions are cut off in both modes.
gtOrEqual(val, lb) == val >= lb
gtBest(val, lb) == IF findAll THEN val > lb ELSE val >= lb

\* The jobs whose subtree an admissible bound may cut off, when the row that
\* holds them extends the node to the given side.
Prunable(stack, pos, jobs, dir, lb) ==
  {j \in jobs : \A s \in Completions(stack, pos) :
                  s[NextSlot(stack, dir)] = j => gtBest(cost[s], lb)}

\* The directions that the row at depth l may get: fixed by the mode, or the
\* outcome of a heuristic.
chooseChildrenSet(l) ==
  CASE branchingMode = -3 -> {IF l % 2 = 1 THEN BACK ELSE FRONT}
    [] branchingMode = -2 -> {BACK}
    [] branchingMode = -1 -> {FRONT}
    [] OTHER              -> {FRONT, BACK}

\* weakBoundPrune, mixedBoundPrune, strongBoundPrune: the row takes a direction,
\* its siblings are ordered, and some of those that may be are flagged.
Columns(jobs) == Cardinality(DOMAIN jobs)
Orders(jobs, prev_dir, dir) ==
  IF sortNodes = 0
  THEN {IF prev_dir = dir THEN jobs
        ELSE [i \in DOMAIN jobs |-> jobs[Columns(jobs) - 1 - i]]}
  ELSE {[i \in DOMAIN jobs |-> jobs[p[i]]] :
          p \in {q \in [DOMAIN jobs -> DOMAIN jobs] : IsInjective(q)}}

BoundedRows(stack, pos, jobs, lb) ==
  LET prev_dir == IF stack = <<>> THEN FRONT ELSE Last(stack).dir
      free == {jobs[i] : i \in DOMAIN jobs}
      flagged(order, cut) ==
        [i \in DOMAIN jobs |-> IF order[i] \in cut THEN negative(order[i]) ELSE order[i]]
      options(dir) ==
        UNION {{[dir |-> dir, jobs |-> flagged(order, cut)] :
                  cut \in SUBSET Prunable(stack, pos, free, dir, lb)} :
               order \in Orders(jobs, prev_dir, dir)}
  IN UNION {options(dir) : dir \in chooseChildrenSet(Len(stack))}

-----------------------------------------------------------------------------

Infinity == 1 + Max({c[s] : c \in Costs, s \in Schedule})  \* INT_MAX

\* Makespans are not negative and below INT_MAX.
ASSUME CostAssumption ==
  /\ Infinity \in Nat
  /\ \A c \in Costs : c \in [Schedule -> 0 .. Infinity - 1]

Init ==
  /\ cost \in Costs
  /\ best \in {cost[s] : s \in Schedule} \cup {Infinity}  \* buildInitialUB
  /\ pc = [e \in Explorer |-> IF e = 0 THEN "root" ELSE "empty"]
  /\ rows = [e \in Explorer |-> <<>>]
  /\ posVect = [e \in Explorer |-> [l \in Line |-> IF l = 0 THEN size ELSE 0]]
  /\ endVect = [e \in Explorer |-> [l \in Line |-> 0]]
  /\ local_best = [e \in Explorer |-> Infinity]
  /\ visited = [s \in Schedule |-> 0]

\* initFullInterval: the interval ends with the last leaf.
\* Mutant: one column too many.
PastLastLeaf == [l \in Line |-> size - l]
LastLeaf == [l \in Line |-> size - l - 1]

\* setRoot: the root is bounded; then initFullInterval.
setRoot(e) ==
  /\ pc[e] = "root"
  /\ \E row \in BoundedRows(<<>>, posVect[e], [i \in Line |-> i], best) :
       rows' = [rows EXCEPT ![e] = <<row>>]
  /\ local_best' = [local_best EXCEPT ![e] = best]
  /\ posVect' = [posVect EXCEPT ![e] = [l \in Line |-> 0]]
  /\ endVect' = [endVect EXCEPT ![e] = LastLeaf]
  /\ pc' = [pc EXCEPT ![e] = "unfold"]
  /\ UNCHANGED <<best, cost, visited>>

\* Push a new bounded row below the cell e points at.
PushRow(e) ==
  \E row \in BoundedRows(rows[e], posVect[e],
                         generateLine(Row(e, line(e)).jobs, posVect[e][line(e)]),
                         local_best[e]) :
    rows' = [rows EXCEPT ![e] = Append(@, row)]

\* unfold: one turn of its loop.
unfold(e) ==
  /\ pc[e] = "unfold"
  /\ IF line(e) < size - 2 /\ ~pruningCellState(e)
       THEN PushRow(e) /\ UNCHANGED <<posVect, pc>>
       ELSE /\ posVect' = [posVect EXCEPT ![e] =
                 IF line(e) < size - 2
                 THEN [l \in Line |-> IF l > line(e) THEN 0 ELSE @[l]]
                 ELSE @]
            /\ pc' = [pc EXCEPT ![e] = "ready"]
            /\ UNCHANGED rows
  /\ UNCHANGED <<endVect, local_best, best, cost, visited>>

-----------------------------------------------------------------------------
(* sequentialbb::next *)

\* The call: the shared best cost is read once.
EnterNext(e) ==
  /\ pc[e] = "ready"
  /\ local_best' = [local_best EXCEPT ![e] = best]
  /\ pc' = [pc EXCEPT ![e] = "in"]
  /\ UNCHANGED <<rows, posVect, endVect, best, cost, visited>>

\* The interval is exhausted: next() returns false.
Exhausted(e) ==
  /\ pc[e] = "in"
  /\ ~beforeEnd(e)
  /\ pc' = [pc EXCEPT ![e] = "empty"]
  /\ UNCHANGED <<rows, posVect, endVect, local_best, best, cost, visited>>

\* Backtrack: the cell that led to the finished row is flagged.
goUp(e) ==
  /\ pc[e] = "in"
  /\ beforeEnd(e) /\ lineEndState(e)
  /\ LET l == line(e)
         p == posVect[e][l - 1]
     IN /\ posVect' = [posVect EXCEPT ![e][l] = 0]
        /\ rows' = [rows EXCEPT ![e] =
             [Front(rows[e]) EXCEPT ![l].jobs[p] = negative(@)]]
  /\ UNCHANGED <<pc, endVect, local_best, best, cost, visited>>

\* Skip a flagged cell.
\* Mutant: the position wraps around.
goRoundRight(e) ==
  /\ pc[e] = "in"
  /\ beforeEnd(e) /\ ~lineEndState(e) /\ pruningCellState(e)
  /\ posVect' = [posVect EXCEPT ![e][line(e)] = (@ + 1) % (size - line(e))]
  /\ UNCHANGED <<pc, rows, endVect, local_best, best, cost, visited>>
goRight(e) ==
  /\ pc[e] = "in"
  /\ beforeEnd(e) /\ ~lineEndState(e) /\ pruningCellState(e)
  /\ posVect' = [posVect EXCEPT ![e][line(e)] = @ + 1]
  /\ UNCHANGED <<pc, rows, endVect, local_best, best, cost, visited>>

Open(e) ==
  /\ pc[e] = "in"
  /\ beforeEnd(e) /\ ~lineEndState(e) /\ ~pruningCellState(e)

\* goDown to an inner node, which is bounded: next() returns true.
Branch(e) ==
  /\ Open(e)
  /\ line(e) + 1 < size - 1
  /\ PushRow(e)
  /\ posVect' = [posVect EXCEPT ![e][line(e) + 1] = 0]
  /\ pc' = [pc EXCEPT ![e] = "ready"]
  /\ UNCHANGED <<endVect, local_best, best, cost, visited>>

\* goDown to a leaf and boundLeaf: its cost may become the best one, under the
\* mutex of the shared solution, and its cell is flagged.
VisitLeaf(e) ==
  /\ Open(e)
  /\ line(e) + 1 = size - 1
  /\ LET last == generateLine(Row(e, line(e)).jobs, posVect[e][line(e)])[0]
         s == prepareSchedule(rows[e], posVect[e], last)
     IN /\ visited' = [visited EXCEPT ![s] = @ + 1]
        /\ IF gtBest(cost[s], local_best[e])
             THEN UNCHANGED <<local_best, best>>
             ELSE /\ local_best' = [local_best EXCEPT ![e] = cost[s]]
                  /\ best' = IF cost[s] < best THEN cost[s] ELSE best
        /\ rows' = [rows EXCEPT ![e] =
             Append(@, [dir |-> FRONT, jobs |-> [i \in {0} |-> negative(last)]])]
  /\ posVect' = [posVect EXCEPT ![e][size - 1] = 0]
  /\ UNCHANGED <<pc, endVect, cost>>

-----------------------------------------------------------------------------
(* bbthread.cpp *)

\* The line at which the victim's interval is cut.
\* Mutant: always the current one.
CurrentLine(v) == line(v)
ShareLine(v) ==
  Min({l \in 0 .. line(v) :
         \/ posVect[v][l] # endVect[v][l]
         \/ l = line(v)
         \/ l >= size - Margin})

\* The first leaf of the thief: aligned left below the line that is cut.
\* Mutant: the column of the cut is taken for the victim's.
ThiefLate(v, l, cut) ==
  [i \in Line |-> IF i < l THEN posVect[v][i] ELSE IF i = l THEN cut + 1 ELSE 0]
ThiefPos(v, l, cut) ==
  [i \in Line |-> IF i < l THEN posVect[v][i] ELSE IF i = l THEN cut ELSE 0]

\* The last leaf of the victim: aligned right below that line.
\* Mutant: the victim keeps the column of the cut.
VictimOverlap(v, l, cut) ==
  [i \in Line |-> IF i < l THEN endVect[v][i] ELSE IF i = l THEN cut ELSE size - i - 1]
VictimEnd(v, l, cut) ==
  [i \in Line |-> IF i < l THEN endVect[v][i]
                 ELSE IF i = l THEN cut - 1 ELSE size - i - 1]

\* shareWork: the thief gets the right part of the columns of that line.
shareWork(v, t) ==
  LET l == ShareLine(v)
      cut == cuttingPosition(Row(v, l).jobs, posVect[v][l], endVect[v][l], 2)
  IN /\ v # t
     /\ pc[v] = "ready" /\ pc[t] = "empty"
     /\ posVect[v][l] < endVect[v][l]
     /\ rows' = [rows EXCEPT ![t] = SubSeq(rows[v], 1, l + 1)]
     /\ posVect' = [posVect EXCEPT ![t] = ThiefPos(v, l, cut)]
     /\ endVect' = [endVect EXCEPT ![t] = endVect[v], ![v] = VictimEnd(v, l, cut)]
     /\ pc' = [pc EXCEPT ![t] = "ready"]
     /\ UNCHANGED <<local_best, best, cost, visited>>

Done == \A e \in Explorer : pc[e] = "empty"
Finished == Done /\ UNCHANGED vars

Step(e) ==
  \/ setRoot(e)
  \/ unfold(e)
  \/ EnterNext(e)
  \/ Exhausted(e)
  \/ goUp(e)
  \/ goRight(e)
  \/ Branch(e)
  \/ VisitLeaf(e)

Next ==
  \/ \E e \in Explorer : Step(e)
  \/ \E v, t \in Explorer : shareWork(v, t)
  \/ Finished

Spec == Init /\ [][Next]_vars /\ \A e \in Explorer : WF_vars(Step(e))

-----------------------------------------------------------------------------
(* Properties *)

TypeOK ==
  /\ pc \in [Explorer -> {"root", "unfold", "ready", "in", "empty"}]
  /\ \A e \in Explorer :
       /\ Len(rows[e]) <= size
       /\ \A r \in DOMAIN rows[e] :
            /\ rows[e][r].dir \in {FRONT, BACK}
            /\ rows[e][r].jobs \in [0 .. size - r -> -size .. size - 1]
  /\ posVect \in [Explorer -> [Line -> 0 .. size]]
  /\ endVect \in [Explorer -> [Line -> Line]]
  /\ best \in Int /\ local_best \in [Explorer -> Int]
  /\ visited \in [Schedule -> Nat]

\* B&B is exact: when all explorers are done, the best cost is the cheapest of
\* the initial solution and all schedules.
Exact == Done => \A s \in Schedule : best <= cost[s]

\* With findAll, every optimal schedule is among those that were evaluated.
AllOptimaVisited ==
  findAll /\ Done => \A s \in Schedule : cost[s] = best => visited[s] > 0

\* No two explorers, and no explorer twice, evaluate the same schedule.
VisitedOnce == \A s \in Schedule : visited[s] <= 1

\* Each row of a matrix holds, in some order, exactly the jobs that the lines
\* above it leave free, so that every decoded schedule is a permutation.
RowsArePermutations ==
  \A e \in Explorer : \A r \in DOMAIN rows[e] :
    LET jobs(k) == {absolute(rows[e][k].jobs[i]) : i \in DOMAIN rows[e][k].jobs}
        pointed(k) == absolute(rows[e][k].jobs[posVect[e][k - 1]])
    IN jobs(r) = Job \ {pointed(k) : k \in 1 .. r - 1}

\* The cut of a shared line leaves the victim its current column and gives the
\* thief at least one, so that the error exits of cuttingPosition are not taken.
CutInside ==
  \A v \in Explorer : pc[v] = "ready" =>
    LET l == ShareLine(v) IN
    posVect[v][l] < endVect[v][l] =>
      cuttingPosition(Row(v, l).jobs, posVect[v][l], endVect[v][l], 2)
        \in posVect[v][l] + 1 .. endVect[v][l]

\* The leaves that e has to visit yet: those of its interval that are not below
\* a flagged cell.
OpenLeaves(e) ==
  {d \in Leaf :
     /\ LexLeq(posVect[e], d) /\ LexLeq(d, endVect[e])
     /\ ~\E r \in DOMAIN rows[e] :
           /\ \A k \in 0 .. r - 2 : d[k] = posVect[e][k]
           /\ rows[e][r].jobs[d[r - 1]] < 0}

\* Intervals, cells and cuts implement the pool of work: explorers own disjoint
\* sets of leaves, a leaf leaves by being visited or bounded, and sharing an
\* interval moves leaves to an explorer that has none.
Pool == INSTANCE WorkPool
          WITH pool <- [e \in Explorer |-> IF pc[e] = "root"
                                           THEN Leaf ELSE OpenLeaves(e)],
               over <- FALSE, Exhaustive <- TRUE
ImplementsPool == Pool!Spec

\* The exploration comes to an end.
Termination == <>Done
=============================================================================
