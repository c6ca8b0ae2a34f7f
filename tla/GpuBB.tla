-------------------------------- MODULE GpuBB -------------------------------
(***************************************************************************)
(* Branch and bound on the device (gpu/src/gpubb.cu, bb_kernels.cu,        *)
(* gpu/include/gpu_ivm_navi.cuh, gpu_interval.cuh, loadbalance.cuh), from  *)
(* the upper bound of the initial heuristic on.                            *)
(*                                                                         *)
(* All IVMs take each step at the same time, a warp per IVM and kernel     *)
(* after kernel; the host evaluates the leaves.  An iteration of           *)
(* gpubb::next is: steal, select and branch, bound and prune, evaluate,    *)
(* prune by the second bound.  Between two iterations the worker may read  *)
(* the intervals back and start again from them.                           *)
(***************************************************************************)
EXTENDS Heuristics, GpuBounds

CONSTANTS
  Settings,      \* instances and arguments to run with
  nbIVM,         \* number of IVMs
  Margin,        \* share_on_gpu2 does not descend below line size - Margin (6 there)
  StrongChoices  \* sets of jobs for which the second bound may be computed

\* The sizes that setHypercubeConfig gives a single dimension.
ASSUME IvmAssumption ==
  /\ nbIVM \in {1, 4} /\ Margin \in 2 .. nbJob
  /\ \A s \in Settings : s.ptm \in Instances

size == nbJob
Line == 0 .. size - 1
IVM  == 0 .. nbIVM - 1

VARIABLES
  pc,         \* the next kernel or host step
  setting,    \* the arguments of this run
  ivm,        \* state, posVect, endVect and rows of each IVM
  root,       \* root_d, root_dir_d
  best,       \* the local best cost of gpubb::next
  initialUB,  \* the cost that the search began with
  iter,       \* iteration, modulo nbIVM
  exploring,  \* counter_h[exploringState]
  search_cut, \* in tenths
  reloads,    \* how often the intervals were read back
  visited,    \* leaves evaluated since then, in order (history)
  dropped     \* leaves given up at the end of an interval (history)

vars == <<pc, setting, ivm, root, best, initialUB, iter, exploring, search_cut,
          reloads, visited, dropped, ptm, ig, sltn>>
heuristicVars == <<ptm, ig, sltn>>

-----------------------------------------------------------------------------
(* IVMs: rows[l + 1] is the row of line l, a flagged job j being -j - 1 *)

Zero  == [l \in Line |-> 0]
Empty == [state |-> 0, pos |-> Zero, end |-> Zero, rows |-> <<>>]

negative(j) == IF j < 0 THEN j ELSE -j - 1
absolute(j) == IF j < 0 THEN -j - 1 ELSE j

line(x) == Len(x.rows) - 1
Cell(x) == x.rows[line(x) + 1].jobs[x.pos[line(x)] + 1]

\* tile_decodeIVM: the front and back part of the node, and its open jobs.
Part(x, dir) ==
  LET taken[l \in 0 .. line(x)] ==
        IF l = 0 THEN <<>>
        ELSE IF x.rows[l].dir = dir
             THEN Append(taken[l - 1], absolute(x.rows[l].jobs[x.pos[l - 1] + 1]))
             ELSE taken[l - 1]
  IN taken[line(x)]
front(x) == Part(x, FRONT)
back(x)  == Reverse(Part(x, BACK))
open(x)  == {absolute(j) : j \in Range(Last(x.rows).jobs)}

\* beforeEndPart: from line l on; equal vectors are not before.
beforeEndPart(x, l) ==
  \E i \in l .. size - 1 : x.pos[i] < x.end[i] /\ \A k \in l .. i - 1 : x.pos[k] = x.end[k]

\* generateLine, parallelGoDown
Below(x) ==
  [dir |-> FRONT,
   jobs |-> LET above == RemoveAt(Last(x.rows).jobs, x.pos[line(x)] + 1)
            IN [i \in DOMAIN above |-> absolute(above[i])]]

\* initStep: an IVM that is being set up follows its position to an inner node
\* or a flagged cell.
initStep(x) ==
  IF Cell(x) < 0
  THEN [x EXCEPT !.state = 1,
                 !.pos = [l \in Line |-> IF l > line(x) THEN 0 ELSE @[l]]]
  ELSE IF line(x) < size - 2 THEN [x EXCEPT !.rows = Append(@, Below(x))]
  ELSE [x EXCEPT !.state = 1]

\* exploreStep: on to the next cell that is open, l being the first line where
\* position and end differ.
AtEnd(x)  == x.pos[line(x)] >= size - line(x)
AtOpen(x) == ~AtEnd(x) /\ Cell(x) >= 0
goUp(x) ==
  LET n == line(x)
      above == [Front(x.rows) EXCEPT ![n].jobs[x.pos[n - 1] + 1] = negative(@)]
  IN [x EXCEPT !.pos[n] = 0, !.rows = above]
goRight(x) == [x EXCEPT !.pos[line(x)] = @ + 1]
Turns == size * (size + 1) \* enough to pass every cell of the rows
Advance(x, l) ==
  LET Stops(y) == y.pos[l] > y.end[l] \/ AtOpen(y) \/ (AtEnd(y) /\ line(y) = 0)
      walk[k \in 0 .. Turns] ==
        IF k = 0 THEN x
        ELSE LET y == walk[k - 1] IN
             IF Stops(y) THEN y ELSE IF AtEnd(y) THEN goUp(y) ELSE goRight(y)
  IN walk[Turns]
exploreStep(x) ==
  IF x.pos = x.end THEN [x EXCEPT !.state = 0]
  ELSE LET l == Min({i \in Line : x.pos[i] # x.end[i]})
           y == Advance(x, l)
       IN [y EXCEPT !.state = IF y.pos[l] <= y.end[l] /\ AtOpen(y) /\ beforeEndPart(y, l)
                              THEN 1 ELSE 0]

\* goToNext2, before the new row is generated.
Selected(x) ==
  IF x.state = 0 THEN x
  ELSE LET y == IF x.state < 0 THEN initStep(x) ELSE x
       IN IF y.state > 0 THEN exploreStep(y) ELSE y

\* The leaves that an IVM gives up: those below an open cell that is the end.
GivenUp(x) ==
  IF x.state = 0 /\ x.rows # <<>> /\ x.pos = x.end /\ line(x) < size - 1 /\ Cell(x) >= 0
  THEN LET d == Last(x.rows).dir IN
       Completions(IF d = FRONT THEN Append(front(x), Cell(x)) ELSE front(x),
                   open(x) \ {Cell(x)},
                   IF d = BACK THEN <<Cell(x)>> \o back(x) ELSE back(x))
  ELSE {}

Branched(x) ==
  CASE x.state = 0 -> Empty
    [] x.state < 0 -> x
    [] x.state > 0 -> [x EXCEPT !.pos[line(x) + 1] = 0, !.rows = Append(@, Below(x))]

\* tile_prune
flagged(jobs, costs, dir, l, lb) ==
  [i \in DOMAIN jobs |->
     IF costs[jobs[i]][dir + 1] >= lb \/ l >= size - 1 THEN negative(jobs[i]) ELSE jobs[i]]

\* chooseBranchingSortAndPrune, ForwardBranchSortAndPrune: the new row gets its
\* direction; it is turned round where the direction changes.
Pruned(x, lb, mode, ub) ==
  LET costs == boundWeak(front(x), open(x), back(x))
      dir == branching(mode, costs, ub)
      prev_dir == IF line(x) = 0 THEN FRONT ELSE x.rows[line(x)].dir
      fresh == [i \in DOMAIN Last(x.rows).jobs |-> absolute(Last(x.rows).jobs[i])]
      jobs == IF mode > 0 /\ prev_dir # dir THEN Reverse(fresh) ELSE fresh
  IN [x EXCEPT !.rows[line(x) + 1] =
        [dir |-> dir, jobs |-> flagged(jobs, costs, dir, line(x), lb)]]

\* prune2noSort: of the cells that are left, those for which boundOne was run.
PrunedAgain(x, lb, chosen) ==
  LET row == Last(x.rows) IN
  [x EXCEPT !.rows[line(x) + 1].jobs =
     [i \in DOMAIN row.jobs |->
        IF /\ row.jobs[i] \in chosen
           /\ computeCostFast(front(x), open(x), back(x), row.dir, row.jobs[i]) >= lb
        THEN negative(row.jobs[i]) ELSE row.jobs[i]]]

-----------------------------------------------------------------------------
(* Work stealing on the device *)

\* computeLen: end minus pos, as a factoradic number.
computeLen(x) ==
  LET diff[i \in 0 .. size] ==
        IF i = size THEN [digit |-> 0, hold |-> 0]
        ELSE LET d == x.end[i] - x.pos[i] - diff[i + 1].hold
             IN IF d >= 0 THEN [digit |-> d, hold |-> 0]
                          ELSE [digit |-> d + size - i, hold |-> 1]
  IN IF \A i \in Line : x.pos[i] > x.end[i] => \E k \in 0 .. i - 1 : x.pos[k] < x.end[k]
     THEN [i \in Line |-> diff[i].digit] ELSE Zero

length == [k \in IVM |-> IF ivm[k].state = 1 THEN computeLen(ivm[k]) ELSE Zero]

\* computeMeanLength
meanLength(cut) ==
  LET sum == [i \in Line |-> FoldSet(LAMBDA k, w : w + length[k][i], 0, IVM)]
      carried[j \in Line] == \* into digit j from those below
        IF j = size - 1 THEN 0
        ELSE LET v == sum[j + 1] + carried[j + 1]
             IN IF v > size - 2 - j THEN v \div (size - 1 - j) ELSE 0
      digit(j) == IF j = 0 THEN sum[0] + carried[0] ELSE (sum[j] + carried[j]) % (size - j)
      part[i \in Line] == \* quotient and remainder
        LET v == (cut * (digit(i) + (IF i = 0 THEN 0 ELSE part[i - 1][2]) * (size - i))) \div 10
        IN <<v \div nbIVM, v % nbIVM>>
  IN [i \in Line |-> part[i][1] + IF i = size - 2 THEN 1 ELSE 0]

\* isSmaller
isSmaller(v, w) == \E i \in Line : v[i] < w[i] /\ \A k \in 0 .. i - 1 : v[k] = w[k]

\* prepareShare, for one offset after the other: each empty IVM looks at the one
\* off places ahead of it.
victims(mean) ==
  LET prec(t, off) == (t - off) % nbIVM
      found[s \in 0 .. nbIVM] == \* the thieves and their victims after s offsets
        IF s = 0 THEN {}
        ELSE LET off == (iter + s - 1) % nbIVM
                 flag == UNION {{f[1], f[2]} : f \in found[s - 1]}
                 new == {t \in IVM : LET v == prec(t, off) IN
                           /\ ivm[t].state = 0
                           /\ ivm[v].state # 0 /\ v \notin flag
                           /\ ~isSmaller(length[v], mean)}
             IN {f \in found[s - 1] : f[1] \notin new} \cup {<<t, prec(t, off)>> : t \in new}
  IN found[nbIVM]

\* Mutant: the victim keeps what it gives away.
victimWhole(x, l, cut) == x

\* cuttingPosition: half of the open cells up to the end stay with the victim.
cuttingPosition(x, l) ==
  LET row == x.rows[l + 1].jobs
      explorable(a, b) == Cardinality({i \in a .. b : row[i + 1] >= 0})
      keep == explorable(x.pos[l] + 1, x.end[l]) \div 2
  IN Min({p \in x.pos[l] + 1 .. x.end[l] + 1 : explorable(x.pos[l] + 1, p - 1) = keep})

\* share_on_gpu2: thief and victim after the cut at line l.
\* Mutant: the thief begins behind the cut.
thiefLate(x, l, cut) ==
  [x EXCEPT !.rows = SubSeq(@, 1, l + 1),
            !.pos = [i \in Line |-> IF i < l THEN @[i] ELSE IF i = l THEN cut + 1 ELSE 0]]
thief(x, l, cut) ==
  [x EXCEPT !.rows = SubSeq(@, 1, l + 1),
            !.pos = [i \in Line |-> IF i < l THEN @[i] ELSE IF i = l THEN cut ELSE 0]]
victim(x, l, cut) ==
  [x EXCEPT !.end = [i \in Line |-> IF i < l THEN @[i] ELSE IF i = l THEN cut - 1
                                    ELSE size - i - 1]]
ShareLine(x) ==
  Min({l \in 0 .. line(x) : x.pos[l] # x.end[l] \/ l = line(x) \/ l >= size - Margin})
share_on_gpu2(found) ==
  LET work == {f \in found : LET x == ivm[f[2]] IN
                 x.state = 1 /\ x.pos[ShareLine(x)] < x.end[ShareLine(x)]}
      cut(x) == cuttingPosition(x, ShareLine(x))
  IN [k \in IVM |->
        IF \E f \in work : f[1] = k
        THEN LET x == ivm[(CHOOSE f \in work : f[1] = k)[2]] IN thief(x, ShareLine(x), cut(x))
        ELSE IF \E f \in work : f[2] = k THEN victim(ivm[k], ShareLine(ivm[k]), cut(ivm[k]))
        ELSE ivm[k]]

\* adapt_workstealing
adapt_workstealing ==
  IF exploring >= (7 * nbIVM) \div 10
  THEN IF search_cut < 8 THEN search_cut + 1 ELSE search_cut
  ELSE IF search_cut > 2 THEN search_cut - 1 ELSE search_cut

-----------------------------------------------------------------------------

Init ==
  /\ setting \in Settings
  /\ ptm = setting.ptm
  /\ HeuristicInit(setting.init_solution = 1)
  /\ pc = "build"
  /\ ivm = [k \in IVM |-> Empty]
  /\ root = <<>>
  /\ best = INT_MAX /\ initialUB = INT_MAX
  /\ iter = 0 /\ exploring = 0 /\ search_cut = 10 /\ reloads = 0
  /\ visited = <<>> /\ dropped = {}

\* The heuristic thread.
heuristic ==
  /\ pc = "build"
  /\ Search
  /\ UNCHANGED <<ptm, pc, setting, ivm, root, best, initialUB, iter, exploring,
                 search_cut, reloads, visited, dropped>>

\* The rest of buildInitialUB, gpubb::gpubb: with init_mode 3 the cost of the
\* heuristic is dropped and its schedule kept.
buildInitialUB ==
  /\ pc = "build" /\ ig.at \in {"none", "done"}
  /\ sltn' = [sltn EXCEPT !.cost = IF setting.init_mode = 3 THEN INT_MAX ELSE @]
  /\ initialUB' = sltn'.cost
  /\ ig' = [ig EXCEPT !.at = "none"]
  /\ pc' = "root"
  /\ UNCHANGED <<ptm, setting, ivm, root, best, iter, exploring, search_cut,
                 reloads, visited, dropped>>

\* The row of the root: the order of the best schedule.
boundRoot ==
  \E dir \in {branching(setting.branchingMode, rootCosts, sltn.cost)} :
    LET jobs == IF dir = BACK THEN Reverse(sltn.perm) ELSE sltn.perm IN
    root' = [dir |-> dir, jobs |-> flagged(jobs, rootCosts, dir, 0, sltn.cost)]

initFullInterval ==
  /\ pc = "root"
  /\ boundRoot
  /\ ivm' = [ivm EXCEPT ![0] = [state |-> -1, pos |-> Zero, rows |-> <<root'>>,
                                end |-> [l \in Line |-> size - l - 1]]]
  /\ best' = sltn.cost
  /\ pc' = "steal"
  /\ UNCHANGED <<setting, initialUB, iter, exploring, search_cut, reloads,
                 visited, dropped, heuristicVars>>

steal_in_device ==
  /\ pc = "steal"
  /\ IF exploring >= (75 * nbIVM) \div 100
     THEN UNCHANGED <<ivm, search_cut>>
     ELSE /\ search_cut' = adapt_workstealing
          /\ \E found \in {victims(meanLength(search_cut'))} : ivm' = share_on_gpu2(found)
  /\ pc' = "select"
  /\ UNCHANGED <<setting, root, best, initialUB, iter, exploring, reloads, visited,
                 dropped, heuristicVars>>

selectAndBranch ==
  /\ pc = "select"
  /\ \E next \in {[k \in IVM |-> Selected(ivm[k])]} :
       /\ ivm' = [k \in IVM |-> Branched(next[k])]
       /\ dropped' = dropped \cup UNION {GivenUp(next[k]) : k \in IVM}
       /\ exploring' = Cardinality({k \in IVM : next[k].state > 0})
       /\ pc' = IF \A k \in IVM : next[k].state = 0 THEN "done" ELSE "bound"
  /\ UNCHANGED <<setting, root, best, initialUB, iter, search_cut, reloads, visited,
                 heuristicVars>>

\* decode, weakBound
weakBound ==
  /\ pc = "bound"
  /\ ivm' = [k \in IVM |-> IF ivm[k].state = 0 THEN ivm[k]
                           ELSE Pruned(ivm[k], best, setting.branchingMode, initialUB)]
  /\ pc' = "leaves"
  /\ UNCHANGED <<setting, root, best, initialUB, iter, exploring, search_cut, reloads,
                 visited, dropped, heuristicVars>>

\* The leaves that were reached, by IVM.
Leaves ==
  LET reached[k \in 0 .. nbIVM] ==
        IF k = 0 THEN <<>>
        ELSE LET x == ivm[k - 1] IN
             IF x.state # 0 /\ line(x) = size - 1
             THEN Append(reached[k - 1], front(x) \o SetToSeq(open(x)) \o back(x))
             ELSE reached[k - 1]
  IN reached[nbIVM]

\* boundLeaves: the host evaluates them; the first one of the cheapest is kept.
boundLeaves ==
  /\ pc = "leaves"
  /\ \E leaves \in {Leaves} :
       LET better == {i \in DOMAIN leaves : evalSolution(leaves[i]) < best} IN
       /\ visited' = visited \o leaves
       /\ IF better = {} THEN UNCHANGED <<best, sltn>>
          ELSE \E i \in {FirstBest([k \in better |-> evalSolution(leaves[k])], better)} :
                 /\ best' = evalSolution(leaves[i])
                 /\ update(leaves[i], evalSolution(leaves[i]))
  /\ pc' = "strong"
  /\ UNCHANGED <<setting, ivm, root, initialUB, iter, exploring, search_cut, reloads,
                 dropped, ptm, ig>>

\* buildMapping, boundOne, prune2noSort.  prepareBound does not count the places
\* of a node from its first open job, so that the entries of neighbouring nodes
\* are lost or stale: the bound is computed for some of the children only.
strongBound ==
  /\ pc = "strong"
  /\ IF setting.boundMode = 2
     THEN \E chosen \in StrongChoices :
            ivm' = [k \in IVM |-> IF ivm[k].state = 0 \/ line(ivm[k]) = size - 1 THEN ivm[k]
                                  ELSE PrunedAgain(ivm[k], best, chosen)]
     ELSE UNCHANGED ivm
  /\ iter' = (iter + 1) % nbIVM
  /\ pc' = "steal"
  /\ UNCHANGED <<setting, root, best, initialUB, exploring, search_cut, reloads, visited,
                 dropped, heuristicVars>>

\* next() returns to the worker, getIntervals reads the intervals back and they
\* come again from the master by initFromFac, each to its IVM.
Reload ==
  /\ pc = "steal" /\ reloads < setting.reloads
  /\ ivm' = [k \in IVM |-> IF ivm[k].state = 0 THEN Empty
                           ELSE [ivm[k] EXCEPT !.state = -1, !.rows = <<root>>]]
  /\ best' = sltn.cost
  /\ iter' = 0
  /\ reloads' = reloads + 1
  /\ visited' = <<>>
  /\ UNCHANGED <<pc, setting, root, initialUB, exploring, search_cut, dropped,
                 heuristicVars>>

Done == pc = "done"

Next ==
  \/ heuristic
  \/ buildInitialUB
  \/ initFullInterval
  \/ steal_in_device
  \/ selectAndBranch
  \/ weakBound
  \/ boundLeaves
  \/ strongBound
  \/ Reload
  \/ Done /\ UNCHANGED vars

Spec == Init /\ [][Next]_vars

-----------------------------------------------------------------------------
(* Properties *)

\* Costs go with schedules that reach them: in the heuristic, whatever it reads
\* behind the last position, and in the search the best cost is never below the
\* optimum, which it would then cut off.
UpperBoundAttained ==
  /\ CostsReached
  /\ pc # "build" => sltn.cost >= Optimum
  /\ best >= sltn.cost

\* Neither the host nor the device gives a node, or a child of it on one side, a
\* bound above the makespan of its best completion.
BoundsAdmissible ==
  pc = "leaves" =>
    \A k \in {i \in IVM : ivm[i].state # 0 /\ line(ivm[i]) < size - 1} :
      LET x == ivm[k]
          f == front(x)
          b == back(x)
          cheapest(ff, jobs, bb) == Min({evalSolution(s) : s \in Completions(ff, jobs, bb)})
          jobs == SetToSeq(open(x))
          host == boundChildren(f, jobs, b)
          device == boundWeak(f, open(x), b)
      IN /\ bornes_calculer(f, jobs, b) <= cheapest(f, open(x), b)
         /\ StrongBound(f, jobs, b, setting.johnsonPairs) <= cheapest(f, open(x), b)
         /\ \A j \in open(x) : \A dir \in {FRONT, BACK} :
              LET least == IF dir = FRONT THEN cheapest(Append(f, j), open(x) \ {j}, b)
                                          ELSE cheapest(f, open(x) \ {j}, <<j>> \o b)
              IN /\ host[j][dir + 1] <= least
                 /\ device[j][dir + 1] <= least
                 /\ computeCostFast(f, open(x), b, dir, j) <= least

\* The search ends with the optimum, unless an optimal schedule was the last leaf
\* of an interval: such a leaf is given up.
Exact ==
  Done => sltn.cost = Optimum \/ \E s \in dropped : evalSolution(s) = Optimum

\* Between two reports no leaf is evaluated twice, by whichever IVM.
EvaluatedOnce == IsInjective(visited)
=============================================================================
