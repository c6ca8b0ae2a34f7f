----------------------------- MODULE GpuBounds ------------------------------
(***************************************************************************)
(* The lower bounds as the device computes them                            *)
(* (gpu/include/gpu_fsp_bound.cuh).  A warp fills the heads of a partial   *)
(* schedule along the anti-diagonals of the jobs-by-machines table, a lane *)
(* per machine, and passes completion times on to the neighbouring lane.   *)
(* nbJob is a multiple of 5, the step by which the two-machine bound walks *)
(* through Johnson's order.                                                *)
(***************************************************************************)
EXTENDS FlowShop

ASSUME StepAssumption == nbJob % 5 = 0

FRONT == 0
BACK  == 1

\* tile_scheduleFront, tile_evalSolution: the times of list s on machines with
\* the times p.  Step i of the first phase: lane l works on job i - l, after
\* itself and the lane above; of the second one: lane l works on machine
\* l + i, after itself and the lane below.  The last value of lane 0 in step i
\* is the time of machine i + 1.
wavefront(p, s) ==
  LET n == Len(s)
      lanes == 0 .. Min({n, nbMachines}) - 1
      fill[i \in 0 .. n] ==
        IF i = 0 THEN [l \in lanes |-> 0]
        ELSE [l \in lanes |->
                IF l < i THEN Larger(fill[i - 1][l], fill[i - 1][Larger(l - 1, 0)])
                                + p[l + 1][s[i - l]]
                         ELSE fill[i - 1][l]]
      drain[i \in 0 .. nbMachines - 1] ==
        IF i = 0 THEN fill[n]
        ELSE [l \in lanes |->
                IF l < nbMachines - i
                THEN Larger(drain[i - 1][l],
                            IF l + 1 \in lanes THEN drain[i - 1][l + 1] ELSE 0)
                       + p[l + 1 + i][s[n - l]]
                ELSE drain[i - 1][l]]
  IN [m \in Machine |-> drain[m - 1][0]]

\* The machine and the place in the list that some lane works on in some step.
touched(n) ==
  LET lanes == 0 .. Min({n, nbMachines}) - 1 IN
  ({<<l + 1, i - l>> : l \in lanes, i \in 1 .. n} \cup
   {<<l + 1 + i, n - l>> : l \in lanes, i \in 1 .. nbMachines - 1})
    \cap (Machine \X (1 .. n))

tile_scheduleFront(s) ==
  IF s = <<>> THEN minTempsArr[ptm] ELSE wavefront(ptm, s)
\* Machines and jobs the other way round.
tile_scheduleBack(s) ==
  IF s = <<>> THEN minTempsDep[ptm]
  ELSE LET t == wavefront([m \in Machine |-> ptm[nbMachines + 1 - m]], Reverse(s))
       IN [m \in Machine |-> t[nbMachines + 1 - m]]

\* remain: the lanes take what they work on off the total of each machine.
remain(front, back) ==
  [m \in Machine |->
     LET work(js) == FoldSet(LAMBDA j, w : w + ptm[m][j], 0, js)
         taken(s, k) == {s[c[2]] : c \in {d \in touched(Len(s)) : d[1] = k}}
     IN work(Job) - work(taken(front, m)) - work(taken(Reverse(back), nbMachines + 1 - m))]

\* boundWeak_BeginEnd, boundWeak_Begin: two costs for each open job.
boundWeak(front, open, back) ==
  LET f == tile_scheduleFront(front)
      b == tile_scheduleBack(back)
      r == remain(front, back)
  IN [j \in open |-> <<addFrontAndBound(f, r, b, j), addBackAndBound(f, r, b, j)>>]

\* Mutant: the time to get to the machine is taken for the time after it.
borneInfMakespan_late(f, open, b, hasBack) ==
  Max({LET t == heuristiqueCmax(f, open, q)
       IN IF hasBack THEN cmaxFin(t, b, q) ELSE t[2] + minTempsArr[ptm][q[2]] :
       q \in machine})

\* borneInfMakespan_d: without a back part the second machine alone counts.
borneInfMakespan_d(f, open, b, hasBack) ==
  Max({LET t == heuristiqueCmax(f, open, q)
       IN IF hasBack THEN cmaxFin(t, b, q) ELSE t[2] + minTempsDep[ptm][q[2]] :
       q \in machine})

\* computeCostFast, for a child whose parent has the times f and b.
computeCostFast(front, open, back, dir, j) ==
  LET f == tile_scheduleFront(front)
      b == tile_scheduleBack(back)
      rest == open \ {j}
      other == SetToSeq(rest)
  IN IF Cardinality(rest) = 1
     THEN evalSolution(front \o (IF dir = FRONT THEN <<j>> \o other ELSE other \o <<j>>)
                         \o back)
     ELSE borneInfMakespan_d(IF dir = FRONT THEN AddFirst(f, j) ELSE f, rest,
                             IF dir = BACK THEN AddLast(b, j) ELSE b,
                             dir = BACK \/ back # <<>>)

\* The costs of the root's children in boundRoot, by computeCost.
rootCosts ==
  [j \in Job |->
     <<borneInfMakespan_d(Heads(<<j>>), Job \ {j}, NoTime, FALSE),
       borneInfMakespan_d(minTempsArr[ptm], Job \ {j}, Tails(<<j>>), TRUE)>>]

-----------------------------------------------------------------------------
(* The side on which a node is extended (gpu/include/gpu_ivm_navi.cuh) *)

tile_branchMaxSum(costs) ==
  IF FoldSet(LAMBDA j, d : d + costs[j][1] - costs[j][2], 0, DOMAIN costs) < 0
  THEN BACK ELSE FRONT

\* The side with fewer of the smallest costs.
tile_branchMinMin(costs) ==
  LET least == Min(UNION {Range(costs[j]) : j \in DOMAIN costs})
      count(side) == Cardinality({j \in DOMAIN costs : costs[j][side] = least})
  IN IF count(1) > count(2) THEN BACK ELSE FRONT

\* The side on which fewer children survive the bound ub.
tile_MinBranch(costs, ub) ==
  LET count(side) == Cardinality({j \in DOMAIN costs : ub > costs[j][side]})
  IN IF count(1) = count(2) THEN tile_branchMaxSum(costs)
     ELSE IF count(1) > count(2) THEN BACK ELSE FRONT

branching(mode, costs, ub) ==
  CASE mode = 1 -> tile_branchMaxSum(costs)
    [] mode = 2 -> tile_branchMinMin(costs)
    [] mode = 3 -> tile_MinBranch(costs, ub)
    [] OTHER    -> FRONT
=============================================================================
