------------------------------ MODULE FlowShop ------------------------------
(***************************************************************************)
(* The permutation flow-shop and its lower bounds as the host computes     *)
(* them (bounds/src/bound_fsp_weak.cpp, bound_fsp_strong.cpp).             *)
(*                                                                         *)
(* ptm[m][j] is the time job j takes on machine m; every schedule runs all *)
(* jobs in its order on every machine.  A node of the tree fixes the jobs  *)
(* of a front and of a back part; its bound must not exceed the makespan   *)
(* of any schedule that completes it.                                      *)
(***************************************************************************)
EXTENDS Integers, FiniteSetsExt, SequencesExt

CONSTANTS
  nbJob,      \* jobs are numbered from 0
  nbMachines, \* machines are numbered from 1
  Instances   \* the matrices of processing times

Job     == 0 .. nbJob - 1
Machine == 1 .. nbMachines

ASSUME FlowShopAssumption ==
  /\ nbJob \in Nat /\ nbJob >= 2 /\ nbMachines \in Nat /\ nbMachines >= 2
  /\ \A p \in Instances : \A m \in Machine : \A j \in Job : p[m][j] \in Nat

VARIABLE ptm \* the instance

Larger(a, b) == IF a >= b THEN a ELSE b
NoTime == [m \in Machine |-> 0]

\* The schedules that complete a node.
Completions(front, jobs, back) == {front \o s \o back : s \in SetToSeqs(jobs)}

-----------------------------------------------------------------------------
(* Heads and tails: when the machines are done with the jobs of a list, and *)
(* how long before the end they have to begin with it                       *)

AddFirst(front, j) ==
  LET c[m \in 0 .. nbMachines] ==
        IF m = 0 THEN 0 ELSE Larger(front[m], c[m - 1]) + ptm[m][j]
  IN [m \in Machine |-> c[m]]
AddLast(back, j) ==
  LET c[m \in 1 .. nbMachines + 1] ==
        IF m > nbMachines THEN 0 ELSE Larger(back[m], c[m + 1]) + ptm[m][j]
  IN [m \in Machine |-> c[m]]

Heads(s) ==
  LET h[k \in 0 .. Len(s)] == IF k = 0 THEN NoTime ELSE AddFirst(h[k - 1], s[k])
  IN h[Len(s)]
Tails(s) ==
  LET t[k \in 1 .. Len(s) + 1] ==
        IF k > Len(s) THEN NoTime ELSE AddLast(t[k + 1], s[k])
  IN t[1]

evalSolution(s) == Heads(s)[nbMachines]
Optimum == Min({evalSolution(s) : s \in SetToSeqs(Job)})

-----------------------------------------------------------------------------
(* Tables of an instance p *)

\* Time that job j spends on the machines from a to b.
Through(p, j, a, b) ==
  LET w[m \in a - 1 .. b] == IF m < a THEN 0 ELSE w[m - 1] + p[m][j]
  IN IF b < a THEN 0 ELSE w[b]

\* fillMinTimeArrDep: no job reaches machine m earlier, nor leaves it later.
minTempsArr == [p \in Instances |-> [m \in Machine |->
                  Min({Through(p, j, 1, m - 1) : j \in Job})]]
minTempsDep == [p \in Instances |-> [m \in Machine |->
                  Min({Through(p, j, m + 1, nbMachines) : j \in Job})]]

\* remplirMachine, remplirLag
machine == {q \in Machine \X Machine : q[1] < q[2]}
tempsLag(p, q, j) == Through(p, j, q[1] + 1, q[2] - 1)

\* Johnson: the jobs that are shorter on the first machine of the pair come
\* first, the shortest ahead; of the others the longest.  (How the sort
\* breaks a tie makes no difference to the length of the sequence.)
estInf(p, q, i, j) ==
  LET class(k) == IF p[q[1]][k] < p[q[2]][k] THEN 1 ELSE 2
      key(k) == p[q[class(k)]][k] + tempsLag(p, q, k)
  IN IF class(i) # class(j) THEN class(i) = 1
     ELSE IF key(i) = key(j) THEN i < j
     ELSE IF class(i) = 1 THEN key(i) < key(j) ELSE key(i) > key(j)
tabJohnson == [p \in Instances |-> [q \in machine |->
  [k \in 1 .. nbJob |->
     CHOOSE j \in Job : Cardinality({i \in Job : estInf(p, q, i, j)}) = k - 1]]]

-----------------------------------------------------------------------------
(* bound_fsp_weak: one machine at a time *)

scheduleFront(s) == IF s = <<>> THEN minTempsArr[ptm] ELSE Heads(s)
scheduleBack(s)  == IF s = <<>> THEN minTempsDep[ptm] ELSE Tails(s)

sumUnscheduled(s) ==
  [m \in Machine |->
     LET w[k \in 0 .. Len(s)] == IF k = 0 THEN 0 ELSE w[k - 1] + ptm[m][s[k]]
     IN w[Len(s)]]

\* The bound of the child that takes job j from the remaining ones: on each
\* machine the remaining work between the earliest head, which j may delay,
\* and the shortest tail.
addFrontAndBound(front, remain, back, j) ==
  LET next == AddFirst(front, j)
  IN Max({(IF m = 1 THEN front[1] ELSE Larger(front[m], next[m - 1]))
            + remain[m] + back[m] : m \in Machine})
addBackAndBound(front, remain, back, j) ==
  LET next == AddLast(back, j)
  IN Max({front[m] + remain[m] +
            (IF m = nbMachines THEN back[m] ELSE Larger(back[m], next[m + 1])) :
          m \in Machine})

\* boundChildren: the bounds of the children of a node, by job, for the front
\* and for the back.
boundChildren(front, open, back) ==
  LET f == scheduleFront(front)
      b == scheduleBack(back)
      r == sumUnscheduled(open)
  IN [j \in Range(open) |-> <<addFrontAndBound(f, r, b, j), addBackAndBound(f, r, b, j)>>]

\* bornes_calculer of the node itself.
bornes_calculer(front, open, back) ==
  LET f == scheduleFront(front)
      b == scheduleBack(back)
      r == sumUnscheduled(open)
      c[m \in 0 .. nbMachines] ==
        IF m = 0 THEN 0 ELSE Larger(c[m - 1], f[m] + r[m])
  IN Max({c[m] + b[m] : m \in Machine})

-----------------------------------------------------------------------------
(* bound_fsp_strong: two machines at a time, in Johnson's order *)

\* heuristiqueCmax: both machines of the pair q after the open jobs.
heuristiqueCmax(front, open, q) ==
  LET order == tabJohnson[ptm][q]
      after[k \in 0 .. nbJob] ==
        IF k = 0 THEN <<front[q[1]], front[q[2]]>>
        ELSE LET j == order[k]
                 first == after[k - 1][1] + ptm[q[1]][j]
             IN IF j \notin open THEN after[k - 1]
                ELSE <<first, Larger(after[k - 1][2], first + tempsLag(ptm, q, j))
                                + ptm[q[2]][j]>>
  IN after[nbJob]

cmaxFin(t, back, q) == Larger(t[2] + back[q[2]], t[1] + back[q[1]])

\* The pairs that arguments::johnsonPairs selects: all of them (0), those with
\* the last machine (1), neighbours (2).  Learning (3) and the early exit
\* leave out further pairs, which can only lower the bound.
pairs(machinePairs) ==
  CASE machinePairs = 1 -> {q \in machine : q[2] = nbMachines}
    [] machinePairs = 2 -> {q \in machine : q[2] = q[1] + 1}
    [] OTHER -> machine

borneInfMakespan(front, open, back, machinePairs) ==
  Max({cmaxFin(heuristiqueCmax(front, open, q), back, q) : q \in pairs(machinePairs)})

\* bornes_calculer: a node with a single open job is a schedule.
StrongBound(front, open, back, machinePairs) ==
  IF Len(open) <= 1 THEN evalSolution(front \o open \o back)
  ELSE borneInfMakespan(scheduleFront(front), Range(open), scheduleBack(back), machinePairs)
=============================================================================
