----------------------------- MODULE Heuristics -----------------------------
(***************************************************************************)
(* The initial upper bound (common/src/pbab.cpp, buildInitialUB): iterated *)
(* greedy search (heuristic/src/IG.cpp) over schedules that are built by   *)
(* insertion (fastNEH.cpp) and improved by chains of moves (fspnhoods.cpp, *)
(* fastinsertremove.cpp).  The makespans of all insertions of a job come   *)
(* from heads and tails; the tail behind the last position is never        *)
(* computed, so that its value there is whatever the array holds.          *)
(*                                                                         *)
(* Positions in a schedule are numbered from 1.  One thread searches; more *)
(* of them share nothing but the final solution::update.                   *)
(***************************************************************************)
EXTENDS FlowShop

CONSTANTS
  Starts,  \* the schedules that helper::shuffle may yield
  igiter,  \* arguments::initial_heuristic_iters
  INT_MAX  \* the cost of no schedule

\* All jobs are shuffled, and makespans are ints.
ASSUME HeuristicsAssumption ==
  /\ Starts \subseteq SetToSeqs(Job) /\ igiter \in Nat /\ INT_MAX \in Nat
  /\ \E longest \in 0 .. INT_MAX :
       /\ \A p \in Instances : \A m \in Machine : \A j \in Job : p[m][j] <= longest
       /\ (nbJob + nbMachines) * longest < INT_MAX

VARIABLES
  ig,   \* state of ig_thread and runIG
  sltn  \* solution: the best schedule and its cost

Position == 1 .. nbJob

\* IG::IG: positions from the middle outwards.
visitOrder ==
  [i \in Position |-> 1 + nbJob \div 2 + IF i % 2 = 1 THEN i \div 2 ELSE -(i \div 2)]

\* The position with the smallest value, the first one of equals.
FirstBest(value, positions) ==
  CHOOSE p \in positions : \A q \in positions :
    value[p] < value[q] \/ (value[p] = value[q] /\ p <= q)

-----------------------------------------------------------------------------
(* fastNEH *)

\* insertJob, findBestPos: the makespans for the positions whose tail is known.
insertJob(s, job) == [p \in 1 .. Len(s) |-> evalSolution(InsertAt(s, p, job))]

\* runNEH: the results of inserting job after job; the last position is taken or
\* not, as the value of its tail, which is not initialised, has it.
runNEH(s) ==
  LET pair == <<s[1], s[2]>>
      first == IF evalSolution(pair) < evalSolution(Reverse(pair)) THEN pair
                                                                   ELSE Reverse(pair)
      built[k \in 2 .. nbJob] ==
        IF k = 2 THEN {first}
        ELSE UNION {{InsertAt(r, p, s[k]) :
                       p \in {FirstBest(insertJob(r, s[k]), 1 .. k - 1), k}} :
                    r \in built[k - 1]}
  IN built[nbJob]

-----------------------------------------------------------------------------
(* fastInsertRemove, fspnhood *)

\* Mutant: behind the last job, the job itself is not counted.
insertForgotten(s, job, stale) == Append(insertJob(s, job), evalSolution(s))

\* insertMakespans, behind the last job as if the tail that is left over from
\* an earlier schedule followed.
insertMakespans(s, job, stale) ==
  LET inser == AddFirst(Heads(s), job)
  IN Append(insertJob(s, job), Max({inser[m] + stale[m] : m \in Machine}))

\* bestRemove2: some job whose removal shortens the schedule and that is not
\* tabu; the first one when there is none.
bestRemove2(s, tabu) ==
  LET gains == {i \in Position : s[i] \notin tabu /\ evalSolution(RemoveAt(s, i)) < evalSolution(s)}
  IN IF gains = {} THEN {1} ELSE gains

kmax == Max({k \in Position : k * k <= nbJob})

\* A move of kImove ends: the job is put back at the best position.
bestInsert(c) ==
  LET makespans == insertMakespans(c.arr, c.job, c.stale)
      p == FirstBest(makespans, 2 .. nbJob)
  IN [arr |-> InsertAt(c.arr, p, c.job), cmax |-> makespans[p], stale |-> c.stale]

\* kImove: another job is taken out unless the schedule has become no longer.
\* tabulist::add writes one place further than isTabu looks, so that position 1
\* and job 0 are tabu instead of the ones just added, and an added job is the
\* next time only.
kImove(s, pos, stale) ==
  LET Found(c) == bestInsert(c).cmax <= evalSolution(s)
      Taken(c) ==
        LET t == bestInsert(c).arr
        IN {[arr |-> RemoveAt(t, i), job |-> t[i], tabu |-> c.tabu \cup {c.job},
             stale |-> Tails(<<Last(t)>>)] : i \in bestRemove2(t, c.tabu)}
      turns[k \in 0 .. kmax - 1] == \* the jobs that are out after k turns
        IF k = 0 THEN {[arr |-> RemoveAt(s, pos), job |-> s[pos], tabu |-> {0}, stale |-> stale]}
        ELSE UNION {Taken(c) : c \in {d \in turns[k - 1] : ~Found(d)}}
  IN {bestInsert(c) : c \in turns[kmax - 1] \cup UNION {{d \in turns[k] : Found(d)} :
                                                        k \in 0 .. kmax - 1}}

-----------------------------------------------------------------------------
(* IG *)

\* destruction: any jobs in any order are taken out.
destruction(k) == {out \in [1 .. k -> Job] : IsInjective(out)}

\* construction: each is put back at the best position but the last.
construction(s, out) ==
  LET kept[i \in 0 .. Len(s)] ==
        IF i = 0 THEN <<>>
        ELSE IF s[i] \in Range(out) THEN kept[i - 1] ELSE Append(kept[i - 1], s[i])
      grown[k \in 0 .. Len(out)] ==
        IF k = 0 THEN kept[Len(s)]
        ELSE InsertAt(grown[k - 1],
                      FirstBest(insertJob(grown[k - 1], out[k]), DOMAIN grown[k - 1]),
                      out[k])
  IN grown[Len(out)]

HeuristicInit(run) ==
  /\ sltn = [perm |-> [i \in Position |-> i - 1], cost |-> INT_MAX]
  /\ ig = [at |-> IF run THEN "shuffle" ELSE "none", iter |-> 0, perturb |-> 2,
           cur |-> <<>>, curCost |-> 0, temp |-> <<>>, tempCost |-> 0,
           best |-> <<>>, bestCost |-> 0, visit |-> 1, stale |-> NoTime]

\* ig_thread and the beginning of runIG: twice NEH.
ig_thread ==
  /\ ig.at = "shuffle"
  /\ \E s \in Starts : \E neh \in runNEH(s) : \E again \in runNEH(neh) :
       ig' = [ig EXCEPT !.at = "destruct",
                        !.best = neh, !.bestCost = evalSolution(neh),
                        !.cur = again, !.curCost = evalSolution(again)]
  /\ UNCHANGED sltn

\* An iteration: the current schedule is perturbed.
perturbation ==
  /\ ig.at = "destruct" /\ ig.iter < igiter
  /\ ig.perturb < nbJob \* no position is left otherwise
  /\ \E out \in destruction(ig.perturb) :
       \E s \in {construction(ig.cur, out)} :
         ig' = [ig EXCEPT !.at = "search", !.visit = 1,
                          !.temp = s, !.tempCost = evalSolution(s)]
  /\ UNCHANGED sltn

\* localSearchKI: the next position; the first improvement is taken.
localSearchKI ==
  /\ ig.at = "search" /\ ig.visit <= nbJob
  /\ \E move \in kImove(ig.temp, visitOrder[ig.visit], ig.stale) :
       ig' = IF move.cmax < ig.tempCost
             THEN [ig EXCEPT !.temp = move.arr, !.tempCost = move.cmax,
                             !.visit = 1, !.stale = move.stale]
             ELSE [ig EXCEPT !.visit = @ + 1, !.stale = move.stale]
  /\ UNCHANGED sltn

\* acceptance: a worse schedule may be accepted as well.
Judge ==
  /\ ig.at = "search" /\ ig.visit > nbJob
  /\ \E accept \in BOOLEAN :
       /\ ig.tempCost < ig.curCost => accept
       /\ \E next \in
            {IF accept
             THEN [ig EXCEPT !.cur = ig.temp, !.curCost = ig.tempCost, !.perturb = 2]
             ELSE [ig EXCEPT !.perturb = IF @ + 1 > 5 THEN 2 ELSE @ + 1]} :
            ig' = [next EXCEPT
                     !.at = "destruct", !.iter = @ + 1,
                     !.temp = <<>>, !.tempCost = 0, !.visit = 1,
                     !.best = IF ig.tempCost < ig.bestCost THEN ig.temp ELSE @,
                     !.bestCost = IF ig.tempCost < ig.bestCost THEN ig.tempCost ELSE @]
  /\ UNCHANGED sltn

\* solution::update
update(perm, cost) ==
  sltn' = IF cost < sltn.cost THEN [perm |-> perm, cost |-> cost] ELSE sltn

\* The best cost goes with the current schedule, not with the best one.
\* The local state of the thread is gone.
Finish ==
  /\ ig.at = "destruct" /\ ig.iter = igiter
  /\ update(ig.cur, ig.bestCost)
  /\ ig' = [ig EXCEPT !.at = "done", !.iter = 0, !.perturb = 2,
                      !.cur = <<>>, !.curCost = 0, !.best = <<>>, !.bestCost = 0,
                      !.stale = NoTime]

Search == ig_thread \/ perturbation \/ localSearchKI \/ Judge \/ Finish

\* The cost that goes with a schedule is never below its makespan, so that the
\* upper bound cannot cut off what it does not reach, whatever the tails hold.
CostsReached ==
  /\ ig.at \in {"destruct", "search"} =>
       /\ evalSolution(ig.best) <= ig.bestCost
       /\ evalSolution(ig.cur) <= ig.curCost
  /\ ig.at = "search" => evalSolution(ig.temp) <= ig.tempCost
  /\ ig.at = "done" => Optimum <= sltn.cost
=============================================================================
