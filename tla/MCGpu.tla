------------------------------- MODULE MCGpu --------------------------------
(* Instances of GpuBB for TLC: five jobs, three machines. *)
EXTENDS GpuBB

Mixed  == << [j \in 0 .. 4 |-> <<4, 1, 5, 2, 3>>[j + 1]],
             [j \in 0 .. 4 |-> <<1, 5, 2, 4, 3>>[j + 1]],
             [j \in 0 .. 4 |-> <<3, 2, 1, 5, 4>>[j + 1]] >>
\* The only optimal schedule is the last leaf of the tree.
LastBest == << [j \in 0 .. 4 |-> <<4, 2, 8, 2, 1>>[j + 1]],
               [j \in 0 .. 4 |-> <<3, 7, 9, 6, 6>>[j + 1]],
               [j \in 0 .. 4 |-> <<1, 3, 5, 9, 9>>[j + 1]] >>
BothInstances == {Mixed, LastBest}

Setting(p, init, mode, branch, bound, pairing, again) ==
  [ptm |-> p, init_solution |-> init, init_mode |-> mode, branchingMode |-> branch,
   boundMode |-> bound, johnsonPairs |-> pairing, reloads |-> again]

Cold == {Setting(p, 0, 3, branch, 2, 1, 0) : p \in BothInstances, branch \in {-1, 1, 2, 3}}
Again == {Setting(p, 0, 3, branch, 0, 0, 1) : p \in BothInstances, branch \in {-1, 3}}
Warm == {Setting(Mixed, 1, 1, 3, 2, 2, 0), Setting(Mixed, 1, 3, 3, 0, 1, 0)}
AllSettings == Cold \cup Again \cup Warm

OneStart == {<<0, 1, 2, 3, 4>>}
SomeChildren == {0 .. 4, {1, 4}}
=============================================================================
