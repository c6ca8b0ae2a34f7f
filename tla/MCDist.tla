------------------------------- MODULE MCDist -------------------------------
(* Instances of Dist for TLC. *)
EXTENDS Dist

CONSTANTS w1, w2

\* A worker with one thread and one with two, and two workers with two each.
OneAndTwo == (w1 :> 1) @@ (w2 :> 2)
TwoEach == (w1 :> 2) @@ (w2 :> 2)

I(b, e, k) == [b |-> b, e |-> e, id |-> k]
\* The file of a run whose worker with four threads adopted the halves of the tree,
\* which a worker with two threads had been given in the run before.
Quarters == {<< <<I(0, 1, 0), I(2, 2, 1), I(3, 4, 2), I(5, 5, 3)>> >>}

Symmetry == Permutations(Workers)
=============================================================================
