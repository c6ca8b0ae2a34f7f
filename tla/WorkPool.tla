------------------------------ MODULE WorkPool ------------------------------
(***************************************************************************)
(* What a team of explorers promises, whatever the level at which it runs  *)
(* (the threads of matrix_controller, the IVMs of one process): a search   *)
(* space is cut into leaves, every leaf that is not explored yet belongs   *)
(* to exactly one explorer, a leaf leaves the pool only because its owner  *)
(* explored it, a thief is given work only when it has none, and a team    *)
(* that works to exhaustion says it is over only when no leaf is left.     *)
(***************************************************************************)
CONSTANTS
  Explorer,    \* the explorers of the team
  Leaf,        \* the leaves of the search tree
  Exhaustive   \* the team stops only when everything is explored

VARIABLES
  pool,        \* pool[e]: the leaves explorer e still has to explore
  over         \* has the team stopped?

poolVars == <<pool, over>>

Left == UNION {pool[e] : e \in Explorer}

Disjoint(f) ==
  \A d, e \in Explorer : d # e => f[d] \cap f[e] = {}

Init ==
  /\ pool \in [Explorer -> SUBSET Leaf]
  /\ Disjoint(pool)
  /\ over = FALSE

\* Explorer e explores (or discards by its bound) some of its own leaves.
Explore(e) ==
  /\ pool'[e] \subseteq pool[e]
  /\ pool' = [pool EXCEPT ![e] = pool'[e]]
  /\ UNCHANGED over

\* Victim v hands a part of its leaves to a thief that has none.
Steal(v, t) ==
  /\ v # t
  /\ pool[t] = {}
  /\ pool'[t] \subseteq pool[v]
  /\ pool' = [pool EXCEPT ![v] = @ \ pool'[t], ![t] = pool'[t]]
  /\ UNCHANGED over

\* The team stops.
Stop ==
  /\ Exhaustive => Left = {}
  /\ over' = TRUE
  /\ UNCHANGED pool

\* A team that was interrupted goes on; its leaves may be dealt out anew.
Restart ==
  /\ over /\ ~Exhaustive
  /\ over' = FALSE
  /\ pool' \in [Explorer -> SUBSET Left]
  /\ Disjoint(pool')
  /\ UNION {pool'[e] : e \in Explorer} = Left

Next ==
  \/ \E e \in Explorer : Explore(e)
  \/ \E v, t \in Explorer : Steal(v, t)
  \/ Stop
  \/ Restart

Spec == Init /\ [][Next]_poolVars
=============================================================================
