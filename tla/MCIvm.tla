------------------------------- MODULE MCIvm --------------------------------
(* Instances of Ivm for TLC. *)
EXTENDS Ivm

\* Values of arguments::branchingMode.
Alternate == -3
Begin == -1

\* One schedule is the cheapest, and those that start like it come next.
Graded ==
  {[s \in Schedule |-> IF s = <<1, 2, 0>> THEN 1 ELSE IF s[1] = 1 THEN 2 ELSE 3]}

\* All schedules are optimal, or all but the first one.
Flat ==
  {[s \in Schedule |-> 1], [s \in Schedule |-> IF s = <<0, 1, 2, 3>> THEN 2 ELSE 1]}
=============================================================================
