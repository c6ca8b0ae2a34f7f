--------------------------- MODULE MCWorkStealing ---------------------------
(* Instances of WorkStealing for TLC. *)
EXTENDS WorkStealing
TwoLeaves == 0 .. 1
ThreeLeaves == 0 .. 2
=============================================================================
