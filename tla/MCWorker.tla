------------------------------ MODULE MCWorker ------------------------------
(* Instance of Worker for TLC: one heuristic thread, as by default. *)
EXTENDS Worker

CONSTANT h1
=============================================================================
