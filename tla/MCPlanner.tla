----------------------------- MODULE MCPlanner -----------------------------
(* TLC instance of Planner: constants are given values in the cfgs. *)
EXTENDS Planner, TLC

Symmetry == Permutations(Planners) \cup Permutations(Rules)
=============================================================================
