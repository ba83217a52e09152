----------------------------- MODULE MCJobQueue -----------------------------
(* TLC instance of JobQueue: constants are given values in the cfgs. *)
EXTENDS JobQueue, TLC

Symmetry == Permutations(Workers) \cup Permutations(Tokens)
=============================================================================
