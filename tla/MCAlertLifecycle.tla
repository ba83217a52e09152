-------------------------- MODULE MCAlertLifecycle --------------------------
(* TLC instance of AlertLifecycle: constants are given values in the cfgs. *)
EXTENDS AlertLifecycle, TLC

Symmetry == Permutations(Evidence)
=============================================================================
