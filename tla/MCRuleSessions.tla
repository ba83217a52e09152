--------------------------- MODULE MCRuleSessions ---------------------------
(* TLC instance of RuleSessions: constants are given values in the cfgs. *)
EXTENDS RuleSessions
=============================================================================
