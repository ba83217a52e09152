-------------------------- MODULE MCRuleDefinition --------------------------
(* TLC instance of RuleDefinition: two kinds share one specification, one  *)
(* accepts another besides, one kind is in no registry.                    *)
EXTENDS RuleDefinition, TLC

MCAccepts == {<<"parity", "both">>, <<"parity", "two_sides">>, <<"invariant", "both">>}
MCCronTimes == [odd |-> {1, 3}, february_30 |-> {}]
MCMargins == {-1, 0, 1}
MCPeriodLength == [daily |-> 2, weekly |-> 3, monthly |-> 4]

(* Requests differ by nothing but their patches. *)
Symmetry == Permutations(Clients)
=============================================================================
