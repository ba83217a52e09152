----------------------- MODULE MCTemplateEvaluation -----------------------
(* TLC instance of TemplateEvaluation: three bits for sixty-four. *)
EXTENDS TemplateEvaluation, TLC

Ledger(name, query) == [kind |-> "ledger", name |-> name, query |-> query]
Pool(name)          == [kind |-> "pool", name |-> name, query |-> "none"]

Rule(template, sources, signs, tolerance, bounds) ==
  [template |-> template, sources |-> sources, signs |-> signs,
   tolerance |-> tolerance, bounds |-> bounds]

Drift(sign, tolerance) ==
  Rule("drift", <<Ledger("x", "q1"), Pool("p")>>, <<sign, 1>>, tolerance, << >>)
(* The same source twice: the partial sum may overflow, the sum does not.  *)
Invariant ==
  Rule("invariant", <<Ledger("x", "q1"), Ledger("y", "q1"), Ledger("x", "q1")>>, <<1, 1, -1>>,
       [asset \in Assets |-> 1], << >>)
Parity ==
  Rule("parity", <<Ledger("x", "q1"), Ledger("x", "q2")>>, <<1, 1>>, << >>, << >>)
Threshold ==
  Rule("threshold", <<Ledger("x", "q1")>>, <<1>>, << >>,
       [asset \in Assets |-> {<<"min", -4>>, <<"max", 1>>}])

AllRules  == {Drift(1, << >>), Drift(-1, [asset \in Assets |-> 1]), Invariant, Parity, Threshold}
PoolRules == {Drift(1, << >>)}
AmountSet == {-4, -3, 3}
=============================================================================
