-------------------------- MODULE TemplateVerdict --------------------------
(***************************************************************************)
(* What the templates of internal/templates compute of the balances they   *)
(* have read: which assets they judge, the verdict on each, and the way    *)
(* the verdict takes through the CEL kernel of internal/engine, whose      *)
(* integers have 64 bits.  Also the comparison of the legacy policies in   *)
(* internal/api/service/reconciliation.go.                                 *)
(*                                                                         *)
(* A balance map is a function from the assets it mentions to integers.    *)
(* The result of a kernel expression is the set of its value; an           *)
(* expression that fails has the empty set.                                *)
(*                                                                         *)
(* A rule is a record: template, sources (in the order in which they are   *)
(* read), signs (of each source), tolerance (per asset) and bounds (per    *)
(* asset, a set of <<"min", n>> and <<"max", n>>).                          *)
(***************************************************************************)
EXTENDS Integers, Sequences, SequencesExt

CONSTANTS IntMax   \* the greatest int64

ASSUME IntAssumption == IntMax \in Nat

IntMin == -IntMax - 1
Int64 == IntMin..IntMax
Magnitude(x) == IF x < 0 THEN -x ELSE x

-----------------------------------------------------------------------------
(* The kernel: literals and sums must fit, abs refuses the minimum.        *)
Checked(x)    == {x} \cap Int64
Literal(x)    == Checked(x)
Plus(X, Y)    == UNION {Checked(x + y) : x \in X, y \in Y}
Minus(X, Y)   == UNION {Checked(x - y) : x \in X, y \in Y}
AbsInt(X)     == {Magnitude(x) : x \in X \ {IntMin}}
AtMost(X, n)  == {x <= n : x \in X}
AtLeast(X, n) == {x >= n : x \in X}

(* snapshotVerdictExpression: the expression goes to the kernel when every *)
(* operand and intermediate result fits, else the verdict of the exact     *)
(* arithmetic does.                                                        *)
SnapshotVerdict(values, kernel, exact) ==
  IF values \subseteq Int64 THEN kernel ELSE {exact}

-----------------------------------------------------------------------------
(* ledger_vs_pool_drift: |sign * ledger + pool| <= tolerance *)
DriftPassed(sign, ledger, pool, tolerance) ==
  Magnitude(sign * ledger + pool) <= tolerance
DriftValues(sign, ledger, pool) ==
  {ledger, sign * ledger, pool, sign * ledger + pool, Magnitude(sign * ledger + pool)}
DriftKernel(sign, ledger, pool, tolerance) ==
  AtMost(AbsInt(Plus(Literal(sign * ledger), Literal(pool))), tolerance)
DriftVerdict(sign, ledger, pool, tolerance) ==
  SnapshotVerdict(DriftValues(sign, ledger, pool),
                  DriftKernel(sign, ledger, pool, tolerance),
                  DriftPassed(sign, ledger, pool, tolerance))

(* source_parity: |left - right| <= tolerance *)
ParityPassed(left, right, tolerance) == Magnitude(left - right) <= tolerance
ParityValues(left, right) == {left, right, left - right, Magnitude(left - right)}
ParityKernel(left, right, tolerance) ==
  AtMost(AbsInt(Minus(Literal(left), Literal(right))), tolerance)
ParityVerdict(left, right, tolerance) ==
  SnapshotVerdict(ParityValues(left, right), ParityKernel(left, right, tolerance),
                  ParityPassed(left, right, tolerance))

(* ledger_invariant: |t1 + ... + tn| <= tolerance, of signed terms.  The   *)
(* sum may fit although a partial sum does not.                            *)
SumOf(terms) == FoldLeft(+, 0, terms)
PartialSums(terms) == {SumOf(SubSeq(terms, 1, i)) : i \in DOMAIN terms}
InvariantPassed(terms, tolerance) == Magnitude(SumOf(terms)) <= tolerance
(* (the partial sums are not among the values) *)
InvariantValuesTotal(terms) == Range(terms) \cup {SumOf(terms), Magnitude(SumOf(terms))}
InvariantValues(terms) ==
  Range(terms) \cup PartialSums(terms) \cup {SumOf(terms), Magnitude(SumOf(terms))}
InvariantKernel(terms, tolerance) ==
  LET add(X, t) == Plus(X, Literal(t))
  IN AtMost(AbsInt(FoldLeft(add, {0}, terms)), tolerance)
InvariantVerdict(terms, tolerance) ==
  SnapshotVerdict(InvariantValues(terms), InvariantKernel(terms, tolerance),
                  InvariantPassed(terms, tolerance))

(* account_threshold, aggregate: min <= value <= max, each optional *)
Respects(value, bound) == IF bound[1] = "min" THEN value >= bound[2] ELSE value <= bound[2]
ThresholdPassed(value, bounds) == \A b \in bounds : Respects(value, b)
ThresholdKernel(value, bounds) ==
  LET compare(b) == IF b[1] = "min" THEN AtLeast(Literal(value), b[2])
                                    ELSE AtMost(Literal(value), b[2])
  IN IF \E b \in bounds : compare(b) = {} THEN {}
     ELSE {\A b \in bounds : compare(b) = {TRUE}}
ThresholdVerdict(value, bounds) ==
  SnapshotVerdict({value}, ThresholdKernel(value, bounds), ThresholdPassed(value, bounds))

-----------------------------------------------------------------------------
(* A source that does not mention an asset holds none of it, and an asset  *)
(* without a tolerance must agree exactly.                                 *)
ZeroIfNil(balances, asset) == IF asset \in DOMAIN balances THEN balances[asset] ELSE 0
Tolerance(rule, asset) == ZeroIfNil(rule.tolerance, asset)

(* (the first source decides which assets there are) *)
FirstAssets(balances) == DOMAIN balances[1]
UnionAssets(balances) == UNION {DOMAIN balances[i] : i \in DOMAIN balances}

(* Two-sided templates judge every asset on either side, the others those  *)
(* their specification names.                                              *)
Judged(rule, balances) ==
  CASE rule.template \in {"drift", "parity"} -> UnionAssets(balances)
    [] rule.template = "invariant"           -> DOMAIN rule.tolerance
    [] rule.template = "threshold"           -> DOMAIN rule.bounds

Terms(rule, balances, asset) ==
  [i \in DOMAIN balances |-> rule.signs[i] * ZeroIfNil(balances[i], asset)]

Verdict(rule, balances, asset) ==
  LET value(i) == ZeroIfNil(balances[i], asset)  tolerance == Tolerance(rule, asset) IN
  CASE rule.template = "drift"     -> DriftVerdict(rule.signs[1], value(1), value(2), tolerance)
    [] rule.template = "parity"    -> ParityVerdict(value(1), value(2), tolerance)
    [] rule.template = "invariant" -> InvariantVerdict(Terms(rule, balances, asset), tolerance)
    [] rule.template = "threshold" -> ThresholdVerdict(value(1), rule.bounds[asset])

(* One outcome per judged asset; its fingerprint is the asset.             *)
Outcomes(rule, balances) ==
  [asset \in Judged(rule, balances) |-> Verdict(rule, balances, asset)]

-----------------------------------------------------------------------------
(* The comparison of a legacy policy, as stored by Service.Reconciliation. *)
Harmonized(balances, others) ==
  [asset \in DOMAIN balances \cup DOMAIN others |-> ZeroIfNil(balances, asset)]
LegacyDrift(ledger, pool) ==
  LET l == Harmonized(ledger, pool)  p == Harmonized(pool, ledger)
  IN [asset \in DOMAIN l |-> Magnitude(l[asset] + p[asset])]
LegacyOK(ledger, pool) ==
  LET drift == LegacyDrift(ledger, pool) IN \A asset \in DOMAIN drift : drift[asset] = 0

(* What Validate lets into the rule table, as far as it matters here.      *)
ValidRule(rule) ==
  /\ rule.template \in {"drift", "parity", "invariant", "threshold"}
  /\ Len(rule.sources) \in Nat \ {0} /\ DOMAIN rule.sources = 1..Len(rule.sources)
  /\ \A i \in DOMAIN rule.sources : rule.sources[i].kind \in {"ledger", "pool"}
  /\ DOMAIN rule.signs = DOMAIN rule.sources
  /\ \A i \in DOMAIN rule.signs : rule.signs[i] \in {1, -1}
  /\ \A asset \in DOMAIN rule.tolerance : rule.tolerance[asset] \in 0..IntMax
  /\ \A asset \in DOMAIN rule.bounds :
       /\ rule.bounds[asset] # {}
       /\ \A b \in rule.bounds[asset] : b[1] \in {"min", "max"} /\ b[2] \in Int64
       /\ \A b, c \in rule.bounds[asset] : b[1] = "min" /\ c[1] = "max" => b[2] <= c[2]
  /\ rule.template = "invariant" => DOMAIN rule.tolerance # {}
  /\ rule.template = "threshold" => Len(rule.sources) = 1 /\ DOMAIN rule.bounds # {}
  /\ rule.template \in {"drift", "parity"} => Len(rule.sources) = 2
  /\ \A i \in DOMAIN rule.sources :
       rule.sources[i].kind = "pool" => rule.template = "parity" \/ (rule.template = "drift" /\ i = 2)
=============================================================================
