------------------------- MODULE TemplateEvaluation -------------------------
(***************************************************************************)
(* One evaluation of a rule by its template, source by source, while the   *)
(* balances of the sources move: which instant each source is read at, the *)
(* instant that is recorded for it, the outcomes, and the replay of the    *)
(* evaluation from what was recorded (internal/templates, and run of       *)
(* internal/reconciliation/runner.go).  What becomes of the outcomes is    *)
(* module AlertLifecycle.                                                  *)
(*                                                                         *)
(* The Ledger and Payments are external.  A ledger answers with the balance *)
(* at the instant it is asked for.  Payments does so within the window of  *)
(* a balance, which is a single instant until another movement closes it   *)
(* ("balance-window tail", internal/engine/resolvers.go), and answers      *)
(* unconditionally when asked for the latest.                              *)
(*                                                                         *)
(* A source is a record: kind, name and query (of a ledger).               *)
(***************************************************************************)
EXTENDS TemplateVerdict, FiniteSets

CONSTANTS
  RuleSet,    \* the rules to choose from
  Assets, Amounts,
  Margins,    \* safety margins a request or a schedule may have
  MaxClock,   \* bound on the instants
  MaxMoves    \* bound on the movements of the sources

ASSUME EvaluationAssumption ==
  /\ \A r \in RuleSet : ValidRule(r)
  /\ Amounts \subseteq Int /\ Margins \subseteq Nat
  /\ MaxClock \in Nat \ {0} /\ MaxMoves \in Nat

VARIABLES
  rule,
  now,
  history,   \* history[s][t]: the balances s moved to at t, or << >>
  run        \* run[k]: the evaluation and its replay

vars == <<rule, now, history, run>>

Instants == 1..MaxClock
Sources  == Range(rule.sources)
Runs     == {"original", "replay"}

(* EvalInput *)
Input(at, explicit, margin, sourcePITs) ==
  [pit |-> at, explicit |-> explicit, margin |-> margin, sourcePITs |-> sourcePITs]

(* balances are those read so far and pits is PitPerSource.  settled is    *)
(* not in the code: whether every read so far is one that time no longer   *)
(* changes.                                                                *)
Idle == [phase |-> "idle", input |-> Input(0, FALSE, 0, << >>),
         balances |-> << >>, pits |-> << >>, outcomes |-> << >>, settled |-> TRUE]

TypeOK ==
  /\ rule \in RuleSet /\ now \in Instants
  /\ \A s \in Sources, t \in Instants : history[s][t] # << >> => t <= now
  /\ \A k \in Runs :
       /\ run[k].phase \in {"idle", "reading", "done", "failed"}
       /\ \A key \in DOMAIN run[k].pits : run[k].pits[key] <= now
       /\ \A a \in DOMAIN run[k].outcomes : run[k].outcomes[a] \subseteq BOOLEAN

Init ==
  /\ rule \in RuleSet
  /\ now = 1
  /\ history = [s \in Sources |-> [t \in Instants |-> << >>]]
  /\ run = [k \in Runs |-> Idle]

-----------------------------------------------------------------------------
(* The services. *)
Moves(s)          == {t \in Instants : history[s][t] # << >>}
LastMove(s, t)    == {u \in Moves(s) : u <= t /\ \A v \in Moves(s) : v <= t => v <= u}
InForce(s, t)     == IF LastMove(s, t) = {} THEN << >>
                     ELSE history[s][CHOOSE u \in LastMove(s, t) : TRUE]
Superseded(s, t)  == \E v \in Moves(s) : v > t

AggregateBalance(s, t) == InForce(s, t)
PoolBalanceAt(s, t) ==
  IF Superseded(s, t) \/ t \in Moves(s) THEN InForce(s, t) ELSE << >>
PoolBalanceLatest(s) == InForce(s, now)

Tick ==
  /\ now < MaxClock
  /\ now' = now + 1
  /\ UNCHANGED <<rule, history, run>>

Move(s, asset, amount) ==
  /\ Cardinality({m \in Sources \X Instants : history[m[1]][m[2]] # << >>}) < MaxMoves
  /\ history' = [history EXCEPT ![s][now] =
       [a \in DOMAIN InForce(s, now) \cup {asset} |->
          IF a = asset THEN amount ELSE InForce(s, now)[a]]]
  /\ UNCHANGED <<rule, now, run>>

-----------------------------------------------------------------------------
Label(s) == <<s.kind, s.name>>
(* sourceKeyer: the label and how many sources before it have the same *)
Key(i) ==
  <<Label(rule.sources[i]),
    Cardinality({j \in 1..(i - 1) : Label(rule.sources[j]) = Label(rule.sources[i])})>>
SourceKeys == {Key(i) : i \in DOMAIN rule.sources}

(* effectiveSourcePIT *)
Overridden(input, key)  == key \in DOMAIN input.sourcePITs
(* (the margin is added) *)
MarginAdded(input, key) ==
  IF Overridden(input, key) THEN input.sourcePITs[key] ELSE input.pit + input.margin
(* (the margin is taken off an override too) *)
MarginTwice(input, key) ==
  (IF Overridden(input, key) THEN input.sourcePITs[key] ELSE input.pit) - input.margin
EffectivePIT(input, key) ==
  IF Overridden(input, key) THEN input.sourcePITs[key] ELSE input.pit - input.margin
ReadsAtPIT(input, key) == Overridden(input, key) \/ input.explicit

-----------------------------------------------------------------------------
Begin(k, input) ==
  /\ run[k].phase = "idle"
  /\ run' = [run EXCEPT ![k].phase = "reading", ![k].input = input]
  /\ UNCHANGED <<rule, now, history>>

(* POST /rules/{id}/evaluate without an instant *)
EvaluateNow(margin) == Begin("original", Input(now, FALSE, margin, << >>))

(* A job, as of its occurrence, or POST with an instant, and with instants *)
(* for single sources; all are past and the keys name sources of the rule. *)
EvaluateAt(at, margin, sourcePITs) ==
  /\ DOMAIN sourcePITs \subseteq SourceKeys
  /\ Begin("original", Input(at, TRUE, margin, sourcePITs))

(* with the instants another evaluation recorded *)
Replay(margin) ==
  /\ run["original"].phase = "done"
  /\ DOMAIN run["original"].pits \subseteq SourceKeys
  /\ Begin("replay", Input(run["original"].input.pit, TRUE, margin,
                           run["original"].pits))

(* SourceSpec.resolve: balances, and the instant recorded for the read.    *)
Resolve(s, pit, atPIT) ==
  CASE s.kind = "ledger"         -> <<AggregateBalance(s, pit), pit>>
    [] s.kind = "pool" /\ atPIT  -> <<PoolBalanceAt(s, pit), pit>>
    [] s.kind = "pool" /\ ~atPIT -> <<PoolBalanceLatest(s), now>>

(* Time has passed the instant and, for a pool, its balance has moved on.  *)
Settled(s, pit, atPIT) ==
  /\ pit < now
  /\ s.kind = "pool" => atPIT /\ Superseded(s, pit)

NextSource(k) == Len(run[k].balances) + 1

Read(k) ==
  LET i     == NextSource(k)
      s     == rule.sources[i]
      input == run[k].input
      pit   == EffectivePIT(input, Key(i))
      atPIT == ReadsAtPIT(input, Key(i))
      answer == Resolve(s, pit, atPIT)
  IN /\ run[k].phase = "reading" /\ i \in DOMAIN rule.sources
     /\ run' = [run EXCEPT
          ![k].balances = Append(@, answer[1]),
          ![k].pits = [key \in DOMAIN @ \cup {Key(i)} |->
                         IF key = Key(i) THEN answer[2] ELSE @[key]],
          ![k].settled = @ /\ Settled(s, pit, atPIT)]
     /\ UNCHANGED <<rule, now, history>>

Judge(k) ==
  /\ run[k].phase = "reading" /\ NextSource(k) = Len(rule.sources) + 1
  /\ run' = [run EXCEPT ![k].phase = "done",
                        ![k].outcomes = Outcomes(rule, run[k].balances)]
  /\ UNCHANGED <<rule, now, history>>

(* A resolver fails, or the kernel exceeds its cost or time: the           *)
(* evaluation is an ERROR that keeps the instants it has read at.          *)
Fail(k) ==
  /\ run[k].phase = "reading"
  /\ run' = [run EXCEPT ![k].phase = "failed"]
  /\ UNCHANGED <<rule, now, history>>

(* A request other than a replay overrides the last source or none. *)
Overrides == {<< >>} \cup [{Key(Len(rule.sources))} -> 1..now]

Next ==
  \/ Tick
  \/ \E s \in Sources, asset \in Assets, amount \in Amounts : Move(s, asset, amount)
  \/ \E margin \in Margins :
       \/ EvaluateNow(margin) \/ Replay(margin)
       \/ \E at \in 1..now, overrides \in Overrides : EvaluateAt(at, margin, overrides)
  \/ \E k \in Runs : Read(k) \/ Judge(k) \/ Fail(k)

Spec == Init /\ [][Next]_vars

-----------------------------------------------------------------------------
Done(k) == run[k].phase = "done"

(* What the rule says of the balances, in exact arithmetic. *)
Holds(asset, balances) ==
  LET v(i) == ZeroIfNil(balances[i], asset) IN
  CASE rule.template = "drift" ->
         rule.signs[1] * v(1) + v(2) \in -Tolerance(rule, asset)..Tolerance(rule, asset)
    [] rule.template = "parity" -> v(1) - v(2) \in -Tolerance(rule, asset)..Tolerance(rule, asset)
    [] rule.template = "invariant" ->
         FoldFunction(+, 0, [i \in DOMAIN balances |-> rule.signs[i] * v(i)])
           \in -Tolerance(rule, asset)..Tolerance(rule, asset)
    [] rule.template = "threshold" ->
         \A b \in rule.bounds[asset] : IF b[1] = "min" THEN v(1) >= b[2] ELSE v(1) <= b[2]

(* snapshotVerdictExpression: "keeps arbitrary-precision amounts out of    *)
(* CEL's signed-int64 arithmetic".  Whatever the size of the balances, the *)
(* kernel fails on no verdict and gives the exact one.                     *)
VerdictsAreExact ==
  \A k \in Runs : Done(k) =>
    \A asset \in DOMAIN run[k].outcomes :
      run[k].outcomes[asset] = {Holds(asset, run[k].balances)}

(* An evaluation whose reads were settled can be replayed from the         *)
(* instants recorded for its sources, whatever the margin of the replay:   *)
(* it judges the same assets alike.                                        *)
ReplaysAgree ==
  Done("original") /\ Done("replay") /\ run["original"].settled =>
    run["replay"].outcomes = run["original"].outcomes

(* A drift rule with the default sign and no tolerance is the legacy       *)
(* policy: it passes exactly when the policy's reconciliation is OK.  That *)
(* is what computeDrift and harmonizeBalances do: a drift of either sign   *)
(* fails, and an asset that one side lacks counts as zero.  The documents  *)
(* describe an older policy (api.md and v1-vs-legacy.md: a positive drift  *)
(* is OK, different numbers of assets fail), for which this would be false.*)
LegacyPortsOver ==
  \A k \in Runs :
    Done(k) /\ rule.template = "drift" /\ rule.signs[1] = 1 /\ DOMAIN rule.tolerance = {} =>
      LET balances == run[k].balances IN
      /\ DOMAIN run[k].outcomes = DOMAIN LegacyDrift(balances[1], balances[2])
      /\ LegacyOK(balances[1], balances[2])
           <=> \A asset \in DOMAIN run[k].outcomes : run[k].outcomes[asset] = {TRUE}

(* PaymentsResolver: "Callers pass a pit only for genuinely historical     *)
(* reads: a PIT read at ~now falls past the pool's last balance movement   *)
(* and returns empty".  So an evaluation that a caller, or the scheduler,  *)
(* asks for without an instant of the pool's own finds what the pool held  *)
(* at the instant recorded for the read.                                   *)
PoolReadsSeeTheBalance ==
  [][LET k == "original"  i == NextSource(k) IN
       Read(k) /\ run[k].input.sourcePITs = << >> /\ rule.sources[i].kind = "pool" =>
         run'[k].balances[i] = InForce(rule.sources[i], run'[k].pits[Key(i)])]_vars
=============================================================================
