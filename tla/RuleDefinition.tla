--------------------------- MODULE RuleDefinition ---------------------------
(***************************************************************************)
(* The definition of one rule: how a request of the API becomes a stored   *)
(* rule (internal/api/service/rule.go), how concurrent patches of it are   *)
(* fenced (internal/storage/rule.go), and what an evaluation reads out of  *)
(* it (internal/models/rule.go, internal/reconciliation/runner.go): the    *)
(* instant of the sources and the period of the alerts.                    *)
(*                                                                         *)
(* A specification is an opaque value that some kinds of template accept;  *)
(* its explanation is the pair it was made from.  Name, severity, labels   *)
(* and notifications are left out: nothing depends on them.  A patch names *)
(* fields of the template or others, not both: each is checked on its own. *)
(* Moving the cursor over an occurrence is the matter of JobQueue.         *)
(***************************************************************************)
EXTENDS Integers, FiniteSets

CONSTANTS
  Clients,        \* requests that may be in flight together
  Kinds,          \* values of templateKind, known to the registry or not
  Specs,          \* values of templateSpec
  Accepts,        \* the pairs <<kind, spec>> a template validates
  CronTimes,      \* CronTimes[expr]: when a cron expression that parses fires
  Margins,        \* values of safetyMargin, in units of the clock
  DefaultMargin,  \* the 30 s of a schedule and of a request without one
  PeriodLength,   \* length of a daily, weekly or monthly period
  PeriodKeys,     \* values of periodType and cadence that are sent, "" among them
  MaxClock,       \* bound: the database's clock
  MaxRevision,    \* bound: changes of the rule
  Absent          \* a key that is not in a JSON document, NULL in the row

PeriodTypes == {"continuous"} \cup DOMAIN PeriodLength    \* PeriodType.Valid

(* An expression that does not parse, or none, is NoCron; only a cron      *)
(* schedule's is looked at.                                                *)
NoCron == "not a cron expression"
WireSchedules ==
  {w \in [kind   : {"on_demand", "cron", "event_driven"},
          expr   : DOMAIN CronTimes \cup {NoCron},
          margin : Margins \cup {Absent}] : w.kind # "cron" => w.expr = NoCron}

Rule ==
  [kind : Kinds, spec : Specs, explanation : Kinds \X Specs,
   schedule : WireSchedules \cup {Absent}, enabled : BOOLEAN, periodType : PeriodTypes,
   revision : Nat, nextRunAt : Nat \cup {Absent}]
Request ==
  [kind : Kinds \cup {Absent}, spec : Specs \cup {Absent}, explanation : Kinds \X Specs,
   expected : Nat]

ASSUME DefinitionAssumption ==
  /\ Accepts \subseteq Kinds \X Specs
  /\ Margins \subseteq Int /\ DefaultMargin \in Nat
  /\ PeriodLength \in [{"daily", "weekly", "monthly"} -> Nat \ {0}]
  /\ \A expr \in DOMAIN CronTimes : CronTimes[expr] \subseteq Nat
  /\ MaxClock \in Nat /\ MaxRevision \in Nat \ {0}
  /\ Absent \notin Kinds /\ Absent \notin Specs /\ Absent \notin PeriodKeys
  /\ Absent \notin Int /\ Absent \notin BOOLEAN
  /\ Absent \notin WireSchedules /\ Absent \notin Rule /\ Absent \notin Request
ASSUME KeyAssumption == Absent \notin {"", "disagree"}    \* what keys resolve to

VARIABLES
  now,      \* the clock
  rule,     \* the row of the rule, or Absent before it is created
  request,  \* request[c]: a patch of the template between its validation and its transaction
  asked     \* history: the safety margin last asked for and the period keys of the creation

vars == <<now, rule, request, asked>>

Explain(kind, spec) == <<kind, spec>>

-----------------------------------------------------------------------------
(* models.Schedule: the field safetyMargin of the document is a pointer,   *)
(* the one of the structure a number and a flag.                           *)

UnmarshalJSON(w) ==
  [kind |-> w.kind, expr |-> w.expr,
   margin |-> IF w.margin = Absent THEN 0 ELSE w.margin, provided |-> w.margin # Absent]

(* (the margin of a structure that is zero is omitted) *)
MarshalNonZero(s) ==
  [kind |-> s.kind, expr |-> s.expr, margin |-> IF s.margin # 0 THEN s.margin ELSE Absent]

MarshalJSON(s) ==
  [kind |-> s.kind, expr |-> s.expr,
   margin |-> IF s.provided \/ s.margin # 0 THEN s.margin ELSE Absent]

(* A schedule is decoded from the request and encoded into the column. *)
Column(w) == IF w = Absent THEN Absent ELSE MarshalJSON(UnmarshalJSON(w))

(* (a margin may be negative) *)
ValidKindOfSchedule(s) ==
  s.kind \in {"on_demand", "cron"} /\ (s.kind = "cron" => s.expr # NoCron)

ValidSchedule(s) ==
  /\ s.margin >= 0
  /\ s.kind \in {"on_demand", "cron"}
  /\ s.kind = "cron" => s.expr # NoCron

(* validateSchedule of what a request holds; none is valid *)
ValidateSchedule(w) == w # Absent => ValidSchedule(UnmarshalJSON(w))

(* Schedule.Next: the zero time, stored as NULL, when there is none *)
NextOccurrence(w, t) ==
  LET later == IF w = Absent \/ w.kind # "cron" \/ w.expr \notin DOMAIN CronTimes THEN {}
               ELSE {n \in CronTimes[w.expr] : n > t}
  IN  IF later = {} THEN Absent ELSE CHOOSE n \in later : \A m \in later : n <= m

(* The cursor of an enabled rule with a cron schedule *)
NextRunAt(enabled, w, t) == IF enabled THEN NextOccurrence(w, t) ELSE Absent

-----------------------------------------------------------------------------
(* CreateRule *)

(* (the deprecated key wins over the other) *)
CadenceFirst(periodType, cadence) ==
  IF cadence \in {Absent, ""} THEN periodType ELSE cadence

(* resolvePeriodType: the two keys may not contradict each other. *)
ResolvePeriodType(periodType, cadence) ==
  CASE cadence \in {Absent, ""} -> periodType
    [] periodType \in {Absent, "", cadence} -> cadence
    [] OTHER -> "disagree"

(* (what the keys resolve to is not looked at) *)
ValidPeriodTypeKey(periodType, cadence) == periodType # Absent => periodType \in PeriodTypes

(* CreateRuleRequest.Validate.  A periodType that is sent is one of the    *)
(* enum before anything else, an empty cadence counts as none.             *)
ValidPeriod(periodType, cadence) ==
  /\ periodType # Absent => periodType \in PeriodTypes
  /\ ResolvePeriodType(periodType, cadence) \in PeriodTypes \cup {Absent}

CreateRule(kind, spec, w, enabled, periodType, cadence) ==
  LET resolved == ResolvePeriodType(periodType, cadence) IN
  /\ rule = Absent
  /\ ValidPeriod(periodType, cadence)
  /\ ValidateSchedule(w)
  /\ <<kind, spec>> \in Accepts
  /\ rule' = [kind |-> kind, spec |-> spec, explanation |-> Explain(kind, spec),
              schedule |-> Column(w), enabled |-> enabled,
              periodType |-> IF resolved = Absent THEN "continuous" ELSE resolved,
              revision |-> 1, nextRunAt |-> NextRunAt(enabled, Column(w), now)]
  /\ asked' = [margin |-> IF w = Absent THEN Absent ELSE w.margin,
               periods |-> {periodType, cadence} \ {Absent, ""}]
  /\ UNCHANGED <<now, request>>

-----------------------------------------------------------------------------
(* PatchRule.  A key that is absent leaves the field as it is. *)

Named(value, current) == IF value = Absent THEN current ELSE value

TemplatePatches ==
  {p \in [kind : Kinds \cup {Absent}, spec : Specs \cup {Absent}] :
     p.kind # Absent \/ p.spec # Absent}
OtherPatches ==
  {p \in [enabled : BOOLEAN \cup {Absent}, schedule : WireSchedules \cup {Absent}] :
     p.enabled # Absent \/ p.schedule # Absent}

(* (the cursor is computed from the patch alone) *)
RevisedByPatch(changes, enabled, w, at) ==
  rule' = [changes EXCEPT !.enabled = Named(enabled, @), !.schedule = Named(Column(w), @),
             !.revision = @ + 1, !.nextRunAt = NextRunAt(Named(enabled, TRUE), Column(w), at)]

(* patchRule, with the row locked: every patch is a revision and moves the *)
(* cursor after now(), which is the instant at which the transaction began,*)
(* before it waited for the row.                                           *)
Revised(changes, enabled, w, at) ==
  rule' = [changes EXCEPT !.enabled = Named(enabled, @), !.schedule = Named(Column(w), @),
             !.revision = @ + 1,
             !.nextRunAt = NextRunAt(Named(enabled, rule.enabled),
                                     Named(Column(w), rule.schedule), at)]

(* The service validates the patched template against the row it reads,    *)
(* and derives the explanation.                                            *)
ValidatePatch(c, p) ==
  LET kind == Named(p.kind, rule.kind)
      spec == Named(p.spec, rule.spec)
  IN  /\ rule # Absent /\ rule.revision < MaxRevision
      /\ request[c] = Absent
      /\ <<kind, spec>> \in Accepts
      /\ request' = [request EXCEPT ![c] =
           [kind |-> p.kind, spec |-> p.spec, explanation |-> Explain(kind, spec),
            expected |-> rule.revision]]
      /\ UNCHANGED <<now, rule, asked>>

(* (the revision the patch was validated against is not compared) *)
AnyRevision(c) == TRUE

(* ExpectedRevision *)
Expected(c) == request[c].expected = rule.revision

(* The transaction of the patch; a conflict is answered with 409. *)
PatchTemplate(c, at) ==
  /\ request[c] # Absent
  /\ IF Expected(c)
     THEN Revised([rule EXCEPT !.kind = Named(request[c].kind, @),
                               !.spec = Named(request[c].spec, @),
                               !.explanation = request[c].explanation], Absent, Absent, at)
     ELSE UNCHANGED rule
  /\ request' = [request EXCEPT ![c] = Absent]
  /\ UNCHANGED <<now, asked>>

(* A patch of other fields is validated without the row and not fenced. *)
PatchOther(p, at) ==
  /\ rule # Absent /\ rule.revision < MaxRevision
  /\ ValidateSchedule(p.schedule)
  /\ Revised(rule, p.enabled, p.schedule, at)
  /\ asked' = IF p.schedule = Absent THEN asked ELSE [asked EXCEPT !.margin = p.schedule.margin]
  /\ UNCHANGED <<now, request>>

(* The patches in flight find no row. *)
DeleteRule ==
  /\ rule # Absent
  /\ rule' = Absent
  /\ request' = [c \in Clients |-> Absent]
  /\ asked' = [margin |-> Absent, periods |-> {}]
  /\ UNCHANGED now

Tick == now < MaxClock /\ now' = now + 1 /\ UNCHANGED <<rule, request, asked>>

-----------------------------------------------------------------------------
(* What an evaluation makes of the rule *)

(* EvaluateScheduled: the margin of the schedule, if it was given one *)
ScheduledMargin ==
  LET s == UnmarshalJSON(rule.schedule) IN
  IF rule.schedule # Absent /\ (s.provided \/ s.margin # 0) THEN s.margin ELSE DefaultMargin

(* evaluateRuleHandler: the margin of the request, which is not negative *)
ManualMargins == {m \in Margins : m >= 0} \cup {DefaultMargin}

(* effectiveSourcePIT, of a source without an instant of its own *)
ReadAt(pit, margin) == IF margin > 0 THEN pit - margin ELSE pit

(* PeriodType.PeriodID: any unknown type is one period without end. *)
PeriodID(t) ==
  IF rule.periodType \in DOMAIN PeriodLength
  THEN <<rule.periodType, t \div PeriodLength[rule.periodType]>>
  ELSE <<"continuous", 0>>

(* (the period of the instant that was asked for) *)
PeriodOfPIT(pit, margin) == PeriodID(pit)

(* Runner.run *)
PeriodOf(pit, margin) == PeriodID(pit - margin)

-----------------------------------------------------------------------------
TypeOK ==
  /\ now \in Nat
  /\ rule \in Rule \cup {Absent}
  /\ request \in [Clients -> Request \cup {Absent}]
  /\ asked \in [margin : Margins \cup {Absent}, periods : SUBSET PeriodKeys]

Init ==
  /\ now = 0
  /\ rule = Absent
  /\ request = [c \in Clients |-> Absent]
  /\ asked = [margin |-> Absent, periods |-> {}]

Next ==
  \/ \E kind \in Kinds, spec \in Specs, w \in WireSchedules \cup {Absent}, enabled \in BOOLEAN,
        periodType, cadence \in PeriodKeys \cup {Absent} :
       CreateRule(kind, spec, w, enabled, periodType, cadence)
  \/ \E c \in Clients : \E p \in TemplatePatches : ValidatePatch(c, p)
  \/ \E at \in 0..now : (\E c \in Clients : PatchTemplate(c, at)) \/ (\E p \in OtherPatches : PatchOther(p, at))
  \/ DeleteRule
  \/ Tick

Spec == Init /\ [][Next]_vars

-----------------------------------------------------------------------------
(* RulePatch: ExpectedRevision "fences service-layer validation that was   *)
(* derived from a prior read".  Whatever patches meet, the stored template *)
(* accepts the stored specification, and the explanation is of the two.    *)
StoredTemplateIsValid ==
  rule # Absent =>
    /\ <<rule.kind, rule.spec>> \in Accepts
    /\ rule.explanation = Explain(rule.kind, rule.spec)

(* models.Schedule: a margin of "0s" is not the same as none.  A scheduled *)
(* evaluation uses the margin that was asked for last, and the default     *)
(* only if the schedule came without one.                                  *)
AskedMarginIsUsed ==
  rule # Absent =>
    ScheduledMargin = IF asked.margin = Absent THEN DefaultMargin ELSE asked.margin

(* resolvePeriodType: no client "get[s] a rule that buckets differently    *)
(* from what it asked for", by either key.                                 *)
AskedPeriodIsKept ==
  rule # Absent =>
    asked.periods = {rule.periodType} \/ (asked.periods = {} /\ rule.periodType = "continuous")

(* A rule does what it was asked for, not what was left out. *)
WhatWasAskedIsKept == AskedMarginIsUsed /\ AskedPeriodIsKept

(* alert-period-model.md: an alert belongs to the period its sources were  *)
(* read in.  Evidence of one period is never filed under another, whatever *)
(* the margin of the schedule or of the request.                           *)
PeriodOfTheReadings ==
  rule # Absent =>
    \A pit \in 0..now : \A margin \in ManualMargins \cup {ScheduledMargin} :
      PeriodOf(pit, margin) = PeriodID(ReadAt(pit, margin))

(* patchRule recomputes the cursor from the row it has locked: after any   *)
(* patches that cross each other a rule has a cursor exactly if it is      *)
(* enabled and has an occurrence to come, and none of those is before it.  *)
CursorFitsTheSchedule ==
  rule # Absent =>
    LET times == IF rule.schedule # Absent /\ rule.schedule.kind = "cron"
                 THEN CronTimes[rule.schedule.expr] ELSE {}
        coming == {t \in times : t > now}
    IN  /\ rule.nextRunAt # Absent => rule.enabled /\ rule.nextRunAt \in times
        /\ rule.enabled /\ coming # {} =>
             rule.nextRunAt # Absent /\ \A t \in coming : rule.nextRunAt <= t
=============================================================================
