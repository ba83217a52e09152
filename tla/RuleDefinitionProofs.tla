------------------------ MODULE RuleDefinitionProofs ------------------------
(***************************************************************************)
(* Proofs about RuleDefinition, for any templates, schedules, margins,     *)
(* period lengths and number of concurrent requests, and any bounds.       *)
(***************************************************************************)
EXTENDS RuleDefinition, WellFoundedInduction, TLAPS

(* What a schedule that was validated can be evaluated with. *)
StoredScheduleIsValid == rule # Absent => ValidateSchedule(rule.schedule)

(* The column holds the margin that was asked for last. *)
MarginIsStored ==
  rule # Absent =>
    asked.margin = IF rule.schedule = Absent THEN Absent ELSE rule.schedule.margin

(* A patch in flight is of an older revision, or what it makes of the row  *)
(* as it is now is what the service validated.                             *)
PatchIsValidated(c) ==
  request[c] # Absent =>
    /\ rule # Absent
    /\ request[c].expected <= rule.revision
    /\ request[c].expected = rule.revision =>
         LET kind == Named(request[c].kind, rule.kind)
             spec == Named(request[c].spec, rule.spec)
         IN  <<kind, spec>> \in Accepts /\ request[c].explanation = Explain(kind, spec)

IInv ==
  /\ TypeOK
  /\ StoredScheduleIsValid
  /\ MarginIsStored
  /\ StoredTemplateIsValid
  /\ \A c \in Clients : PatchIsValidated(c)
  /\ AskedPeriodIsKept
  /\ CursorFitsTheSchedule

-----------------------------------------------------------------------------
(* Of any natural numbers one is the least. *)
LEMMA LeastNatural ==
  ASSUME NEW S \in SUBSET Nat, S # {}
  PROVE  \E n \in S : \A m \in S : n <= m
<1> DEFINE R == {ss \in Nat \X Nat : ss[1] < ss[2]}
<1>1. IsWellFoundedOn(R, Nat)
  BY NatLessThanWellFounded DEF OpToRel
<1>2. \E n \in S : \A m \in S : <<m, n>> \notin R
  <2> HIDE DEF R
  <2> QED  BY <1>1, WFMin
<1>3. \A n, m \in S : <<m, n>> \notin R => n <= m
  OBVIOUS
<1> QED  BY <1>2, <1>3

(* The round trip of a schedule loses nothing, a margin of zero included. *)
LEMMA ColumnKeeps ==
  ASSUME NEW w \in WireSchedules \cup {Absent}
  PROVE  Column(w) = w
<1>1. CASE w = Absent
  BY <1>1 DEF Column
<1>2. CASE w \in WireSchedules
  <2>1. w \in [kind : {"on_demand", "cron", "event_driven"}, expr : DOMAIN CronTimes \cup {NoCron},
               margin : Margins \cup {Absent}]
    BY <1>2 DEF WireSchedules
  <2>2. Column(w) = [kind |-> w.kind, expr |-> w.expr, margin |-> w.margin]
    BY <1>2, <2>1, DefinitionAssumption DEF Column, MarshalJSON, UnmarshalJSON
  <2> QED  BY <2>1, <2>2
<1> QED  BY <1>1, <1>2

(* The instants a schedule fires at. *)
Times(w) == IF w # Absent /\ w.kind = "cron" THEN CronTimes[w.expr] ELSE {}

(* A valid schedule that fires has an expression that parses. *)
LEMMA TimesType ==
  ASSUME NEW w \in WireSchedules \cup {Absent}, ValidateSchedule(w)
  PROVE  /\ Times(w) \in SUBSET Nat
         /\ w # Absent /\ w.kind = "cron" => w.expr \in DOMAIN CronTimes
BY DefinitionAssumption DEF Times, ValidateSchedule, ValidSchedule, UnmarshalJSON, WireSchedules

(* Schedule.Next is the first of the occurrences to come. *)
LEMMA NextIsFirst ==
  ASSUME NEW w \in WireSchedules \cup {Absent}, ValidateSchedule(w), NEW t \in Nat
  PROVE  LET n == NextOccurrence(w, t)
             coming == {m \in Times(w) : m > t}
         IN  /\ coming = {} => n = Absent
             /\ coming # {} => n \in coming /\ \A m \in coming : n <= m
<1> DEFINE coming == {m \in Times(w) : m > t}
<1>1. NextOccurrence(w, t) =
        IF coming = {} THEN Absent ELSE CHOOSE n \in coming : \A m \in coming : n <= m
  <2> DEFINE later == IF w = Absent \/ w.kind # "cron" \/ w.expr \notin DOMAIN CronTimes THEN {}
                      ELSE {n \in CronTimes[w.expr] : n > t}
  <2>1. NextOccurrence(w, t) =
          IF later = {} THEN Absent ELSE CHOOSE n \in later : \A m \in later : n <= m
    BY DEF NextOccurrence
  <2>2. later = coming
    BY TimesType DEF Times
  <2> HIDE DEF later, coming
  <2> QED  BY <2>1, <2>2
<1>2. coming \in SUBSET Nat
  BY TimesType
<1> HIDE DEF coming
<1>3. coming # {} => \E n \in coming : \A m \in coming : n <= m
  BY <1>2, LeastNatural
<1>4. coming # {} =>
        LET n == CHOOSE n \in coming : \A m \in coming : n <= m
        IN  n \in coming /\ \A m \in coming : n <= m
  BY <1>3
<1> QED  BY <1>1, <1>4 DEF coming

(* The cursor a change of the rule leaves behind fits what it is made of. *)
LEMMA CursorFits ==
  ASSUME NEW enabled \in BOOLEAN, NEW w \in WireSchedules \cup {Absent}, ValidateSchedule(w),
         NEW t \in Nat
  PROVE  LET n == NextRunAt(enabled, w, t)
             coming == {m \in Times(w) : m > t}
         IN  /\ n \in Nat \cup {Absent}
             /\ n # Absent => enabled /\ n \in Times(w)
             /\ enabled /\ coming # {} => n # Absent /\ \A m \in coming : n <= m
<1> DEFINE coming == {m \in Times(w) : m > t}
<1>1. Times(w) \in SUBSET Nat
  BY TimesType
<1>2. CASE enabled
  <2>1. NextRunAt(enabled, w, t) = NextOccurrence(w, t)
    BY <1>2 DEF NextRunAt
  <2>2. CASE coming = {}
    BY <1>2, <2>1, <2>2, NextIsFirst
  <2>3. CASE coming # {}
    <3>1. /\ NextOccurrence(w, t) \in coming
          /\ \A m \in coming : NextOccurrence(w, t) <= m
      BY <2>3, NextIsFirst
    <3>2. NextOccurrence(w, t) # Absent
      BY <1>1, <3>1, DefinitionAssumption
    <3> QED  BY <1>1, <1>2, <2>1, <3>1, <3>2
  <2> QED  BY <2>2, <2>3
<1>3. CASE ~enabled
  BY <1>3 DEF NextRunAt
<1> QED  BY <1>2, <1>3

-----------------------------------------------------------------------------
(* What a patch does to each field of the row. *)
LEMMA RevisedRule ==
  ASSUME rule \in Rule, NEW at \in Nat, StoredScheduleIsValid,
         NEW changes \in Rule, changes.schedule = rule.schedule, changes.enabled = rule.enabled,
         NEW enabled \in BOOLEAN \cup {Absent},
         NEW w \in WireSchedules \cup {Absent}, ValidateSchedule(w),
         Revised(changes, enabled, w, at)
  PROVE  /\ rule' \in Rule
         /\ rule'.kind = changes.kind /\ rule'.spec = changes.spec
         /\ rule'.explanation = changes.explanation
         /\ rule'.periodType = changes.periodType
         /\ rule'.revision = changes.revision + 1
         /\ rule'.schedule = Named(w, rule.schedule)
         /\ ValidateSchedule(rule'.schedule)
         /\ rule'.enabled = Named(enabled, rule.enabled)
         /\ rule'.nextRunAt = NextRunAt(rule'.enabled, rule'.schedule, at)
<1> DEFINE s == Named(w, rule.schedule)
           b == Named(enabled, rule.enabled)
           n == NextRunAt(b, s, at)
<1>1. Column(w) = w
  BY ColumnKeeps
<1>2. s \in WireSchedules \cup {Absent} /\ ValidateSchedule(s)
  BY DefinitionAssumption DEF Named, Rule, StoredScheduleIsValid
<1>3. b \in BOOLEAN
  BY DEF Named, Rule
<1>4. n \in Nat \cup {Absent}
  BY <1>2, <1>3, CursorFits
<1>5. rule' = [changes EXCEPT !.enabled = b, !.schedule = s, !.revision = changes.revision + 1,
                              !.nextRunAt = n]
  BY <1>1 DEF Revised, Named
<1> HIDE DEF s, b, n
<1>6. /\ changes.kind \in Kinds /\ changes.spec \in Specs /\ changes.explanation \in Kinds \X Specs
      /\ changes.periodType \in PeriodTypes /\ changes.revision \in Nat
  BY DEF Rule
<1>7. rule' = [kind |-> changes.kind, spec |-> changes.spec, explanation |-> changes.explanation,
               schedule |-> s, enabled |-> b, periodType |-> changes.periodType,
               revision |-> changes.revision + 1, nextRunAt |-> n]
  BY <1>5 DEF Rule
<1>8. rule' \in Rule
  BY <1>2, <1>3, <1>4, <1>6, <1>7 DEF Rule
<1> QED  BY <1>2, <1>7, <1>8 DEF s, b, n

(* A cursor that has just been computed fits the schedule, from whatever   *)
(* instant of the past.                                                    *)
LEMMA FreshCursorFits ==
  ASSUME rule' \in Rule, now \in Nat, now' = now, ValidateSchedule(rule'.schedule),
         NEW at \in 0..now, rule'.nextRunAt = NextRunAt(rule'.enabled, rule'.schedule, at)
  PROVE  CursorFitsTheSchedule'
<1> DEFINE w == rule'.schedule
           coming == {m \in Times(w) : m > at}
<1>1. w \in WireSchedules \cup {Absent} /\ rule'.enabled \in BOOLEAN
  BY DEF Rule
<1>2. /\ rule'.nextRunAt # Absent => rule'.enabled /\ rule'.nextRunAt \in Times(w)
      /\ rule'.enabled /\ coming # {} =>
           rule'.nextRunAt # Absent /\ \A m \in coming : rule'.nextRunAt <= m
  BY <1>1, CursorFits
<1>3. Times(w) \in SUBSET Nat
  BY <1>1, TimesType
<1>4. {m \in Times(w) : m > now} \subseteq coming
  BY <1>3
<1> HIDE DEF coming
<1> QED  BY <1>2, <1>4 DEF CursorFitsTheSchedule, Times

(* A margin that was stored is used, and none is taken for the default. *)
LEMMA MarginUsed ==
  ASSUME rule \in Rule, MarginIsStored
  PROVE  ScheduledMargin = IF asked.margin = Absent THEN DefaultMargin ELSE asked.margin
<1>1. CASE rule.schedule = Absent
  BY <1>1, DefinitionAssumption DEF ScheduledMargin, MarginIsStored
<1>2. CASE rule.schedule # Absent
  <2>1. asked.margin = rule.schedule.margin /\ rule # Absent
    BY <1>2, DefinitionAssumption DEF MarginIsStored
  <2> QED  BY <1>2, <2>1, DefinitionAssumption DEF ScheduledMargin, UnmarshalJSON
<1> QED  BY <1>1, <1>2

(* The margin of a stored schedule is a number, and not negative. *)
LEMMA MarginType ==
  ASSUME rule \in Rule, StoredScheduleIsValid
  PROVE  ScheduledMargin \in Int /\ ScheduledMargin >= 0
<1>1. CASE rule.schedule = Absent
  BY <1>1, DefinitionAssumption DEF ScheduledMargin
<1>2. CASE rule.schedule # Absent
  <2>1. rule.schedule.margin \in Margins \cup {Absent}
    BY <1>2 DEF Rule, WireSchedules
  <2> DEFINE m == rule.schedule.margin
  <2>2. UnmarshalJSON(rule.schedule).margin = IF m = Absent THEN 0 ELSE m
    BY DEF UnmarshalJSON
  <2>3. m = Absent \/ m \in Int
    BY <2>1, DefinitionAssumption
  <2> HIDE DEF m
  <2>4. UnmarshalJSON(rule.schedule).margin \in Int
    BY <2>2, <2>3
  <2>5. UnmarshalJSON(rule.schedule).margin >= 0
    BY <1>2, DefinitionAssumption DEF StoredScheduleIsValid, ValidateSchedule, ValidSchedule
  <2> QED  BY <1>2, <2>4, <2>5, DefinitionAssumption DEF ScheduledMargin
<1> QED  BY <1>1, <1>2

-----------------------------------------------------------------------------
LEMMA InitInv == Init => IInv
BY DefinitionAssumption
   DEF Init, IInv, TypeOK, StoredScheduleIsValid, MarginIsStored, StoredTemplateIsValid,
       PatchIsValidated, AskedPeriodIsKept, CursorFitsTheSchedule

(* A creation stores what was validated. *)
LEMMA CreateInv ==
  ASSUME NEW kind \in Kinds, NEW spec \in Specs, NEW w \in WireSchedules \cup {Absent},
         NEW enabled \in BOOLEAN, NEW periodType \in PeriodKeys \cup {Absent},
         NEW cadence \in PeriodKeys \cup {Absent},
         CreateRule(kind, spec, w, enabled, periodType, cadence), IInv
  PROVE  IInv'
<1> DEFINE resolved == ResolvePeriodType(periodType, cadence)
           period == IF resolved = Absent THEN "continuous" ELSE resolved
           n == NextRunAt(enabled, w, now)
<1>1. /\ TypeOK /\ rule = Absent /\ UNCHANGED <<now, request>>
      /\ ValidPeriod(periodType, cadence) /\ ValidateSchedule(w) /\ <<kind, spec>> \in Accepts
      /\ asked' = [margin |-> IF w = Absent THEN Absent ELSE w.margin,
                   periods |-> {periodType, cadence} \ {Absent, ""}]
  BY DEF CreateRule, IInv
<1>2. rule' = [kind |-> kind, spec |-> spec, explanation |-> Explain(kind, spec), schedule |-> w,
               enabled |-> enabled, periodType |-> period, revision |-> 1, nextRunAt |-> n]
  BY ColumnKeeps DEF CreateRule
<1>3. n \in Nat \cup {Absent}
  BY <1>1, CursorFits DEF TypeOK
<1>4. period \in PeriodTypes
  BY <1>1 DEF ValidPeriod, PeriodTypes
<1>5. rule' \in Rule
  BY <1>2, <1>3, <1>4 DEF Rule, Explain
<1>6. asked'.margin \in Margins \cup {Absent} /\ asked'.periods \in SUBSET PeriodKeys
  BY <1>1 DEF WireSchedules
<1>7. TypeOK'
  BY <1>1, <1>5, <1>6 DEF TypeOK
<1>8. StoredScheduleIsValid' /\ MarginIsStored' /\ StoredTemplateIsValid'
  BY <1>1, <1>2 DEF StoredScheduleIsValid, MarginIsStored, StoredTemplateIsValid
<1>9. \A c \in Clients : PatchIsValidated(c)'
  BY <1>1 DEF IInv, PatchIsValidated
<1>10. AskedPeriodIsKept'
  <2>1. asked'.periods = {periodType, cadence} \ {Absent, ""} /\ rule'.periodType = period
    BY <1>1, <1>2
  <2>2. PeriodTypes = {"continuous", "daily", "weekly", "monthly"}
    BY DefinitionAssumption DEF PeriodTypes
  <2>3. "" \notin PeriodTypes /\ "" # Absent /\ "disagree" \notin PeriodTypes \cup {Absent}
    BY <2>2, KeyAssumption
  <2>4. periodType # ""
    BY <1>1, <2>3 DEF ValidPeriod
  <2>5. resolved \in PeriodTypes \cup {Absent}
    BY <1>1 DEF ValidPeriod
  <2> QED  BY <2>1, <2>3, <2>4, <2>5, DefinitionAssumption DEF AskedPeriodIsKept, ResolvePeriodType
<1>11. CursorFitsTheSchedule'
  <2>0. now \in Nat
    BY <1>1 DEF TypeOK
  <2>1. now \in Nat /\ now \in 0..now /\ now' = now
    <3>1. now \in 0..now
      BY <2>0
    <3> QED  BY <1>1, <2>0, <3>1
  <2>2. rule'.nextRunAt = NextRunAt(rule'.enabled, rule'.schedule, now) /\ ValidateSchedule(rule'.schedule)
    BY <1>1, <1>2
  <2> QED  BY <1>5, <2>1, <2>2, FreshCursorFits
<1> QED  BY <1>7, <1>8, <1>9, <1>10, <1>11 DEF IInv

(* A patch that is fenced out by its revision was validated against        *)
(* another, and stays older.                                               *)
LEMMA PatchesStayValidated ==
  ASSUME TypeOK, TypeOK', rule # Absent, rule' # Absent, rule'.revision = rule.revision + 1,
         \A c \in Clients : PatchIsValidated(c) /\ request'[c] \in {request[c], Absent}
  PROVE  \A c \in Clients : PatchIsValidated(c)'
<1> SUFFICES ASSUME NEW c \in Clients, request'[c] # Absent PROVE PatchIsValidated(c)'
  BY DEF PatchIsValidated
<1>1. request'[c] = request[c] /\ PatchIsValidated(c) /\ request[c] # Absent
  OBVIOUS
<1>2. rule.revision \in Nat /\ request[c].expected \in Nat
  BY <1>1 DEF TypeOK, Rule, Request
<1>3. request'[c].expected < rule'.revision
  BY <1>1, <1>2 DEF PatchIsValidated
<1>4. request'[c].expected \in Nat /\ rule'.revision \in Nat
  BY <1>1, <1>2
<1> QED  BY <1>3, <1>4 DEF PatchIsValidated

(* A patch of the template that is still about the row it was validated    *)
(* against stores what was validated.                                      *)
LEMMA PatchTemplateInv ==
  ASSUME NEW c \in Clients, NEW at \in 0..now, PatchTemplate(c, at), IInv
  PROVE  IInv'
<1> DEFINE r == request[c]
           changes == [rule EXCEPT !.kind = Named(r.kind, rule.kind),
                                   !.spec = Named(r.spec, rule.spec),
                                   !.explanation = r.explanation]
<1>t. TypeOK /\ r # Absent /\ PatchIsValidated(c) /\ UNCHANGED <<now, asked>>
      /\ request' = [request EXCEPT ![c] = Absent]
  BY DEF PatchTemplate, IInv
<1>r. rule # Absent /\ rule \in Rule /\ r \in Request /\ now \in Nat
  BY <1>t DEF TypeOK, PatchIsValidated
<1>q. request' \in [Clients -> Request \cup {Absent}]
      /\ \A d \in Clients : request'[d] \in {request[d], Absent}
  BY <1>t DEF TypeOK
<1>1. CASE ~Expected(c)
  <2>1. rule' = rule
    BY <1>1 DEF PatchTemplate
  <2> QED
    BY <1>t, <1>q, <2>1
       DEF IInv, TypeOK, StoredScheduleIsValid, MarginIsStored, StoredTemplateIsValid,
           PatchIsValidated, AskedPeriodIsKept, CursorFitsTheSchedule
<1>2. CASE Expected(c)
  <2>1. Revised(changes, Absent, Absent, at) /\ at \in Nat
    BY <1>2, <1>r DEF PatchTemplate
  <2>2. /\ Named(r.kind, rule.kind) \in Kinds /\ Named(r.spec, rule.spec) \in Specs
        /\ r.explanation \in Kinds \X Specs
    BY <1>r DEF Named, Rule, Request
  <2>3. \A k \in Kinds, s \in Specs, x \in Kinds \X Specs :
          [rule EXCEPT !.kind = k, !.spec = s, !.explanation = x] \in Rule
    BY <1>r DEF Rule
  <2>5. changes \in Rule
    BY <2>2, <2>3
  <2>6. /\ changes.schedule = rule.schedule /\ changes.enabled = rule.enabled
        /\ changes.kind = Named(r.kind, rule.kind) /\ changes.spec = Named(r.spec, rule.spec)
        /\ changes.explanation = r.explanation /\ changes.periodType = rule.periodType
        /\ changes.revision = rule.revision
    BY <1>r DEF Rule
  <2>7. StoredScheduleIsValid /\ ValidateSchedule(Absent) /\ Named(Absent, rule.schedule) = rule.schedule
        /\ rule # Absent
    BY <1>r DEF IInv, ValidateSchedule, Named
  <2> HIDE DEF changes
  <2>8. /\ rule' \in Rule
        /\ rule'.kind = changes.kind /\ rule'.spec = changes.spec
        /\ rule'.explanation = changes.explanation
        /\ rule'.periodType = changes.periodType
        /\ rule'.revision = changes.revision + 1
        /\ rule'.schedule = Named(Absent, rule.schedule)
        /\ ValidateSchedule(rule'.schedule)
        /\ rule'.nextRunAt = NextRunAt(rule'.enabled, rule'.schedule, at)
    BY <1>r, <2>1, <2>5, <2>6, <2>7, RevisedRule
  <2>9. rule' # Absent
    BY <2>8, DefinitionAssumption
  <2>10. TypeOK'
    BY <1>t, <1>q, <2>8 DEF TypeOK
  <2>11. StoredTemplateIsValid'
    BY <1>t, <1>2, <2>6, <2>8 DEF PatchIsValidated, Expected, StoredTemplateIsValid
  <2>12. \A d \in Clients : PatchIsValidated(d)'
    BY <1>q, <1>r, <1>t, <2>6, <2>8, <2>9, <2>10, PatchesStayValidated DEF IInv
  <2>13. StoredScheduleIsValid' /\ MarginIsStored'
    BY <1>t, <1>r, <2>7, <2>8 DEF IInv, StoredScheduleIsValid, MarginIsStored
  <2>14. AskedPeriodIsKept'
    BY <1>t, <1>r, <2>6, <2>8 DEF IInv, AskedPeriodIsKept
  <2>15. CursorFitsTheSchedule'
    BY <1>t, <1>r, <2>8, FreshCursorFits
  <2> QED  BY <2>10, <2>11, <2>12, <2>13, <2>14, <2>15 DEF IInv
<1> QED  BY <1>1, <1>2

(* A patch of other fields leaves the template as it was validated, and    *)
(* fences out every patch in flight.                                       *)
LEMMA PatchOtherInv ==
  ASSUME NEW enabled \in BOOLEAN \cup {Absent}, NEW w \in WireSchedules \cup {Absent},
         rule # Absent, NEW at \in 0..now, ValidateSchedule(w), Revised(rule, enabled, w, at),
         asked' = IF w = Absent THEN asked ELSE [asked EXCEPT !.margin = w.margin],
         UNCHANGED <<now, request>>, IInv
  PROVE  IInv'
<1>1. TypeOK /\ rule \in Rule /\ now \in Nat /\ at \in Nat /\ StoredScheduleIsValid
  BY DEF IInv, TypeOK
<1>2. /\ rule' \in Rule
      /\ rule'.kind = rule.kind /\ rule'.spec = rule.spec
      /\ rule'.explanation = rule.explanation
      /\ rule'.periodType = rule.periodType
      /\ rule'.revision = rule.revision + 1
      /\ rule'.schedule = Named(w, rule.schedule)
      /\ ValidateSchedule(rule'.schedule)
      /\ rule'.nextRunAt = NextRunAt(rule'.enabled, rule'.schedule, at)
  BY <1>1, RevisedRule
<1>3. rule' # Absent
  BY <1>2, DefinitionAssumption
<1>4. w # Absent => w.margin \in Margins \cup {Absent}
  BY DEF WireSchedules
<1>5. /\ asked.margin \in Margins \cup {Absent} /\ asked.periods \in SUBSET PeriodKeys
      /\ asked \in [margin : Margins \cup {Absent}, periods : SUBSET PeriodKeys]
  BY <1>1 DEF TypeOK
<1>6. /\ asked' \in [margin : Margins \cup {Absent}, periods : SUBSET PeriodKeys]
      /\ asked'.periods = asked.periods
      /\ asked'.margin = IF w = Absent THEN asked.margin ELSE w.margin
  BY <1>4, <1>5
<1>7. TypeOK'
  BY <1>1, <1>2, <1>6 DEF TypeOK
<1>8. StoredScheduleIsValid' /\ StoredTemplateIsValid' /\ AskedPeriodIsKept'
  BY <1>2, <1>6 DEF IInv, StoredScheduleIsValid, StoredTemplateIsValid, AskedPeriodIsKept
<1>9. MarginIsStored'
  BY <1>2, <1>6 DEF IInv, MarginIsStored, Named
<1>10. \A c \in Clients : PatchIsValidated(c)'
  BY <1>1, <1>2, <1>3, <1>7, PatchesStayValidated DEF IInv
<1>11. CursorFitsTheSchedule'
  BY <1>1, <1>2, FreshCursorFits
<1> QED  BY <1>7, <1>8, <1>9, <1>10, <1>11 DEF IInv

LEMMA StepInv == IInv /\ [Next]_vars => IInv'
<1> SUFFICES ASSUME IInv, [Next]_vars PROVE IInv'
  OBVIOUS
<1>1. ASSUME NEW kind \in Kinds, NEW spec \in Specs, NEW w \in WireSchedules \cup {Absent},
             NEW enabled \in BOOLEAN, NEW periodType \in PeriodKeys \cup {Absent},
             NEW cadence \in PeriodKeys \cup {Absent},
             CreateRule(kind, spec, w, enabled, periodType, cadence)
      PROVE  IInv'
  BY <1>1, CreateInv
<1>2. ASSUME NEW c \in Clients, NEW p \in TemplatePatches, ValidatePatch(c, p) PROVE IInv'
  <2> DEFINE kind == Named(p.kind, rule.kind)
             spec == Named(p.spec, rule.spec)
             r == [kind |-> p.kind, spec |-> p.spec, explanation |-> Explain(kind, spec),
                   expected |-> rule.revision]
  <2>1. TypeOK /\ rule # Absent /\ <<kind, spec>> \in Accepts /\ UNCHANGED <<now, rule, asked>>
        /\ request' = [request EXCEPT ![c] = r]
    BY <1>2 DEF ValidatePatch, IInv
  <2>2. rule.revision \in Nat /\ kind \in Kinds /\ spec \in Specs
    BY <2>1 DEF TypeOK, Rule, Named, TemplatePatches
  <2>3. r \in Request
    BY <2>2 DEF Request, Explain, TemplatePatches
  <2>4. request' \in [Clients -> Request \cup {Absent}] /\ request'[c] = r
        /\ \A d \in Clients : d # c => request'[d] = request[d]
    BY <2>1, <2>3 DEF TypeOK
  <2>5. TypeOK'
    BY <2>1, <2>4 DEF TypeOK
  <2>6. PatchIsValidated(c)'
    BY <2>1, <2>2, <2>4 DEF PatchIsValidated
  <2>7. \A d \in Clients : d # c => PatchIsValidated(d)'
    BY <2>1, <2>4 DEF IInv, PatchIsValidated
  <2> QED
    BY <2>1, <2>5, <2>6, <2>7
       DEF IInv, StoredScheduleIsValid, MarginIsStored, StoredTemplateIsValid,
           AskedPeriodIsKept, CursorFitsTheSchedule
<1>3. ASSUME NEW c \in Clients, NEW at \in 0..now, PatchTemplate(c, at) PROVE IInv'
  BY <1>3, PatchTemplateInv
<1>4. ASSUME NEW p \in OtherPatches, NEW at \in 0..now, PatchOther(p, at) PROVE IInv'
  <2>1. p.enabled \in BOOLEAN \cup {Absent} /\ p.schedule \in WireSchedules \cup {Absent}
    BY DEF OtherPatches
  <2>2. /\ rule # Absent /\ ValidateSchedule(p.schedule) /\ Revised(rule, p.enabled, p.schedule, at)
        /\ asked' = IF p.schedule = Absent THEN asked
                    ELSE [asked EXCEPT !.margin = p.schedule.margin]
        /\ UNCHANGED <<now, request>>
    BY <1>4 DEF PatchOther
  <2> QED  BY <2>1, <2>2, PatchOtherInv
<1>5. CASE DeleteRule
  BY <1>5
     DEF DeleteRule, IInv, TypeOK, StoredScheduleIsValid, MarginIsStored, StoredTemplateIsValid,
         PatchIsValidated, AskedPeriodIsKept, CursorFitsTheSchedule
<1>6. CASE Tick
  <2>1. now' = now + 1 /\ now \in Nat /\ UNCHANGED <<rule, request, asked>>
    BY <1>6 DEF Tick, IInv, TypeOK
  <2>2. CursorFitsTheSchedule'
    <3>1. rule # Absent => Times(rule.schedule) \in SUBSET Nat
      BY TimesType DEF IInv, TypeOK, StoredScheduleIsValid, Rule
    <3> QED  BY <2>1, <3>1 DEF IInv, CursorFitsTheSchedule, Times
  <2> QED
    BY <2>1, <2>2
       DEF IInv, TypeOK, StoredScheduleIsValid, MarginIsStored, StoredTemplateIsValid,
           PatchIsValidated, AskedPeriodIsKept
<1>7. CASE UNCHANGED vars
  BY <1>7
     DEF vars, IInv, TypeOK, StoredScheduleIsValid, MarginIsStored, StoredTemplateIsValid,
         PatchIsValidated, AskedPeriodIsKept, CursorFitsTheSchedule
<1> QED  BY <1>1, <1>2, <1>3, <1>4, <1>5, <1>6, <1>7 DEF Next

-----------------------------------------------------------------------------
(* The row, the requests in flight and the clock are well typed; a cursor  *)
(* is an instant or none.                                                  *)
THEOREM TypeCorrect == Spec => []TypeOK
<1>1. IInv => TypeOK
  BY DEF IInv
<1> QED  BY InitInv, StepInv, <1>1, PTL DEF Spec

(* Whatever patches cross each other, the stored template accepts the      *)
(* stored specification, and the explanation is of the two.                *)
THEOREM TemplateStaysValid == Spec => []StoredTemplateIsValid
<1>1. IInv => StoredTemplateIsValid
  BY DEF IInv
<1> QED  BY InitInv, StepInv, <1>1, PTL DEF Spec

(* A scheduled evaluation uses the margin that was asked for last, of zero *)
(* too, and the default only for a schedule without one; the rule buckets  *)
(* by the period its creation asked for, by either key.                    *)
THEOREM AskedIsKept == Spec => []WhatWasAskedIsKept
<1>1. IInv => WhatWasAskedIsKept
  BY MarginUsed DEF IInv, TypeOK, WhatWasAskedIsKept, AskedMarginIsUsed
<1> QED  BY InitInv, StepInv, <1>1, PTL DEF Spec

(* Evidence is filed under the period its sources were read in, for every  *)
(* margin an evaluation may have.                                          *)
THEOREM FiledWhereRead == Spec => []PeriodOfTheReadings
<1>1. IInv => PeriodOfTheReadings
  <2> SUFFICES ASSUME IInv, rule # Absent, NEW pit \in 0..now,
                      NEW margin \in ManualMargins \cup {ScheduledMargin}
               PROVE  PeriodOf(pit, margin) = PeriodID(ReadAt(pit, margin))
    BY DEF PeriodOfTheReadings
  <2>1. margin \in Int /\ margin >= 0 /\ pit \in Int
    BY MarginType, DefinitionAssumption DEF IInv, TypeOK, ManualMargins
  <2>2. ReadAt(pit, margin) = pit - margin
    BY <2>1 DEF ReadAt
  <2> QED  BY <2>2 DEF PeriodOf
<1> QED  BY InitInv, StepInv, <1>1, PTL DEF Spec

(* After any patches a rule has a cursor exactly if it is enabled and has  *)
(* an occurrence to come, and none of those is before it.                  *)
THEOREM CursorFitsAlways == Spec => []CursorFitsTheSchedule
<1>1. IInv => CursorFitsTheSchedule
  BY DEF IInv
<1> QED  BY InitInv, StepInv, <1>1, PTL DEF Spec
=============================================================================
