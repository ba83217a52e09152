--------------------------- MODULE AlertLifecycle ---------------------------
(***************************************************************************)
(* The alerts of one rule: the evaluations that open, update and close     *)
(* them (internal/reconciliation/runner.go) and the operators who          *)
(* acknowledge, resolve, accept and snooze them (internal/storage/alert.go).*)
(*                                                                         *)
(* Every transaction is one step here; AlertTransaction splits it row by   *)
(* row and shows that it implements this module.  The rule lock allows one *)
(* evaluation of the rule at a time, so there is one slot for the          *)
(* evaluation that has read its sources and not committed yet.  Operators  *)
(* take no rule lock: they may act between that read and the commit.       *)
(***************************************************************************)
EXTENDS AlertRow, FiniteSetsExt

CONSTANTS
  MaxClock,    \* bound on the wall clock
  MaxEvents    \* bound on the events logged

ASSUME PeriodsAssumption == RulePeriods # {}
ASSUME BoundsAssumption == MaxClock \in Nat /\ MaxEvents \in Nat

VARIABLES
  alert,       \* alert[c]: the row of case c
  log,         \* log[c]: the alert_event rows of case c, in commit order
  evaluation,  \* what the evaluation in flight has read
  now          \* the wall clock

vars == <<alert, log, evaluation, now>>

(* error is NoEvidence unless the template failed; ended is EndedAt, taken *)
(* when the template returns and before the transaction starts.            *)
Evaluation ==
  [state   : {"none", "read"},
   ended   : Nat,
   period  : RulePeriods,
   verdict : [Fingerprints -> Evidence \cup {Passed, Absent}],
   error   : Evidence \cup {NoEvidence}]

TypeOK ==
  /\ alert \in [Cases -> Row]
  /\ log \in [Cases -> Seq(Event)]
  /\ evaluation \in Evaluation
  /\ now \in Nat

-----------------------------------------------------------------------------
(* What run's transaction does to the rows of the rule *)

InError(ev) == ev.error # NoEvidence

(* The case opens or updates: a failing outcome in the period of the       *)
(* evaluation, or the template's own failure on the engine.error case.     *)
Fails(ev, c) ==
  IF InError(ev)
  THEN c = ErrorCase
  ELSE c[1] \in Fingerprints /\ c[2] = ev.period /\ ev.verdict[c[1]] \in Evidence

FailingEvidence(ev, c) == IF InError(ev) THEN ev.error ELSE ev.verdict[c[1]]

(* AutoResolveAlert is called for a passing outcome of the period,         *)
(* for an active case of the period no outcome mentions (the sweep), and   *)
(* for engine.error after every evaluation that produced a verdict.        *)
PassesOutcome(ev, c) ==
  c[1] \in Fingerprints /\ c[2] = ev.period /\ ev.verdict[c[1]] = Passed
(* (ListActiveAlertFingerprints not scoped to the period) *)
SweptAnyPeriod(ev, c) == c[1] \in Fingerprints => ev.verdict[c[1]] = Absent
Swept(ev, c) ==
  /\ c[2] = ev.period
  /\ c[1] \in Fingerprints => ev.verdict[c[1]] = Absent
(* (driveAlerts called with the empty outcomes of a failed template) *)
ClosesOnError(ev, c) == PassesOutcome(ev, c) \/ Swept(ev, c) \/ c = ErrorCase
Closes(ev, c) ==
  ~InError(ev) /\ (PassesOutcome(ev, c) \/ Swept(ev, c) \/ c = ErrorCase)

EvaluatedRow(ev, c) ==
  IF Fails(ev, c) THEN FailRow(alert[c], FailingEvidence(ev, c), ev.ended)
  ELSE IF Closes(ev, c) /\ Active(alert[c]) THEN AutoResolved(alert[c])
  ELSE alert[c]

EvaluatedLog(ev, c) ==
  IF Fails(ev, c)
  THEN Append(log[c], FailEvent(alert[c], FailingEvidence(ev, c), ev.ended))
  ELSE IF Closes(ev, c) /\ Active(alert[c])
  THEN Append(log[c], EventOf("pass", alert[c], AutoResolved(alert[c]), TRUE))
  ELSE log[c]

-----------------------------------------------------------------------------
Idle == [state   |-> "none",
         ended   |-> 0,
         period  |-> CHOOSE p \in RulePeriods : TRUE,
         verdict |-> [f \in Fingerprints |-> Absent],
         error   |-> NoEvidence]

Init ==
  /\ alert = [c \in Cases |-> NoRow]
  /\ log = [c \in Cases |-> << >>]
  /\ evaluation = Idle
  /\ now = 1

LogHasRoom == MapThenSumSet(LAMBDA c : Len(log[c]), Cases) < MaxEvents

Tick ==
  /\ now < MaxClock
  /\ now' = now + 1
  /\ UNCHANGED <<alert, log, evaluation>>

(* The template returns its outcomes for the period of the evaluation's    *)
(* PIT (any period: the caller may replay a past instant).                 *)
ReadSources(p, verdict) ==
  /\ evaluation.state = "none"
  /\ evaluation' = [state |-> "read", ended |-> now, period |-> p,
                    verdict |-> verdict, error |-> NoEvidence]
  /\ UNCHANGED <<alert, log, now>>

(* The template fails with an engine error of its own. *)
ReadFails(p, error) ==
  /\ evaluation.state = "none"
  /\ evaluation' = [state |-> "read", ended |-> now, period |-> p,
                    verdict |-> [f \in Fingerprints |-> Absent], error |-> error]
  /\ UNCHANGED <<alert, log, now>>

CommitEvaluation ==
  /\ evaluation.state = "read"
  /\ LogHasRoom
  /\ alert' = [c \in Cases |-> EvaluatedRow(evaluation, c)]
  /\ log' = [c \in Cases |-> EvaluatedLog(evaluation, c)]
  /\ evaluation' = Idle
  /\ UNCHANGED now

(* The fence refuses the commit, a statement of the transaction fails, the *)
(* caller goes away, or the process dies: nothing of the evaluation stays. *)
AbortEvaluation ==
  /\ evaluation.state = "read"
  /\ evaluation' = Idle
  /\ UNCHANGED <<alert, log, now>>

(* One operator transaction: row and event of case c change together.      *)
Transition(c, row, type) ==
  /\ LogHasRoom
  /\ alert' = [alert EXCEPT ![c] = row]
  /\ log' = [log EXCEPT ![c] = Append(@, EventOf(type, alert[c], row, TRUE))]
  /\ UNCHANGED <<evaluation, now>>

AckAlert(c) ==
  /\ alert[c].status = "OPEN"
  /\ Transition(c, Acked(alert[c]), "ack")

ResolveAlert(c, kind) ==
  /\ Active(alert[c])
  /\ Transition(c, ManuallyResolved(alert[c], kind), ResolutionEvent(kind))

(* until is compared with the instant the request was received, which the  *)
(* clock has left behind when the request waited for the row lock.         *)
SnoozeAlert(c, until, at) ==
  /\ until > at
  /\ Active(alert[c])
  /\ Transition(c, Snoozed(alert[c], until), "snooze")

UnsnoozeAlert(c) ==
  /\ Exists(alert[c])
  /\ alert[c].snooze # NoSnooze
  /\ Transition(c, Unsnoozed(alert[c]), "unsnooze")

Operator(c) ==
  \/ AckAlert(c)
  \/ \E kind \in {"fixed_by_booking", "accepted_by_business"} : ResolveAlert(c, kind)
  \/ \E until \in 1..(MaxClock + 1), at \in 1..now : SnoozeAlert(c, until, at)
  \/ UnsnoozeAlert(c)

Next ==
  \/ Tick
  \/ \E p \in RulePeriods :
       \/ \E verdict \in [Fingerprints -> Evidence \cup {Passed, Absent}] :
            ReadSources(p, verdict)
       \/ \E error \in Evidence : ReadFails(p, error)
  \/ CommitEvaluation
  \/ AbortEvaluation
  \/ \E c \in Cases : Operator(c)

Spec == Init /\ [][Next]_vars

-----------------------------------------------------------------------------
(* The event log and the row are written by different statements of one    *)
(* transaction.  The log alone must tell the row: it starts with the first *)
(* failure, every event continues the one before it, and the last one      *)
(* leaves the case in the row's status with the row's evidence.            *)
Tells(l, r) ==
  IF l = << >> THEN r = NoRow
  ELSE /\ l[1].type = "fail" /\ l[1].prev = "NONE"
       /\ \A i \in 2..Len(l) : l[i].prev = l[i - 1].new
       /\ r.status = l[Len(l)].new
       /\ r.evidence = l[Len(l)].evidence
LogTellsTheRow == \A c \in Cases : Tells(log[c], alert[c])

(* OccurrenceCount "is the count of FAIL events on this alert across       *)
(* reopen cycles", the muted and the repeated ones included.               *)
Failures(l) == {i \in 1..Len(l) : l[i].type = "fail"}
OccurrencesCountFails ==
  \A c \in Cases : alert[c].occurrences = Cardinality(Failures(log[c]))

(* What the closing and reopening transitions must clear, whichever of     *)
(* them ran and in whatever order: a resolution belongs to a closed case,  *)
(* a snooze to an active one (a later reopen is never born muted), and an  *)
(* OPEN case is not still reported as acknowledged.                        *)
Quiet(r) ==
  /\ (r.resolution # "none") <=> (r.status = "RESOLVED")
  /\ r.snooze # NoSnooze => Active(r)
  /\ r.acked => r.status \in {"ACKNOWLEDGED", "RESOLVED"}
  /\ r.status = "ACKNOWLEDGED" => r.acked
ClosedCasesAreQuiet == \A c \in Cases : Quiet(alert[c])

(* The evidence a business acceptance froze is the evidence of the case as *)
(* it was closed, until the case reopens: no evaluation in between slips a *)
(* stale or a newer snapshot in.                                           *)
Frozen(r) ==
  r.snapshot = IF r.resolution = "accepted_by_business" THEN r.evidence ELSE NoEvidence
AcceptedEvidenceIsFrozen == \A c \in Cases : Frozen(alert[c])

(* Suppression loses nothing: unless the case is snoozed, the last event   *)
(* that notified told the consumers the status and the evidence the row    *)
(* has now.                                                                *)
Told(l, i, r) ==
  /\ l[i].notify /\ l[i].new = r.status /\ l[i].evidence = r.evidence
  /\ \A k \in (i + 1)..Len(l) : ~l[k].notify
Known(l, r) ==
  Exists(r) /\ r.snooze = NoSnooze => \E i \in 1..Len(l) : Told(l, i, r)
ConsumersKnowTheCase == \A c \in Cases : Known(log[c], alert[c])

(* Suppression is not forgetful either: two failures in a row never page   *)
(* twice with the same evidence.                                           *)
Pages(e)    == e.type = "fail" /\ e.notify
NoRepeat(l) ==
  \A i \in 2..Len(l) : Pages(l[i - 1]) /\ Pages(l[i]) => l[i - 1].evidence # l[i].evidence
NoRepeatPaging == \A c \in Cases : NoRepeat(log[c])

-----------------------------------------------------------------------------
(* A case that reopens always pages, whatever was muted before it closed.  *)
ReopenPages ==
  [][\A c \in Cases :
       alert[c].status = "RESOLVED" /\ alert'[c].status = "OPEN" =>
         log'[c][Len(log'[c])].notify]_vars

(* When an evaluation with a verdict commits, its period holds an active   *)
(* case exactly for the fingerprints that failed, engine.error is closed,  *)
(* and the cases of every other period stand as they were.                 *)
EvaluationDecidesItsPeriod ==
  [][evaluation.state = "read" /\ evaluation'.state = "none"
       /\ ~InError(evaluation) /\ alert' # alert =>
       \A c \in Cases :
         /\ c[2] = evaluation.period =>
              (Active(alert'[c]) <=> (c[1] \in Fingerprints
                                      /\ evaluation.verdict[c[1]] \in Evidence))
         /\ c = ErrorCase => ~Active(alert'[c])
         /\ c[2] # evaluation.period /\ c # ErrorCase => alert'[c] = alert[c]]_vars

(* An evaluation that failed for its own reasons says nothing about the    *)
(* balances: it touches the engine.error case and no other.                *)
ErrorsJudgeNothing ==
  [][evaluation.state = "read" /\ InError(evaluation) /\ evaluation'.state = "none" =>
       \A c \in Cases \ {ErrorCase} : alert'[c] = alert[c]]_vars

=============================================================================
