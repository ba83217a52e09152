------------------------------ MODULE AlertRow ------------------------------
(***************************************************************************)
(* The alert row and the alert_event row of internal/models/alert.go, and  *)
(* the pure part of every transition of internal/storage/alert.go: what    *)
(* the UPDATE writes and which event row is appended, as functions of the  *)
(* locked row.  The modules that give these transitions a schedule         *)
(* (AlertLifecycle, AlertTransaction) apply them to the stored row.        *)
(*                                                                         *)
(* Data kept: status, evidence, occurrence_count, and whether ack,         *)
(* resolution and snooze are set, because those are what notifications     *)
(* and later transitions depend on.  Left out: severity, labels, who did   *)
(* it and the note, first_seen_at (written once).  Evidence is compared by *)
(* its canonical form, so two payloads are one value exactly when          *)
(* sameEvidenceJSON calls them the same.                                   *)
(***************************************************************************)
EXTENDS Naturals, Sequences

CONSTANTS
  Fingerprints,   \* fingerprints the rule's template can produce
  EngineError,    \* EngineErrorFingerprint, the rule's meta-alert
  RulePeriods,    \* period ids an evaluation of the rule can fall in
  Continuous,     \* models.ContinuousPeriod
  Evidence        \* canonical evidence payloads of failing outcomes

NoEvidence == "no evidence"
Passed     == "passed"     \* the outcome of a fingerprint that passed
Absent     == "absent"     \* the fingerprint is not among the outcomes

ASSUME EngineErrorAssumption == EngineError \notin Fingerprints
ASSUME EvidenceAssumption ==
  NoEvidence \notin Evidence /\ Passed \notin Evidence /\ Absent \notin Evidence

(* A case is what alert_unique_scope makes unique for the rule. *)
Cases     == (Fingerprints \cup {EngineError}) \X (RulePeriods \cup {Continuous})
ErrorCase == <<EngineError, Continuous>>

Statuses    == {"OPEN", "ACKNOWLEDGED", "RESOLVED"}
Resolutions == {"auto", "fixed_by_booking", "accepted_by_business"}
EventTypes  == {"fail", "pass", "ack", "resolve", "accept", "snooze", "unsnooze"}
NoSnooze    == 0

(* "NONE" is the status of a case that has no row, and the prev_status     *)
(* NULL of its first event.                                                *)
Row == [status      : Statuses \cup {"NONE"},
        evidence    : Evidence \cup {NoEvidence},
        occurrences : Nat,
        acked       : BOOLEAN,
        resolution  : Resolutions \cup {"none"},
        snapshot    : Evidence \cup {NoEvidence},
        snooze      : Nat]

(* evidence is what the published payload's copy of the row carries. *)
Event == [type     : EventTypes,
          prev     : Statuses \cup {"NONE"},
          new      : Statuses,
          evidence : Evidence \cup {NoEvidence},
          notify   : BOOLEAN]

NoRow == [status |-> "NONE", evidence |-> NoEvidence, occurrences |-> 0,
          acked |-> FALSE, resolution |-> "none", snapshot |-> NoEvidence,
          snooze |-> NoSnooze]

Exists(r) == r.status # "NONE"
Active(r) == r.status \in {"OPEN", "ACKNOWLEDGED"}

(* (prev_status read after the UPDATE has refreshed the row) *)
EventOfUpdated(type, r, s, notify) ==
  [type |-> type, prev |-> s.status, new |-> s.status,
   evidence |-> s.evidence, notify |-> notify]

(* appendAlertEvent: the row before and after the transition fix its shape. *)
EventOf(type, r, s, notify) ==
  [type |-> type, prev |-> r.status, new |-> s.status,
   evidence |-> s.evidence, notify |-> notify]

-----------------------------------------------------------------------------
(* openOrUpdateAlertOnce *)

(* (occurrence_count left to its column default) *)
InsertedUncounted(ev) == [NoRow EXCEPT !.status = "OPEN", !.evidence = ev]

Inserted(ev) ==
  [NoRow EXCEPT !.status = "OPEN", !.evidence = ev, !.occurrences = 1]

SnoozeActive(r, at)  == r.snooze # NoSnooze /\ at < r.snooze
SnoozeExpired(r, at) == r.snooze # NoSnooze /\ ~(at < r.snooze)

ClearsResolution(r) == r.status = "RESOLVED"
ClearsAckOnReopen(r) == r.status = "RESOLVED"   \* (a resurfacing keeps the ack)
ClearsAck(r)        == r.status \in {"RESOLVED", "ACKNOWLEDGED"}

Updated(r, ev, at) ==
  [r EXCEPT !.status      = "OPEN",
            !.evidence    = ev,
            !.occurrences = @ + 1,
            !.acked       = @ /\ ~ClearsAck(r),
            !.resolution  = IF ClearsResolution(r) THEN "none" ELSE @,
            !.snapshot    = IF ClearsResolution(r) THEN NoEvidence ELSE @,
            !.snooze      = IF SnoozeExpired(r, at) THEN NoSnooze ELSE @]

(* sameEvidenceJSON, on canonical forms (raw bytes: jsonb reformats, so    *)
(* the stored payload never equals the fresh one)                          *)
SameBytes(a, b) == FALSE
SameEvidence(a, b) == a = b

RepeatedFail(r, ev) == r.status = "OPEN" /\ SameEvidence(r.evidence, ev)

(* (the lapse of a snooze left to the suppression rule) *)
NotifiesUnlessRepeated(r, ev, at) ==
  ~Exists(r) \/ (~SnoozeActive(r, at) /\ ~RepeatedFail(r, ev))

FailNotifies(r, ev, at) ==
  \/ ~Exists(r)
  \/ SnoozeExpired(r, at)
  \/ ~SnoozeActive(r, at) /\ ~RepeatedFail(r, ev)

FailRow(r, ev, at) == IF Exists(r) THEN Updated(r, ev, at) ELSE Inserted(ev)

FailEvent(r, ev, at) ==
  EventOf("fail", r, FailRow(r, ev, at), FailNotifies(r, ev, at))

-----------------------------------------------------------------------------
(* AutoResolveAlert, AckAlert, applyResolution, SnoozeAlert, UnsnoozeAlert *)

(* (without "snooze = NULL") *)
AutoResolvedStillSnoozed(r) ==
  [r EXCEPT !.status = "RESOLVED", !.resolution = "auto", !.snapshot = NoEvidence]

AutoResolved(r) == [r EXCEPT !.status = "RESOLVED", !.resolution = "auto",
                             !.snapshot = NoEvidence, !.snooze = NoSnooze]

Acked(r) == [r EXCEPT !.status = "ACKNOWLEDGED", !.acked = TRUE]

(* Only a business acceptance freezes the evidence of the locked row. *)
SnapshotAlways(r, kind) == r.evidence   \* (every kind does)
Snapshot(r, kind) ==
  IF kind = "accepted_by_business" THEN r.evidence ELSE NoEvidence

ManuallyResolved(r, kind) ==
  [r EXCEPT !.status = "RESOLVED", !.resolution = kind,
            !.snapshot = Snapshot(r, kind), !.snooze = NoSnooze]

KindAsEvent(kind) == kind   \* (the resolution kind passed as the event type)
ResolutionEvent(kind) ==
  IF kind = "accepted_by_business" THEN "accept" ELSE "resolve"

Snoozed(r, until) == [r EXCEPT !.snooze = until]
Unsnoozed(r)      == [r EXCEPT !.snooze = NoSnooze]
=============================================================================
