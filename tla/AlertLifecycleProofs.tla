------------------------ MODULE AlertLifecycleProofs ------------------------
(***************************************************************************)
(* Proofs about AlertLifecycle, for any rule: any fingerprints, periods,   *)
(* evidence and bounds.                                                    *)
(*                                                                         *)
(* Every step changes a case by one of the transitions of AlertRow, or not *)
(* at all (CaseStep, StepsAreMoves), so every invariant that speaks of one *)
(* case at a time is proved once per transition (the lemmas about          *)
(* CaseMoves) and lifted to the specification.  Two such invariants are    *)
(* inductive: RowsInv about the row, and HistoryInv about row and log.     *)
(***************************************************************************)
EXTENDS AlertLifecycle, AlertRowProofs, FiniteSetTheorems, TLAPS

(* What one step of the specification may do to case c.                    *)
CaseStep(c) ==
  \/ alert'[c] = alert[c] /\ log'[c] = log[c]
  \/ \E e : CaseMoves(alert[c], alert'[c], e) /\ log'[c] = Append(log[c], e)

(* The slot of an evaluation that is not running is well typed.            *)
LEMMA IdleType == Idle \in Evaluation
<1>1. (CHOOSE p \in RulePeriods : TRUE) \in RulePeriods
  BY PeriodsAssumption
<1>2. [f \in Fingerprints |-> Absent] \in [Fingerprints -> Evidence \cup {Passed, Absent}]
  OBVIOUS
<1> QED  BY <1>1, <1>2 DEF Idle, Evaluation

(* The invariant of a single row.                                          *)
RowInv(r) == Quiet(r) /\ Frozen(r)

(* Every transition of a well-formed row leaves a well-formed row.         *)
LEMMA MoveKeepsRowInv ==
  ASSUME NEW r \in Row, NEW s, NEW e, CaseMoves(r, s, e), RowInv(r)
  PROVE  RowInv(s)
<1>1. CASE \E ev \in Evidence, at \in Nat :
             s = FailRow(r, ev, at) /\ e = FailEvent(r, ev, at)
  <2>1. PICK ev \in Evidence, at \in Nat : s = FailRow(r, ev, at)
    BY <1>1
  <2>2. CASE ~Exists(r)
    <3>1. s = Inserted(ev)
      BY <2>1, <2>2 DEF FailRow
    <3>2. s.status = "OPEN" /\ s.resolution = "none" /\ s.snapshot = NoEvidence
      BY <3>1, InsertedFields
    <3>3. ~s.acked
      BY <3>1, InsertedFields, Zenon
    <3> QED  BY <3>2, <3>3 DEF RowInv, Quiet, Frozen, Active
  <2>3. CASE Exists(r)
    <3>1. s = Updated(r, ev, at)
      BY <2>1, <2>3 DEF FailRow
    <3>2. s.status = "OPEN" /\ s.resolution = "none" /\ s.snapshot = NoEvidence
      BY <3>1, UpdatedFields DEF RowInv, Quiet, Frozen, ClearsResolution
    <3>3. ~s.acked
      <4>1. s.acked = (r.acked /\ ~ClearsAck(r))
        BY <3>1, UpdatedFields, Zenon
      <4>2. r.acked => ClearsAck(r)
        BY Zenon DEF RowInv, Quiet, ClearsAck
      <4> QED  BY <4>1, <4>2, Zenon
    <3> QED  BY <3>2, <3>3 DEF RowInv, Quiet, Frozen, Active
  <2> QED  BY <2>2, <2>3
<1>2. CASE
       /\ Active(r)
       /\ s = AutoResolved(r) /\ e = EventOf("pass", r, s, TRUE)
  BY <1>2, AutoResolvedFields DEF RowInv, Quiet, Frozen, NoSnooze
<1>3. CASE
       /\ r.status = "OPEN"
       /\ s = Acked(r) /\ e = EventOf("ack", r, s, TRUE)
  BY <1>3 DEF RowInv, Quiet, Frozen, Acked, Active, Row
<1>4. CASE \E kind \in {"fixed_by_booking", "accepted_by_business"} :
       /\ Active(r)
       /\ s = ManuallyResolved(r, kind)
       /\ e = EventOf(ResolutionEvent(kind), r, s, TRUE)
  BY <1>4, ManuallyResolvedFields DEF RowInv, Quiet, Frozen, Snapshot, NoSnooze
<1>5. CASE \E until \in Nat \ {0} :
       /\ Active(r)
       /\ s = Snoozed(r, until) /\ e = EventOf("snooze", r, s, TRUE)
  BY <1>5 DEF RowInv, Quiet, Frozen, Snoozed, Active, Row
<1>6. CASE
       /\ Exists(r)
       /\ s = Unsnoozed(r) /\ e = EventOf("unsnooze", r, s, TRUE)
  BY <1>6 DEF RowInv, Quiet, Frozen, Unsnoozed, Row, NoSnooze
<1> QED  BY <1>1, <1>2, <1>3, <1>4, <1>5, <1>6 DEF CaseMoves

-----------------------------------------------------------------------------
(* The commit of an evaluation makes at most one transition per case.      *)
LEMMA EvaluatedRowMoves ==
  ASSUME TypeOK, CommitEvaluation, NEW c \in Cases
  PROVE  CaseStep(c)
<1> DEFINE ev == evaluation
<1>1. /\ alert'[c] = EvaluatedRow(ev, c) /\ log'[c] = EvaluatedLog(ev, c)
      /\ ev \in Evaluation /\ ev.ended \in Nat
  BY DEF CommitEvaluation, TypeOK, Evaluation
<1>2. CASE Fails(ev, c)
  <2>1. FailingEvidence(ev, c) \in Evidence
    BY <1>1, <1>2 DEF Fails, FailingEvidence, InError, Evaluation
  <2>2. CaseMoves(alert[c], alert'[c], FailEvent(alert[c], FailingEvidence(ev, c), ev.ended))
    BY <1>1, <1>2, <2>1 DEF CaseMoves, EvaluatedRow
  <2> QED  BY <1>1, <1>2, <2>2 DEF CaseStep, EvaluatedLog
<1>3. CASE ~Fails(ev, c) /\ Closes(ev, c) /\ Active(alert[c])
  <2>1. CaseMoves(alert[c], alert'[c],
                  EventOf("pass", alert[c], AutoResolved(alert[c]), TRUE))
    BY <1>1, <1>3 DEF CaseMoves, EvaluatedRow
  <2> QED  BY <1>1, <1>3, <2>1 DEF CaseStep, EvaluatedLog
<1>4. CASE ~Fails(ev, c) /\ ~(Closes(ev, c) /\ Active(alert[c]))
  BY <1>1, <1>4 DEF CaseStep, EvaluatedRow, EvaluatedLog
<1> QED  BY <1>2, <1>3, <1>4

(* An operator's transaction makes one transition of its own case.         *)
LEMMA OperatorMoves ==
  ASSUME TypeOK, NEW d \in Cases, Operator(d), NEW c \in Cases
  PROVE  CaseStep(c)
<1>1. now \in Nat /\ MaxClock \in Nat
  BY BoundsAssumption DEF TypeOK
<1>2. alert \in [Cases -> Row] /\ log \in [Cases -> Seq(Event)]
  BY DEF TypeOK
<1>3. SUFFICES ASSUME NEW row, NEW type, Transition(d, row, type),
                      CaseMoves(alert[d], row, EventOf(type, alert[d], row, TRUE))
               PROVE  CaseStep(c)
  <2>1. CASE AckAlert(d)
    BY <2>1, <1>1, <1>3 DEF AckAlert, CaseMoves
  <2>2. CASE \E kind \in {"fixed_by_booking", "accepted_by_business"} : ResolveAlert(d, kind)
    BY <2>2, <1>1, <1>3 DEF ResolveAlert, CaseMoves
  <2>3. CASE \E until \in 1..(MaxClock + 1), at \in 1..now : SnoozeAlert(d, until, at)
    <3>1. PICK until \in 1..(MaxClock + 1), at \in 1..now : SnoozeAlert(d, until, at)
      BY <2>3
    <3>2. until \in Nat \ {0}
      BY <1>1
    <3>3. CaseMoves(alert[d], Snoozed(alert[d], until),
                    EventOf("snooze", alert[d], Snoozed(alert[d], until), TRUE))
      BY <3>1, <3>2, <1>1 DEF SnoozeAlert, CaseMoves
    <3> QED  BY <3>1, <3>3, <1>1, <1>3 DEF SnoozeAlert
  <2>4. CASE UnsnoozeAlert(d)
    BY <2>4, <1>1, <1>3 DEF UnsnoozeAlert, CaseMoves
  <2> QED  BY <2>1, <2>2, <2>3, <2>4 DEF Operator
<1>4. CASE c = d
  BY <1>2, <1>3, <1>4 DEF Transition, CaseStep
<1>5. CASE c # d
  BY <1>2, <1>3, <1>5 DEF Transition, CaseStep
<1> QED  BY <1>4, <1>5

(* No step of the specification changes a case in any other way.           *)
LEMMA StepsAreMoves ==
  ASSUME TypeOK, [Next]_vars, NEW c \in Cases
  PROVE  CaseStep(c)
<1>1. CASE alert' = alert /\ log' = log
  BY <1>1 DEF CaseStep
<1>2. CASE CommitEvaluation
  BY <1>2, EvaluatedRowMoves
<1>3. CASE \E d \in Cases : Operator(d)
  BY <1>3, OperatorMoves
<1> QED
  BY <1>1, <1>2, <1>3 DEF Next, vars, Tick, ReadSources, ReadFails, AbortEvaluation

(* alert and log stay functions on the cases of the rule.                  *)
LEMMA StepShape ==
  ASSUME TypeOK, [Next]_vars
  PROVE  /\ alert' = [c \in Cases |-> alert'[c]]
         /\ log' = [c \in Cases |-> log'[c]]
<1>1. CASE alert' = alert /\ log' = log
  BY <1>1 DEF TypeOK
<1>2. CASE CommitEvaluation
  BY <1>2 DEF CommitEvaluation
<1>3. CASE \E d \in Cases : Operator(d)
  <2>1. PICK d \in Cases : \E row, type : Transition(d, row, type)
    BY <1>3 DEF Operator, AckAlert, ResolveAlert, SnoozeAlert, UnsnoozeAlert
  <2> QED  BY <2>1 DEF Transition, TypeOK
<1> QED
  BY <1>1, <1>2, <1>3 DEF Next, vars, Tick, ReadSources, ReadFails, AbortEvaluation

(* The evaluation in flight and the clock keep their types.                *)
LEMMA ScratchType ==
  ASSUME TypeOK, [Next]_vars
  PROVE  evaluation' \in Evaluation /\ now' \in Nat
<1>1. CASE UNCHANGED vars
  BY <1>1 DEF vars, TypeOK
<1>2. CASE Tick
  BY <1>2 DEF Tick, TypeOK
<1>3. ASSUME NEW p \in RulePeriods, NEW verdict \in [Fingerprints -> Evidence \cup {Passed, Absent}],
             ReadSources(p, verdict)
      PROVE  evaluation' \in Evaluation /\ now' \in Nat
  BY <1>3 DEF ReadSources, TypeOK, Evaluation
<1>4. ASSUME NEW p \in RulePeriods, NEW error \in Evidence, ReadFails(p, error)
      PROVE  evaluation' \in Evaluation /\ now' \in Nat
  BY <1>4 DEF ReadFails, TypeOK, Evaluation
<1>5. CASE CommitEvaluation \/ AbortEvaluation
  BY <1>5, IdleType DEF CommitEvaluation, AbortEvaluation, TypeOK
<1>6. CASE \E c \in Cases : Operator(c)
  <2>1. PICK d \in Cases : \E row, type : Transition(d, row, type)
    BY <1>6 DEF Operator, AckAlert, ResolveAlert, SnoozeAlert, UnsnoozeAlert
  <2> QED  BY <2>1 DEF Transition, TypeOK
<1> QED  BY <1>1, <1>2, <1>3, <1>4, <1>5, <1>6 DEF Next

(* TypeOK is inductive.                                                    *)
LEMMA TypeStep ==
  ASSUME TypeOK, [Next]_vars
  PROVE  TypeOK'
<1>1. ASSUME NEW c \in Cases
      PROVE  alert'[c] \in Row /\ log'[c] \in Seq(Event)
  <2>1. alert[c] \in Row /\ log[c] \in Seq(Event)
    BY DEF TypeOK
  <2>2. CASE alert'[c] = alert[c] /\ log'[c] = log[c]
    BY <2>1, <2>2
  <2>3. CASE \E e : CaseMoves(alert[c], alert'[c], e) /\ log'[c] = Append(log[c], e)
    BY <2>1, <2>3, MoveType
  <2> QED  BY <2>2, <2>3, StepsAreMoves DEF CaseStep
<1> QED  BY <1>1, StepShape, ScratchType DEF TypeOK

(* The initial states are well typed and have well-formed rows.            *)
LEMMA InitInv == Init => TypeOK /\ \A c \in Cases : RowInv(alert[c])
<1>1. RowInv(NoRow)
  BY DEF RowInv, Quiet, Frozen, NoRow, NoSnooze
<1> QED  BY <1>1, NoRowType, IdleType DEF Init, TypeOK

(* Every reachable state of the rule's alerts is well typed.               *)
THEOREM TypeCorrect == Spec => []TypeOK
BY InitInv, TypeStep, PTL DEF Spec

(* The first inductive invariant: all rows are well formed.                *)
RowsInv == \A c \in Cases : RowInv(alert[c])

(* Rows stay well formed, relative to TypeOK.                              *)
THEOREM RowsInvariant == Spec => []RowsInv
<1>1. Init => RowsInv
  BY InitInv DEF RowsInv
<1>2. TypeOK /\ RowsInv /\ [Next]_vars => RowsInv'
  <2> SUFFICES ASSUME TypeOK, RowsInv, [Next]_vars, NEW c \in Cases
               PROVE  RowInv(alert'[c])
    BY DEF RowsInv
  <2>1. alert[c] \in Row /\ RowInv(alert[c])
    BY DEF TypeOK, RowsInv
  <2> QED  BY <2>1, StepsAreMoves, MoveKeepsRowInv DEF CaseStep
<1> QED  BY <1>1, <1>2, TypeCorrect, PTL DEF Spec

(* Closing, reopening and resurfacing clear what they must, in any order:  *)
(* a resolution belongs to a closed case, a snooze to an active one, an    *)
(* OPEN case is not reported as acknowledged.                              *)
THEOREM QuietCases == Spec => []ClosedCasesAreQuiet
<1>1. RowsInv => ClosedCasesAreQuiet
  BY DEF RowsInv, RowInv, ClosedCasesAreQuiet
<1> QED  BY <1>1, RowsInvariant, PTL

(* The snapshot of a business acceptance is the evidence the case was      *)
(* closed with, until it reopens.                                          *)
THEOREM FrozenEvidence == Spec => []AcceptedEvidenceIsFrozen
<1>1. RowsInv => AcceptedEvidenceIsFrozen
  BY DEF RowsInv, RowInv, AcceptedEvidenceIsFrozen
<1> QED  BY <1>1, RowsInvariant, PTL

-----------------------------------------------------------------------------
(* What a failure does to the row and tells the consumers: the notify      *)
(* decision of openOrUpdateAlertOnce, suppression and snooze together.     *)
LEMMA FailNotifiesType ==
  ASSUME NEW r \in Row, NEW ev \in Evidence, NEW at \in Nat, NEW s, NEW e,
         s = FailRow(r, ev, at), e = FailEvent(r, ev, at)
  PROVE  /\ e.type = "fail" /\ e.prev = r.status /\ e.new = s.status
         /\ e.evidence = s.evidence /\ s.evidence = ev
         /\ s.status = "OPEN"
         /\ ~e.notify => \/ s.snooze # NoSnooze
                         \/ r.status = "OPEN" /\ r.evidence = s.evidence /\ r.snooze = NoSnooze
         /\ e.notify => s.snooze = NoSnooze
         /\ r.snooze = NoSnooze => s.snooze = NoSnooze
         /\ e.notify /\ r.status = "OPEN" /\ r.snooze = NoSnooze => r.evidence # e.evidence
         /\ s.occurrences = (IF Exists(r) THEN r.occurrences ELSE 0) + 1
<1>1. /\ e.type = "fail" /\ e.prev = r.status /\ e.new = s.status
      /\ e.evidence = s.evidence /\ s.evidence = ev /\ s.status = "OPEN"
      /\ e.notify = FailNotifies(r, ev, at)
  BY FailRowType DEF FailEvent, EventOf
<1>2. CASE ~Exists(r)
  <2>1. s.snooze = NoSnooze
    BY <1>2, InsertedFields DEF FailRow, NoSnooze
  <2>2. e.notify
    BY <1>1, <1>2, Zenon DEF FailNotifies
  <2>3. s.occurrences = 1
    BY <1>2, InsertedFields DEF FailRow
  <2> QED  BY <1>1, <1>2, <2>1, <2>2, <2>3 DEF Exists
<1>3. CASE Exists(r)
  <2>1. s.snooze = IF SnoozeExpired(r, at) THEN NoSnooze ELSE r.snooze
    BY <1>3, UpdatedFields DEF FailRow
  <2>2. e.notify <=> (SnoozeExpired(r, at) \/ (~SnoozeActive(r, at) /\ ~RepeatedFail(r, ev)))
    BY <1>1, <1>3, Zenon DEF FailNotifies
  <2>3. r.snooze # NoSnooze => SnoozeExpired(r, at) \/ SnoozeActive(r, at)
    BY DEF SnoozeExpired, SnoozeActive
  <2>4. SnoozeExpired(r, at) => r.snooze # NoSnooze /\ ~SnoozeActive(r, at)
    BY DEF SnoozeExpired, SnoozeActive
  <2>5. SnoozeActive(r, at) => r.snooze # NoSnooze
    BY DEF SnoozeActive
  <2>6. RepeatedFail(r, ev) <=> r.status = "OPEN" /\ r.evidence = ev
    BY DEF RepeatedFail, SameEvidence
  <2>7. s.occurrences = r.occurrences + 1
    BY <1>3, UpdatedFields DEF FailRow
  <2>8. ~e.notify => \/ s.snooze # NoSnooze
                     \/ r.status = "OPEN" /\ r.evidence = s.evidence /\ r.snooze = NoSnooze
    BY <1>1, <2>1, <2>2, <2>3, <2>4, <2>5, <2>6
  <2>9. e.notify /\ r.status = "OPEN" /\ r.snooze = NoSnooze => r.evidence # e.evidence
    BY <1>1, <2>1, <2>2, <2>3, <2>4, <2>5, <2>6
  <2>10. (e.notify => s.snooze = NoSnooze) /\ (r.snooze = NoSnooze => s.snooze = NoSnooze)
    BY <1>1, <2>1, <2>2, <2>3, <2>4, <2>5, <2>6
  <2> QED  BY <1>1, <1>3, <2>7, <2>8, <2>9, <2>10
<1> QED  BY <1>2, <1>3

(* What any transition does: its event carries the row it leaves, and it   *)
(* is silent only under a snooze or on a repeat.                           *)
MoveTells(r, s, e) ==
  /\ e.prev = r.status /\ e.new = s.status /\ e.evidence = s.evidence
  /\ e.type # "fail" => Exists(r) /\ e.notify
  /\ ~e.notify => \/ s.snooze # NoSnooze
                  \/ /\ r.status = "OPEN" /\ s.status = "OPEN"
                     /\ r.evidence = s.evidence /\ r.snooze = NoSnooze
  /\ Pages(e) => s.snooze = NoSnooze /\ s.status = "OPEN"
  /\ Pages(e) /\ r.status = "OPEN" /\ r.snooze = NoSnooze => r.evidence # e.evidence
  /\ e.type = "fail" /\ r.snooze = NoSnooze => s.snooze = NoSnooze
  /\ s.occurrences = (IF Exists(r) THEN r.occurrences ELSE 0) + (IF e.type = "fail" THEN 1 ELSE 0)

(* Every transition tells what MoveTells says.                             *)
LEMMA MovesTell ==
  ASSUME NEW r \in Row, NEW s, NEW e, CaseMoves(r, s, e)
  PROVE  MoveTells(r, s, e)
<1>1. CASE \E ev \in Evidence, at \in Nat :
             s = FailRow(r, ev, at) /\ e = FailEvent(r, ev, at)
  BY <1>1, FailNotifiesType DEF MoveTells, Pages
<1>2. ASSUME NEW type \in EventTypes \ {"fail"}, Exists(r),
             e = EventOf(type, r, s, TRUE), s.occurrences = r.occurrences
      PROVE  MoveTells(r, s, e)
  <2>0. r.occurrences \in Nat
    BY DEF Row
  <2>1. e.prev = r.status /\ e.new = s.status /\ e.evidence = s.evidence /\ e.type # "fail"
    BY <1>2 DEF EventOf
  <2>2. e.notify
    BY <1>2 DEF EventOf
  <2>3. s.occurrences = (IF Exists(r) THEN r.occurrences ELSE 0)
                          + (IF e.type = "fail" THEN 1 ELSE 0)
    BY <1>2, <2>0, <2>1
  <2> QED  BY <1>2, <2>1, <2>2, <2>3 DEF MoveTells, Pages
<1>3. CASE
       /\ Active(r)
       /\ s = AutoResolved(r) /\ e = EventOf("pass", r, s, TRUE)
  <2>1. Exists(r) /\ s.occurrences = r.occurrences
    BY <1>3, AutoResolvedFields DEF Active, Exists
  <2>2. "pass" \in EventTypes \ {"fail"}
    BY DEF EventTypes
  <2> QED  BY <1>2, <1>3, <2>1, <2>2
<1>4. CASE
       /\ r.status = "OPEN"
       /\ s = Acked(r) /\ e = EventOf("ack", r, s, TRUE)
  BY <1>2, <1>4 DEF EventTypes, Exists, Acked, Row
<1>5. CASE \E kind \in {"fixed_by_booking", "accepted_by_business"} :
       /\ Active(r)
       /\ s = ManuallyResolved(r, kind)
       /\ e = EventOf(ResolutionEvent(kind), r, s, TRUE)
  <2>1. PICK kind \in {"fixed_by_booking", "accepted_by_business"} :
          /\ Active(r)
          /\ s = ManuallyResolved(r, kind)
          /\ e = EventOf(ResolutionEvent(kind), r, s, TRUE)
    BY <1>5
  <2>2. Exists(r) /\ s.occurrences = r.occurrences
    BY <2>1, ManuallyResolvedFields DEF Active, Exists
  <2>3. ResolutionEvent(kind) \in EventTypes \ {"fail"}
    BY DEF EventTypes, ResolutionEvent
  <2> QED  BY <1>2, <2>1, <2>2, <2>3
<1>6. CASE \E until \in Nat \ {0} :
       /\ Active(r)
       /\ s = Snoozed(r, until) /\ e = EventOf("snooze", r, s, TRUE)
  BY <1>2, <1>6 DEF EventTypes, Active, Exists, Snoozed, Row
<1>7. CASE
       /\ Exists(r)
       /\ s = Unsnoozed(r) /\ e = EventOf("unsnooze", r, s, TRUE)
  BY <1>2, <1>7 DEF EventTypes, Unsnoozed, Row
<1> QED  BY <1>1, <1>3, <1>4, <1>5, <1>6, <1>7 DEF CaseMoves

(* The invariant of a row and its log.  The conjunct about the last event  *)
(* makes it inductive: without it a repeat could page again after a snooze *)
(* the log does not show.                                                  *)
History(l, r) ==
  /\ Tells(l, r) /\ Known(l, r) /\ NoRepeat(l)
  /\ l # << >> /\ Pages(l[Len(l)]) => r.snooze = NoSnooze /\ r.status = "OPEN"
  /\ r.occurrences = Cardinality(Failures(l))

(* Appending the event of a transition keeps row and log in agreement.     *)
LEMMA MoveKeepsHistory ==
  ASSUME NEW r \in Row, NEW l \in Seq(Event), NEW s, NEW e, CaseMoves(r, s, e), History(l, r)
  PROVE  History(Append(l, e), s)
<1> DEFINE m == Append(l, e)
<1>1. s \in Row /\ Exists(s) /\ e \in Event /\ MoveTells(r, s, e)
  BY MoveType, MovesTell
<1>2. /\ m \in Seq(Event) /\ Len(m) = Len(l) + 1 /\ m # << >> /\ m[Len(m)] = e
      /\ \A i \in 1..Len(l) : m[i] = l[i]
      /\ Len(l) \in Nat
  BY <1>1
<1> HIDE DEF m
<1>3. l = << >> => r = NoRow /\ ~Exists(r) /\ Len(l) = 0
  BY DEF History, Tells, Exists, NoRow
<1>4. Len(l) = 0 => l = << >>
  OBVIOUS
<1>5. Tells(m, s)
  <2>1. m[1].type = "fail" /\ m[1].prev = "NONE"
    <3>1. CASE l = << >>
      BY <3>1, <1>1, <1>2, <1>3 DEF MoveTells, NoRow
    <3>2. CASE l # << >>
      BY <3>2, <1>2, <1>4 DEF History, Tells
    <3> QED  BY <3>1, <3>2
  <2>2. ASSUME NEW i \in 2..Len(m)
        PROVE  m[i].prev = m[i - 1].new
    <3>1. CASE i = Len(m)
      <4>1. l # << >> /\ m[i - 1] = l[Len(l)]
        BY <3>1, <1>2, <1>3
      <4> QED  BY <3>1, <4>1, <1>1, <1>2 DEF MoveTells, History, Tells
    <3>2. CASE i # Len(m)
      <4>1. l # << >> /\ i \in 2..Len(l) /\ m[i] = l[i] /\ m[i - 1] = l[i - 1]
        BY <3>2, <1>2, <1>3
      <4> QED  BY <4>1 DEF History, Tells
    <3> QED  BY <3>1, <3>2
  <2>3. s.status = m[Len(m)].new /\ s.evidence = m[Len(m)].evidence
    BY <1>1, <1>2 DEF MoveTells
  <2> QED  BY <2>1, <2>2, <2>3, <1>2 DEF Tells
<1>6. Known(m, s)
  <2> SUFFICES ASSUME s.snooze = NoSnooze
               PROVE  \E i \in 1..Len(m) : Told(m, i, s)
    BY DEF Known
  <2>1. CASE e.notify
    <3>1. Told(m, Len(m), s)
      BY <2>1, <1>1, <1>2 DEF Told, MoveTells
    <3> QED  BY <3>1, <1>2
  <2>2. CASE ~e.notify
    <3>1. /\ r.status = "OPEN" /\ s.status = "OPEN" /\ r.evidence = s.evidence
          /\ r.snooze = NoSnooze
      BY <2>2, <1>1 DEF MoveTells
    <3>2. PICK i \in 1..Len(l) : Told(l, i, r)
      BY <3>1 DEF History, Known, Exists
    <3>3. m[i] = l[i] /\ \A k \in (i + 1)..Len(m) : ~m[k].notify
      BY <3>2, <2>2, <1>2 DEF Told
    <3>4. Told(m, i, s)
      BY <3>1, <3>2, <3>3 DEF Told
    <3> QED  BY <3>4, <1>2
  <2> QED  BY <2>1, <2>2
<1>7. NoRepeat(m)
  <2> SUFFICES ASSUME NEW i \in 2..Len(m), Pages(m[i - 1]), Pages(m[i])
               PROVE  m[i - 1].evidence # m[i].evidence
    BY DEF NoRepeat
  <2>1. CASE i = Len(m)
    <3>1. l # << >> /\ m[i - 1] = l[Len(l)] /\ m[i] = e
      BY <2>1, <1>2, <1>3
    <3>2. r.snooze = NoSnooze /\ r.status = "OPEN" /\ r.evidence = l[Len(l)].evidence
      BY <3>1 DEF History, Tells
    <3> QED  BY <3>1, <3>2, <1>1 DEF MoveTells
  <2>2. CASE i # Len(m)
    <3>1. i \in 2..Len(l) /\ m[i] = l[i] /\ m[i - 1] = l[i - 1]
      BY <2>2, <1>2
    <3> QED  BY <3>1 DEF History, NoRepeat
  <2> QED  BY <2>1, <2>2
<1>8. Pages(m[Len(m)]) => s.snooze = NoSnooze /\ s.status = "OPEN"
  BY <1>1, <1>2 DEF MoveTells
<1>9. s.occurrences = Cardinality(Failures(m))
  <2>1. r.occurrences \in Nat /\ r.occurrences = Cardinality(Failures(l))
    BY DEF Row, History
  <2>2. Exists(r) \/ r.occurrences = 0
    <3>1. CASE l = << >>
      BY <3>1, <1>3 DEF NoRow
    <3>2. CASE l # << >>
      <4>1. l[Len(l)] \in Event /\ r.status = l[Len(l)].new
        BY <3>2, <1>2, <1>4 DEF History, Tells
      <4> QED  BY <4>1 DEF Event, Statuses, Exists
    <3> QED  BY <3>1, <3>2
  <2>3. s.occurrences = r.occurrences + (IF e.type = "fail" THEN 1 ELSE 0)
    BY <1>1, <2>1, <2>2 DEF MoveTells
  <2>4. Failures(m) = IF e.type = "fail" THEN Failures(l) \cup {Len(m)} ELSE Failures(l)
    BY <1>2 DEF Failures
  <2>5. IsFiniteSet(Failures(l)) /\ Len(m) \notin Failures(l)
    <3>1. IsFiniteSet(1..Len(l)) /\ Failures(l) \subseteq 1..Len(l)
      BY <1>2, FS_Interval DEF Failures
    <3> QED  BY <3>1, <1>2, FS_Subset
  <2>6. Cardinality(Failures(l) \cup {Len(m)}) = Cardinality(Failures(l)) + 1
    BY <2>5, FS_AddElement
  <2> QED  BY <2>1, <2>3, <2>4, <2>6
<1> QED  BY <1>5, <1>6, <1>7, <1>8, <1>9 DEF History, m

(* The second inductive invariant: every row agrees with its log.          *)
HistoryInv == \A c \in Cases : History(log[c], alert[c])

(* Row and log agree in every reachable state, relative to TypeOK.         *)
THEOREM HistoryInvariant == Spec => []HistoryInv
<1>1. Init => HistoryInv
  <2>1. History(<< >>, NoRow)
    <3>1. Failures(<< >>) = {}
      BY DEF Failures
    <3> QED  BY <3>1, FS_EmptySet DEF History, Tells, Known, NoRepeat, Exists, NoRow
  <2> QED  BY <2>1 DEF Init, HistoryInv
<1>2. TypeOK /\ HistoryInv /\ [Next]_vars => HistoryInv'
  <2> SUFFICES ASSUME TypeOK, HistoryInv, [Next]_vars, NEW c \in Cases
               PROVE  History(log'[c], alert'[c])
    BY DEF HistoryInv
  <2>1. alert[c] \in Row /\ log[c] \in Seq(Event) /\ History(log[c], alert[c])
    BY DEF TypeOK, HistoryInv
  <2> QED  BY <2>1, StepsAreMoves, MoveKeepsHistory DEF CaseStep
<1> QED  BY <1>1, <1>2, TypeCorrect, PTL DEF Spec

(* The event log alone tells the row.                                      *)
THEOREM LogTells == Spec => []LogTellsTheRow
<1>1. HistoryInv => LogTellsTheRow
  BY DEF HistoryInv, History, LogTellsTheRow
<1> QED  BY <1>1, HistoryInvariant, PTL

(* Suppression loses nothing: unless the case is snoozed, the last event   *)
(* that notified told its present status and evidence.                     *)
THEOREM ConsumersKnow == Spec => []ConsumersKnowTheCase
<1>1. HistoryInv => ConsumersKnowTheCase
  BY DEF HistoryInv, History, ConsumersKnowTheCase
<1> QED  BY <1>1, HistoryInvariant, PTL

(* Two failures in a row never page twice with the same evidence.          *)
THEOREM NeverPagesTwice == Spec => []NoRepeatPaging
<1>1. HistoryInv => NoRepeatPaging
  BY DEF HistoryInv, History, NoRepeatPaging
<1> QED  BY <1>1, HistoryInvariant, PTL

-----------------------------------------------------------------------------
(* An evaluation in flight ends by its commit or without a trace.          *)
LEMMA ReadIsDecided ==
  ASSUME TypeOK, [Next]_vars, evaluation.state = "read", evaluation'.state = "none"
  PROVE  CommitEvaluation \/ UNCHANGED alert
<1>1. CASE UNCHANGED alert
  BY <1>1
<1>2. CASE \E c \in Cases : Operator(c)
  <2>1. evaluation' = evaluation
    BY <1>2 DEF Operator, AckAlert, ResolveAlert, SnoozeAlert, UnsnoozeAlert, Transition
  <2> QED  BY <2>1
<1> QED
  BY <1>1, <1>2 DEF Next, vars, Tick, ReadSources, ReadFails, AbortEvaluation

(* An evaluation that failed for its own reasons touches the engine.error  *)
(* case only.                                                              *)
THEOREM JudgesNothingOnError == Spec => ErrorsJudgeNothing
<1>1. TypeOK /\ [Next]_vars =>
        [evaluation.state = "read" /\ InError(evaluation) /\ evaluation'.state = "none" =>
           \A c \in Cases \ {ErrorCase} : alert'[c] = alert[c]]_vars
  <2> SUFFICES ASSUME TypeOK, [Next]_vars, evaluation.state = "read", InError(evaluation),
                      evaluation'.state = "none", NEW c \in Cases \ {ErrorCase}
               PROVE  alert'[c] = alert[c]
    OBVIOUS
  <2>1. CASE CommitEvaluation
    BY <2>1 DEF CommitEvaluation, EvaluatedRow, Fails, Closes
  <2>2. CASE UNCHANGED alert
    BY <2>2
  <2> QED  BY <2>1, <2>2, ReadIsDecided
<1> QED  BY <1>1, TypeCorrect, PTL DEF Spec, ErrorsJudgeNothing

(* A committed verdict leaves in its period an active case exactly for the *)
(* fingerprints that failed, closes engine.error, and leaves every other   *)
(* period as it was.                                                       *)
THEOREM DecidesItsPeriod == Spec => EvaluationDecidesItsPeriod
<1>1. TypeOK /\ [Next]_vars =>
        [evaluation.state = "read" /\ evaluation'.state = "none"
           /\ ~InError(evaluation) /\ alert' # alert =>
           \A c \in Cases :
             /\ c[2] = evaluation.period =>
                  (Active(alert'[c]) <=> (c[1] \in Fingerprints
                                          /\ evaluation.verdict[c[1]] \in Evidence))
             /\ c = ErrorCase => ~Active(alert'[c])
             /\ c[2] # evaluation.period /\ c # ErrorCase => alert'[c] = alert[c]]_vars
  <2> SUFFICES ASSUME TypeOK, [Next]_vars, evaluation.state = "read", evaluation'.state = "none",
                      ~InError(evaluation), alert' # alert, NEW c \in Cases
               PROVE  /\ c[2] = evaluation.period =>
                           (Active(alert'[c]) <=> (c[1] \in Fingerprints
                                                   /\ evaluation.verdict[c[1]] \in Evidence))
                      /\ c = ErrorCase => ~Active(alert'[c])
                      /\ c[2] # evaluation.period /\ c # ErrorCase => alert'[c] = alert[c]
    OBVIOUS
  <2> DEFINE ev == evaluation
  <2>1. /\ alert'[c] = EvaluatedRow(ev, c)
        /\ ev.ended \in Nat /\ alert[c] \in Row
        /\ ev.verdict \in [Fingerprints -> Evidence \cup {Passed, Absent}]
    BY ReadIsDecided DEF CommitEvaluation, TypeOK, Evaluation
  <2>2. Fails(ev, c) <=> (c[1] \in Fingerprints /\ c[2] = ev.period /\ ev.verdict[c[1]] \in Evidence)
    BY DEF Fails
  <2>3. CASE Fails(ev, c)
    <3>1. ev.verdict[c[1]] \in Evidence /\ FailingEvidence(ev, c) = ev.verdict[c[1]]
      BY <2>2, <2>3 DEF FailingEvidence
    <3>2. Active(alert'[c])
      BY <2>1, <2>3, <3>1, FailRowType DEF EvaluatedRow, Active
    <3>3. c # ErrorCase
      BY <2>2, <2>3, EngineErrorAssumption DEF ErrorCase
    <3> QED  BY <2>2, <2>3, <3>2, <3>3
  <2>4. CASE ~Fails(ev, c) /\ Closes(ev, c)
    <3>1. ~Active(alert'[c])
      BY <2>1, <2>4, AutoResolvedFields DEF EvaluatedRow, Active
    <3>2. c[2] = ev.period \/ c = ErrorCase
      BY <2>4 DEF Closes, PassesOutcome, Swept
    <3> QED  BY <2>2, <2>4, <3>1, <3>2
  <2>5. CASE ~Fails(ev, c) /\ ~Closes(ev, c)
    <3>1. alert'[c] = alert[c]
      BY <2>1, <2>5 DEF EvaluatedRow
    <3>2. c[2] # ev.period /\ c # ErrorCase
      <4>1. c[1] \in Fingerprints => ev.verdict[c[1]] \in Evidence \cup {Passed, Absent}
        BY <2>1
      <4> QED  BY <2>2, <2>5, <4>1 DEF Closes, PassesOutcome, Swept
    <3> QED  BY <3>1, <3>2
  <2> QED  BY <2>3, <2>4, <2>5
<1> QED  BY <1>1, TypeCorrect, PTL DEF Spec, EvaluationDecidesItsPeriod

(* A case that reopens always pages.                                       *)
THEOREM ReopeningPages == Spec => ReopenPages
<1>1. TypeOK /\ RowsInv /\ [Next]_vars =>
        [\A c \in Cases :
           alert[c].status = "RESOLVED" /\ alert'[c].status = "OPEN" =>
             log'[c][Len(log'[c])].notify]_vars
  <2> SUFFICES ASSUME TypeOK, RowsInv, [Next]_vars, NEW c \in Cases,
                      alert[c].status = "RESOLVED", alert'[c].status = "OPEN"
               PROVE  log'[c][Len(log'[c])].notify
    OBVIOUS
  <2>1. alert[c] \in Row /\ log[c] \in Seq(Event) /\ Quiet(alert[c])
    BY DEF TypeOK, RowsInv, RowInv
  <2>2. PICK e : CaseMoves(alert[c], alert'[c], e) /\ log'[c] = Append(log[c], e)
    BY StepsAreMoves DEF CaseStep
  <2>3. e \in Event /\ MoveTells(alert[c], alert'[c], e)
    BY <2>1, <2>2, MoveType, MovesTell
  <2>4. e.notify
    BY <2>1, <2>3 DEF MoveTells, Quiet, Active
  <2>5. log'[c][Len(log'[c])] = e
    BY <2>1, <2>2, <2>3
  <2> QED  BY <2>4, <2>5
<1> QED  BY <1>1, TypeCorrect, RowsInvariant, PTL DEF Spec, ReopenPages

(* The occurrence count is the number of failures in the log.              *)
THEOREM CountsFailures == Spec => []OccurrencesCountFails
<1>1. HistoryInv => OccurrencesCountFails
  BY DEF HistoryInv, History, OccurrencesCountFails
<1> QED  BY <1>1, HistoryInvariant, PTL
=============================================================================
