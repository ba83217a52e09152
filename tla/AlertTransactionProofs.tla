------------------------ MODULE AlertTransactionProofs ------------------------
(***************************************************************************)
(* Proofs about AlertTransaction, for any rule, any number of operators    *)
(* and any bounds.                                                         *)
(*                                                                         *)
(* StagedInv says what an open transaction has written so far, compared    *)
(* with what the single step CommitEvaluation of AlertLifecycle would do   *)
(* to the same rows: the rows it has locked carry that very change, and a  *)
(* row it has passed over unlocked needs none and cannot need one any more.*)
(* At the commit nothing is left to visit, so the two are equal.           *)
(* AttemptsInv follows the events from the collector to the broker: each is*)
(* owed by one publisher at most, and what is owed has not been given to   *)
(* the broker and is not lost.                                             *)
(***************************************************************************)
EXTENDS AlertTransaction, AlertRowProofs

-----------------------------------------------------------------------------
(* What CommitEvaluation of AlertLifecycle would do to the row of case c,  *)
(* as it is now.                                                           *)
Fails(c)  == Atomic!Fails(evaluation, c)
Closes(c) == Atomic!Closes(evaluation, c)
Changes(c) == Fails(c) \/ (Closes(c) /\ Active(alert[c]))

RowAfter(c) ==
  IF Fails(c)
  THEN FailRow(alert[c], Atomic!FailingEvidence(evaluation, c), evaluation.ended)
  ELSE AutoResolved(alert[c])
EventAfter(c) ==
  IF Fails(c)
  THEN FailEvent(alert[c], Atomic!FailingEvidence(evaluation, c), evaluation.ended)
  ELSE EventOf("pass", alert[c], AutoResolved(alert[c]), TRUE)

(* The transaction is open, and the cases it has still to visit.           *)
Begun == tx.phase \in {"outcomes", "sweep", "error", "commit"}
ToVisit(c) ==
  \/ tx.phase # "commit" /\ c = ErrorCase
  \/ /\ tx.phase = "outcomes" /\ c[2] = evaluation.period
     /\ c[1] \in tx.todo \/ c[1] \notin Outcomes
  \/ /\ tx.phase = "sweep" /\ c[2] = evaluation.period
     /\ c[1] \in tx.todo

StagedInv ==
  /\ Begun => evaluation.state = "read"
  /\ ~Begun => evaluation.state = "none" \/ tx = NoTx
  /\ ~Begun => Locked = {}
  /\ tx.phase = "none" => tx = NoTx
  /\ tx.phase = "error" => Atomic!InError(evaluation) /\ Locked = {}
  /\ tx.phase \in {"outcomes", "sweep"} => ~Atomic!InError(evaluation)
  /\ tx.phase = "outcomes" => tx.todo \subseteq Outcomes
  /\ tx.phase = "sweep" => tx.todo \cap Outcomes = {}
  /\ \A c \in Locked :
       /\ Changes(c)
       /\ tx.staged[c] = [row |-> RowAfter(c), event |-> EventAfter(c)]
       /\ ToVisit(c) => tx.phase = "sweep" /\ c[1] = EngineError
  /\ Begun => \A c \in Cases \ Locked : Changes(c) => ToVisit(c)

(* A snooze was received before now, for an instant after that.            *)
RequestInv ==
  /\ now >= 1
  /\ \A o \in Operators :
       request[o].pc = "waiting" /\ request[o].op = "snooze" =>
         /\ request[o].at \in 1..now
         /\ request[o].until \in 1..MaxClock /\ request[o].until > request[o].at

-----------------------------------------------------------------------------
(* Event i of case c is one that must be published, and has not been.      *)
Due(c, i) ==
  /\ i \in DOMAIN log[c] /\ log[c][i].notify
  /\ ~Attempted(c, i) /\ i \notin lost[c]

(* Who has it to publish: a request, or the evaluation's collector.        *)
Owes(o, c, i) == request[o].pc = "publish" /\ request[o].case = c /\ request[o].event = i
Pending(t, c, i) == \E k \in DOMAIN t.pending : t.pending[k] = <<c, i>>

(* The collector of an open transaction, of which nothing is published:    *)
(* events at the next position of the log of a locked case.                *)
Collects(t) ==
  /\ IsInjective(t.pending)
  /\ \A c \in Cases, i \in Nat : Pending(t, c, i) =>
       c \in DOMAIN t.staged /\ i = Len(log[c]) + 1 /\ t.staged[c].event.notify

(* One that is being flushed: events that are due.                         *)
Flushes(t) ==
  /\ IsInjective(t.pending) /\ t.pending # << >>
  /\ \A c \in Cases, i \in Nat : Pending(t, c, i) => Due(c, i)

AttemptsInv ==
  /\ OnlyCommittedEventsAreSent
  /\ \A c \in Cases : lost[c] \subseteq DOMAIN log[c]
  /\ IF tx.phase = "flush" THEN Flushes(tx) ELSE Collects(tx)
  /\ \A o \in Operators, c \in Cases, i \in Nat : Owes(o, c, i) =>
       /\ Due(c, i)
       /\ \A p \in Operators \ {o} : ~Owes(p, c, i)
       /\ tx.phase = "flush" => ~Pending(tx, c, i)

-----------------------------------------------------------------------------
(* AlertLifecycle speaks of the same rows and events: its definitions      *)
(* reach this module twice, and are the same both times.                   *)
LEMMA SameRows ==
  /\ Atomic!Cases = Cases /\ Atomic!ErrorCase = ErrorCase
  /\ Atomic!Row = Row /\ Atomic!Event = Event /\ Atomic!NoRow = NoRow
  /\ Atomic!Passed = Passed /\ Atomic!Absent = Absent /\ Atomic!NoEvidence = NoEvidence
<1>1. Atomic!Row = Row
  BY DEF Atomic!Row, Row, Atomic!Statuses, Statuses, Atomic!Resolutions, Resolutions,
         Atomic!NoEvidence, NoEvidence
<1>2. Atomic!Event = Event
  BY DEF Atomic!Event, Event, Atomic!Statuses, Statuses, Atomic!EventTypes, EventTypes,
         Atomic!NoEvidence, NoEvidence
<1> QED
  BY <1>1, <1>2 DEF Atomic!Cases, Cases, Atomic!ErrorCase, ErrorCase, Atomic!NoRow, NoRow,
         Atomic!NoEvidence, NoEvidence, Atomic!NoSnooze, NoSnooze, Atomic!Passed, Passed,
         Atomic!Absent, Absent

(* So are its transitions.                                                 *)
LEMMA SameTransitions ==
  ASSUME NEW r, NEW s, NEW type, NEW notify, NEW ev, NEW at, NEW kind
  PROVE  /\ Atomic!Active(r) <=> Active(r)
         /\ Atomic!Exists(r) <=> Exists(r)
         /\ Atomic!AutoResolved(r) = AutoResolved(r)
         /\ Atomic!EventOf(type, r, s, notify) = EventOf(type, r, s, notify)
         /\ Atomic!FailRow(r, ev, at) = FailRow(r, ev, at)
         /\ Atomic!FailEvent(r, ev, at) = FailEvent(r, ev, at)
         /\ Atomic!Acked(r) = Acked(r) /\ Atomic!Snoozed(r, at) = Snoozed(r, at)
         /\ Atomic!Unsnoozed(r) = Unsnoozed(r)
         /\ Atomic!ManuallyResolved(r, kind) = ManuallyResolved(r, kind)
         /\ Atomic!ResolutionEvent(kind) = ResolutionEvent(kind)
<1>1. Atomic!Exists(r) <=> Exists(r)
  BY DEF Atomic!Exists, Exists
<1>2. Atomic!EventOf(type, r, s, notify) = EventOf(type, r, s, notify)
  BY DEF Atomic!EventOf, EventOf
<1>3. Atomic!Active(r) <=> Active(r)
  BY DEF Atomic!Active, Active
<1>4. Atomic!AutoResolved(r) = AutoResolved(r)
  BY DEF Atomic!AutoResolved, AutoResolved, Atomic!NoEvidence, NoEvidence, Atomic!NoSnooze, NoSnooze
<1>5. Atomic!Updated(r, ev, at) = Updated(r, ev, at)
  BY DEF Atomic!Updated, Updated, Atomic!ClearsAck, ClearsAck, Atomic!ClearsResolution,
         ClearsResolution, Atomic!SnoozeExpired, SnoozeExpired, Atomic!NoEvidence, NoEvidence,
         Atomic!NoSnooze, NoSnooze
<1>6. Atomic!Inserted(ev) = Inserted(ev)
  BY DEF Atomic!Inserted, Inserted, Atomic!NoRow, NoRow, Atomic!NoEvidence, NoEvidence,
         Atomic!NoSnooze, NoSnooze
<1>7. Atomic!FailRow(r, ev, at) = FailRow(r, ev, at)
  BY <1>1, <1>5, <1>6 DEF Atomic!FailRow, FailRow
<1>8. Atomic!FailNotifies(r, ev, at) = FailNotifies(r, ev, at)
  BY DEF Atomic!FailNotifies, FailNotifies, Atomic!Exists, Exists, Atomic!SnoozeExpired,
         SnoozeExpired, Atomic!SnoozeActive, SnoozeActive, Atomic!RepeatedFail, RepeatedFail,
         Atomic!SameEvidence, SameEvidence, Atomic!NoSnooze, NoSnooze
<1>9. Atomic!FailEvent(r, ev, at) = FailEvent(r, ev, at)
  BY <1>7, <1>8 DEF Atomic!FailEvent, FailEvent, Atomic!EventOf, EventOf
<1>10. /\ Atomic!Acked(r) = Acked(r) /\ Atomic!Snoozed(r, at) = Snoozed(r, at)
       /\ Atomic!Unsnoozed(r) = Unsnoozed(r)
       /\ Atomic!ManuallyResolved(r, kind) = ManuallyResolved(r, kind)
       /\ Atomic!ResolutionEvent(kind) = ResolutionEvent(kind)
  BY DEF Atomic!Acked, Acked, Atomic!Snoozed, Snoozed, Atomic!Unsnoozed, Unsnoozed,
         Atomic!ManuallyResolved, ManuallyResolved, Atomic!Snapshot, Snapshot,
         Atomic!ResolutionEvent, ResolutionEvent, Atomic!NoSnooze, NoSnooze,
         Atomic!NoEvidence, NoEvidence
<1> QED  BY <1>1, <1>2, <1>3, <1>4, <1>7, <1>9, <1>10

-----------------------------------------------------------------------------
(* The transaction record *)

(* Between two transactions the record is empty. *)
LEMMA NoTxFields ==
  /\ IsTransaction(NoTx)
  /\ NoTx.phase = "none" /\ NoTx.todo = {} /\ NoTx.staged = << >> /\ NoTx.pending = << >>
  /\ DOMAIN NoTx.staged = {}
BY DEF NoTx, IsTransaction

(* What an evaluation writes for a case: one row, locked, and its event,   *)
(* collected if it notifies.                                               *)
LEMMA StagedFields ==
  ASSUME TypeOK, NEW c \in Cases, NEW row \in Row, NEW event \in Event
  PROVE  LET t == Staged(c, row, event) IN
         /\ IsTransaction(t) /\ t.phase = tx.phase /\ t.todo = tx.todo
         /\ DOMAIN t.staged = Locked \cup {c}
         /\ t.staged[c] = [row |-> row, event |-> event]
         /\ \A d \in Locked \ {c} : t.staged[d] = tx.staged[d]
         /\ t.pending = IF event.notify THEN Append(tx.pending, <<c, Len(log[c]) + 1>>)
                                        ELSE tx.pending
<1> DEFINE t == Staged(c, row, event)
           staged == [d \in Locked \cup {c} |->
                        IF d = c THEN [row |-> row, event |-> event] ELSE tx.staged[d]]
           pending == IF event.notify THEN Append(tx.pending, <<c, Len(log[c]) + 1>>)
                                      ELSE tx.pending
<1>1. /\ IsTransaction(tx) /\ Locked \subseteq Cases
      /\ Len(log[c]) + 1 \in Nat
  BY SameRows DEF TypeOK, Atomic!TypeOK, IsTransaction, Locked
<1>2. staged \in [Locked \cup {c} -> [row : Row, event : Event]]
  BY <1>1 DEF IsTransaction, Locked
<1>3. pending \in Seq(Cases \X Nat)
  BY <1>1 DEF IsTransaction
<1>4. t = [tx EXCEPT !.staged = staged, !.pending = pending]
  BY DEF Staged
<1>5. \A d \in Locked : staged[d] = IF d = c THEN [row |-> row, event |-> event] ELSE tx.staged[d]
  OBVIOUS
<1>6. staged[c] = [row |-> row, event |-> event]
  OBVIOUS
<1> HIDE DEF t, staged, pending
<1>7. /\ IsTransaction(t) /\ t.phase = tx.phase /\ t.todo = tx.todo
      /\ t.staged = staged /\ t.pending = pending
  BY <1>1, <1>2, <1>3, <1>4 DEF IsTransaction, Locked
<1> QED  BY <1>2, <1>5, <1>6, <1>7 DEF t, pending

(* The loops of driveAlerts and the end of them change nothing else. *)
LEMMA TodoFields ==
  ASSUME NEW t, IsTransaction(t), NEW S \in SUBSET (Fingerprints \cup {EngineError})
  PROVE  LET u == [t EXCEPT !.todo = S] IN
         /\ IsTransaction(u) /\ u.phase = t.phase /\ u.todo = S
         /\ u.staged = t.staged /\ u.pending = t.pending
BY DEF IsTransaction
LEMMA PhaseFields ==
  ASSUME NEW t, IsTransaction(t),
         NEW p \in {"none", "outcomes", "sweep", "error", "commit", "flush"}
  PROVE  LET u == [t EXCEPT !.phase = p] IN
         /\ IsTransaction(u) /\ u.phase = p /\ u.todo = t.todo
         /\ u.staged = t.staged /\ u.pending = t.pending
BY DEF IsTransaction

(* TypeOK, in terms of the definitions of this module. *)
LEMMA Types ==
  ASSUME TypeOK
  PROVE  /\ alert \in [Cases -> Row] /\ log \in [Cases -> Seq(Event)] /\ now \in Nat
         /\ evaluation \in Atomic!Evaluation
         /\ evaluation.ended \in Nat /\ evaluation.period \in RulePeriods
         /\ evaluation.verdict \in [Fingerprints -> Evidence \cup {Passed, Absent}]
         /\ evaluation.error \in Evidence \cup {NoEvidence}
         /\ Locked \subseteq Cases
         /\ \A c \in Locked : tx.staged[c].row \in Row /\ tx.staged[c].event \in Event
         /\ tx.todo \subseteq Fingerprints \cup {EngineError}
<1>1. alert \in [Cases -> Row] /\ log \in [Cases -> Seq(Event)] /\ now \in Nat
  BY SameRows DEF TypeOK, Atomic!TypeOK
<1>2. /\ evaluation \in Atomic!Evaluation
      /\ evaluation.ended \in Nat /\ evaluation.period \in RulePeriods
      /\ evaluation.verdict \in [Fingerprints -> Evidence \cup {Passed, Absent}]
      /\ evaluation.error \in Evidence \cup {NoEvidence}
  BY SameRows DEF TypeOK, Atomic!TypeOK, Atomic!Evaluation
<1>3. /\ Locked \subseteq Cases
      /\ \A c \in Locked : tx.staged[c].row \in Row /\ tx.staged[c].event \in Event
      /\ tx.todo \subseteq Fingerprints \cup {EngineError}
  BY DEF TypeOK, IsTransaction, Locked
<1> QED  BY <1>1, <1>2, <1>3

(* When a case fails or closes, in the same terms. *)
LEMMA FailsOrCloses ==
  ASSUME NEW c \in Cases
  PROVE  /\ Atomic!InError(evaluation) <=> evaluation.error # NoEvidence
         /\ Atomic!InError(evaluation) =>
              (Fails(c) <=> c = ErrorCase) /\ ~Closes(c)
              /\ Atomic!FailingEvidence(evaluation, c) = evaluation.error
         /\ ~Atomic!InError(evaluation) =>
              /\ Fails(c) <=> /\ c[1] \in Fingerprints /\ c[2] = evaluation.period
                              /\ evaluation.verdict[c[1]] \in Evidence
              /\ Closes(c) <=>
                   \/ c = ErrorCase
                   \/ /\ c[2] = evaluation.period
                      /\ c[1] \in Fingerprints => evaluation.verdict[c[1]] \in {Passed, Absent}
              /\ Atomic!FailingEvidence(evaluation, c) = evaluation.verdict[c[1]]
BY SameRows DEF Fails, Closes, Atomic!Fails, Atomic!Closes, Atomic!InError,
     Atomic!FailingEvidence, Atomic!PassesOutcome, Atomic!Swept

(* The change is a transition of AlertRow; a case that closes is closed.   *)
LEMMA AfterType ==
  ASSUME TypeOK, NEW c \in Cases, Changes(c)
  PROVE  /\ RowAfter(c) \in Row /\ EventAfter(c) \in Event
         /\ Exists(RowAfter(c))
         /\ ~Fails(c) => ~Active(RowAfter(c))
<1>1. alert[c] \in Row /\ evaluation.ended \in Nat
  BY Types
<1>2. CASE Fails(c)
  <2>1. Atomic!FailingEvidence(evaluation, c) \in Evidence
    BY <1>2, FailsOrCloses, Types
  <2>2. CaseMoves(alert[c], RowAfter(c), EventAfter(c))
    BY <1>1, <1>2, <2>1 DEF CaseMoves, RowAfter, EventAfter
  <2> QED  BY <1>1, <1>2, <2>2, MoveType
<1>3. CASE ~Fails(c)
  <2>1. Active(alert[c])
    BY <1>3 DEF Changes
  <2>2. CaseMoves(alert[c], RowAfter(c), EventAfter(c))
    BY <1>3, <2>1 DEF CaseMoves, RowAfter, EventAfter
  <2>3. ~Active(RowAfter(c))
    BY <1>1, <1>3, AutoResolvedFields DEF RowAfter, Active
  <2> QED  BY <1>1, <2>2, <2>3, MoveType
<1> QED  BY <1>2, <1>3

(* What CommitEvaluation does, in the terms of this module. *)
LEMMA EvaluatedAfter ==
  ASSUME NEW c \in Cases
  PROVE  /\ Atomic!EvaluatedRow(evaluation, c) = IF Changes(c) THEN RowAfter(c) ELSE alert[c]
         /\ Atomic!EvaluatedLog(evaluation, c) =
              IF Changes(c) THEN Append(log[c], EventAfter(c)) ELSE log[c]
BY SameTransitions DEF Atomic!EvaluatedRow, Atomic!EvaluatedLog, Changes, Fails, Closes,
     RowAfter, EventAfter

-----------------------------------------------------------------------------
(* A visit of case c by the evaluation leaves the transaction as t: it     *)
(* writes the change the row needs, if any, unless it has done so before.  *)
Visited(c, t) ==
  \/ t = tx /\ (c \in Locked \/ ~Changes(c))
  \/ c \notin Locked /\ Changes(c) /\ t = Staged(c, RowAfter(c), EventAfter(c))

(* Every visited row keeps the change that was staged for it.              *)
LEMMA VisitedFields ==
  ASSUME TypeOK, NEW c \in Cases, NEW t, Visited(c, t)
  PROVE  /\ IsTransaction(t) /\ t.phase = tx.phase /\ t.todo = tx.todo
         /\ Locked \subseteq DOMAIN t.staged /\ DOMAIN t.staged \subseteq Locked \cup {c}
         /\ \A d \in Locked : t.staged[d] = tx.staged[d]
         /\ c \notin DOMAIN t.staged => ~Changes(c)
         /\ c \in DOMAIN t.staged \ Locked =>
              Changes(c) /\ t.staged[c] = [row |-> RowAfter(c), event |-> EventAfter(c)]
<1>1. CASE t = tx /\ (c \in Locked \/ ~Changes(c))
  BY <1>1 DEF TypeOK, Locked
<1>2. CASE c \notin Locked /\ Changes(c) /\ t = Staged(c, RowAfter(c), EventAfter(c))
  <2>1. RowAfter(c) \in Row /\ EventAfter(c) \in Event
    BY <1>2, AfterType
  <2>2. /\ IsTransaction(t) /\ t.phase = tx.phase /\ t.todo = tx.todo
        /\ DOMAIN t.staged = Locked \cup {c}
        /\ t.staged[c] = [row |-> RowAfter(c), event |-> EventAfter(c)]
        /\ \A d \in Locked \ {c} : t.staged[d] = tx.staged[d]
    <3>1. PICK row \in Row, event \in Event : row = RowAfter(c) /\ event = EventAfter(c)
      BY <2>1
    <3> DEFINE u == Staged(c, row, event)
    <3>2. /\ IsTransaction(u) /\ u.phase = tx.phase /\ u.todo = tx.todo
          /\ DOMAIN u.staged = Locked \cup {c}
          /\ u.staged[c] = [row |-> row, event |-> event]
          /\ \A d \in Locked \ {c} : u.staged[d] = tx.staged[d]
          /\ u.pending = IF event.notify THEN Append(tx.pending, <<c, Len(log[c]) + 1>>)
                                         ELSE tx.pending
      BY StagedFields
    <3>3. t = u
      BY <1>2, <3>1
    <3> HIDE DEF u
    <3> QED  BY <3>1, <3>2, <3>3
  <2> QED  BY <1>2, <2>2
<1> QED  BY <1>1, <1>2 DEF Visited

(* AutoResolveAlert finds a case that closes active, or has nothing to do. *)
LEMMA AutoResolveVisits ==
  ASSUME TypeOK, StagedInv, NEW c \in Cases, Closes(c), ~Fails(c)
  PROVE  Visited(c, AutoResolve(c))
<1>1. CASE c \in Locked
  <2>1. Changes(c) /\ tx.staged[c] = [row |-> RowAfter(c), event |-> EventAfter(c)]
    BY <1>1 DEF StagedInv
  <2>2. Visible(c) = RowAfter(c) /\ ~Active(Visible(c))
    BY <1>1, <2>1, AfterType DEF Visible
  <2> QED  BY <1>1, <2>2 DEF AutoResolve, Visited
<1>2. CASE c \notin Locked
  <2>1. Visible(c) = alert[c]
    BY <1>2 DEF Visible
  <2>2. CASE Active(alert[c])
    <3>1. AutoResolve(c) = Staged(c, RowAfter(c), EventAfter(c))
      BY <2>1, <2>2 DEF AutoResolve, RowAfter, EventAfter
    <3> QED  BY <1>2, <2>2, <3>1 DEF Visited, Changes
  <2>3. CASE ~Active(alert[c])
    BY <2>1, <2>3 DEF AutoResolve, Visited, Changes
  <2> QED  BY <2>2, <2>3
<1> QED  BY <1>1, <1>2

(* openOrUpdateAlertOnce writes the failure of a case not visited yet. *)
LEMMA OpenOrUpdateVisits ==
  ASSUME NEW c \in Cases, c \notin Locked, Fails(c)
  PROVE  Visited(c, OpenOrUpdate(c, Atomic!FailingEvidence(evaluation, c)))
BY DEF OpenOrUpdate, Visible, Visited, Changes, RowAfter, EventAfter

(* The cases an evaluation is about. *)
LEMMA CasesOfPeriod ==
  ASSUME TypeOK
  PROVE  /\ \A f \in Fingerprints \cup {EngineError} : <<f, evaluation.period>> \in Cases
         /\ ErrorCase \in Cases
BY Types DEF Cases, ErrorCase

(* One step of the loops: a visit, and the next position of the loop. *)
VisitStep(c) ==
  /\ \E t : /\ Visited(c, t) /\ IsTransaction(tx')
            /\ tx'.staged = t.staged /\ tx'.pending = t.pending
  /\ UNCHANGED <<alert, log, evaluation, now, request, attempts, refusals, lost>>

(* The first loop of driveAlerts visits the case of the outcome. *)
LEMMA DriveOutcomeVisits ==
  ASSUME TypeOK, StagedInv, NEW f \in Fingerprints, DriveOutcome(f)
  PROVE  /\ VisitStep(<<f, evaluation.period>>)
         /\ tx'.phase = "outcomes" /\ tx'.todo = tx.todo \ {f}
<1> DEFINE c == <<f, evaluation.period>>
           v == evaluation.verdict[f]
           t == IF v = Passed THEN AutoResolve(c) ELSE OpenOrUpdate(c, v)
<1>1. c \in Cases /\ c[1] = f /\ c[2] = evaluation.period
  BY CasesOfPeriod
<1>2. /\ tx' = [t EXCEPT !.todo = @ \ {f}] /\ tx.phase = "outcomes" /\ f \in tx.todo
      /\ UNCHANGED <<alert, log, evaluation, now, request, attempts, refusals, lost>>
  BY DEF DriveOutcome
<1>3. /\ f \in Outcomes /\ ~Atomic!InError(evaluation) /\ c \notin Locked
  BY <1>1, <1>2 DEF StagedInv, ToVisit
<1>4. Visited(c, t)
  <2>1. CASE v = Passed
    <3>1. Closes(c) /\ ~Fails(c)
      BY <2>1, <1>1, <1>3, FailsOrCloses, EvidenceAssumption
    <3> QED  BY <2>1, <3>1, <1>1, AutoResolveVisits
  <2>2. CASE v # Passed
    <3>1. v \in Evidence
      BY <2>2, <1>3, Types DEF Outcomes
    <3>2. Fails(c) /\ Atomic!FailingEvidence(evaluation, c) = v
      BY <3>1, <1>1, <1>3, FailsOrCloses
    <3> QED  BY <2>2, <3>2, <1>1, <1>3, OpenOrUpdateVisits
  <2> QED  BY <2>1, <2>2
<1> HIDE DEF t, c
<1>5. IsTransaction(t) /\ t.phase = "outcomes" /\ t.todo = tx.todo
  BY <1>1, <1>2, <1>4, VisitedFields
<1>6. tx' = [t EXCEPT !.todo = tx.todo \ {f}]
  BY <1>2, <1>5
<1>7. /\ IsTransaction(tx') /\ tx'.phase = "outcomes" /\ tx'.todo = tx.todo \ {f}
      /\ tx'.staged = t.staged /\ tx'.pending = t.pending
  <2>1. PICK S \in SUBSET (Fingerprints \cup {EngineError}) : S = tx.todo \ {f}
    BY Types
  <2> DEFINE u == [t EXCEPT !.todo = S]
  <2>2. /\ IsTransaction(u) /\ u.phase = t.phase /\ u.todo = S
        /\ u.staged = t.staged /\ u.pending = t.pending
    BY <1>5, TodoFields
  <2>3. tx' = u
    BY <1>6, <2>1
  <2> HIDE DEF u
  <2> QED  BY <1>5, <2>1, <2>2, <2>3
<1> QED  BY <1>2, <1>4, <1>7 DEF VisitStep, c

(* The sweep visits an active case no outcome mentions. *)
LEMMA SweepVisits ==
  ASSUME TypeOK, StagedInv, NEW f \in Fingerprints \cup {EngineError}, Sweep(f)
  PROVE  /\ VisitStep(<<f, evaluation.period>>)
         /\ tx'.phase = "sweep" /\ tx'.todo = tx.todo \ {f}
<1> DEFINE c == <<f, evaluation.period>>
           t == AutoResolve(c)
<1>1. c \in Cases /\ c[1] = f /\ c[2] = evaluation.period
  BY CasesOfPeriod
<1>2. /\ tx' = [t EXCEPT !.todo = @ \ {f}] /\ tx.phase = "sweep" /\ f \in tx.todo
      /\ UNCHANGED <<alert, log, evaluation, now, request, attempts, refusals, lost>>
  BY DEF Sweep
<1>3. f \notin Outcomes /\ ~Atomic!InError(evaluation)
  BY <1>2 DEF StagedInv
<1>4. Visited(c, t)
  <2>1. c[1] \in Fingerprints => evaluation.verdict[c[1]] = Absent
    BY <1>1, <1>3 DEF Outcomes
  <2>2. Closes(c) /\ ~Fails(c)
    BY <2>1, <1>1, <1>3, FailsOrCloses, EvidenceAssumption
  <2> QED  BY <2>2, <1>1, AutoResolveVisits
<1> HIDE DEF t, c
<1>5. IsTransaction(t) /\ t.phase = "sweep" /\ t.todo = tx.todo
  BY <1>1, <1>2, <1>4, VisitedFields
<1>6. tx' = [t EXCEPT !.todo = tx.todo \ {f}]
  BY <1>2, <1>5
<1>7. /\ IsTransaction(tx') /\ tx'.phase = "sweep" /\ tx'.todo = tx.todo \ {f}
      /\ tx'.staged = t.staged /\ tx'.pending = t.pending
  <2>1. PICK S \in SUBSET (Fingerprints \cup {EngineError}) : S = tx.todo \ {f}
    BY Types
  <2> DEFINE u == [t EXCEPT !.todo = S]
  <2>2. /\ IsTransaction(u) /\ u.phase = t.phase /\ u.todo = S
        /\ u.staged = t.staged /\ u.pending = t.pending
    BY <1>5, TodoFields
  <2>3. tx' = u
    BY <1>6, <2>1
  <2> HIDE DEF u
  <2> QED  BY <1>5, <2>1, <2>2, <2>3
<1> QED  BY <1>2, <1>4, <1>7 DEF VisitStep, c

(* The last visit is that of the engine.error case. *)
LEMMA EngineErrorVisits ==
  ASSUME TypeOK, StagedInv, EngineErrorAlert
  PROVE  VisitStep(ErrorCase) /\ tx'.phase = "commit" /\ Begun
<1> DEFINE t == IF Atomic!InError(evaluation)
                THEN OpenOrUpdate(ErrorCase, evaluation.error)
                ELSE AutoResolve(ErrorCase)
<1>1. ErrorCase \in Cases /\ ErrorCase[1] = EngineError
  BY CasesOfPeriod DEF ErrorCase
<1>2. /\ tx' = [t EXCEPT !.phase = "commit"]
      /\ tx.phase = "error" \/ (tx.phase = "sweep" /\ tx.todo = {})
      /\ UNCHANGED <<alert, log, evaluation, now, request, attempts, refusals, lost>>
  BY DEF EngineErrorAlert
<1>3. Visited(ErrorCase, t)
  <2>1. CASE Atomic!InError(evaluation)
    <3>1. ErrorCase \notin Locked
      BY <2>1, <1>2 DEF StagedInv
    <3>2. /\ Fails(ErrorCase)
          /\ Atomic!FailingEvidence(evaluation, ErrorCase) = evaluation.error
      BY <2>1, <1>1, FailsOrCloses
    <3> QED  BY <2>1, <3>1, <3>2, <1>1, OpenOrUpdateVisits
  <2>2. CASE ~Atomic!InError(evaluation)
    <3>1. Closes(ErrorCase) /\ ~Fails(ErrorCase)
      BY <2>2, <1>1, FailsOrCloses, EngineErrorAssumption
    <3> QED  BY <2>2, <3>1, <1>1, AutoResolveVisits
  <2> QED  BY <2>1, <2>2
<1> HIDE DEF t
<1>4. IsTransaction(t)
  BY <1>1, <1>3, VisitedFields
<1>5. /\ IsTransaction(tx') /\ tx'.phase = "commit"
      /\ tx'.staged = t.staged /\ tx'.pending = t.pending
  BY <1>2, <1>4, PhaseFields
<1> QED  BY <1>2, <1>3, <1>5 DEF VisitStep, Begun

(* A visit keeps what the transaction has staged, and settles its case.    *)
LEMMA VisitKeepsStaged ==
  ASSUME TypeOK, StagedInv, NEW c \in Cases, VisitStep(c)
  PROVE  /\ TypeOK'
         /\ Locked \subseteq Locked' /\ Locked' \subseteq Locked \cup {c}
         /\ \A d \in Locked' :
              /\ Changes(d)'
              /\ tx'.staged[d] = [row |-> RowAfter(d)', event |-> EventAfter(d)']
         /\ \A d \in Cases \ Locked' : Changes(d)' => d # c /\ d \notin Locked /\ Changes(d)
<1>1. PICK t : /\ Visited(c, t) /\ IsTransaction(tx')
               /\ tx'.staged = t.staged /\ tx'.pending = t.pending
  BY DEF VisitStep
<1>2. UNCHANGED <<alert, log, evaluation, now, request, attempts, refusals, lost>>
  BY DEF VisitStep
<1>3. TypeOK'
  BY <1>1, <1>2 DEF TypeOK, Atomic!TypeOK
<1>4. Locked' = DOMAIN t.staged
  BY <1>1 DEF Locked
<1>5. \A d \in Cases : /\ Changes(d)' <=> Changes(d)
                       /\ RowAfter(d)' = RowAfter(d) /\ EventAfter(d)' = EventAfter(d)
  BY <1>2 DEF Changes, RowAfter, EventAfter, Fails, Closes
<1>6. /\ Locked \subseteq Locked' /\ Locked' \subseteq Locked \cup {c}
      /\ \A d \in Locked : t.staged[d] = tx.staged[d]
      /\ c \notin Locked' => ~Changes(c)
      /\ c \in Locked' \ Locked =>
           Changes(c) /\ t.staged[c] = [row |-> RowAfter(c), event |-> EventAfter(c)]
  BY <1>1, <1>4, VisitedFields
<1>7. ASSUME NEW d \in Locked'
      PROVE  /\ Changes(d)'
             /\ tx'.staged[d] = [row |-> RowAfter(d)', event |-> EventAfter(d)']
  <2>1. d \in Cases
    BY <1>7, <1>6, Types
  <2>2. Changes(d) /\ t.staged[d] = [row |-> RowAfter(d), event |-> EventAfter(d)]
    BY <1>6, <1>7 DEF StagedInv
  <2> QED  BY <2>1, <2>2, <1>1, <1>5
<1> QED  BY <1>3, <1>5, <1>6, <1>7

(* The loops keep StagedInv: what is behind them has been settled.         *)
LEMMA VisitsKeepStagedInv ==
  ASSUME TypeOK, StagedInv,
         \/ \E f \in Fingerprints : DriveOutcome(f)
         \/ \E f \in Fingerprints \cup {EngineError} : Sweep(f)
         \/ EngineErrorAlert
  PROVE  TypeOK' /\ StagedInv'
<1>1. CASE \E f \in Fingerprints : DriveOutcome(f)
  <2>1. PICK f \in Fingerprints : DriveOutcome(f)
    BY <1>1
  <2> DEFINE c == <<f, evaluation.period>>
  <2>2. /\ VisitStep(c) /\ c \in Cases /\ tx.phase = "outcomes" /\ evaluation' = evaluation
        /\ tx'.phase = "outcomes" /\ tx'.todo = tx.todo \ {f}
    BY <2>1, DriveOutcomeVisits, CasesOfPeriod DEF DriveOutcome
  <2>3. ~Atomic!InError(evaluation) /\ f \in Outcomes /\ evaluation.state = "read"
    BY <2>1, <2>2 DEF StagedInv, DriveOutcome, Begun
  <2>4. Outcomes' = Outcomes /\ Atomic!InError(evaluation)' = Atomic!InError(evaluation)
    BY <2>2 DEF Outcomes, Atomic!InError
  <2>5. ASSUME NEW d \in Locked'
        PROVE  ~ToVisit(d)'
    <3>1. d \in Locked \cup {c}
      BY <2>2, <2>5, VisitKeepsStaged
    <3>2. CASE d \in Locked
      BY <3>2, <2>2, <2>4 DEF StagedInv, ToVisit
    <3>3. CASE d = c
      BY <3>3, <2>2, <2>3, <2>4, EngineErrorAssumption DEF ToVisit, ErrorCase
    <3> QED  BY <3>1, <3>2, <3>3
  <2>6. ASSUME NEW d \in Cases \ Locked', Changes(d)'
        PROVE  ToVisit(d)'
    <3>1. d # c /\ ToVisit(d)
      BY <2>2, <2>6, VisitKeepsStaged DEF StagedInv, Begun
    <3>2. d = <<d[1], d[2]>>
      BY DEF Cases
    <3> QED  BY <3>1, <3>2, <2>2, <2>4 DEF ToVisit
  <2> QED  BY <2>2, <2>3, <2>4, <2>5, <2>6, VisitKeepsStaged DEF StagedInv, Begun
<1>2. CASE \E f \in Fingerprints \cup {EngineError} : Sweep(f)
  <2>1. PICK f \in Fingerprints \cup {EngineError} : Sweep(f)
    BY <1>2
  <2> DEFINE c == <<f, evaluation.period>>
  <2>2. /\ VisitStep(c) /\ c \in Cases /\ tx.phase = "sweep" /\ evaluation' = evaluation
        /\ tx'.phase = "sweep" /\ tx'.todo = tx.todo \ {f}
    BY <2>1, SweepVisits, CasesOfPeriod DEF Sweep
  <2>3. ~Atomic!InError(evaluation) /\ evaluation.state = "read"
    BY <2>1, <2>2 DEF StagedInv, Begun
  <2>4. Outcomes' = Outcomes /\ Atomic!InError(evaluation)' = Atomic!InError(evaluation)
    BY <2>2 DEF Outcomes, Atomic!InError
  <2>5. ASSUME NEW d \in Locked', ToVisit(d)'
        PROVE  d[1] = EngineError
    <3>1. d \in Locked \cup {c}
      BY <2>2, <2>5, VisitKeepsStaged
    <3>2. CASE d \in Locked
      BY <3>2, <2>2, <2>4, <2>5 DEF StagedInv, ToVisit
    <3>3. CASE d = c
      BY <3>3, <2>2, <2>4, <2>5 DEF ToVisit, ErrorCase
    <3> QED  BY <3>1, <3>2, <3>3
  <2>6. ASSUME NEW d \in Cases \ Locked', Changes(d)'
        PROVE  ToVisit(d)'
    <3>1. d # c /\ ToVisit(d)
      BY <2>2, <2>6, VisitKeepsStaged DEF StagedInv, Begun
    <3>2. d = <<d[1], d[2]>>
      BY DEF Cases
    <3> QED  BY <3>1, <3>2, <2>2, <2>4 DEF ToVisit
  <2> QED  BY <2>2, <2>3, <2>4, <2>5, <2>6, VisitKeepsStaged DEF StagedInv, Begun
<1>3. CASE EngineErrorAlert
  <2>1. /\ VisitStep(ErrorCase) /\ ErrorCase \in Cases /\ tx'.phase = "commit"
        /\ evaluation' = evaluation /\ evaluation.state = "read"
    BY <1>3, EngineErrorVisits, CasesOfPeriod DEF EngineErrorAlert, StagedInv
  <2>2. ASSUME NEW d \in Cases \ Locked', Changes(d)'
        PROVE  FALSE
    <3>1. d # ErrorCase /\ d \notin Locked /\ Changes(d)
      BY <2>1, <2>2, VisitKeepsStaged
    <3>2. ToVisit(d) /\ (tx.phase = "error" \/ (tx.phase = "sweep" /\ tx.todo = {}))
      BY <1>3, <3>1, EngineErrorVisits DEF StagedInv, EngineErrorAlert
    <3> QED  BY <3>1, <3>2 DEF ToVisit
  <2> QED  BY <2>1, <2>2, VisitKeepsStaged DEF StagedInv, Begun, ToVisit
<1> QED  BY <1>1, <1>2, <1>3

-----------------------------------------------------------------------------
(* The broker *)

(* What is lost are events of cases, by position. *)
LEMMA LostType ==
  ASSUME TypeOK, NEW E \in SUBSET (Cases \X Nat), Lose(E)
  PROVE  /\ lost' \in [Cases -> SUBSET Nat]
         /\ \A c \in Cases : \A i \in lost'[c] \ lost[c] : i \in Nat /\ <<c, i>> \in E
<1>1. lost' = [c \in Cases |-> lost[c] \cup {m[2] : m \in {n \in E : n[1] = c}}]
  BY DEF Lose
<1>2. ASSUME NEW c \in Cases, NEW m \in E, m[1] = c
      PROVE  m[2] \in Nat /\ m = <<c, m[2]>>
  BY <1>2
<1>3. \A c \in Cases : lost[c] \cup {m[2] : m \in {n \in E : n[1] = c}} \subseteq Nat
  BY <1>2 DEF TypeOK
<1>4. ASSUME NEW c \in Cases, NEW i \in lost'[c] \ lost[c]
      PROVE  i \in Nat /\ <<c, i>> \in E
  BY <1>1, <1>2, <1>4
<1> QED  BY <1>1, <1>3, <1>4

(* A message for the broker names an event. *)
LEMMA PublishType ==
  ASSUME TypeOK, NEW m \in Cases \X Nat, Publish(m)
  PROVE  attempts' \in [Cases -> Seq(Nat)] /\ refusals' \in 0..MaxRefusals
<1>1. PICK c \in Cases, i \in Nat : m = <<c, i>>
  OBVIOUS
<1>2. attempts' = [attempts EXCEPT ![c] = Append(@, i)] /\ Append(attempts[c], i) \in Seq(Nat)
  BY <1>1 DEF Publish, TypeOK
<1>3. refusals' \in 0..MaxRefusals
  BY TransactionAssumption DEF Publish, TypeOK
<1> QED  BY <1>2, <1>3 DEF TypeOK

-----------------------------------------------------------------------------
(* The operators *)

(* What an operator's transaction does to the row it has locked: one       *)
(* transition, and none that makes a case active.                          *)
OperatorMove(c, row, event) ==
  /\ CaseMoves(alert[c], row, event) /\ event.notify
  /\ Active(row) => Active(alert[c])
  /\ alert' = [alert EXCEPT ![c] = row]
  /\ log' = [log EXCEPT ![c] = Append(@, event)]
  /\ evaluation' = evaluation /\ now' = now

(* A request that is applied is a step of AlertLifecycle.                  *)
LEMMA ApplyMoves ==
  ASSUME TypeOK, RequestInv, NEW o \in Operators, Apply(o) \/ ApplyUnanswered(o)
  PROVE  LET c == request[o].case IN
         /\ c \in Cases /\ c \notin Locked /\ UNCHANGED <<tx, attempts, refusals>>
         /\ Atomic!Operator(c)
         /\ \E row, event : OperatorMove(c, row, event)
<1> DEFINE r == request[o]
           c == request[o].case
<1>1. /\ r.pc = "waiting" /\ c \notin Locked /\ Applies(r)
      /\ UNCHANGED <<tx, attempts, refusals>>
  BY DEF Apply, ApplyUnanswered
<1>2. c \in Cases /\ r.op \in Manual /\ alert[c] \in Row /\ now \in Nat /\ MaxClock \in Nat
  BY Types, TransactionAssumption DEF TypeOK, Request
<1>3. ASSUME NEW row, NEW type, Atomic!Transition(c, row, type),
             CaseMoves(alert[c], row, EventOf(type, alert[c], row, TRUE)),
             Active(row) => Active(alert[c])
      PROVE  OperatorMove(c, row, EventOf(type, alert[c], row, TRUE))
  BY <1>3, SameTransitions DEF OperatorMove, Atomic!Transition, EventOf
<1>4. CASE r.op = "ack"
  <2>1. Atomic!AckAlert(c)
    BY <1>1, <1>4 DEF Applies
  <2>2. alert[c].status = "OPEN" /\ Atomic!Transition(c, Acked(alert[c]), "ack")
    BY <2>1, SameTransitions DEF Atomic!AckAlert
  <2>3. /\ CaseMoves(alert[c], Acked(alert[c]), EventOf("ack", alert[c], Acked(alert[c]), TRUE))
        /\ Active(alert[c])
    BY <2>2 DEF CaseMoves, Active
  <2> QED  BY <1>1, <1>2, <1>3, <2>1, <2>2, <2>3 DEF Atomic!Operator
<1>5. ASSUME NEW kind \in {"fixed_by_booking", "accepted_by_business"}, Atomic!ResolveAlert(c, kind)
      PROVE  Atomic!Operator(c) /\ \E row, event : OperatorMove(c, row, event)
  <2> DEFINE row == ManuallyResolved(alert[c], kind)
  <2>1. Active(alert[c]) /\ Atomic!Transition(c, row, ResolutionEvent(kind))
    BY <1>5, SameTransitions DEF Atomic!ResolveAlert
  <2>2. CaseMoves(alert[c], row, EventOf(ResolutionEvent(kind), alert[c], row, TRUE))
    BY <2>1 DEF CaseMoves
  <2> QED  BY <1>3, <1>5, <2>1, <2>2 DEF Atomic!Operator
<1>6. CASE r.op = "resolve"
  BY <1>1, <1>2, <1>5, <1>6 DEF Applies
<1>7. CASE r.op = "accept"
  BY <1>1, <1>2, <1>5, <1>7 DEF Applies
<1>8. CASE r.op = "snooze"
  <2> DEFINE row == Snoozed(alert[c], r.until)
  <2>1. Atomic!SnoozeAlert(c, r.until, r.at)
    BY <1>1, <1>8 DEF Applies
  <2>2. Active(alert[c]) /\ Atomic!Transition(c, row, "snooze")
    BY <2>1, SameTransitions DEF Atomic!SnoozeAlert
  <2>3. r.at \in 1..now /\ r.until \in 1..(MaxClock + 1) /\ r.until \in Nat \ {0}
    BY <1>1, <1>2, <1>8 DEF RequestInv
  <2>4. CaseMoves(alert[c], row, EventOf("snooze", alert[c], row, TRUE))
    BY <2>2, <2>3 DEF CaseMoves
  <2>5. Atomic!Operator(c)
    BY <2>1, <2>3 DEF Atomic!Operator
  <2> QED  BY <1>1, <1>2, <1>3, <2>2, <2>4, <2>5
<1>9. CASE r.op = "unsnooze"
  <2> DEFINE row == Unsnoozed(alert[c])
  <2>1. Atomic!UnsnoozeAlert(c)
    BY <1>1, <1>9 DEF Applies
  <2>2. Exists(alert[c]) /\ Atomic!Transition(c, row, "unsnooze")
    BY <2>1, SameTransitions DEF Atomic!UnsnoozeAlert
  <2>3. CaseMoves(alert[c], row, EventOf("unsnooze", alert[c], row, TRUE))
    BY <2>2 DEF CaseMoves
  <2>4. Active(row) => Active(alert[c])
    BY <1>2 DEF Unsnoozed, Active, Row
  <2> QED  BY <1>1, <1>2, <1>3, <2>1, <2>2, <2>3, <2>4 DEF Atomic!Operator
<1> QED  BY <1>1, <1>2, <1>4, <1>6, <1>7, <1>8, <1>9 DEF Manual

(* What is left of a request that has committed. *)
LEMMA PublishFields ==
  ASSUME TypeOK, NEW c \in Cases
  PROVE  /\ ToPublish(c) \in Request
         /\ ToPublish(c).pc = "publish" /\ ToPublish(c).case = c
         /\ ToPublish(c).event = Len(log[c]) + 1
         /\ NoRequest \in Request /\ NoRequest.pc = "none"
<1>1. log[c] \in Seq(Event) /\ Len(log[c]) + 1 \in Nat
  BY Types
<1>2. NoRequest \in Request /\ NoRequest.pc = "none"
  BY DEF NoRequest, Request, Manual, ErrorCase, Cases
<1> DEFINE n == Len(log[c]) + 1
           r == [NoRequest EXCEPT !.pc = "publish", !.case = c, !.event = n]
<1>3. ToPublish(c) = r
  BY DEF ToPublish
<1> HIDE DEF n
<1>4. r \in Request /\ r.pc = "publish" /\ r.case = c /\ r.event = n
  <2>1. n \in Nat
    BY <1>1 DEF n
  <2> QED  BY <1>2, <2>1 DEF Request
<1> QED  BY <1>2, <1>3, <1>4 DEF n

(* What a request does with the event of its commit: keep it to publish,   *)
(* or lose it with the answer.                                             *)
LEMMA ApplyRecords ==
  ASSUME TypeOK, NEW o \in Operators, Apply(o) \/ ApplyUnanswered(o)
  PROVE  LET c == request[o].case
             n == Len(log[c]) + 1 IN
         \/ request' = [request EXCEPT ![o] = ToPublish(c)] /\ lost' = lost
         \/ /\ request' = [request EXCEPT ![o] = NoRequest]
            /\ lost' \in [Cases -> SUBSET Nat]
            /\ \A d \in Cases : \A i \in lost'[d] \ lost[d] : d = c /\ i = n
<1> DEFINE c == request[o].case
           n == Len(log[c]) + 1
<1>1. CASE Apply(o)
  BY <1>1 DEF Apply
<1>2. CASE ApplyUnanswered(o)
  <2>1. request' = [request EXCEPT ![o] = NoRequest] /\ Lose({<<c, n>>})
    BY <1>2 DEF ApplyUnanswered
  <2>2. c \in Cases
    BY DEF TypeOK, Request
  <2>3. n \in Nat
    BY <2>2, Types
  <2> HIDE DEF c, n
  <2>4. {<<c, n>>} \in SUBSET (Cases \X Nat)
    BY <2>2, <2>3
  <2>5. /\ lost' \in [Cases -> SUBSET Nat]
        /\ \A d \in Cases : \A i \in lost'[d] \ lost[d] : <<d, i>> \in {<<c, n>>}
    BY <2>1, <2>4, LostType
  <2>6. \A d \in Cases : \A i \in lost'[d] \ lost[d] : d = c /\ i = n
    BY <2>5
  <2> QED  BY <2>1, <2>5, <2>6 DEF c, n
<1> QED  BY <1>1, <1>2

(* A row that is locked is not touched, so what is staged for it stays     *)
(* right; a row that needs no change does not come to need one.            *)
LEMMA ApplyKeepsStagedInv ==
  ASSUME TypeOK, StagedInv, RequestInv, NEW o \in Operators, Apply(o) \/ ApplyUnanswered(o)
  PROVE  TypeOK' /\ StagedInv'
<1> DEFINE c == request[o].case
<1>1. /\ c \in Cases /\ c \notin Locked /\ UNCHANGED <<tx, attempts, refusals>>
      /\ \E row, event : OperatorMove(c, row, event)
  BY ApplyMoves
<1>2. PICK row, event : OperatorMove(c, row, event)
  BY <1>1
<1>3. row \in Row /\ event \in Event
  BY <1>1, <1>2, MoveType, Types DEF OperatorMove
<1>4. /\ alert' \in [Cases -> Row] /\ log' \in [Cases -> Seq(Event)]
      /\ evaluation' = evaluation /\ now' = now
  <2>1. alert' \in [Cases -> Row]
    BY <1>2, <1>3, Types DEF OperatorMove
  <2>2. log[c] \in Seq(Event) /\ Append(log[c], event) \in Seq(Event)
    BY <1>1, <1>3, Types
  <2>3. log' \in [Cases -> Seq(Event)]
    BY <1>2, <2>2, Types DEF OperatorMove
  <2> QED  BY <1>2, <2>1, <2>3 DEF OperatorMove
<1>5. TypeOK'
  <2>1. ToPublish(c) \in Request /\ NoRequest \in Request
    BY <1>1, PublishFields
  <2>2. request' \in [Operators -> Request] /\ lost' \in [Cases -> SUBSET Nat]
    BY <2>1, ApplyRecords DEF TypeOK
  <2>3. Atomic!TypeOK'
    BY <1>4, SameRows DEF TypeOK, Atomic!TypeOK
  <2> QED  BY <1>1, <2>2, <2>3 DEF TypeOK, IsTransaction
<1>6. \A d \in Cases \ {c} : alert'[d] = alert[d]
  BY <1>2, <1>3, Types DEF OperatorMove
<1>7. Active(alert'[c]) => Active(alert[c])
  BY <1>1, <1>2, Types DEF OperatorMove
<1>8. Locked' = Locked /\ Begun' = Begun /\ Outcomes' = Outcomes
      /\ Atomic!InError(evaluation)' = Atomic!InError(evaluation)
      /\ \A d : ToVisit(d)' <=> ToVisit(d)
  BY <1>1, <1>4 DEF Locked, Begun, Outcomes, ToVisit, Atomic!InError
<1>9. \A d \in Cases : Changes(d)' => Changes(d)
  <2>1. ASSUME NEW d \in Cases, Changes(d)'
        PROVE  Changes(d)
    <3>1. (Fails(d)' <=> Fails(d)) /\ (Closes(d)' <=> Closes(d))
      BY <1>4 DEF Fails, Closes
    <3>2. Active(alert'[d]) => Active(alert[d])
      BY <1>6, <1>7
    <3> QED  BY <2>1, <3>1, <3>2 DEF Changes
  <2> QED  BY <2>1
<1>10. \A d \in Locked : /\ Changes(d)' <=> Changes(d)
                         /\ RowAfter(d)' = RowAfter(d) /\ EventAfter(d)' = EventAfter(d)
  <2>1. \A d \in Locked : d \in Cases /\ alert'[d] = alert[d]
    BY <1>1, <1>6, Types
  <2> QED  BY <2>1, <1>4 DEF Changes, RowAfter, EventAfter, Fails, Closes
<1> QED  BY <1>1, <1>4, <1>5, <1>8, <1>9, <1>10 DEF StagedInv

-----------------------------------------------------------------------------
(* The other steps of the evaluation *)

(* An evaluation in flight is well typed, and so is none. *)
LEMMA IdleType == Atomic!Idle \in Atomic!Evaluation /\ Atomic!Idle.state = "none"
<1>1. (CHOOSE p \in RulePeriods : TRUE) \in RulePeriods
  BY TransactionAssumption
<1>2. [f \in Fingerprints |-> Atomic!Absent]
        \in [Fingerprints -> Evidence \cup {Atomic!Passed, Atomic!Absent}]
  OBVIOUS
<1> QED  BY <1>1, <1>2 DEF Atomic!Idle, Atomic!Evaluation

(* At first nothing is staged. *)
LEMMA InitInv == Init => TypeOK /\ StagedInv /\ RequestInv
<1> SUFFICES ASSUME Init
             PROVE  TypeOK /\ StagedInv /\ RequestInv
  OBVIOUS
<1>1. /\ alert = [c \in Cases |-> NoRow] /\ log = [c \in Cases |-> << >>]
      /\ evaluation = Atomic!Idle /\ now = 1 /\ tx = NoTx
      /\ request = [o \in Operators |-> NoRequest]
      /\ attempts = [c \in Cases |-> << >>] /\ refusals = 0
      /\ lost = [c \in Cases |-> {}]
  BY SameRows DEF Init, Atomic!Init
<1>2. NoRequest \in Request
  BY DEF NoRequest, Request, Manual, ErrorCase, Cases
<1>3. Atomic!TypeOK
  BY <1>1, IdleType, NoRowType, SameRows DEF Atomic!TypeOK
<1>4. TypeOK
  BY <1>1, <1>2, <1>3, NoTxFields, TransactionAssumption DEF TypeOK
<1>5. StagedInv
  BY <1>1, IdleType, NoTxFields DEF StagedInv, Begun, Locked
<1>6. RequestInv
  BY <1>1 DEF RequestInv, NoRequest
<1> QED  BY <1>4, <1>5, <1>6

(* The template returns, or fails. *)
LEMMA ReadKeepsStagedInv ==
  ASSUME TypeOK, StagedInv, Read
  PROVE  TypeOK' /\ StagedInv'
<1>1. tx = NoTx /\ UNCHANGED <<alert, log, now, tx, request, attempts, refusals, lost>>
  BY DEF Read, Atomic!ReadSources, Atomic!ReadFails, txVars
<1>2. evaluation' \in Atomic!Evaluation
  <2>1. now \in Nat
    BY Types
  <2>2. ASSUME NEW p \in RulePeriods,
               NEW verdict \in [Fingerprints -> Evidence \cup {Passed, Absent}],
               Atomic!ReadSources(p, verdict)
        PROVE  evaluation' \in Atomic!Evaluation
    BY <2>1, <2>2, SameRows DEF Atomic!ReadSources, Atomic!Evaluation
  <2>3. ASSUME NEW p \in RulePeriods, NEW error \in Evidence, Atomic!ReadFails(p, error)
        PROVE  evaluation' \in Atomic!Evaluation
    <3>1. [f \in Fingerprints |-> Atomic!Absent]
            \in [Fingerprints -> Evidence \cup {Atomic!Passed, Atomic!Absent}]
      OBVIOUS
    <3> QED  BY <2>1, <2>3, <3>1 DEF Atomic!ReadFails, Atomic!Evaluation
  <2> QED  BY <2>2, <2>3 DEF Read
<1>3. TypeOK'
  BY <1>1, <1>2 DEF TypeOK, Atomic!TypeOK, IsTransaction
<1>4. StagedInv'
  BY <1>1, NoTxFields DEF StagedInv, Begun, Locked
<1> QED  BY <1>3, <1>4

(* At the start of the transaction, every case the evaluation is about is  *)
(* still to be visited.                                                    *)
LEMMA BeginKeepsStagedInv ==
  ASSUME TypeOK, StagedInv, Begin
  PROVE  TypeOK' /\ StagedInv'
<1>1. /\ evaluation.state = "read" /\ tx = NoTx
      /\ tx' = IF Atomic!InError(evaluation)
               THEN [NoTx EXCEPT !.phase = "error"]
               ELSE [NoTx EXCEPT !.phase = "outcomes", !.todo = Outcomes]
      /\ UNCHANGED <<alert, log, evaluation, now, request, attempts, refusals, lost>>
  BY DEF Begin
<1>2. Outcomes \subseteq Fingerprints
  BY DEF Outcomes
<1>3. /\ IsTransaction(tx') /\ tx'.staged = << >> /\ DOMAIN tx'.staged = {}
      /\ Atomic!InError(evaluation) => tx'.phase = "error"
      /\ ~Atomic!InError(evaluation) => tx'.phase = "outcomes" /\ tx'.todo = Outcomes
  BY <1>1, <1>2, NoTxFields DEF NoTx, IsTransaction
<1>4. TypeOK'
  BY <1>1, <1>3 DEF TypeOK, Atomic!TypeOK
<1>5. /\ Locked' = {} /\ Outcomes' = Outcomes
      /\ Atomic!InError(evaluation)' = Atomic!InError(evaluation)
      /\ \A c \in Cases : Changes(c)' => Changes(c)
  BY <1>1, <1>3 DEF Locked, Outcomes, Atomic!InError, Changes, Fails, Closes
<1>6. ASSUME NEW c \in Cases, Changes(c)
      PROVE  ToVisit(c)'
  <2>1. CASE Atomic!InError(evaluation)
    BY <1>3, <1>6, <2>1, FailsOrCloses DEF Changes, ToVisit
  <2>2. CASE ~Atomic!InError(evaluation)
    <3>1. c = ErrorCase \/ c[2] = evaluation.period
      BY <1>6, <2>2, FailsOrCloses DEF Changes
    <3> QED  BY <1>1, <1>3, <1>5, <2>2, <3>1 DEF ToVisit
  <2> QED  BY <2>1, <2>2
<1> QED  BY <1>1, <1>3, <1>4, <1>5, <1>6 DEF StagedInv, Begun

(* The cases the list leaves out need no change: they were visited, or are *)
(* not active.                                                             *)
LEMMA ListKeepsStagedInv ==
  ASSUME TypeOK, StagedInv, ListActive
  PROVE  TypeOK' /\ StagedInv'
<1> DEFINE listed == {f \in (Fingerprints \cup {EngineError}) \ Outcomes :
                        Active(Visible(<<f, evaluation.period>>))}
<1>1. /\ tx.phase = "outcomes" /\ tx.todo = {}
      /\ tx' = [tx EXCEPT !.phase = "sweep", !.todo = listed]
      /\ UNCHANGED <<alert, log, evaluation, now, request, attempts, refusals, lost>>
  BY DEF ListActive
<1>2. listed \subseteq Fingerprints \cup {EngineError} /\ listed \cap Outcomes = {}
  OBVIOUS
<1>3. \A f \in (Fingerprints \cup {EngineError}) \ Outcomes :
        Active(Visible(<<f, evaluation.period>>)) => f \in listed
  OBVIOUS
<1> HIDE DEF listed
<1>4. /\ IsTransaction(tx') /\ tx'.phase = "sweep" /\ tx'.todo = listed
      /\ tx'.staged = tx.staged
  BY <1>1, <1>2 DEF TypeOK, IsTransaction
<1>5. TypeOK'
  BY <1>1, <1>4 DEF TypeOK, Atomic!TypeOK
<1>6. /\ Locked' = Locked /\ Outcomes' = Outcomes
      /\ Atomic!InError(evaluation)' = Atomic!InError(evaluation)
      /\ \A c \in Cases : /\ Changes(c)' <=> Changes(c)
                          /\ RowAfter(c)' = RowAfter(c) /\ EventAfter(c)' = EventAfter(c)
  BY <1>1, <1>4 DEF Locked, Outcomes, Atomic!InError, Changes, RowAfter, EventAfter, Fails, Closes
<1>7. evaluation.state = "read" /\ ~Atomic!InError(evaluation)
  BY <1>1 DEF StagedInv, Begun
<1>8. ASSUME NEW c \in Locked, ToVisit(c)'
      PROVE  c[1] = EngineError
  <2>1. ~ToVisit(c) /\ c \in Cases
    BY <1>1, <1>8, Types DEF StagedInv
  <2> QED  BY <1>1, <1>2, <1>4, <1>6, <1>8, <2>1 DEF ToVisit, ErrorCase
<1>9. ASSUME NEW c \in Cases \ Locked, Changes(c)
      PROVE  ToVisit(c)'
  <2>1. c = ErrorCase \/ (c[2] = evaluation.period /\ c[1] \notin Outcomes)
    BY <1>1, <1>9 DEF StagedInv, Begun, ToVisit
  <2>2. CASE c = ErrorCase
    BY <2>2, <1>4 DEF ToVisit
  <2>3. CASE c[2] = evaluation.period /\ c[1] \notin Outcomes
    <3>1. ~Fails(c)
      BY <2>3, <1>7, FailsOrCloses, EvidenceAssumption DEF Outcomes
    <3>2. Active(alert[c]) /\ Visible(c) = alert[c]
      BY <1>9, <3>1 DEF Changes, Visible
    <3>3. c[1] \in Fingerprints \cup {EngineError} /\ c = <<c[1], evaluation.period>>
      BY <2>3 DEF Cases
    <3>4. c[1] \in listed
      BY <1>3, <2>3, <3>2, <3>3
    <3> QED  BY <1>1, <1>4, <2>3, <3>4 DEF ToVisit
  <2> QED  BY <2>1, <2>2, <2>3
<1> QED
  <2>1. \A c \in Locked : c \in Cases
    BY Types
  <2> QED  BY <1>1, <1>2, <1>4, <1>5, <1>6, <1>7, <1>8, <1>9, <2>1 DEF StagedInv, Begun

(* The commit, whether it is answered or not: every case is either locked, *)
(* with its change staged, or needs none, so the step is CommitEvaluation  *)
(* on the rows as they are.                                                *)
LEMMA CommitIsAtomic ==
  ASSUME TypeOK, StagedInv, Commit \/ CommitUnanswered
  PROVE  Atomic!CommitEvaluation /\ TypeOK' /\ StagedInv'
<1>1. /\ tx.phase = "commit" /\ Atomic!LogHasRoom
      /\ alert' = [c \in Cases |-> Visible(c)]
      /\ log' = [c \in Cases |->
                   IF c \in Locked THEN Append(log[c], tx.staged[c].event) ELSE log[c]]
      /\ evaluation' = Atomic!Idle
      /\ UNCHANGED <<now, request, attempts, refusals>>
  BY DEF Commit, CommitUnanswered, InstallRows
<1>2. evaluation.state = "read" /\ \A c \in Cases \ Locked : ~Changes(c)
  BY <1>1 DEF StagedInv, Begun, ToVisit
<1>3. ASSUME NEW c \in Cases
      PROVE  /\ Visible(c) = Atomic!EvaluatedRow(evaluation, c) /\ Visible(c) \in Row
             /\ (IF c \in Locked THEN Append(log[c], tx.staged[c].event) ELSE log[c])
                  = Atomic!EvaluatedLog(evaluation, c)
             /\ (IF c \in Locked THEN Append(log[c], tx.staged[c].event) ELSE log[c]) \in Seq(Event)
  <2>1. alert[c] \in Row /\ log[c] \in Seq(Event)
    BY Types
  <2>2. CASE c \in Locked
    <3>1. Changes(c) /\ tx.staged[c] = [row |-> RowAfter(c), event |-> EventAfter(c)]
      BY <2>2 DEF StagedInv
    <3>2. tx.staged[c].row = RowAfter(c) /\ tx.staged[c].event = EventAfter(c)
      BY <3>1
    <3>3. tx.staged[c].row \in Row /\ tx.staged[c].event \in Event
      BY <2>2, Types
    <3> QED  BY <2>1, <2>2, <3>1, <3>2, <3>3, EvaluatedAfter DEF Visible
  <2>3. CASE c \notin Locked
    BY <2>1, <2>3, <1>2, EvaluatedAfter DEF Visible
  <2> QED  BY <2>2, <2>3
<1>4. Atomic!CommitEvaluation
  BY <1>1, <1>2, <1>3, SameRows DEF Atomic!CommitEvaluation
<1>5. IsTransaction(tx') /\ tx'.staged = << >> /\ tx'.phase \in {"none", "flush"}
      /\ (tx'.phase = "none" => tx' = NoTx) /\ lost' \in [Cases -> SUBSET Nat]
  <2>1. CASE Commit
    <3>1. /\ tx' = [NoTx EXCEPT !.phase = IF tx.pending = << >> THEN "none" ELSE "flush",
                                !.pending = tx.pending]
          /\ lost' = lost
      BY <2>1 DEF Commit
    <3> QED  BY <3>1, NoTxFields DEF TypeOK, IsTransaction, NoTx
  <2>2. CASE CommitUnanswered
    <3>1. tx' = NoTx /\ Lose(ToSet(tx.pending))
      BY <2>2 DEF CommitUnanswered
    <3>2. ToSet(tx.pending) \in SUBSET (Cases \X Nat)
      BY DEF TypeOK, IsTransaction, ToSet
    <3>3. lost' \in [Cases -> SUBSET Nat]
      BY <3>1, <3>2, LostType
    <3> QED  BY <3>1, <3>3, NoTxFields
  <2> QED  BY <2>1, <2>2
<1>6. TypeOK'
  <2>1. Atomic!TypeOK'
    BY <1>1, <1>3, IdleType, SameRows DEF TypeOK, Atomic!TypeOK
  <2> QED  BY <1>1, <1>5, <2>1 DEF TypeOK
<1>7. StagedInv'
  <2>1. Locked' = {} /\ ~Begun'
    BY <1>5 DEF Locked, Begun
  <2> QED  BY <1>1, <1>5, <2>1, IdleType DEF StagedInv
<1> QED  BY <1>4, <1>6, <1>7

(* A rollback leaves the rows as they were. *)
LEMMA RollbackKeepsStagedInv ==
  ASSUME TypeOK, StagedInv, Rollback
  PROVE  TypeOK' /\ StagedInv'
<1>1. tx' = NoTx /\ evaluation' = Atomic!Idle /\ UNCHANGED <<alert, log, now, request, attempts, refusals, lost>>
  BY DEF Rollback, Atomic!AbortEvaluation
<1>2. TypeOK'
  BY <1>1, NoTxFields, IdleType DEF TypeOK, Atomic!TypeOK
<1>3. StagedInv'
  BY <1>1, NoTxFields DEF StagedInv, Begun, Locked
<1> QED  BY <1>2, <1>3

(* Flushing, or dying while it goes on, touches what is pending only. *)
LEMMA FlushKeepsStagedInv ==
  ASSUME TypeOK, StagedInv, AttemptsInv, FlushAlertEvents \/ DieFlushing
  PROVE  TypeOK' /\ StagedInv'
<1>1. /\ tx.phase = "flush" /\ UNCHANGED <<alert, log, evaluation, now, request>>
      /\ tx' = NoTx \/ tx' = [tx EXCEPT !.pending = Tail(@)]
      /\ tx.pending # << >>
  BY DEF FlushAlertEvents, DieFlushing, AttemptsInv, Flushes
<1>2. tx.pending \in Seq(Cases \X Nat) /\ Tail(tx.pending) \in Seq(Cases \X Nat)
  BY <1>1 DEF TypeOK, IsTransaction
<1>3. IsTransaction(tx') /\ tx'.phase \in {"none", "flush"}
      /\ (tx'.phase = "none" => tx' = NoTx) /\ DOMAIN tx'.staged = {}
  <2>1. CASE tx' = NoTx
    BY <2>1, NoTxFields
  <2>2. CASE tx' = [tx EXCEPT !.pending = Tail(@)]
    BY <2>2, <1>1, <1>2 DEF TypeOK, IsTransaction, StagedInv, Begun, Locked
  <2> QED  BY <1>1, <2>1, <2>2
<1>4. /\ attempts' \in [Cases -> Seq(Nat)] /\ refusals' \in 0..MaxRefusals
      /\ lost' \in [Cases -> SUBSET Nat]
  <2>1. CASE FlushAlertEvents
    <3>1. Publish(Head(tx.pending)) /\ lost' = lost
      BY <2>1 DEF FlushAlertEvents
    <3>2. Head(tx.pending) \in Cases \X Nat
      BY <1>1, <1>2
    <3> QED  BY <3>1, <3>2, PublishType DEF TypeOK
  <2>2. CASE DieFlushing
    <3>1. UNCHANGED <<attempts, refusals>> /\ Lose(ToSet(tx.pending))
      BY <2>2 DEF DieFlushing
    <3>2. ToSet(tx.pending) \in SUBSET (Cases \X Nat)
      BY <1>2 DEF ToSet
    <3> QED  BY <3>1, <3>2, LostType DEF TypeOK
  <2> QED  BY <2>1, <2>2
<1>5. TypeOK'
  BY <1>1, <1>3, <1>4 DEF TypeOK, Atomic!TypeOK
<1>6. StagedInv'
  <2>1. ~Begun /\ ~Begun' /\ Locked' = {} /\ tx # NoTx
    BY <1>1, <1>3, NoTxFields DEF Begun, Locked
  <2>2. evaluation'.state = "none"
    BY <1>1, <2>1 DEF StagedInv
  <2> QED  BY <1>1, <1>3, <2>1, <2>2 DEF StagedInv
<1> QED  BY <1>5, <1>6

(* What else the operators do leaves the evaluation alone. *)
LEMMA RequestsKeepStagedInv ==
  ASSUME TypeOK, StagedInv,
         \/ Tick \/ UNCHANGED vars
         \/ \E o \in Operators :
              \/ \E c \in Cases, op \in Manual, until \in 0..MaxClock : Receive(o, c, op, until)
              \/ Refuse(o) \/ PublishRequest(o) \/ Die(o)
  PROVE  TypeOK' /\ StagedInv'
<1>1. /\ UNCHANGED <<alert, log, evaluation, tx>>
      /\ now' \in Nat
  <2>1. CASE Tick
    BY <2>1, Types DEF Tick, Atomic!Tick, txVars
  <2>2. CASE UNCHANGED vars
    BY <2>2, Types DEF vars
  <2>3. ASSUME NEW o \in Operators,
               \/ \E c \in Cases, op \in Manual, until \in 0..MaxClock : Receive(o, c, op, until)
               \/ Refuse(o) \/ PublishRequest(o) \/ Die(o)
        PROVE  UNCHANGED <<alert, log, evaluation, tx, now>>
    BY <2>3 DEF Receive, Refuse, PublishRequest, Die
  <2> QED  BY <2>1, <2>2, <2>3, Types
<1>2. StagedInv'
  BY <1>1 DEF StagedInv, Begun, Locked, Outcomes, ToVisit, Changes, RowAfter, EventAfter,
              Fails, Closes
<1>3. request' \in [Operators -> Request]
  <2>1. NoRequest \in Request
    BY DEF NoRequest, Request, Manual, ErrorCase, Cases
  <2>2. ASSUME NEW o \in Operators, NEW c \in Cases, NEW op \in Manual, NEW until \in 0..MaxClock,
               Receive(o, c, op, until)
        PROVE  request' \in [Operators -> Request]
    <3> DEFINE at == IF op = "snooze" THEN now ELSE 0
               r == [NoRequest EXCEPT !.pc = "waiting", !.case = c, !.op = op,
                                      !.until = until, !.at = at]
    <3>1. request' = [request EXCEPT ![o] = r]
      BY <2>2 DEF Receive
    <3>2. at \in Nat /\ until \in Nat
      BY Types, TransactionAssumption
    <3> HIDE DEF at
    <3>3. r \in Request
      BY <2>1, <3>2 DEF Request
    <3> QED  BY <3>1, <3>3 DEF TypeOK
  <2>3. ASSUME NEW o \in Operators, Refuse(o) \/ PublishRequest(o) \/ Die(o)
        PROVE  request' \in [Operators -> Request]
    <3>1. request' = [request EXCEPT ![o] = NoRequest]
      BY <2>3 DEF Refuse, PublishRequest, Die
    <3> QED  BY <2>1, <3>1 DEF TypeOK
  <2>4. CASE Tick \/ UNCHANGED vars
    BY <2>4 DEF TypeOK, Tick, vars, txVars
  <2> QED  BY <2>2, <2>3, <2>4
<1>4. /\ attempts' \in [Cases -> Seq(Nat)] /\ refusals' \in 0..MaxRefusals
      /\ lost' \in [Cases -> SUBSET Nat]
  <2>1. ASSUME NEW o \in Operators, PublishRequest(o) \/ Die(o)
        PROVE  /\ attempts' \in [Cases -> Seq(Nat)] /\ refusals' \in 0..MaxRefusals
               /\ lost' \in [Cases -> SUBSET Nat]
    <3>1. request[o] \in Request /\ request[o].case \in Cases /\ request[o].event \in Nat
      BY DEF TypeOK, Request
    <3>2. CASE PublishRequest(o)
      <4>1. Publish(<<request[o].case, request[o].event>>) /\ lost' = lost
        BY <3>2 DEF PublishRequest
      <4>2. <<request[o].case, request[o].event>> \in Cases \X Nat
        BY <3>1
      <4> QED  BY <4>1, <4>2, PublishType DEF TypeOK
    <3>3. CASE Die(o)
      BY <3>1, <3>3 DEF Die, TypeOK
    <3> QED  BY <2>1, <3>2, <3>3
  <2>2. CASE UNCHANGED <<attempts, refusals, lost>>
    BY <2>2 DEF TypeOK
  <2> QED  BY <2>1, <2>2 DEF Tick, Receive, Refuse, vars, txVars
<1>5. TypeOK'
  BY <1>1, <1>3, <1>4 DEF TypeOK, Atomic!TypeOK, IsTransaction
<1> QED  BY <1>2, <1>5

-----------------------------------------------------------------------------
(* What the requests remember *)

(* A snooze that waits was received in the past, for a later instant: the  *)
(* clock only goes forward, and the other steps make nobody wait.          *)
LEMMA RequestInvKept ==
  ASSUME TypeOK, RequestInv, [Next]_vars
  PROVE  RequestInv'
<1>1. now \in Nat /\ now' \in Nat /\ now' >= now
  <2>1. CASE Tick
    BY <2>1, Types DEF Tick, Atomic!Tick
  <2>2. CASE now' = now
    BY <2>2, Types
  <2>3. ASSUME NEW o \in Operators, Apply(o) \/ ApplyUnanswered(o)
        PROVE  now' = now
    BY <2>3, ApplyMoves DEF OperatorMove
  <2>4. Read \/ Rollback => now' = now
    BY DEF Read, Rollback, Atomic!ReadSources, Atomic!ReadFails, Atomic!AbortEvaluation
  <2>5. Begin \/ ListActive \/ EngineErrorAlert \/ Commit \/ CommitUnanswered
          \/ FlushAlertEvents \/ DieFlushing => now' = now
    BY DEF Begin, ListActive, EngineErrorAlert, Commit, CommitUnanswered, InstallRows,
           FlushAlertEvents, DieFlushing
  <2>6. ASSUME NEW f \in Fingerprints \cup {EngineError}, DriveOutcome(f) \/ Sweep(f)
        PROVE  now' = now
    BY <2>6 DEF DriveOutcome, Sweep
  <2>7. ASSUME NEW o \in Operators,
               \/ \E c \in Cases, op \in Manual, until \in 0..MaxClock : Receive(o, c, op, until)
               \/ Refuse(o) \/ PublishRequest(o) \/ Die(o)
        PROVE  now' = now
    BY <2>7 DEF Receive, Refuse, PublishRequest, Die
  <2> QED  BY <2>1, <2>2, <2>3, <2>4, <2>5, <2>6, <2>7 DEF Next, vars
<1>2. CASE request' = request
  BY <1>1, <1>2, TransactionAssumption DEF RequestInv
<1>3. ASSUME NEW o \in Operators, NEW r, request' = [request EXCEPT ![o] = r], r.pc # "waiting"
      PROVE  RequestInv'
  <2>1. \A p \in Operators : request'[p] = IF p = o THEN r ELSE request[p]
    BY <1>3 DEF TypeOK
  <2> QED  BY <1>1, <1>3, <2>1, TransactionAssumption DEF RequestInv
<1>4. ASSUME NEW o \in Operators, Apply(o) \/ ApplyUnanswered(o)
      PROVE  RequestInv'
  BY <1>3, <1>4, ApplyMoves, ApplyRecords, PublishFields
<1>5. ASSUME NEW o \in Operators, NEW c \in Cases, NEW op \in Manual, NEW until \in 0..MaxClock,
             Receive(o, c, op, until)
      PROVE  RequestInv'
  <2> DEFINE at == IF op = "snooze" THEN now ELSE 0
             r == [NoRequest EXCEPT !.pc = "waiting", !.case = c, !.op = op,
                                    !.until = until, !.at = at]
  <2>1. request' = [request EXCEPT ![o] = r] /\ now' = now /\ (op = "snooze" => until > now)
    BY <1>5 DEF Receive
  <2>2. op = "snooze" => at = now
    OBVIOUS
  <2> HIDE DEF at
  <2>3. r.op = op /\ r.at = at /\ r.until = until
    BY DEF NoRequest
  <2> HIDE DEF r
  <2>4. \A p \in Operators : request'[p] = IF p = o THEN r ELSE request[p]
    BY <2>1 DEF TypeOK
  <2> QED  BY <1>1, <2>1, <2>2, <2>3, <2>4, TransactionAssumption DEF RequestInv
<1>6. ASSUME NEW o \in Operators, Refuse(o) \/ PublishRequest(o) \/ Die(o)
      PROVE  RequestInv'
  <2>1. request' = [request EXCEPT ![o] = NoRequest] /\ NoRequest.pc # "waiting"
    BY <1>6 DEF Refuse, PublishRequest, Die, NoRequest
  <2> QED  BY <1>3, <2>1
<1> QED
  <2>1. Tick \/ Read \/ Begin \/ ListActive \/ EngineErrorAlert \/ Commit \/ CommitUnanswered
          \/ FlushAlertEvents \/ Rollback \/ DieFlushing \/ UNCHANGED vars => request' = request
    BY DEF Tick, Read, Begin, ListActive, EngineErrorAlert, Commit, CommitUnanswered,
           InstallRows, FlushAlertEvents, Rollback, DieFlushing, vars, txVars
  <2>2. ASSUME NEW f \in Fingerprints \cup {EngineError}, DriveOutcome(f) \/ Sweep(f)
        PROVE  request' = request
    BY <2>2 DEF DriveOutcome, Sweep
  <2> QED  BY <1>2, <1>4, <1>5, <1>6, <2>1, <2>2 DEF Next

-----------------------------------------------------------------------------
(* The events on their way *)

(* An injective sequence may be extended with anything new. *)
LEMMA NewKeepsInjective ==
  ASSUME NEW s, NEW t, Len(s) \in Nat,
         DOMAIN s = 1..Len(s), DOMAIN t = 1..(Len(s) + 1),
         \A k \in 1..Len(s) : t[k] = s[k] /\ s[k] # t[Len(s) + 1],
         IsInjective(s)
  PROVE  IsInjective(t)
<1>1. \A a, b \in DOMAIN s : s[a] = s[b] => a = b
  BY DEF IsInjective
<1>2. \A a, b \in DOMAIN t : t[a] = t[b] => a = b
  BY <1>1
<1> QED  BY <1>2 DEF IsInjective

(* Without its head it is still injective, and the head does not come back. *)
LEMMA TailKeepsInjective ==
  ASSUME NEW S, NEW s \in Seq(S), s # << >>, IsInjective(s)
  PROVE  /\ IsInjective(Tail(s))
         /\ \A k \in DOMAIN Tail(s) :
              Tail(s)[k] # Head(s) /\ \E j \in DOMAIN s : s[j] = Tail(s)[k]
<1>1. /\ DOMAIN Tail(s) = 1..(Len(s) - 1) /\ DOMAIN s = 1..Len(s) /\ Len(s) \in Nat \ {0}
      /\ \A k \in 1..(Len(s) - 1) : Tail(s)[k] = s[k + 1]
      /\ Head(s) = s[1]
  OBVIOUS
<1> QED  BY <1>1 DEF IsInjective

(* Nothing is taken back from a log, and what a commit without an answer   *)
(* loses is new in it: what had to be published must still.                *)
LEMMA LogGrows ==
  ASSUME TypeOK, OnlyCommittedEventsAreSent, UNCHANGED attempts,
         \A c \in Cases : /\ DOMAIN log[c] \subseteq DOMAIN log'[c]
                          /\ \A i \in DOMAIN log[c] : log'[c][i] = log[c][i]
                          /\ lost'[c] \ lost[c] \subseteq DOMAIN log'[c] \ DOMAIN log[c]
  PROVE  /\ OnlyCommittedEventsAreSent'
         /\ \A c \in Cases : lost[c] \subseteq DOMAIN log[c] => lost'[c] \subseteq DOMAIN log'[c]
         /\ \A c \in Cases : \A i : Due(c, i) => Due(c, i)'
<1>1. \A c \in Cases : \A i \in DOMAIN log[c] : i \in lost'[c] => i \in lost[c]
  OBVIOUS
<1>2. OnlyCommittedEventsAreSent'
  BY <1>1 DEF OnlyCommittedEventsAreSent
<1>3. \A c \in Cases : \A i : Due(c, i) => Due(c, i)'
  BY <1>1 DEF Due, Attempted
<1> QED  BY <1>2, <1>3

(* Publishing an event that is due. *)
LEMMA PublishDue ==
  ASSUME TypeOK, OnlyCommittedEventsAreSent, NEW c \in Cases, NEW i \in Nat, Due(c, i),
         attempts' = [attempts EXCEPT ![c] = Append(@, i)], UNCHANGED <<log, lost>>
  PROVE  /\ OnlyCommittedEventsAreSent'
         /\ \A d \in Cases : \A j : Due(d, j) /\ <<d, j>> # <<c, i>> => Due(d, j)'
<1>1. attempts[c] \in Seq(Nat) /\ attempts'[c] = Append(attempts[c], i)
      /\ \A d \in Cases \ {c} : attempts'[d] = attempts[d]
  BY DEF TypeOK
<1>2. /\ DOMAIN attempts'[c] = DOMAIN attempts[c] \cup {Len(attempts[c]) + 1}
      /\ \A k \in DOMAIN attempts[c] : attempts'[c][k] = attempts[c][k]
      /\ attempts'[c][Len(attempts[c]) + 1] = i
  BY <1>1
<1>3. \A j : Attempted(c, j)' => Attempted(c, j) \/ j = i
  BY <1>2 DEF Attempted
<1>4. \A d \in Cases \ {c} : \A j : Attempted(d, j)' <=> Attempted(d, j)
  BY <1>1 DEF Attempted
<1>5. IsInjective(attempts'[c])
  <2>1. IsInjective(attempts[c]) /\ \A k \in DOMAIN attempts[c] : attempts[c][k] # i
    BY DEF OnlyCommittedEventsAreSent, Due, Attempted
  <2>2. /\ Len(attempts[c]) \in Nat /\ DOMAIN attempts[c] = 1..Len(attempts[c])
        /\ DOMAIN attempts'[c] = 1..(Len(attempts[c]) + 1)
    BY <1>1
  <2>3. \A k \in 1..Len(attempts[c]) :
          attempts'[c][k] = attempts[c][k] /\ attempts[c][k] # attempts'[c][Len(attempts[c]) + 1]
    BY <1>2, <2>1, <2>2
  <2> DEFINE s == attempts[c]
             t == attempts'[c]
  <2> HIDE DEF s, t
  <2>4. /\ Len(s) \in Nat /\ DOMAIN s = 1..Len(s) /\ DOMAIN t = 1..(Len(s) + 1)
        /\ \A k \in 1..Len(s) : t[k] = s[k] /\ s[k] # t[Len(s) + 1]
        /\ IsInjective(s)
    BY <2>1, <2>2, <2>3 DEF s, t
  <2>5. IsInjective(t)
    BY <2>4, NewKeepsInjective
  <2> QED  BY <2>5 DEF t
<1>6. OnlyCommittedEventsAreSent'
  BY <1>1, <1>2, <1>5 DEF OnlyCommittedEventsAreSent, Due
<1>7. ASSUME NEW d \in Cases, NEW j, Due(d, j), <<d, j>> # <<c, i>>
      PROVE  Due(d, j)'
  <2>1. ~Attempted(d, j)'
    BY <1>3, <1>4, <1>7 DEF Due
  <2> QED  BY <1>7, <2>1 DEF Due
<1> QED  BY <1>6, <1>7

(* A publisher dies: what it owed was due, and nobody will publish it.     *)
LEMMA LoseDue ==
  ASSUME TypeOK, OnlyCommittedEventsAreSent, UNCHANGED <<log, attempts>>,
         \A c \in Cases : lost[c] \subseteq DOMAIN log[c],
         \A c \in Cases : \A i \in lost'[c] \ lost[c] : Due(c, i)
  PROVE  /\ OnlyCommittedEventsAreSent'
         /\ \A c \in Cases : lost'[c] \subseteq DOMAIN log'[c]
         /\ \A c \in Cases : \A i : Due(c, i) /\ i \notin lost'[c] => Due(c, i)'
BY DEF OnlyCommittedEventsAreSent, Due, Attempted

-----------------------------------------------------------------------------
(* Each step keeps AttemptsInv *)

(* A visit collects one event at most, that of the row it locks. *)
LEMMA VisitPends ==
  ASSUME TypeOK, NEW c \in Cases, NEW t, Visited(c, t)
  PROVE  \/ t.pending = tx.pending
         \/ /\ c \notin Locked /\ c \in DOMAIN t.staged /\ t.staged[c].event.notify
            /\ t.pending = Append(tx.pending, <<c, Len(log[c]) + 1>>)
<1>1. CASE t = tx
  BY <1>1
<1>2. CASE c \notin Locked /\ Changes(c) /\ t = Staged(c, RowAfter(c), EventAfter(c))
  <2> DEFINE row == RowAfter(c)
             event == EventAfter(c)
  <2>1. row \in Row /\ event \in Event
    BY <1>2, AfterType
  <2> HIDE DEF row, event
  <2>2. t = Staged(c, row, event)
    BY <1>2 DEF row, event
  <2>3. /\ c \in DOMAIN t.staged
        /\ t.staged[c] = [row |-> row, event |-> event]
        /\ t.pending = IF event.notify THEN Append(tx.pending, <<c, Len(log[c]) + 1>>)
                                       ELSE tx.pending
    BY <2>1, <2>2, StagedFields
  <2>4. t.staged[c].event = event
    BY <2>3
  <2> QED  BY <1>2, <2>3, <2>4
<1> QED  BY <1>1, <1>2 DEF Visited

(* What a visit collects is the event of a row that it has locked. *)
LEMMA VisitCollects ==
  ASSUME TypeOK, StagedInv, NEW c \in Cases, NEW t, Visited(c, t), Collects(tx)
  PROVE  Collects(t)
<1>1. /\ Locked \subseteq DOMAIN t.staged
      /\ \A d \in Locked : t.staged[d] = tx.staged[d]
  BY VisitedFields
<1>2. CASE t.pending = tx.pending
  BY <1>1, <1>2 DEF Collects, Locked, Pending
<1>3. CASE /\ c \notin Locked /\ c \in DOMAIN t.staged /\ t.staged[c].event.notify
           /\ t.pending = Append(tx.pending, <<c, Len(log[c]) + 1>>)
  <2> DEFINE s == tx.pending
             u == t.pending
             n == Len(log[c]) + 1
             e == <<c, n>>
  <2>1. s \in Seq(Cases \X Nat) /\ n \in Nat /\ e \in Cases \X Nat
    BY Types DEF TypeOK, IsTransaction
  <2>2. \A k \in DOMAIN s : s[k] # e
    BY <1>3, <2>1 DEF Collects, Locked, Pending
  <2>3. u = Append(s, e)
    BY <1>3
  <2>4. IsInjective(s)
    BY DEF Collects
  <2> HIDE DEF s, u, e
  <2>5. /\ Len(s) \in Nat /\ DOMAIN s = 1..Len(s) /\ DOMAIN u = 1..(Len(s) + 1)
        /\ \A k \in 1..Len(s) : u[k] = s[k] /\ s[k] # u[Len(s) + 1]
        /\ u[Len(s) + 1] = e
    BY <2>1, <2>2, <2>3
  <2>6. IsInjective(u)
    BY <2>4, <2>5, NewKeepsInjective
  <2>7. ASSUME NEW d \in Cases, NEW i \in Nat, Pending(t, d, i)
        PROVE  Pending(tx, d, i) \/ (d = c /\ i = n)
    <3>1. PICK k \in DOMAIN u : u[k] = <<d, i>>
      BY <2>7 DEF Pending, u
    <3>2. CASE k \in DOMAIN s
      BY <2>5, <3>1, <3>2 DEF Pending, s
    <3>3. CASE k \notin DOMAIN s
      <4>1. <<d, i>> = <<c, n>>
        BY <2>5, <3>1, <3>3 DEF e
      <4> QED  BY <4>1
    <3> QED  BY <3>2, <3>3
  <2>8. ASSUME NEW d \in Cases, NEW i \in Nat, Pending(t, d, i)
        PROVE  d \in DOMAIN t.staged /\ i = Len(log[d]) + 1 /\ t.staged[d].event.notify
    <3>1. CASE Pending(tx, d, i)
      BY <1>1, <3>1 DEF Collects, Locked
    <3>2. CASE d = c /\ i = n
      BY <1>3, <3>2
    <3> QED  BY <2>7, <2>8, <3>1, <3>2
  <2> QED  BY <2>6, <2>8 DEF Collects, u
<1> QED  BY <1>2, <1>3, VisitPends

(* What the other publishers owe is not a matter of the collector, unless  *)
(* it is flushed.                                                          *)
LEMMA OwedAsBefore ==
  ASSUME AttemptsInv, UNCHANGED <<log, request, attempts, refusals, lost>>
  PROVE  /\ OnlyCommittedEventsAreSent' /\ \A c \in Cases : lost'[c] \subseteq DOMAIN log'[c]
         /\ \A c, i : Due(c, i)' <=> Due(c, i)
         /\ \A o \in Operators, c \in Cases, i \in Nat : Owes(o, c, i)' =>
              Owes(o, c, i) /\ Due(c, i)' /\ \A p \in Operators \ {o} : ~Owes(p, c, i)'
<1>1. \A c, i : Due(c, i)' <=> Due(c, i)
  BY DEF Due, Attempted
<1>2. \A o, c, i : Owes(o, c, i)' <=> Owes(o, c, i)
  BY DEF Owes
<1> QED  BY <1>1, <1>2 DEF AttemptsInv, OnlyCommittedEventsAreSent

(* The visits collect events of rows they have locked. *)
LEMMA VisitsKeepAttemptsInv ==
  ASSUME TypeOK, StagedInv, AttemptsInv,
         \/ \E f \in Fingerprints : DriveOutcome(f)
         \/ \E f \in Fingerprints \cup {EngineError} : Sweep(f)
         \/ EngineErrorAlert
  PROVE  AttemptsInv'
<1>1. ASSUME NEW c \in Cases, VisitStep(c), tx.phase # "flush", tx'.phase # "flush"
      PROVE  AttemptsInv'
  <2>1. PICK t : /\ Visited(c, t) /\ tx'.staged = t.staged /\ tx'.pending = t.pending
    BY <1>1 DEF VisitStep
  <2>2. UNCHANGED <<log, request, attempts, refusals, lost>>
    BY <1>1 DEF VisitStep
  <2>3. Collects(t)
    BY <1>1, <2>1, VisitCollects DEF AttemptsInv
  <2>4. Collects(tx)'
    BY <2>1, <2>2, <2>3 DEF Collects, Pending
  <2> QED  BY <1>1, <2>2, <2>4, OwedAsBefore DEF AttemptsInv
<1>2. ASSUME NEW f \in Fingerprints, DriveOutcome(f)
      PROVE  AttemptsInv'
  BY <1>1, <1>2, DriveOutcomeVisits, CasesOfPeriod DEF DriveOutcome
<1>3. ASSUME NEW f \in Fingerprints \cup {EngineError}, Sweep(f)
      PROVE  AttemptsInv'
  BY <1>1, <1>3, SweepVisits, CasesOfPeriod DEF Sweep
<1>4. ASSUME EngineErrorAlert
      PROVE  AttemptsInv'
  BY <1>1, <1>4, EngineErrorVisits, CasesOfPeriod DEF Begun
<1> QED  BY <1>2, <1>3, <1>4

(* Before and after the loops nothing is collected or published. *)
LEMMA EndsKeepAttemptsInv ==
  ASSUME TypeOK, StagedInv, AttemptsInv,
         Read \/ Begin \/ ListActive \/ Rollback \/ Tick \/ UNCHANGED vars
  PROVE  AttemptsInv'
<1>1. UNCHANGED <<log, request, attempts, refusals, lost>>
  BY DEF Read, Begin, ListActive, Rollback, Tick, vars, txVars, Atomic!Tick, Atomic!ReadSources,
         Atomic!ReadFails, Atomic!AbortEvaluation
<1>2. CASE tx' = tx
  <2>1. (Collects(tx) => Collects(tx)') /\ (Flushes(tx) => Flushes(tx)')
        /\ \A c, i : Pending(tx, c, i)' <=> Pending(tx, c, i)
    BY <1>1, <1>2, OwedAsBefore DEF Collects, Flushes, Pending
  <2> QED  BY <1>1, <1>2, <2>1, OwedAsBefore DEF AttemptsInv
<1>3. CASE tx'.phase # "flush" /\ tx'.pending = << >>
  <2>1. Collects(tx)'
    BY <1>3 DEF Collects, IsInjective, Pending
  <2> QED  BY <1>1, <1>3, <2>1, OwedAsBefore DEF AttemptsInv
<1>4. CASE Begin
  <2>1. tx'.phase # "flush" /\ tx'.pending = << >>
    BY <1>4, NoTxFields DEF Begin, NoTx
  <2> QED  BY <1>3, <2>1
<1>5. CASE ListActive
  <2> DEFINE listed == {f \in (Fingerprints \cup {EngineError}) \ Outcomes :
                          Active(Visible(<<f, evaluation.period>>))}
  <2>1. tx' = [tx EXCEPT !.phase = "sweep", !.todo = listed] /\ tx.phase = "outcomes"
    BY <1>5 DEF ListActive
  <2> HIDE DEF listed
  <2>2. tx'.phase = "sweep" /\ tx'.pending = tx.pending /\ tx'.staged = tx.staged
    BY <2>1 DEF TypeOK, IsTransaction
  <2>3. Collects(tx)'
    BY <1>1, <2>1, <2>2 DEF Collects, Pending, AttemptsInv
  <2> QED  BY <1>1, <2>2, <2>3, OwedAsBefore DEF AttemptsInv
<1>6. CASE Rollback
  BY <1>3, <1>6, NoTxFields DEF Rollback
<1> QED  BY <1>2, <1>4, <1>5, <1>6 DEF Read, Tick, vars, txVars

(* At the commit the collected events enter the log.                       *)
LEMMA InstalledLog ==
  ASSUME TypeOK, InstallRows, NEW c \in Cases
  PROVE  /\ DOMAIN log[c] = 1..Len(log[c]) /\ DOMAIN log[c] \subseteq DOMAIN log'[c]
         /\ \A i \in DOMAIN log[c] : log'[c][i] = log[c][i]
         /\ c \in Locked => /\ Len(log[c]) + 1 \in DOMAIN log'[c]
                            /\ log'[c][Len(log[c]) + 1] = tx.staged[c].event
                            /\ Len(log[c]) + 1 \notin DOMAIN log[c]
<1>1. log' = [d \in Cases |->
                IF d \in Locked THEN Append(log[d], tx.staged[d].event) ELSE log[d]]
  BY DEF InstallRows
<1>2. log[c] \in Seq(Event) /\ (c \in Locked => tx.staged[c].event \in Event)
  BY Types
<1> QED  BY <1>1, <1>2

(* They become due, and nobody else can owe them.                          *)
LEMMA CommitKeepsAttemptsInv ==
  ASSUME TypeOK, StagedInv, AttemptsInv, Commit
  PROVE  AttemptsInv'
<1>1. /\ tx.phase = "commit" /\ InstallRows
      /\ tx' = [NoTx EXCEPT !.phase = IF tx.pending = << >> THEN "none" ELSE "flush",
                            !.pending = tx.pending]
      /\ UNCHANGED <<now, request, attempts, refusals, lost>>
  BY DEF Commit, InstallRows
<1>2. /\ tx'.pending = tx.pending
      /\ tx'.phase = IF tx.pending = << >> THEN "none" ELSE "flush"
  BY <1>1 DEF NoTx
<1>3. ASSUME NEW c \in Cases
      PROVE  /\ DOMAIN log[c] = 1..Len(log[c]) /\ DOMAIN log[c] \subseteq DOMAIN log'[c]
             /\ \A i \in DOMAIN log[c] : log'[c][i] = log[c][i]
             /\ c \in Locked => /\ Len(log[c]) + 1 \in DOMAIN log'[c]
                                /\ log'[c][Len(log[c]) + 1] = tx.staged[c].event
                                /\ Len(log[c]) + 1 \notin DOMAIN log[c]
  BY <1>1, InstalledLog
<1>4. /\ OnlyCommittedEventsAreSent'
      /\ \A c \in Cases : lost'[c] \subseteq DOMAIN log'[c]
      /\ \A c \in Cases : \A i : Due(c, i) => Due(c, i)'
  BY <1>1, <1>3, LogGrows DEF AttemptsInv
<1>5. Collects(tx) /\ Locked \subseteq Cases
  BY <1>1, Types DEF AttemptsInv
<1>6. ASSUME NEW c \in Cases, NEW i \in Nat, Pending(tx, c, i)
      PROVE  Due(c, i)' /\ ~Due(c, i)
  <2>1. c \in Locked /\ i = Len(log[c]) + 1 /\ tx.staged[c].event.notify
    BY <1>5, <1>6 DEF Collects, Locked
  <2>2. i \in DOMAIN log'[c] /\ log'[c][i].notify /\ i \notin DOMAIN log[c]
    BY <1>3, <2>1
  <2>3. ~Attempted(c, i) /\ i \notin lost[c]
    BY <2>2 DEF AttemptsInv, OnlyCommittedEventsAreSent, Attempted
  <2> QED  BY <1>1, <2>2, <2>3 DEF Due, Attempted
<1>7. ASSUME NEW o \in Operators, NEW c \in Cases, NEW i \in Nat, Owes(o, c, i)'
      PROVE  /\ Due(c, i)' /\ ~Pending(tx, c, i)
             /\ \A p \in Operators \ {o} : ~Owes(p, c, i)'
  <2>1. \A p : Owes(p, c, i)' <=> Owes(p, c, i)
    BY <1>1 DEF Owes
  <2>2. Due(c, i) /\ \A p \in Operators \ {o} : ~Owes(p, c, i)
    BY <1>7, <2>1 DEF AttemptsInv
  <2> QED  BY <1>4, <1>6, <2>1, <2>2
<1>8. \A c, i : Pending(tx, c, i)' <=> Pending(tx, c, i)
  BY <1>2 DEF Pending
<1>9. IF tx'.phase = "flush" THEN Flushes(tx)' ELSE Collects(tx)'
  <2>1. CASE tx.pending = << >>
    BY <1>2, <2>1 DEF Collects, IsInjective, Pending
  <2>2. CASE tx.pending # << >>
    BY <1>2, <1>5, <1>6, <1>8, <2>2 DEF Collects, Flushes
  <2> QED  BY <2>1, <2>2
<1> QED  BY <1>4, <1>7, <1>8, <1>9 DEF AttemptsInv

(* If its answer does not come they are lost at once, and were nobody      *)
(* else's to publish.                                                      *)
LEMMA UnansweredKeepsAttemptsInv ==
  ASSUME TypeOK, StagedInv, AttemptsInv, CommitUnanswered
  PROVE  AttemptsInv'
<1>1. /\ tx.phase = "commit" /\ InstallRows /\ tx' = NoTx /\ Lose(ToSet(tx.pending))
      /\ UNCHANGED <<request, attempts>>
  BY DEF CommitUnanswered, InstallRows
<1>2. Collects(tx) /\ tx.pending \in Seq(Cases \X Nat)
  BY <1>1 DEF AttemptsInv, TypeOK, IsTransaction
<1>3. ASSUME NEW c \in Cases, NEW i \in lost'[c] \ lost[c]
      PROVE  i \in DOMAIN log'[c] \ DOMAIN log[c]
  <2>1. ToSet(tx.pending) \in SUBSET (Cases \X Nat)
    BY <1>2 DEF ToSet
  <2>2. i \in Nat /\ <<c, i>> \in ToSet(tx.pending)
    BY <1>1, <2>1, LostType
  <2>3. Pending(tx, c, i)
    BY <2>2 DEF Pending, ToSet
  <2>4. c \in Locked /\ i = Len(log[c]) + 1
    BY <1>2, <2>2, <2>3 DEF Collects, Locked
  <2> QED  BY <1>1, <2>4, InstalledLog
<1>4. /\ OnlyCommittedEventsAreSent'
      /\ \A c \in Cases : lost'[c] \subseteq DOMAIN log'[c]
      /\ \A c \in Cases : \A i : Due(c, i) => Due(c, i)'
  <2>1. \A c \in Cases : /\ DOMAIN log[c] \subseteq DOMAIN log'[c]
                         /\ \A i \in DOMAIN log[c] : log'[c][i] = log[c][i]
                         /\ lost'[c] \ lost[c] \subseteq DOMAIN log'[c] \ DOMAIN log[c]
    BY <1>1, <1>3, InstalledLog
  <2> QED  BY <1>1, <2>1, LogGrows DEF AttemptsInv
<1>5. \A o, c, i : Owes(o, c, i)' <=> Owes(o, c, i)
  BY <1>1 DEF Owes
<1>6. tx'.phase # "flush" /\ Collects(tx)'
  BY <1>1, NoTxFields DEF Collects, IsInjective, Pending
<1> QED  BY <1>4, <1>5, <1>6 DEF AttemptsInv

(* An operator's event is new, so nobody else owes it. *)
LEMMA ApplyKeepsAttemptsInv ==
  ASSUME TypeOK, StagedInv, RequestInv, AttemptsInv, NEW o \in Operators, Apply(o)
  PROVE  AttemptsInv'
<1> DEFINE c == request[o].case
           n == Len(log[c]) + 1
<1>1. /\ c \in Cases /\ c \notin Locked /\ UNCHANGED <<tx, attempts, lost>>
      /\ request' = [request EXCEPT ![o] = ToPublish(c)]
      /\ ToPublish(c).pc = "publish" /\ ToPublish(c).case = c /\ ToPublish(c).event = n
      /\ \E row, event : OperatorMove(c, row, event)
  BY ApplyMoves, PublishFields DEF Apply
<1>2. PICK row, event : OperatorMove(c, row, event)
  BY <1>1
<1>3. event \in Event /\ event.notify /\ log' = [log EXCEPT ![c] = Append(@, event)]
  BY <1>1, <1>2, MoveType, Types DEF OperatorMove
<1>4. /\ log[c] \in Seq(Event) /\ log'[c] = Append(log[c], event)
      /\ \A d \in Cases \ {c} : log'[d] = log[d]
  BY <1>1, <1>3, Types
<1>5. /\ DOMAIN log[c] = 1..Len(log[c]) /\ DOMAIN log[c] \subseteq DOMAIN log'[c]
      /\ \A i \in DOMAIN log[c] : log'[c][i] = log[c][i]
      /\ n \in DOMAIN log'[c] /\ log'[c][n] = event /\ n \notin DOMAIN log[c]
  BY <1>3, <1>4
<1>6. PICK d, m : d = c /\ m = n
  OBVIOUS
<1> HIDE DEF c, n
<1>7. /\ OnlyCommittedEventsAreSent'
      /\ \A b \in Cases : lost'[b] \subseteq DOMAIN log'[b]
      /\ \A b \in Cases : \A i : Due(b, i) => Due(b, i)'
  <2>1. \A b \in Cases : /\ DOMAIN log[b] \subseteq DOMAIN log'[b]
                         /\ \A i \in DOMAIN log[b] : log'[b][i] = log[b][i]
    BY <1>4, <1>5
  <2>2. \A b \in Cases : lost'[b] \ lost[b] = {}
    BY <1>1
  <2> QED  BY <1>1, <2>1, <2>2, LogGrows DEF AttemptsInv
<1>8. d \in Cases /\ Due(d, m)' /\ ~Due(d, m)
  <2>1. m \in DOMAIN log'[d] /\ log'[d][m].notify /\ m \notin DOMAIN log[d] /\ d \in Cases
    BY <1>1, <1>3, <1>5, <1>6
  <2>2. ~Attempted(d, m) /\ m \notin lost[d]
    BY <2>1 DEF Attempted, AttemptsInv, OnlyCommittedEventsAreSent
  <2> QED  BY <1>1, <2>1, <2>2 DEF Due, Attempted
<1>9. ASSUME NEW p \in Operators, NEW b \in Cases, NEW i \in Nat
      PROVE  Owes(p, b, i)' <=> IF p = o THEN b = d /\ i = m ELSE Owes(p, b, i)
  <2>1. request'[p] = IF p = o THEN ToPublish(c) ELSE request[p]
    BY <1>1 DEF TypeOK
  <2> QED  BY <1>1, <1>6, <2>1 DEF Owes
<1>10. \A b, i : Pending(tx, b, i)' <=> Pending(tx, b, i)
  BY <1>1 DEF Pending
<1>11. ASSUME NEW p \in Operators, NEW b \in Cases, NEW i \in Nat, Owes(p, b, i)'
       PROVE  /\ Due(b, i)'
              /\ \A q \in Operators \ {p} : ~Owes(q, b, i)'
              /\ tx.phase = "flush" => ~Pending(tx, b, i)
  <2>1. CASE p = o
    BY <2>1, <1>8, <1>9, <1>11 DEF AttemptsInv, Flushes
  <2>2. CASE p # o
    <3>1. Due(b, i) /\ ~(b = d /\ i = m)
      BY <1>8, <1>9, <1>11, <2>2 DEF AttemptsInv
    <3> QED  BY <1>7, <1>9, <1>11, <2>2, <3>1 DEF AttemptsInv
  <2> QED  BY <2>1, <2>2
<1>12. IF tx.phase = "flush" THEN Flushes(tx)' ELSE Collects(tx)'
  <2>1. CASE tx.phase = "flush"
    BY <1>1, <1>7, <1>10, <2>1 DEF AttemptsInv, Flushes
  <2>2. CASE tx.phase # "flush"
    BY <1>1, <1>4, <1>10, <2>2 DEF AttemptsInv, Collects, Locked
  <2> QED  BY <2>1, <2>2
<1> QED  BY <1>1, <1>7, <1>10, <1>11, <1>12 DEF AttemptsInv

(* Nor can anybody owe it when the answer to the commit is lost.           *)
LEMMA ApplyUnansweredKeepsAttemptsInv ==
  ASSUME TypeOK, StagedInv, RequestInv, AttemptsInv, NEW o \in Operators, ApplyUnanswered(o)
  PROVE  AttemptsInv'
<1> DEFINE c == request[o].case
           n == Len(log[c]) + 1
<1>1. /\ c \in Cases /\ c \notin Locked /\ UNCHANGED <<tx, attempts>>
      /\ \E row, event : OperatorMove(c, row, event)
  BY ApplyMoves
<1>2. /\ request' = [request EXCEPT ![o] = NoRequest] /\ Lose({<<c, n>>})
      /\ request[o].pc = "waiting"
  BY DEF ApplyUnanswered
<1>3. PICK row, event : OperatorMove(c, row, event)
  BY <1>1
<1>4. event \in Event /\ log' = [log EXCEPT ![c] = Append(@, event)]
  BY <1>1, <1>3, MoveType, Types DEF OperatorMove
<1>5. /\ log[c] \in Seq(Event) /\ log'[c] = Append(log[c], event)
      /\ \A d \in Cases \ {c} : log'[d] = log[d]
  BY <1>1, <1>4, Types
<1>6. /\ n \in Nat /\ DOMAIN log[c] \subseteq DOMAIN log'[c]
      /\ \A i \in DOMAIN log[c] : log'[c][i] = log[c][i]
      /\ n \in DOMAIN log'[c] \ DOMAIN log[c]
  BY <1>4, <1>5
<1> HIDE DEF c, n
<1>7. \A b \in Cases : lost'[b] \ lost[b] \subseteq DOMAIN log'[b] \ DOMAIN log[b]
  <2>1. {<<c, n>>} \in SUBSET (Cases \X Nat)
    BY <1>1, <1>6
  <2>2. \A b \in Cases : \A i \in lost'[b] \ lost[b] : <<b, i>> \in {<<c, n>>}
    BY <1>2, <2>1, LostType
  <2> QED  BY <1>6, <2>2
<1>8. /\ OnlyCommittedEventsAreSent'
      /\ \A b \in Cases : lost'[b] \subseteq DOMAIN log'[b]
      /\ \A b \in Cases : \A i : Due(b, i) => Due(b, i)'
  <2>1. \A b \in Cases : /\ DOMAIN log[b] \subseteq DOMAIN log'[b]
                         /\ \A i \in DOMAIN log[b] : log'[b][i] = log[b][i]
    BY <1>5, <1>6
  <2> QED  BY <1>1, <1>7, <2>1, LogGrows DEF AttemptsInv
<1>9. \A p \in Operators : \A b, i : Owes(p, b, i)' <=> Owes(p, b, i)
  <2>1. \A p \in Operators : request'[p] = IF p = o THEN NoRequest ELSE request[p]
    BY <1>2 DEF TypeOK
  <2> QED  BY <1>2, <2>1 DEF Owes, NoRequest
<1>10. \A b, i : Pending(tx, b, i)' <=> Pending(tx, b, i)
  BY <1>1 DEF Pending
<1>11. ASSUME NEW p \in Operators, NEW b \in Cases, NEW i \in Nat, Owes(p, b, i)'
       PROVE  /\ Due(b, i)'
              /\ \A q \in Operators \ {p} : ~Owes(q, b, i)'
              /\ tx.phase = "flush" => ~Pending(tx, b, i)
  BY <1>8, <1>9, <1>11 DEF AttemptsInv
<1>12. IF tx.phase = "flush" THEN Flushes(tx)' ELSE Collects(tx)'
  <2>1. CASE tx.phase = "flush"
    BY <1>1, <1>8, <1>10, <2>1 DEF AttemptsInv, Flushes
  <2>2. CASE tx.phase # "flush"
    BY <1>1, <1>5, <1>10, <2>2 DEF AttemptsInv, Collects, Locked
  <2> QED  BY <2>1, <2>2
<1> QED  BY <1>1, <1>8, <1>10, <1>11, <1>12 DEF AttemptsInv

(* flushAlertEvents publishes the first event that is pending, and forgets *)
(* it: the others are different events.                                    *)
LEMMA FlushKeepsAttemptsInv ==
  ASSUME TypeOK, StagedInv, AttemptsInv, FlushAlertEvents
  PROVE  AttemptsInv'
<1>1. /\ tx.phase = "flush" /\ UNCHANGED <<log, request, lost>>
      /\ attempts' = [attempts EXCEPT ![Head(tx.pending)[1]] = Append(@, Head(tx.pending)[2])]
      /\ tx' = IF Len(tx.pending) = 1 THEN NoTx ELSE [tx EXCEPT !.pending = Tail(@)]
  BY DEF FlushAlertEvents, Publish
<1>2. Flushes(tx)
  BY <1>1 DEF AttemptsInv
<1>3. tx.pending \in Seq(Cases \X Nat) /\ tx.pending # << >>
  BY <1>2 DEF TypeOK, IsTransaction, Flushes
<1>4. PICK c \in Cases, i \in Nat : Head(tx.pending) = <<c, i>>
  BY <1>3
<1>5. Head(tx.pending)[1] = c /\ Head(tx.pending)[2] = i
  BY <1>4
<1>6. attempts' = [attempts EXCEPT ![c] = Append(@, i)]
  BY <1>1, <1>5
<1>7. Pending(tx, c, i) /\ Due(c, i)
  <2>1. 1 \in DOMAIN tx.pending /\ tx.pending[1] = <<c, i>>
    BY <1>3, <1>4
  <2> QED  BY <1>2, <2>1 DEF Pending, Flushes
<1>8. /\ OnlyCommittedEventsAreSent'
      /\ \A d \in Cases : \A j : Due(d, j) /\ <<d, j>> # <<c, i>> => Due(d, j)'
  BY <1>1, <1>6, <1>7, PublishDue DEF AttemptsInv
<1>9. \A o, d, j : Owes(o, d, j)' <=> Owes(o, d, j)
  BY <1>1 DEF Owes
<1>10. ASSUME NEW o \in Operators, NEW d \in Cases, NEW j \in Nat, Owes(o, d, j)
       PROVE  Due(d, j)' /\ (\A p \in Operators \ {o} : ~Owes(p, d, j)) /\ ~Pending(tx, d, j)
  <2>1. ~Pending(tx, d, j) /\ Due(d, j) /\ \A p \in Operators \ {o} : ~Owes(p, d, j)
    BY <1>1, <1>10 DEF AttemptsInv
  <2>2. <<d, j>> # <<c, i>>
    BY <1>7, <2>1
  <2> QED  BY <1>8, <2>1, <2>2
<1>11. CASE Len(tx.pending) = 1
  <2>1. tx' = NoTx
    BY <1>1, <1>11
  <2>2. tx'.phase # "flush" /\ Collects(tx)'
    BY <2>1, NoTxFields DEF Collects, IsInjective, Pending
  <2> QED  BY <1>1, <1>8, <1>9, <1>10, <2>2 DEF AttemptsInv
<1>12. CASE Len(tx.pending) # 1
  <2> DEFINE s == tx.pending
             u == Tail(tx.pending)
  <2>1. u \in Seq(Cases \X Nat) /\ u # << >>
    <3>1. u \in Seq(Cases \X Nat) /\ Len(u) = Len(s) - 1
      BY <1>3
    <3>2. Len(s) \in Nat /\ Len(s) # 0 /\ Len(s) # 1
      BY <1>3, <1>12
    <3>3. Len(u) # 0
      BY <3>1, <3>2
    <3>4. \A v : Len(v) # 0 => v # << >>
      OBVIOUS
    <3> HIDE DEF u
    <3> QED  BY <3>1, <3>3, <3>4
  <2>2. IsInjective(s)
    BY <1>2 DEF Flushes
  <2>3. /\ IsInjective(u)
        /\ \A k \in DOMAIN u : u[k] # Head(s) /\ \E j \in DOMAIN s : s[j] = u[k]
    BY <1>3, <2>2, TailKeepsInjective
  <2>4. tx' = [tx EXCEPT !.pending = u]
    BY <1>1, <1>12
  <2> HIDE DEF s, u
  <2>5. tx'.pending = u /\ tx'.phase = "flush"
    BY <1>1, <2>4 DEF TypeOK, IsTransaction
  <2>6. ASSUME NEW d \in Cases, NEW j \in Nat, Pending(tx, d, j)'
        PROVE  Pending(tx, d, j) /\ <<d, j>> # <<c, i>>
    <3>1. PICK k \in DOMAIN u : u[k] = <<d, j>>
      BY <2>5, <2>6 DEF Pending
    <3> QED  BY <1>4, <2>3, <3>1 DEF Pending, s
  <2>7. Flushes(tx)'
    BY <1>2, <1>8, <2>1, <2>3, <2>5, <2>6 DEF Flushes
  <2> QED  BY <1>1, <1>8, <1>9, <1>10, <2>5, <2>6, <2>7 DEF AttemptsInv
<1> QED  BY <1>11, <1>12

(* A process that dies after its commit loses what it had to flush, which  *)
(* no request has to publish.                                              *)
LEMMA DieFlushingKeepsAttemptsInv ==
  ASSUME TypeOK, StagedInv, AttemptsInv, DieFlushing
  PROVE  AttemptsInv'
<1>1. /\ tx.phase = "flush" /\ UNCHANGED <<log, request, attempts>> /\ tx' = NoTx
      /\ Lose(ToSet(tx.pending))
  BY DEF DieFlushing
<1>2. tx.pending \in Seq(Cases \X Nat) /\ Flushes(tx)
  BY <1>1 DEF TypeOK, IsTransaction, AttemptsInv
<1>3. ASSUME NEW c \in Cases, NEW i \in lost'[c] \ lost[c]
      PROVE  i \in Nat /\ Pending(tx, c, i)
  <2>1. ToSet(tx.pending) \in SUBSET (Cases \X Nat)
    BY <1>2 DEF ToSet
  <2>2. i \in Nat /\ <<c, i>> \in ToSet(tx.pending)
    BY <1>1, <2>1, LostType
  <2> QED  BY <2>2 DEF Pending, ToSet
<1>4. /\ OnlyCommittedEventsAreSent'
      /\ \A c \in Cases : lost'[c] \subseteq DOMAIN log'[c]
      /\ \A c \in Cases : \A i : Due(c, i) /\ i \notin lost'[c] => Due(c, i)'
  <2>1. \A c \in Cases : \A i \in lost'[c] \ lost[c] : Due(c, i)
    BY <1>2, <1>3 DEF Flushes
  <2> QED  BY <1>1, <2>1, LoseDue DEF AttemptsInv
<1>5. \A o, c, i : Owes(o, c, i)' <=> Owes(o, c, i)
  BY <1>1 DEF Owes
<1>6. ASSUME NEW o \in Operators, NEW c \in Cases, NEW i \in Nat, Owes(o, c, i)
      PROVE  Due(c, i)' /\ \A p \in Operators \ {o} : ~Owes(p, c, i)
  <2>1. ~Pending(tx, c, i) /\ Due(c, i) /\ \A p \in Operators \ {o} : ~Owes(p, c, i)
    BY <1>1, <1>6 DEF AttemptsInv
  <2>2. i \notin lost'[c]
    BY <1>3, <2>1 DEF Due
  <2> QED  BY <1>4, <2>1, <2>2
<1>7. tx'.phase # "flush" /\ Collects(tx)'
  BY <1>1, NoTxFields DEF Collects, IsInjective, Pending
<1> QED  BY <1>4, <1>5, <1>6, <1>7 DEF AttemptsInv

(* A request that is done with its event, because it is published or       *)
(* because the process is dead, leaves the others what they owe.           *)
LEMMA DoneKeepsAttemptsInv ==
  ASSUME TypeOK, AttemptsInv, NEW o \in Operators, NEW c \in Cases, NEW i \in Nat, Owes(o, c, i),
         request' = [request EXCEPT ![o] = NoRequest], UNCHANGED <<log, tx>>,
         OnlyCommittedEventsAreSent', \A d \in Cases : lost'[d] \subseteq DOMAIN log'[d],
         \A d \in Cases : \A j : Due(d, j) /\ <<d, j>> # <<c, i>> => Due(d, j)'
  PROVE  AttemptsInv'
<1>1. ASSUME NEW p \in Operators, NEW d \in Cases, NEW j \in Nat
      PROVE  Owes(p, d, j)' <=> p # o /\ Owes(p, d, j)
  <2>1. request'[p] = IF p = o THEN NoRequest ELSE request[p]
    BY DEF TypeOK
  <2> QED  BY <2>1 DEF Owes, NoRequest
<1>2. \A d, j : Pending(tx, d, j)' <=> Pending(tx, d, j)
  BY DEF Pending
<1>3. ASSUME NEW p \in Operators, NEW d \in Cases, NEW j \in Nat, Owes(p, d, j)'
      PROVE  /\ Due(d, j)'
             /\ \A q \in Operators \ {p} : ~Owes(q, d, j)'
             /\ tx.phase = "flush" => ~Pending(tx, d, j)
  <2>1. /\ Due(d, j) /\ \A q \in Operators \ {p} : ~Owes(q, d, j)
        /\ tx.phase = "flush" => ~Pending(tx, d, j)
    BY <1>1, <1>3 DEF AttemptsInv
  <2>2. <<d, j>> # <<c, i>>
    BY <1>1, <1>3, <2>1
  <2> QED  BY <1>1, <2>1, <2>2
<1>4. CASE tx.phase = "flush"
  <2>1. Flushes(tx) /\ ~Pending(tx, c, i)
    BY <1>4 DEF AttemptsInv
  <2>2. \A d \in Cases, j \in Nat : Pending(tx, d, j) => Due(d, j)'
    <3> TAKE d \in Cases, j \in Nat
    <3> HAVE Pending(tx, d, j)
    <3>1. Due(d, j) /\ <<d, j>> # <<c, i>>
      BY <2>1 DEF Flushes
    <3> QED  BY <3>1
  <2>3. Flushes(tx)'
    BY <1>2, <2>1, <2>2 DEF Flushes
  <2> QED  BY <1>2, <1>3, <1>4, <2>3 DEF AttemptsInv
<1>5. CASE tx.phase # "flush"
  <2>1. Collects(tx)'
    BY <1>2, <1>5 DEF AttemptsInv, Collects
  <2> QED  BY <1>3, <1>5, <2>1 DEF AttemptsInv
<1> QED  BY <1>4, <1>5

(* The other steps of a request. *)
LEMMA RequestsKeepAttemptsInv ==
  ASSUME TypeOK, AttemptsInv, NEW o \in Operators,
         \/ \E c \in Cases, op \in Manual, until \in 0..MaxClock : Receive(o, c, op, until)
         \/ Refuse(o) \/ PublishRequest(o) \/ Die(o)
  PROVE  AttemptsInv'
<1>1. ASSUME NEW r, request' = [request EXCEPT ![o] = r], r.pc # "publish",
             request[o].pc # "publish", UNCHANGED <<log, tx, attempts, refusals, lost>>
      PROVE  AttemptsInv'
  <2>1. ASSUME NEW p \in Operators, NEW d \in Cases, NEW j \in Nat
        PROVE  Owes(p, d, j)' <=> Owes(p, d, j)
    <3>1. request'[p] = IF p = o THEN r ELSE request[p]
      BY <1>1 DEF TypeOK
    <3> QED  BY <1>1, <3>1 DEF Owes
  <2>2. /\ \A d, j : (Pending(tx, d, j)' <=> Pending(tx, d, j)) /\ (Due(d, j)' <=> Due(d, j))
        /\ OnlyCommittedEventsAreSent'
    BY <1>1 DEF Pending, Due, Attempted, AttemptsInv, OnlyCommittedEventsAreSent
  <2>3. (Collects(tx) => Collects(tx)') /\ (Flushes(tx) => Flushes(tx)')
    BY <1>1, <2>2 DEF Collects, Flushes
  <2> QED  BY <1>1, <2>1, <2>2, <2>3 DEF AttemptsInv
<1>2. NoRequest.pc = "none"
  BY DEF NoRequest
<1>3. CASE \E c \in Cases, op \in Manual, until \in 0..MaxClock : Receive(o, c, op, until)
  <2>1. PICK c \in Cases, op \in Manual, until \in 0..MaxClock : Receive(o, c, op, until)
    BY <1>3
  <2> DEFINE at == IF op = "snooze" THEN now ELSE 0
             r == [NoRequest EXCEPT !.pc = "waiting", !.case = c, !.op = op,
                                    !.until = until, !.at = at]
  <2>2. request' = [request EXCEPT ![o] = r] /\ UNCHANGED <<log, tx, attempts, refusals, lost>>
        /\ request[o] = NoRequest
    BY <2>1 DEF Receive
  <2> HIDE DEF at
  <2>3. r.pc = "waiting"
    BY DEF NoRequest
  <2> HIDE DEF r
  <2> QED  BY <1>1, <1>2, <2>2, <2>3
<1>4. CASE Refuse(o)
  BY <1>1, <1>2, <1>4 DEF Refuse
<1>5. CASE Die(o) /\ request[o].pc # "publish"
  BY <1>1, <1>2, <1>5 DEF Die
<1>6. CASE (PublishRequest(o) \/ Die(o)) /\ request[o].pc = "publish"
  <2>1. PICK c \in Cases, i \in Nat : request[o].case = c /\ request[o].event = i
    BY DEF TypeOK, Request
  <2>2. Owes(o, c, i) /\ Due(c, i)
    BY <1>6, <2>1 DEF Owes, AttemptsInv
  <2>3. request' = [request EXCEPT ![o] = NoRequest] /\ UNCHANGED <<log, tx>>
    BY <1>6 DEF PublishRequest, Die
  <2>4. CASE PublishRequest(o)
    <3>1. attempts' = [attempts EXCEPT ![c] = Append(@, i)] /\ lost' = lost
      BY <2>1, <2>4 DEF PublishRequest, Publish
    <3>2. /\ OnlyCommittedEventsAreSent'
          /\ \A d \in Cases : \A j : Due(d, j) /\ <<d, j>> # <<c, i>> => Due(d, j)'
      BY <2>2, <2>3, <3>1, PublishDue DEF AttemptsInv
    <3>3. \A d \in Cases : lost'[d] \subseteq DOMAIN log'[d]
      BY <2>3, <3>1 DEF AttemptsInv
    <3> QED  BY <2>2, <2>3, <3>2, <3>3, DoneKeepsAttemptsInv
  <2>5. CASE Die(o)
    <3>1. lost' = [lost EXCEPT ![c] = @ \cup {i}] /\ attempts' = attempts
      BY <1>6, <2>1, <2>5 DEF Die
    <3>2. \A d \in Cases : lost'[d] = IF d = c THEN lost[d] \cup {i} ELSE lost[d]
      BY <3>1 DEF TypeOK
    <3>3. \A d \in Cases : \A j \in lost'[d] \ lost[d] : Due(d, j)
      BY <2>2, <3>2
    <3>4. /\ OnlyCommittedEventsAreSent'
          /\ \A d \in Cases : lost'[d] \subseteq DOMAIN log'[d]
          /\ \A d \in Cases : \A j : Due(d, j) /\ j \notin lost'[d] => Due(d, j)'
      BY <2>3, <3>1, <3>3, LoseDue DEF AttemptsInv
    <3>5. \A d \in Cases : \A j : Due(d, j) /\ <<d, j>> # <<c, i>> => Due(d, j)'
      BY <3>2, <3>4 DEF Due
    <3> QED  BY <2>2, <2>3, <3>4, <3>5, DoneKeepsAttemptsInv
  <2> QED  BY <1>6, <2>4, <2>5
<1> QED  BY <1>3, <1>4, <1>5, <1>6 DEF PublishRequest

-----------------------------------------------------------------------------
(* The invariant *)

TransactionInv == TypeOK /\ StagedInv /\ RequestInv /\ AttemptsInv

LEMMA InitTransactionInv == Init => TransactionInv
<1> SUFFICES ASSUME Init
             PROVE  AttemptsInv
  BY InitInv DEF TransactionInv
<1>1. /\ log = [c \in Cases |-> << >>] /\ tx = NoTx
      /\ request = [o \in Operators |-> NoRequest]
      /\ attempts = [c \in Cases |-> << >>] /\ refusals = 0
      /\ lost = [c \in Cases |-> {}]
  BY SameRows DEF Init, Atomic!Init
<1>2. OnlyCommittedEventsAreSent
  BY <1>1 DEF OnlyCommittedEventsAreSent, IsInjective
<1>3. tx.phase # "flush" /\ Collects(tx)
  BY <1>1, NoTxFields DEF Collects, IsInjective, Pending
<1>4. \A o \in Operators, c \in Cases, i \in Nat : ~Owes(o, c, i)
  BY <1>1 DEF Owes, NoRequest
<1> QED  BY <1>1, <1>2, <1>3, <1>4 DEF AttemptsInv

LEMMA NextTransactionInv == TransactionInv /\ [Next]_vars => TransactionInv'
<1> SUFFICES ASSUME TypeOK, StagedInv, RequestInv, AttemptsInv, [Next]_vars
             PROVE  TypeOK' /\ StagedInv' /\ AttemptsInv'
  BY RequestInvKept DEF TransactionInv
<1>1. CASE \/ \E f \in Fingerprints : DriveOutcome(f)
           \/ \E f \in Fingerprints \cup {EngineError} : Sweep(f)
           \/ EngineErrorAlert
  BY <1>1, VisitsKeepStagedInv, VisitsKeepAttemptsInv
<1>2. CASE Read
  BY <1>2, ReadKeepsStagedInv, EndsKeepAttemptsInv
<1>3. CASE Begin
  BY <1>3, BeginKeepsStagedInv, EndsKeepAttemptsInv
<1>4. CASE ListActive
  BY <1>4, ListKeepsStagedInv, EndsKeepAttemptsInv
<1>5. CASE Commit \/ CommitUnanswered
  BY <1>5, CommitIsAtomic, CommitKeepsAttemptsInv, UnansweredKeepsAttemptsInv
<1>6. CASE Rollback
  BY <1>6, RollbackKeepsStagedInv, EndsKeepAttemptsInv
<1>7. CASE FlushAlertEvents
  BY <1>7, FlushKeepsStagedInv, FlushKeepsAttemptsInv
<1>8. CASE DieFlushing
  BY <1>8, FlushKeepsStagedInv, DieFlushingKeepsAttemptsInv
<1>9. CASE Tick \/ UNCHANGED vars
  BY <1>9, RequestsKeepStagedInv, EndsKeepAttemptsInv
<1>10. ASSUME NEW o \in Operators, Apply(o) \/ ApplyUnanswered(o)
       PROVE  TypeOK' /\ StagedInv' /\ AttemptsInv'
  BY <1>10, ApplyKeepsStagedInv, ApplyKeepsAttemptsInv, ApplyUnansweredKeepsAttemptsInv
<1>11. ASSUME NEW o \in Operators,
              \/ \E c \in Cases, op \in Manual, until \in 0..MaxClock : Receive(o, c, op, until)
              \/ Refuse(o) \/ PublishRequest(o) \/ Die(o)
       PROVE  TypeOK' /\ StagedInv' /\ AttemptsInv'
  BY <1>11, RequestsKeepStagedInv, RequestsKeepAttemptsInv
<1> QED
  BY <1>1, <1>2, <1>3, <1>4, <1>5, <1>6, <1>7, <1>8, <1>9, <1>10, <1>11 DEF Next

(* The invariant holds of every behaviour. *)
THEOREM TransactionInvariant == Spec => []TransactionInv
BY InitTransactionInv, NextTransactionInv, PTL DEF Spec

(* Every variable keeps its type: what is staged or collected is a row or  *)
(* an event of a case, what a request holds is a request.                  *)
THEOREM TypeCorrect == Spec => []TypeOK
<1>1. TransactionInv => TypeOK
  BY DEF TransactionInv
<1> QED  BY <1>1, TransactionInvariant, PTL

(* What is given to the broker has been committed and is given to it once, *)
(* and the events that their publisher lost are not among it.              *)
THEOREM SendsOnlyCommitted == Spec => []OnlyCommittedEventsAreSent
<1>1. TransactionInv => OnlyCommittedEventsAreSent
  BY DEF TransactionInv, AttemptsInv
<1> QED  BY <1>1, TransactionInvariant, PTL

-----------------------------------------------------------------------------
(* The refinement *)

(* Each statement of a transaction is a step of AlertLifecycle or changes  *)
(* nothing AlertLifecycle can see.                                         *)
LEMMA StepIsAtomic ==
  ASSUME TypeOK, StagedInv, RequestInv, [Next]_vars
  PROVE  [Atomic!Next]_Atomic!vars
<1>1. CASE UNCHANGED <<alert, log, evaluation, now>>
  BY <1>1 DEF Atomic!vars
<1>2. CASE Tick
  BY <1>2 DEF Tick, Atomic!Next
<1>3. CASE Read
  BY <1>3, SameRows DEF Read, Atomic!Next
<1>4. CASE Commit \/ CommitUnanswered
  BY <1>4, CommitIsAtomic DEF Atomic!Next
<1>5. CASE Rollback
  BY <1>5 DEF Rollback, Atomic!Next
<1>6. ASSUME NEW o \in Operators, Apply(o) \/ ApplyUnanswered(o)
      PROVE  Atomic!Next
  <2>1. request[o].case \in Atomic!Cases /\ Atomic!Operator(request[o].case)
    BY <1>6, ApplyMoves, SameRows
  <2> QED  BY <2>1 DEF Atomic!Next
<1>7. ASSUME NEW f \in Fingerprints \cup {EngineError}, DriveOutcome(f) \/ Sweep(f)
      PROVE  UNCHANGED <<alert, log, evaluation, now>>
  BY <1>7 DEF DriveOutcome, Sweep
<1>8. ASSUME NEW o \in Operators,
             \/ \E c \in Cases, op \in Manual, until \in 0..MaxClock : Receive(o, c, op, until)
             \/ Refuse(o) \/ PublishRequest(o) \/ Die(o)
      PROVE  UNCHANGED <<alert, log, evaluation, now>>
  BY <1>8 DEF Receive, Refuse, PublishRequest, Die
<1>9. Begin \/ ListActive \/ EngineErrorAlert \/ FlushAlertEvents \/ DieFlushing \/ UNCHANGED vars
        => UNCHANGED <<alert, log, evaluation, now>>
  BY DEF Begin, ListActive, EngineErrorAlert, FlushAlertEvents, DieFlushing, vars
<1> QED  BY <1>1, <1>2, <1>3, <1>4, <1>5, <1>6, <1>7, <1>8, <1>9 DEF Next

(* The row locks, and the lock-free reads in between, make an evaluation   *)
(* one step on the rows as they are at its commit, and each request one    *)
(* step on its row: what AlertLifecycle proves holds of the transactions.  *)
THEOREM RowLocksMakeItAtomic == Spec => ImplementsAtomic
<1>1. Init => Atomic!Init
  BY DEF Init
<1>2. TransactionInv /\ [Next]_vars => [Atomic!Next]_Atomic!vars
  BY StepIsAtomic DEF TransactionInv
<1> QED  BY <1>1, <1>2, TransactionInvariant, PTL DEF Spec, ImplementsAtomic, Atomic!Spec
=============================================================================
