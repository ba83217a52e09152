-------------------------- MODULE AlertTransaction --------------------------
(***************************************************************************)
(* The transactions behind AlertLifecycle, statement by statement.         *)
(*                                                                         *)
(* run's transaction (internal/reconciliation/runner.go) visits one row    *)
(* after the other: each outcome, then the active cases no outcome         *)
(* mentions, then engine.error.  A visited row stays locked (SELECT ... FOR*)
(* UPDATE) until the commit; a row not visited yet is open to operators,   *)
(* whose own transactions lock one row only.  Events that notify are       *)
(* buffered on the collector of the outermost Storage.RunInTx and          *)
(* published after the commit; an operator publishes right after its own   *)
(* commit.  A process may die between any two of these steps, a commit may *)
(* get no answer, and the broker may refuse a message.                     *)
(***************************************************************************)
EXTENDS AlertRow, FiniteSets, SequencesExt

CONSTANTS
  MaxClock, MaxEvents,   \* bounds, as in AlertLifecycle
  MaxRefusals,           \* bound: messages the broker refuses
  Operators              \* operator requests in flight at once

ASSUME TransactionAssumption ==
  /\ IsFiniteSet(Operators) /\ MaxClock \in Nat /\ MaxEvents \in Nat /\ RulePeriods # {}
  /\ MaxRefusals \in Nat

VARIABLES
  alert, log, evaluation, now,  \* as in AlertLifecycle: what is committed
  tx,         \* the evaluation's open transaction and its collector
  request,    \* request[o]: the operator request o is serving
  attempts,   \* attempts[c]: the events of c given to the broker, by position in log[c]
  refusals,   \* how many messages the broker has refused; only a record
  lost        \* lost[c]: those nobody will give to the broker; only a record

Atomic == INSTANCE AlertLifecycle

txVars == <<tx, request, attempts, refusals, lost>>
vars == <<alert, log, evaluation, now, tx, request, attempts, refusals, lost>>

Manual == {"ack", "resolve", "accept", "snooze", "unsnooze"}

(* staged: the rows written and locked so far, each with its event; todo:  *)
(* the fingerprints the current loop has still to visit; pending: the      *)
(* collector, and after the commit what flushAlertEvents has left.         *)
NoTx == [phase |-> "none", todo |-> {}, staged |-> << >>, pending |-> << >>]

NoRequest == [pc |-> "none", case |-> ErrorCase, op |-> "ack", until |-> 0, at |-> 0,
              event |-> 0]

Locked == DOMAIN tx.staged

Request == [pc : {"none", "waiting", "publish"}, case : Cases, op : Manual,
            until : Nat, at : Nat, event : Nat]

IsTransaction(t) ==
  /\ DOMAIN t.staged \subseteq Cases
  /\ t \in [phase   : {"none", "outcomes", "sweep", "error", "commit", "flush"},
            todo    : SUBSET (Fingerprints \cup {EngineError}),
            staged  : [DOMAIN t.staged -> [row : Row, event : Event]],
            pending : Seq(Cases \X Nat)]

TypeOK ==
  /\ Atomic!TypeOK
  /\ IsTransaction(tx)
  /\ request \in [Operators -> Request]
  /\ attempts \in [Cases -> Seq(Nat)]
  /\ refusals \in 0..MaxRefusals
  /\ lost \in [Cases -> SUBSET Nat]

Init ==
  /\ Atomic!Init
  /\ tx = NoTx
  /\ request = [o \in Operators |-> NoRequest]
  /\ attempts = [c \in Cases |-> << >>]
  /\ refusals = 0
  /\ lost = [c \in Cases |-> {}]

-----------------------------------------------------------------------------
(* The evaluation *)

Tick == Atomic!Tick /\ UNCHANGED txVars

(* The rule lock is held until the last event is flushed. *)
Read ==
  /\ tx = NoTx
  /\ \E p \in RulePeriods :
       \/ \E verdict \in [Fingerprints -> Evidence \cup {Passed, Absent}] :
            Atomic!ReadSources(p, verdict)
       \/ \E error \in Evidence : Atomic!ReadFails(p, error)
  /\ UNCHANGED txVars

AllFingerprints == Fingerprints   \* (a fingerprint without an outcome is one that failed)
Outcomes == {f \in Fingerprints : evaluation.verdict[f] # Absent}

(* The fence has let the transaction through; CreateEvaluation is done. *)
Begin ==
  /\ evaluation.state = "read"
  /\ tx = NoTx
  /\ tx' = IF Atomic!InError(evaluation)
           THEN [NoTx EXCEPT !.phase = "error"]
           ELSE [NoTx EXCEPT !.phase = "outcomes", !.todo = Outcomes]
  /\ UNCHANGED <<alert, log, evaluation, now, request, attempts, refusals, lost>>

(* The row of case c as the transaction reads it: its own write if any. *)
Visible(c) == IF c \in Locked THEN tx.staged[c].row ELSE alert[c]

(* Write the row of c and append its event; recordAlertEvent buffers the   *)
(* event when it notifies.  A commit appends one event per case, so the    *)
(* event's position in the log is known.                                   *)
Staged(c, row, event) ==
  [tx EXCEPT !.staged = [d \in Locked \cup {c} |->
                           IF d = c THEN [row |-> row, event |-> event] ELSE @[d]],
             !.pending = IF event.notify THEN Append(@, <<c, Len(log[c]) + 1>>) ELSE @]

OpenOrUpdate(c, evidence) ==
  Staged(c, FailRow(Visible(c), evidence, evaluation.ended),
            FailEvent(Visible(c), evidence, evaluation.ended))

AutoResolve(c) ==
  IF Active(Visible(c))
  THEN Staged(c, AutoResolved(Visible(c)),
              EventOf("pass", Visible(c), AutoResolved(Visible(c)), TRUE))
  ELSE tx

(* driveAlerts, first loop *)
DriveOutcome(f) ==
  /\ tx.phase = "outcomes"
  /\ f \in tx.todo
  /\ LET c == <<f, evaluation.period>>
         v == evaluation.verdict[f]
         t == IF v = Passed THEN AutoResolve(c) ELSE OpenOrUpdate(c, v)
     IN tx' = [t EXCEPT !.todo = @ \ {f}]
  /\ UNCHANGED <<alert, log, evaluation, now, request, attempts, refusals, lost>>

(* ListActiveAlertFingerprints takes no lock: an operator may close one of *)
(* the cases before the sweep reaches it.                                  *)
ListActive ==
  /\ tx.phase = "outcomes" /\ tx.todo = {}
  /\ tx' = [tx EXCEPT
       !.phase = "sweep",
       !.todo = {f \in (Fingerprints \cup {EngineError}) \ Outcomes :
                   Active(Visible(<<f, evaluation.period>>))}]
  /\ UNCHANGED <<alert, log, evaluation, now, request, attempts, refusals, lost>>

Sweep(f) ==
  /\ tx.phase = "sweep"
  /\ f \in tx.todo
  /\ tx' = [AutoResolve(<<f, evaluation.period>>) EXCEPT !.todo = @ \ {f}]
  /\ UNCHANGED <<alert, log, evaluation, now, request, attempts, refusals, lost>>

EngineErrorAlert ==
  /\ \/ tx.phase = "error"
     \/ tx.phase = "sweep" /\ tx.todo = {}
  /\ LET t == IF Atomic!InError(evaluation)
              THEN OpenOrUpdate(ErrorCase, evaluation.error)
              ELSE AutoResolve(ErrorCase)
     IN tx' = [t EXCEPT !.phase = "commit"]
  /\ UNCHANGED <<alert, log, evaluation, now, request, attempts, refusals, lost>>

(* What a commit makes of the rows; the rule lock is given back.           *)
InstallRows ==
  /\ tx.phase = "commit"
  /\ Atomic!LogHasRoom
  /\ alert' = [c \in Cases |-> Visible(c)]
  /\ log' = [c \in Cases |->
               IF c \in Locked THEN Append(log[c], tx.staged[c].event) ELSE log[c]]
  /\ evaluation' = Atomic!Idle
  /\ UNCHANGED <<now, request, attempts, refusals>>

Commit ==
  /\ InstallRows
  /\ tx' = [NoTx EXCEPT !.phase = IF tx.pending = << >> THEN "none" ELSE "flush",
                        !.pending = tx.pending]
  /\ UNCHANGED lost

(* Events, as pairs of case and position, that leave the memory of the one *)
(* process that would publish them.                                        *)
Lose(events) ==
  lost' = [c \in Cases |-> lost[c] \cup {m[2] : m \in {n \in events : n[1] = c}}]

(* The transaction has committed and its answer does not come back:        *)
(* RunInTx returns the error and the collector is never flushed.           *)
CommitUnanswered ==
  /\ InstallRows
  /\ tx' = NoTx
  /\ Lose(ToSet(tx.pending))

(* PublishAlertEvent tries once.  An error of the broker is logged and     *)
(* nothing else; whether the message got through all the same is not known.*)
Publish(m) ==
  /\ attempts' = [attempts EXCEPT ![m[1]] = Append(@, m[2])]
  /\ \/ UNCHANGED refusals
     \/ refusals < MaxRefusals /\ refusals' = refusals + 1

(* (the first error ends the flush) *)
FlushUntilRefused ==
  /\ tx.phase = "flush"
  /\ Publish(Head(tx.pending))
  /\ tx' = IF Len(tx.pending) = 1 \/ refusals' # refusals
           THEN NoTx ELSE [tx EXCEPT !.pending = Tail(@)]
  /\ UNCHANGED <<alert, log, evaluation, now, request, lost>>

FlushAlertEvents ==
  /\ tx.phase = "flush"
  /\ Publish(Head(tx.pending))
  /\ tx' = IF Len(tx.pending) = 1 THEN NoTx ELSE [tx EXCEPT !.pending = Tail(@)]
  /\ UNCHANGED <<alert, log, evaluation, now, request, lost>>

(* (the collector is flushed whether or not the transaction committed) *)
RollbackAndFlush ==
  /\ tx.phase # "flush"
  /\ Atomic!AbortEvaluation
  /\ tx' = [NoTx EXCEPT !.phase = IF tx.pending = << >> THEN "none" ELSE "flush",
                        !.pending = tx.pending]
  /\ UNCHANGED <<request, attempts, refusals, lost>>

(* A statement fails, the fence refuses, or the process dies before the    *)
(* commit: the rows are unlocked as they were and the collector is dropped.*)
Rollback ==
  /\ tx.phase # "flush"
  /\ Atomic!AbortEvaluation
  /\ tx' = NoTx
  /\ UNCHANGED <<request, attempts, refusals, lost>>

(* The process dies after the commit: what was not flushed is never sent. *)
DieFlushing ==
  /\ tx.phase = "flush"
  /\ Lose(ToSet(tx.pending))
  /\ tx' = NoTx
  /\ UNCHANGED <<alert, log, evaluation, now, request, attempts, refusals>>

-----------------------------------------------------------------------------
(* The operators' API requests *)

(* A request names an alert by the id its row was inserted with.           *)
Receive(o, c, op, until) ==
  /\ request[o] = NoRequest
  /\ Exists(alert[c])
  /\ op = "snooze" => until > now
  /\ op # "snooze" => until = 0
  /\ request' = [request EXCEPT ![o] = [NoRequest EXCEPT !.pc = "waiting", !.case = c,
                                          !.op = op, !.until = until,
                                          !.at = IF op = "snooze" THEN now ELSE 0]]
  /\ UNCHANGED <<alert, log, evaluation, now, tx, attempts, refusals, lost>>

Applies(r) ==
  LET c == r.case IN
  CASE r.op = "ack"      -> Atomic!AckAlert(c)
    [] r.op = "resolve"  -> Atomic!ResolveAlert(c, "fixed_by_booking")
    [] r.op = "accept"   -> Atomic!ResolveAlert(c, "accepted_by_business")
    [] r.op = "snooze"   -> Atomic!SnoozeAlert(c, r.until, r.at)
    [] r.op = "unsnooze" -> Atomic!UnsnoozeAlert(c)

(* What the request keeps after its commit: the event it has to publish.   *)
ToPublish(c) ==
  [NoRequest EXCEPT !.pc = "publish", !.case = c, !.event = Len(log[c]) + 1]

(* (SELECT without FOR UPDATE) *)
ApplyUnlocked(o) ==
  /\ request[o].pc = "waiting"
  /\ Applies(request[o])
  /\ request' = [request EXCEPT ![o] = ToPublish(@.case)]
  /\ UNCHANGED <<tx, attempts, refusals, lost>>

(* The request got the row lock, changed the row and committed. *)
Apply(o) ==
  /\ request[o].pc = "waiting"
  /\ request[o].case \notin Locked
  /\ Applies(request[o])
  /\ request' = [request EXCEPT ![o] = ToPublish(@.case)]
  /\ UNCHANGED <<tx, attempts, refusals, lost>>

(* The same, but the answer to the commit is lost: the request fails and   *)
(* recordAlertEvent is not reached.                                        *)
ApplyUnanswered(o) ==
  /\ request[o].pc = "waiting"
  /\ request[o].case \notin Locked
  /\ Applies(request[o])
  /\ request' = [request EXCEPT ![o] = NoRequest]
  /\ Lose({<<request[o].case, Len(log[request[o].case]) + 1>>})
  /\ UNCHANGED <<tx, attempts, refusals>>

(* Not in the status the operation asks for: ErrNotFound, or a no-op. *)
Refuses(r) ==
  LET s == alert[r.case].status IN
  CASE r.op = "ack"                            -> s # "OPEN"
    [] r.op \in {"resolve", "accept", "snooze"} -> ~Active(alert[r.case])
    [] r.op = "unsnooze"                       -> alert[r.case].snooze = NoSnooze

Refuse(o) ==
  /\ request[o].pc = "waiting"
  /\ request[o].case \notin Locked
  /\ Refuses(request[o])
  /\ request' = [request EXCEPT ![o] = NoRequest]
  /\ UNCHANGED <<alert, log, evaluation, now, tx, attempts, refusals, lost>>

PublishRequest(o) ==
  /\ request[o].pc = "publish"
  /\ Publish(<<request[o].case, request[o].event>>)
  /\ request' = [request EXCEPT ![o] = NoRequest]
  /\ UNCHANGED <<alert, log, evaluation, now, tx, lost>>

Die(o) ==
  /\ request[o].pc # "none"
  /\ lost' = IF request[o].pc = "publish"
             THEN [lost EXCEPT ![request[o].case] = @ \cup {request[o].event}] ELSE lost
  /\ request' = [request EXCEPT ![o] = NoRequest]
  /\ UNCHANGED <<alert, log, evaluation, now, tx, attempts, refusals>>

Next ==
  \/ Tick \/ Read \/ Begin \/ ListActive \/ EngineErrorAlert
  \/ Commit \/ CommitUnanswered \/ FlushAlertEvents \/ Rollback \/ DieFlushing
  \/ \E f \in Fingerprints : DriveOutcome(f)
  \/ \E f \in Fingerprints \cup {EngineError} : Sweep(f)
  \/ \E o \in Operators :
       \/ \E c \in Cases, op \in Manual, until \in 0..MaxClock : Receive(o, c, op, until)
       \/ Apply(o) \/ ApplyUnanswered(o) \/ Refuse(o) \/ PublishRequest(o) \/ Die(o)

Spec == Init /\ [][Next]_vars

(* A process that lives keeps running: publishing waits for nobody. *)
Fairness ==
  /\ WF_vars(FlushAlertEvents)
  /\ \A o \in Operators : WF_vars(PublishRequest(o))

FairSpec == Spec /\ Fairness

-----------------------------------------------------------------------------
(* Row locks make the transactions atomic: whatever operators do between   *)
(* two rows of an evaluation, the commit is the single CommitEvaluation    *)
(* step of AlertLifecycle on the rows as they are at that instant.         *)
ImplementsAtomic == Atomic!Spec

(* What is given to the broker is a committed event that notifies, once:   *)
(* nothing of a rolled-back evaluation gets out.  An event its publisher   *)
(* has lost is not published by anybody else.                              *)
OnlyCommittedEventsAreSent ==
  \A c \in Cases :
    /\ IsInjective(attempts[c])
    /\ \A k \in DOMAIN attempts[c] :
         /\ attempts[c][k] \in DOMAIN log[c] /\ log[c][attempts[c][k]].notify
         /\ attempts[c][k] \notin lost[c]

Attempted(c, i) == \E k \in DOMAIN attempts[c] : attempts[c][k] = i

(* store.go: "each transition produces one post-commit publish attempt".   *)
(* Every committed event that notifies gets its attempt, unless the process*)
(* that committed it died first or never learned of the commit: neither a  *)
(* message the broker refuses, nor another process's death, nor a rollback,*)
(* nor a later transition costs an event its attempt.  (What is in the log *)
(* stays there: again and again means from some time on.)                  *)
AttemptedUnlessCutOff ==
  \A c \in Cases : \A i \in 1..MaxEvents :
    []<>(i \in DOMAIN log[c] /\ log[c][i].notify => Attempted(c, i) \/ i \in lost[c])
=============================================================================
