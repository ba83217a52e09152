# Formal specification of Formance Reconciliation

TLA+ modules for the definition of rules, the alert lifecycle, the evaluation transactions with their connections
and locks, the durable scheduler and the templates of this repository, with TLC configurations that check them on small instances and TLAPS proofs for
any instance. Paths below are relative to the repository root.

## The system

A *rule* is a template with a specification and a schedule. Evaluating a rule reads balances from
the Ledger and from Payments, decides one outcome per *fingerprint*, stores an *evaluation* and
drives the *alerts* of the rule: one case per (rule, fingerprint, period). Every transition of a case
appends an *alert event*, and the events that carry new information are published. Evaluations are
requested through the API or planned from the rule's cron schedule into a durable queue of *jobs*
that any number of worker processes share. All coordination goes through PostgreSQL.

| Component | State it keeps | Operations | Interacts with |
|---|---|---|---|
| Alert storage: `internal/storage/alert.go`, `models/alert.go`, `api/service/alert.go` | `alert` rows, `alert_event` rows | `OpenOrUpdateAlert`, `AutoResolveAlert`, `AckAlert`, `ResolveAlertManual`, `AcceptAlert`, `SnoozeAlert`, `UnsnoozeAlert`, list | called by the runner inside its transaction and by operators in their own; hands events to the publisher |
| Runner: `internal/reconciliation/runner.go` | none of its own | `Evaluate`, `EvaluateScheduled`, `run`, `driveAlerts`, `openEngineErrorAlert` | rule lock, templates, alert storage, job fence |
| Transactions and publishing: `internal/storage/store.go`, `internal/events` | the collector of the outermost transaction (memory) | `RunInTx`, `recordAlertEvent`, `flushAlertEvents`, `PublishAlertEvent` | every writer of alerts; the broker |
| Job queue: `internal/storage/scheduling.go`, `models/evaluation_job.go` | `evaluation_job` rows, `rule.next_run_at` | plan, claim, start, heartbeat, release, fail, assert, complete, cancel, delete terminal | planner and executors, rule patches |
| Worker: `internal/worker` | goroutines: planner, executors, heartbeats, cleanup, metrics | loops | job queue, runner |
| Rules: `internal/storage/rule.go`, `models/rule.go`, `api/service/rule.go`, `api/rule.go` | `rule` rows (template, schedule, period type, revision, enabled, cursor) | create, patch, delete, list | validated by templates; cancels jobs; fenced by evaluations |
| Rule lock and pool: `internal/storage/{rule_lock,store}.go` | a session's advisory lock, the connections of a process | `TryWithRuleLock`, `RunInTx` | one evaluation of a rule at a time; shares the pool with heartbeats and settlements |
| Evaluation records: `internal/storage/evaluation.go` | `evaluation` rows | create, list | runner |
| Templates: `internal/templates` | none | validate, explain, evaluate | engine |
| Engine: `internal/engine` | cost budget of one evaluation | compile, builtins, resolvers | Ledger and Payments SDKs |
| Legacy: `api/service/{policy,reconciliation}.go` | `policy`, `reconciliation` rows | create, compare, list | SDKs |
| API, commands, migrations | none / the schema | | |

What is hard in it:

* operators act while an evaluation that has read its sources waits to commit, and between two rows
  of its transaction;
* notifications are suppressed by three rules at once (first failure, repeated evidence, snooze), and a
  case closes, reopens and resurfaces in any order;
* a worker may be slow rather than dead: leases lapse, claims are taken over, and the late executor
  still settles; the answer to a commit may be lost; terminal jobs are cleaned up; the rule is patched
  under a running evaluation;
* events leave the process only after the commit, from memory, in one attempt each: the process may die, the answer to the commit or the broker may fail;
* planners share the due rules without talking to each other;
* a running evaluation pins a connection, holds an advisory lock and locks rows that patches, deletions, heartbeats and the
  cleanup want too, and every exit must give all of it back;
* patches of one rule cross each other between the validation of one and the transaction of another;
* a template reads its sources one after the other while they move, each at its own instant, and judges arbitrary
  integers with a kernel of 64 bits.

## Modules

| Module | Models | Uses |
|---|---|---|
| `AlertRow` | the rows, and each transition of `storage/alert.go` as a function of the locked row | |
| `AlertLifecycle` | the alerts of one rule with every transaction as one step: evaluations and operators | `AlertRow` |
| `AlertTransaction` | the same transactions row by row, with row locks, collector, publishing and death; implements `AlertLifecycle` | `AlertRow`, instance of `AlertLifecycle` |
| `ScheduledOccurrence` | abstract: what the scheduler promises of an occurrence | |
| `JobQueue` | the queue of one rule: planning (one rule, no window), claims, leases, fencing, retries, cleanup, patch, delete, manual evaluations; implements `ScheduledOccurrence` | instance of `ScheduledOccurrence` |
| `Planner` | planning in full: several rules and planners, batches, catch-up window and cap, schedules that never fire | |
| `RuleDefinition` | one rule from the request to what an evaluation reads out of it: validation, crossing patches, margin, period, cursor | |
| `RuleSessions` | connections, advisory locks and row locks of evaluations, patches, deletions, cleanup and heartbeats | |
| `TemplateVerdict` | what the templates, the kernel's integers and the legacy policies compute of balances | |
| `TemplateEvaluation` | one evaluation and its replay over moving sources: effective instants, reads, keys, outcomes | `TemplateVerdict` |
| `AlertRowProofs` | lemmas about the transitions of a row, for the two modules below | `AlertRow` |
| `AlertLifecycleProofs` | theorems about `AlertLifecycle` | `AlertRowProofs` |
| `AlertTransactionProofs` | theorems about `AlertTransaction`, the refinement of `AlertLifecycle` among them | `AlertRowProofs` |
| `JobQueueProofs` | theorems about `JobQueue`, the refinement of `ScheduledOccurrence` among them | |
| `PlannerProofs` | theorems about `Planner` | |
| `RuleDefinitionProofs` | theorems about `RuleDefinition` | |
| `RuleSessionsProofs` | theorems about `RuleSessions` | |
| `TemplateEvaluationProofs` | theorems about `TemplateVerdict` and `TemplateEvaluation` | |
| `MC*` | the instances TLC checks | |

Definitions whose comment is in parentheses, such as `ClearsAckOnReopen`, are deliberately *wrong* forms
of the definition that follows them. Nothing refers to them; they stand for a plausible bug in that code, and
with the wrong form in place of the right one the property named in `PROJECT.json` (`mutants`) fails.

### AlertRow and AlertLifecycle

State: `alert[c]` (status, evidence, occurrence count, whether acknowledged, resolution kind, evidence snapshot,
snooze), `log[c]` (the `alert_event` rows of the case), `evaluation` (what the one evaluation under the rule lock
has read and not committed), `now`. A case is a pair of fingerprint and period; `engine.error` is a
case of the continuous period. Evidence is compared as `sameEvidenceJSON` compares it, by
canonical form, so one value stands for all the payloads it calls the same.

| Action | Code |
|---|---|
| `ReadSources`, `ReadFails` | `run`, up to `ended := time.Now()`; any period, because a caller may replay a past instant |
| `CommitEvaluation` | the transaction of `run`: `driveAlerts` (outcomes, then sweep) and the engine.error case |
| `AbortEvaluation` | refused by the fence, failed, cancelled or died before the commit |
| `AckAlert`, `ResolveAlert`, `SnoozeAlert`, `UnsnoozeAlert` | the operations of the same name; accept and fix are `ResolveAlert` with their kind |

An evaluation uses `evaluation.ended` as its instant and a snooze the instant its request was
received, both possibly earlier than the commit; they decide whether a snooze has expired. The instant an event
carries is left out: `log` is in the order of effect. Operations that find the case in another status write nothing and are
the stuttering step.

### AlertTransaction

Adds `tx` (phase of the evaluation's transaction, rows written and locked so far, the collector), `request` (operator requests in flight), `attempts` (the
events given to the broker, in order) and, as records, `refusals` (how many messages the broker has refused) and `lost` (events that nobody will give to the broker).

| Action | Code |
|---|---|
| `Begin`, `DriveOutcome`, `ListActive`, `Sweep`, `EngineErrorAlert` | the statements of `run` and `driveAlerts`, row by row |
| `Commit`, `CommitUnanswered` | the commit makes the staged rows visible; its answer may be lost, and then `RunInTx` returns the error and never flushes |
| `FlushAlertEvents`, `Publish` | `flushAlertEvents`, one by one; `PublishAlertEvent` tries once, and an error of the broker is logged and nothing else |
| `Rollback`, `DieFlushing` | the evaluation fails or its process dies, before or after the commit |
| `Receive`, `Apply`, `ApplyUnanswered`, `Refuse`, `PublishRequest`, `Die` | an operator's request: waits for the row lock (`case \notin Locked`), commits, with or without an answer, and publishes |

`ImplementsAtomic` is `AlertLifecycle!Spec`: whatever operators do between two rows, the commit is the single step of `AlertLifecycle`.
`AttemptedUnlessCutOff` says that a committed event that notifies gets its one attempt unless the process died, or was not told of the commit. It does not say
that the message arrives. The comment at `internal/storage/store.go:138` ("one event row with notify=true ⇒ one webhook message ... holds by construction") and
`docs/technical/notification-suppression.md:102` claim that much; `internal/events/alert.go:128-133` and `docs/technical/scheduler.md:44-49` name the
gap, which also has the third way in, the lost answer to a commit.

### JobQueue

State: the rule (revision, enabled, exists), `due` (the last cron instant that has passed), `cursor` (`next_run_at`
as the first occurrence not planned), `job` (rows of `evaluation_job` by occurrence and revision), `evaluations`
(committed, in order), `worker`, `manual`, `ruleLock`, `patch`. Time is relative: each lease and each delay is
what remains of it, and `Tick` takes one unit off all of them. So `lease > 0` is `lease_until > now()` and
`lease < 0` is `lease_until < now()`: at 0 neither the owner nor a thief may act.

| Action | Code |
|---|---|
| `Fire`, `Plan` | an instant passes; `PlanScheduledJobs` |
| `Claim` | `ClaimEvaluationJob`: the oldest pending or lapsed job, a fresh token |
| `RuleBusy`, `Start`, `LoadRule` | `EvaluateScheduled`: the rule lock, `StartEvaluationJob`, `loadRule` |
| `AssertClaim`, `Commit` | the transaction of `run`: `AssertEvaluationJobClaim`, the writes, `CompleteEvaluationJob`; `Commit(w, FALSE)` loses the answer |
| `Heartbeat` | the heartbeat goroutine renews, or finds the claim gone and cancels |
| `Fail`, `Shutdown`, `Die` | an infrastructure error; the process stops; the process dies or cannot settle |
| `SettleClaim` | `process` after the evaluation: release, cancel or fail the job under its own token |
| `Cleanup` | `DeleteTerminalEvaluationJobs` |
| `PatchBegin`, `PatchRule`, `DeleteRule` | `patchRule` (its `now()` is the start of the transaction), `DeleteRule` |
| `EvaluateManually`, `AssertRevision`, `ManualDone` | `Evaluate` |

Between `AssertClaim` and `Commit` the executor holds the row locks of the job and the rule
(`JobLocked`, `RuleLocked`): planning skips the rule (SKIP LOCKED), claims skip the job, patches and settlements wait.

`KeepsThePromise` maps each job to a stage (open, queued, evaluated, closed) and shows that the queue implements
`ScheduledOccurrence`: an occurrence of a revision is queued at most once, cleanup included, and evaluated at most once.

### Planner

State: `rule[r]` (exists, enabled, revision, `every` for its schedule and the cursor `next`, with 0 for NULL), `patch[r]`
(when the patch in flight began its transaction), `jobs` (the occurrences planned, with their revision), `now`, and for each planner the batch it has selected and locked together with the `now()`
its transaction began at. A schedule is the distance between its instants, and `Never` one that never fires (30 February), for
which the cron library returns the zero time and `Next` NULL.

| Action | Code |
|---|---|
| `Begin`, `SelectDue` | `plan`: the transaction of `PlanScheduledJobs` begins; its SELECT ... FOR UPDATE SKIP LOCKED, unplanned cursors first, a batch at most |
| `PlanBatch` | the loop over the batch: catch-up window, ring buffer of the newest occurrences, ON CONFLICT DO NOTHING, cursor update; a full batch begins another |
| `Abort` | the transaction fails or the process dies; the pass ends |
| `CreateRule`, `PatchBegin`, `PatchRule` | the rule API: the cursor is the first instant after its `now()` |

`QueuedBehindTheCursor` says that what the queue holds of the current revision is before the cursor, so that no
occurrence is planned twice although transactions start in another order than they lock. `DropsOnlyTheOldest` says that an instant the cursor passes
without a job is out of the catch-up window or displaced by as many newer ones as the cap allows.

### RuleDefinition

State: `rule` (the row), `request[c]` (a patch of the template between its validation and its transaction), `now`, and `asked`, a
history of the margin and the period keys that were asked for. A specification is an opaque value some template kinds accept
(`Accepts`), and its explanation the pair it was made from. `Absent` is a key that is not in a document, and NULL in the row.

| Action | Code |
|---|---|
| `CreateRule` | `CreateRuleRequest.Validate` with `resolvePeriodType` and `validateSchedule`, `Service.CreateRule`, `Storage.CreateRule` |
| `ValidatePatch`, `PatchTemplate` | `Service.PatchRule` of a patch that names `templateKind` or `templateSpec`: the read and validation, then `patchRule` with `ExpectedRevision` |
| `PatchOther` | a patch that names other fields: nothing is read before its transaction. Either patch computes the cursor from the row it has locked and from `at`, the `now()` of its transaction, which may have begun long before it got the row |
| `DeleteRule` | `DeleteRule` |

`Column` is the round trip of a schedule through `UnmarshalJSON` and `MarshalJSON`. `ScheduledMargin`, `ReadAt` and `PeriodOf` are what
`EvaluateScheduled`, the templates and `run` make of the row: `PeriodOfTheReadings` says the last two agree at every instant and for
every margin. Moving the cursor over an occurrence is in `JobQueue` and `Planner`.

### RuleSessions

State: `actor[x]` (an executor, a cleaner or an API request: what it does, where it is, the job, the rows its statement has still
to lock and, as history, which of them were claimed after it had picked them), `job`, `exists`, `heartbeat[e]`, `session[r]` (who holds the advisory lock), `rowLock[row]`, and the size of the worker's pool.

| Action | Code |
|---|---|
| `TryRuleLock`, `Leave`, `Unlock` | `TryWithRuleLock`: a connection and the lock; all its deferred calls, on success, error and cancellation |
| `StartJob`, `ReadEnds` | `StartEvaluationJob`; the sources have answered and the transaction begins, on the session of the lock |
| `LockJob`, `LockRuleRow`, `Commit` | `AssertEvaluationJobClaim` (job, then rule) or `AssertRuleRevision`, and the commit |
| `BeginSettling`, `Settle`, `GiveUpSettling` | `process` after a failed evaluation |
| `Heartbeat*` | the heartbeat goroutine, on connections of its own |
| `LockChangedRule`, `PickJobs`, `LockNextRow`, `PatchRule` | `patchRule`: the row of the rule, the UPDATE of the jobs (snapshot, then row by row), the commit |
| `LockChangedRule`, `Cleanup`, `LockNextRow`, `Delete` | `DeleteRule` with its cascade, `DeleteTerminalEvaluationJobs` |
| `BreakDeadlock` | external: Postgres aborts one of a circle of waiting transactions |
| `Fail`, `WorkerDies` | a statement fails or the context is cancelled; the process dies and its sessions end |

A patch locks the rule, picks the jobs that are pending in the snapshot of its UPDATE, and locks them one by one (`PickJobs`, `LockNextRow`): a
job that was claimed meanwhile is waited for while its evaluation has it locked, and left alone when it turns out to run (`StillMeant`). So there
is a circle without a deletion: an executor claims a pending job after the snapshot, reads its sources, locks the job at the fence and waits for the
rule, which the patch holds while it waits for the job. `DeadlocksAreKnown` says that apart from deletions this is the only kind of circle
(`LateClaim`); Postgres breaks it: the evaluation fails, and its job is settled as after any failure, or the patch fails.

`JobQueue` takes the fence and a patch for single steps. For the fence this is `FencedRowsStay`. For the patch it does not matter in `JobQueue` whether a job is
claimed after the snapshot or before the patch, or released after the snapshot or after the patch: nothing of the rule passes a fence while the patch
holds the rule's row.

### TemplateVerdict and TemplateEvaluation

`TemplateVerdict` has, for each template, the predicate in exact arithmetic (`DriftPassed`), the CEL expression as the kernel computes it
(`DriftKernel`: each literal and each sum must fit, or there is no value) and the values `snapshotVerdictExpression` looks at to choose
between them (`DriftValues`). `IntMax` is the greatest int64.

State of `TemplateEvaluation`: the rule, `now`, `history[s][t]` (what source s moved to at t) and `run[k]`, the evaluation and
its replay: input, balances read so far, `pits` (`PitPerSource`) and outcomes. `settled` is not in the code; it notes whether every read was one
that time no longer changes (an instant that has passed, and for a pool a balance that has been superseded).

| Action | Code |
|---|---|
| `EvaluateNow`, `EvaluateAt` | `POST /rules/{id}/evaluate` without and with an instant; a job is `EvaluateAt` its occurrence |
| `Replay` | `evaluate` with the `pitPerSource` of an earlier evaluation as `sourcePITs` |
| `Read` | `effectiveSourcePIT` and `SourceSpec.resolve` of the next source |
| `Judge` | outcomes and `applyKernelVerdicts` |
| `Fail` | a resolver fails, or the kernel exceeds its cost or time |
| `Tick`, `Move` | external: time, the Ledger and Payments |

A pool answers for an instant within the window of a balance, and the last balance has a window of one instant (`docs/prd/adr-002-pit-consistency.md` §3).
`VerdictsAreExact` compares every outcome with the predicate stated again, as membership in an interval. `ReplaysAgree` says that a settled
evaluation can be replayed, whatever the margin. `LegacyPortsOver` says that a drift rule without tolerance is the legacy policy
as `internal/api/service/reconciliation.go:108-144` computes it. **The documents disagree with that code**: `docs/technical/api.md:57` and
`docs/technical/v1-vs-legacy.md:15,93-113` say that a legacy reconciliation is OK on a positive drift, and `v1-vs-legacy.md:14,71-83` that a differing number of assets
fails at once. The code they quote is gone: `computeDrift` fails on a drift of either sign, and `harmonizeBalances` gives each side the assets of the other with
zero. The property would be false of the policy the documents describe; they, not the code, need the correction.

## Runs

| Run | Checks | Bounds, and why they are enough |
|---|---|---|
| `AlertLifecycle.cfg` | the invariants of row, history and notification; `ReopenPages`, `EvaluationDecidesItsPeriod`, `ErrorsJudgeNothing` | one fingerprint in two periods and the engine.error case, two payloads (same and different evidence), clock to 2 (a snooze may be active, expire, outlive the run), five events: open, mute, close, reopen and repeat fit |
| `AlertTransactions.cfg` | `OnlyCommittedEventsAreSent`, `ImplementsAtomic`, `AttemptedUnlessCutOff` | one operator in every gap of a transaction of two cases, deaths and lost answers at every point, three events, one message refused, one payload (the comparison of evidence is in the row above, and the theorem is for any payloads) |
| `JobQueue.cfg` | fencing, claims, terminal states, refinement, under patches, disabling and deletion | two executors, two occurrences in two revisions within three instants (`Horizon`), lease 2, two attempts, two troubles (a lapsed lease under a live executor and one more) |
| `JobLiveness.cfg` | `EveryJobEnds` | two occurrences of one revision, one trouble, one manual evaluation |
| `RuleDefinition.cfg` | the template fence, margin, period and cursor | two crossing patches, three kinds (one in no registry), a specification that two of them accept and one for a single kind, negative, zero and positive margins, an empty, a valid and an invalid period key, a cron expression that never fires; three revisions and two instants: a patch may be behind by one or two |
| `RuleSessions.cfg` | locks, deadlocks, fences; evaluations and heartbeats under hanging reads | two rules with a job each, two executors, a request and a cleanup, a pool of two (refused) or three; two jobs are enough for a circle of a deletion and the cleanup, one for a circle of a patch and an evaluation |
| `Planning.cfg` | `QueuedBehindTheCursor`, `DropsOnlyTheOldest` | two rules, two planners, batches of one, schedules of every one or two instants and never, clock to 4: longer than the catch-up window and the cap |
| `PlannerDrains.cfg` | `DueRulesArePlanned` when every schedule fires | the same with clock to 2, a patch per rule and one failing transaction |
| `PlannerStarved.cfg` | finds `DueRulesArePlanned` violated | one schedule that never fires and one that does |
| `Templates.cfg` | `VerdictsAreExact`, `ReplaysAgree`, `LegacyPortsOver` | integers of three bits, -4..3, for 64: the amounts are the least, the greatest and one whose sums overflow either way; one asset that a source may or may not mention; three instants and three movements: before, between and after the reads; a request names an instant for the last source only |
| `PoolTail.cfg` | finds `PoolReadsSeeTheBalance` violated | one drift rule, two instants |
| `JobOrder.cfg` | finds `OlderStateCommitsFirst` violated | no trouble needed: one failed attempt |

Bounds in the models: `MaxClock`, `MaxEvents`, `MaxRefusals` (alerts); `Horizon`, `MaxManual`, `MaxTrouble`, `AttemptsCap` (queue); `MaxClock`, `MaxRevision` (definition); `Slots` (sessions); `MaxClock`, `MaxRevision`, `MaxDeaths` (planner); `MaxClock`, `MaxMoves`, `Overrides` (templates). Deadlock is
checked in every run but the two of the templates, where an evaluation and its replay come to their end; elsewhere the clock or an aborting evaluation always has a step. Symmetry is used on evidence payloads, executors,
tokens, rules, planners and patch requests, never in a liveness run.

Fairness. `AlertTransactions` assumes that a living process goes on publishing what it holds: flushing waits for nobody.
`RuleSessions` assumes strong fairness of the steps of each actor and heartbeat: `database/sql` hands a connection that comes back to a
request that waits for one, and Postgres queues the transactions that wait for a row. It assumes nothing of the remote reads.
`JobLiveness` assumes that the planner and executor loops run, that a running evaluation gets to its heartbeat, that time
passes and that a manual evaluation ends (it runs under a wall clock limit and its caller's context). `PlannerDrains` assumes that the planner loops run and their transactions end. No fairness is given to failures,
deaths, patches or requests; troubles and manual evaluations are finitely many by their bounds.

### What the failing runs show

* `JobOrder`: a scheduled evaluation reads as of its occurrence. One that fails and is retried may
  commit after a newer occurrence, so the evaluation that commits last is not always the one that read last (`rule_lock.go:30`).
* `PlannerStarved`: a cron expression that parses but never fires leaves `next_run_at` NULL, which the planner selects again, and
  first (`scheduling.go:48`). A full batch of such rules (100 in the code, one in the run) keeps `worker.plan` looping on them and the
  due rules behind are never planned.
* `PoolTail`: a scheduled evaluation passes its occurrence as an explicit instant, so `run` reads pools as of it (`runner.go:177`), though
  it is about now. A pool that has not moved since reads as empty, which `resolvers.go:31` says callers avoid. A replay or a `sourcePITs` entry is
  not blamed: the property is about evaluations that name no instant for the pool.

## Proofs

Every invariant and every action property of the passing runs, and both refinements, are theorems, for any values of the constants that satisfy the
named assumptions of the modules: `EngineErrorAssumption`, `EvidenceAssumption`, `PeriodsAssumption`, `BoundsAssumption`, `TransactionAssumption` (alerts),
`QueueAssumption`, `PlannerAssumption`, `DefinitionAssumption`, `KeyAssumption`, `SessionsAssumption`, `IntAssumption`, `EvaluationAssumption`
(templates). TLC evaluates them on its instances. The bounds of the models (above) are constants like the others, so the theorems hold for
bounds of any size.

**`AlertLifecycleProofs`**:

* `TypeCorrect`, by induction;
* `QuietCases` and `FrozenEvidence` from the inductive invariant `RowsInv`, a conjunction of named facts about each row;
* `LogTells`, `CountsFailures`, `ConsumersKnow` and `NeverPagesTwice` from the inductive invariant `HistoryInv` about row and
  log. `Known` and `NoRepeat` are not inductive alone: the proof needs what the last notified event says also while a case is snoozed;
* the action properties `ReopeningPages`, `DecidesItsPeriod` and `JudgesNothingOnError`, from the same invariants.

The argument is the same for all of them: every step changes a case by one transition of `AlertRow` (`CaseMoves`) or not at all
(`StepsAreMoves`), and each invariant about a case is preserved by every transition. What a transition does to a row is stated once, in `AlertRowProofs`.

**`AlertTransactionProofs`** proves `TypeCorrect`, `SendsOnlyCommitted` and the refinement `RowLocksMakeItAtomic` (`Spec => ImplementsAtomic`), so that what is
proved of `AlertLifecycle` holds of the transactions too. The inductive invariant is `TypeOK /\ StagedInv /\ RequestInv /\ AttemptsInv`:

* `StagedInv` compares what an open transaction has staged with what the single step `CommitEvaluation` would do to the same rows. A row it has
  locked carries that very change; a row it has passed over without locking needs none, and no operator can make it need one, because operators
  never open a case. At `Commit` nothing is left to visit, so the two are equal;
* `RequestInv`: a snooze was received before now and ends after it was received, which the step of `AlertLifecycle` it maps to asks for;
* `AttemptsInv` follows each event from the collector to the broker: what an open transaction collects is at the next position of the log of a row it has
  locked; after the commit, each event is owed by one publisher at most, and what is owed is neither attempted nor lost.

**`JobQueueProofs`** proves every safety property of `JobQueue.cfg`:
`TypeCorrect`, `FenceIsEnough` (`FencingSuffices`), `JobsAgree`, `ClaimsExclude`, the action property `LostClaimsStayLost` and the refinement
`QueueKeepsThePromise` (`Spec => KeepsThePromise`). The inductive invariant `IInv` adds to the stated ones:

* `Claims`: an executor that is not idle has a token of its own (a claim token is fresh), and one that settles knows what with;
* `Fence`: at most one transaction is past its fence, it still holds its claim, and the rule is still at its enabled revision, because patches,
  deletions, claims, settlements and other fences all wait for the locked rows;
* `Cascade`: nothing is left of a deleted rule;
* `PlannedIsPassed`: what was ever queued or evaluated lies before the cursor of its revision. Without it a planner could queue an evaluated occurrence
  again once the cleanup has forgotten the job.

The proof that a step preserves `IInv` has one lemma per action; the executor's steps short of the fence share `Moved` (one executor moves, the rows
keep status and token), all others that leave the claims alone share `Unmoved`. The refinement maps `Plan` to `Queue`, `Commit` to `Evaluate`,
settlements and patches to `Close` of the occurrences they end, `DeleteRule` to `Delete`, and every other action, `Cleanup` included, to a stutter.

**`PlannerProofs`** proves `TypeCorrect`, `QueueIsBehind` and the action property `OnlyTheOldestAreDropped`. It has two halves:

* the loop of `PlanScheduledJobs` for one rule. `Visited` is a recursive function: `LoopExists` shows that the function exists (it calls itself on later
  occurrences only, and none is after now), `LoopVisits` that it visits the occurrences from its argument up to now, each once and in order. The ring
  buffer is a fold over them; `KeepNext` and `FoldKeepsNewest` show that it ends with the newest `MaxOccurrences`. `FirstInWindow` says what is skipped at the
  start is out of the catch-up window, and `DroppedIsOld` that an occurrence the buffer displaced has `MaxOccurrences` newer ones, by an injection from
  `1..MaxOccurrences` into what the buffer holds. `PlanOfRule` puts these together;
* the interleaving. The inductive invariant adds to `QueuedBehindTheCursor` that a job belongs to a revision its rule has had (`Queued`), so that a patch, which
  advances the revision, makes every job of the rule one of an older revision; that a transaction began in the past, on rules that are there
  (`PlannersInv`); and that a schedule that never fires has no cursor (`CursorsFit`).

**`RuleDefinitionProofs`** proves all the invariants of its run, for any templates, cron expressions, margins, period lengths and number of requests in flight.
`StoredTemplateIsValid` is not inductive: the proof adds that a patch in flight either is of an older revision, and will be refused, or
makes of the present row exactly what was validated (`PatchIsValidated`); it is here that every patch must advance the revision.
`WhatWasAskedIsKept` rests on `ColumnKeeps`, that the round trip of a schedule loses nothing, and `CursorFitsTheSchedule` on `NextIsFirst`, for which
the least of a set of naturals comes from the library's theorem on well-founded relations.

**`RuleSessionsProofs`** proves `TypeCorrect`, `LocksLeave`, `FencesHold` and `DeadlocksAreForeseen` (`DeadlocksAreKnown`), for any rules, jobs, actors and pools. The
inductive invariant adds to the stated ones

* `Fences`: what an evaluation has locked, and found, at each point between its first row and its commit, and that a patch or deletion holds the rule before
  its jobs;
* `Holdings` and `Courses`: which rows each kind of transaction can hold at each statement, which statements it comes to, and that a running job among those a
  patch has picked was claimed after that.

Every step of an actor changes nothing but what that actor holds (`OwnStep`; a claim also enters the job with the patch that has picked it), which `OwnInv` turns
into the invariant. In a circle without a deletion whoever holds up another is an evaluation at the row of its rule, with its job, or a patch at its jobs, with its
rule (`Holders`). An evaluation there waits for a patch. A patch does not wait for another, which would hold the same rule; it waits for an evaluation whose job runs,
so was claimed since, and which is at the rule the patch holds: the known circle (`PatchesWaitForLateClaims`).

**`TemplateEvaluationProofs`** proves first, for balances of any size and kernels of any width, that the verdicts of the four templates are exact
(`DriftIsExact`, `ParityIsExact`, `ThresholdIsExact`, `InvariantIsExact`): when every value that `snapshotVerdictExpression` looks at fits, each step of the kernel
returns its exact result (`PlusFits`, `MinusFits`, `AbsFits`), and otherwise the kernel is given the verdict. For `ledger_invariant`, with any number of
terms, the sum of the model, the kernel's and that of the property are three folds in different orders: a function `IsSum` on the parts of the index set is
shown to exist, to be unique, and to be what each of them computes. `LegacyIsDrift` proves that the drift template judges what a legacy policy judges.

For evaluations it proves `TypeCorrect`, `ExactVerdicts`, `ReplaysAreFaithful` and `LegacyIsPorted`, for any set of valid rules. `EvaluationInv` says that an
evaluation that is done has the outcomes of the balances it read, to which the theorems on verdicts apply. For replays, `SettledInv` says that each balance
a settled evaluation has read is the one in force at the recorded instant, with a movement after it if the source is a pool; such a balance is `Kept` whatever moves later
(`KeptStays`, from `ThePastStays`), and `ReplayInv` says a replay has read the same so far. The keys of the recorded instants must not collide, which is
`KeysDiffer`.

Inductions (over the length of a loop, a buffer or a sum) are made over a set of naturals, as the library's induction theorem takes an operator that the
installed provers cannot instantiate: `Induction` and `Inductive` derive the principle for sets from `WFMin`.

Only model-checked: the liveness properties `EveryJobEnds`, `DueRulesArePlanned`, `EvaluationsGoOn`, `HeartbeatsGetThrough` and `AttemptedUnlessCutOff`, which need
fairness and `ENABLED`; and, of course, the counterexamples of the failing runs.


## Not modelled

* The composition of the queue, the alerts and the templates in one module: in the alert models an evaluation may produce any outcomes and be
  refused at any time, and in the queue a committed evaluation is one step, so each leaves to the other only what it takes for arbitrary; a product
  of the two state spaces would check no property that is not in one of them.
* An unlock statement that fails on a session that lives on;
  two rules that share a lock key, which costs a conflict and nothing else.
* The per-account modes of `account_threshold` and `source_parity`, which `Validate` refuses (parked); CEL parsing and the cost budget, which are
  a failure that may happen at any time; evidence, proofs and explanations, which are wording; the calendar behind period ids.
* The broker and webhooks; the Ledger and Payments services beyond what `TemplateEvaluation` says of their answers.
* API routing, rendering, pagination, queries, metrics, wiring. The alert handlers of the API parse a request and hand it over.
* Severity, labels, notes and authorship of alerts; name, labels and notifications of rules.

## Plan

Done, in this order: `AlertRow` and `AlertLifecycle`; `AlertTransaction`; `ScheduledOccurrence` and `JobQueue`; `Planner`; `RuleSessions`; `RuleDefinition`;
`TemplateVerdict` and `TemplateEvaluation`; and for each of them the proofs of its safety properties and refinements.

Left:

1. `JobQueue` plans for one rule without a window, `Planner` plans in full: a statement of what `JobQueue` takes from `Planner` (each revision is queued in
   order, behind its cursor), proved of `Planner` as a refinement.
2. What follows across the modules: a refinement of `ScheduledOccurrence` in which an occurrence may also be dropped, with the bound that
   `DropsOnlyTheOldest` gives.
3. The parked per-account modes of the templates, when `Validate` accepts them.
