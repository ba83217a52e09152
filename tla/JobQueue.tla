------------------------------ MODULE JobQueue ------------------------------
(***************************************************************************)
(* The durable queue of scheduled evaluations of one rule:                 *)
(* internal/storage/scheduling.go (planning, claiming, leasing, fencing),  *)
(* internal/worker/worker.go (what an executor does with a claim),         *)
(* internal/reconciliation/runner.go (lock, load, read, commit) and the    *)
(* part of internal/storage/rule.go that revises the rule under it.        *)
(*                                                                         *)
(* Time is relative: a lease and a retry delay are what remains of them,   *)
(* and Tick takes one unit off every one.  A lease of 0 ends now, -1 has   *)
(* passed: StartEvaluationJob wants lease_until > now, ClaimEvaluationJob  *)
(* wants lease_until < now.  A claim token is fresh when no row and no     *)
(* worker remembers it, which is all a random UUID gives.                  *)
(*                                                                         *)
(* Other rules' jobs only compete for executors; they are left out.        *)
(***************************************************************************)
EXTENDS Integers, Sequences

CONSTANTS
  Workers,          \* executors, of any number of worker processes
  Tokens,           \* claim tokens
  NoToken,
  Occurrences,      \* 1..N: the cron instants of the rule, in order
  Revisions,        \* 1..R: revisions the rule goes through
  Horizon,          \* bound: instants passed and revisions, taken together
  Lease,            \* LeaseDuration
  RetryDelay,       \* retryDelay and ruleBusyRetryDelay
  MaxAttempts,      \* maxAttempts
  AttemptsCap,      \* bound: attempts are counted up to here
  MaxManual,        \* bound: evaluations requested through the API
  MaxTrouble        \* bound: deaths, shutdowns, lapsed leases, lost settlements

ASSUME QueueAssumption ==
  /\ NoToken \notin Tokens
  /\ Occurrences \subseteq Nat \ {0} /\ Occurrences # {}
  /\ Revisions \subseteq Nat \ {0} /\ 1 \in Revisions
  /\ Horizon \in Nat
  /\ Lease \in Nat \ {0} /\ RetryDelay \in Nat /\ MaxAttempts \in Nat
  /\ AttemptsCap \in Nat /\ AttemptsCap > MaxAttempts
  /\ MaxManual \in Nat /\ MaxTrouble \in Nat

VARIABLES
  rule,         \* the rule row: revision, enabled, whether it still exists
  due,          \* the latest occurrence whose instant has passed
  cursor,       \* next_run_at, as the first occurrence not planned yet
  patch,        \* the PATCH request in flight and the time its transaction began
  job,          \* job[j]: the evaluation_job row of <<occurrence, revision>>
  evaluations,  \* the committed evaluation rows, in commit order
  worker,       \* worker[w]: what the executor is doing
  manual,       \* the evaluation requested through the API
  ruleLock,     \* who holds the rule's advisory lock
  trouble       \* how much of MaxTrouble has been used

vars == <<rule, due, cursor, patch, job, evaluations, worker, manual, ruleLock, trouble>>

Jobs     == Occurrences \X Revisions   \* evaluation_job_occurrence_unique
Terminal == {"SUCCEEDED", "FAILED", "CANCELLED"}
Free     == "free"
API      == "api"

JobRow == [status   : {"NONE", "PENDING", "RUNNING"} \cup Terminal,
           token    : Tokens \cup {NoToken},
           lease    : Int,
           attempts : Nat,
           delay    : Nat]

WorkerState ==
  [pc       : {"idle", "claimed", "started", "reading", "commit", "settle"},
   job      : Jobs,
   token    : Tokens \cup {NoToken},
   attempts : Nat,
   verdict  : {"none", "shutdown", "busy", "obsolete", "failed"}]

ManualState == [pc : {"idle", "reading", "commit"}, revision : Nat, used : Nat]
PatchState  == [pc : {"idle", "waiting"}, due : Nat]

TypeOK ==
  /\ rule \in [revision : Nat, enabled : BOOLEAN, exists : BOOLEAN]
  /\ due \in Nat /\ cursor \in Nat
  /\ patch \in PatchState
  /\ job \in [Jobs -> JobRow]
  /\ evaluations \in Seq(Jobs)
  /\ worker \in [Workers -> WorkerState]
  /\ manual \in ManualState
  /\ ruleLock \in Workers \cup {Free, API}
  /\ trouble \in Nat

NoJob == [status |-> "NONE", token |-> NoToken, lease |-> 0, attempts |-> 0, delay |-> 0]

IdleWorker == [pc |-> "idle", job |-> CHOOSE j \in Jobs : TRUE, token |-> NoToken,
               attempts |-> 0, verdict |-> "none"]

Init ==
  /\ rule = [revision |-> 1, enabled |-> TRUE, exists |-> TRUE]
  /\ due = 0 /\ cursor = 1
  /\ patch = [pc |-> "idle", due |-> 0]
  /\ job = [j \in Jobs |-> NoJob]
  /\ evaluations = << >>
  /\ worker = [w \in Workers |-> IdleWorker]
  /\ manual = [pc |-> "idle", revision |-> 0, used |-> 0]
  /\ ruleLock = Free
  /\ trouble = 0

-----------------------------------------------------------------------------
(* A commit transaction has passed its fence: it holds the row locks of    *)
(* the rule and, when scheduled, of its job until it ends.                 *)
JobLocked(j) == \E w \in Workers : worker[w].pc = "commit" /\ worker[w].job = j
RuleLocked   == manual.pc = "commit" \/ \E w \in Workers : worker[w].pc = "commit"

(* The claim the row would still honour. *)
Holds(w) ==
  /\ job[worker[w].job].status = "RUNNING"
  /\ job[worker[w].job].token = worker[w].token

(* (the lease checked without the token) *)
LeasedToAnyone(w) ==
  job[worker[w].job].status = "RUNNING" /\ job[worker[w].job].lease > 0

Leased(w) == Holds(w) /\ job[worker[w].job].lease > 0

Trouble == trouble < MaxTrouble /\ trouble' = trouble + 1

Unlock(holder) == ruleLock' = IF ruleLock = holder THEN Free ELSE ruleLock

-----------------------------------------------------------------------------
(* Time *)

Elapse(j) ==
  [job[j] EXCEPT
     !.lease = IF job[j].status = "RUNNING" /\ @ > -1 THEN @ - 1 ELSE @,
     !.delay = IF @ > 0 THEN @ - 1 ELSE 0]

(* The heartbeat is more frequent than the lease is long, so a process     *)
(* that runs normally renews before time goes on; letting a lease end      *)
(* under a live executor (a paused process, a slow database) is trouble.   *)
Working(w) == worker[w].pc # "idle" /\ Holds(w)
Timely == \A w \in Workers : Working(w) => job[worker[w].job].lease > 1

Tick ==
  /\ job' = [j \in Jobs |-> Elapse(j)]
  /\ IF Timely THEN UNCHANGED trouble ELSE Trouble
  /\ UNCHANGED <<rule, due, cursor, patch, evaluations, worker, manual, ruleLock>>

(* The instant of the next occurrence passes. *)
Fire ==
  /\ due + 1 \in Occurrences
  /\ patch.pc = "idle" \/ due + 1 + rule.revision < Horizon
  /\ due + 1 + rule.revision <= Horizon
  /\ due' = due + 1
  /\ UNCHANGED <<rule, cursor, patch, job, evaluations, worker, manual, ruleLock, trouble>>

-----------------------------------------------------------------------------
CursorStays == cursor   \* (next_run_at not advanced)
NextCursor  == due + 1

(* PlanScheduledJobs: the rule is selected when due and not locked (SKIP   *)
(* LOCKED).  The catch-up window and the cap on occurrences are those of   *)
(* module Planner; here every due occurrence is within them.               *)
Plan ==
  /\ rule.exists /\ rule.enabled /\ ~RuleLocked
  /\ cursor <= due
  /\ job' = [j \in Jobs |->
       IF j[1] \in cursor..due /\ j[2] = rule.revision /\ job[j].status = "NONE"
       THEN [NoJob EXCEPT !.status = "PENDING"] ELSE job[j]]
  /\ cursor' = NextCursor
  /\ UNCHANGED <<rule, due, patch, evaluations, worker, manual, ruleLock, trouble>>

(* (a claim whose executor died is never taken over) *)
ClaimablePending(j) == ~JobLocked(j) /\ job[j].status = "PENDING" /\ job[j].delay = 0

Claimable(j) ==
  /\ ~JobLocked(j)
  /\ \/ job[j].status = "PENDING" /\ job[j].delay = 0
     \/ job[j].status = "RUNNING" /\ job[j].lease < 0

NoneRemembered == {}   \* (a token that is not fresh for every claim)
Remembered == {job[j].token : j \in Jobs} \cup {worker[w].token : w \in Workers}

(* ClaimEvaluationJob: the oldest claimable occurrence. *)
Claim(w, j, token) ==
  /\ worker[w].pc = "idle"
  /\ Claimable(j)
  /\ \A k \in Jobs : Claimable(k) => j[1] <= k[1]
  /\ token \in Tokens \ Remembered
  /\ job' = [job EXCEPT ![j].status = "RUNNING", ![j].token = token, ![j].lease = Lease]
  /\ worker' = [worker EXCEPT ![w] = [pc |-> "claimed", job |-> j, token |-> token,
                                      attempts |-> job[j].attempts, verdict |-> "none"]]
  /\ UNCHANGED <<rule, due, cursor, patch, evaluations, manual, ruleLock, trouble>>

-----------------------------------------------------------------------------
(* EvaluateScheduled, step by step *)

Settle(w, verdict) == [worker EXCEPT ![w].pc = "settle", ![w].verdict = verdict]

(* ErrStaleClaim and ErrNotFound: the executor returns, the row is left.   *)
GiveUp(w) == [worker EXCEPT ![w] = IdleWorker]

RuleBusy(w) ==
  /\ worker[w].pc = "claimed" /\ ruleLock # Free
  /\ worker' = Settle(w, "busy")
  /\ UNCHANGED <<rule, due, cursor, patch, job, evaluations, manual, ruleLock, trouble>>

(* The rule lock, then StartEvaluationJob.  A claim that is gone ends it.  *)
Start(w) ==
  /\ worker[w].pc = "claimed" /\ ruleLock = Free
  /\ IF Leased(w)
     THEN LET n == job[worker[w].job].attempts
              m == IF n < AttemptsCap THEN n + 1 ELSE n
          IN /\ job' = [job EXCEPT ![worker[w].job].attempts = m]
             /\ worker' = [worker EXCEPT ![w].pc = "started", ![w].attempts = m]
             /\ ruleLock' = w
     ELSE worker' = GiveUp(w) /\ UNCHANGED <<job, ruleLock>>
  /\ UNCHANGED <<rule, due, cursor, patch, evaluations, manual, trouble>>

(* The job is still of the rule's enabled revision. *)
EnabledOnly(j) == rule.enabled   \* (the revision not compared)
Current(j)     == rule.enabled /\ rule.revision = j[2]

(* loadRule *)
LoadRule(w) ==
  /\ worker[w].pc = "started"
  /\ IF ~rule.exists
     THEN worker' = GiveUp(w) /\ Unlock(w)
     ELSE IF Current(worker[w].job)
     THEN worker' = [worker EXCEPT ![w].pc = "reading"] /\ UNCHANGED ruleLock
     ELSE worker' = Settle(w, "obsolete") /\ Unlock(w)
  /\ UNCHANGED <<rule, due, cursor, patch, job, evaluations, manual, trouble>>

(* The sources are read and the transaction starts: AssertEvaluationJobClaim *)
(* locks the job, then the rule.                                           *)
AssertClaim(w) ==
  /\ worker[w].pc = "reading"
  /\ ~RuleLocked
  /\ IF ~Leased(w)
     THEN worker' = GiveUp(w) /\ Unlock(w)
     ELSE IF Current(worker[w].job)
     THEN worker' = [worker EXCEPT ![w].pc = "commit"] /\ UNCHANGED ruleLock
     ELSE worker' = Settle(w, "obsolete") /\ Unlock(w)
  /\ UNCHANGED <<rule, due, cursor, patch, job, evaluations, manual, trouble>>

Evaluated(j) == \E i \in DOMAIN evaluations : evaluations[i] = j

(* (CompleteEvaluationJob forgotten) *)
CommitUncompleted(w, answered) ==
  /\ worker[w].pc = "commit"
  /\ ~Evaluated(worker[w].job)
  /\ evaluations' = Append(evaluations, worker[w].job)
  /\ worker' = IF answered THEN GiveUp(w) ELSE Settle(w, "failed")
  /\ Unlock(w)
  /\ UNCHANGED <<rule, due, cursor, patch, job, manual, trouble>>

(* CreateEvaluation, the alert transitions and CompleteEvaluationJob in    *)
(* one transaction; it fails on evaluation_scheduled_occurrence_unique.    *)
(* The answer may be lost: the executor then believes it failed.           *)
Commit(w, answered) ==
  /\ worker[w].pc = "commit"
  /\ ~Evaluated(worker[w].job)
  /\ Holds(w)
  /\ evaluations' = Append(evaluations, worker[w].job)
  /\ job' = [job EXCEPT ![worker[w].job].status = "SUCCEEDED",
                        ![worker[w].job].token = NoToken,
                        ![worker[w].job].lease = 0]
  /\ worker' = IF answered THEN GiveUp(w) ELSE Settle(w, "failed")
  /\ Unlock(w)
  /\ UNCHANGED <<rule, due, cursor, patch, manual, trouble>>

(* Any step fails on the database or the network, or the heartbeat cannot  *)
(* be written: the transaction, if any, rolls back and the rule lock goes. *)
Fail(w) ==
  /\ worker[w].pc \in {"claimed", "started", "reading", "commit"}
  /\ worker' = [Settle(w, "failed") EXCEPT
       ![w].attempts = IF worker[w].pc = "claimed" /\ @ < AttemptsCap THEN @ + 1 ELSE @]
  /\ Unlock(w)
  /\ UNCHANGED <<rule, due, cursor, patch, job, evaluations, manual, trouble>>

(* HeartbeatEvaluationJob renews, or finds the claim gone and cancels the  *)
(* evaluation.  While the commit holds the row the heartbeat waits for it. *)
Heartbeat(w) ==
  /\ worker[w].pc \in {"claimed", "started", "reading"}
  /\ IF Leased(w)
     THEN /\ job' = [job EXCEPT ![worker[w].job].lease = Lease]
          /\ UNCHANGED <<worker, ruleLock>>
     ELSE worker' = GiveUp(w) /\ Unlock(w) /\ UNCHANGED job
  /\ UNCHANGED <<rule, due, cursor, patch, evaluations, manual, trouble>>

(* The process is told to stop: it releases its claim. *)
Shutdown(w) ==
  /\ worker[w].pc \in {"claimed", "started", "reading", "commit"}
  /\ Trouble
  /\ worker' = Settle(w, "shutdown")
  /\ Unlock(w)
  /\ UNCHANGED <<rule, due, cursor, patch, job, evaluations, manual>>

(* The process dies, or the settling statement fails: the row stays        *)
(* RUNNING until its lease has passed.  Postgres drops the session's locks.*)
Die(w) ==
  /\ worker[w].pc # "idle"
  /\ Trouble
  /\ worker' = GiveUp(w)
  /\ Unlock(w)
  /\ UNCHANGED <<rule, due, cursor, patch, job, evaluations, manual>>

-----------------------------------------------------------------------------
(* What process does with the error: Release, Cancel or FailEvaluationJob, *)
(* each of which changes the row only under the executor's own token.      *)

Returned(j, delay) == [job[j] EXCEPT !.status = "PENDING", !.token = NoToken,
                                     !.lease = 0, !.delay = delay]
Ended(j, status) == [job[j] EXCEPT !.status = status, !.token = NoToken, !.lease = 0]

AtLeast(n, m) == IF n < m THEN m ELSE n

(* FailEvaluationJob retries until the attempts are used up. *)
UnknownStatus(n) == IF n >= MaxAttempts THEN "EXHAUSTED" ELSE "PENDING"
FailStatus(n)    == IF n >= MaxAttempts THEN "FAILED" ELSE "PENDING"
Failed(j, n) ==
  [job[j] EXCEPT !.status = FailStatus(n), !.token = NoToken, !.lease = 0,
                 !.attempts = AtLeast(@, n),
                 !.delay = IF FailStatus(n) = "PENDING" THEN RetryDelay ELSE @]

Settled(j, n, verdict) ==
  CASE verdict = "shutdown" -> Returned(j, 0)
    [] verdict = "busy"     -> Returned(j, RetryDelay)
    [] verdict = "obsolete" -> Ended(j, "CANCELLED")
    [] verdict = "failed"   -> Failed(j, n)

(* (the UPDATE not conditioned on the claim token) *)
SettleAnyClaim(w) ==
  LET j == worker[w].job IN
  /\ worker[w].pc = "settle"
  /\ ~JobLocked(j)
  /\ job' = [job EXCEPT ![j] = Settled(j, worker[w].attempts, worker[w].verdict)]
  /\ worker' = GiveUp(w)
  /\ UNCHANGED <<rule, due, cursor, patch, evaluations, manual, ruleLock, trouble>>

SettleClaim(w) ==
  LET j == worker[w].job IN
  /\ worker[w].pc = "settle"
  /\ ~JobLocked(j)
  /\ job' = IF Holds(w)
            THEN [job EXCEPT ![j] = Settled(j, worker[w].attempts, worker[w].verdict)]
            ELSE job
  /\ worker' = GiveUp(w)
  /\ UNCHANGED <<rule, due, cursor, patch, evaluations, manual, ruleLock, trouble>>

(* DeleteTerminalEvaluationJobs, after the retention period *)
Cleanup(j) ==
  /\ job[j].status \in Terminal
  /\ job' = [job EXCEPT ![j] = NoJob]
  /\ UNCHANGED <<rule, due, cursor, patch, evaluations, worker, manual, ruleLock, trouble>>

-----------------------------------------------------------------------------
(* The API: PATCH, DELETE and an evaluation on request *)

(* now() in patchRule is the start of its transaction, which then waits    *)
(* for the rule row.                                                       *)
PatchBegin ==
  /\ patch.pc = "idle" /\ rule.exists
  /\ rule.revision + 1 \in Revisions
  /\ due + rule.revision + 1 <= Horizon
  /\ patch' = [pc |-> "waiting", due |-> due]
  /\ UNCHANGED <<rule, due, cursor, job, evaluations, worker, manual, ruleLock, trouble>>

Toggled(enabled) == [rule EXCEPT !.enabled = enabled]   \* (the revision not advanced)
Revised(enabled) == [rule EXCEPT !.revision = @ + 1, !.enabled = enabled]

SupersededAtAll(j) == j[2] <= rule.revision   \* (whatever its status)
Superseded(j)      == j[2] <= rule.revision /\ job[j].status = "PENDING"

PatchRule(enabled) ==
  /\ patch.pc = "waiting" /\ rule.exists /\ ~RuleLocked
  /\ rule' = Revised(enabled)
  /\ cursor' = patch.due + 1
  /\ job' = [j \in Jobs |-> IF Superseded(j) THEN Ended(j, "CANCELLED") ELSE job[j]]
  /\ patch' = [pc |-> "idle", due |-> 0]
  /\ UNCHANGED <<due, evaluations, worker, manual, ruleLock, trouble>>

(* The cascade takes the jobs and the evaluations with the rule. *)
DeleteRule ==
  /\ rule.exists /\ ~RuleLocked
  /\ rule' = [rule EXCEPT !.exists = FALSE]
  /\ job' = [j \in Jobs |-> NoJob]
  /\ evaluations' = << >>
  /\ patch' = [pc |-> "idle", due |-> 0]
  /\ UNCHANGED <<due, cursor, worker, manual, ruleLock, trouble>>

(* Evaluate: lock and loadRule; a busy rule is refused with ErrRuleBusy. *)
EvaluateManually ==
  /\ manual.pc = "idle" /\ manual.used < MaxManual
  /\ ruleLock = Free /\ rule.exists /\ rule.enabled
  /\ ruleLock' = API
  /\ manual' = [pc |-> "reading", revision |-> rule.revision, used |-> manual.used + 1]
  /\ UNCHANGED <<rule, due, cursor, patch, job, evaluations, worker, trouble>>

AssertRevision ==
  /\ manual.pc = "reading" /\ ~RuleLocked
  /\ rule.exists /\ rule.enabled /\ rule.revision = manual.revision
  /\ manual' = [manual EXCEPT !.pc = "commit"]
  /\ UNCHANGED <<rule, due, cursor, patch, job, evaluations, worker, ruleLock, trouble>>

(* It commits its evaluation (which has no occurrence), is refused         *)
(* (ErrRuleChanged), fails, or its caller goes away.                       *)
ManualDone ==
  /\ manual.pc # "idle"
  /\ manual' = [manual EXCEPT !.pc = "idle", !.revision = 0]
  /\ Unlock(API)
  /\ UNCHANGED <<rule, due, cursor, patch, job, evaluations, worker, trouble>>

-----------------------------------------------------------------------------
Progress(w) ==
  \/ \E j \in Jobs, token \in Tokens : Claim(w, j, token)
  \/ RuleBusy(w) \/ Start(w) \/ LoadRule(w) \/ AssertClaim(w) \/ Commit(w, TRUE)
  \/ SettleClaim(w)

Next ==
  \/ Tick \/ Fire \/ Plan
  \/ \E w \in Workers :
       Progress(w) \/ Commit(w, FALSE) \/ Fail(w) \/ Heartbeat(w) \/ Shutdown(w) \/ Die(w)
  \/ \E j \in Jobs : Cleanup(j)
  \/ PatchBegin \/ (\E enabled \in BOOLEAN : PatchRule(enabled)) \/ DeleteRule
  \/ EvaluateManually \/ AssertRevision \/ ManualDone

Spec == Init /\ [][Next]_vars

(* Every loop of the worker runs on: planner and executors poll, a running *)
(* evaluation renews its lease, the clock advances, and a request ends.    *)
(* Nothing obliges a process to fail, to stop or to be asked anything.     *)
Fairness ==
  /\ WF_vars(Tick) /\ WF_vars(Plan) /\ WF_vars(ManualDone)
  /\ \A w \in Workers : WF_vars(Progress(w)) /\ WF_vars(Heartbeat(w))

FairSpec == Spec /\ Fairness

-----------------------------------------------------------------------------
(* The fence at the head of the commit transaction is enough: whoever has  *)
(* passed it still holds the claim, at the rule's enabled revision, for an *)
(* occurrence nobody evaluated.  CompleteEvaluationJob and the unique      *)
(* index on the evaluation's occurrence are never what refuses a commit,   *)
(* whatever leases lapsed, tokens were replaced or rows cleaned meanwhile. *)
FencingSuffices ==
  \A w \in Workers : worker[w].pc = "commit" =>
    /\ Holds(w)
    /\ ~Evaluated(worker[w].job)
    /\ rule.exists /\ rule.enabled /\ rule.revision = worker[w].job[2]

(* The job row and the evaluation row tell the same story, as long as the  *)
(* job is retained: succeeded exactly when its evaluation was committed.   *)
JobsAgreeWithEvaluations ==
  \A j \in Jobs : /\ job[j].status = "SUCCEEDED" => Evaluated(j)
                  /\ Evaluated(j) => job[j].status \in {"SUCCEEDED", "NONE"}

(* A claim that was lost is lost for good: an executor whose token the row *)
(* no longer carries cannot touch the row again, even to settle it, and no *)
(* two executors hold the same claim.                                      *)
LostClaimsAreInert ==
  [][\A w \in Workers :
       worker[w].pc # "idle" /\ ~Holds(w) /\ worker'[w] # worker[w] =>
         job'[worker[w].job] = job[worker[w].job]]_vars
ClaimsAreExclusive ==
  \A v, w \in Workers :
    v # w /\ worker[v].pc # "idle" /\ worker[w].pc # "idle" /\ Holds(v) /\ Holds(w) =>
      worker[v].job # worker[w].job

(* The stage of an occurrence, read off the queue: it is open while the    *)
(* planner can still reach it.                                             *)
Reachable(j) == j[2] > rule.revision \/ (j[2] = rule.revision /\ j[1] >= cursor)
StageOf(j) ==
  IF ~rule.exists THEN "closed"
  ELSE IF Evaluated(j) THEN "evaluated"
  ELSE IF job[j].status \in {"PENDING", "RUNNING"} THEN "queued"
  ELSE IF job[j].status = "NONE" /\ Reachable(j) THEN "open"
  ELSE "closed"

(* Queue, leases, retries and crashes implement the promise: an occurrence *)
(* of a revision is queued at most once, cleanup included, and evaluated   *)
(* at most once.                                                           *)
Promise == INSTANCE ScheduledOccurrence WITH stage <- [j \in Jobs |-> StageOf(j)]
KeepsThePromise == Promise!Spec

(* Every queued job ends, though executors die, leases lapse, answers get  *)
(* lost and evaluations fail, as long as that happens finitely often.      *)
EveryJobEnds ==
  \A j \in Jobs : []<>(job[j].status \notin {"PENDING", "RUNNING"})

-----------------------------------------------------------------------------
(* rule_lock.go: without the lock an evaluation "that read OLDER source    *)
(* state could commit AFTER a newer one".  A scheduled evaluation reads    *)
(* the sources as of its occurrence: evaluations of a rule commit in the   *)
(* order of their occurrences.                                             *)
OlderStateCommitsFirst ==
  \A i, k \in DOMAIN evaluations : i < k => evaluations[i][1] <= evaluations[k][1]
=============================================================================
