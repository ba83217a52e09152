---------------------------- MODULE RuleSessions ----------------------------
(***************************************************************************)
(* The connections and locks behind an evaluation: the dedicated session   *)
(* and advisory lock of internal/storage/rule_lock.go, the row locks of    *)
(* the fence (AssertEvaluationJobClaim, AssertRuleRevision), of patchRule, *)
(* DeleteRule and DeleteTerminalEvaluationJobs, and the pool of the worker *)
(* process, of which internal/worker/worker.go keeps a connection free for *)
(* the heartbeats.  What the statements write is the matter of module      *)
(* JobQueue, which takes the fence and a patch for single steps.           *)
(*                                                                         *)
(* The executors and cleaners are those of one process; another process is *)
(* another pool, and other sessions.  A single-row statement or a short    *)
(* transaction that waits for no row (claiming, planning: SKIP LOCKED) is  *)
(* one step that finds a connection free.  A DELETE or UPDATE over several *)
(* rows picks them by its snapshot and locks them one by one, in any order;*)
(* it waits for a row that is locked, and looks again at one that changed. *)
(* What an evaluation ends with, COMMIT or ROLLBACK, the unlock and the    *)
(* return of the connection, waits for nobody and is one step.  The API's  *)
(* own pool is left out: a request holds one connection and waits for no   *)
(* second.                                                                 *)
(*                                                                         *)
(* The claim of a live executor does not lapse, the lease of a dead one    *)
(* has passed.                                                             *)
(***************************************************************************)
EXTENDS Integers, FiniteSets

CONSTANTS
  Rules,         \* ids of rules
  Slots,         \* bound: the job rows of a rule
  Executors,     \* executorLoops of the worker process (Concurrency)
  Cleaners,      \* cleanupLoops of worker processes
  Requests,      \* API requests in flight at once
  PoolSizes,     \* values of the worker's MaxOpenConnections
  Nobody

ASSUME SessionsAssumption ==
  /\ IsFiniteSet(Executors) /\ IsFiniteSet(Cleaners) /\ IsFiniteSet(Requests)
  /\ Executors \cap Cleaners = {} /\ Executors \cap Requests = {}
  /\ Cleaners \cap Requests = {}
  /\ PoolSizes \subseteq Nat \ {0}
  /\ Rules # {} /\ Slots # {}
  /\ Nobody \notin Executors \cup Cleaners \cup Requests

Actors == Executors \cup Cleaners \cup Requests
Jobs   == Rules \X Slots
Rows   == {<<r>> : r \in Rules} \cup Jobs      \* a rule's row is <<r>>
RuleOf(row) == row[1]

VARIABLES
  poolSize,     \* the worker's MaxOpenConnections
  exists,       \* exists[r]: the rule row is there
  job,          \* job[j]: the status of the job row; NONE is no row
  actor,        \* actor[x]: what x is doing
  heartbeat,    \* heartbeat[e]: the heartbeat goroutine of e's evaluation
  session,      \* session[r]: whose session holds r's advisory lock
  rowLock       \* rowLock[row]: whose transaction has locked the row

vars == <<poolSize, exists, job, actor, heartbeat, session, rowLock>>

(* rows: what a statement has still to lock; claimed: the rows of a patch  *)
(* that were claimed after it had picked them, which is only a record.     *)
ActorState ==
  [op   : {"none", "evaluate", "patch", "delete", "cleanup"},
   pc   : {"idle", "connect", "start", "read", "job", "rule", "pick", "rows", "commit",
           "settle", "update"},
   job  : Jobs,
   rows : SUBSET Jobs,
   claimed : SUBSET Jobs]

TypeOK ==
  /\ poolSize \in PoolSizes
  /\ exists \in [Rules -> BOOLEAN]
  /\ job \in [Jobs -> {"NONE", "PENDING", "RUNNING", "TERMINAL"}]
  /\ actor \in [Actors -> ActorState]
  /\ heartbeat \in [Executors -> {"asleep", "connect", "update"}]
  /\ session \in [Rules -> Executors \cup Requests \cup {Nobody}]
  /\ rowLock \in [Rows -> Actors \cup {Nobody}]

Idle == [op |-> "none", pc |-> "idle", job |-> CHOOSE j \in Jobs : TRUE,
         rows |-> {}, claimed |-> {}]

Init ==
  /\ poolSize \in PoolSizes
  /\ exists = [r \in Rules |-> TRUE]
  /\ job = [j \in Jobs |-> "NONE"]
  /\ actor = [x \in Actors |-> Idle]
  /\ heartbeat = [e \in Executors |-> "asleep"]
  /\ session = [r \in Rules |-> Nobody]
  /\ rowLock = [row \in Rows |-> Nobody]

At(x, pc) == actor[x].pc = pc
Rule(x)   == RuleOf(actor[x].job)   \* the rule x is about, job or not
GoTo(x, pc) == [actor EXCEPT ![x].pc = pc]

-----------------------------------------------------------------------------
(* The pools *)

(* TryWithRuleLock keeps its connection from pool.Conn to conn.Close, a    *)
(* transaction keeps one to its end, a waiting statement has one.          *)
Connected(x) == actor[x].pc \notin {"idle", "connect", "settle"}

WorkerConnections ==
  Cardinality({x \in Executors \cup Cleaners : Connected(x)})
    + Cardinality({e \in Executors : heartbeat[e] = "update"})
WorkerHasRoom == WorkerConnections < poolSize
HasRoom(x) == x \in Requests \/ WorkerHasRoom

(* worker.New refuses a concurrency that leaves no connection over. *)
StartsWithAll == Cardinality(Executors) <= poolSize   \* (none left over)
Starts        == Cardinality(Executors) < poolSize

-----------------------------------------------------------------------------
(* Row locks.  A transaction that ends, either way, releases its rows.     *)

Owns(x, row) == rowLock[row] = x
RowFree(row) == rowLock[row] = Nobody
LockRow(x, row) == rowLock' = [rowLock EXCEPT ![row] = x]
Without(x) == [row \in Rows |-> IF Owns(x, row) THEN Nobody ELSE rowLock[row]]

(* (the row of the rule among them) *)
RowsOf(r)      == {<<r>>} \cup {j \in Jobs : RuleOf(j) = r /\ job[j] # "NONE"}
JobsOf(r)      == {j \in Jobs : RuleOf(j) = r /\ job[j] # "NONE"}
PendingJobs(r) == {j \in Jobs : RuleOf(j) = r /\ job[j] = "PENDING"}

(* The rows the statement x is at has still to lock.  One that locks       *)
(* several may have come to any of them, and then waits for that one.      *)
Wanted(x) ==
  CASE At(x, "job")  -> {actor[x].job}
    [] At(x, "rule") -> {<<Rule(x)>>}
    [] At(x, "rows") -> actor[x].rows
    [] OTHER         -> {}
Blocked(x) == \E row \in Wanted(x) : ~RowFree(row)
Waiting == {x \in Actors : Blocked(x)}
WaitsFor(x, y) == \E row \in Wanted(x) : Owns(y, row)

(* Everyone in S waits for someone in S. *)
Deadlocks == {S \in SUBSET Waiting : S # {} /\ \A x \in S : \E y \in S : WaitsFor(x, y)}

-----------------------------------------------------------------------------
(* Jobs come and are claimed *)

(* PlanScheduledJobs, of a rule whose row nobody has locked *)
Plan(j) ==
  /\ Starts /\ WorkerHasRoom
  /\ exists[RuleOf(j)] /\ RowFree(<<RuleOf(j)>>)
  /\ job[j] = "NONE"
  /\ job' = [job EXCEPT ![j] = "PENDING"]
  /\ UNCHANGED <<poolSize, exists, actor, heartbeat, session, rowLock>>

Orphan(j) ==
  /\ job[j] = "RUNNING"
  /\ \A e \in Executors : At(e, "idle") \/ actor[e].job # j

(* A patch is at its UPDATE of the jobs, and has picked j. *)
Picked(q, j) == actor[q].op = "patch" /\ At(q, "rows") /\ j \in actor[q].rows

(* ClaimEvaluationJob; process then starts the evaluation. *)
Claim(e, j) ==
  /\ Starts /\ WorkerHasRoom
  /\ At(e, "idle")
  /\ RowFree(j)
  /\ job[j] = "PENDING" \/ Orphan(j)
  /\ job' = [job EXCEPT ![j] = "RUNNING"]
  /\ actor' = [x \in Actors |->
       IF x = e THEN [Idle EXCEPT !.op = "evaluate", !.pc = "connect", !.job = j]
       ELSE IF Picked(x, j) THEN [actor[x] EXCEPT !.claimed = @ \cup {j}]
       ELSE actor[x]]
  /\ UNCHANGED <<poolSize, exists, heartbeat, session, rowLock>>

(* A request for a rule arrives; any job of the rule stands for it. *)
Receive(q, op, r) ==
  /\ At(q, "idle")
  /\ actor' = [actor EXCEPT ![q] =
       [Idle EXCEPT !.op = op, !.pc = IF op = "evaluate" THEN "connect" ELSE "rule",
                    !.job = CHOOSE j \in Jobs : RuleOf(j) = r]]
  /\ UNCHANGED <<poolSize, exists, job, heartbeat, session, rowLock>>

-----------------------------------------------------------------------------
(* TryWithRuleLock *)

(* What follows a failed evaluation: the worker returns the job, the API   *)
(* answers.  The goroutine that renews the claim ends with it.             *)
Ended(x)  == [actor EXCEPT ![x] = Idle]
Failed(x) == IF x \in Executors THEN GoTo(x, "settle") ELSE Ended(x)
Asleep(x) == [e \in Executors |-> IF e = x THEN "asleep" ELSE heartbeat[e]]

(* (the unlock statement runs with the context of the evaluation) *)
UnlockInContext(x, failed) ==
  IF failed THEN session
  ELSE [r \in Rules |-> IF session[r] = x THEN Nobody ELSE session[r]]

(* pg_advisory_unlock, on a context nobody cancels, then conn.Close *)
Unlock(x, failed) == [r \in Rules |-> IF session[r] = x THEN Nobody ELSE session[r]]

(* pool.Conn and pg_try_advisory_lock, which waits for nobody *)
TryRuleLock(x) ==
  /\ At(x, "connect") /\ actor[x].op = "evaluate"
  /\ HasRoom(x)
  /\ IF session[Rule(x)] = Nobody
     THEN /\ session' = [session EXCEPT ![Rule(x)] = x]
          /\ actor' = GoTo(x, IF x \in Executors THEN "start" ELSE "read")
          /\ UNCHANGED heartbeat
     ELSE /\ actor' = Failed(x)
          /\ heartbeat' = Asleep(x)
          /\ UNCHANGED session
  /\ UNCHANGED <<poolSize, exists, job, rowLock>>

(* The callback of TryWithRuleLock returns with its transaction closed. *)
Leave(x, failed) ==
  /\ rowLock' = Without(x)
  /\ session' = Unlock(x, failed)
  /\ heartbeat' = Asleep(x)
  /\ actor' = IF failed THEN Failed(x) ELSE Ended(x)

(* StartEvaluationJob, on the session of the lock and in no transaction *)
StartJob(e) ==
  /\ At(e, "start")
  /\ RowFree(actor[e].job)
  /\ IF job[actor[e].job] = "RUNNING"
     THEN actor' = GoTo(e, "read") /\ UNCHANGED <<rowLock, session, heartbeat>>
     ELSE Leave(e, FALSE)
  /\ UNCHANGED <<poolSize, exists, job>>

(* The Ledger and Payments answered: the transaction begins, on the        *)
(* session that has the lock.                                              *)
ReadEnds(x) ==
  /\ At(x, "read")
  /\ actor' = GoTo(x, IF x \in Executors THEN "job" ELSE "rule")
  /\ UNCHANGED <<poolSize, exists, job, heartbeat, session, rowLock>>

(* AssertEvaluationJobClaim: the job's row, gone if its rule is.           *)
LockJob(x) ==
  LET j == actor[x].job IN
  /\ At(x, "job")
  /\ RowFree(j)
  /\ IF job[j] = "RUNNING"
     THEN LockRow(x, j) /\ actor' = GoTo(x, "rule") /\ UNCHANGED <<heartbeat, session>>
     ELSE Leave(x, FALSE)
  /\ UNCHANGED <<poolSize, exists, job>>

(* (SELECT without FOR UPDATE) *)
ReadRuleRow(x) ==
  /\ At(x, "rule") /\ actor[x].op = "evaluate" /\ exists[Rule(x)]
  /\ actor' = GoTo(x, "commit")
  /\ UNCHANGED <<poolSize, exists, job, heartbeat, session, rowLock>>

(* (the transaction takes a connection of its own from the pool) *)
LockRuleRowPooled(x) ==
  /\ At(x, "rule") /\ actor[x].op = "evaluate"
  /\ HasRoom(x)
  /\ RowFree(<<Rule(x)>>)
  /\ LockRow(x, <<Rule(x)>>)
  /\ actor' = GoTo(x, "commit")
  /\ UNCHANGED <<poolSize, exists, job, heartbeat, session>>

(* An evaluation locks the row of its rule for the rest of the transaction *)
(* (AssertEvaluationJobClaim, AssertRuleRevision).  A rule that is gone    *)
(* fails it; so does a newer revision, which is a case of Fail.            *)
LockRuleRow(x) ==
  /\ At(x, "rule") /\ actor[x].op = "evaluate"
  /\ RowFree(<<Rule(x)>>)
  /\ IF exists[Rule(x)]
     THEN LockRow(x, <<Rule(x)>>) /\ actor' = GoTo(x, "commit") /\ UNCHANGED <<heartbeat, session>>
     ELSE Leave(x, FALSE)
  /\ UNCHANGED <<poolSize, exists, job>>

(* Evaluation, alerts and CompleteEvaluationJob commit. *)
Commit(x) ==
  /\ At(x, "commit") /\ actor[x].op = "evaluate"
  /\ job' = IF x \in Executors THEN [job EXCEPT ![actor[x].job] = "TERMINAL"] ELSE job
  /\ Leave(x, FALSE)
  /\ UNCHANGED <<poolSize, exists>>

(* Release, Cancel or FailEvaluationJob on the pool *)
BeginSettling(e) ==
  /\ At(e, "settle")
  /\ HasRoom(e)
  /\ actor' = GoTo(e, "update")
  /\ UNCHANGED <<poolSize, exists, job, heartbeat, session, rowLock>>

(* The job is as it was, or gone. *)
Settle(e, status) ==
  /\ At(e, "update")
  /\ RowFree(actor[e].job)
  /\ job' = IF job[actor[e].job] = "RUNNING"
            THEN [job EXCEPT ![actor[e].job] = status] ELSE job
  /\ actor' = Ended(e)
  /\ UNCHANGED <<poolSize, exists, heartbeat, session, rowLock>>

-----------------------------------------------------------------------------
(* The heartbeat of a running evaluation, on connections of its own *)

HeartbeatDue(e) ==
  /\ actor[e].pc \notin {"idle", "settle", "update"}
  /\ heartbeat[e] = "asleep"
  /\ heartbeat' = [heartbeat EXCEPT ![e] = "connect"]
  /\ UNCHANGED <<poolSize, exists, job, actor, session, rowLock>>

HeartbeatConnect(e) ==
  /\ heartbeat[e] = "connect"
  /\ WorkerHasRoom
  /\ heartbeat' = [heartbeat EXCEPT ![e] = "update"]
  /\ UNCHANGED <<poolSize, exists, job, actor, session, rowLock>>

HeartbeatUpdate(e) ==
  /\ heartbeat[e] = "update"
  /\ RowFree(actor[e].job)
  /\ heartbeat' = [heartbeat EXCEPT ![e] = "asleep"]
  /\ UNCHANGED <<poolSize, exists, job, actor, session, rowLock>>

-----------------------------------------------------------------------------
(* Patches and deletions *)

(* patchRule and DeleteRule begin with the row of the rule.  DELETE goes   *)
(* on to the jobs by its cascade.                                          *)
LockChangedRule(q) ==
  /\ At(q, "rule") /\ actor[q].op \in {"patch", "delete"}
  /\ RowFree(<<Rule(q)>>)
  /\ IF exists[Rule(q)]
     THEN /\ LockRow(q, <<Rule(q)>>)
          /\ actor' = IF actor[q].op = "patch" THEN GoTo(q, "pick")
                      ELSE [actor EXCEPT ![q].pc = "rows", ![q].rows = JobsOf(Rule(q))]
     ELSE actor' = Ended(q) /\ UNCHANGED rowLock
  /\ UNCHANGED <<poolSize, exists, job, heartbeat, session>>

(* The UPDATE that cancels jobs begins: its snapshot is of the jobs that   *)
(* nobody has claimed.  Jobs of a newer revision there are none: planning  *)
(* one needs the row of the rule.                                          *)
PickJobs(q) ==
  /\ At(q, "pick")
  /\ actor' = [actor EXCEPT ![q].pc = "rows", ![q].rows = PendingJobs(Rule(q))]
  /\ UNCHANGED <<poolSize, exists, job, heartbeat, session, rowLock>>

(* The patch commits: the jobs it has locked are cancelled.                *)
PatchRule(q) ==
  /\ At(q, "rows") /\ actor[q].op = "patch" /\ actor[q].rows = {}
  /\ job' = [j \in Jobs |-> IF Owns(q, j) THEN "TERMINAL" ELSE job[j]]
  /\ rowLock' = Without(q)
  /\ actor' = Ended(q)
  /\ UNCHANGED <<poolSize, exists, heartbeat, session>>

(* DeleteTerminalEvaluationJobs, over all rules *)
Cleanup(c) ==
  /\ Starts /\ WorkerHasRoom
  /\ At(c, "idle")
  /\ \E j \in Jobs : job[j] = "TERMINAL"
  /\ actor' = [actor EXCEPT ![c] =
       [Idle EXCEPT !.op = "cleanup", !.pc = "rows",
                    !.rows = {j \in Jobs : job[j] = "TERMINAL"}]]
  /\ UNCHANGED <<poolSize, exists, job, heartbeat, session, rowLock>>

(* A row that has changed since the snapshot is looked at again, and left  *)
(* alone if the statement is no longer about it.                           *)
StillMeant(x, j) ==
  CASE actor[x].op = "patch"   -> job[j] = "PENDING"
    [] actor[x].op = "cleanup" -> job[j] = "TERMINAL"
    [] actor[x].op = "delete"  -> job[j] # "NONE"

LockNextRow(x, j) ==
  /\ At(x, "rows") /\ j \in actor[x].rows
  /\ RowFree(j)
  /\ IF StillMeant(x, j) THEN LockRow(x, j) ELSE UNCHANGED rowLock
  /\ actor' = [actor EXCEPT ![x].rows = @ \ {j}]
  /\ UNCHANGED <<poolSize, exists, job, heartbeat, session>>

(* The deletion commits: the rows it has locked are gone. *)
Delete(x) ==
  /\ At(x, "rows") /\ actor[x].op \in {"delete", "cleanup"} /\ actor[x].rows = {}
  /\ exists' = [r \in Rules |-> exists[r] /\ ~(actor[x].op = "delete" /\ r = Rule(x))]
  /\ job' = [j \in Jobs |-> IF Owns(x, j) THEN "NONE" ELSE job[j]]
  /\ rowLock' = Without(x)
  /\ actor' = Ended(x)
  /\ UNCHANGED <<poolSize, heartbeat, session>>

-----------------------------------------------------------------------------
(* What goes wrong *)

(* A statement fails, the fence refuses, or the context is cancelled: the  *)
(* client hung up, the heartbeat failed, the process is told to stop.      *)
Fail(x) ==
  /\ actor[x].pc \in {"connect", "start", "read", "job", "rule", "pick", "rows", "commit"}
  /\ Leave(x, TRUE)
  /\ UNCHANGED <<poolSize, exists, job>>

(* The settlement fails or its time is up (claimSettleTimeout): the lease  *)
(* will lapse.                                                             *)
GiveUpSettling(e) ==
  /\ actor[e].pc \in {"settle", "update"}
  /\ actor' = Ended(e)
  /\ UNCHANGED <<poolSize, exists, job, heartbeat, session, rowLock>>

(* Postgres finds a cycle of waiting transactions and aborts one of them.  *)
BreakDeadlock(x) ==
  /\ \E S \in Deadlocks : x \in S /\ \A T \in Deadlocks : T \subseteq S => T = S
  /\ Leave(x, TRUE)
  /\ UNCHANGED <<poolSize, exists, job>>

(* The worker process dies; its sessions end and Postgres drops what they  *)
(* hold.                                                                   *)
WorkerDies ==
  LET dead == Executors \cup Cleaners IN
  /\ actor' = [x \in Actors |-> IF x \in dead THEN Idle ELSE actor[x]]
  /\ heartbeat' = [e \in Executors |-> "asleep"]
  /\ session' = [r \in Rules |-> IF session[r] \in dead THEN Nobody ELSE session[r]]
  /\ rowLock' = [row \in Rows |-> IF rowLock[row] \in dead THEN Nobody ELSE rowLock[row]]
  /\ UNCHANGED <<poolSize, exists, job>>

-----------------------------------------------------------------------------
(* What x does once it has begun, the remote reads apart *)
Step(x) ==
  \/ TryRuleLock(x) \/ StartJob(x) \/ LockJob(x) \/ LockRuleRow(x) \/ Commit(x)
  \/ BeginSettling(x) \/ (\E status \in {"PENDING", "TERMINAL"} : Settle(x, status))
  \/ LockChangedRule(x) \/ PickJobs(x) \/ PatchRule(x) \/ Delete(x)
  \/ (\E j \in Jobs : LockNextRow(x, j))

Next ==
  \/ \E j \in Jobs : Plan(j) \/ (\E e \in Executors : Claim(e, j))
  \/ \E q \in Requests, op \in {"evaluate", "patch", "delete"}, r \in Rules : Receive(q, op, r)
  \/ \E c \in Cleaners : Cleanup(c)
  \/ \E e \in Executors : HeartbeatDue(e) \/ HeartbeatConnect(e) \/ HeartbeatUpdate(e)
  \/ \E x \in Actors : Step(x) \/ ReadEnds(x) \/ Fail(x) \/ GiveUpSettling(x) \/ BreakDeadlock(x)
  \/ WorkerDies

Spec == Init /\ [][Next]_vars

(* The pool hands a connection that comes back to a request that waits for *)
(* one, and Postgres queues the transactions that wait for a row, so who   *)
(* can go on again and again does.  A remote read may never end.           *)
Fairness ==
  /\ \A x \in Actors : SF_vars(Step(x))
  /\ \A e \in Executors : SF_vars(HeartbeatConnect(e) \/ HeartbeatUpdate(e))
  /\ WF_vars(\E x \in Actors : BreakDeadlock(x))

FairSpec == Spec /\ Fairness

-----------------------------------------------------------------------------
(* rule_lock.go: the unlock runs on a cancel-free context "so an           *)
(* already-cancelled ctx ... still frees the lock".  A session holds the   *)
(* advisory lock of a rule only while its evaluation of that rule runs; a  *)
(* pooled connection never takes one back with it.                         *)
LocksLeaveWithTheEvaluation ==
  \A r \in Rules : session[r] # Nobody =>
    /\ actor[session[r]].op = "evaluate" /\ Rule(session[r]) = r
    /\ actor[session[r]].pc \in {"start", "read", "job", "rule", "commit"}

(* The row of e's job is what patch q waits for, the row of the rule what  *)
(* e waits for, and e claimed the job after q had picked it as pending.    *)
LateClaim(q, e) ==
  /\ actor[q].op = "patch" /\ actor[e].op = "evaluate"
  /\ WaitsFor(q, e) /\ WaitsFor(e, q)
  /\ actor[e].job \in actor[q].rows \cap actor[q].claimed

(* When transactions wait for each other in a circle, which Postgres has to*)
(* break: one of them deletes, a rule or retained jobs, or a patch waits   *)
(* for an evaluation that claimed one of the jobs the patch was about to   *)
(* cancel.  Evaluations never wait for each other so, nor do patches, and  *)
(* a patch never does for a job that was running before.                   *)
DeadlocksAreKnown ==
  \A S \in Deadlocks :
    \/ \E x \in S : actor[x].op \in {"delete", "cleanup"}
    \/ \E q, e \in S : LateClaim(q, e)

(* AssertRuleRevision: "a concurrent patch, disable, or delete cannot      *)
(* commit between this fence and those writes".  An evaluation about to    *)
(* commit has its rule, its job, and the rows of both to itself.           *)
FencedRowsStay ==
  \A x \in Actors : actor[x].op = "evaluate" /\ At(x, "commit") =>
    /\ exists[Rule(x)] /\ Owns(x, <<Rule(x)>>)
    /\ x \in Executors => job[actor[x].job] = "RUNNING" /\ Owns(x, actor[x].job)

(* An evaluation that is not reading its sources gets to that, or ends and *)
(* is settled: it needs no connection but its own, and waits for no lock   *)
(* for ever, even if the remote reads of other evaluations hang.           *)
EvaluationsGoOn ==
  \A x \in Executors \cup Requests :
    []<>(actor[x].op = "evaluate" => actor[x].pc \in {"read", "idle"})

(* worker.New: one connection is left "available for lease heartbeats".    *)
(* A heartbeat that is due gets a connection, or its evaluation ends, even *)
(* if the remote reads of every executor hang.                             *)
HeartbeatsGetThrough ==
  \A e \in Executors : []<>(heartbeat[e] # "connect")
=============================================================================
