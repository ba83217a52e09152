--------------------------- MODULE JobQueueProofs ---------------------------
(***************************************************************************)
(* Proofs about JobQueue, for any executors, tokens, occurrences,          *)
(* revisions, leases, delays, attempts and bounds.                         *)
(***************************************************************************)
EXTENDS JobQueue, TLAPS

Status(j) == job[j].status

(* An executor is idle or has a claim of its own. *)
Claims ==
  /\ \A w \in Workers : worker[w].pc = "idle" => worker[w].token = NoToken
  /\ \A v, w \in Workers : v # w /\ worker[v].token = worker[w].token => worker[v].token = NoToken
  /\ \A w \in Workers : worker[w].pc # "idle" => worker[w].token \in Tokens
  /\ \A w \in Workers : worker[w].pc = "settle" => worker[w].verdict # "none"

(* One transaction at a time is past its fence, and what it has checked    *)
(* is still so.                                                            *)
Fence ==
  /\ \A w \in Workers : worker[w].pc = "commit" => Holds(w) /\ Current(worker[w].job)
  /\ \A v, w \in Workers : worker[v].pc = "commit" /\ worker[w].pc = "commit" => v = w
  /\ \A w \in Workers : worker[w].pc = "commit" => manual.pc # "commit"

(* Nothing is left of a deleted rule. *)
Cascade == ~rule.exists => \A j \in Jobs : Status(j) = "NONE" /\ ~Evaluated(j)

(* The planner can no longer reach j. *)
Passed(j) == j[2] < rule.revision \/ (j[2] = rule.revision /\ j[1] < cursor)
PlannedIsPassed == \A j \in Jobs : Status(j) # "NONE" \/ Evaluated(j) => Passed(j)

IInv ==
  TypeOK /\ Claims /\ Fence /\ Cascade /\ JobsAgreeWithEvaluations /\ PlannedIsPassed

Statuses == {"NONE", "PENDING", "RUNNING"} \cup Terminal
RowTokens == Tokens \cup {NoToken}
Pcs == {"idle", "claimed", "started", "reading", "commit", "settle"}

-----------------------------------------------------------------------------
(* Rows *)

(* Any job stands for the one of an idle executor. *)
LEMMA IdleType == IdleWorker \in WorkerState /\ IdleWorker.pc = "idle" /\ IdleWorker.token = NoToken
<1>1. \E j \in Jobs : TRUE
  <2>1. PICK o \in Occurrences : TRUE
    BY QueueAssumption
  <2>2. <<o, 1>> \in Jobs
    BY QueueAssumption DEF Jobs
  <2> QED  BY <2>2
<1>2. (CHOOSE j \in Jobs : TRUE) \in Jobs
  BY <1>1
<1> QED  BY <1>2 DEF IdleWorker, WorkerState

LEMMA NoJobType == NoJob \in JobRow /\ NoJob.status = "NONE" /\ NoJob.token = NoToken
BY DEF NoJob, JobRow

LEMMA StatusNames ==
  /\ "NONE" \in Statuses /\ "PENDING" \in Statuses /\ "RUNNING" \in Statuses
  /\ "SUCCEEDED" \in Statuses /\ "FAILED" \in Statuses /\ "CANCELLED" \in Statuses
BY DEF Statuses, Terminal

(* The updates of a row that change its status, by the columns they set *)
Marked(r, s, t, l)        == [r EXCEPT !.status = s, !.token = t, !.lease = l]
Delayed(r, s, t, l, d)    == [r EXCEPT !.status = s, !.token = t, !.lease = l, !.delay = d]
Counted(r, s, t, l, a, d) == [r EXCEPT !.status = s, !.token = t, !.lease = l,
                                       !.attempts = a, !.delay = d]

(* Every update of a row gives a row. *)
LEMMA RowTypes ==
  ASSUME NEW r \in JobRow
  PROVE  /\ \A n \in Nat : /\ [r EXCEPT !.attempts = n] \in JobRow
                           /\ [r EXCEPT !.attempts = n].status = r.status
                           /\ [r EXCEPT !.attempts = n].token = r.token
         /\ \A l \in Int : /\ [r EXCEPT !.lease = l] \in JobRow
                           /\ [r EXCEPT !.lease = l].status = r.status
                           /\ [r EXCEPT !.lease = l].token = r.token
BY DEF JobRow

LEMMA MarkedType ==
  ASSUME NEW r \in JobRow, NEW s \in Statuses, NEW t \in RowTokens, NEW l \in Int
  PROVE  Marked(r, s, t, l) \in JobRow /\ Marked(r, s, t, l).status = s /\ Marked(r, s, t, l).token = t
BY DEF JobRow, Statuses, RowTokens, Marked

LEMMA DelayedType ==
  ASSUME NEW r \in JobRow, NEW s \in Statuses, NEW t \in RowTokens, NEW l \in Int,
         NEW d \in Nat
  PROVE  Delayed(r, s, t, l, d) \in JobRow /\ Delayed(r, s, t, l, d).status = s
BY DEF JobRow, Statuses, RowTokens, Delayed

LEMMA CountedType ==
  ASSUME NEW r \in JobRow, NEW s \in Statuses, NEW t \in RowTokens, NEW l \in Int,
         NEW a \in Nat, NEW d \in Nat
  PROVE  Counted(r, s, t, l, a, d) \in JobRow /\ Counted(r, s, t, l, a, d).status = s
BY DEF JobRow, Statuses, RowTokens, Counted

(* What an executor leaves its row as *)
LEMMA ReturnedType ==
  ASSUME TypeOK, NEW j \in Jobs, NEW d \in Nat
  PROVE  Returned(j, d) \in JobRow /\ Returned(j, d).status = "PENDING"
<1>1. job[j] \in JobRow
  BY DEF TypeOK
<1>2. NoToken \in RowTokens /\ 0 \in Int
  BY DEF RowTokens
<1>3. Returned(j, d) = Delayed(job[j], "PENDING", NoToken, 0, d)
  BY Zenon DEF Returned, Delayed
<1>4. /\ Delayed(job[j], "PENDING", NoToken, 0, d) \in JobRow
      /\ Delayed(job[j], "PENDING", NoToken, 0, d).status = "PENDING"
  BY <1>1, <1>2, StatusNames, DelayedType
<1> QED  BY <1>3, <1>4

LEMMA EndedType ==
  ASSUME TypeOK, NEW j \in Jobs
  PROVE  Ended(j, "CANCELLED") \in JobRow /\ Ended(j, "CANCELLED").status = "CANCELLED"
<1>1. job[j] \in JobRow
  BY DEF TypeOK
<1>2. NoToken \in RowTokens /\ 0 \in Int
  BY DEF RowTokens
<1>3. Ended(j, "CANCELLED") = Marked(job[j], "CANCELLED", NoToken, 0)
  BY Zenon DEF Ended, Marked
<1>4. /\ Marked(job[j], "CANCELLED", NoToken, 0) \in JobRow
      /\ Marked(job[j], "CANCELLED", NoToken, 0).status = "CANCELLED"
  BY <1>1, <1>2, StatusNames, MarkedType
<1> QED  BY <1>3, <1>4

LEMMA FailedType ==
  ASSUME TypeOK, NEW j \in Jobs, NEW n \in Nat
  PROVE  Failed(j, n) \in JobRow /\ Failed(j, n).status \in {"PENDING", "FAILED"}
<1> DEFINE a == AtLeast(job[j].attempts, n)
           d == IF FailStatus(n) = "PENDING" THEN RetryDelay ELSE job[j].delay
<1>1. job[j] \in JobRow
  BY DEF TypeOK
<1>2. NoToken \in RowTokens /\ 0 \in Int
  BY DEF RowTokens
<1>3. FailStatus(n) \in {"PENDING", "FAILED"} /\ FailStatus(n) \in Statuses
  BY StatusNames DEF FailStatus
<1>4. a \in Nat
  BY <1>1 DEF AtLeast, JobRow
<1>5. d \in Nat
  BY <1>1, QueueAssumption DEF JobRow
<1>6. Failed(j, n) = Counted(job[j], FailStatus(n), NoToken, 0, a, d)
  BY Zenon DEF Failed, Counted
<1> HIDE DEF a, d
<1>7. \A s \in Statuses, l \in Int : /\ Counted(job[j], s, NoToken, l, a, d) \in JobRow
                                     /\ Counted(job[j], s, NoToken, l, a, d).status = s
  BY <1>1, <1>2, <1>4, <1>5, CountedType
<1> QED  BY <1>2, <1>3, <1>6, <1>7

LEMMA SettledType ==
  ASSUME TypeOK, NEW j \in Jobs, NEW n \in Nat,
         NEW verdict \in {"shutdown", "busy", "obsolete", "failed"}
  PROVE  /\ Settled(j, n, verdict) \in JobRow
         /\ Settled(j, n, verdict).status \in {"PENDING", "CANCELLED", "FAILED"}
<1>1. CASE verdict = "shutdown"
  BY <1>1, ReturnedType DEF Settled
<1>2. CASE verdict = "busy"
  BY <1>2, ReturnedType, QueueAssumption DEF Settled
<1>3. CASE verdict = "obsolete"
  BY <1>3, EndedType DEF Settled
<1>4. CASE verdict = "failed"
  BY <1>4, FailedType DEF Settled
<1> QED  BY <1>1, <1>2, <1>3, <1>4

(* An evaluation that commits is evaluated, and no other becomes so. *)
LEMMA EvaluatedAfter ==
  ASSUME TypeOK, NEW j \in Jobs, evaluations' = Append(evaluations, j)
  PROVE  /\ evaluations' \in Seq(Jobs)
         /\ \A k \in Jobs : Evaluated(k)' <=> Evaluated(k) \/ k = j
<1>1. evaluations \in Seq(Jobs)
  BY DEF TypeOK
<1>2. evaluations' \in Seq(Jobs)
  BY <1>1
<1>3. DOMAIN evaluations' = 1..Len(evaluations) + 1 /\ DOMAIN evaluations = 1..Len(evaluations)
      /\ Len(evaluations) \in Nat
  BY <1>1
<1>4. /\ \A i \in DOMAIN evaluations : evaluations'[i] = evaluations[i]
      /\ evaluations'[Len(evaluations) + 1] = j
  BY <1>1
<1>5. ASSUME NEW k \in Jobs, Evaluated(k)' PROVE Evaluated(k) \/ k = j
  BY <1>3, <1>4, <1>5 DEF Evaluated
<1>6. ASSUME NEW k \in Jobs, Evaluated(k) \/ k = j PROVE Evaluated(k)'
  BY <1>3, <1>4, <1>6 DEF Evaluated
<1> QED  BY <1>2, <1>5, <1>6

(* While no evaluation commits, the same jobs are evaluated. *)
LEMMA EvaluatedSame == evaluations' = evaluations => \A j : Evaluated(j)' <=> Evaluated(j)
BY DEF Evaluated

-----------------------------------------------------------------------------
(* Executors *)

(* Of the executors only w moves: it goes idle, or on with its claim and   *)
(* not past the fence.                                                     *)
OnlyMoves(w, after) ==
  /\ after \in [Workers -> WorkerState]
  /\ \A v \in Workers : v # w => after[v] = worker[v]
  /\ \/ after[w].pc = "idle" /\ after[w].token = NoToken
     \/ /\ worker[w].pc # "idle" /\ after[w].pc \notin {"idle", "commit"}
        /\ after[w].token = worker[w].token /\ after[w].job = worker[w].job
        /\ after[w].pc = "settle" => after[w].verdict # "none"

LEMMA GiveUpMoves ==
  ASSUME TypeOK, NEW w \in Workers
  PROVE  OnlyMoves(w, GiveUp(w))
BY IdleType DEF TypeOK, GiveUp, OnlyMoves

(* The updates of an executor, by the field they set *)
AtPc(x, p)         == [x EXCEPT !.pc = p]
WithVerdict(x, v)  == [x EXCEPT !.verdict = v]
WithAttempts(x, n) == [x EXCEPT !.attempts = n]
Verdicts == {"none", "shutdown", "busy", "obsolete", "failed"}

LEMMA AtPcType ==
  ASSUME NEW x \in WorkerState, NEW p \in Pcs
  PROVE  /\ AtPc(x, p) \in WorkerState /\ AtPc(x, p).pc = p
         /\ AtPc(x, p).token = x.token /\ AtPc(x, p).job = x.job
BY DEF WorkerState, Pcs, AtPc

LEMMA WithVerdictType ==
  ASSUME NEW x \in WorkerState, NEW v \in Verdicts
  PROVE  /\ WithVerdict(x, v) \in WorkerState /\ WithVerdict(x, v).verdict = v
         /\ WithVerdict(x, v).pc = x.pc
         /\ WithVerdict(x, v).token = x.token /\ WithVerdict(x, v).job = x.job
BY DEF WorkerState, Verdicts, WithVerdict

LEMMA WithAttemptsType ==
  ASSUME NEW x \in WorkerState, NEW n \in Nat
  PROVE  /\ WithAttempts(x, n) \in WorkerState
         /\ WithAttempts(x, n).pc = x.pc /\ WithAttempts(x, n).verdict = x.verdict
         /\ WithAttempts(x, n).token = x.token /\ WithAttempts(x, n).job = x.job
BY DEF WorkerState, WithAttempts

(* An executor is replaced, the others stay. *)
LEMMA Replaced ==
  ASSUME TypeOK, NEW w \in Workers, NEW x \in WorkerState
  PROVE  LET after == [worker EXCEPT ![w] = x]
         IN  /\ after \in [Workers -> WorkerState] /\ after[w] = x
             /\ \A v \in Workers : v # w => after[v] = worker[v]
BY DEF TypeOK

LEMMA PcMoves ==
  ASSUME TypeOK, NEW w \in Workers, NEW p \in Pcs
  PROVE  LET after == [worker EXCEPT ![w].pc = p]
         IN  /\ after \in [Workers -> WorkerState]
             /\ \A v \in Workers : v # w => after[v] = worker[v]
             /\ after[w].pc = p /\ after[w].token = worker[w].token
             /\ after[w].job = worker[w].job
<1>1. worker[w] \in WorkerState
  BY DEF TypeOK
<1>2. [worker EXCEPT ![w].pc = p] = [worker EXCEPT ![w] = AtPc(worker[w], p)]
  BY Zenon DEF AtPc
<1> QED  BY <1>1, <1>2, AtPcType, Replaced

LEMMA SettleMoves ==
  ASSUME TypeOK, NEW w \in Workers, NEW v \in Verdicts \ {"none"}, worker[w].pc # "idle"
  PROVE  OnlyMoves(w, Settle(w, v)) /\ Settle(w, v)[w].pc = "settle"
<1> DEFINE x == WithVerdict(AtPc(worker[w], "settle"), v)
<1>1. worker[w] \in WorkerState /\ "settle" \in Pcs /\ v \in Verdicts
  BY DEF TypeOK, Pcs
<1>2. Settle(w, v) = [worker EXCEPT ![w] = x]
  BY Zenon DEF Settle, AtPc, WithVerdict
<1>3. /\ AtPc(worker[w], "settle") \in WorkerState /\ AtPc(worker[w], "settle").pc = "settle"
      /\ AtPc(worker[w], "settle").token = worker[w].token
      /\ AtPc(worker[w], "settle").job = worker[w].job
  BY <1>1, AtPcType
<1>4. x \in WorkerState /\ x.pc = "settle" /\ x.token = worker[w].token /\ x.job = worker[w].job
      /\ x.verdict = v
  BY <1>1, <1>3, WithVerdictType
<1> HIDE DEF x
<1> QED  BY <1>2, <1>4, Replaced DEF OnlyMoves

(* Start: the attempt is counted and the executor goes on. *)
LEMMA StartMoves ==
  ASSUME TypeOK, NEW w \in Workers, NEW n \in Nat, worker[w].pc # "idle"
  PROVE  OnlyMoves(w, [worker EXCEPT ![w].pc = "started", ![w].attempts = n])
<1> DEFINE x == WithAttempts(AtPc(worker[w], "started"), n)
<1>1. worker[w] \in WorkerState /\ "started" \in Pcs
  BY DEF TypeOK, Pcs
<1>2. [worker EXCEPT ![w].pc = "started", ![w].attempts = n] = [worker EXCEPT ![w] = x]
  BY Zenon DEF AtPc, WithAttempts
<1>3. /\ AtPc(worker[w], "started") \in WorkerState /\ AtPc(worker[w], "started").pc = "started"
      /\ AtPc(worker[w], "started").token = worker[w].token
      /\ AtPc(worker[w], "started").job = worker[w].job
  BY <1>1, AtPcType
<1>4. x \in WorkerState /\ x.pc = "started" /\ x.token = worker[w].token /\ x.job = worker[w].job
  BY <1>1, <1>3, WithAttemptsType
<1> HIDE DEF x
<1> QED  BY <1>2, <1>4, Replaced DEF OnlyMoves

(* Fail: the attempt is counted, if it was not, and the executor settles. *)
LEMMA FailMoves ==
  ASSUME TypeOK, NEW w \in Workers, worker[w].pc # "idle"
  PROVE  OnlyMoves(w, [Settle(w, "failed") EXCEPT
           ![w].attempts = IF worker[w].pc = "claimed" /\ @ < AttemptsCap THEN @ + 1 ELSE @])
<1> DEFINE y == Settle(w, "failed")
           n == IF worker[w].pc = "claimed" /\ y[w].attempts < AttemptsCap
                THEN y[w].attempts + 1 ELSE y[w].attempts
           x == WithAttempts(y[w], n)
<1>1. OnlyMoves(w, y) /\ y[w].pc = "settle"
  BY SettleMoves DEF Verdicts
<1>2. y[w].pc # "idle"
  BY <1>1
<1>3. [Settle(w, "failed") EXCEPT
         ![w].attempts = IF worker[w].pc = "claimed" /\ @ < AttemptsCap THEN @ + 1 ELSE @]
      = [y EXCEPT ![w] = x]
  BY Zenon DEF WithAttempts
<1> HIDE DEF y
<1>4. y \in [Workers -> WorkerState] /\ y[w] \in WorkerState
  BY <1>1 DEF OnlyMoves
<1>5. n \in Nat
  BY <1>4 DEF WorkerState
<1> HIDE DEF n
<1>6. /\ x \in WorkerState /\ x.pc = y[w].pc /\ x.verdict = y[w].verdict
      /\ x.token = y[w].token /\ x.job = y[w].job
  BY <1>4, <1>5, WithAttemptsType
<1> HIDE DEF x
<1>7. /\ [y EXCEPT ![w] = x] \in [Workers -> WorkerState] /\ [y EXCEPT ![w] = x][w] = x
      /\ \A v \in Workers : v # w => [y EXCEPT ![w] = x][v] = y[v]
  BY <1>4, <1>6
<1>8. OnlyMoves(w, [y EXCEPT ![w] = x])
  BY <1>1, <1>2, <1>6, <1>7 DEF OnlyMoves
<1> QED  BY <1>3, <1>8

LEMMA UnlockType ==
  ASSUME TypeOK, NEW holder, Unlock(holder)
  PROVE  ruleLock' \in Workers \cup {Free, API}
BY DEF TypeOK, Unlock

LEMMA TroubleType == TypeOK /\ Trouble => trouble' \in Nat
BY QueueAssumption DEF TypeOK, Trouble

-----------------------------------------------------------------------------
(* Steps that leave the claims of the rows alone *)

RowsKeepClaims ==
  /\ job' \in [Jobs -> JobRow]
  /\ \A j \in Jobs : job'[j].status = job[j].status /\ job'[j].token = job[j].token

LEMMA SameRows == TypeOK /\ UNCHANGED job => RowsKeepClaims
BY DEF TypeOK, RowsKeepClaims

(* What the rows, the rule and the evaluations say of each other *)
LEMMA RowsAgree ==
  ASSUME IInv, RowsKeepClaims, UNCHANGED <<rule, cursor, evaluations>>
  PROVE  Cascade' /\ JobsAgreeWithEvaluations' /\ PlannedIsPassed'
<1>1. \A j \in Jobs : job'[j].status = job[j].status /\ (Evaluated(j)' <=> Evaluated(j))
  BY EvaluatedSame DEF RowsKeepClaims
<1>2. Cascade'
  BY <1>1 DEF IInv, Cascade, Status
<1>3. JobsAgreeWithEvaluations'
  BY <1>1 DEF IInv, JobsAgreeWithEvaluations
<1>4. PlannedIsPassed'
  BY <1>1 DEF IInv, PlannedIsPassed, Passed, Status
<1> QED  BY <1>2, <1>3, <1>4

(* One executor moves, short of the fence, and the claims of the rows stay. *)
LEMMA Moved ==
  ASSUME IInv, NEW w \in Workers, OnlyMoves(w, worker'), RowsKeepClaims,
         UNCHANGED <<rule, due, cursor, patch, evaluations, manual>>,
         ruleLock' \in Workers \cup {Free, API}, trouble' \in Nat
  PROVE  IInv'
<1> USE DEF IInv
<1>1. TypeOK'
  BY DEF TypeOK, OnlyMoves, RowsKeepClaims
<1>2. Claims'
  BY DEF Claims, OnlyMoves
<1>3. Fence'
  <2>1. \A v \in Workers : worker'[v].pc = "commit" => v # w /\ worker'[v] = worker[v]
    BY DEF OnlyMoves
  <2>2. \A v \in Workers : worker[v].job \in Jobs
    BY DEF TypeOK, WorkerState
  <2>3. \A v \in Workers : worker'[v].pc = "commit" => Holds(v)' /\ Current(worker[v].job)'
    BY <2>1, <2>2 DEF Fence, Holds, Current, RowsKeepClaims
  <2> QED  BY <2>1, <2>3 DEF Fence
<1>4. Cascade' /\ JobsAgreeWithEvaluations' /\ PlannedIsPassed'
  BY RowsAgree
<1> QED  BY <1>1, <1>2, <1>3, <1>4

(* No executor moves, and the claims of the rows stay. *)
LEMMA Unmoved ==
  ASSUME IInv, RowsKeepClaims, UNCHANGED <<rule, cursor, evaluations, worker>>,
         due' \in Nat, patch' \in PatchState, manual' \in ManualState,
         manual'.pc = "commit" => manual.pc = "commit" \/ ~RuleLocked,
         ruleLock' \in Workers \cup {Free, API}, trouble' \in Nat
  PROVE  IInv'
<1> USE DEF IInv
<1>1. TypeOK'
  BY DEF TypeOK, RowsKeepClaims
<1>2. Claims'
  BY DEF Claims
<1>3. Fence'
  <2>1. \A v \in Workers : worker[v].job \in Jobs
    BY DEF TypeOK, WorkerState
  <2>2. \A v \in Workers : worker'[v].pc = "commit" => Holds(v)' /\ Current(worker[v].job)'
    BY <2>1 DEF Fence, Holds, Current, RowsKeepClaims
  <2> QED  BY <2>2 DEF Fence, RuleLocked
<1>4. Cascade' /\ JobsAgreeWithEvaluations' /\ PlannedIsPassed'
  BY RowsAgree
<1> QED  BY <1>1, <1>2, <1>3, <1>4

-----------------------------------------------------------------------------
(* The invariant, action by action *)

LEMMA InitInv == Init => IInv
<1> SUFFICES ASSUME Init PROVE IInv
  OBVIOUS
<1>1. TypeOK
  BY IdleType, NoJobType, QueueAssumption
     DEF Init, TypeOK, PatchState, ManualState
<1>2. Claims
  BY IdleType DEF Init, Claims
<1>3. Fence
  BY IdleType DEF Init, Fence
<1>4. \A j \in Jobs : Status(j) = "NONE" /\ ~Evaluated(j)
  BY NoJobType DEF Init, Status, Evaluated
<1>5. Cascade /\ JobsAgreeWithEvaluations /\ PlannedIsPassed
  BY <1>4 DEF Cascade, JobsAgreeWithEvaluations, PlannedIsPassed, Status
<1> QED  BY <1>1, <1>2, <1>3, <1>5 DEF IInv

(* The updates of a row as time passes *)
Aged(r, l, d) == [r EXCEPT !.lease = l, !.delay = d]

LEMMA AgedType ==
  ASSUME NEW r \in JobRow, NEW l \in Int, NEW d \in Nat
  PROVE  /\ Aged(r, l, d) \in JobRow
         /\ Aged(r, l, d).status = r.status /\ Aged(r, l, d).token = r.token
BY DEF JobRow, Aged

LEMMA ElapseType ==
  ASSUME TypeOK, NEW j \in Jobs
  PROVE  /\ Elapse(j) \in JobRow
         /\ Elapse(j).status = job[j].status /\ Elapse(j).token = job[j].token
<1> DEFINE l == IF job[j].status = "RUNNING" /\ job[j].lease > -1
                THEN job[j].lease - 1 ELSE job[j].lease
           d == IF job[j].delay > 0 THEN job[j].delay - 1 ELSE 0
<1>1. job[j] \in JobRow
  BY DEF TypeOK
<1>2. l \in Int /\ d \in Nat
  BY <1>1 DEF JobRow
<1>3. Elapse(j) = Aged(job[j], l, d)
  BY Zenon DEF Elapse, Aged
<1> HIDE DEF l, d
<1> QED  BY <1>1, <1>2, <1>3, AgedType

LEMMA TickInv == IInv /\ Tick => IInv'
<1> SUFFICES ASSUME IInv, Tick PROVE IInv'
  OBVIOUS
<1>1. RowsKeepClaims
  BY ElapseType DEF IInv, Tick, RowsKeepClaims
<1>2. trouble' \in Nat
  BY TroubleType DEF IInv, TypeOK, Tick
<1> QED  BY <1>1, <1>2, Unmoved DEF Tick, IInv, TypeOK, Fence, RuleLocked

LEMMA FireInv == IInv /\ Fire => IInv'
<1> SUFFICES ASSUME IInv, Fire PROVE IInv'
  OBVIOUS
<1>1. RowsKeepClaims
  BY SameRows DEF IInv, Fire
<1> QED  BY <1>1, Unmoved DEF Fire, IInv, TypeOK, Fence, RuleLocked

LEMMA RequestsInv ==
  IInv /\ (PatchBegin \/ EvaluateManually \/ AssertRevision \/ ManualDone) => IInv'
<1> SUFFICES ASSUME IInv, PatchBegin \/ EvaluateManually \/ AssertRevision \/ ManualDone
             PROVE  IInv'
  OBVIOUS
<1>1. TypeOK /\ RowsKeepClaims
  BY SameRows DEF IInv, PatchBegin, EvaluateManually, AssertRevision, ManualDone
<1>2. CASE PatchBegin
  <2>1. patch' \in PatchState
    BY <1>1, <1>2 DEF PatchBegin, TypeOK, PatchState
  <2> QED  BY <1>1, <1>2, <2>1, Unmoved DEF PatchBegin, TypeOK
<1>3. CASE EvaluateManually
  <2>1. manual' \in ManualState /\ manual'.pc = "reading"
    BY <1>1, <1>3 DEF EvaluateManually, TypeOK, ManualState
  <2> QED  BY <1>1, <1>3, <2>1, Unmoved DEF EvaluateManually, TypeOK
<1>4. CASE AssertRevision
  <2>1. manual' \in ManualState /\ ~RuleLocked
    BY <1>1, <1>4 DEF AssertRevision, TypeOK, ManualState
  <2> QED  BY <1>1, <1>4, <2>1, Unmoved DEF AssertRevision, TypeOK
<1>5. CASE ManualDone
  <2>1. manual' \in ManualState /\ manual'.pc = "idle"
    BY <1>1, <1>5 DEF ManualDone, TypeOK, ManualState
  <2>2. ruleLock' \in Workers \cup {Free, API}
    BY <1>1, <1>5, UnlockType DEF ManualDone
  <2> QED  BY <1>1, <1>5, <2>1, <2>2, Unmoved DEF ManualDone, TypeOK
<1> QED  BY <1>2, <1>3, <1>4, <1>5

LEMMA RuleBusyInv == ASSUME IInv, NEW w \in Workers, RuleBusy(w) PROVE IInv'
<1>1. TypeOK /\ RowsKeepClaims
  BY SameRows DEF IInv, RuleBusy
<1>2. OnlyMoves(w, worker')
  BY <1>1, SettleMoves DEF RuleBusy, Verdicts
<1> QED  BY <1>1, <1>2, Moved DEF RuleBusy, TypeOK

(* Start and Heartbeat update a row without touching its claim. *)
LEMMA RowUpdated ==
  ASSUME TypeOK, NEW k \in Jobs, NEW r \in JobRow,
         r.status = job[k].status, r.token = job[k].token,
         job' = [job EXCEPT ![k] = r]
  PROVE  RowsKeepClaims
BY DEF TypeOK, RowsKeepClaims

WithCount(r, n) == [r EXCEPT !.attempts = n]
WithLease(r, l) == [r EXCEPT !.lease = l]

LEMMA StartKeeps == ASSUME IInv, NEW w \in Workers, Start(w) PROVE RowsKeepClaims
<1>1. TypeOK /\ worker[w].job \in Jobs
  BY DEF IInv, TypeOK, WorkerState
<1>2. CASE Leased(w)
  <2> DEFINE k == worker[w].job
             n == job[k].attempts
             m == IF n < AttemptsCap THEN n + 1 ELSE n
  <2>1. job[k] \in JobRow
    BY <1>1 DEF TypeOK
  <2>2. m \in Nat
    BY <2>1 DEF JobRow
  <2>3. job' = [job EXCEPT ![k] = WithCount(job[k], m)]
    BY <1>2, Zenon DEF Start, WithCount
  <2> HIDE DEF m
  <2>4. WithCount(job[k], m) \in JobRow /\ WithCount(job[k], m).status = job[k].status
        /\ WithCount(job[k], m).token = job[k].token
    BY <2>1, <2>2, RowTypes DEF WithCount
  <2> QED  BY <1>1, <2>3, <2>4, RowUpdated
<1>3. CASE ~Leased(w)
  BY <1>1, <1>3, SameRows DEF Start
<1> QED  BY <1>2, <1>3

LEMMA StartInv == ASSUME IInv, NEW w \in Workers, Start(w) PROVE IInv'
<1>1. TypeOK /\ worker[w].pc # "idle" /\ worker[w].job \in Jobs /\ RowsKeepClaims
  BY StartKeeps DEF IInv, Start, TypeOK, WorkerState
<1>2. CASE Leased(w)
  <2> DEFINE k == worker[w].job
             n == job[k].attempts
             m == IF n < AttemptsCap THEN n + 1 ELSE n
  <2>1. job[k] \in JobRow
    BY <1>1 DEF TypeOK
  <2>2. m \in Nat
    BY <2>1 DEF JobRow
  <2>3. /\ worker' = [worker EXCEPT ![w].pc = "started", ![w].attempts = m]
        /\ ruleLock' = w
    BY <1>2 DEF Start
  <2> HIDE DEF m
  <2>4. OnlyMoves(w, worker')
    BY <1>1, <2>2, <2>3, StartMoves
  <2> QED  BY <1>1, <2>3, <2>4, Moved DEF Start, TypeOK
<1>3. CASE ~Leased(w)
  <2>1. OnlyMoves(w, worker') /\ ruleLock' = ruleLock
    BY <1>1, <1>3, GiveUpMoves DEF Start
  <2> QED  BY <1>1, <2>1, Moved DEF Start, TypeOK
<1> QED  BY <1>2, <1>3

LEMMA HeartbeatKeeps == ASSUME IInv, NEW w \in Workers, Heartbeat(w) PROVE RowsKeepClaims
<1>1. TypeOK /\ worker[w].job \in Jobs
  BY DEF IInv, TypeOK, WorkerState
<1>2. CASE Leased(w)
  <2> DEFINE k == worker[w].job
  <2>1. job[k] \in JobRow /\ Lease \in Int
    BY <1>1, QueueAssumption DEF TypeOK
  <2>2. job' = [job EXCEPT ![k] = WithLease(job[k], Lease)]
    BY <1>2, Zenon DEF Heartbeat, WithLease
  <2>3. WithLease(job[k], Lease) \in JobRow /\ WithLease(job[k], Lease).status = job[k].status
        /\ WithLease(job[k], Lease).token = job[k].token
    BY <2>1, RowTypes DEF WithLease
  <2> QED  BY <1>1, <2>2, <2>3, RowUpdated
<1>3. CASE ~Leased(w)
  BY <1>1, <1>3, SameRows DEF Heartbeat
<1> QED  BY <1>2, <1>3

LEMMA HeartbeatInv == ASSUME IInv, NEW w \in Workers, Heartbeat(w) PROVE IInv'
<1>1. TypeOK /\ RowsKeepClaims
  BY HeartbeatKeeps DEF IInv
<1>2. CASE Leased(w)
  <2>1. UNCHANGED <<rule, due, cursor, patch, evaluations, worker, manual, ruleLock, trouble>>
    BY <1>2 DEF Heartbeat
  <2> QED  BY <1>1, <2>1, Unmoved DEF TypeOK
<1>3. CASE ~Leased(w)
  <2>1. OnlyMoves(w, worker')
    BY <1>1, <1>3, GiveUpMoves DEF Heartbeat
  <2>2. ruleLock' \in Workers \cup {Free, API}
    BY <1>1, <1>3, UnlockType DEF Heartbeat
  <2> QED  BY <1>1, <2>1, <2>2, Moved DEF Heartbeat, TypeOK
<1> QED  BY <1>2, <1>3

LEMMA LoadRuleInv == ASSUME IInv, NEW w \in Workers, LoadRule(w) PROVE IInv'
<1>1. TypeOK /\ RowsKeepClaims /\ worker[w].pc # "idle" /\ worker[w].pc # "settle"
  BY SameRows DEF IInv, LoadRule
<1>2. ruleLock' \in Workers \cup {Free, API}
  BY <1>1, UnlockType DEF LoadRule, TypeOK
<1>3. OnlyMoves(w, worker')
  <2>1. CASE ~rule.exists
    BY <1>1, <2>1, GiveUpMoves DEF LoadRule
  <2>2. CASE rule.exists /\ Current(worker[w].job)
    <3>1. "reading" \in Pcs /\ worker' = [worker EXCEPT ![w].pc = "reading"]
      BY <2>2 DEF LoadRule, Pcs
    <3>2. /\ worker' \in [Workers -> WorkerState]
          /\ \A v \in Workers : v # w => worker'[v] = worker[v]
          /\ worker'[w].pc = "reading" /\ worker'[w].token = worker[w].token
          /\ worker'[w].job = worker[w].job
      BY <1>1, <3>1, PcMoves
    <3> QED  BY <1>1, <3>2 DEF OnlyMoves
  <2>3. CASE rule.exists /\ ~Current(worker[w].job)
    BY <1>1, <2>3, SettleMoves DEF LoadRule, Verdicts
  <2> QED  BY <2>1, <2>2, <2>3
<1> QED  BY <1>1, <1>2, <1>3, Moved DEF LoadRule, TypeOK

(* Whatever ends an evaluation without a word to the queue *)
LEMMA TroubleInv ==
  ASSUME IInv, NEW w \in Workers, Fail(w) \/ Shutdown(w) \/ Die(w)
  PROVE  IInv'
<1>1. TypeOK /\ RowsKeepClaims /\ worker[w].pc # "idle"
  BY SameRows DEF IInv, Fail, Shutdown, Die
<1>2. ruleLock' \in Workers \cup {Free, API}
  BY <1>1, UnlockType DEF Fail, Shutdown, Die
<1>3. trouble' \in Nat
  BY <1>1, TroubleType DEF Fail, Shutdown, Die, TypeOK
<1>4. OnlyMoves(w, worker')
  BY <1>1, FailMoves, SettleMoves, GiveUpMoves DEF Fail, Shutdown, Die, Verdicts
<1> QED  BY <1>1, <1>2, <1>3, <1>4, Moved DEF Fail, Shutdown, Die

(* AssertClaim: the fence lets one executor through, or ends it. *)
LEMMA AssertClaimInv == ASSUME IInv, NEW w \in Workers, AssertClaim(w) PROVE IInv'
<1>1. /\ TypeOK /\ RowsKeepClaims /\ worker[w].pc # "idle" /\ ~RuleLocked
      /\ worker[w].job \in Jobs
  BY SameRows DEF IInv, AssertClaim, TypeOK, WorkerState
<1>2. CASE ~(Leased(w) /\ Current(worker[w].job))
  <2>1. ruleLock' \in Workers \cup {Free, API}
    BY <1>1, <1>2, UnlockType DEF AssertClaim
  <2>2. OnlyMoves(w, worker')
    BY <1>1, <1>2, SettleMoves, GiveUpMoves DEF AssertClaim, Verdicts
  <2> QED  BY <1>1, <2>1, <2>2, Moved DEF AssertClaim, TypeOK
<1>3. CASE Leased(w) /\ Current(worker[w].job)
  <2>1. "commit" \in Pcs /\ worker' = [worker EXCEPT ![w].pc = "commit"]
        /\ UNCHANGED <<rule, due, cursor, patch, job, evaluations, manual, ruleLock, trouble>>
    BY <1>3 DEF AssertClaim, Pcs
  <2>2. /\ worker' \in [Workers -> WorkerState]
        /\ \A v \in Workers : v # w => worker'[v] = worker[v]
        /\ worker'[w].pc = "commit" /\ worker'[w].token = worker[w].token
        /\ worker'[w].job = worker[w].job
    BY <1>1, <2>1, PcMoves
  <2>3. TypeOK'
    BY <1>1, <2>1, <2>2 DEF TypeOK
  <2>4. Claims'
    BY <1>1, <2>2 DEF IInv, Claims
  <2>5. Fence'
    <3>1. \A v \in Workers : worker[v].pc # "commit"
      BY <1>1 DEF RuleLocked
    <3>2. Holds(w)' /\ Current(worker[w].job)'
      BY <1>3, <2>1, <2>2 DEF Leased, Holds, Current
    <3> QED  BY <1>1, <2>1, <2>2, <3>1, <3>2 DEF Fence, RuleLocked
  <2>6. Cascade' /\ JobsAgreeWithEvaluations' /\ PlannedIsPassed'
    BY <1>1, <2>1, RowsAgree
  <2> QED  BY <2>3, <2>4, <2>5, <2>6 DEF IInv
<1> QED  BY <1>2, <1>3

(* Claim: nobody else knows the token, and no row past its fence is taken. *)
LEMMA ClaimInv ==
  ASSUME IInv, NEW w \in Workers, NEW j \in Jobs, NEW token \in Tokens, Claim(w, j, token)
  PROVE  IInv'
<1> DEFINE r == Marked(job[j], "RUNNING", token, Lease)
           x == [pc |-> "claimed", job |-> j, token |-> token,
                 attempts |-> job[j].attempts, verdict |-> "none"]
<1>1. /\ TypeOK /\ worker[w].pc = "idle" /\ ~JobLocked(j)
      /\ job[j].status \in {"PENDING", "RUNNING"} /\ token \notin Remembered
      /\ UNCHANGED <<rule, due, cursor, patch, evaluations, manual, ruleLock, trouble>>
  BY DEF IInv, Claim, Claimable
<1>2. job' = [job EXCEPT ![j] = r]
  BY Zenon DEF Claim, Marked
<1>3. worker' = [worker EXCEPT ![w] = x]
  BY DEF Claim
<1>4. job[j] \in JobRow /\ Lease \in Int
  BY <1>1, QueueAssumption DEF TypeOK
<1>5. r \in JobRow /\ r.status = "RUNNING" /\ r.token = token
  BY <1>4, StatusNames, MarkedType DEF RowTokens
<1>6. x \in WorkerState /\ x.pc = "claimed" /\ x.token = token
  BY <1>4 DEF WorkerState, JobRow
<1> HIDE DEF r, x
<1>7. /\ worker' \in [Workers -> WorkerState] /\ worker'[w] = x
      /\ \A v \in Workers : v # w => worker'[v] = worker[v]
  BY <1>1, <1>3, <1>6, Replaced
<1>8. /\ job' \in [Jobs -> JobRow] /\ job'[j] = r
      /\ \A k \in Jobs : k # j => job'[k] = job[k]
  BY <1>1, <1>2, <1>5 DEF TypeOK
<1>9. TypeOK'
  BY <1>1, <1>7, <1>8 DEF TypeOK
<1>10. Claims'
  <2>1. \A v \in Workers : worker[v].token # token
    BY <1>1 DEF Remembered
  <2> QED  BY <1>6, <1>7, <2>1 DEF IInv, Claims
<1>11. Fence'
  <2>1. \A v \in Workers : worker'[v].pc = "commit" =>
          /\ v # w /\ worker'[v] = worker[v] /\ worker[v].job # j /\ worker[v].job \in Jobs
    BY <1>1, <1>6, <1>7 DEF JobLocked, TypeOK, WorkerState
  <2>2. \A v \in Workers : worker'[v].pc = "commit" => Holds(v)' /\ Current(worker[v].job)'
    BY <1>1, <1>8, <2>1 DEF IInv, Fence, Holds, Current
  <2> QED  BY <1>1, <2>1, <2>2 DEF IInv, Fence
<1>12. Cascade' /\ JobsAgreeWithEvaluations' /\ PlannedIsPassed'
  <2>1. \A k \in Jobs : Evaluated(k)' <=> Evaluated(k)
    BY <1>1, EvaluatedSame
  <2>2. ~Evaluated(j) /\ Passed(j) /\ rule.exists
    BY <1>1 DEF IInv, JobsAgreeWithEvaluations, PlannedIsPassed, Cascade, Status
  <2>3. Cascade'
    BY <1>1, <2>2 DEF Cascade
  <2>4. JobsAgreeWithEvaluations'
    BY <1>5, <1>8, <2>1, <2>2 DEF IInv, JobsAgreeWithEvaluations
  <2>5. PlannedIsPassed'
    BY <1>1, <1>8, <2>1, <2>2 DEF IInv, PlannedIsPassed, Passed, Status
  <2> QED  BY <2>3, <2>4, <2>5
<1> QED  BY <1>9, <1>10, <1>11, <1>12 DEF IInv

LEMMA SucceededType ==
  ASSUME TypeOK, NEW j \in Jobs
  PROVE  /\ Marked(job[j], "SUCCEEDED", NoToken, 0) \in JobRow
         /\ Marked(job[j], "SUCCEEDED", NoToken, 0).status = "SUCCEEDED"
<1>1. job[j] \in JobRow
  BY DEF TypeOK
<1>2. NoToken \in RowTokens /\ 0 \in Int
  BY DEF RowTokens
<1> QED  BY <1>1, <1>2, StatusNames, MarkedType

(* Commit: the evaluation and the end of its job are one. *)
LEMMA CommitInv ==
  ASSUME IInv, NEW w \in Workers, NEW answered \in BOOLEAN, Commit(w, answered)
  PROVE  IInv'
<1> DEFINE j == worker[w].job
           r == Marked(job[j], "SUCCEEDED", NoToken, 0)
<1>1. /\ TypeOK /\ j \in Jobs /\ worker[w].pc = "commit" /\ Holds(w) /\ ~Evaluated(j)
      /\ evaluations' = Append(evaluations, j)
      /\ UNCHANGED <<rule, due, cursor, patch, manual, trouble>>
  BY DEF IInv, Commit, TypeOK, WorkerState
<1>2. job' = [job EXCEPT ![j] = r]
  BY Zenon DEF Commit, Marked
<1>3. r \in JobRow /\ r.status = "SUCCEEDED"
  BY <1>1, SucceededType
<1> HIDE DEF r
<1>4. /\ job' \in [Jobs -> JobRow] /\ job'[j] = r
      /\ \A k \in Jobs : k # j => job'[k] = job[k]
  BY <1>1, <1>2, <1>3 DEF TypeOK
<1>5. OnlyMoves(w, worker')
  BY <1>1, GiveUpMoves, SettleMoves DEF Commit, Verdicts
<1>6. ruleLock' \in Workers \cup {Free, API}
  BY <1>1, UnlockType DEF Commit
<1>7. /\ evaluations' \in Seq(Jobs)
      /\ \A k \in Jobs : Evaluated(k)' <=> Evaluated(k) \/ k = j
  BY <1>1, EvaluatedAfter
<1>8. TypeOK'
  BY <1>1, <1>4, <1>5, <1>6, <1>7 DEF TypeOK, OnlyMoves
<1>9. Claims'
  BY <1>5 DEF IInv, Claims, OnlyMoves
<1>10. Fence'
  BY <1>1, <1>5 DEF IInv, Fence, OnlyMoves
<1>11. Cascade' /\ JobsAgreeWithEvaluations' /\ PlannedIsPassed'
  <2>1. job[j].status = "RUNNING" /\ Passed(j) /\ rule.exists
    BY <1>1 DEF IInv, Holds, PlannedIsPassed, Cascade, Status
  <2>2. Cascade'
    BY <1>1, <2>1 DEF Cascade
  <2>3. JobsAgreeWithEvaluations'
    BY <1>3, <1>4, <1>7 DEF IInv, JobsAgreeWithEvaluations
  <2>4. PlannedIsPassed'
    BY <1>1, <1>4, <1>7, <2>1 DEF IInv, PlannedIsPassed, Passed, Status
  <2> QED  BY <2>2, <2>3, <2>4
<1> QED  BY <1>8, <1>9, <1>10, <1>11 DEF IInv

(* SettleClaim: only a claim that still holds is settled, and nobody is    *)
(* past the fence with it.                                                 *)
LEMMA SettleInv == ASSUME IInv, NEW w \in Workers, SettleClaim(w) PROVE IInv'
<1> DEFINE j == worker[w].job
           r == Settled(j, worker[w].attempts, worker[w].verdict)
<1>1. /\ TypeOK /\ j \in Jobs /\ worker[w].pc = "settle" /\ ~JobLocked(j)
      /\ UNCHANGED <<rule, due, cursor, patch, evaluations, manual, ruleLock, trouble>>
  BY DEF IInv, SettleClaim, TypeOK, WorkerState
<1>2. OnlyMoves(w, worker')
  BY <1>1, GiveUpMoves DEF SettleClaim
<1>3. CASE ~Holds(w)
  <2>1. RowsKeepClaims
    BY <1>1, <1>3, SameRows DEF SettleClaim
  <2> QED  BY <1>1, <1>2, <2>1, Moved DEF TypeOK
<1>4. CASE Holds(w)
  <2>1. /\ worker[w].attempts \in Nat
        /\ worker[w].verdict \in {"shutdown", "busy", "obsolete", "failed"}
    BY <1>1 DEF IInv, Claims, TypeOK, WorkerState
  <2>2. r \in JobRow /\ r.status \in {"PENDING", "CANCELLED", "FAILED"}
    BY <1>1, <2>1, SettledType
  <2>3. job' = [job EXCEPT ![j] = r]
    BY <1>4 DEF SettleClaim
  <2> HIDE DEF r
  <2>4. /\ job' \in [Jobs -> JobRow] /\ job'[j] = r
        /\ \A k \in Jobs : k # j => job'[k] = job[k]
    BY <1>1, <2>2, <2>3 DEF TypeOK
  <2>5. TypeOK'
    BY <1>1, <1>2, <2>4 DEF TypeOK, OnlyMoves
  <2>6. Claims'
    BY <1>2 DEF IInv, Claims, OnlyMoves
  <2>7. Fence'
    <3>1. \A v \in Workers : worker'[v].pc = "commit" =>
            /\ v # w /\ worker'[v] = worker[v] /\ worker[v].job # j /\ worker[v].job \in Jobs
      BY <1>1, <1>2 DEF JobLocked, TypeOK, WorkerState, OnlyMoves
    <3>2. \A v \in Workers : worker'[v].pc = "commit" => Holds(v)' /\ Current(worker[v].job)'
      BY <1>1, <2>4, <3>1 DEF IInv, Fence, Holds, Current
    <3> QED  BY <1>1, <3>1, <3>2 DEF IInv, Fence
  <2>8. \A k \in Jobs : Evaluated(k)' <=> Evaluated(k)
    BY <1>1, EvaluatedSame
  <2>9. job[j].status = "RUNNING" /\ ~Evaluated(j) /\ Passed(j) /\ rule.exists
    BY <1>1, <1>4
       DEF IInv, Holds, JobsAgreeWithEvaluations, PlannedIsPassed, Cascade, Status
  <2>10. Cascade'
    BY <1>1, <2>9 DEF Cascade
  <2>11. JobsAgreeWithEvaluations'
    BY <2>2, <2>4, <2>8, <2>9 DEF IInv, JobsAgreeWithEvaluations
  <2>12. PlannedIsPassed'
    BY <1>1, <2>4, <2>8, <2>9 DEF IInv, PlannedIsPassed, Passed, Status
  <2> QED  BY <2>5, <2>6, <2>7, <2>10, <2>11, <2>12 DEF IInv
<1> QED  BY <1>3, <1>4

(* Steps on the rule or on rows nobody holds: the executors stay. *)
LEMMA FenceStays ==
  ASSUME IInv, job' \in [Jobs -> JobRow], UNCHANGED <<rule, worker, manual>>,
         \A j \in Jobs : job[j].status = "RUNNING" => job'[j] = job[j]
  PROVE  Claims' /\ Fence'
<1>1. Claims'
  BY DEF IInv, Claims
<1>2. \A w \in Workers : worker[w].pc = "commit" =>
        /\ worker[w].job \in Jobs /\ job[worker[w].job].status = "RUNNING"
  BY DEF IInv, Fence, Holds, TypeOK, WorkerState
<1>3. \A w \in Workers : worker'[w].pc = "commit" => Holds(w)' /\ Current(worker[w].job)'
  BY <1>2 DEF IInv, Fence, Holds, Current
<1>4. Fence'
  BY <1>3 DEF IInv, Fence
<1> QED  BY <1>1, <1>4

LEMMA CleanupInv == ASSUME IInv, NEW j \in Jobs, Cleanup(j) PROVE IInv'
<1>1. /\ TypeOK /\ job[j].status # "RUNNING" /\ job' = [job EXCEPT ![j] = NoJob]
      /\ UNCHANGED <<rule, due, cursor, patch, evaluations, worker, manual, ruleLock, trouble>>
  BY DEF IInv, Cleanup, Terminal
<1>2. /\ job' \in [Jobs -> JobRow] /\ job'[j].status = "NONE"
      /\ \A k \in Jobs : k # j => job'[k] = job[k]
  BY <1>1, NoJobType DEF TypeOK
<1>3. TypeOK'
  BY <1>1, <1>2 DEF TypeOK
<1>4. Claims' /\ Fence'
  BY <1>1, <1>2, FenceStays
<1>5. \A k \in Jobs : Evaluated(k)' <=> Evaluated(k)
  BY <1>1, EvaluatedSame
<1>6. Cascade'
  BY <1>1, <1>2, <1>5 DEF IInv, Cascade, Status
<1>7. JobsAgreeWithEvaluations'
  BY <1>1, <1>2, <1>5 DEF IInv, JobsAgreeWithEvaluations
<1>8. PlannedIsPassed'
  BY <1>1, <1>2, <1>5 DEF IInv, PlannedIsPassed, Passed, Status
<1> QED  BY <1>3, <1>4, <1>6, <1>7, <1>8 DEF IInv

LEMMA PendingType ==
  /\ [NoJob EXCEPT !.status = "PENDING"] \in JobRow
  /\ [NoJob EXCEPT !.status = "PENDING"].status = "PENDING"
BY DEF NoJob, JobRow

(* Plan: what is queued was neither queued nor evaluated before, because   *)
(* the cursor had not passed it.                                           *)
LEMMA PlanInv == ASSUME IInv, Plan PROVE IInv'
<1> DEFINE r == [NoJob EXCEPT !.status = "PENDING"]
           New(j) == j[1] \in cursor..due /\ j[2] = rule.revision /\ job[j].status = "NONE"
<1>1. /\ TypeOK /\ rule.exists /\ cursor <= due /\ cursor' = due + 1
      /\ job' = [j \in Jobs |-> IF New(j) THEN r ELSE job[j]]
      /\ UNCHANGED <<rule, due, patch, evaluations, worker, manual, ruleLock, trouble>>
  BY DEF IInv, Plan, NextCursor
<1>2. r \in JobRow /\ r.status = "PENDING"
  BY PendingType
<1> HIDE DEF r
<1>3. /\ job' \in [Jobs -> JobRow]
      /\ \A j \in Jobs : New(j) => job'[j].status = "PENDING"
      /\ \A j \in Jobs : ~New(j) => job'[j] = job[j]
  BY <1>1, <1>2 DEF TypeOK
<1>4. \A j \in Jobs : j[1] \in Nat /\ j[2] \in Nat
  BY QueueAssumption DEF Jobs
<1>5. rule.revision \in Nat /\ cursor \in Nat /\ due \in Nat
  BY <1>1 DEF TypeOK
<1>6. TypeOK'
  BY <1>1, <1>3, <1>5 DEF TypeOK
<1>7. Claims' /\ Fence'
  BY <1>1, <1>3, FenceStays
<1>8. \A j \in Jobs : Evaluated(j)' <=> Evaluated(j)
  BY <1>1, EvaluatedSame
<1>9. \A j \in Jobs : New(j) => ~Evaluated(j)
  BY <1>4, <1>5 DEF IInv, PlannedIsPassed, Passed
<1>10. Cascade'
  BY <1>1 DEF Cascade
<1>11. JobsAgreeWithEvaluations'
  BY <1>3, <1>8, <1>9 DEF IInv, JobsAgreeWithEvaluations
<1>12. PlannedIsPassed'
  <2>1. ASSUME NEW j \in Jobs, Passed(j) \/ New(j)
        PROVE  j[2] < rule.revision \/ (j[2] = rule.revision /\ j[1] < due + 1)
    BY <1>1, <1>4, <1>5, <2>1 DEF Passed
  <2> QED  BY <1>1, <1>3, <1>8, <2>1 DEF IInv, PlannedIsPassed, Passed, Status
<1> QED  BY <1>6, <1>7, <1>10, <1>11, <1>12 DEF IInv

LEMMA RevisedType ==
  ASSUME TypeOK, NEW enabled \in BOOLEAN
  PROVE  /\ Revised(enabled) \in [revision : Nat, enabled : BOOLEAN, exists : BOOLEAN]
         /\ Revised(enabled).exists = rule.exists
         /\ Revised(enabled).revision = rule.revision + 1 /\ rule.revision \in Nat
<1>1. rule \in [revision : Nat, enabled : BOOLEAN, exists : BOOLEAN]
  BY DEF TypeOK
<1>2. \A n \in Nat : LET r == [rule EXCEPT !.revision = n, !.enabled = enabled]
                     IN  /\ r \in [revision : Nat, enabled : BOOLEAN, exists : BOOLEAN]
                         /\ r.exists = rule.exists /\ r.revision = n
  BY <1>1
<1>3. rule.revision \in Nat /\ rule.revision + 1 \in Nat
  BY <1>1
<1>4. Revised(enabled) = [rule EXCEPT !.revision = rule.revision + 1, !.enabled = enabled]
  BY Zenon DEF Revised
<1> QED  BY <1>2, <1>3, <1>4

(* PatchRule: what the revision supersedes is passed, whatever the cursor. *)
LEMMA PatchRuleInv ==
  ASSUME IInv, NEW enabled \in BOOLEAN, PatchRule(enabled)
  PROVE  IInv'
<1>1. /\ TypeOK /\ rule.exists /\ ~RuleLocked
      /\ rule' = Revised(enabled) /\ cursor' = patch.due + 1
      /\ job' = [j \in Jobs |-> IF Superseded(j) THEN Ended(j, "CANCELLED") ELSE job[j]]
      /\ patch' = [pc |-> "idle", due |-> 0]
      /\ UNCHANGED <<due, evaluations, worker, manual, ruleLock, trouble>>
  BY DEF IInv, PatchRule
<1>2. /\ job' \in [Jobs -> JobRow]
      /\ \A j \in Jobs : Superseded(j) => job'[j].status = "CANCELLED"
      /\ \A j \in Jobs : ~Superseded(j) => job'[j] = job[j]
  BY <1>1, EndedType DEF TypeOK
<1>3. /\ rule' \in [revision : Nat, enabled : BOOLEAN, exists : BOOLEAN]
      /\ rule'.exists = rule.exists /\ rule'.revision = rule.revision + 1
      /\ rule.revision \in Nat
  BY <1>1, RevisedType DEF TypeOK
<1>4. cursor' \in Nat /\ patch' \in PatchState
  BY <1>1 DEF TypeOK, PatchState
<1>5. TypeOK'
  BY <1>1, <1>2, <1>3, <1>4 DEF TypeOK
<1>6. Claims' /\ Fence'
  BY <1>1 DEF IInv, Claims, Fence, RuleLocked
<1>7. \A j \in Jobs : Evaluated(j)' <=> Evaluated(j)
  BY <1>1, EvaluatedSame
<1>8. \A j \in Jobs : Superseded(j) => job[j].status = "PENDING"
  BY DEF Superseded
<1>9. Cascade'
  BY <1>1, <1>3 DEF Cascade
<1>10. JobsAgreeWithEvaluations'
  BY <1>2, <1>7, <1>8 DEF IInv, JobsAgreeWithEvaluations
<1>11. PlannedIsPassed'
  <2>1. \A j \in Jobs : j[2] \in Nat
    BY QueueAssumption DEF Jobs
  <2>2. \A j \in Jobs : Passed(j) => Passed(j)'
    BY <1>3, <2>1 DEF Passed
  <2> QED  BY <1>2, <1>7, <1>8, <2>2 DEF IInv, PlannedIsPassed, Status
<1> QED  BY <1>5, <1>6, <1>9, <1>10, <1>11 DEF IInv

LEMMA DeleteRuleInv == ASSUME IInv, DeleteRule PROVE IInv'
<1>1. /\ TypeOK /\ ~RuleLocked
      /\ rule' = [rule EXCEPT !.exists = FALSE]
      /\ job' = [j \in Jobs |-> NoJob] /\ evaluations' = << >>
      /\ patch' = [pc |-> "idle", due |-> 0]
      /\ UNCHANGED <<due, cursor, worker, manual, ruleLock, trouble>>
  BY DEF IInv, DeleteRule
<1>2. /\ job' \in [Jobs -> JobRow]
      /\ \A j \in Jobs : job'[j].status = "NONE" /\ ~Evaluated(j)'
  BY <1>1, NoJobType DEF Evaluated
<1>3. rule' \in [revision : Nat, enabled : BOOLEAN, exists : BOOLEAN] /\ patch' \in PatchState
  BY <1>1 DEF TypeOK, PatchState
<1>4. TypeOK'
  BY <1>1, <1>2, <1>3 DEF TypeOK
<1>5. Claims' /\ Fence'
  BY <1>1 DEF IInv, Claims, Fence, RuleLocked
<1>6. Cascade' /\ JobsAgreeWithEvaluations' /\ PlannedIsPassed'
  BY <1>2 DEF Cascade, JobsAgreeWithEvaluations, PlannedIsPassed, Status
<1> QED  BY <1>4, <1>5, <1>6 DEF IInv

(* A step that changes nothing *)
LEMMA StutterInv == ASSUME IInv, UNCHANGED vars PROVE IInv'
<1>1. TypeOK /\ RowsKeepClaims /\ UNCHANGED vars
  BY SameRows DEF IInv, vars
<1> QED  BY <1>1, Unmoved DEF vars, TypeOK

LEMMA NextInv == IInv /\ [Next]_vars => IInv'
<1> SUFFICES ASSUME IInv, [Next]_vars PROVE IInv'
  OBVIOUS
<1>1. ASSUME NEW w \in Workers, Progress(w) PROVE IInv'
  BY <1>1, ClaimInv, RuleBusyInv, StartInv, LoadRuleInv, AssertClaimInv, CommitInv, SettleInv
     DEF Progress
<1>2. ASSUME NEW w \in Workers,
             Commit(w, FALSE) \/ Fail(w) \/ Heartbeat(w) \/ Shutdown(w) \/ Die(w)
      PROVE  IInv'
  BY <1>2, CommitInv, TroubleInv, HeartbeatInv
<1>3. CASE Tick \/ Fire \/ Plan
  BY <1>3, TickInv, FireInv, PlanInv
<1>4. ASSUME NEW j \in Jobs, Cleanup(j) PROVE IInv'
  BY <1>4, CleanupInv
<1>5. ASSUME NEW enabled \in BOOLEAN, PatchRule(enabled) PROVE IInv'
  BY <1>5, PatchRuleInv
<1>6. CASE DeleteRule \/ PatchBegin \/ EvaluateManually \/ AssertRevision \/ ManualDone
  BY <1>6, DeleteRuleInv, RequestsInv
<1>7. CASE UNCHANGED vars
  BY <1>7, StutterInv
<1> QED  BY <1>1, <1>2, <1>3, <1>4, <1>5, <1>6, <1>7 DEF Next

LEMMA Invariant == Spec => []IInv
<1> QED  BY InitInv, NextInv, PTL DEF Spec

-----------------------------------------------------------------------------
(* The theorems *)

(* Type correctness: every variable stays within its type. *)
THEOREM TypeCorrect == Spec => []TypeOK
<1>1. IInv => TypeOK
  BY DEF IInv
<1> QED  BY <1>1, Invariant, PTL

(* The fence of AssertEvaluationJobClaim is enough for whoever passes it,  *)
(* for any number of executors, tokens, occurrences and revisions.         *)
THEOREM FenceIsEnough == Spec => []FencingSuffices
<1>1. IInv => FencingSuffices
  <2> SUFFICES ASSUME IInv, NEW w \in Workers, worker[w].pc = "commit"
               PROVE  /\ Holds(w) /\ ~Evaluated(worker[w].job)
                      /\ rule.exists /\ rule.enabled /\ rule.revision = worker[w].job[2]
    BY DEF FencingSuffices
  <2>1. Holds(w) /\ Current(worker[w].job) /\ worker[w].job \in Jobs
    BY DEF IInv, Fence, TypeOK, WorkerState
  <2>2. job[worker[w].job].status = "RUNNING"
    BY <2>1 DEF Holds
  <2>3. ~Evaluated(worker[w].job)
    BY <2>1, <2>2 DEF IInv, JobsAgreeWithEvaluations
  <2>4. rule.exists
    BY <2>1, <2>2 DEF IInv, Cascade, Status
  <2> QED  BY <2>1, <2>3, <2>4 DEF Current
<1> QED  BY <1>1, Invariant, PTL

(* The job rows and the evaluation rows never contradict each other. *)
THEOREM JobsAgree == Spec => []JobsAgreeWithEvaluations
<1>1. IInv => JobsAgreeWithEvaluations
  BY DEF IInv
<1> QED  BY <1>1, Invariant, PTL

(* No two executors ever hold the same claim. *)
THEOREM ClaimsExclude == Spec => []ClaimsAreExclusive
<1>1. IInv => ClaimsAreExclusive
  <2> SUFFICES ASSUME IInv, NEW v \in Workers, NEW w \in Workers, v # w,
                      worker[v].pc # "idle", worker[w].pc # "idle", Holds(v), Holds(w),
                      worker[v].job = worker[w].job
               PROVE  FALSE
    BY DEF ClaimsAreExclusive
  <2>1. worker[v].token = worker[w].token
    BY DEF Holds
  <2>2. worker[v].token \in Tokens /\ worker[v].token = NoToken
    BY <2>1 DEF IInv, Claims
  <2> QED  BY <2>2, QueueAssumption
<1> QED  BY <1>1, Invariant, PTL

(* What an executor does leaves the others where they are. *)
LEMMA OthersStay ==
  ASSUME TypeOK, NEW v \in Workers,
         Progress(v) \/ Commit(v, FALSE) \/ Fail(v) \/ Heartbeat(v) \/ Shutdown(v) \/ Die(v)
  PROVE  \A w \in Workers : w # v => worker'[w] = worker[w]
<1>1. worker \in [Workers -> WorkerState]
  BY DEF TypeOK
<1>2. ASSUME NEW j \in Jobs, NEW token \in Tokens, Claim(v, j, token)
      PROVE  \A w \in Workers : w # v => worker'[w] = worker[w]
  BY <1>1, <1>2 DEF Claim
<1>3. CASE RuleBusy(v) \/ Start(v) \/ LoadRule(v) \/ AssertClaim(v)
  BY <1>1, <1>3 DEF RuleBusy, Start, LoadRule, AssertClaim, Settle, GiveUp
<1>4. ASSUME NEW answered \in BOOLEAN, Commit(v, answered)
      PROVE  \A w \in Workers : w # v => worker'[w] = worker[w]
  BY <1>1, <1>4 DEF Commit, Settle, GiveUp
<1>5. CASE SettleClaim(v) \/ Heartbeat(v) \/ Shutdown(v) \/ Die(v)
  BY <1>1, <1>5 DEF SettleClaim, Heartbeat, Shutdown, Die, Settle, GiveUp
<1>6. CASE Fail(v)
  BY <1>1, <1>6 DEF Fail, Settle
<1> QED  BY <1>2, <1>3, <1>4, <1>5, <1>6 DEF Progress

(* An executor whose claim is gone never touches the row again: whatever   *)
(* ends its evaluation, the row is left to whoever claimed it since.       *)
THEOREM LostClaimsStayLost == Spec => LostClaimsAreInert
<1>1. ASSUME IInv, [Next]_vars, NEW w \in Workers,
             worker[w].pc # "idle", ~Holds(w), worker'[w] # worker[w]
      PROVE  job'[worker[w].job] = job[worker[w].job]
  <2>1. TypeOK
    BY <1>1 DEF IInv
  <2>2. PICK v \in Workers :
          \/ Progress(v) \/ Commit(v, FALSE) \/ Fail(v) \/ Heartbeat(v) \/ Shutdown(v) \/ Die(v)
    BY <1>1 DEF Next, vars, Tick, Fire, Plan, Cleanup, PatchBegin, PatchRule, DeleteRule,
                EvaluateManually, AssertRevision, ManualDone
  <2>3. v = w
    BY <1>1, <2>1, <2>2, OthersStay
  <2>4. ~(\E j \in Jobs, token \in Tokens : Claim(w, j, token))
    BY <1>1 DEF Claim
  <2>5. ~Commit(w, TRUE) /\ ~Commit(w, FALSE)
    BY <1>1 DEF Commit
  <2>6. UNCHANGED job
    BY <1>1, <2>2, <2>3, <2>4, <2>5
       DEF Progress, RuleBusy, Start, LoadRule, AssertClaim, SettleClaim, Fail, Heartbeat,
           Shutdown, Die, Leased
  <2> QED  BY <2>6
<1>2. IInv /\ [Next]_vars =>
        [\A w \in Workers :
           worker[w].pc # "idle" /\ ~Holds(w) /\ worker'[w] # worker[w] =>
             job'[worker[w].job] = job[worker[w].job]]_vars
  BY <1>1
<1> QED  BY <1>2, Invariant, PTL DEF Spec, LostClaimsAreInert

-----------------------------------------------------------------------------
(* The queue implements the promise *)

Stages == [j \in Jobs |-> StageOf(j)]

(* A step that leaves j at its stage, or closes it while it is still to be *)
(* evaluated                                                               *)
ClosesAtMost(j) ==
  \/ StageOf(j)' = StageOf(j)
  \/ StageOf(j) \in {"open", "queued"} /\ StageOf(j)' = "closed"

LEMMA StageKept ==
  ASSUME \A j \in Jobs : StageOf(j)' = StageOf(j)
  PROVE  Stages' = Stages
BY DEF Stages

LEMMA StagesClosed ==
  ASSUME \A j \in Jobs : ClosesAtMost(j)
  PROVE  Promise!Next
<1> DEFINE S == {j \in Jobs : StageOf(j) \in {"open", "queued"} /\ StageOf(j)' = "closed"}
<1>1. S \in SUBSET Jobs
  OBVIOUS
<1>2. \A j \in S : Stages[j] \in {"open", "queued"}
  BY DEF Stages
<1>3. Stages' = [j \in Jobs |-> IF j \in S THEN "closed" ELSE Stages[j]]
  BY DEF Stages, ClosesAtMost
<1> HIDE DEF S
<1>4. Promise!Close(S)
  BY <1>2, <1>3 DEF Promise!Close, Promise!Move, Stages
<1> QED  BY <1>1, <1>4 DEF Promise!Next

(* A job that stays what it is, or passes between waiting and running, is  *)
(* at the same stage.                                                      *)
LEMMA StageSame ==
  ASSUME NEW j, UNCHANGED <<rule, cursor>>, Evaluated(j)' <=> Evaluated(j),
         \/ job'[j].status = job[j].status
         \/ {job[j].status, job'[j].status} \subseteq {"PENDING", "RUNNING"}
  PROVE  StageOf(j)' = StageOf(j)
<1>1. job'[j].status \in {"PENDING", "RUNNING"} <=> job[j].status \in {"PENDING", "RUNNING"}
  OBVIOUS
<1> QED  BY <1>1 DEF StageOf, Reachable

LEMMA InitPromise == Init => Promise!Init
<1> SUFFICES ASSUME Init PROVE Promise!Init
  OBVIOUS
<1>1. \A j \in Jobs : j[1] >= 1 /\ (j[2] > 1 \/ j[2] = 1)
  <2>1. \A n \in Nat \ {0} : n >= 1 /\ (n > 1 \/ n = 1)
    OBVIOUS
  <2>2. \A j \in Jobs : j[1] \in Nat \ {0} /\ j[2] \in Nat \ {0}
    BY QueueAssumption DEF Jobs
  <2> QED  BY <2>1, <2>2
<1>2. \A j \in Jobs : StageOf(j) = "open"
  BY <1>1, NoJobType DEF Init, StageOf, Reachable, Evaluated
<1> QED  BY <1>2 DEF Promise!Init

(* The planner queues open occurrences, and no other occurrence moves.     *)
LEMMA PlanPromise == ASSUME IInv, Plan PROVE Promise!Next
<1> DEFINE S == {j \in Jobs : j[1] \in cursor..due /\ j[2] = rule.revision
                             /\ job[j].status = "NONE"}
<1>1. /\ TypeOK /\ rule.exists /\ cursor <= due /\ cursor' = due + 1
      /\ job' = [j \in Jobs |-> IF j \in S THEN [NoJob EXCEPT !.status = "PENDING"] ELSE job[j]]
      /\ UNCHANGED <<rule, evaluations>>
  BY DEF IInv, Plan, NextCursor
<1>2. \A j \in Jobs : j[1] \in Nat /\ j[2] \in Nat
  BY QueueAssumption DEF Jobs
<1>3. rule.revision \in Nat /\ cursor \in Nat /\ due \in Nat
  BY <1>1 DEF TypeOK
<1>4. \A j \in Jobs : Evaluated(j)' <=> Evaluated(j)
  BY <1>1, EvaluatedSame
<1>5. ASSUME NEW j \in S PROVE StageOf(j) = "open" /\ StageOf(j)' = "queued"
  <2>1. j[1] >= cursor /\ j[2] = rule.revision /\ ~Passed(j)
    BY <1>2, <1>3 DEF Passed
  <2>2. ~Evaluated(j)
    BY <2>1 DEF IInv, PlannedIsPassed
  <2>3. job'[j].status = "PENDING"
    BY <1>1, PendingType
  <2>4. StageOf(j) = "open"
    BY <1>1, <2>1, <2>2 DEF StageOf, Reachable
  <2>5. StageOf(j)' = "queued"
    BY <1>1, <1>4, <2>2, <2>3 DEF StageOf
  <2> QED  BY <2>4, <2>5
<1>6. ASSUME NEW j \in Jobs, j \notin S PROVE StageOf(j)' = StageOf(j)
  <2>1. job'[j] = job[j]
    BY <1>1, <1>6
  <2>2. CASE job[j].status # "NONE"
    BY <1>1, <1>4, <2>1, <2>2 DEF StageOf
  <2>3. CASE job[j].status = "NONE"
    <3>1. (j[2] = rule.revision /\ j[1] >= cursor) <=> (j[2] = rule.revision /\ j[1] >= due + 1)
      BY <1>1, <1>2, <1>3, <1>6, <2>3
    <3> QED  BY <1>1, <1>4, <2>1, <3>1 DEF StageOf, Reachable
  <2> QED  BY <2>2, <2>3
<1>7. Promise!Queue(S)
  <2>1. \A j \in S : Stages[j] \in {"open"}
    BY <1>5 DEF Stages
  <2>2. Stages' = [j \in Jobs |-> IF j \in S THEN "queued" ELSE Stages[j]]
    BY <1>5, <1>6 DEF Stages
  <2> HIDE DEF S
  <2> QED  BY <2>1, <2>2 DEF Promise!Queue, Promise!Move, Stages
<1> QED  BY <1>7 DEF Promise!Next

(* A commit evaluates the one occurrence its executor has claimed. *)
LEMMA CommitPromise ==
  ASSUME IInv, NEW w \in Workers, NEW answered \in BOOLEAN, Commit(w, answered)
  PROVE  Promise!Next
<1>0. PICK j \in Jobs : j = worker[w].job
  BY DEF IInv, TypeOK, WorkerState
<1> DEFINE r == Marked(job[j], "SUCCEEDED", NoToken, 0)
<1>1. /\ TypeOK /\ Holds(w) /\ ~Evaluated(j)
      /\ evaluations' = Append(evaluations, j) /\ UNCHANGED <<rule, cursor>>
  BY <1>0 DEF IInv, Commit
<1>2. job' = [job EXCEPT ![j] = r]
  BY <1>0, Zenon DEF Commit, Marked
<1> HIDE DEF r
<1>3. \A k \in Jobs : k # j => job'[k] = job[k]
  BY <1>1, <1>2 DEF TypeOK
<1>4. \A k \in Jobs : Evaluated(k)' <=> Evaluated(k) \/ k = j
  BY <1>1, EvaluatedAfter
<1>5. job[j].status = "RUNNING" /\ rule.exists
  BY <1>0, <1>1 DEF IInv, Holds, Cascade, Status
<1>6. StageOf(j) = "queued" /\ StageOf(j)' = "evaluated"
  BY <1>1, <1>4, <1>5 DEF StageOf
<1>7. \A k \in Jobs : k # j => StageOf(k)' = StageOf(k)
  BY <1>1, <1>3, <1>4, StageSame
<1>8. Promise!Evaluate(j)
  <2>1. \A k \in {j} : Stages[k] \in {"queued"}
    BY <1>1, <1>6 DEF Stages
  <2>2. Stages' = [k \in Jobs |-> IF k \in {j} THEN "evaluated" ELSE Stages[k]]
    BY <1>6, <1>7 DEF Stages
  <2> QED  BY <2>1, <2>2 DEF Promise!Evaluate, Promise!Move, Stages
<1> QED  BY <1>1, <1>8 DEF Promise!Next

(* A settlement returns the job to the queue or closes it for good. *)
LEMMA SettlePromise ==
  ASSUME IInv, NEW w \in Workers, SettleClaim(w)
  PROVE  \A k \in Jobs : ClosesAtMost(k)
<1>0. PICK j \in Jobs : j = worker[w].job
  BY DEF IInv, TypeOK, WorkerState
<1>1. TypeOK /\ worker[w].pc = "settle" /\ UNCHANGED <<rule, cursor, evaluations>>
  BY DEF IInv, SettleClaim
<1>2. \A k \in Jobs : Evaluated(k)' <=> Evaluated(k)
  BY <1>1, EvaluatedSame
<1>3. CASE ~Holds(w)
  <2>1. job' = job
    BY <1>3 DEF SettleClaim
  <2> QED  BY <1>1, <1>2, <2>1, StageSame DEF ClosesAtMost
<1>4. CASE Holds(w)
  <2> DEFINE r == Settled(j, worker[w].attempts, worker[w].verdict)
  <2>1. /\ worker[w].attempts \in Nat
        /\ worker[w].verdict \in {"shutdown", "busy", "obsolete", "failed"}
    BY <1>1 DEF IInv, Claims, TypeOK, WorkerState
  <2>2. r.status \in {"PENDING", "CANCELLED", "FAILED"}
    BY <1>1, <2>1, SettledType
  <2>3. job' = [job EXCEPT ![j] = r]
    BY <1>0, <1>4 DEF SettleClaim
  <2> HIDE DEF r
  <2>4. job'[j] = r /\ \A k \in Jobs : k # j => job'[k] = job[k]
    BY <1>1, <2>3 DEF TypeOK
  <2>5. job[j].status = "RUNNING" /\ ~Evaluated(j) /\ rule.exists
    BY <1>0, <1>4 DEF IInv, Holds, JobsAgreeWithEvaluations, Cascade, Status
  <2>6. StageOf(j) = "queued"
    BY <2>5 DEF StageOf
  <2>7. StageOf(j)' \in {"queued", "closed"}
    BY <1>1, <1>2, <2>2, <2>4, <2>5 DEF StageOf
  <2>8. \A k \in Jobs : k # j => StageOf(k)' = StageOf(k)
    BY <1>1, <1>2, <2>4, StageSame
  <2> QED  BY <2>6, <2>7, <2>8 DEF ClosesAtMost
<1> QED  BY <1>3, <1>4

(* Cleanup forgets a job without reopening its occurrence. *)
LEMMA CleanupPromise ==
  ASSUME IInv, NEW j \in Jobs, Cleanup(j)
  PROVE  \A k \in Jobs : StageOf(k)' = StageOf(k)
<1>1. /\ TypeOK /\ job[j].status \in Terminal /\ job' = [job EXCEPT ![j] = NoJob]
      /\ UNCHANGED <<rule, cursor, evaluations>>
  BY DEF IInv, Cleanup
<1>2. job'[j].status = "NONE" /\ \A k \in Jobs : k # j => job'[k] = job[k]
  BY <1>1, NoJobType DEF TypeOK
<1>3. \A k \in Jobs : Evaluated(k)' <=> Evaluated(k)
  BY <1>1, EvaluatedSame
<1>4. ~Reachable(j)
  <2>1. Passed(j)
    BY <1>1 DEF IInv, PlannedIsPassed, Status, Terminal
  <2>2. j[1] \in Nat /\ j[2] \in Nat /\ cursor \in Nat /\ rule.revision \in Nat
    BY <1>1, QueueAssumption DEF Jobs, TypeOK
  <2> QED  BY <2>1, <2>2 DEF Passed, Reachable
<1>5. ~Reachable(j)'
  BY <1>1, <1>4 DEF Reachable
<1>6. job[j].status \notin {"PENDING", "RUNNING"}
  BY <1>1 DEF Terminal
<1>7. StageOf(j)' = StageOf(j)
  BY <1>1, <1>2, <1>3, <1>4, <1>5, <1>6 DEF StageOf
<1>8. \A k \in Jobs : k # j => StageOf(k)' = StageOf(k)
  BY <1>1, <1>2, <1>3, StageSame
<1> QED  BY <1>7, <1>8

(* A revision closes what waits and what the cursor skips, no more. *)
LEMMA PatchPromise ==
  ASSUME IInv, NEW enabled \in BOOLEAN, PatchRule(enabled)
  PROVE  \A j \in Jobs : ClosesAtMost(j)
<1>1. /\ TypeOK /\ rule.exists /\ rule' = Revised(enabled) /\ evaluations' = evaluations
      /\ job' = [j \in Jobs |-> IF Superseded(j) THEN Ended(j, "CANCELLED") ELSE job[j]]
      /\ cursor' = patch.due + 1
  BY DEF IInv, PatchRule
<1>2. rule'.exists /\ rule'.revision = rule.revision + 1 /\ rule.revision \in Nat
  BY <1>1, RevisedType
<1>3. \A j \in Jobs : Evaluated(j)' <=> Evaluated(j)
  BY <1>1, EvaluatedSame
<1>4. TAKE j \in Jobs
<1>5. j[1] \in Nat /\ j[2] \in Nat
  BY QueueAssumption DEF Jobs
<1>6. Reachable(j)' => Reachable(j)
  BY <1>2, <1>5 DEF Reachable
<1>7. CASE Evaluated(j)
  BY <1>1, <1>2, <1>3, <1>7 DEF StageOf, ClosesAtMost
<1>8. CASE ~Evaluated(j) /\ Superseded(j)
  <2>1. job[j].status = "PENDING"
    BY <1>8 DEF Superseded
  <2>2. job'[j].status = "CANCELLED"
    BY <1>1, <1>8, EndedType
  <2>3. StageOf(j) = "queued" /\ StageOf(j)' = "closed"
    BY <1>1, <1>2, <1>3, <1>8, <2>1, <2>2 DEF StageOf
  <2> QED  BY <2>3 DEF ClosesAtMost
<1>9. CASE ~Evaluated(j) /\ ~Superseded(j)
  <2>1. job'[j] = job[j]
    BY <1>1, <1>9
  <2> QED  BY <1>1, <1>2, <1>3, <1>6, <1>9, <2>1 DEF StageOf, ClosesAtMost
<1> QED  BY <1>7, <1>8, <1>9

(* Deleting the rule closes every occurrence. *)
LEMMA DeletePromise == ASSUME IInv, DeleteRule PROVE Promise!Next
<1>1. ~rule'.exists
  BY DEF IInv, TypeOK, DeleteRule
<1>2. \A j \in Jobs : StageOf(j)' = "closed"
  BY <1>1 DEF StageOf
<1>3. \A j \in Jobs : Stages[j] \in Promise!States
  BY DEF Stages, StageOf, Promise!States
<1>4. Stages' = [j \in Jobs |-> IF j \in Jobs THEN "closed" ELSE Stages[j]]
  BY <1>2 DEF Stages
<1>5. Promise!Delete
  BY <1>3, <1>4 DEF Promise!Delete, Promise!Move, Stages
<1> QED  BY <1>5 DEF Promise!Next

(* Steps that say nothing of any occurrence *)
LEMMA OtherPromise ==
  ASSUME IInv, RowsKeepClaims, UNCHANGED <<rule, cursor, evaluations>>
  PROVE  \A j \in Jobs : StageOf(j)' = StageOf(j)
<1>1. \A j \in Jobs : Evaluated(j)' <=> Evaluated(j)
  BY EvaluatedSame
<1> QED  BY <1>1, StageSame DEF RowsKeepClaims

LEMMA ClaimPromise ==
  ASSUME IInv, NEW w \in Workers, NEW j \in Jobs, NEW token \in Tokens, Claim(w, j, token)
  PROVE  \A k \in Jobs : StageOf(k)' = StageOf(k)
<1> DEFINE r == Marked(job[j], "RUNNING", token, Lease)
<1>1. /\ TypeOK /\ job[j].status \in {"PENDING", "RUNNING"}
      /\ UNCHANGED <<rule, cursor, evaluations>>
  BY DEF IInv, Claim, Claimable
<1>2. job' = [job EXCEPT ![j] = r]
  BY Zenon DEF Claim, Marked
<1>3. r.status = "RUNNING"
  <2>1. job[j] \in JobRow /\ Lease \in Int /\ token \in RowTokens
    BY <1>1, QueueAssumption DEF TypeOK, RowTokens
  <2> QED  BY <2>1, StatusNames, MarkedType
<1> HIDE DEF r
<1>4. job'[j].status = "RUNNING" /\ \A k \in Jobs : k # j => job'[k] = job[k]
  BY <1>1, <1>2, <1>3 DEF TypeOK
<1>5. \A k \in Jobs : Evaluated(k)' <=> Evaluated(k)
  BY <1>1, EvaluatedSame
<1> QED  BY <1>1, <1>4, <1>5, StageSame

(* The promise: queue, leases, retries, crashes and cleanup evaluate every *)
(* occurrence of a revision at most once and never queue it again.         *)
THEOREM QueueKeepsThePromise == Spec => KeepsThePromise
<1>1. ASSUME IInv, [Next]_vars PROVE Promise!Next \/ Stages' = Stages
  <2>1. ASSUME NEW w \in Workers, Progress(w)
        PROVE  Promise!Next \/ Stages' = Stages
    <3>1. ASSUME NEW j \in Jobs, NEW token \in Tokens, Claim(w, j, token)
          PROVE  Stages' = Stages
      BY <1>1, <3>1, ClaimPromise, StageKept
    <3>2. CASE RuleBusy(w) \/ LoadRule(w) \/ AssertClaim(w)
      <4>1. RowsKeepClaims /\ UNCHANGED <<rule, cursor, evaluations>>
        BY <1>1, <3>2, SameRows DEF IInv, RuleBusy, LoadRule, AssertClaim
      <4> QED  BY <1>1, <4>1, OtherPromise, StageKept
    <3>3. CASE Start(w)
      BY <1>1, <3>3, StartKeeps, OtherPromise, StageKept DEF Start
    <3>4. CASE Commit(w, TRUE)
      BY <1>1, <3>4, CommitPromise
    <3>5. CASE SettleClaim(w)
      BY <1>1, <3>5, SettlePromise, StagesClosed
    <3> QED  BY <2>1, <3>1, <3>2, <3>3, <3>4, <3>5 DEF Progress
  <2>2. ASSUME NEW w \in Workers,
               Commit(w, FALSE) \/ Fail(w) \/ Heartbeat(w) \/ Shutdown(w) \/ Die(w)
        PROVE  Promise!Next \/ Stages' = Stages
    <3>1. CASE Commit(w, FALSE)
      BY <1>1, <3>1, CommitPromise
    <3>2. CASE Fail(w) \/ Shutdown(w) \/ Die(w)
      <4>1. RowsKeepClaims /\ UNCHANGED <<rule, cursor, evaluations>>
        BY <1>1, <3>2, SameRows DEF IInv, Fail, Shutdown, Die
      <4> QED  BY <1>1, <4>1, OtherPromise, StageKept
    <3>3. CASE Heartbeat(w)
      BY <1>1, <3>3, HeartbeatKeeps, OtherPromise, StageKept DEF Heartbeat
    <3> QED  BY <2>2, <3>1, <3>2, <3>3
  <2>3. CASE Tick
    <3>1. RowsKeepClaims /\ UNCHANGED <<rule, cursor, evaluations>>
      BY <1>1, <2>3, ElapseType DEF IInv, Tick, RowsKeepClaims
    <3> QED  BY <1>1, <3>1, OtherPromise, StageKept
  <2>4. CASE Plan
    BY <1>1, <2>4, PlanPromise
  <2>5. ASSUME NEW j \in Jobs, Cleanup(j) PROVE Stages' = Stages
    BY <1>1, <2>5, CleanupPromise, StageKept
  <2>6. ASSUME NEW enabled \in BOOLEAN, PatchRule(enabled) PROVE Promise!Next
    BY <1>1, <2>6, PatchPromise, StagesClosed
  <2>7. CASE DeleteRule
    BY <1>1, <2>7, DeletePromise
  <2>8. CASE Fire \/ PatchBegin \/ EvaluateManually \/ AssertRevision \/ ManualDone \/ UNCHANGED vars
    <3>1. RowsKeepClaims /\ UNCHANGED <<rule, cursor, evaluations>>
      BY <1>1, <2>8, SameRows
         DEF IInv, Fire, PatchBegin, EvaluateManually, AssertRevision, ManualDone, vars
    <3> QED  BY <1>1, <3>1, OtherPromise, StageKept
  <2> QED  BY <1>1, <2>1, <2>2, <2>3, <2>4, <2>5, <2>6, <2>7, <2>8 DEF Next
<1>2. IInv /\ [Next]_vars => [Promise!Next]_[j \in Jobs |-> StageOf(j)]
  BY <1>1 DEF Stages
<1> QED  BY <1>2, Invariant, InitPromise, PTL DEF Spec, KeepsThePromise, Promise!Spec

=============================================================================
