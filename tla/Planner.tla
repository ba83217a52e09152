------------------------------ MODULE Planner ------------------------------
(***************************************************************************)
(* The planners of the scheduler: PlanScheduledJobs of                     *)
(* internal/storage/scheduling.go and the pass of internal/worker/worker.go *)
(* that repeats it, over several rules that API requests create and patch  *)
(* meanwhile (internal/storage/rule.go).  What becomes of a queued job is  *)
(* module JobQueue.                                                        *)
(*                                                                         *)
(* An instant is a natural number.  A cron schedule is the distance of its *)
(* occurrences; Never stands for an expression that parses and has none,   *)
(* such as the 30th of February, for which robfig/cron returns the zero    *)
(* time.  The zero time is stored as NULL; both are 0 here.                *)
(***************************************************************************)
EXTENDS Integers, Sequences, FiniteSets, SequencesExt

CONSTANTS
  Rules,            \* ids of cron rules
  Schedules,        \* distances a rule may have, Never among them or not
  Planners,         \* planner loops, one per worker process
  BatchSize,        \* plannerBatchSize
  CatchUp,          \* catchUpWindow
  MaxOccurrences,   \* maxCatchUpPerRule
  MaxClock,         \* bound on the database clock
  MaxRevision,      \* bound on the revisions of a rule
  MaxDeaths         \* bound on the transactions that fail

Never == 0
NULL  == 0

ASSUME PlannerAssumption ==
  /\ IsFiniteSet(Rules) /\ Schedules \subseteq Nat
  /\ BatchSize \in Nat \ {0} /\ CatchUp \in Nat \ {0} /\ MaxOccurrences \in Nat \ {0}
  /\ MaxClock \in Nat /\ MaxRevision \in Nat /\ MaxDeaths \in Nat

VARIABLES
  now,       \* the database clock
  rule,      \* rule[r]: the rule row; revision 0 is no row
  patch,     \* patch[r]: when the PATCH in flight began its transaction, or 0
  jobs,      \* the evaluation_job rows ever inserted
  planner,   \* planner[p]: the pass of p
  deaths     \* how much of MaxDeaths has been used

vars == <<now, rule, patch, jobs, planner, deaths>>

RuleRow == [revision : Nat, enabled : BOOLEAN, every : Schedules \cup {Never}, next : Nat]
Job     == [rule : Rules, revision : Nat, at : Nat]

(* at is now() of the transaction, batch the rules it has locked. *)
PlannerState == [pc : {"idle", "select", "plan"}, at : Nat, batch : SUBSET Rules]

TypeOK ==
  /\ now \in Nat /\ deaths \in Nat
  /\ rule \in [Rules -> RuleRow]
  /\ patch \in [Rules -> Nat]
  /\ jobs \subseteq Job
  /\ planner \in [Planners -> PlannerState]

IdlePlanner == [pc |-> "idle", at |-> 0, batch |-> {}]
Exists(r)   == rule[r].revision > 0

(* Rules that were there before the cursor existed have none.              *)
NoRule == [revision |-> 0, enabled |-> FALSE, every |-> Never, next |-> NULL]
Init ==
  /\ now = 1
  /\ rule \in [Rules -> {NoRule} \cup
                 {[NoRule EXCEPT !.revision = 1, !.enabled = TRUE, !.every = s] : s \in Schedules}]
  /\ patch = [r \in Rules |-> 0]
  /\ jobs = {}
  /\ planner = [p \in Planners |-> IdlePlanner]
  /\ deaths = 0

-----------------------------------------------------------------------------
(* (without nullTime: the zero time is an instant before all others) *)
NextZeroTime(every, t) == IF every = Never THEN -1 ELSE ((t \div every) + 1) * every
(* Schedule.Next, stored through nullTime *)
NextRunAt(every, t) == IF every = Never THEN NULL ELSE ((t \div every) + 1) * every

(* The first occurrence considered: the cursor, or the first one in the    *)
(* window when the cursor has fallen out of it.                            *)
OutOfWindow(next, at) == next + CatchUp < at
StartInWindow(every, at) == NextRunAt(every, at - CatchUp - 1)
First(every, next, at) ==
  IF OutOfWindow(next, at) THEN StartInWindow(every, at) ELSE next

(* The occurrences the loop visits, in order. *)
Visited(every, first, at) ==
  LET from[o \in Nat] == IF o \in 1..at THEN <<o>> \o from[NextRunAt(every, o)] ELSE << >>
  IN from[first]

(* (the newest occurrence is dropped when the buffer is full) *)
KeepOldest(kept, o) == IF Len(kept) = MaxOccurrences THEN kept ELSE Append(kept, o)
Keep(kept, o) ==
  IF Len(kept) = MaxOccurrences THEN Append(Tail(kept), o) ELSE Append(kept, o)

Kept(every, next, at) ==
  FoldLeft(Keep, << >>, Visited(every, First(every, next, at), at))

CursorAfter(every, next, at) ==
  LET first   == First(every, next, at)
      visited == Visited(every, first, at)
  IN IF visited = << >> THEN first ELSE NextRunAt(every, Last(visited))

-----------------------------------------------------------------------------
Tick ==
  /\ now < MaxClock
  /\ now' = now + 1
  /\ UNCHANGED <<rule, patch, jobs, planner, deaths>>

(* A new transaction: from the ticker, or because the last batch was full. *)
Begin(p) ==
  /\ planner[p].pc = "idle"
  /\ planner' = [planner EXCEPT ![p] = [pc |-> "select", at |-> now, batch |-> {}]]
  /\ UNCHANGED <<now, rule, patch, jobs, deaths>>

Locked(r) == \E p \in Planners : planner[p].pc = "plan" /\ r \in planner[p].batch

Selectable(at) ==
  {r \in Rules : /\ Exists(r) /\ rule[r].enabled /\ ~Locked(r)
                 /\ rule[r].next = NULL \/ rule[r].next <= at}

(* ORDER BY next_run_at NULLS FIRST LIMIT batchSize FOR UPDATE SKIP LOCKED *)
SelectDue(p) ==
  /\ planner[p].pc = "select"
  /\ \E batch \in SUBSET Selectable(planner[p].at) :
       LET rest == Selectable(planner[p].at) \ batch IN
       /\ IF rest = {} THEN Cardinality(batch) <= BatchSize
                       ELSE Cardinality(batch) = BatchSize
       /\ \A r \in batch, q \in rest : rule[r].next <= rule[q].next
       /\ planner' = [planner EXCEPT ![p].pc = "plan", ![p].batch = batch]
  /\ UNCHANGED <<now, rule, patch, jobs, deaths>>

(* (a rule without a cursor is passed over) *)
PlannedUninitialized(r, at) ==
  IF rule[r].next = NULL THEN rule[r]
  ELSE [rule[r] EXCEPT !.next = CursorAfter(rule[r].every, rule[r].next, at)]
Planned(r, at) ==
  [rule[r] EXCEPT !.next = IF rule[r].next = NULL THEN NextRunAt(rule[r].every, at)
                           ELSE CursorAfter(rule[r].every, rule[r].next, at)]

NewJobs(r, at) ==
  IF rule[r].next = NULL THEN {}
  ELSE LET kept == Kept(rule[r].every, rule[r].next, at)
       IN {[rule |-> r, revision |-> rule[r].revision, at |-> kept[i]] : i \in DOMAIN kept}

(* Inserts and cursors commit together.  The pass goes on with another     *)
(* transaction as long as its batches are full, else it waits for the      *)
(* ticker.                                                                 *)
PlanBatch(p) ==
  LET at == planner[p].at  batch == planner[p].batch IN
  /\ planner[p].pc = "plan"
  /\ rule' = [r \in Rules |-> IF r \in batch THEN Planned(r, at) ELSE rule[r]]
  /\ jobs' = jobs \cup UNION {NewJobs(r, at) : r \in batch}
  /\ planner' = [planner EXCEPT ![p] =
       IF Cardinality(batch) < BatchSize THEN IdlePlanner
       ELSE [pc |-> "select", at |-> now, batch |-> {}]]
  /\ UNCHANGED <<now, patch, deaths>>

(* The transaction fails or the process dies: nothing is kept. *)
Abort(p) ==
  /\ planner[p].pc # "idle"
  /\ deaths < MaxDeaths
  /\ deaths' = deaths + 1
  /\ planner' = [planner EXCEPT ![p] = IdlePlanner]
  /\ UNCHANGED <<now, rule, patch, jobs>>

(* The time between now() and the insert makes no difference: until the    *)
(* row is there nobody looks at it.                                        *)
CreateRule(r, every, enabled) ==
  /\ ~Exists(r)
  /\ rule' = [rule EXCEPT ![r] = [revision |-> 1, enabled |-> enabled, every |-> every,
                                  next |-> IF enabled THEN NextRunAt(every, now) ELSE NULL]]
  /\ UNCHANGED <<now, patch, jobs, planner, deaths>>

(* now() in patchRule is the start of its transaction, which may then wait *)
(* for a planner to release the row.                                       *)
PatchBegin(r) ==
  /\ Exists(r) /\ rule[r].revision < MaxRevision
  /\ patch[r] = 0
  /\ patch' = [patch EXCEPT ![r] = now]
  /\ UNCHANGED <<now, rule, jobs, planner, deaths>>

(* (the patch does not advance it) *)
RevisionKept(r) == rule[r].revision
RevisionAdvanced(r) == rule[r].revision + 1

PatchRule(r, every, enabled) ==
  /\ patch[r] # 0 /\ ~Locked(r)
  /\ rule' = [rule EXCEPT ![r] =
       [revision |-> RevisionAdvanced(r), enabled |-> enabled, every |-> every,
        next |-> IF enabled THEN NextRunAt(every, patch[r]) ELSE NULL]]
  /\ patch' = [patch EXCEPT ![r] = 0]
  /\ UNCHANGED <<now, jobs, planner, deaths>>

Next ==
  \/ Tick
  \/ \E p \in Planners : Begin(p) \/ SelectDue(p) \/ PlanBatch(p) \/ Abort(p)
  \/ \E r \in Rules :
       \/ PatchBegin(r)
       \/ \E every \in Schedules, enabled \in BOOLEAN :
            CreateRule(r, every, enabled) \/ PatchRule(r, every, enabled)

Spec == Init /\ [][Next]_vars

(* The planner loops run; nothing obliges anyone to fail or to patch. *)
Fairness == \A p \in Planners : WF_vars(Begin(p) \/ SelectDue(p) \/ PlanBatch(p))
FairSpec == Spec /\ Fairness

-----------------------------------------------------------------------------
(* What is queued lies behind the cursor of its revision, so the planners  *)
(* never come by an occurrence twice and ON CONFLICT DO NOTHING has        *)
(* nothing to do, however their transactions and the patches interleave.   *)
QueuedBehindTheCursor ==
  \A j \in jobs :
    Exists(j.rule) /\ j.revision = rule[j.rule].revision /\ rule[j.rule].next # NULL =>
      j.at < rule[j.rule].next

(* A cursor that moves on passes over an occurrence without queueing it    *)
(* only if the occurrence has left the catch-up window or MaxOccurrences   *)
(* newer ones are passed with it; it never passes over the future.         *)
Fires(r, o) == rule[r].every # Never /\ o % rule[r].every = 0
PassedOver(r) == {o \in rule[r].next..(rule'[r].next - 1) : Fires(r, o)}
DropsOnlyTheOldest ==
  [][\A r \in Rules :
       Exists(r) /\ rule'[r].revision = rule[r].revision
         /\ rule[r].next # NULL /\ rule'[r].next # rule[r].next =>
         \A o \in PassedOver(r) :
           /\ o <= now
           /\ \/ [rule |-> r, revision |-> rule[r].revision, at |-> o] \in jobs'
              \/ o + CatchUp < now
              \/ Cardinality({q \in PassedOver(r) : q > o}) >= MaxOccurrences]_vars

(* worker.plan: "Drain every currently-due batch during this planner       *)
(* pass."  A rule that is due, or has no cursor although its schedule      *)
(* fires, is planned.                                                      *)
Waiting(r) ==
  /\ Exists(r) /\ rule[r].enabled /\ rule[r].every # Never
  /\ rule[r].next = NULL \/ rule[r].next <= now
DueRulesArePlanned == \A r \in Rules : []<>~Waiting(r)
=============================================================================
