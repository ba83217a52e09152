------------------------- MODULE RuleSessionsProofs -------------------------
(***************************************************************************)
(* Proofs about RuleSessions, for any rules, job rows, executors, cleaners,*)
(* requests and pool sizes.                                                *)
(***************************************************************************)
EXTENDS RuleSessions, TLAPS

(* What a fence protects, from its first row to the commit: the job of an  *)
(* executor is locked by it and running, the rule of an evaluation about   *)
(* to commit is locked by it and there.  A patch or deletion holds the     *)
(* rule from its first statement to its commit.                            *)
Fences ==
  /\ \A e \in Executors : actor[e].op = "evaluate" /\ actor[e].pc \in {"rule", "commit"} =>
       Owns(e, actor[e].job) /\ job[actor[e].job] = "RUNNING"
  /\ \A x \in Actors : actor[x].op = "evaluate" /\ At(x, "commit") =>
       Owns(x, <<Rule(x)>>) /\ exists[Rule(x)]
  /\ \A x \in Actors : actor[x].op \in {"patch", "delete"} /\ actor[x].pc \in {"pick", "rows"} =>
       Owns(x, <<Rule(x)>>)
  /\ \A c \in Cleaners : actor[c].op # "evaluate"

(* Who may hold which row at which step: an evaluation its job once it has *)
(* asserted its claim and the rule before it commits, a patch its rule and *)
(* the jobs of it that it has come to, and only a deletion any rows.       *)
MayHold(x, row) ==
  \/ actor[x].op \in {"delete", "cleanup"} /\ At(x, "rows")
  \/ actor[x].op = "patch" /\ actor[x].pc \in {"pick", "rows"} /\ row = <<Rule(x)>>
  \/ /\ actor[x].op = "patch" /\ At(x, "rows")
     /\ row \in Jobs \ actor[x].rows /\ RuleOf(row) = Rule(x)
  \/ actor[x].op = "evaluate" /\ actor[x].pc \in {"rule", "commit"} /\ x \in Executors /\ row = actor[x].job
  \/ actor[x].op = "evaluate" /\ At(x, "commit") /\ row = <<Rule(x)>>
Holdings == \A x \in Actors, row \in Rows : Owns(x, row) => MayHold(x, row)

(* The statements that only one kind of transaction comes to; a patch has  *)
(* only jobs of its rule to cancel, and those of them that run have been   *)
(* claimed since it picked them.                                           *)
OnCourse(x) ==
  /\ actor[x].pc \in {"start", "read", "job"} => actor[x].op = "evaluate"
  /\ At(x, "job") => x \in Executors
  /\ At(x, "pick") => actor[x].op = "patch"
  /\ At(x, "rows") => actor[x].op \in {"patch", "delete", "cleanup"}
  /\ actor[x].op = "patch" /\ At(x, "rows") =>
       \A j \in actor[x].rows : RuleOf(j) = Rule(x) /\ (job[j] = "RUNNING" => j \in actor[x].claimed)
Courses == \A x \in Actors : OnCourse(x)

IInv == TypeOK /\ LocksLeaveWithTheEvaluation /\ Fences /\ Holdings /\ Courses

(* Where an actor can be. *)
Pcs == {"idle", "connect", "start", "read", "job", "rule", "pick", "rows", "commit",
        "settle", "update"}

USE DEF Actors, Jobs, Rows, RuleOf

(* An idle actor is well typed. *)
LEMMA IdleType == Idle \in ActorState /\ Idle.op = "none" /\ Idle.pc = "idle"
<1>1. \E j \in Jobs : TRUE
  <2>1. PICK r \in Rules, s \in Slots : TRUE
    BY SessionsAssumption
  <2>2. <<r, s>> \in Jobs
    OBVIOUS
  <2> QED  BY <2>2
<1>2. (CHOOSE j \in Jobs : TRUE) \in Jobs
  BY <1>1
<1> QED  BY <1>2 DEF Idle, ActorState

(* Any job of a rule stands for a request about the rule. *)
LEMMA JobOfRule ==
  ASSUME NEW r \in Rules
  PROVE  /\ (CHOOSE j \in Jobs : RuleOf(j) = r) \in Jobs
         /\ RuleOf(CHOOSE j \in Jobs : RuleOf(j) = r) = r
<1>1. PICK s \in Slots : TRUE
  BY SessionsAssumption
<1>2. <<r, s>> \in Jobs /\ RuleOf(<<r, s>>) = r
  OBVIOUS
<1> QED  BY <1>2

(* The initial state satisfies the invariant. *)
LEMMA InitInv == Init => IInv
<1> SUFFICES ASSUME Init PROVE IInv
  OBVIOUS
<1>1. \A x \in Actors : actor[x] = Idle
  BY DEF Init
<1>2. TypeOK
  BY <1>1, IdleType DEF Init, TypeOK
<1>3. LocksLeaveWithTheEvaluation
  BY DEF Init, LocksLeaveWithTheEvaluation
<1>4. Fences
  BY <1>1, IdleType DEF Fences, At
<1>5. Holdings /\ Courses
  BY <1>1, IdleType, SessionsAssumption DEF Init, Holdings, Courses, OnCourse, Owns, At
<1> QED  BY <1>2, <1>3, <1>4, <1>5 DEF IInv

(* An actor that goes on to another step remains what it was otherwise. *)
LEMMA GoToType ==
  ASSUME NEW x \in Actors, actor \in [Actors -> ActorState], NEW pc \in Pcs, actor' = GoTo(x, pc)
  PROVE  /\ actor' \in [Actors -> ActorState]
         /\ actor'[x].pc = pc
         /\ actor'[x].op = actor[x].op /\ actor'[x].job = actor[x].job
         /\ \A y \in Actors : y # x => actor'[y] = actor[y]
<1>1. \A a \in ActorState : [a EXCEPT !.pc = pc] \in ActorState
  BY DEF ActorState, Pcs
<1>2. [actor[x] EXCEPT !.pc = pc] \in ActorState
  BY <1>1
<1>3. actor' \in [Actors -> ActorState]
  BY <1>2 DEF GoTo
<1>4. actor'[x].pc = pc /\ actor'[x].op = actor[x].op /\ actor'[x].job = actor[x].job
  BY DEF GoTo, ActorState
<1>5. \A y \in Actors : y # x => actor'[y] = actor[y]
  BY DEF GoTo
<1> QED  BY <1>3, <1>4, <1>5

(* So does one that begins to lock job rows, or has one less to lock. *)
LEMMA RowsType ==
  ASSUME NEW x \in Actors, actor \in [Actors -> ActorState], NEW R \in SUBSET Jobs,
         \/ actor' = [actor EXCEPT ![x].pc = "rows", ![x].rows = R]
         \/ actor' = [actor EXCEPT ![x].rows = R] /\ At(x, "rows")
  PROVE  /\ actor' \in [Actors -> ActorState]
         /\ actor'[x].pc = "rows" /\ actor'[x].rows = R
         /\ actor'[x].op = actor[x].op /\ actor'[x].job = actor[x].job
         /\ \A y \in Actors : y # x => actor'[y] = actor[y]
<1>1. \A a \in ActorState : /\ [a EXCEPT !.pc = "rows", !.rows = R] \in ActorState
                           /\ [a EXCEPT !.rows = R] \in ActorState
  <2>1. ASSUME NEW a \in ActorState
        PROVE  [a EXCEPT !.rows = R] \in ActorState
    BY DEF ActorState
  <2>2. ASSUME NEW a \in ActorState
        PROVE  [a EXCEPT !.pc = "rows"] \in ActorState
    BY DEF ActorState
  <2>3. ASSUME NEW a \in ActorState
        PROVE  [a EXCEPT !.pc = "rows", !.rows = R] = [[a EXCEPT !.pc = "rows"] EXCEPT !.rows = R]
    BY DEF ActorState
  <2> QED  BY <2>1, <2>2, <2>3
<1>2. CASE actor' = [actor EXCEPT ![x].pc = "rows", ![x].rows = R]
  <2>1. [actor[x] EXCEPT !.pc = "rows", !.rows = R] \in ActorState
    BY <1>1
  <2>2. actor' \in [Actors -> ActorState]
    BY <1>2, <2>1
  <2>3. actor'[x].pc = "rows" /\ actor'[x].rows = R
        /\ actor'[x].op = actor[x].op /\ actor'[x].job = actor[x].job
        /\ \A y \in Actors : y # x => actor'[y] = actor[y]
    BY <1>2 DEF ActorState
  <2> QED  BY <2>2, <2>3
<1>3. CASE actor' = [actor EXCEPT ![x].rows = R] /\ At(x, "rows")
  <2>1. [actor[x] EXCEPT !.rows = R] \in ActorState
    BY <1>1
  <2>2. actor' \in [Actors -> ActorState]
    BY <1>3, <2>1
  <2>3. actor'[x].pc = "rows" /\ actor'[x].rows = R
        /\ actor'[x].op = actor[x].op /\ actor'[x].job = actor[x].job
        /\ \A y \in Actors : y # x => actor'[y] = actor[y]
    BY <1>3 DEF ActorState, At
  <2> QED  BY <2>2, <2>3
<1> QED  BY <1>2, <1>3

(* An actor that fails is idle or has to settle. *)
LEMMA FailedType ==
  ASSUME NEW x \in Actors, actor \in [Actors -> ActorState], actor' = Failed(x)
  PROVE  /\ actor' \in [Actors -> ActorState]
         /\ actor'[x].pc \in {"idle", "settle"}
         /\ x \notin Executors => actor'[x].op = "none"
         /\ \A y \in Actors : y # x => actor'[y] = actor[y]
<1>1. CASE x \notin Executors
  BY <1>1, IdleType DEF Failed, Ended
<1>2. CASE x \in Executors
  BY <1>2, GoToType DEF Failed, Pcs
<1> QED  BY <1>1, <1>2

(* What the callback of TryWithRuleLock leaves behind: x is idle or has to *)
(* settle, and holds no row and no advisory lock.                          *)
LEMMA LeaveLeaves ==
  ASSUME TypeOK, NEW x \in Actors, NEW failed \in BOOLEAN, Leave(x, failed)
  PROVE  /\ actor' \in [Actors -> ActorState]
         /\ \A y \in Actors : y # x => actor'[y] = actor[y]
         /\ actor'[x].pc \in {"idle", "settle"}
         /\ x \notin Executors => actor'[x].op = "none"
         /\ rowLock' = [row \in Rows |-> IF rowLock[row] = x THEN Nobody ELSE rowLock[row]]
         /\ session' = [r \in Rules |-> IF session[r] = x THEN Nobody ELSE session[r]]
         /\ rowLock' \in [Rows -> Actors \cup {Nobody}]
         /\ session' \in [Rules -> Executors \cup Requests \cup {Nobody}]
         /\ heartbeat' \in [Executors -> {"asleep", "connect", "update"}]
<1>1. actor' \in [Actors -> ActorState] /\ actor'[x].pc \in {"idle", "settle"}
      /\ (x \notin Executors => actor'[x].op = "none")
      /\ \A y \in Actors : y # x => actor'[y] = actor[y]
  <2>1. CASE actor' = Ended(x)
    BY <2>1, IdleType DEF Ended, TypeOK
  <2>2. CASE actor' = Failed(x)
    BY <2>2, FailedType DEF TypeOK
  <2> QED  BY <2>1, <2>2 DEF Leave
<1>2. rowLock' = [row \in Rows |-> IF rowLock[row] = x THEN Nobody ELSE rowLock[row]]
  BY DEF Leave, Without, Owns
<1>3. session' = [r \in Rules |-> IF session[r] = x THEN Nobody ELSE session[r]]
  BY DEF Leave, Unlock
<1>4. heartbeat' \in [Executors -> {"asleep", "connect", "update"}]
  BY DEF Leave, Asleep, TypeOK
<1> QED  BY <1>1, <1>2, <1>3, <1>4 DEF TypeOK

(* An evaluation that ends, however, breaks nothing: only its own locks go. *)
LEMMA LeaveInv ==
  ASSUME IInv, NEW x \in Actors, NEW failed \in BOOLEAN, Leave(x, failed),
         UNCHANGED <<poolSize, exists>>, job' \in [Jobs -> {"NONE", "PENDING", "RUNNING", "TERMINAL"}],
         \A e \in Executors : e # x => job'[actor[e].job] = job[actor[e].job] \/ ~Owns(e, actor[e].job),
         \A j \in Jobs : job'[j] = "RUNNING" => job[j] = "RUNNING"
  PROVE  IInv'
<1> USE DEF IInv
<1>1. /\ \A y \in Actors : y # x => actor'[y] = actor[y]
      /\ actor'[x].pc \in {"idle", "settle"}
      /\ rowLock' = [row \in Rows |-> IF rowLock[row] = x THEN Nobody ELSE rowLock[row]]
      /\ session' = [r \in Rules |-> IF session[r] = x THEN Nobody ELSE session[r]]
  BY LeaveLeaves
<1>2. TypeOK'
  BY LeaveLeaves DEF TypeOK
<1>3. LocksLeaveWithTheEvaluation'
  BY <1>1, SessionsAssumption DEF TypeOK, LocksLeaveWithTheEvaluation, Rule
<1>4. \A y \in Actors : y # x => \A row \in Rows : Owns(y, row) => Owns(y, row)'
  BY <1>1, SessionsAssumption DEF TypeOK, Owns
<1>5. \A y \in Actors : actor[y].job \in Rows /\ <<Rule(y)>> \in Rows
  BY DEF TypeOK, ActorState, Rule
<1>6. Fences'
  <2>1. \A e \in Executors : actor'[e].op = "evaluate" /\ actor'[e].pc \in {"rule", "commit"} =>
          Owns(e, actor[e].job)' /\ job'[actor'[e].job] = "RUNNING"
    <3> SUFFICES ASSUME NEW e \in Executors, actor'[e].op = "evaluate", actor'[e].pc \in {"rule", "commit"}
                 PROVE  Owns(e, actor[e].job)' /\ job'[actor'[e].job] = "RUNNING"
      OBVIOUS
    <3>1. e # x /\ actor'[e] = actor[e]
      BY <1>1
    <3>2. Owns(e, actor[e].job) /\ job[actor[e].job] = "RUNNING"
      BY <3>1 DEF Fences
    <3>3. actor[e].job \in Rows /\ rowLock[actor[e].job] = e /\ e \in Actors
      BY <1>5, <3>2 DEF Owns
    <3>4. rowLock'[actor[e].job] = e
      BY <1>1, <3>1, <3>3
    <3>5. job'[actor[e].job] = "RUNNING"
      BY <3>1, <3>2
    <3> QED  BY <3>1, <3>4, <3>5 DEF Owns
  <2>2. \A y \in Actors : actor'[y].op = "evaluate" /\ At(y, "commit")' =>
          Owns(y, <<Rule(y)>>)' /\ exists'[Rule(y)']
    BY <1>1, <1>4, <1>5 DEF Fences, At, Rule
  <2>3. \A y \in Actors : actor'[y].op \in {"patch", "delete"} /\ actor'[y].pc \in {"pick", "rows"} =>
          Owns(y, <<Rule(y)>>)'
    BY <1>1, <1>4, <1>5 DEF Fences, At, Rule
  <2>4. \A c \in Cleaners : actor'[c].op # "evaluate"
    BY LeaveLeaves, <1>1, SessionsAssumption DEF Fences
  <2> QED  BY <2>1, <2>2, <2>3, <2>4 DEF Fences
<1>7. Holdings'
  <2> SUFFICES ASSUME NEW y \in Actors, NEW row \in Rows, rowLock'[row] = y
               PROVE  MayHold(y, row)'
    BY DEF Holdings, Owns
  <2>1. y # x /\ rowLock[row] = y
    BY <1>1, SessionsAssumption
  <2>2. MayHold(y, row)
    BY <2>1 DEF Holdings, Owns
  <2>3. actor'[y] = actor[y]
    BY <1>1, <2>1
  <2> QED  BY <2>2, <2>3 DEF MayHold, At, Rule
<1>8. Courses'
  <2> SUFFICES ASSUME NEW y \in Actors, y # x PROVE OnCourse(y)'
    BY <1>1 DEF Courses, OnCourse, At
  <2>1. OnCourse(y) /\ actor'[y] = actor[y] /\ actor[y].rows \subseteq Jobs
    BY <1>1 DEF Courses, TypeOK, ActorState
  <2> QED  BY <2>1 DEF OnCourse, At, Rule
<1> QED  BY <1>2, <1>3, <1>6, <1>7, <1>8

(* y is where it was; jobs that it has picked may have been claimed. *)
Keeps(y) ==
  /\ actor'[y].op = actor[y].op /\ actor'[y].pc = actor[y].pc
  /\ actor'[y].job = actor[y].job /\ actor'[y].rows = actor[y].rows
  /\ actor[y].claimed \subseteq actor'[y].claimed

(* The statements of one actor: a step of x leaves the locks of the others *)
(* alone, changes no row that others have locked, is noticed by a patch    *)
(* that has picked the job it claims, and puts x where it keeps its side   *)
(* of the invariant.                                                       *)
OwnStep(x) ==
  /\ \A y \in Actors : y # x => actor'[y] = actor[y] \/ Keeps(y)
  /\ \A y \in Actors, j \in Jobs :
       y # x /\ Picked(y, j) /\ job'[j] = "RUNNING" /\ job[j] # "RUNNING" => j \in actor'[y].claimed
  /\ \A y \in Actors, row \in Rows : y # x /\ rowLock[row] = y => rowLock'[row] = y
  /\ \A e \in Executors : e # x /\ Owns(e, actor[e].job) => job'[actor[e].job] = job[actor[e].job]
  /\ \A y \in Actors : y # x /\ Owns(y, <<Rule(y)>>) => exists'[Rule(y)] = exists[Rule(y)]
  /\ \A r \in Rules : session'[r] \in {Nobody, session[r], x}
  /\ \A r \in Rules : session'[r] = x =>
       /\ actor'[x].op = "evaluate" /\ RuleOf(actor'[x].job) = r
       /\ actor'[x].pc \in {"start", "read", "job", "rule", "commit"}
  /\ x \in Executors /\ actor'[x].op = "evaluate" /\ actor'[x].pc \in {"rule", "commit"} =>
       rowLock'[actor'[x].job] = x /\ job'[actor'[x].job] = "RUNNING"
  /\ actor'[x].op = "evaluate" /\ actor'[x].pc = "commit" =>
       rowLock'[<<RuleOf(actor'[x].job)>>] = x /\ exists'[RuleOf(actor'[x].job)]
  /\ actor'[x].op \in {"patch", "delete"} /\ actor'[x].pc \in {"pick", "rows"} =>
       rowLock'[<<RuleOf(actor'[x].job)>>] = x
  /\ x \in Cleaners => actor'[x].op # "evaluate"
  /\ \A y \in Actors, row \in Rows : y # x /\ rowLock'[row] = y => rowLock[row] = y
  /\ \A row \in Rows : rowLock'[row] = x => MayHold(x, row)'
  /\ OnCourse(x)'

(* Such a step keeps the invariant. *)
LEMMA OwnInv ==
  ASSUME IInv, NEW x \in Actors, TypeOK', OwnStep(x)
  PROVE  IInv'
<1> USE DEF IInv, OwnStep
<1>1. \A y \in Actors : actor[y].job \in Rows /\ <<Rule(y)>> \in Rows
  BY DEF TypeOK, ActorState, Rule
<1>k. \A y \in Actors : y # x => Keeps(y)
  BY DEF Keeps
<1>2. LocksLeaveWithTheEvaluation'
  BY <1>k, SessionsAssumption DEF TypeOK, LocksLeaveWithTheEvaluation, Rule, Keeps
<1>3. \A e \in Executors : actor'[e].op = "evaluate" /\ actor'[e].pc \in {"rule", "commit"} =>
        rowLock'[actor'[e].job] = e /\ job'[actor'[e].job] = "RUNNING"
  <2> SUFFICES ASSUME NEW e \in Executors, e # x,
                      actor'[e].op = "evaluate", actor'[e].pc \in {"rule", "commit"}
               PROVE  rowLock'[actor'[e].job] = e /\ job'[actor'[e].job] = "RUNNING"
    OBVIOUS
  <2>2. actor'[e].op = actor[e].op /\ actor'[e].pc = actor[e].pc /\ actor'[e].job = actor[e].job
    BY <1>k DEF Keeps
  <2>1. Owns(e, actor[e].job) /\ job[actor[e].job] = "RUNNING"
    BY <2>2 DEF Fences
  <2>3. rowLock'[actor[e].job] = e
    <3>1. actor[e].job \in Rows /\ rowLock[actor[e].job] = e
      BY <1>1, <2>1 DEF Owns
    <3> QED  BY <3>1
  <2>4. job'[actor[e].job] = "RUNNING"
    BY <2>1
  <2> QED  BY <2>2, <2>3, <2>4
<1>4. \A y \in Actors : actor'[y].op = "evaluate" /\ actor'[y].pc = "commit" =>
        rowLock'[<<RuleOf(actor'[y].job)>>] = y /\ exists'[RuleOf(actor'[y].job)]
  <2> SUFFICES ASSUME NEW y \in Actors, y # x, actor'[y].op = "evaluate", actor'[y].pc = "commit"
               PROVE  rowLock'[<<RuleOf(actor'[y].job)>>] = y /\ exists'[RuleOf(actor'[y].job)]
    OBVIOUS
  <2>2. actor'[y].op = actor[y].op /\ actor'[y].pc = actor[y].pc /\ actor'[y].job = actor[y].job
    BY <1>k DEF Keeps
  <2>1. Owns(y, <<Rule(y)>>) /\ exists[Rule(y)]
    BY <2>2 DEF Fences, At
  <2>3. rowLock'[<<Rule(y)>>] = y
    BY <1>1, <2>1 DEF Owns
  <2>4. exists'[Rule(y)]
    BY <2>1
  <2> QED  BY <2>2, <2>3, <2>4 DEF Rule
<1>5. \A y \in Actors : actor'[y].op \in {"patch", "delete"} /\ actor'[y].pc \in {"pick", "rows"} =>
        rowLock'[<<RuleOf(actor'[y].job)>>] = y
  <2> SUFFICES ASSUME NEW y \in Actors, y # x,
                      actor'[y].op \in {"patch", "delete"}, actor'[y].pc \in {"pick", "rows"}
               PROVE  rowLock'[<<RuleOf(actor'[y].job)>>] = y
    OBVIOUS
  <2>2. actor'[y].op = actor[y].op /\ actor'[y].pc = actor[y].pc /\ actor'[y].job = actor[y].job
    BY <1>k DEF Keeps
  <2>1. Owns(y, <<Rule(y)>>)
    BY <2>2 DEF Fences
  <2>3. rowLock'[<<Rule(y)>>] = y
    BY <1>1, <2>1 DEF Owns
  <2> QED  BY <2>2, <2>3 DEF Rule
<1>6. \A c \in Cleaners : actor'[c].op # "evaluate"
  BY <1>k DEF Fences, Keeps
<1>7. Fences'
  BY <1>3, <1>4, <1>5, <1>6 DEF Fences, At, Owns, Rule
<1>8. Holdings'
  <2> SUFFICES ASSUME NEW y \in Actors, y # x, NEW row \in Rows, rowLock'[row] = y
               PROVE  MayHold(y, row)'
    BY DEF Holdings, Owns
  <2>1. MayHold(y, row)
    BY DEF Holdings, Owns
  <2>2. Keeps(y)
    BY <1>k
  <2> QED  BY <2>1, <2>2 DEF MayHold, At, Rule, Keeps
<1>9. Courses'
  <2> SUFFICES ASSUME NEW y \in Actors, y # x PROVE OnCourse(y)'
    BY DEF Courses
  <2>1. OnCourse(y) /\ Keeps(y) /\ actor[y].rows \subseteq Jobs
    BY <1>k DEF Courses, TypeOK, ActorState
  <2>2. ASSUME actor[y].op = "patch", At(y, "rows"), NEW j \in actor[y].rows
        PROVE  RuleOf(j) = Rule(y) /\ (job'[j] = "RUNNING" => j \in actor'[y].claimed)
    <3>1. RuleOf(j) = Rule(y) /\ (job[j] = "RUNNING" => j \in actor[y].claimed)
      BY <2>1, <2>2 DEF OnCourse
    <3>2. j \in Jobs /\ Picked(y, j)
      BY <2>1, <2>2 DEF Picked
    <3>3. actor[y].claimed \subseteq actor'[y].claimed
      BY <2>1 DEF Keeps
    <3> QED  BY <3>1, <3>2, <3>3
  <2> QED  BY <2>1, <2>2 DEF OnCourse, At, Rule, Keeps
<1> QED  BY <1>2, <1>7, <1>8, <1>9

(* Every step keeps the invariant. *)
LEMMA StepInv == IInv /\ [Next]_vars => IInv'
<1> SUFFICES ASSUME IInv, [Next]_vars PROVE IInv'
  OBVIOUS
<1> USE SessionsAssumption
<1>t. TypeOK /\ actor \in [Actors -> ActorState]
  BY DEF IInv, TypeOK
<1>j. \A x \in Actors : actor[x].job \in Jobs /\ actor[x].job \in Rows /\ Rule(x) \in Rules
                        /\ <<Rule(x)>> \in Rows
  BY <1>t DEF ActorState, Rule
<1>s. \A x \in Actors : (\A r \in Rules : session[r] = x => actor[x].op = "evaluate" /\ Rule(x) = r
                           /\ actor[x].pc \in {"start", "read", "job", "rule", "commit"})
  BY SessionsAssumption DEF IInv, LocksLeaveWithTheEvaluation
<1>c. \A x \in Cleaners : actor[x].op # "evaluate"
  BY DEF IInv, Fences
<1>h. \A x \in Actors, row \in Rows : rowLock[row] = x => MayHold(x, row)
  BY DEF IInv, Holdings, Owns
<1>n. \A x \in Actors : actor[x].pc \notin {"rule", "commit", "pick", "rows"} => \A row \in Rows : rowLock[row] # x
  BY <1>h DEF MayHold, At
<1>o. \A x \in Actors : OnCourse(x)
  BY DEF IInv, Courses
<1>g. ASSUME NEW x \in Actors, NEW pc \in Pcs \ {"rule", "commit", "pick", "rows"}, actor' = GoTo(x, pc),
             actor[x].pc \notin {"rule", "commit", "pick", "rows"},
             pc \in {"start", "read", "job"} => actor[x].op = "evaluate",
             pc = "job" => x \in Executors,
             \A r \in Rules : session[r] = x => pc \in {"start", "read", "job"},
             UNCHANGED <<poolSize, exists, job, session, rowLock>>,
             heartbeat' \in [Executors -> {"asleep", "connect", "update"}]
      PROVE  IInv'
  <2>1. actor' \in [Actors -> ActorState] /\ actor'[x].pc = pc
        /\ actor'[x].op = actor[x].op /\ actor'[x].job = actor[x].job
        /\ \A y \in Actors : y # x => actor'[y] = actor[y]
    BY <1>g, <1>t, GoToType
  <2>2. TypeOK'
    BY <1>g, <1>t, <2>1 DEF TypeOK
  <2>3. \A row \in Rows : rowLock'[row] # x
    BY <1>g, <1>n
  <2>4. OnCourse(x)'
    BY <1>g, <2>1 DEF OnCourse, At
  <2>5. OwnStep(x)
    BY <1>g, <1>s, <1>c, <2>1, <2>3, <2>4 DEF OwnStep, Rule, Pcs
  <2> QED  BY <2>2, <2>5, OwnInv
<1>e. ASSUME NEW x \in Actors, actor' = Ended(x)
      PROVE  /\ actor' \in [Actors -> ActorState]
             /\ actor'[x].op = "none" /\ OnCourse(x)'
             /\ \A y \in Actors : y # x => actor'[y] = actor[y]
  BY <1>e, <1>t, IdleType DEF Ended, OnCourse, At
<1>1. ASSUME NEW j \in Jobs, Plan(j) PROVE IInv'
  <2>1. TypeOK'
    BY <1>1, <1>t DEF Plan, TypeOK
  <2>2. Fences'
    BY <1>1, <1>t, <1>j DEF Plan, IInv, Fences, TypeOK, Owns, At, Rule
  <2>3. Holdings'
    BY <1>1 DEF Plan, IInv, Holdings, Owns, MayHold, At, Rule
  <2>4. \A i \in Jobs : job'[i] = "RUNNING" => job[i] = "RUNNING"
    BY <1>1, <1>t DEF Plan, TypeOK
  <2>5. actor' = actor /\ \A x \in Actors : actor[x].rows \subseteq Jobs
    BY <1>1, <1>t DEF Plan, ActorState
  <2>6. Courses'
    BY <1>o, <2>4, <2>5 DEF Courses, OnCourse, At, Rule
  <2> QED  BY <1>1, <2>1, <2>2, <2>3, <2>6 DEF Plan, IInv, LocksLeaveWithTheEvaluation, Rule
<1>2. ASSUME NEW e \in Executors, NEW j \in Jobs, Claim(e, j) PROVE IInv'
  <2>1. /\ actor'[e] = [Idle EXCEPT !.op = "evaluate", !.pc = "connect", !.job = j]
        /\ actor' = [x \in Actors |-> actor'[x]]
        /\ \A y \in Actors : y # e =>
             actor'[y] = IF Picked(y, j) THEN [actor[y] EXCEPT !.claimed = @ \cup {j}] ELSE actor[y]
    BY <1>2, <1>t DEF Claim
  <2>2. actor'[e] \in ActorState /\ actor'[e].pc = "connect" /\ actor'[e].op = "evaluate"
    BY <2>1, IdleType DEF ActorState
  <2>a. ASSUME NEW y \in Actors, y # e
        PROVE  actor'[y] \in ActorState /\ Keeps(y) /\ (Picked(y, j) => j \in actor'[y].claimed)
    <3>1. ASSUME NEW a \in ActorState, NEW b, b = [a EXCEPT !.claimed = @ \cup {j}]
          PROVE  /\ b \in ActorState /\ b.op = a.op /\ b.pc = a.pc /\ b.job = a.job /\ b.rows = a.rows
                 /\ a.claimed \subseteq b.claimed /\ j \in b.claimed
      BY <3>1 DEF ActorState
    <3>2. CASE Picked(y, j)
      <4>1. actor'[y] = [actor[y] EXCEPT !.claimed = @ \cup {j}] /\ actor[y] \in ActorState
        BY <1>t, <2>1, <2>a, <3>2
      <4> QED  BY <3>1, <4>1 DEF Keeps
    <3>3. CASE ~Picked(y, j)
      <4>1. actor'[y] = actor[y] /\ actor[y] \in ActorState
        BY <1>t, <2>1, <2>a, <3>3
      <4> QED  BY <3>3, <4>1 DEF Keeps
    <3> QED  BY <3>2, <3>3
  <2>b. actor' \in [Actors -> ActorState]
    BY <2>1, <2>2, <2>a
  <2>3. TypeOK'
    BY <1>2, <1>t, <2>b DEF Claim, TypeOK
  <2>4. \A r \in Rules : session'[r] = session[r] /\ session'[r] # e
    BY <1>2, <1>s DEF Claim, At
  <2>5. \A x \in Executors : Owns(x, actor[x].job) => job'[actor[x].job] = job[actor[x].job]
    BY <1>2, <1>t, <1>j DEF Claim, TypeOK, Owns, RowFree
  <2>6. \A row \in Rows : rowLock'[row] = rowLock[row] /\ rowLock[row] # e
    BY <1>2, <1>n DEF Claim, At
  <2>7. OnCourse(e)'
    BY <2>2 DEF OnCourse, At
  <2>c. \A i \in Jobs : i # j => job'[i] = job[i]
    BY <1>2, <1>t DEF Claim, TypeOK
  <2>8. OwnStep(e)
    BY <1>2, <2>a, <2>c, <2>2, <2>4, <2>5, <2>6, <2>7 DEF Claim, OwnStep
  <2> QED  BY <2>3, <2>8, OwnInv
<1>3. ASSUME NEW q \in Requests, NEW op \in {"evaluate", "patch", "delete"}, NEW r \in Rules,
             Receive(q, op, r)
      PROVE  IInv'
  <2> DEFINE j == CHOOSE j \in Jobs : RuleOf(j) = r
             pc == IF op = "evaluate" THEN "connect" ELSE "rule"
  <2>0. j \in Jobs
    BY JobOfRule
  <2> HIDE DEF j
  <2>1. actor'[q] = [Idle EXCEPT !.op = op, !.pc = pc, !.job = j]
        /\ \A y \in Actors : y # q => actor'[y] = actor[y]
    BY <1>3, <1>t DEF Receive, j
  <2>2. actor'[q] \in ActorState /\ actor'[q].pc = pc /\ actor'[q].op = op
    BY <2>0, <2>1, IdleType DEF ActorState
  <2>3. TypeOK'
    BY <1>3, <1>t, <2>1, <2>2 DEF Receive, TypeOK
  <2>4. \A s \in Rules : session'[s] = session[s] /\ session'[s] # q
    BY <1>3, <1>s DEF Receive, At
  <2>5. \A row \in Rows : rowLock'[row] = rowLock[row] /\ rowLock[row] # q
    BY <1>3, <1>n DEF Receive, At
  <2>6. OnCourse(q)'
    BY <2>2 DEF OnCourse, At
  <2>7. OwnStep(q)
    BY <1>3, <2>1, <2>2, <2>4, <2>5, <2>6 DEF Receive, OwnStep
  <2> QED  BY <2>3, <2>7, OwnInv
<1>4. ASSUME NEW x \in Actors, TryRuleLock(x) PROVE IInv'
  <2>1. CASE session[Rule(x)] = Nobody
    <3> DEFINE pc == IF x \in Executors THEN "start" ELSE "read"
    <3>1. actor' = GoTo(x, pc) /\ session' = [session EXCEPT ![Rule(x)] = x]
      BY <1>4, <2>1 DEF TryRuleLock
    <3>2. actor' \in [Actors -> ActorState] /\ actor'[x].pc \in {"start", "read"}
          /\ actor'[x].op = "evaluate" /\ actor'[x].job = actor[x].job
          /\ \A y \in Actors : y # x => actor'[y] = actor[y]
      BY <1>4, <1>t, <3>1, GoToType DEF Pcs, TryRuleLock
    <3>3. x \in Executors \cup Requests
      BY <1>4, <1>c DEF TryRuleLock
    <3>4. TypeOK'
      BY <1>4, <1>t, <1>j, <2>1, <3>1, <3>2, <3>3 DEF TryRuleLock, TypeOK
    <3>5. \A r \in Rules : r # Rule(x) => session[r] # x
      BY <1>s
    <3>6. \A row \in Rows : rowLock'[row] = rowLock[row] /\ rowLock[row] # x
      BY <1>4, <1>n DEF TryRuleLock, At
    <3>7. OnCourse(x)'
      BY <3>2 DEF OnCourse, At
    <3>8. OwnStep(x)
      BY <1>4, <1>c, <1>t, <2>1, <3>1, <3>2, <3>5, <3>6, <3>7 DEF TryRuleLock, OwnStep, Rule, TypeOK
    <3> QED  BY <3>4, <3>8, OwnInv
  <2>2. CASE session[Rule(x)] # Nobody
    <3>1. actor' = Failed(x) /\ UNCHANGED session
      BY <1>4, <2>2 DEF TryRuleLock
    <3>2. actor' \in [Actors -> ActorState] /\ actor'[x].pc \in {"idle", "settle"}
          /\ \A y \in Actors : y # x => actor'[y] = actor[y]
      BY <1>t, <3>1, FailedType
    <3>3. TypeOK'
      BY <1>4, <1>t, <2>2, <3>2 DEF TryRuleLock, TypeOK, Asleep
    <3>4. \A r \in Rules : session[r] # x
      BY <1>4, <1>s DEF TryRuleLock, At
    <3>5. \A row \in Rows : rowLock'[row] = rowLock[row] /\ rowLock[row] # x
      BY <1>4, <1>n DEF TryRuleLock, At
    <3>6. OnCourse(x)'
      BY <3>2 DEF OnCourse, At
    <3>7. OwnStep(x)
      BY <1>4, <1>c, <2>2, <3>1, <3>2, <3>4, <3>5, <3>6 DEF TryRuleLock, OwnStep
    <3> QED  BY <3>3, <3>7, OwnInv
  <2> QED  BY <2>1, <2>2
<1>5. ASSUME NEW x \in Actors, StartJob(x) PROVE IInv'
  <2>1. CASE job[actor[x].job] = "RUNNING"
    <3>1. actor' = GoTo(x, "read") /\ UNCHANGED <<poolSize, exists, job, session, rowLock, heartbeat>>
      BY <1>5, <2>1 DEF StartJob
    <3>2. actor[x].pc = "start" /\ actor[x].op = "evaluate"
      BY <1>5, <1>o DEF StartJob, At, OnCourse
    <3> QED  BY <1>t, <1>g, <3>1, <3>2 DEF Pcs, TypeOK
  <2>2. CASE job[actor[x].job] # "RUNNING"
    BY <1>5, <1>t, <2>2, LeaveInv DEF StartJob, TypeOK
  <2> QED  BY <2>1, <2>2
<1>6. ASSUME NEW x \in Actors, ReadEnds(x) PROVE IInv'
  <2>0. actor[x].pc = "read" /\ actor[x].op = "evaluate"
    BY <1>6, <1>o DEF ReadEnds, At, OnCourse
  <2>1. CASE x \in Executors
    <3>1. actor' = GoTo(x, "job") /\ UNCHANGED <<poolSize, exists, job, session, rowLock, heartbeat>>
      BY <1>6, <2>1 DEF ReadEnds
    <3> QED  BY <1>t, <1>g, <2>0, <2>1, <3>1 DEF Pcs, TypeOK
  <2>2. CASE x \notin Executors
    <3>1. actor' = GoTo(x, "rule") /\ UNCHANGED <<poolSize, exists, job, session, rowLock, heartbeat>>
      BY <1>6, <2>2 DEF ReadEnds
    <3>2. actor' \in [Actors -> ActorState] /\ actor'[x].pc = "rule"
          /\ actor'[x].op = actor[x].op /\ actor'[x].job = actor[x].job
          /\ \A y \in Actors : y # x => actor'[y] = actor[y]
      BY <1>t, <3>1, GoToType DEF Pcs
    <3>3. TypeOK'
      BY <1>t, <3>1, <3>2 DEF TypeOK
    <3>4. \A row \in Rows : rowLock'[row] = rowLock[row] /\ rowLock[row] # x
      BY <1>n, <2>0, <3>1
    <3>5. OnCourse(x)'
      BY <3>2 DEF OnCourse, At
    <3>6. OwnStep(x)
      BY <1>s, <1>c, <2>2, <3>1, <3>2, <3>4, <3>5 DEF OwnStep, Rule
    <3> QED  BY <3>3, <3>6, OwnInv
  <2> QED  BY <2>1, <2>2
<1>7. ASSUME NEW x \in Actors, LockJob(x) PROVE IInv'
  <2>1. CASE job[actor[x].job] = "RUNNING"
    <3>1. actor' = GoTo(x, "rule") /\ rowLock' = [rowLock EXCEPT ![actor[x].job] = x]
          /\ rowLock[actor[x].job] = Nobody
          /\ UNCHANGED <<poolSize, exists, job, session, heartbeat>>
      BY <1>7, <2>1 DEF LockJob, LockRow, RowFree
    <3>2. actor' \in [Actors -> ActorState] /\ actor'[x].pc = "rule"
          /\ actor'[x].op = actor[x].op /\ actor'[x].job = actor[x].job
          /\ \A y \in Actors : y # x => actor'[y] = actor[y]
      BY <1>t, <3>1, GoToType DEF Pcs
    <3>3. TypeOK'
      BY <1>t, <3>1, <3>2 DEF TypeOK
    <3>4. \A y \in Actors, row \in Rows : y # x /\ rowLock[row] = y => rowLock'[row] = y
      BY <1>t, <3>1 DEF TypeOK
    <3>5. rowLock'[actor'[x].job] = x
      BY <1>t, <1>j, <3>1, <3>2 DEF TypeOK
    <3>6. actor[x].pc = "job" /\ actor[x].op = "evaluate" /\ x \in Executors
      BY <1>7, <1>o DEF LockJob, At, OnCourse
    <3>7. \A row \in Rows : rowLock[row] # x /\ (rowLock'[row] = rowLock[row] \/ row = actor[x].job)
      BY <1>t, <1>n, <3>1, <3>6 DEF TypeOK
    <3>8. \A row \in Rows : rowLock'[row] = x => MayHold(x, row)'
      BY <3>2, <3>6, <3>7 DEF MayHold
    <3>9. \A y \in Actors, row \in Rows : y # x /\ rowLock'[row] = y => rowLock[row] = y
      BY <3>2, <3>5, <3>7
    <3>10. OnCourse(x)'
      BY <3>2 DEF OnCourse, At
    <3>11. OwnStep(x)
      BY <1>s, <1>c, <2>1, <3>1, <3>2, <3>4, <3>5, <3>8, <3>9, <3>10 DEF OwnStep, Rule
    <3> QED  BY <3>3, <3>11, OwnInv
  <2>2. CASE job[actor[x].job] # "RUNNING"
    BY <1>7, <1>t, <2>2, LeaveInv DEF LockJob, TypeOK
  <2> QED  BY <2>1, <2>2
<1>8. ASSUME NEW x \in Actors, LockRuleRow(x) PROVE IInv'
  <2>1. CASE exists[Rule(x)]
    <3>1. actor' = GoTo(x, "commit") /\ rowLock' = [rowLock EXCEPT ![<<Rule(x)>>] = x]
          /\ rowLock[<<Rule(x)>>] = Nobody /\ actor[x].op = "evaluate" /\ actor[x].pc = "rule"
          /\ UNCHANGED <<poolSize, exists, job, session, heartbeat>>
      BY <1>8, <2>1 DEF LockRuleRow, LockRow, RowFree, At
    <3>2. actor' \in [Actors -> ActorState] /\ actor'[x].pc = "commit"
          /\ actor'[x].op = actor[x].op /\ actor'[x].job = actor[x].job
          /\ \A y \in Actors : y # x => actor'[y] = actor[y]
      BY <1>t, <3>1, GoToType DEF Pcs
    <3>3. TypeOK'
      BY <1>t, <1>j, <3>1, <3>2 DEF TypeOK
    <3>4. \A y \in Actors, row \in Rows : y # x /\ rowLock[row] = y => rowLock'[row] = y
      BY <1>t, <3>1 DEF TypeOK
    <3>5. rowLock'[<<Rule(x)>>] = x /\ (\A row \in Rows : rowLock[row] = x => rowLock'[row] = x)
      BY <1>t, <1>j, <3>1 DEF TypeOK
    <3>6. x \in Executors => rowLock[actor[x].job] = x /\ job[actor[x].job] = "RUNNING"
      BY <3>1 DEF IInv, Fences, Owns
    <3>7. \A row \in Rows : rowLock[row] = x => x \in Executors /\ row = actor[x].job
      BY <1>h, <3>1 DEF MayHold, At
    <3>8. \A row \in Rows : rowLock'[row] = rowLock[row] \/ row = <<Rule(x)>>
      BY <1>t, <3>1 DEF TypeOK
    <3>9. \A row \in Rows : rowLock'[row] = x => MayHold(x, row)'
      BY <3>1, <3>2, <3>7, <3>8 DEF MayHold, At, Rule
    <3>10. \A y \in Actors, row \in Rows : y # x /\ rowLock'[row] = y => rowLock[row] = y
      BY <3>5, <3>8
    <3>11. OnCourse(x)'
      BY <3>2 DEF OnCourse, At
    <3>12. OwnStep(x)
      BY <1>s, <1>c, <1>j, <2>1, <3>1, <3>2, <3>4, <3>5, <3>6, <3>9, <3>10, <3>11 DEF OwnStep, Rule
    <3> QED  BY <3>3, <3>12, OwnInv
  <2>2. CASE ~exists[Rule(x)]
    BY <1>8, <1>t, <2>2, LeaveInv DEF LockRuleRow, TypeOK
  <2> QED  BY <2>1, <2>2
<1>9. ASSUME NEW x \in Actors, Commit(x) PROVE IInv'
  <2>1. x \in Executors => Owns(x, actor[x].job)
    BY <1>9 DEF Commit, IInv, Fences, At
  <2>2. job' \in [Jobs -> {"NONE", "PENDING", "RUNNING", "TERMINAL"}]
    BY <1>9, <1>t, <1>j DEF Commit, TypeOK
  <2>3. \A e \in Executors : e # x => job'[actor[e].job] = job[actor[e].job] \/ ~Owns(e, actor[e].job)
    BY <1>9, <1>t, <1>j, <2>1 DEF Commit, TypeOK, Owns
  <2>4. \A j \in Jobs : job'[j] = "RUNNING" => job[j] = "RUNNING"
    BY <1>9, <1>t, <1>j DEF Commit, TypeOK
  <2> QED  BY <1>9, <2>2, <2>3, <2>4, LeaveInv DEF Commit
<1>10. ASSUME NEW x \in Actors, BeginSettling(x) PROVE IInv'
  <2>1. actor' = GoTo(x, "update") /\ UNCHANGED <<poolSize, exists, job, session, rowLock, heartbeat>>
    BY <1>10 DEF BeginSettling
  <2>2. (\A r \in Rules : session[r] # x) /\ actor[x].pc = "settle"
    BY <1>10, <1>s DEF BeginSettling, At
  <2> QED  BY <1>t, <1>g, <2>1, <2>2 DEF Pcs, TypeOK
<1>11. ASSUME NEW e \in Actors, NEW status \in {"PENDING", "TERMINAL"}, Settle(e, status) PROVE IInv'
  <2>1. actor' = Ended(e) /\ UNCHANGED <<poolSize, exists, heartbeat, session, rowLock>>
        /\ rowLock[actor[e].job] = Nobody
    BY <1>11 DEF Settle, RowFree
  <2>2. job' \in [Jobs -> {"NONE", "PENDING", "RUNNING", "TERMINAL"}]
    BY <1>11, <1>t, <1>j DEF Settle, TypeOK
  <2>3. TypeOK'
    BY <1>t, <1>e, <2>1, <2>2 DEF TypeOK
  <2>4. \A x \in Executors : Owns(x, actor[x].job) => job'[actor[x].job] = job[actor[x].job]
    BY <1>11, <1>t, <1>j, <2>1 DEF Settle, TypeOK, Owns
  <2>5. \A r \in Rules : session[r] # e
    BY <1>11, <1>s DEF Settle, At
  <2>6. \A row \in Rows : rowLock'[row] = rowLock[row] /\ rowLock[row] # e
    BY <1>11, <1>n, <2>1 DEF Settle, At
  <2>7. \A j \in Jobs : job'[j] = "RUNNING" => job[j] = "RUNNING"
    BY <1>11, <1>t, <1>j DEF Settle, TypeOK
  <2>8. OwnStep(e)
    BY <1>e, <2>1, <2>4, <2>5, <2>6, <2>7 DEF OwnStep
  <2> QED  BY <2>3, <2>8, OwnInv
<1>12. ASSUME NEW e \in Executors, HeartbeatDue(e) \/ HeartbeatConnect(e) \/ HeartbeatUpdate(e)
       PROVE  IInv'
  <2>1. UNCHANGED <<poolSize, exists, job, actor, session, rowLock>>
    BY <1>12 DEF HeartbeatDue, HeartbeatConnect, HeartbeatUpdate
  <2>2. TypeOK'
    BY <1>12, <1>t, <2>1 DEF TypeOK, HeartbeatDue, HeartbeatConnect, HeartbeatUpdate
  <2>3. Holdings' /\ Courses'
    BY <2>1 DEF IInv, Holdings, Courses, Owns, MayHold, OnCourse, At, Rule
  <2> QED  BY <2>1, <2>2, <2>3 DEF IInv, LocksLeaveWithTheEvaluation, Fences, At, Owns, Rule
<1>13. ASSUME NEW q \in Actors, LockChangedRule(q) PROVE IInv'
  <2>1. CASE exists[Rule(q)]
    <3> DEFINE R == JobsOf(Rule(q))
    <3>1. /\ \/ actor[q].op = "patch" /\ actor' = GoTo(q, "pick")
             \/ actor[q].op = "delete" /\ actor' = [actor EXCEPT ![q].pc = "rows", ![q].rows = R]
          /\ rowLock' = [rowLock EXCEPT ![<<Rule(q)>>] = q]
          /\ rowLock[<<Rule(q)>>] = Nobody
          /\ UNCHANGED <<poolSize, exists, job, heartbeat, session>>
      BY <1>13, <2>1 DEF LockChangedRule, LockRow, RowFree
    <3>2. R \in SUBSET Jobs
      BY DEF JobsOf
    <3> HIDE DEF R
    <3>3. /\ actor' \in [Actors -> ActorState]
          /\ \/ actor[q].op = "patch" /\ actor'[q].pc = "pick"
             \/ actor[q].op = "delete" /\ actor'[q].pc = "rows"
          /\ actor'[q].op = actor[q].op /\ actor'[q].job = actor[q].job
          /\ \A y \in Actors : y # q => actor'[y] = actor[y]
      BY <1>t, <3>1, <3>2, RowsType, GoToType DEF Pcs
    <3>4. TypeOK'
      BY <1>t, <1>j, <3>1, <3>3 DEF TypeOK
    <3>5. \A y \in Actors, row \in Rows : y # q /\ rowLock[row] = y => rowLock'[row] = y
      BY <1>t, <3>1 DEF TypeOK
    <3>6. rowLock'[<<Rule(q)>>] = q
      BY <1>t, <1>j, <3>1 DEF TypeOK
    <3>7. \A r \in Rules : session[r] # q
      BY <1>s, <3>1
    <3>8. \A row \in Rows : rowLock[row] # q /\ (rowLock'[row] = rowLock[row] \/ row = <<Rule(q)>>)
      <4>1. \A row \in Rows : rowLock[row] # q
        BY <1>13, <1>h DEF LockChangedRule, MayHold, At
      <4> QED  BY <1>t, <3>1, <4>1 DEF TypeOK
    <3>9. \A row \in Rows : rowLock'[row] = q => MayHold(q, row)'
      BY <3>3, <3>8 DEF MayHold, At, Rule
    <3>10. \A y \in Actors, row \in Rows : y # q /\ rowLock'[row] = y => rowLock[row] = y
      BY <3>6, <3>8
    <3>11. OnCourse(q)'
      BY <3>3 DEF OnCourse, At
    <3>12. OwnStep(q)
      BY <3>1, <3>3, <3>5, <3>6, <3>7, <3>9, <3>10, <3>11 DEF OwnStep, Rule
    <3> QED  BY <3>4, <3>12, OwnInv
  <2>2. CASE ~exists[Rule(q)]
    <3>1. actor' = Ended(q) /\ UNCHANGED <<poolSize, exists, job, heartbeat, session, rowLock>>
      BY <1>13, <2>2 DEF LockChangedRule
    <3>2. TypeOK'
      BY <1>t, <1>e, <3>1 DEF TypeOK
    <3>3. \A r \in Rules : session[r] # q
      BY <1>13, <1>s DEF LockChangedRule
    <3>4. \A row \in Rows : rowLock'[row] = rowLock[row] /\ rowLock[row] # q
      BY <1>13, <1>h, <3>1 DEF LockChangedRule, MayHold, At
    <3>5. OwnStep(q)
      BY <1>e, <3>1, <3>3, <3>4 DEF OwnStep
    <3> QED  BY <3>2, <3>5, OwnInv
  <2> QED  BY <2>1, <2>2
<1>23. ASSUME NEW q \in Actors, PickJobs(q) PROVE IInv'
  <2> DEFINE R == PendingJobs(Rule(q))
  <2>1. actor' = [actor EXCEPT ![q].pc = "rows", ![q].rows = R]
        /\ UNCHANGED <<poolSize, exists, job, heartbeat, session, rowLock>>
    BY <1>23 DEF PickJobs
  <2>2. R \in SUBSET Jobs /\ \A j \in R : RuleOf(j) = Rule(q) /\ job[j] # "RUNNING"
    BY DEF PendingJobs
  <2> HIDE DEF R
  <2>3. /\ actor' \in [Actors -> ActorState]
        /\ actor'[q].pc = "rows" /\ actor'[q].rows = R
        /\ actor'[q].op = actor[q].op /\ actor'[q].job = actor[q].job
        /\ \A y \in Actors : y # q => actor'[y] = actor[y]
    BY <1>t, <2>1, <2>2, RowsType
  <2>4. TypeOK'
    BY <1>t, <2>1, <2>3 DEF TypeOK
  <2>5. actor[q].pc = "pick" /\ actor[q].op = "patch"
    BY <1>23, <1>o DEF PickJobs, OnCourse, At
  <2>6. rowLock[<<Rule(q)>>] = q
    BY <2>5 DEF IInv, Fences, Owns
  <2>7. \A row \in Rows : rowLock[row] = q => row = <<Rule(q)>>
    BY <1>h, <2>5 DEF MayHold, At
  <2>8. \A row \in Rows : rowLock'[row] = q => MayHold(q, row)'
    BY <2>1, <2>3, <2>5, <2>7 DEF MayHold, Rule
  <2>9. \A r \in Rules : session[r] # q
    BY <1>s, <2>5
  <2>10. OnCourse(q)'
    BY <2>1, <2>2, <2>3, <2>5 DEF OnCourse, At, Rule
  <2>11. OwnStep(q)
    BY <2>1, <2>3, <2>5, <2>6, <2>8, <2>9, <2>10 DEF OwnStep, Rule
  <2> QED  BY <2>4, <2>11, OwnInv
<1>14. ASSUME NEW q \in Actors, PatchRule(q) PROVE IInv'
  <2>1. actor' = Ended(q) /\ rowLock' = Without(q) /\ UNCHANGED <<poolSize, exists, heartbeat, session>>
        /\ job' = [j \in Jobs |-> IF Owns(q, j) THEN "TERMINAL" ELSE job[j]]
    BY <1>14 DEF PatchRule
  <2>2. job' \in [Jobs -> {"NONE", "PENDING", "RUNNING", "TERMINAL"}]
        /\ \A j \in Jobs : job'[j] = "RUNNING" => job[j] = "RUNNING"
    BY <1>t, <2>1 DEF TypeOK
  <2>3. TypeOK'
    BY <1>t, <1>e, <2>1, <2>2 DEF TypeOK, Without
  <2>4. \A e \in Executors : e # q /\ Owns(e, actor[e].job) => job'[actor[e].job] = job[actor[e].job]
    BY <1>j, <2>1 DEF Owns
  <2>5. \A r \in Rules : session[r] # q
    BY <1>14, <1>s DEF PatchRule, At
  <2>6. \A y \in Actors, row \in Rows : y # q /\ rowLock[row] = y => rowLock'[row] = y
    BY <2>1 DEF Without, Owns
  <2>7. \A y \in Actors, row \in Rows : rowLock'[row] = y => y # q /\ rowLock[row] = y
    BY <2>1 DEF Without, Owns
  <2>8. actor'[q].op = "none" /\ OnCourse(q)' /\ \A y \in Actors : y # q => actor'[y] = actor[y]
    BY <1>e, <2>1
  <2>9. UNCHANGED <<exists, session>>
    BY <2>1
  <2>10. OwnStep(q)
    BY <2>2, <2>4, <2>5, <2>6, <2>7, <2>8, <2>9 DEF OwnStep
  <2> QED  BY <2>3, <2>10, OwnInv
<1>15. ASSUME NEW c \in Cleaners, Cleanup(c) PROVE IInv'
  <2> DEFINE R == {j \in Jobs : job[j] = "TERMINAL"}
  <2>1. actor'[c] = [Idle EXCEPT !.op = "cleanup", !.pc = "rows", !.rows = R]
        /\ \A y \in Actors : y # c => actor'[y] = actor[y]
    BY <1>15, <1>t DEF Cleanup
  <2>2. actor'[c] \in ActorState /\ actor'[c].pc = "rows" /\ actor'[c].op = "cleanup"
    <3> DEFINE started(a, S) == [a EXCEPT !.op = "cleanup", !.pc = "rows", !.rows = S]
    <3>1. ASSUME NEW a \in ActorState, NEW S \in SUBSET Jobs
          PROVE  /\ started(a, S) \in ActorState
                 /\ started(a, S).pc = "rows" /\ started(a, S).op = "cleanup"
      BY DEF ActorState
    <3>2. Idle \in ActorState /\ R \in SUBSET Jobs
      BY IdleType
    <3>3. actor'[c] = started(Idle, R)
      BY <2>1
    <3> HIDE DEF R, started
    <3> QED  BY <3>1, <3>2, <3>3
  <2>3. TypeOK'
    BY <1>15, <1>t, <2>1, <2>2 DEF Cleanup, TypeOK
  <2>4. \A r \in Rules : session'[r] = session[r] /\ session'[r] # c
    BY <1>15, <1>s DEF Cleanup, At
  <2>5. \A row \in Rows : rowLock'[row] = rowLock[row] /\ rowLock[row] # c
    BY <1>15, <1>n DEF Cleanup, At
  <2>6. OnCourse(c)'
    BY <2>2 DEF OnCourse, At
  <2>7. OwnStep(c)
    BY <1>15, <2>1, <2>2, <2>4, <2>5, <2>6 DEF Cleanup, OwnStep
  <2> QED  BY <2>3, <2>7, OwnInv
<1>16. ASSUME NEW x \in Actors, NEW j \in Jobs, LockNextRow(x, j) PROVE IInv'
  <2>1. actor' = [actor EXCEPT ![x].rows = actor[x].rows \ {j}] /\ At(x, "rows")
        /\ UNCHANGED <<poolSize, exists, job, heartbeat, session>>
    BY <1>16 DEF LockNextRow
  <2>2. actor' \in [Actors -> ActorState] /\ actor'[x].pc = "rows"
        /\ actor'[x].rows = actor[x].rows \ {j} /\ actor'[x].claimed = actor[x].claimed
        /\ actor'[x].op = actor[x].op /\ actor'[x].job = actor[x].job
        /\ \A y \in Actors : y # x => actor'[y] = actor[y]
    <3>1. actor[x].rows \ {j} \in SUBSET Jobs
      BY <1>t DEF ActorState
    <3> DEFINE S == actor[x].rows \ {j}
    <3>2. \/ actor' = [actor EXCEPT ![x].pc = "rows", ![x].rows = S]
          \/ actor' = [actor EXCEPT ![x].rows = S] /\ At(x, "rows")
      BY <2>1
    <3>3. actor \in [Actors -> ActorState] /\ S \in SUBSET Jobs
      BY <1>t, <3>1
    <3>4. actor'[x].claimed = actor[x].claimed
      BY <1>t, <2>1 DEF ActorState
    <3> HIDE DEF S
    <3>5. actor' \in [Actors -> ActorState] /\ actor'[x].pc = "rows" /\ actor'[x].rows = S
          /\ actor'[x].op = actor[x].op /\ actor'[x].job = actor[x].job
          /\ \A y \in Actors : y # x => actor'[y] = actor[y]
      BY <3>2, <3>3, RowsType
    <3> QED  BY <3>4, <3>5 DEF S
  <2>3. rowLock[j] = Nobody /\ (rowLock' = rowLock \/ rowLock' = [rowLock EXCEPT ![j] = x])
    BY <1>16 DEF LockNextRow, LockRow, RowFree
  <2>4. TypeOK'
    BY <1>t, <2>1, <2>2, <2>3 DEF TypeOK
  <2>5. \A y \in Actors, row \in Rows : rowLock[row] = y => rowLock'[row] = y
    BY <1>t, <2>3 DEF TypeOK
  <2>6. actor[x].op \in {"patch", "delete"} => rowLock'[<<Rule(x)>>] = x
    BY <1>j, <2>1, <2>5 DEF IInv, Fences, Owns, At
  <2>7. \A r \in Rules : session[r] # x
    BY <1>s, <2>1 DEF At
  <2>8. actor[x].op \in {"patch", "delete", "cleanup"} /\ actor[x].pc = "rows"
    BY <1>16, <1>o DEF LockNextRow, OnCourse, At
  <2>a. actor[x].op = "patch" =>
          \A i \in actor[x].rows : RuleOf(i) = Rule(x) /\ (job[i] = "RUNNING" => i \in actor[x].claimed)
    BY <1>o, <2>1 DEF OnCourse
  <2>9. OnCourse(x)'
    BY <2>1, <2>2, <2>8, <2>a DEF OnCourse, At, Rule
  <2>b. j \in actor[x].rows
    BY <1>16 DEF LockNextRow
  <2>d. \A row \in Rows : rowLock'[row] = x => rowLock[row] = x \/ row = j
    BY <1>t, <2>3 DEF TypeOK
  <2>e. \A row \in Rows : rowLock'[row] = x => MayHold(x, row)'
    <3> SUFFICES ASSUME NEW row \in Rows, rowLock'[row] = x PROVE MayHold(x, row)'
      OBVIOUS
    <3>1. CASE rowLock[row] = x
      <4>1. MayHold(x, row)
        BY <1>h, <3>1
      <4> QED  BY <4>1, <2>2, <2>8 DEF MayHold, At, Rule
    <3>2. CASE row = j
      BY <3>2, <2>2, <2>8, <2>a, <2>b DEF MayHold, At, Rule
    <3> QED  BY <2>d, <3>1, <3>2
  <2>10. \A y \in Actors, row \in Rows : y # x /\ rowLock'[row] = y => rowLock[row] = y
    BY <1>t, <2>3 DEF TypeOK
  <2>11. OwnStep(x)
    BY <1>c, <2>1, <2>2, <2>5, <2>6, <2>7, <2>8, <2>9, <2>e, <2>10 DEF OwnStep, Rule
  <2> QED  BY <2>4, <2>11, OwnInv
<1>17. ASSUME NEW x \in Actors, Delete(x) PROVE IInv'
  <2>1. actor' = Ended(x) /\ rowLock' = Without(x) /\ UNCHANGED <<poolSize, heartbeat, session>>
        /\ exists' = [r \in Rules |-> exists[r] /\ ~(actor[x].op = "delete" /\ r = Rule(x))]
        /\ job' = [j \in Jobs |-> IF Owns(x, j) THEN "NONE" ELSE job[j]]
        /\ At(x, "rows")
    BY <1>17 DEF Delete
  <2>2. TypeOK'
    BY <1>t, <1>e, <2>1 DEF TypeOK, Without
  <2>3. \A e \in Executors : e # x /\ Owns(e, actor[e].job) => job'[actor[e].job] = job[actor[e].job]
    BY <1>j, <2>1 DEF Owns
  <2>4. \A y \in Actors : y # x /\ Owns(y, <<Rule(y)>>) => exists'[Rule(y)] = exists[Rule(y)]
    <3>1. actor[x].op = "delete" => Owns(x, <<Rule(x)>>)
      BY <2>1 DEF IInv, Fences, At
    <3>2. \A y \in Actors : y # x /\ Owns(y, <<Rule(y)>>) => ~(actor[x].op = "delete" /\ Rule(y) = Rule(x))
      BY <3>1 DEF Owns
    <3> QED  BY <1>j, <1>t, <2>1, <3>2 DEF TypeOK
  <2>5. \A r \in Rules : session[r] # x
    BY <1>s, <2>1 DEF At
  <2>6. \A y \in Actors, row \in Rows : y # x /\ rowLock[row] = y => rowLock'[row] = y
    BY <2>1 DEF Without, Owns
  <2>7. \A y \in Actors, row \in Rows : rowLock'[row] = y => y # x /\ rowLock[row] = y
    BY <2>1 DEF Without, Owns
  <2>8. \A y \in Actors : y # x => actor'[y] = actor[y]
    BY <1>e, <2>1
  <2>9. actor'[x].op = "none" /\ OnCourse(x)'
    BY <1>e, <2>1
  <2>11. \A j \in Jobs : job'[j] = "RUNNING" => job[j] = "RUNNING"
    BY <2>1
  <2>10. OwnStep(x)
    BY <2>1, <2>3, <2>4, <2>5, <2>6, <2>7, <2>8, <2>9, <2>11 DEF OwnStep
  <2> QED  BY <2>2, <2>10, OwnInv
<1>18. ASSUME NEW x \in Actors, Fail(x) \/ BreakDeadlock(x) PROVE IInv'
  <2>1. Leave(x, TRUE) /\ UNCHANGED <<poolSize, exists, job>>
    BY <1>18 DEF Fail, BreakDeadlock
  <2> QED  BY <1>t, <2>1, LeaveInv DEF TypeOK
<1>19. ASSUME NEW e \in Actors, GiveUpSettling(e) PROVE IInv'
  <2>1. actor' = Ended(e) /\ UNCHANGED <<poolSize, exists, job, heartbeat, session, rowLock>>
    BY <1>19 DEF GiveUpSettling
  <2>2. TypeOK'
    BY <1>t, <1>e, <2>1 DEF TypeOK
  <2>3. \A r \in Rules : session[r] # e
    BY <1>19, <1>s DEF GiveUpSettling
  <2>4. \A row \in Rows : rowLock'[row] = rowLock[row] /\ rowLock[row] # e
    BY <1>19, <1>n, <2>1 DEF GiveUpSettling
  <2>5. OwnStep(e)
    BY <1>e, <2>1, <2>3, <2>4 DEF OwnStep
  <2> QED  BY <2>2, <2>5, OwnInv
<1>20. ASSUME WorkerDies PROVE IInv'
  <2> DEFINE dead == Executors \cup Cleaners
  <2>1. /\ actor' = [x \in Actors |-> IF x \in dead THEN Idle ELSE actor[x]]
        /\ session' = [r \in Rules |-> IF session[r] \in dead THEN Nobody ELSE session[r]]
        /\ rowLock' = [row \in Rows |-> IF rowLock[row] \in dead THEN Nobody ELSE rowLock[row]]
        /\ heartbeat' = [e \in Executors |-> "asleep"]
        /\ UNCHANGED <<poolSize, exists, job>>
    BY <1>20 DEF WorkerDies
  <2>2. TypeOK'
    BY <1>t, <2>1, IdleType DEF TypeOK
  <2>3. LocksLeaveWithTheEvaluation'
    BY <1>t, <2>1 DEF IInv, LocksLeaveWithTheEvaluation, TypeOK, Rule
  <2>4. \A x \in Actors : x \in dead => actor'[x].op = "none"
    BY <2>1, IdleType
  <2>5. \A x \in Actors : x \notin dead => actor'[x] = actor[x]
          /\ (\A row \in Rows : Owns(x, row) => Owns(x, row)')
    BY <1>t, <2>1 DEF TypeOK, Owns
  <2>6. Fences'
    BY <1>j, <2>1, <2>4, <2>5 DEF IInv, Fences, At, Rule
  <2>7. \A x \in Actors, row \in Rows : rowLock'[row] = x => x \notin dead /\ rowLock[row] = x
    BY <2>1
  <2>8. Holdings'
    BY <1>h, <2>5, <2>7 DEF Holdings, Owns, MayHold, At, Rule
  <2>9. Courses'
    BY <1>o, <2>1, <2>5, IdleType DEF Courses, OnCourse, At, Rule
  <2> QED  BY <2>2, <2>3, <2>6, <2>8, <2>9 DEF IInv
<1>21. CASE UNCHANGED vars
  <2>1. UNCHANGED <<poolSize, exists, job, actor, heartbeat, session, rowLock>>
    BY <1>21 DEF vars
  <2>2. Holdings' /\ Courses'
    BY <2>1 DEF IInv, Holdings, Courses, Owns, MayHold, OnCourse, At, Rule
  <2> QED  BY <2>1, <2>2 DEF IInv, TypeOK, LocksLeaveWithTheEvaluation, Fences, At, Owns, Rule
<1>22. \A x \in Actors : Step(x) => IInv'
  BY <1>4, <1>5, <1>7, <1>8, <1>9, <1>10, <1>11, <1>13, <1>23, <1>14, <1>16, <1>17 DEF Step
<1> QED
  BY <1>1, <1>2, <1>3, <1>6, <1>12, <1>15, <1>18, <1>19, <1>20, <1>21, <1>22 DEF Next

(* The states of actors, rows and locks are well typed. *)
THEOREM TypeCorrect == Spec => []TypeOK
<1>1. IInv => TypeOK
  BY DEF IInv
<1> QED  BY InitInv, StepInv, <1>1, PTL DEF Spec

(* No session keeps the advisory lock of a rule after the evaluation that  *)
(* took it, whatever failed in between.                                    *)
THEOREM LocksLeave == Spec => []LocksLeaveWithTheEvaluation
<1>1. IInv => LocksLeaveWithTheEvaluation
  BY DEF IInv
<1> QED  BY InitInv, StepInv, <1>1, PTL DEF Spec

(* No patch, deletion, cleanup or other claim gets between the fence of an *)
(* evaluation and its commit.                                              *)
THEOREM FencesHold == Spec => []FencedRowsStay
<1>1. IInv => FencedRowsStay
  BY DEF IInv, Fences, FencedRowsStay, At
<1> QED  BY InitInv, StepInv, <1>1, PTL DEF Spec

(* In a circle of waiting transactions without a deletion, whoever holds   *)
(* up another is an evaluation at the row of its rule, which has only its  *)
(* job, or a patch at its jobs, which has its rule and some of them.       *)
LEMMA Holders ==
  ASSUME IInv, NEW S \in Deadlocks, \A x \in S : actor[x].op \notin {"delete", "cleanup"},
         NEW y \in S, NEW row \in Rows, Owns(y, row)
  PROVE  \/ actor[y].op = "evaluate" /\ At(y, "rule") /\ y \in Executors /\ row = actor[y].job
         \/ /\ actor[y].op = "patch" /\ At(y, "rows")
            /\ row \in {<<Rule(y)>>} \cup {j \in Jobs \ actor[y].rows : RuleOf(j) = Rule(y)}
<1>1. y \in Actors /\ Blocked(y)
  BY DEF Deadlocks, Waiting
<1>2. actor[y].pc \notin {"pick", "commit"}
  BY <1>1 DEF Blocked, Wanted, At
<1>3. MayHold(y, row)
  BY <1>1 DEF IInv, Holdings
<1> QED  BY <1>2, <1>3 DEF MayHold, At

(* A patch of such a circle waits for an evaluation that holds a job the   *)
(* patch had picked: it runs, so it was claimed since, and the evaluation  *)
(* comes to the row of the rule, which the patch holds.                    *)
LEMMA PatchesWaitForLateClaims ==
  ASSUME IInv, NEW S \in Deadlocks, \A x \in S : actor[x].op \notin {"delete", "cleanup"},
         NEW q \in S, actor[q].op = "patch", At(q, "rows")
  PROVE  \E e \in S : LateClaim(q, e)
<1>1. PICK e \in S : WaitsFor(q, e)
  BY DEF Deadlocks
<1>2. q \in Actors /\ e \in Actors /\ actor[q] \in ActorState
  BY DEF Deadlocks, Waiting, IInv, TypeOK
<1>3. PICK j \in actor[q].rows : Owns(e, j)
  BY <1>1 DEF WaitsFor, Wanted, At
<1>4. j \in Jobs /\ j \in Rows
  BY <1>2 DEF ActorState
<1>5. RuleOf(j) = Rule(q) /\ (job[j] = "RUNNING" => j \in actor[q].claimed)
  BY <1>2 DEF IInv, Courses, OnCourse
<1>6. Owns(q, <<Rule(q)>>) /\ <<Rule(q)>> \in Rows
  BY <1>2 DEF IInv, Fences, At, ActorState, Rule
<1>7. ~(actor[e].op = "patch" /\ At(e, "rows"))
  <2> SUFFICES ASSUME actor[e].op = "patch", At(e, "rows") PROVE FALSE
    OBVIOUS
  <2>1. j # <<Rule(e)>>
    BY <1>4
  <2>2. j \notin actor[e].rows /\ RuleOf(j) = Rule(e)
    BY <1>3, <1>4, <2>1, Holders
  <2>3. Owns(e, <<Rule(e)>>)
    BY <1>2 DEF IInv, Fences, At
  <2>4. e = q
    BY <1>5, <1>6, <2>2, <2>3 DEF Owns
  <2> QED  BY <1>3, <2>2, <2>4
<1>8. actor[e].op = "evaluate" /\ At(e, "rule") /\ e \in Executors /\ j = actor[e].job
  BY <1>3, <1>4, <1>7, Holders
<1>9. job[j] = "RUNNING"
  BY <1>8 DEF IInv, Fences, At
<1>10. Wanted(e) = {<<Rule(q)>>}
  BY <1>5, <1>8 DEF Wanted, At, Rule
<1>11. WaitsFor(e, q)
  BY <1>6, <1>10 DEF WaitsFor
<1> QED  BY <1>1, <1>3, <1>5, <1>8, <1>9, <1>11 DEF LateClaim

(* Whoever waits in a circle without a deletion waits for a patch, or for  *)
(* an evaluation that holds its job and waits for a patch with its rule.   *)
THEOREM DeadlocksAreForeseen == Spec => []DeadlocksAreKnown
<1>1. IInv => DeadlocksAreKnown
  <2> SUFFICES ASSUME IInv, NEW S \in Deadlocks, \A x \in S : actor[x].op \notin {"delete", "cleanup"}
               PROVE  \E q \in S : \E e \in S : LateClaim(q, e)
    BY DEF DeadlocksAreKnown
  <2>1. PICK x \in S : TRUE
    BY DEF Deadlocks
  <2>2. PICK y \in S : WaitsFor(x, y)
    BY DEF Deadlocks
  <2>3. x \in Actors /\ y \in Actors /\ TypeOK
    BY DEF Deadlocks, Waiting, IInv
  <2>4. \A z \in Actors : Wanted(z) \subseteq Rows
    BY <2>3 DEF TypeOK, ActorState, Wanted, Rule
  <2>5. PICK row \in Rows : Owns(y, row)
    BY <2>2, <2>3, <2>4 DEF WaitsFor
  <2>6. CASE actor[y].op = "evaluate" /\ At(y, "rule")
    <3>1. Wanted(y) = {<<Rule(y)>>}
      BY <2>6 DEF Wanted, At
    <3>2. PICK z \in S : WaitsFor(y, z)
      BY DEF Deadlocks
    <3>3. Owns(z, <<Rule(y)>>) /\ <<Rule(y)>> \in Rows
      BY <2>3, <2>4, <3>1, <3>2 DEF WaitsFor
    <3>4. z \in Actors /\ actor[z].job \in Jobs
      BY <2>3 DEF Deadlocks, Waiting, TypeOK, ActorState
    <3>5. <<Rule(y)>> # actor[z].job
      BY <3>4
    <3>6. actor[z].op = "patch" /\ At(z, "rows")
      BY <3>3, <3>5, Holders
    <3> QED  BY <3>6, PatchesWaitForLateClaims
  <2>7. CASE actor[y].op = "patch" /\ At(y, "rows")
    BY <2>7, PatchesWaitForLateClaims
  <2> QED  BY <2>5, <2>6, <2>7, Holders
<1> QED  BY InitInv, StepInv, <1>1, PTL DEF Spec
=============================================================================
