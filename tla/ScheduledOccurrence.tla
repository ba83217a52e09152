------------------------ MODULE ScheduledOccurrence ------------------------
(***************************************************************************)
(* What the scheduler promises for one rule, with no queue, no leases and  *)
(* no workers: an occurrence of a revision of the rule is queued at most   *)
(* once, and what was queued is evaluated once or given up, for good.      *)
(* docs/technical/scheduler.md calls it "exactly one committed set of      *)
(* database effects per occurrence".                                       *)
(***************************************************************************)
CONSTANTS Jobs

VARIABLES stage

States == {"open", "queued", "evaluated", "closed"}

Init == stage = [j \in Jobs |-> "open"]

Move(S, from, to) ==
  /\ \A j \in S : stage[j] \in from
  /\ stage' = [j \in Jobs |-> IF j \in S THEN to ELSE stage[j]]

Queue(S)    == Move(S, {"open"}, "queued")
Evaluate(j) == Move({j}, {"queued"}, "evaluated")

(* Revised, disabled, out of attempts, or past the planning cursor *)
Close(S) == Move(S, {"open", "queued"}, "closed")

(* The rule is deleted with everything that belongs to it. *)
Delete == Move(Jobs, States, "closed")

Next ==
  \/ \E S \in SUBSET Jobs : Queue(S) \/ Close(S)
  \/ \E j \in Jobs : Evaluate(j)
  \/ Delete

Spec == Init /\ [][Next]_stage
=============================================================================
