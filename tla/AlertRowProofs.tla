---------------------------- MODULE AlertRowProofs ----------------------------
(***************************************************************************)
(* What the transitions of AlertRow leave, for any row: the lemmas shared  *)
(* by the proofs about AlertLifecycle and about AlertTransaction.          *)
(***************************************************************************)
EXTENDS AlertRow, TLAPS

(* The transitions a case with row r can make: s is the row it leaves, e   *)
(* the event it logs.  A failure applies to any row, and to none.          *)
CaseMoves(r, s, e) ==
  \/ \E ev \in Evidence, at \in Nat :
       s = FailRow(r, ev, at) /\ e = FailEvent(r, ev, at)
  \/   /\ Active(r)
       /\ s = AutoResolved(r) /\ e = EventOf("pass", r, s, TRUE)
  \/   /\ r.status = "OPEN"
       /\ s = Acked(r) /\ e = EventOf("ack", r, s, TRUE)
  \/ \E kind \in {"fixed_by_booking", "accepted_by_business"} :
       /\ Active(r)
       /\ s = ManuallyResolved(r, kind)
       /\ e = EventOf(ResolutionEvent(kind), r, s, TRUE)
  \/ \E until \in Nat \ {0} :
       /\ Active(r)
       /\ s = Snoozed(r, until) /\ e = EventOf("snooze", r, s, TRUE)
  \/   /\ Exists(r)
       /\ s = Unsnoozed(r) /\ e = EventOf("unsnooze", r, s, TRUE)

(* A case without a row is well typed.                                     *)
LEMMA NoRowType == NoRow \in Row
  BY DEF NoRow, Row, NoSnooze

(* Paths 2 and 3 of openOrUpdateAlertOnce: the fields the UPDATE leaves.   *)
LEMMA UpdatedFields ==
  ASSUME NEW r \in Row, NEW ev \in Evidence, NEW at \in Nat
  PROVE  /\ Updated(r, ev, at) \in Row
         /\ Updated(r, ev, at).status = "OPEN"
         /\ Updated(r, ev, at).evidence = ev
         /\ Updated(r, ev, at).occurrences = r.occurrences + 1
         /\ Updated(r, ev, at).acked = (r.acked /\ ~ClearsAck(r))
         /\ Updated(r, ev, at).resolution = IF ClearsResolution(r) THEN "none" ELSE r.resolution
         /\ Updated(r, ev, at).snapshot = IF ClearsResolution(r) THEN NoEvidence ELSE r.snapshot
         /\ Updated(r, ev, at).snooze = IF SnoozeExpired(r, at) THEN NoSnooze ELSE r.snooze
<1> DEFINE acked      == r.acked /\ ~ClearsAck(r)
           resolution == IF ClearsResolution(r) THEN "none" ELSE r.resolution
           snapshot   == IF ClearsResolution(r) THEN NoEvidence ELSE r.snapshot
           snooze     == IF SnoozeExpired(r, at) THEN NoSnooze ELSE r.snooze
           n          == r.occurrences + 1
           new        == [r EXCEPT !.status = "OPEN", !.evidence = ev, !.occurrences = n,
                                   !.acked = acked, !.resolution = resolution,
                                   !.snapshot = snapshot, !.snooze = snooze]
<1>1. acked \in BOOLEAN
  OBVIOUS
<1>2. /\ resolution \in Resolutions \cup {"none"} /\ snapshot \in Evidence \cup {NoEvidence}
      /\ snooze \in Nat /\ n \in Nat
  BY DEF Row, NoSnooze
<1>3. Updated(r, ev, at) = new
  BY DEF Updated
<1> HIDE DEF acked, resolution, snapshot, snooze, n
<1>4. /\ new \in Row
      /\ new.status = "OPEN" /\ new.evidence = ev /\ new.occurrences = n /\ new.acked = acked
      /\ new.resolution = resolution /\ new.snapshot = snapshot /\ new.snooze = snooze
  BY <1>1, <1>2 DEF Row, Statuses
<1> QED  BY <1>3, <1>4 DEF acked, resolution, snapshot, snooze, n

(* Path 1 of openOrUpdateAlertOnce: the fields of a first failure.         *)
LEMMA InsertedFields ==
  ASSUME NEW ev \in Evidence
  PROVE  /\ Inserted(ev) \in Row
         /\ Inserted(ev).status = "OPEN" /\ Inserted(ev).evidence = ev
         /\ Inserted(ev).occurrences = 1 /\ Inserted(ev).acked = FALSE
         /\ Inserted(ev).resolution = "none" /\ Inserted(ev).snapshot = NoEvidence
         /\ Inserted(ev).snooze = 0
<1>1. /\ NoRow \in Row /\ NoRow.acked = FALSE /\ NoRow.resolution = "none"
      /\ NoRow.snapshot = NoEvidence /\ NoRow.snooze = 0
  BY NoRowType DEF NoRow, NoSnooze
<1> QED  BY <1>1 DEF Inserted, Row, Statuses

(* The fields AutoResolveAlert leaves.                                     *)
LEMMA AutoResolvedFields ==
  ASSUME NEW r \in Row
  PROVE  /\ AutoResolved(r) \in Row
         /\ AutoResolved(r).status = "RESOLVED" /\ AutoResolved(r).resolution = "auto"
         /\ AutoResolved(r).snapshot = NoEvidence /\ AutoResolved(r).snooze = 0
         /\ AutoResolved(r).evidence = r.evidence /\ AutoResolved(r).acked = r.acked
         /\ AutoResolved(r).occurrences = r.occurrences
BY DEF AutoResolved, Row, Statuses, Resolutions, NoSnooze

(* The fields applyResolution leaves.                                      *)
LEMMA ManuallyResolvedFields ==
  ASSUME NEW r \in Row, NEW kind \in {"fixed_by_booking", "accepted_by_business"}
  PROVE  /\ ManuallyResolved(r, kind) \in Row
         /\ ManuallyResolved(r, kind).status = "RESOLVED"
         /\ ManuallyResolved(r, kind).resolution = kind
         /\ ManuallyResolved(r, kind).snapshot = Snapshot(r, kind)
         /\ ManuallyResolved(r, kind).snooze = 0
         /\ ManuallyResolved(r, kind).evidence = r.evidence
         /\ ManuallyResolved(r, kind).acked = r.acked
         /\ ManuallyResolved(r, kind).occurrences = r.occurrences
<1>1. Snapshot(r, kind) \in Evidence \cup {NoEvidence}
  BY DEF Snapshot, Row
<1> QED  BY <1>1 DEF ManuallyResolved, Row, Statuses, Resolutions, NoSnooze

(* After a failure the case is OPEN with the evidence of that failure, on  *)
(* every path.                                                             *)
LEMMA FailRowType ==
  ASSUME NEW r \in Row, NEW ev \in Evidence, NEW at \in Nat
  PROVE  /\ FailRow(r, ev, at) \in Row
         /\ FailRow(r, ev, at).status = "OPEN"
         /\ FailRow(r, ev, at).evidence = ev
<1>1. CASE Exists(r)
  BY <1>1, UpdatedFields DEF FailRow
<1>2. CASE ~Exists(r)
  BY <1>2, InsertedFields DEF FailRow
<1> QED  BY <1>1, <1>2

(* The notification decision and the events it goes into are well typed.   *)
LEMMA NotifyType == 
   ASSUME NEW r \in Row, NEW ev \in Evidence, NEW at \in Nat
   PROVE FailNotifies(r, ev, at) \in BOOLEAN
BY DEF FailNotifies

(* The event of any transition between two well-typed rows is well typed.  *)
LEMMA EventType ==
  ASSUME NEW type \in EventTypes, NEW r \in Row, NEW s \in Row, Exists(s),
         NEW notify \in BOOLEAN
  PROVE  EventOf(type, r, s, notify) \in Event
BY DEF EventOf, Event, Row, Exists, Statuses

(* A transition leaves a row of the right type, which exists, and logs an  *)
(* event of the right type.                                                *)
LEMMA MoveType ==
  ASSUME NEW r \in Row, NEW s, NEW e, CaseMoves(r, s, e)
  PROVE  s \in Row /\ Exists(s) /\ e \in Event
<1>1. CASE \E ev \in Evidence, at \in Nat :
             s = FailRow(r, ev, at) /\ e = FailEvent(r, ev, at)
  <2>1. PICK ev \in Evidence, at \in Nat : s = FailRow(r, ev, at) /\ e = FailEvent(r, ev, at)
    BY <1>1
  <2>2. s \in Row /\ Exists(s)
    BY <2>1, FailRowType DEF Exists
  <2>3. EventOf("fail", r, s, FailNotifies(r, ev, at)) \in Event
    BY <2>2, EventType, NotifyType DEF EventTypes
  <2> QED  BY <2>1, <2>2, <2>3 DEF FailEvent
<1>2. CASE
       /\ Active(r)
       /\ s = AutoResolved(r) /\ e = EventOf("pass", r, s, TRUE)
  <2>1. s \in Row /\ Exists(s)
    BY <1>2, AutoResolvedFields DEF Exists
  <2> QED  BY <1>2, <2>1, EventType DEF EventTypes
<1>3. CASE
       /\ r.status = "OPEN"
       /\ s = Acked(r) /\ e = EventOf("ack", r, s, TRUE)
  <2>1. s \in Row /\ Exists(s)
    BY <1>3 DEF Acked, Row, Statuses, Exists
  <2> QED  BY <1>3, <2>1, EventType DEF EventTypes
<1>4. CASE \E kind \in {"fixed_by_booking", "accepted_by_business"} :
       /\ Active(r)
       /\ s = ManuallyResolved(r, kind)
       /\ e = EventOf(ResolutionEvent(kind), r, s, TRUE)
  <2>1. s \in Row /\ Exists(s)
    BY <1>4, ManuallyResolvedFields DEF Exists
  <2> QED  BY <1>4, <2>1, EventType DEF EventTypes, ResolutionEvent
<1>5. CASE \E until \in Nat \ {0} :
       /\ Active(r)
       /\ s = Snoozed(r, until) /\ e = EventOf("snooze", r, s, TRUE)
  <2>1. s \in Row /\ Exists(s)
    BY <1>5 DEF Snoozed, Row, Active, Exists
  <2> QED  BY <1>5, <2>1, EventType DEF EventTypes
<1>6. CASE
       /\ Exists(r)
       /\ s = Unsnoozed(r) /\ e = EventOf("unsnooze", r, s, TRUE)
  <2>1. s \in Row /\ Exists(s)
    BY <1>6 DEF Unsnoozed, Row, NoSnooze, Exists
  <2> QED  BY <1>6, <2>1, EventType DEF EventTypes
<1> QED  BY <1>1, <1>2, <1>3, <1>4, <1>5, <1>6 DEF CaseMoves
=============================================================================
