---------------------------- MODULE PlannerProofs ----------------------------
(***************************************************************************)
(* Proofs about Planner, for any rules, schedules, planners, batch sizes,  *)
(* windows and limits: first what the loop over the occurrences of one     *)
(* rule visits and keeps, then what that means for the jobs and the        *)
(* cursors, however the transactions of planners and patches interleave.   *)
(*                                                                         *)
(* The loop is a recursive function and a fold.  The inductions are made   *)
(* over sets of naturals, whose least element comes from the theorem on    *)
(* well-founded relations.                                                 *)
(***************************************************************************)
EXTENDS Planner, TLAPS, FiniteSetTheorems, WellFoundedInduction

(* Induction, for a set of naturals. *)
LEMMA Induction ==
  ASSUME NEW S, 0 \in S, \A n \in Nat : n \in S => n + 1 \in S
  PROVE  \A n \in Nat : n \in S
<1> DEFINE Less == {ss \in Nat \X Nat : ss[1] < ss[2]}
<1> SUFFICES ASSUME Nat \ S # {} PROVE FALSE
  OBVIOUS
<1>1. IsWellFoundedOn(Less, Nat)
  BY NatLessThanWellFounded DEF OpToRel
<1>2. PICK m \in Nat \ S : \A k \in Nat \ S : <<k, m>> \notin Less
  <2>1. Nat \ S \subseteq Nat
    OBVIOUS
  <2> HIDE DEF Less
  <2> QED  BY <1>1, <2>1, WFMin
<1>3. \A k \in Nat \ S : ~(k < m)
  BY <1>2
<1> HIDE DEF Less
<1>4. m # 0 /\ m - 1 \in Nat /\ m - 1 \in S
  BY <1>3
<1> QED  BY <1>4

-----------------------------------------------------------------------------
(* The next occurrence is the least one after t. *)
LEMMA NextOccurrence ==
  ASSUME NEW every \in Nat \ {0}, NEW t \in Nat
  PROVE  LET n == NextRunAt(every, t) IN
         /\ n \in Nat /\ n > t /\ n % every = 0
         /\ \A q \in Nat : q % every = 0 /\ q > t => q >= n
<1> DEFINE d == t \div every
           n == (d + 1) * every
<1>1. NextRunAt(every, t) = n
  BY DEF NextRunAt, Never
<1>2. d \in Nat /\ t = every * d + (t % every) /\ t % every \in 0..(every - 1)
  OBVIOUS
<1> HIDE DEF d
<1>3. every * d \in Nat /\ n \in Nat /\ n = every * d + every
  BY <1>2
<1>4. n > t
  BY <1>2, <1>3
<1>5. n % every = 0
  BY <1>2
<1>6. ASSUME NEW q \in Nat, q % every = 0, q > t
      PROVE  q >= n
  <2> DEFINE k == q \div every
  <2>1. k \in Nat /\ q = every * k
    BY <1>6
  <2> HIDE DEF k
  <2>2. CASE k <= d
    <3>1. every * k <= every * d
      BY <1>2, <2>1, <2>2
    <3> QED  BY <1>2, <1>3, <1>6, <2>1, <3>1
  <2>3. CASE k >= d + 1
    <3>1. every * (d + 1) <= every * k
      BY <1>2, <2>1, <2>3
    <3>2. every * (d + 1) = n
      BY <1>2
    <3> QED  BY <2>1, <3>1, <3>2, <1>3
  <2> QED  BY <1>2, <2>1, <2>2, <2>3
<1> QED  BY <1>1, <1>3, <1>4, <1>5, <1>6

(* What the loop visits from o on: o if it is not in the future, and every *)
(* occurrence after it up to now, each once and in order.                  *)
IsVisit(v, every, o, at) ==
  /\ v \in Seq(Nat)
  /\ o \notin 1..at => v = << >>
  /\ o \in 1..at => v # << >> /\ v[1] = o
  /\ \A i \in 1..Len(v) : v[i] \in o..at /\ (i > 1 => v[i] % every = 0)
  /\ \A i, k \in 1..Len(v) : i < k => v[i] < v[k]
  /\ o \in 1..at => \A q \in o..at : q % every = 0 => \E i \in 1..Len(v) : v[i] = q

(* An occurrence before what is visited from the next one on. *)
LEMMA VisitExtends ==
  ASSUME NEW every \in Nat \ {0}, NEW at \in Nat, NEW o \in 1..at,
         NEW w, IsVisit(w, every, NextRunAt(every, o), at)
  PROVE  IsVisit(<<o>> \o w, every, o, at)
<1> DEFINE v == <<o>> \o w
           n == NextRunAt(every, o)
<1>1. n \in Nat /\ n > o /\ n % every = 0 /\ \A q \in Nat : q % every = 0 /\ q > o => q >= n
  <2>1. o \in Nat
    OBVIOUS
  <2> QED  BY <2>1, NextOccurrence
<1> HIDE DEF n
<1>2. /\ w \in Seq(Nat)
      /\ n \notin 1..at => w = << >>
      /\ n \in 1..at => w # << >> /\ w[1] = n
      /\ \A i \in 1..Len(w) : w[i] \in n..at /\ (i > 1 => w[i] % every = 0)
      /\ \A i, k \in 1..Len(w) : i < k => w[i] < w[k]
      /\ n \in 1..at => \A q \in n..at : q % every = 0 => \E i \in 1..Len(w) : w[i] = q
  BY DEF IsVisit, n
<1>3. /\ v \in Seq(Nat) /\ v # << >> /\ v[1] = o /\ Len(v) = Len(w) + 1 /\ Len(w) \in Nat
      /\ \A i \in 1..Len(w) : v[i + 1] = w[i]
  BY <1>2
<1> HIDE DEF v
<1>4. \A i \in 1..Len(v) : i > 1 => i - 1 \in 1..Len(w) /\ v[i] = w[i - 1]
  BY <1>3
<1>5. \A i \in 1..Len(w) : w[i] > o /\ w[i] <= at /\ w[i] % every = 0
  <2> SUFFICES ASSUME NEW i \in 1..Len(w) PROVE w[i] % every = 0
    BY <1>1, <1>2
  <2>1. CASE i = 1
    <3>1. w # << >>
      OBVIOUS
    <3>2. w[1] = n
      BY <1>2, <3>1
    <3> QED  BY <1>1, <2>1, <3>2
  <2>2. CASE i # 1
    <3>1. i > 1
      BY <2>2
    <3> QED  BY <1>2, <3>1
  <2> QED  BY <2>1, <2>2
<1>6. \A i \in 1..Len(v) : v[i] \in o..at /\ (i > 1 => v[i] % every = 0)
  <2> SUFFICES ASSUME NEW i \in 1..Len(v) PROVE v[i] \in o..at /\ (i > 1 => v[i] % every = 0)
    OBVIOUS
  <2>1. CASE i = 1
    BY <1>3, <2>1
  <2>2. CASE i > 1
    <3>1. i - 1 \in 1..Len(w) /\ v[i] = w[i - 1] /\ w[i - 1] \in Nat
      BY <1>2, <1>4, <2>2
    <3> QED  BY <3>1, <1>5
  <2> QED  BY <2>1, <2>2
<1>7. ASSUME NEW i \in 1..Len(v), NEW k \in 1..Len(v), i < k
      PROVE  v[i] < v[k]
  <2>1. k - 1 \in 1..Len(w) /\ v[k] = w[k - 1]
    BY <1>4, <1>7
  <2>2. CASE i = 1
    BY <1>3, <1>5, <2>1, <2>2
  <2>3. CASE i > 1
    <3>1. i - 1 \in 1..Len(w) /\ v[i] = w[i - 1] /\ i - 1 < k - 1
      BY <1>4, <1>7, <2>3
    <3> QED  BY <1>2, <2>1, <3>1
  <2> QED  BY <2>2, <2>3
<1>8. ASSUME NEW q \in o..at, q % every = 0
      PROVE  \E i \in 1..Len(v) : v[i] = q
  <2>1. CASE q = o
    BY <1>3, <2>1
  <2>2. CASE q > o
    <3>1. q >= n /\ n \in 1..at /\ q \in n..at
      <4>1. q \in Nat /\ q <= at
        OBVIOUS
      <4>2. q >= n
        BY <1>1, <1>8, <2>2, <4>1
      <4> QED  BY <1>1, <4>1, <4>2
    <3>2. PICK i \in 1..Len(w) : w[i] = q
      BY <1>2, <1>8, <3>1
    <3>3. i + 1 \in 1..Len(v) /\ v[i + 1] = q
      BY <1>3, <3>2
    <3> QED  BY <3>3
  <2> QED  BY <2>1, <2>2
<1>9. IsVisit(v, every, o, at)
  BY <1>3, <1>6, <1>7, <1>8 DEF IsVisit
<1> QED  BY <1>9 DEF v

(* The loop as a function of the occurrence it has come to. *)
Loop(from, every, at) ==
  from = [o \in Nat |-> IF o \in 1..at THEN <<o>> \o from[NextRunAt(every, o)] ELSE << >>]

LEMMA LoopExists ==
  ASSUME NEW every \in Nat \ {0}, NEW at \in Nat
  PROVE  \E from : Loop(from, every, at)
<1> DEFINE body(f, o) == IF o \in 1..at THEN <<o>> \o f[NextRunAt(every, o)] ELSE << >>
           S == {n \in Nat : \E f : /\ DOMAIN f = Nat
                                    /\ \A o \in Nat : o + n > at => f[o] = body(f, o)
                                    /\ f = [o \in Nat |-> f[o]]}
<1>0. \A o \in Nat : NextRunAt(every, o) \in Nat /\ NextRunAt(every, o) > o
  BY NextOccurrence
<1>1. 0 \in S
  <2> DEFINE f == [o \in Nat |-> << >>]
  <2>1. \A o \in Nat : o + 0 > at => f[o] = body(f, o)
    OBVIOUS
  <2> QED  BY <2>1
<1>2. ASSUME NEW n \in Nat, n \in S
      PROVE  n + 1 \in S
  <2>1. PICK f : /\ DOMAIN f = Nat
                 /\ \A o \in Nat : o + n > at => f[o] = body(f, o)
                 /\ f = [o \in Nat |-> f[o]]
    BY <1>2
  <2> DEFINE g == [o \in Nat |-> IF o + n = at THEN body(f, o) ELSE f[o]]
  <2>2. ASSUME NEW o \in Nat, o + (n + 1) > at
        PROVE  g[o] = body(g, o)
    <3> DEFINE p == NextRunAt(every, o)
    <3>1. p \in Nat /\ p > o /\ p + n > at
      BY <1>0, <2>2
    <3>2. g[p] = f[p]
      BY <3>1
    <3>3. g[o] = body(f, o)
      <4>1. CASE o + n = at
        BY <4>1
      <4>2. CASE o + n # at
        <5>1. o + n > at
          BY <2>2, <4>2
        <5> QED  BY <2>1, <4>2, <5>1
      <4> QED  BY <4>1, <4>2
    <3>4. body(f, o) = body(g, o)
      <4> HIDE DEF g
      <4> QED  BY <3>2
    <3> HIDE DEF g, body
    <3> QED  BY <3>3, <3>4
  <2>3. DOMAIN g = Nat /\ g = [o \in Nat |-> g[o]] /\ n + 1 \in Nat
    OBVIOUS
  <2> HIDE DEF g
  <2> QED  BY <2>2, <2>3
<1>3. at + 1 \in S
  <2> HIDE DEF S
  <2>1. \A n \in Nat : n \in S
    BY <1>1, <1>2, Induction
  <2> QED  BY <2>1
<1>4. PICK f : /\ \A o \in Nat : o + (at + 1) > at => f[o] = body(f, o)
               /\ f = [o \in Nat |-> f[o]]
  BY <1>3
<1>5. \A o \in Nat : f[o] = body(f, o)
  <2>1. \A o \in Nat : o + (at + 1) > at
    OBVIOUS
  <2> HIDE DEF body
  <2> QED  BY <1>4, <2>1
<1>6. Loop(f, every, at)
  BY <1>4, <1>5 DEF Loop
<1> QED  BY <1>6

(* The loop visits what it should. *)
LEMMA LoopVisits ==
  ASSUME NEW every \in Nat \ {0}, NEW at \in Nat, NEW from, Loop(from, every, at)
  PROVE  \A o \in Nat : IsVisit(from[o], every, o, at)
<1> DEFINE S == {n \in Nat : \A o \in Nat : o + n > at => IsVisit(from[o], every, o, at)}
<1>0. ASSUME NEW o \in Nat, o \notin 1..at
      PROVE  IsVisit(from[o], every, o, at)
  <2>1. from[o] = << >>
    BY <1>0 DEF Loop
  <2> QED  BY <1>0, <2>1 DEF IsVisit
<1>1. 0 \in S
  BY <1>0
<1>2. ASSUME NEW n \in Nat, n \in S
      PROVE  n + 1 \in S
  <2> SUFFICES ASSUME NEW o \in Nat, o + (n + 1) > at
               PROVE  IsVisit(from[o], every, o, at)
    BY n + 1 \in Nat
  <2>1. CASE o \in 1..at
    <3>1. NextRunAt(every, o) \in Nat /\ NextRunAt(every, o) > o
      BY NextOccurrence
    <3>2. IsVisit(from[NextRunAt(every, o)], every, NextRunAt(every, o), at)
      BY <1>2, <3>1
    <3>3. from[o] = <<o>> \o from[NextRunAt(every, o)]
      BY <2>1 DEF Loop
    <3> QED  BY <2>1, <3>2, <3>3, VisitExtends
  <2> QED  BY <1>0, <2>1
<1>3. at + 1 \in S
  <2> HIDE DEF S
  <2>1. \A n \in Nat : n \in S
    BY <1>1, <1>2, Induction
  <2> QED  BY <2>1
<1> QED  BY <1>3

LEMMA VisitedIsVisit ==
  ASSUME NEW every \in Nat \ {0}, NEW at \in Nat, NEW o \in Nat
  PROVE  IsVisit(Visited(every, o, at), every, o, at)
<1>1. PICK from : Loop(from, every, at) /\ from = CHOOSE f : Loop(f, every, at)
  BY LoopExists
<1>2. Visited(every, o, at) = from[o]
  BY <1>1 DEF Visited, Loop
<1> QED  BY <1>1, <1>2, LoopVisits

-----------------------------------------------------------------------------
(* The greatest number of a part of an interval is in it. *)
LEMMA GreatestIsIn ==
  ASSUME NEW n \in Nat, NEW s \in SUBSET (1..n), s # {}
  PROVE  Max(s) \in s /\ \A y \in s : Max(s) >= y
<1> DEFINE S == {m \in Nat : \A r \in SUBSET (1..m) :
                   r # {} => \E x \in r : \A y \in r : x >= y}
<1>1. 0 \in S
  <2>1. \A r \in SUBSET (1..0) : r = {}
    OBVIOUS
  <2> QED  BY <2>1
<1>2. ASSUME NEW m \in Nat, m \in S
      PROVE  m + 1 \in S
  <2> SUFFICES ASSUME NEW r \in SUBSET (1..(m + 1)), r # {}
               PROVE  \E x \in r : \A y \in r : x >= y
    BY m + 1 \in Nat
  <2>1. CASE m + 1 \in r
    BY <2>1
  <2>2. CASE m + 1 \notin r
    <3>1. r \in SUBSET (1..m)
      BY <2>2
    <3> QED  BY <1>2, <3>1
  <2> QED  BY <2>1, <2>2
<1>3. n \in S
  <2> HIDE DEF S
  <2> QED  BY <1>1, <1>2, Induction
<1>4. \E x \in s : \A y \in s : x >= y
  BY <1>3
<1> QED  BY <1>4 DEF Max

(* The buffer after n occurrences holds the newest of them.                *)
IsNewest(k, v, n) ==
  /\ k \in Seq(Nat)
  /\ Len(k) = IF n < MaxOccurrences THEN n ELSE MaxOccurrences
  /\ \A i \in 1..Len(k) : k[i] = v[n - Len(k) + i]

LEMMA KeepNext ==
  ASSUME NEW v \in Seq(Nat), NEW n \in Nat, n + 1 <= Len(v), NEW k, IsNewest(k, v, n)
  PROVE  IsNewest(Keep(k, v[n + 1]), v, n + 1)
<1> DEFINE o == v[n + 1]
<1>1. o \in Nat /\ MaxOccurrences \in Nat \ {0}
  BY PlannerAssumption
<1>2. /\ k \in Seq(Nat) /\ Len(k) \in Nat
      /\ Len(k) = IF n < MaxOccurrences THEN n ELSE MaxOccurrences
      /\ \A i \in 1..Len(k) : k[i] = v[n - Len(k) + i]
  BY DEF IsNewest
<1> HIDE DEF o
<1>3. CASE Len(k) = MaxOccurrences
  <2> DEFINE t == Tail(k)
             r == Append(t, o)
  <2>1. t \in Seq(Nat) /\ Len(t) = MaxOccurrences - 1 /\ \A i \in 1..Len(t) : t[i] = k[i + 1]
    BY <1>1, <1>2, <1>3
  <2> HIDE DEF t
  <2>2. /\ r \in Seq(Nat) /\ Len(r) = MaxOccurrences /\ r[MaxOccurrences] = o
        /\ \A i \in 1..(MaxOccurrences - 1) : r[i] = t[i]
    BY <1>1, <2>1
  <2>3. ~(n < MaxOccurrences) /\ ~(n + 1 < MaxOccurrences)
    BY <1>1, <1>2, <1>3
  <2> HIDE DEF r
  <2>4. ASSUME NEW i \in 1..Len(r)
        PROVE  r[i] = v[(n + 1) - Len(r) + i]
    <3>1. CASE i = MaxOccurrences
      <4>1. (n + 1) - Len(r) + i = n + 1
        BY <1>1, <2>2, <3>1
      <4> QED  BY <2>2, <3>1, <4>1 DEF o
    <3>2. CASE i # MaxOccurrences
      <4>1. i \in 1..(MaxOccurrences - 1) /\ i + 1 \in 1..Len(k)
        BY <1>1, <1>3, <2>2, <3>2
      <4>2. r[i] = k[i + 1]
        BY <2>1, <2>2, <4>1
      <4>3. k[i + 1] = v[n - Len(k) + (i + 1)]
        BY <1>2, <4>1
      <4>4. n - Len(k) + (i + 1) = (n + 1) - Len(r) + i
        BY <1>1, <1>3, <2>2
      <4> QED  BY <4>2, <4>3, <4>4
    <3> QED  BY <3>1, <3>2
  <2>5. IsNewest(r, v, n + 1)
    BY <2>2, <2>3, <2>4 DEF IsNewest
  <2> QED  BY <1>3, <2>5 DEF Keep, r, t, o
<1>4. CASE Len(k) # MaxOccurrences
  <2> DEFINE r == Append(k, o)
  <2>1. n < MaxOccurrences /\ Len(k) = n
    BY <1>2, <1>4
  <2>2. r \in Seq(Nat) /\ Len(r) = n + 1 /\ r[n + 1] = o /\ \A i \in 1..n : r[i] = k[i]
    BY <1>1, <1>2, <2>1
  <2> HIDE DEF r
  <2>3. ASSUME NEW i \in 1..Len(r)
        PROVE  r[i] = v[(n + 1) - Len(r) + i]
    <3>1. (n + 1) - Len(r) + i = i
      BY <2>2
    <3>2. CASE i = n + 1
      BY <2>2, <3>1, <3>2 DEF o
    <3>3. CASE i # n + 1
      <4>1. i \in 1..n /\ n - Len(k) + i = i
        BY <2>1, <2>2, <3>3
      <4> QED  BY <1>2, <2>1, <2>2, <3>1, <4>1
    <3> QED  BY <3>2, <3>3
  <2>4. Len(r) = IF n + 1 < MaxOccurrences THEN n + 1 ELSE MaxOccurrences
    BY <1>1, <2>1, <2>2
  <2>5. IsNewest(r, v, n + 1)
    BY <2>2, <2>3, <2>4 DEF IsNewest
  <2> QED  BY <1>4, <2>5 DEF Keep, r, o
<1> QED  BY <1>3, <1>4

(* The fold of Kept over the first n occurrences. *)
Buffers(e, v, n) ==
  e = [s \in SUBSET (1..n) |-> IF s = {} THEN << >> ELSE Keep(e[s \ {Max(s)}], v[Max(s)])]

LEMMA BuffersExist ==
  ASSUME NEW n \in Nat, NEW v
  PROVE  \E e : Buffers(e, v, n)
<1> DEFINE S == {m \in Nat : \E e : Buffers(e, v, m)}
           next(e, s) == IF s = {} THEN << >> ELSE Keep(e[s \ {Max(s)}], v[Max(s)])
<1>1. 0 \in S
  <2>1. 1..0 = {}
    OBVIOUS
  <2> DEFINE e == [s \in SUBSET (1..0) |-> << >>]
  <2>2. Buffers(e, v, 0)
    BY <2>1 DEF Buffers
  <2> QED  BY <2>2
<1>2. ASSUME NEW m \in Nat, m \in S
      PROVE  m + 1 \in S
  <2>1. PICK e : Buffers(e, v, m)
    BY <1>2
  <2> DEFINE g == [s \in SUBSET (1..(m + 1)) |-> IF m + 1 \in s THEN next(e, s) ELSE e[s]]
  <2>2. ASSUME NEW s \in SUBSET (1..(m + 1))
        PROVE  g[s] = next(g, s)
    <3>1. CASE s = {}
      BY <2>1, <3>1 DEF Buffers
    <3>2. CASE s # {}
      <4> DEFINE x == Max(s)
      <4>1. x \in s /\ \A y \in s : x >= y
        BY <3>2, GreatestIsIn, m + 1 \in Nat
      <4> HIDE DEF x
      <4>2. s \ {x} \in SUBSET (1..m) /\ m + 1 \notin s \ {x}
        <5>1. m + 1 \in s => x = m + 1
          BY <4>1
        <5> QED  BY <4>1, <5>1
      <4>3. g[s \ {x}] = e[s \ {x}]
        BY <4>2
      <4>4. next(g, s) = next(e, s)
        BY <4>3 DEF x
      <4>5. m + 1 \notin s => e[s] = next(e, s)
        <5> SUFFICES ASSUME m + 1 \notin s
                     PROVE  e[s] = next(e, s)
          OBVIOUS
        <5>1. s \in SUBSET (1..m)
          OBVIOUS
        <5> QED  BY <2>1, <5>1 DEF Buffers
      <4>6. g[s] = IF m + 1 \in s THEN next(e, s) ELSE e[s]
        OBVIOUS
      <4> HIDE DEF g, next
      <4> QED  BY <4>4, <4>5, <4>6
    <3> QED  BY <3>1, <3>2
  <2>3. g = [s \in SUBSET (1..(m + 1)) |-> g[s]]
    OBVIOUS
  <2>4. g = [s \in SUBSET (1..(m + 1)) |-> next(g, s)]
    <3> HIDE DEF g, next
    <3> QED  BY <2>2, <2>3
  <2>5. Buffers(g, v, m + 1)
    <3> HIDE DEF g
    <3> QED  BY <2>4 DEF Buffers
  <2> QED  BY <2>5, m + 1 \in Nat
<1>3. n \in S
  <2> HIDE DEF S
  <2> QED  BY <1>1, <1>2, Induction
<1> QED  BY <1>3

(* Whatever the loop has visited, it ends with the newest of it. *)
LEMMA FoldKeepsNewest ==
  ASSUME NEW v \in Seq(Nat)
  PROVE  IsNewest(FoldLeft(Keep, << >>, v), v, Len(v))
<1> DEFINE n == Len(v)
<1>0. n \in Nat /\ DOMAIN v = 1..n
  OBVIOUS
<1>1. PICK e : Buffers(e, v, n) /\ e = CHOOSE f : Buffers(f, v, n)
  BY <1>0, BuffersExist
<1>2. FoldLeft(Keep, << >>, v) = e[1..n]
  BY <1>0, <1>1 DEF FoldLeft, MapThenFoldSet, Buffers
<1> DEFINE S == {m \in Nat : m <= n => IsNewest(e[1..m], v, m)}
<1>3. 0 \in S
  <2>1. 1..0 = {}
    OBVIOUS
  <2>2. e[1..0] = << >>
    BY <1>1, <2>1 DEF Buffers
  <2>3. IsNewest(<< >>, v, 0)
    BY PlannerAssumption DEF IsNewest
  <2> QED  BY <2>2, <2>3
<1>4. ASSUME NEW m \in Nat, m \in S
      PROVE  m + 1 \in S
  <2> SUFFICES ASSUME m + 1 <= n
               PROVE  IsNewest(e[1..(m + 1)], v, m + 1)
    BY m + 1 \in Nat
  <2> DEFINE s == 1..(m + 1)
  <2>1. s \in SUBSET (1..n) /\ s # {} /\ m + 1 \in s
    <3> HIDE DEF n, S
    <3>1. m + 1 \in Nat /\ m + 1 >= 1 /\ m + 1 \in 1..(m + 1)
      OBVIOUS
    <3>2. \A i \in 1..(m + 1) : i \in 1..n
      BY <1>0
    <3> QED  BY <3>1, <3>2
  <2>2. Max(s) = m + 1
    <3>1. Max(s) \in s /\ Max(s) >= m + 1
      <4>1. m + 1 \in Nat /\ s \in SUBSET (1..(m + 1))
        OBVIOUS
      <4> HIDE DEF s
      <4> QED  BY <2>1, <4>1, GreatestIsIn
    <3> QED  BY <3>1
  <2>3. s \ {m + 1} = 1..m
    OBVIOUS
  <2>4. e[s] = Keep(e[1..m], v[m + 1])
    <3> HIDE DEF s, n
    <3> QED  BY <1>1, <2>1, <2>2, <2>3 DEF Buffers
  <2>5. IsNewest(e[1..m], v, m)
    BY <1>4
  <2> QED  BY <2>4, <2>5, KeepNext
<1>5. n \in S
  <2> HIDE DEF S, n
  <2> QED  BY <1>0, <1>3, <1>4, Induction
<1> QED  BY <1>0, <1>2, <1>5

(* The fold of Kept over what the loop visits: the newest occurrences. *)
LEMMA KeptIsNewest ==
  ASSUME NEW every \in Nat \ {0}, NEW at \in Nat, NEW o \in Nat
  PROVE  LET v == Visited(every, o, at)
             k == FoldLeft(Keep, << >>, v)
         IN  /\ IsVisit(v, every, o, at)
             /\ IsNewest(k, v, Len(v))
<1>1. IsVisit(Visited(every, o, at), every, o, at)
  BY VisitedIsVisit
<1>2. Visited(every, o, at) \in Seq(Nat)
  BY <1>1 DEF IsVisit
<1> QED  BY <1>1, <1>2, FoldKeepsNewest

(* The occurrences from a on, before c, that are newer than x. *)
Newer(every, a, c, x) == {q \in a..(c - 1) : q % every = 0 /\ q > x}

(* An occurrence that is dropped has MaxOccurrences newer ones. *)
LEMMA DroppedIsOld ==
  ASSUME NEW every \in Nat \ {0}, NEW at \in Nat, NEW o \in Nat, NEW a \in 0..o, NEW c \in Nat,
         NEW v, IsVisit(v, every, o, at), NEW k, IsNewest(k, v, Len(v)),
         \A i \in 1..Len(v) : v[i] < c,
         NEW i \in 1..Len(v), \A j \in 1..Len(k) : k[j] # v[i]
  PROVE  Cardinality(Newer(every, a, c, v[i])) >= MaxOccurrences
<1> DEFINE n == Len(v)
           T == Newer(every, a, c, v[i])
           at_(j) == v[n - MaxOccurrences + j]
           f == [j \in 1..MaxOccurrences |-> at_(j)]
<1>1. /\ v \in Seq(Nat) /\ n \in Nat /\ MaxOccurrences \in Nat \ {0}
      /\ \A j \in 1..n : v[j] \in o..at /\ v[j] \in Nat /\ (j > 1 => v[j] % every = 0)
      /\ \A j, l \in 1..n : j < l => v[j] < v[l]
  BY PlannerAssumption DEF IsVisit
<1>2. /\ Len(k) = IF n < MaxOccurrences THEN n ELSE MaxOccurrences
      /\ \A j \in 1..Len(k) : k[j] = v[n - Len(k) + j]
  BY DEF IsNewest
<1> HIDE DEF n
<1>3. i \in 1..n /\ \A j \in 1..n : v[j] < c
  BY DEF n
<1>4. ~(i > n - Len(k))
  <2> SUFFICES ASSUME i > n - Len(k) PROVE FALSE
    OBVIOUS
  <2> DEFINE j == i - (n - Len(k))
  <2>1. j \in 1..Len(k) /\ n - Len(k) + j = i
    BY <1>1, <1>2, <1>3
  <2> QED  BY <1>2, <2>1
<1>5. Len(k) = MaxOccurrences /\ i <= n - MaxOccurrences
  BY <1>1, <1>2, <1>3, <1>4
<1>6. \A j \in 1..MaxOccurrences : n - MaxOccurrences + j \in 1..n /\ n - MaxOccurrences + j > i
  BY <1>1, <1>3, <1>5
<1>7. ASSUME NEW j \in 1..MaxOccurrences
      PROVE  at_(j) \in T
  <2> DEFINE m == n - MaxOccurrences + j
  <2>1. m \in 1..n /\ m > i /\ m > 1
    BY <1>3, <1>6
  <2> HIDE DEF m
  <2>2. v[m] \in o..at /\ v[m] \in Nat /\ v[m] % every = 0 /\ v[m] > v[i] /\ v[m] < c
    BY <1>1, <1>3, <2>1
  <2>3. v[m] \in T
    BY <2>2 DEF Newer
  <2> QED  BY <2>3 DEF m
<1>8. ASSUME NEW j \in 1..MaxOccurrences, NEW l \in 1..MaxOccurrences, j # l
      PROVE  at_(j) # at_(l)
  <2> DEFINE m == n - MaxOccurrences + j
             p == n - MaxOccurrences + l
  <2>1. m \in 1..n /\ p \in 1..n /\ (m < p \/ p < m)
    <3>1. m \in 1..n /\ p \in 1..n
      BY <1>6
    <3>2. m < p \/ p < m
      BY <1>1, <1>8
    <3> QED  BY <3>1, <3>2
  <2>2. v[m] \in Nat /\ v[p] \in Nat
    <3> HIDE DEF m, p
    <3> QED  BY <1>1, <2>1
  <2>3. v[m] < v[p] \/ v[p] < v[m]
    <3> HIDE DEF m, p
    <3> QED  BY <1>1, <2>1
  <2> QED  BY <2>2, <2>3
<1> HIDE DEF at_, T
<1>9. f \in Injection(1..MaxOccurrences, T)
  BY <1>7, <1>8 DEF Injection, IsInjective
<1>10. IsFiniteSet(T)
  <2>1. IsFiniteSet(a..(c - 1))
    BY FS_Interval
  <2>2. T \subseteq a..(c - 1)
    BY DEF T, Newer
  <2> QED  BY <2>1, <2>2, FS_Subset
<1>11. IsFiniteSet(1..MaxOccurrences) /\ Cardinality(1..MaxOccurrences) = MaxOccurrences
  BY <1>1, FS_Interval
<1>12. Cardinality(1..MaxOccurrences) <= Cardinality(T)
  <2> HIDE DEF f
  <2> QED  BY <1>9, <1>10, <1>11, FS_Injection
<1> QED  BY <1>1, <1>10, <1>11, <1>12, FS_CardinalityType DEF T

(* Where the loop begins: at the cursor, or past occurrences that have     *)
(* left the window.                                                        *)
LEMMA FirstInWindow ==
  ASSUME NEW every \in Nat \ {0}, NEW next \in Nat, NEW at \in Nat
  PROVE  LET first == First(every, next, at) IN
         /\ first \in Nat /\ first >= next
         /\ \A o \in next..(first - 1) : o % every = 0 => o + CatchUp < at
<1>1. CASE next + CatchUp < at
  <2> DEFINE t == at - CatchUp - 1
             first == NextRunAt(every, t)
  <2>1. t \in Nat /\ t >= next /\ CatchUp \in Nat
    BY <1>1, PlannerAssumption
  <2>2. First(every, next, at) = first
    BY <1>1 DEF First, OutOfWindow, StartInWindow
  <2> HIDE DEF t
  <2>3. first \in Nat /\ first > t /\ \A q \in Nat : q % every = 0 /\ q > t => q >= first
    BY <2>1, NextOccurrence
  <2> HIDE DEF first
  <2>4. ASSUME NEW o \in next..(first - 1), o % every = 0
        PROVE  o + CatchUp < at
    <3>1. o \in Nat /\ o < first
      BY <2>3
    <3>2. o <= t
      <4>1. o > t => o >= first
        BY <2>3, <2>4, <3>1
      <4>2. ~(o > t)
        BY <2>3, <3>1, <4>1
      <4> QED  BY <2>1, <3>1, <4>2
    <3> QED  BY <2>1, <3>1, <3>2 DEF t
  <2> QED  BY <2>1, <2>2, <2>3, <2>4
<1>2. CASE ~(next + CatchUp < at)
  BY <1>2 DEF First, OutOfWindow
<1> QED  BY <1>1, <1>2

(* What a pass makes of a rule that has a cursor: the jobs lie behind the  *)
(* new cursor, and what is passed over without a job is old.               *)
MayDrop(o, every, next, c, at) ==
  \/ o + CatchUp < at
  \/ Cardinality(Newer(every, next, c, o)) >= MaxOccurrences
IsPlan(k, c, every, next, at) ==
  /\ k \in Seq(Nat) /\ c \in Nat /\ c >= next
  /\ \A i \in 1..Len(k) : k[i] < c
  /\ c # next => \A o \in next..(c - 1) : o % every = 0 =>
       o <= at /\ ((\E i \in 1..Len(k) : k[i] = o) \/ MayDrop(o, every, next, c, at))

LEMMA PlanOfRule ==
  ASSUME NEW every \in Nat \ {0}, NEW next \in Nat \ {0}, NEW at \in Nat
  PROVE  IsPlan(Kept(every, next, at), CursorAfter(every, next, at), every, next, at)
<1> DEFINE first == First(every, next, at)
           v == Visited(every, first, at)
           k == Kept(every, next, at)
           c == CursorAfter(every, next, at)
<1>1. /\ first \in Nat /\ first >= next
      /\ \A o \in next..(first - 1) : o % every = 0 => o + CatchUp < at
  BY FirstInWindow
<1>2. k = FoldLeft(Keep, << >>, v)
  BY DEF Kept
<1>3. c = IF v = << >> THEN first ELSE NextRunAt(every, v[Len(v)])
  BY DEF CursorAfter, Last
<1> HIDE DEF first, k, c
<1>4. IsVisit(v, every, first, at) /\ IsNewest(k, v, Len(v))
  BY <1>1, <1>2, KeptIsNewest
<1> HIDE DEF v
<1>5. k \in Seq(Nat) /\ MaxOccurrences \in Nat \ {0} /\ CatchUp \in Nat
  BY <1>4, PlannerAssumption DEF IsNewest
<1>6. CASE v = << >>
  <2>1. c = first /\ Len(k) = 0
    BY <1>3, <1>4, <1>5, <1>6 DEF IsNewest
  <2>2. ASSUME NEW o \in next..(c - 1), o % every = 0
        PROVE  o <= at /\ MayDrop(o, every, next, c, at)
    <3>1. o \in Nat /\ o + CatchUp < at
      BY <1>1, <2>1, <2>2
    <3> QED  BY <1>5, <3>1 DEF MayDrop
  <2>3. c \in Nat /\ c >= next /\ \A i \in 1..Len(k) : k[i] < c
    BY <1>1, <2>1
  <2>4. IsPlan(k, c, every, next, at)
    BY <1>5, <2>2, <2>3 DEF IsPlan
  <2> QED  BY <2>4 DEF k, c
<1>7. CASE v # << >>
  <2> DEFINE n == Len(v)
  <2>1. /\ first \in 1..at /\ v \in Seq(Nat) /\ n \in Nat \ {0}
        /\ \A i \in 1..n : v[i] \in first..at
        /\ \A i, j \in 1..n : i < j => v[i] < v[j]
        /\ \A q \in first..at : q % every = 0 => \E i \in 1..n : v[i] = q
    BY <1>4, <1>7 DEF IsVisit
  <2>2. \A i \in 1..Len(k) : \E j \in 1..n : k[i] = v[j]
    <3>1. \A i \in 1..Len(k) : k[i] = v[n - Len(k) + i]
      BY <1>4 DEF IsNewest
    <3>2. Len(k) \in Nat /\ Len(k) <= n
      BY <1>4, <1>5, <2>1 DEF IsNewest
    <3>3. \A i \in 1..Len(k) : n - Len(k) + i \in 1..n
      BY <2>1, <3>2
    <3> QED  BY <3>1, <3>3
  <2>3. n \in 1..n /\ v[n] \in Nat /\ v[n] >= first /\ v[n] <= at
    BY <1>1, <2>1
  <2>4. c = NextRunAt(every, v[n])
    BY <1>3, <1>7
  <2>5. c \in Nat /\ c > v[n] /\ \A q \in Nat : q % every = 0 /\ q > v[n] => q >= c
    BY <2>3, <2>4, NextOccurrence
  <2>6. \A i \in 1..n : v[i] < c
    <3> SUFFICES ASSUME NEW i \in 1..n PROVE v[i] < c
      OBVIOUS
    <3>1. v[i] \in Nat
      BY <1>1, <2>1
    <3>2. i = n \/ i < n
      BY <2>1
    <3>3. v[i] <= v[n]
      BY <2>1, <2>3, <3>1, <3>2
    <3> QED  BY <2>3, <2>5, <3>1, <3>3
  <2>7. \A i \in 1..Len(k) : k[i] < c
    BY <2>2, <2>6
  <2>8. ASSUME NEW o \in next..(c - 1), o % every = 0
        PROVE  o <= at /\ ((\E i \in 1..Len(k) : k[i] = o) \/ MayDrop(o, every, next, c, at))
    <3>1. o \in Nat /\ o <= v[n]
      BY <2>3, <2>5, <2>8
    <3>2. o <= at
      BY <2>3, <3>1
    <3>3. CASE o < first
      <4>1. o + CatchUp < at
        BY <1>1, <2>8, <3>1, <3>3
      <4> QED  BY <3>2, <4>1 DEF MayDrop
    <3>4. CASE o >= first
      <4>1. o \in first..at
        BY <1>1, <3>1, <3>2, <3>4
      <4>2. PICK i \in 1..n : v[i] = o
        BY <2>1, <2>8, <4>1
      <4>3. CASE \E j \in 1..Len(k) : k[j] = o
        BY <3>2, <4>3
      <4>4. CASE \A j \in 1..Len(k) : k[j] # v[i]
        <5>1. next \in 0..first
          BY <1>1
        <5>2. Cardinality(Newer(every, next, c, v[i])) >= MaxOccurrences
          BY <1>1, <1>4, <2>5, <2>6, <4>2, <4>4, <5>1, DroppedIsOld
        <5> QED  BY <3>2, <4>2, <5>2 DEF MayDrop
      <4> QED  BY <4>2, <4>3, <4>4
    <3> QED  BY <1>1, <3>1, <3>3, <3>4
  <2>9. c >= next
    BY <1>1, <2>3, <2>5
  <2> HIDE DEF n
  <2>10. IsPlan(k, c, every, next, at)
    BY <1>5, <2>5, <2>7, <2>8, <2>9 DEF IsPlan
  <2> QED  BY <2>10 DEF k, c
<1> QED  BY <1>6, <1>7

-----------------------------------------------------------------------------
(* A schedule that never fires has no cursor. *)
CursorsFit == \A r \in Rules : rule[r].every = Never => rule[r].next = NULL

(* A transaction of a planner began in the past, on rules that are there.  *)
PlannersInv ==
  /\ \A p \in Planners : planner[p].at <= now
  /\ \A p \in Planners : \A r \in planner[p].batch : Exists(r)

(* A job belongs to a revision its rule has had; those of the current one  *)
(* lie behind its cursor, which is there then.                             *)
Queued(j) ==
  /\ Exists(j.rule) /\ j.revision <= rule[j.rule].revision
  /\ j.revision = rule[j.rule].revision =>
       rule[j.rule].next # NULL /\ j.at < rule[j.rule].next
JobsInv == \A j \in jobs : Queued(j)

IInv == TypeOK /\ CursorsFit /\ PlannersInv /\ JobsInv

LEMMA InitInv == Init => IInv
<1> SUFFICES ASSUME Init PROVE IInv
  OBVIOUS
<1>1. \A r \in Rules : rule[r] \in RuleRow /\ rule[r].next = NULL
  <2> SUFFICES ASSUME NEW r \in Rules PROVE rule[r] \in RuleRow /\ rule[r].next = NULL
    OBVIOUS
  <2>1. NoRule \in RuleRow /\ NoRule.next = NULL
    BY DEF NoRule, RuleRow, NULL, Never
  <2>2. ASSUME NEW s \in Schedules
        PROVE  LET row == [NoRule EXCEPT !.revision = 1, !.enabled = TRUE, !.every = s]
               IN  row \in RuleRow /\ row.next = NULL
    BY DEF NoRule, RuleRow, NULL, Never
  <2>3. rule[r] \in {NoRule} \cup
                 {[NoRule EXCEPT !.revision = 1, !.enabled = TRUE, !.every = s] : s \in Schedules}
    BY DEF Init
  <2> QED  BY <2>1, <2>2, <2>3
<1>2. rule \in [Rules -> RuleRow]
  <2>1. rule = [r \in Rules |-> rule[r]]
    BY DEF Init
  <2> QED  BY <1>1, <2>1
<1>3. IdlePlanner \in PlannerState /\ IdlePlanner.at = 0 /\ IdlePlanner.batch = {}
  BY DEF IdlePlanner, PlannerState
<1>4. TypeOK
  BY <1>2, <1>3 DEF Init, TypeOK
<1>5. CursorsFit /\ JobsInv
  BY <1>1 DEF Init, CursorsFit, JobsInv
<1>6. PlannersInv
  <2>1. \A p \in Planners : planner[p] = IdlePlanner
    BY DEF Init
  <2>2. \A p \in Planners : planner[p].at = 0 /\ planner[p].batch = {}
    BY <1>3, <2>1
  <2>3. now = 1
    BY DEF Init
  <2>4. \A p \in Planners : planner[p].at <= now
    BY <2>2, <2>3
  <2>5. \A p \in Planners : \A r \in planner[p].batch : Exists(r)
    BY <2>2
  <2> QED  BY <2>4, <2>5 DEF PlannersInv
<1> QED  BY <1>4, <1>5, <1>6 DEF IInv

(* The pass of a batch, rule by rule. *)
LEMMA PlannedRule ==
  ASSUME IInv, NEW r \in Rules, Exists(r), NEW at \in Nat
  PROVE  /\ Planned(r, at) \in RuleRow
         /\ Planned(r, at).revision = rule[r].revision
         /\ Planned(r, at).every = rule[r].every
         /\ rule[r].every = Never => Planned(r, at).next = NULL
         /\ rule[r].next # NULL => Planned(r, at).next \in Nat /\ Planned(r, at).next >= rule[r].next
         /\ \A j \in NewJobs(r, at) :
              /\ j \in Job /\ j.rule = r /\ j.revision = rule[r].revision
              /\ rule[r].next # NULL /\ j.at < Planned(r, at).next
<1> DEFINE every == rule[r].every
           next == rule[r].next
           row(n) == [rule[r] EXCEPT !.next = n]
<1>1. rule[r] \in RuleRow /\ every \in Nat /\ next \in Nat /\ rule[r].revision \in Nat
  <2>1. rule[r] \in RuleRow
    BY DEF IInv, TypeOK
  <2>2. every \in Schedules \cup {Never} /\ next \in Nat /\ rule[r].revision \in Nat
    BY <2>1 DEF RuleRow
  <2>3. Schedules \subseteq Nat
    BY PlannerAssumption
  <2>4. every \in Nat
    <3> HIDE DEF every
    <3> QED  BY <2>2, <2>3 DEF Never
  <2> QED  BY <2>1, <2>2, <2>4
<1>2. ASSUME NEW n \in Nat
      PROVE  /\ row(n) \in RuleRow /\ row(n).next = n
             /\ row(n).revision = rule[r].revision /\ row(n).every = every
  BY <1>1 DEF RuleRow
<1>3. CASE next = NULL
  <2> DEFINE n == NextRunAt(every, at)
  <2>1. n \in Nat /\ (every = Never => n = NULL)
    <3>1. CASE every = Never
      BY <3>1 DEF NextRunAt, NULL
    <3>2. CASE every # Never
      <4>1. every \in Nat \ {0}
        BY <1>1, <3>2 DEF Never
      <4> QED  BY <3>2, <4>1, NextOccurrence
    <3> QED  BY <3>1, <3>2
  <2>2. Planned(r, at) = row(n) /\ NewJobs(r, at) = {}
    BY <1>3 DEF Planned, NewJobs
  <2> HIDE DEF n, row
  <2> QED  BY <1>2, <1>3, <2>1, <2>2
<1>4. CASE next # NULL
  <2> DEFINE k == Kept(every, next, at)
             c == CursorAfter(every, next, at)
  <2>1. every # Never
    BY <1>4 DEF IInv, CursorsFit
  <2>2. every \in Nat \ {0} /\ next \in Nat \ {0}
    BY <1>1, <1>4, <2>1 DEF Never, NULL
  <2>3. IsPlan(k, c, every, next, at)
    BY <2>2, PlanOfRule
  <2> HIDE DEF k, c
  <2>4. k \in Seq(Nat) /\ c \in Nat /\ c >= next /\ \A i \in 1..Len(k) : k[i] < c
    BY <2>3 DEF IsPlan
  <2>5. Planned(r, at) = row(c)
    BY <1>4 DEF Planned, c
  <2>6. NewJobs(r, at) = {[rule |-> r, revision |-> rule[r].revision, at |-> k[i]] : i \in DOMAIN k}
    BY <1>4 DEF NewJobs, k
  <2>7. \A j \in NewJobs(r, at) : j \in Job /\ j.rule = r /\ j.revision = rule[r].revision /\ j.at < c
    BY <1>1, <2>4, <2>6 DEF Job
  <2> HIDE DEF row
  <2> QED  BY <1>2, <1>4, <2>1, <2>4, <2>5, <2>7
<1> QED  BY <1>3, <1>4

(* The cursor of a rule that is created or patched. *)
LEMMA NextRunType ==
  ASSUME NEW every \in Schedules \cup {Never}, NEW t \in Nat
  PROVE  NextRunAt(every, t) \in Nat /\ (every = Never => NextRunAt(every, t) = NULL)
<1>1. CASE every = Never
  BY <1>1 DEF NextRunAt, NULL
<1>2. CASE every # Never
  <2>1. Schedules \subseteq Nat
    BY PlannerAssumption
  <2>2. every \in Nat \ {0}
    BY <1>2, <2>1 DEF Never
  <2> QED  BY <1>2, <2>2, NextOccurrence
<1> QED  BY <1>1, <1>2

(* A new row for one rule: its jobs, if it had any, are of older revisions. *)
LEMMA NewRowInv ==
  ASSUME IInv, NEW r \in Rules, NEW row \in RuleRow, rule' = [rule EXCEPT ![r] = row],
         row.revision > rule[r].revision, row.every = Never => row.next = NULL,
         patch' \in [Rules -> Nat], UNCHANGED <<now, jobs, planner, deaths>>
  PROVE  IInv'
<1>1. /\ TypeOK /\ rule \in [Rules -> RuleRow] /\ jobs \subseteq Job
      /\ \A j \in jobs : j.rule \in Rules /\ j.revision \in Nat
      /\ \A q \in Rules : rule[q].revision \in Nat
      /\ row.revision \in Nat
  BY DEF IInv, TypeOK, RuleRow, Job
<1>2. rule' \in [Rules -> RuleRow] /\ rule'[r] = row /\ \A q \in Rules : q # r => rule'[q] = rule[q]
  BY <1>1
<1>3. TypeOK'
  BY <1>1, <1>2 DEF TypeOK
<1>4. CursorsFit'
  BY <1>2 DEF IInv, CursorsFit
<1>5. \A q \in Rules : Exists(q) => Exists(q)'
  BY <1>1, <1>2 DEF Exists
<1>6. PlannersInv'
  <2>1. \A p \in Planners : planner[p].batch \subseteq Rules
    BY <1>1 DEF TypeOK, PlannerState
  <2> QED  BY <1>5, <2>1 DEF IInv, PlannersInv
<1>7. JobsInv'
  <2> SUFFICES ASSUME NEW j \in jobs PROVE Queued(j)'
    BY DEF JobsInv
  <2>1. Queued(j)
    BY DEF IInv, JobsInv
  <2>2. CASE j.rule = r
    <3>1. Exists(j.rule)' /\ j.revision <= rule[r].revision
      BY <1>1, <1>5, <2>1, <2>2 DEF Queued
    <3>2. j.revision < rule'[j.rule].revision
      BY <1>1, <1>2, <2>2, <3>1
    <3> QED  BY <1>1, <1>2, <2>2, <3>1, <3>2 DEF Queued
  <2>3. CASE j.rule # r
    <3>1. rule'[j.rule] = rule[j.rule] /\ Exists(j.rule)'
      BY <1>1, <1>2, <1>5, <2>1, <2>3 DEF Queued
    <3> QED  BY <2>1, <3>1 DEF Queued
  <2> QED  BY <2>2, <2>3
<1> QED  BY <1>3, <1>4, <1>6, <1>7 DEF IInv

(* A step of a planner that leaves rules and jobs alone. *)
LEMMA PlannerInv ==
  ASSUME IInv, NEW p \in Planners, NEW s \in PlannerState, planner' = [planner EXCEPT ![p] = s],
         s.at <= now, \A r \in s.batch : Exists(r),
         deaths' \in Nat, UNCHANGED <<now, rule, patch, jobs>>
  PROVE  IInv'
<1>1. planner' \in [Planners -> PlannerState]
  BY DEF IInv, TypeOK
<1>2. TypeOK'
  BY <1>1 DEF IInv, TypeOK
<1>3. \A q \in Planners : planner'[q] = IF q = p THEN s ELSE planner[q]
  BY DEF IInv, TypeOK
<1>4. PlannersInv'
  BY <1>3 DEF IInv, PlannersInv, Exists
<1> QED  BY <1>2, <1>4 DEF IInv, CursorsFit, JobsInv, Queued, Exists

(* A batch is planned and its rows released. *)
LEMMA BatchInv ==
  ASSUME IInv, NEW p \in Planners, PlanBatch(p)
  PROVE  IInv'
<1> DEFINE at == planner[p].at
           batch == planner[p].batch
<1>1. /\ rule' = [r \in Rules |-> IF r \in batch THEN Planned(r, at) ELSE rule[r]]
      /\ jobs' = jobs \cup UNION {NewJobs(r, at) : r \in batch}
      /\ UNCHANGED <<now, patch, deaths>>
  BY DEF PlanBatch
<1>2. /\ TypeOK /\ at \in Nat /\ batch \subseteq Rules
      /\ rule \in [Rules -> RuleRow] /\ \A r \in Rules : rule[r].next \in Nat
      /\ \A j \in jobs : j \in Job /\ j.rule \in Rules /\ j.at \in Nat /\ j.revision \in Nat
  BY DEF IInv, TypeOK, PlannerState, RuleRow, Job
<1>3. \A r \in batch : Exists(r)
  BY DEF IInv, PlannersInv
<1> HIDE DEF at, batch
<1>4. ASSUME NEW r \in Rules
      PROVE  /\ rule'[r] \in RuleRow
             /\ rule'[r].revision = rule[r].revision /\ rule'[r].every = rule[r].every
             /\ rule[r].every = Never => rule'[r].next = NULL
             /\ rule[r].next # NULL => rule'[r].next \in Nat /\ rule'[r].next >= rule[r].next
  <2>1. CASE r \in batch
    BY <1>1, <1>2, <1>3, <2>1, PlannedRule
  <2>2. CASE r \notin batch
    <3>1. rule'[r] = rule[r] /\ rule[r] \in RuleRow
      BY <1>1, <1>2, <2>2
    <3> QED  BY <1>2, <3>1 DEF IInv, CursorsFit
  <2> QED  BY <2>1, <2>2
<1>5. \A r \in Rules : Exists(r) => Exists(r)'
  BY <1>4 DEF Exists
<1>6. \A j \in jobs' : j \notin jobs =>
        /\ j \in Job /\ j.rule \in batch /\ j.revision = rule[j.rule].revision
        /\ rule[j.rule].next # NULL /\ j.at < Planned(j.rule, at).next
  <2> SUFFICES ASSUME NEW j \in jobs', j \notin jobs
               PROVE  /\ j \in Job /\ j.rule \in batch /\ j.revision = rule[j.rule].revision
                      /\ rule[j.rule].next # NULL /\ j.at < Planned(j.rule, at).next
    OBVIOUS
  <2>1. PICK r \in batch : j \in NewJobs(r, at)
    BY <1>1
  <2>2. r \in Rules /\ Exists(r)
    BY <1>2, <1>3
  <2> QED  BY <1>2, <2>1, <2>2, PlannedRule
<1>7. TypeOK'
  <2>1. rule' \in [Rules -> RuleRow]
    <3>1. rule' = [r \in Rules |-> rule'[r]]
      BY <1>1
    <3> QED  BY <1>4, <3>1
  <2>2. jobs' \subseteq Job
    BY <1>2, <1>6
  <2>3. planner' \in [Planners -> PlannerState]
    BY <1>2 DEF PlanBatch, TypeOK, PlannerState, IdlePlanner
  <2> QED  BY <1>1, <1>2, <2>1, <2>2, <2>3 DEF TypeOK
<1>8. CursorsFit'
  BY <1>4 DEF CursorsFit
<1>9. PlannersInv'
  <2>1. now \in Nat /\ planner'[p].at <= now /\ planner'[p].batch = {}
    BY <1>2 DEF PlanBatch, TypeOK, IdlePlanner
  <2>2. \A q \in Planners : q # p => planner'[q] = planner[q]
    BY <1>2 DEF PlanBatch, TypeOK
  <2>3. \A q \in Planners : planner[q].batch \subseteq Rules
    BY <1>2 DEF TypeOK, PlannerState
  <2> QED  BY <1>1, <1>5, <2>1, <2>2, <2>3 DEF IInv, PlannersInv
<1>10. JobsInv'
  <2> SUFFICES ASSUME NEW j \in jobs' PROVE Queued(j)'
    BY DEF JobsInv
  <2>1. CASE j \in jobs
    <3>1. Queued(j) /\ j.rule \in Rules /\ j.at \in Nat
      BY <1>2, <2>1 DEF IInv, JobsInv
    <3>2. Exists(j.rule)' /\ rule'[j.rule].revision = rule[j.rule].revision
      BY <1>4, <1>5, <3>1 DEF Queued
    <3>3. j.revision = rule[j.rule].revision =>
            rule'[j.rule].next # NULL /\ j.at < rule'[j.rule].next
      BY <1>2, <1>4, <3>1 DEF Queued, NULL
    <3> QED  BY <3>1, <3>2, <3>3 DEF Queued
  <2>2. CASE j \notin jobs
    <3>1. /\ j.rule \in Rules /\ Exists(j.rule) /\ j.revision = rule[j.rule].revision
          /\ j.at \in Nat /\ j.revision \in Nat /\ j.at < rule'[j.rule].next
      <4>1. j \in Job /\ j.rule \in batch
        BY <1>6, <2>2
      <4>2. rule'[j.rule] = Planned(j.rule, at)
        BY <1>1, <1>2, <4>1
      <4> QED  BY <1>2, <1>3, <1>6, <2>2, <4>1, <4>2 DEF Job
    <3>2. rule'[j.rule].next \in Nat
      BY <1>4, <3>1 DEF RuleRow
    <3> QED  BY <1>4, <1>5, <3>1, <3>2 DEF Queued, NULL
  <2> QED  BY <2>1, <2>2
<1> QED  BY <1>7, <1>8, <1>9, <1>10 DEF IInv

(* Every step keeps the invariant. *)
LEMMA StepInv == IInv /\ [Next]_vars => IInv'
<1> SUFFICES ASSUME IInv, [Next]_vars PROVE IInv'
  OBVIOUS
<1>t. /\ TypeOK /\ now \in Nat /\ deaths \in Nat
      /\ rule \in [Rules -> RuleRow] /\ patch \in [Rules -> Nat]
      /\ \A p \in Planners : planner[p] \in PlannerState
      /\ \A r \in Rules : rule[r].revision \in Nat
  BY DEF IInv, TypeOK, RuleRow
<1>i. IdlePlanner \in PlannerState /\ IdlePlanner.at = 0 /\ IdlePlanner.batch = {}
  BY DEF IdlePlanner, PlannerState
<1>1. CASE Tick
  <2>1. now' = now + 1 /\ UNCHANGED <<rule, patch, jobs, planner, deaths>>
    BY <1>1 DEF Tick
  <2>2. \A p \in Planners : planner[p].at \in Nat
    BY <1>t DEF PlannerState
  <2>3. PlannersInv'
    BY <1>t, <2>1, <2>2 DEF IInv, PlannersInv, Exists
  <2>4. TypeOK'
    BY <1>t, <2>1 DEF TypeOK
  <2> QED  BY <2>1, <2>3, <2>4 DEF IInv, CursorsFit, JobsInv, Queued, Exists
<1>2. ASSUME NEW p \in Planners, Begin(p) PROVE IInv'
  <2> DEFINE s == [pc |-> "select", at |-> now, batch |-> {}]
  <2>1. planner' = [planner EXCEPT ![p] = s] /\ UNCHANGED <<now, rule, patch, jobs, deaths>>
    BY <1>2 DEF Begin
  <2>2. s \in PlannerState /\ s.at <= now /\ s.batch = {}
    BY <1>t DEF PlannerState
  <2> HIDE DEF s
  <2> QED  BY <1>t, <2>1, <2>2, PlannerInv
<1>3. ASSUME NEW p \in Planners, SelectDue(p) PROVE IInv'
  <2>1. PICK batch \in SUBSET Selectable(planner[p].at) :
          /\ planner' = [planner EXCEPT ![p].pc = "plan", ![p].batch = batch]
          /\ UNCHANGED <<now, rule, patch, jobs, deaths>>
    BY <1>3 DEF SelectDue
  <2> DEFINE s == [planner[p] EXCEPT !.pc = "plan", !.batch = batch]
  <2>2. batch \subseteq Rules /\ \A r \in batch : Exists(r)
    BY DEF Selectable
  <2>3. planner[p] \in PlannerState /\ planner[p].at <= now
    BY <1>t DEF IInv, PlannersInv
  <2>4. s \in PlannerState /\ s.at = planner[p].at /\ s.batch = batch
    BY <2>2, <2>3 DEF PlannerState
  <2>5. planner' = [planner EXCEPT ![p] = s]
    BY <1>t, <2>1 DEF TypeOK
  <2> HIDE DEF s
  <2> QED  BY <1>t, <2>1, <2>2, <2>3, <2>4, <2>5, PlannerInv
<1>4. ASSUME NEW p \in Planners, Abort(p) PROVE IInv'
  <2>1. planner' = [planner EXCEPT ![p] = IdlePlanner] /\ deaths' \in Nat
        /\ UNCHANGED <<now, rule, patch, jobs>>
    BY <1>4, <1>t DEF Abort
  <2>2. IdlePlanner.at <= now /\ \A r \in IdlePlanner.batch : Exists(r)
    BY <1>t, <1>i
  <2> QED  BY <1>i, <2>1, <2>2, PlannerInv
<1>5. ASSUME NEW r \in Rules, NEW every \in Schedules, NEW enabled \in BOOLEAN,
             CreateRule(r, every, enabled)
      PROVE  IInv'
  <2> DEFINE next == IF enabled THEN NextRunAt(every, now) ELSE NULL
             row == [revision |-> 1, enabled |-> enabled, every |-> every, next |-> next]
  <2>1. rule' = [rule EXCEPT ![r] = row] /\ ~Exists(r)
        /\ UNCHANGED <<now, patch, jobs, planner, deaths>>
    BY <1>5 DEF CreateRule
  <2>2. next \in Nat /\ (every = Never => next = NULL)
    BY <1>t, NextRunType DEF NULL
  <2> HIDE DEF next
  <2>3. row \in RuleRow /\ row.revision = 1 /\ row.every = every /\ row.next = next
    BY <2>2 DEF RuleRow
  <2>4. rule[r].revision < 1
    BY <1>t, <2>1 DEF Exists
  <2> HIDE DEF row
  <2>5. row.revision > rule[r].revision /\ patch' \in [Rules -> Nat]
    BY <1>t, <2>1, <2>3, <2>4
  <2> QED  BY <2>1, <2>2, <2>3, <2>5, NewRowInv
<1>6. ASSUME NEW r \in Rules, NEW every \in Schedules, NEW enabled \in BOOLEAN,
             PatchRule(r, every, enabled)
      PROVE  IInv'
  <2> DEFINE next == IF enabled THEN NextRunAt(every, patch[r]) ELSE NULL
             row == [revision |-> rule[r].revision + 1, enabled |-> enabled, every |-> every,
                     next |-> next]
  <2>1. rule' = [rule EXCEPT ![r] = row] /\ patch' = [patch EXCEPT ![r] = 0]
        /\ UNCHANGED <<now, jobs, planner, deaths>>
    BY <1>6 DEF PatchRule, RevisionAdvanced
  <2>2. next \in Nat /\ (every = Never => next = NULL)
    <3>1. patch[r] \in Nat
      BY <1>t
    <3> QED  BY <3>1, NextRunType DEF NULL
  <2> HIDE DEF next
  <2>3. row \in RuleRow /\ row.revision = rule[r].revision + 1 /\ row.every = every /\ row.next = next
    BY <1>t, <2>2 DEF RuleRow
  <2> HIDE DEF row
  <2>4. row.revision > rule[r].revision /\ patch' \in [Rules -> Nat]
    BY <1>t, <2>1, <2>3
  <2> QED  BY <2>1, <2>2, <2>3, <2>4, NewRowInv
<1>7. ASSUME NEW r \in Rules, PatchBegin(r) PROVE IInv'
  <2>1. patch' \in [Rules -> Nat] /\ UNCHANGED <<now, rule, jobs, planner, deaths>>
    BY <1>7, <1>t DEF PatchBegin
  <2>2. TypeOK'
    BY <1>t, <2>1 DEF TypeOK
  <2> QED  BY <2>1, <2>2 DEF IInv, CursorsFit, PlannersInv, JobsInv, Queued, Exists
<1>8. CASE UNCHANGED vars
  <2>1. UNCHANGED <<now, rule, patch, jobs, planner, deaths>>
    BY <1>8 DEF vars
  <2>2. TypeOK'
    BY <1>t, <2>1 DEF TypeOK
  <2> QED  BY <2>1, <2>2 DEF IInv, CursorsFit, PlannersInv, JobsInv, Queued, Exists
<1> QED  BY <1>1, <1>2, <1>3, <1>4, <1>5, <1>6, <1>7, <1>8, BatchInv DEF Next

LEMMA Invariance == Spec => []IInv
  BY InitInv, StepInv, PTL DEF Spec

(* Rules, jobs and planners are well typed. *)
THEOREM TypeCorrect == Spec => []TypeOK
<1>1. IInv => TypeOK
  BY DEF IInv
<1> QED  BY Invariance, <1>1, PTL

(* No planner ever comes by an occurrence that is queued already.          *)
THEOREM QueueIsBehind == Spec => []QueuedBehindTheCursor
<1>1. IInv => QueuedBehindTheCursor
  BY DEF IInv, JobsInv, Queued, QueuedBehindTheCursor
<1> QED  BY Invariance, <1>1, PTL

-----------------------------------------------------------------------------
(* The cursor of a revision is moved by planners only. *)
LEMMA OnlyPlannersMoveCursors ==
  ASSUME IInv, [Next]_vars, NEW r \in Rules, Exists(r), rule'[r].revision = rule[r].revision,
         rule'[r].next # rule[r].next
  PROVE  \E p \in Planners : PlanBatch(p)
<1>1. rule \in [Rules -> RuleRow] /\ rule[r].revision \in Nat
  BY DEF IInv, TypeOK, RuleRow
<1>2. ASSUME NEW q \in Rules, NEW every \in Schedules, NEW enabled \in BOOLEAN
      PROVE  ~CreateRule(q, every, enabled) /\ ~PatchRule(q, every, enabled)
  <2>1. ~CreateRule(q, every, enabled)
    BY <1>1 DEF CreateRule
  <2>2. ASSUME PatchRule(q, every, enabled) PROVE FALSE
    <3>1. CASE q = r
      <4>1. rule'[r].revision = rule[r].revision + 1
        BY <1>1, <2>2, <3>1 DEF PatchRule, RevisionAdvanced
      <4> QED  BY <1>1, <4>1
    <3>2. CASE q # r
      BY <1>1, <2>2, <3>2 DEF PatchRule
    <3> QED  BY <3>1, <3>2
  <2> QED  BY <2>1, <2>2
<1>3. rule' # rule
  OBVIOUS
<1> QED  BY <1>2, <1>3 DEF Next, vars, Tick, Begin, SelectDue, Abort, PatchBegin

(* What a planner passes over is queued, or it is old.                     *)
LEMMA BatchDrops ==
  ASSUME IInv, NEW p \in Planners, PlanBatch(p), NEW r \in Rules,
         rule[r].next # NULL, rule'[r].next # rule[r].next, NEW o \in PassedOver(r)
  PROVE  /\ o <= now
         /\ \/ [rule |-> r, revision |-> rule[r].revision, at |-> o] \in jobs'
            \/ o + CatchUp < now
            \/ Cardinality({q \in PassedOver(r) : q > o}) >= MaxOccurrences
<1> DEFINE at == planner[p].at
           batch == planner[p].batch
           every == rule[r].every
           next == rule[r].next
           k == Kept(every, next, at)
           c == CursorAfter(every, next, at)
<1>1. /\ rule' = [q \in Rules |-> IF q \in batch THEN Planned(q, at) ELSE rule[q]]
      /\ jobs' = jobs \cup UNION {NewJobs(q, at) : q \in batch}
  BY DEF PlanBatch
<1>2. r \in batch
  BY <1>1
<1>3. rule[r] \in RuleRow /\ at \in Nat /\ now \in Nat /\ at <= now /\ CatchUp \in Nat
  BY PlannerAssumption DEF IInv, TypeOK, PlannerState, PlannersInv
<1>4. every \in Nat \ {0} /\ next \in Nat \ {0} /\ every # Never
  <2>1. every \in Schedules \cup {Never} /\ next \in Nat
    BY <1>3 DEF RuleRow
  <2>2. every # Never /\ next # 0
    BY DEF IInv, CursorsFit, NULL
  <2>3. Schedules \subseteq Nat
    BY PlannerAssumption
  <2> QED  BY <2>1, <2>2, <2>3 DEF Never
<1>5. rule'[r].next = c
  <2>1. Planned(r, at) = [rule[r] EXCEPT !.next = c]
    BY DEF Planned
  <2>2. [rule[r] EXCEPT !.next = c].next = c
    BY <1>3 DEF RuleRow
  <2> QED  BY <1>1, <1>2, <2>1, <2>2
<1>6. IsPlan(k, c, every, next, at)
  BY <1>3, <1>4, PlanOfRule
<1>7. NewJobs(r, at) = {[rule |-> r, revision |-> rule[r].revision, at |-> k[i]] : i \in DOMAIN k}
  BY DEF NewJobs
<1> HIDE DEF at, batch, k, c
<1>8. PassedOver(r) = {q \in next..(c - 1) : q % every = 0}
  BY <1>4, <1>5 DEF PassedOver, Fires
<1>9. {q \in PassedOver(r) : q > o} = Newer(every, next, c, o)
  BY <1>8 DEF Newer
<1> HIDE DEF every, next
<1>10. k \in Seq(Nat) /\ c \in Nat /\ o \in next..(c - 1) /\ o % every = 0 /\ c # next
  BY <1>5, <1>6, <1>8 DEF IsPlan, next
<1>11. o <= at /\ ((\E i \in 1..Len(k) : k[i] = o) \/ MayDrop(o, every, next, c, at))
  BY <1>6, <1>10 DEF IsPlan
<1>12. o \in Nat /\ o <= now
  BY <1>3, <1>4, <1>10, <1>11
<1>13. ASSUME NEW i \in 1..Len(k), k[i] = o
       PROVE  [rule |-> r, revision |-> rule[r].revision, at |-> o] \in jobs'
  <2>1. [rule |-> r, revision |-> rule[r].revision, at |-> o] \in NewJobs(r, at)
    BY <1>7, <1>10, <1>13
  <2> QED  BY <1>1, <1>2, <2>1
<1>14. o + CatchUp < at => o + CatchUp < now
  BY <1>3, <1>12
<1> QED  BY <1>9, <1>11, <1>12, <1>13, <1>14 DEF MayDrop

(* A planner passes over nothing of the future, and over an occurrence of  *)
(* the past without a job only if it has left the window or there are      *)
(* MaxOccurrences newer ones, however far behind the cursor was.           *)
THEOREM OnlyTheOldestAreDropped == Spec => DropsOnlyTheOldest
<1>1. ASSUME IInv, [Next]_vars
      PROVE  \A r \in Rules :
               Exists(r) /\ rule'[r].revision = rule[r].revision
                 /\ rule[r].next # NULL /\ rule'[r].next # rule[r].next =>
                 \A o \in PassedOver(r) :
                   /\ o <= now
                   /\ \/ [rule |-> r, revision |-> rule[r].revision, at |-> o] \in jobs'
                      \/ o + CatchUp < now
                      \/ Cardinality({q \in PassedOver(r) : q > o}) >= MaxOccurrences
  BY <1>1, OnlyPlannersMoveCursors, BatchDrops
<1> QED  BY Invariance, <1>1, PTL DEF Spec, DropsOnlyTheOldest
=============================================================================
