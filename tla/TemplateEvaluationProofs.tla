---------------------- MODULE TemplateEvaluationProofs ----------------------
(***************************************************************************)
(* The verdicts of the templates, for balances of any size and kernels of  *)
(* any width, then the properties of an evaluation and its replay, for any *)
(* rules, sources, margins and interleavings with the movements of the     *)
(* sources.                                                                *)
(*                                                                         *)
(* Verdicts: each proof follows snapshotVerdictExpression.  When every     *)
(* value fits, each step of the kernel returns its exact result; when one  *)
(* does not, the kernel is not asked to calculate.  The sum of             *)
(* ledger_invariant, and the kernel's, are folds over a sequence of any    *)
(* length: the induction is made over a set of naturals, whose least       *)
(* element comes from the theorem on well-founded relations.               *)
(*                                                                         *)
(* Evaluations: one that is done has the outcomes of the balances it read  *)
(* (EvaluationInv), so the theorems on verdicts apply to it.  For replays  *)
(* the invariant says of a settled evaluation that each balance it read is *)
(* the one in force at the recorded instant (SettledInv), which no later   *)
(* movement changes, and of a replay that it has read the same so far.     *)
(***************************************************************************)
EXTENDS TemplateEvaluation, TLAPS, FiniteSetTheorems, WellFoundedInduction

(* A value that fits is a literal of the kernel. *)
LEMMA CheckedFits ==
  ASSUME NEW x \in Int64
  PROVE  Checked(x) = {x}
  BY DEF Checked

(* A sum and a difference that fit are what the kernel computes. *)
LEMMA PlusFits ==
  ASSUME NEW x \in Int64, NEW y \in Int64, x + y \in Int64
  PROVE  Plus(Literal(x), Literal(y)) = {x + y}
<1>1. Literal(x) = {x} /\ Literal(y) = {y}
  BY CheckedFits DEF Literal
<1>2. Checked(x + y) = {x + y}
  BY CheckedFits
<1> QED BY <1>1, <1>2 DEF Plus

LEMMA MinusFits ==
  ASSUME NEW x \in Int64, NEW y \in Int64, x - y \in Int64
  PROVE  Minus(Literal(x), Literal(y)) = {x - y}
<1>1. Literal(x) = {x} /\ Literal(y) = {y}
  BY CheckedFits DEF Literal
<1>2. Checked(x - y) = {x - y}
  BY CheckedFits
<1> QED BY <1>1, <1>2 DEF Minus

(* abs refuses the minimum, whose magnitude does not fit either. *)
LEMMA AbsFits ==
  ASSUME NEW x \in Int64, Magnitude(x) \in Int64
  PROVE  AbsInt({x}) = {Magnitude(x)}
<1>1. x # IntMin
  BY IntAssumption DEF Int64, IntMin, Magnitude
<1> QED BY <1>1 DEF AbsInt

(* snapshotVerdictExpression for ledger_vs_pool_drift: whatever the size   *)
(* of the balances, the verdict is the exact one and the kernel does not   *)
(* fail.                                                                   *)
THEOREM DriftIsExact ==
  ASSUME NEW sign \in {1, -1}, NEW ledger \in Int, NEW pool \in Int, NEW tolerance \in Nat
  PROVE  DriftVerdict(sign, ledger, pool, tolerance)
           = {DriftPassed(sign, ledger, pool, tolerance)}
<1> DEFINE l == sign * ledger
           values == DriftValues(sign, ledger, pool)
<1>1. CASE values \subseteq Int64
  <2>1. /\ l \in Int64 /\ pool \in Int64
        /\ l + pool \in Int64 /\ Magnitude(l + pool) \in Int64
    BY <1>1 DEF DriftValues
  <2>2. Plus(Literal(l), Literal(pool)) = {l + pool}
    BY <2>1, PlusFits
  <2>3. AbsInt({l + pool}) = {Magnitude(l + pool)}
    BY <2>1, AbsFits
  <2>4. DriftKernel(sign, ledger, pool, tolerance) = {Magnitude(l + pool) <= tolerance}
    BY <2>2, <2>3 DEF DriftKernel, AtMost
  <2> QED BY <1>1, <2>4 DEF DriftVerdict, SnapshotVerdict, DriftPassed
<1>2. CASE ~(values \subseteq Int64)
  BY <1>2 DEF DriftVerdict, SnapshotVerdict
<1> QED BY <1>1, <1>2

(* The same of source_parity. *)
THEOREM ParityIsExact ==
  ASSUME NEW left \in Int, NEW right \in Int, NEW tolerance \in Nat
  PROVE  ParityVerdict(left, right, tolerance) = {ParityPassed(left, right, tolerance)}
<1> DEFINE values == ParityValues(left, right)
<1>1. CASE values \subseteq Int64
  <2>1. /\ left \in Int64 /\ right \in Int64
        /\ left - right \in Int64 /\ Magnitude(left - right) \in Int64
    BY <1>1 DEF ParityValues
  <2>2. Minus(Literal(left), Literal(right)) = {left - right}
    BY <2>1, MinusFits
  <2>3. AbsInt({left - right}) = {Magnitude(left - right)}
    BY <2>1, AbsFits
  <2>4. ParityKernel(left, right, tolerance) = {Magnitude(left - right) <= tolerance}
    BY <2>2, <2>3 DEF ParityKernel, AtMost
  <2> QED BY <1>1, <2>4 DEF ParityVerdict, SnapshotVerdict, ParityPassed
<1>2. CASE ~(values \subseteq Int64)
  BY <1>2 DEF ParityVerdict, SnapshotVerdict
<1> QED BY <1>1, <1>2

(* The same of account_threshold, whose bounds are int64 and need not fit  *)
(* anything: min and max are compared with the literal of the balance.     *)
THEOREM ThresholdIsExact ==
  ASSUME NEW value \in Int, NEW bounds, \A b \in bounds : b[2] \in Int
  PROVE  ThresholdVerdict(value, bounds) = {ThresholdPassed(value, bounds)}
<1> DEFINE compare(b) == IF b[1] = "min" THEN AtLeast(Literal(value), b[2])
                                         ELSE AtMost(Literal(value), b[2])
<1>1. CASE value \in Int64
  <2>1. Literal(value) = {value}
    BY <1>1, CheckedFits DEF Literal
  <2>2. ASSUME NEW b \in bounds
        PROVE  compare(b) = {Respects(value, b)} /\ Respects(value, b) \in BOOLEAN
    <3>1. b[2] \in Int
      OBVIOUS
    <3>2. /\ AtLeast({value}, b[2]) = {value >= b[2]}
          /\ AtMost({value}, b[2]) = {value <= b[2]}
      BY DEF AtLeast, AtMost
    <3>3. CASE b[1] = "min"
      BY <2>1, <3>1, <3>2, <3>3 DEF Respects
    <3>4. CASE b[1] # "min"
      BY <2>1, <3>1, <3>2, <3>4 DEF Respects
    <3> QED BY <3>3, <3>4
  <2>3. ~ \E b \in bounds : compare(b) = {}
    BY <2>2
  <2>4. (\A b \in bounds : compare(b) = {TRUE}) = ThresholdPassed(value, bounds)
    BY <2>2 DEF ThresholdPassed
  <2>5. ThresholdKernel(value, bounds) = {ThresholdPassed(value, bounds)}
    BY <2>3, <2>4 DEF ThresholdKernel
  <2> QED BY <1>1, <2>5 DEF ThresholdVerdict, SnapshotVerdict
<1>2. CASE value \notin Int64
  BY <1>2 DEF ThresholdVerdict, SnapshotVerdict
<1> QED BY <1>1, <1>2

(* A drift rule with the default sign and no tolerance judges the assets   *)
(* that a legacy policy compares, and passes on all of them exactly when   *)
(* the policy's reconciliation is OK.                                      *)
THEOREM LegacyIsDrift ==
  ASSUME NEW ledger, NEW pool,
         \A asset \in DOMAIN ledger : ledger[asset] \in Int,
         \A asset \in DOMAIN pool : pool[asset] \in Int
  PROVE  /\ DOMAIN LegacyDrift(ledger, pool) = UnionAssets(<<ledger, pool>>)
         /\ LegacyOK(ledger, pool)
              <=> \A asset \in UnionAssets(<<ledger, pool>>) :
                    DriftVerdict(1, ZeroIfNil(ledger, asset), ZeroIfNil(pool, asset), 0) = {TRUE}
<1> DEFINE assets == DOMAIN ledger \cup DOMAIN pool
           l(asset) == ZeroIfNil(ledger, asset)
           p(asset) == ZeroIfNil(pool, asset)
<1>1. UnionAssets(<<ledger, pool>>) = assets
  BY DEF UnionAssets
<1>2. \A asset : l(asset) \in Int /\ p(asset) \in Int
  BY DEF ZeroIfNil
<1>3. LegacyDrift(ledger, pool) = [asset \in assets |-> Magnitude(l(asset) + p(asset))]
  BY DEF LegacyDrift, Harmonized
<1>4. ASSUME NEW asset \in assets
      PROVE  l(asset) + p(asset) = 0 <=> DriftVerdict(1, l(asset), p(asset), 0) = {TRUE}
  <2>1. DriftVerdict(1, l(asset), p(asset), 0) = {DriftPassed(1, l(asset), p(asset), 0)}
    BY <1>2, DriftIsExact
  <2>2. DriftPassed(1, l(asset), p(asset), 0) <=> l(asset) + p(asset) = 0
    BY <1>2 DEF DriftPassed, Magnitude
  <2>3. DriftPassed(1, l(asset), p(asset), 0) \in BOOLEAN
    BY <1>2 DEF DriftPassed, Magnitude
  <2> QED BY <2>1, <2>2, <2>3
<1>5. LegacyOK(ledger, pool) <=> \A asset \in assets : l(asset) + p(asset) = 0
  <2>1. \A asset \in assets : Magnitude(l(asset) + p(asset)) = 0 <=> l(asset) + p(asset) = 0
    BY <1>2 DEF Magnitude
  <2>2. LegacyOK(ledger, pool) <=> \A asset \in assets : Magnitude(l(asset) + p(asset)) = 0
    BY <1>3 DEF LegacyOK
  <2> QED BY <2>1, <2>2
<1> QED BY <1>1, <1>3, <1>4, <1>5


-----------------------------------------------------------------------------
(* Induction, for a set of naturals. *)
LEMMA Inductive ==
  ASSUME NEW S, 0 \in S, \A n \in Nat : n \in S => n + 1 \in S
  PROVE  \A n \in Nat : n \in S
<1> DEFINE T == Nat \ S
           R == {ss \in Nat \X Nat : ss[1] < ss[2]}
<1> SUFFICES ASSUME T # {} PROVE FALSE
  OBVIOUS
<1>1. IsWellFoundedOn(R, Nat)
  BY NatLessThanWellFounded DEF OpToRel
<1>2. T \subseteq Nat
  OBVIOUS
<1>3. \E m \in T : \A k \in T : <<k, m>> \notin R
  <2> HIDE DEF R, T
  <2> QED BY <1>1, <1>2, WFMin
<1>4. PICK m \in T : \A k \in T : ~(k < m)
  BY <1>3
<1>5. m # 0 /\ m - 1 \in Nat /\ m - 1 \in S
  BY <1>4
<1> QED BY <1>5

(* h[s] is the sum of the terms at s, taken in any order. *)
IsSum(h, terms, n) ==
  /\ \A i \in 1..n : terms[i] \in Int
  /\ h \in [SUBSET (1..n) -> Int] /\ h[{}] = 0
  /\ \A s \in SUBSET (1..n) : \A x \in s : h[s] = h[s \ {x}] + terms[x]

LEMMA SumExtends ==
  ASSUME NEW m \in Nat, NEW terms, \A i \in 1..(m + 1) : terms[i] \in Int, NEW h, IsSum(h, terms, m)
  PROVE  IsSum([s \in SUBSET (1..(m + 1)) |->
                  IF m + 1 \in s THEN h[s \ {m + 1}] + terms[m + 1] ELSE h[s]], terms, m + 1)
<1> DEFINE g == [s \in SUBSET (1..(m + 1)) |->
                   IF m + 1 \in s THEN h[s \ {m + 1}] + terms[m + 1] ELSE h[s]]
<1>1. \A s \in SUBSET (1..(m + 1)) : s \ {m + 1} \in SUBSET (1..m)
  OBVIOUS
<1>2. \A s \in SUBSET (1..(m + 1)) : m + 1 \notin s => s \in SUBSET (1..m)
  OBVIOUS
<1>3. \A s \in SUBSET (1..m) : h[s] \in Int
  BY DEF IsSum
<1>4. g \in [SUBSET (1..(m + 1)) -> Int]
  BY <1>1, <1>2, <1>3
<1>5. g[{}] = 0
  BY DEF IsSum
<1>6. ASSUME NEW s \in SUBSET (1..(m + 1)), NEW x \in s
      PROVE  g[s] = g[s \ {x}] + terms[x]
  <2>1. CASE m + 1 \notin s
    BY <2>1, <1>2 DEF IsSum
  <2>2. CASE x = m + 1
    BY <2>2
  <2>3. CASE m + 1 \in s /\ x # m + 1
    <3> DEFINE r == s \ {m + 1}
    <3>1. r \in SUBSET (1..m) /\ x \in r /\ r \ {x} \in SUBSET (1..m)
      BY <2>3, <1>1
    <3>2. h[r] = h[r \ {x}] + terms[x] /\ h[r] \in Int /\ h[r \ {x}] \in Int
      BY <3>1, <1>3 DEF IsSum
    <3>3. g[s] = h[r] + terms[m + 1]
      BY <2>3
    <3>4. (s \ {x}) \ {m + 1} = r \ {x} /\ s \ {x} \in SUBSET (1..(m + 1)) /\ m + 1 \in s \ {x}
      BY <2>3
    <3>5. g[s \ {x}] = h[r \ {x}] + terms[m + 1]
      BY <3>4
    <3>6. terms[x] \in Int
      OBVIOUS
    <3> QED BY <3>2, <3>3, <3>5, <3>6
  <2> QED BY <2>1, <2>2, <2>3
<1>7. IsSum(g, terms, m + 1)
  <2> HIDE DEF g
  <2> QED BY <1>4, <1>5, <1>6 DEF IsSum
<1> QED BY <1>7


LEMMA SumExists ==
  ASSUME NEW n \in Nat, NEW terms, \A i \in 1..n : terms[i] \in Int
  PROVE  \E h : IsSum(h, terms, n)
<1> DEFINE S == {m \in Nat : m <= n => \E h : IsSum(h, terms, m)}
<1>1. 0 \in S
  <2>1. 1..0 = {}
    OBVIOUS
  <2> DEFINE h == [s \in SUBSET (1..0) |-> 0]
  <2>2. IsSum(h, terms, 0)
    BY <2>1 DEF IsSum
  <2> QED BY <2>2
<1>2. ASSUME NEW m \in Nat, m \in S
      PROVE  m + 1 \in S
  <2> SUFFICES ASSUME m + 1 <= n
               PROVE  \E h : IsSum(h, terms, m + 1)
    OBVIOUS
  <2>1. PICK h : IsSum(h, terms, m)
    BY <1>2
  <2>2. \A i \in 1..(m + 1) : terms[i] \in Int
    OBVIOUS
  <2> QED BY <2>1, <2>2, SumExtends
<1>3. n \in S
  <2> HIDE DEF S
  <2> QED BY <1>1, <1>2, Inductive
<1> QED BY <1>3

(* However a fold picks the next element, it computes that sum. *)
FoldsSum(f, terms, n) ==
  /\ f[{}] = 0
  /\ \A s \in SUBSET (1..n) : s # {} =>
       \E x \in s : f[s \ {x}] \in Int => f[s] = f[s \ {x}] + terms[x]

LEMMA SumIsUnique ==
  ASSUME NEW n \in Nat, NEW terms, NEW h, IsSum(h, terms, n), NEW f, FoldsSum(f, terms, n)
  PROVE  \A s \in SUBSET (1..n) : f[s] = h[s]
<1> DEFINE S == {k \in Nat : \A s \in SUBSET (1..n) : Cardinality(s) = k => f[s] = h[s]}
<1>1. ASSUME NEW s \in SUBSET (1..n)
      PROVE  IsFiniteSet(s) /\ Cardinality(s) \in Nat
  <2>1. IsFiniteSet(1..n)
    BY FS_Interval
  <2>2. IsFiniteSet(s)
    BY <2>1, FS_Subset
  <2> QED BY <2>2, FS_CardinalityType
<1>2. 0 \in S
  BY <1>1, FS_EmptySet DEF IsSum, FoldsSum
<1>3. ASSUME NEW k \in Nat, k \in S
      PROVE  k + 1 \in S
  <2> SUFFICES ASSUME NEW s \in SUBSET (1..n), Cardinality(s) = k + 1
               PROVE  f[s] = h[s]
    BY k + 1 \in Nat
  <2>1. s # {}
    <3>1. Cardinality(s) # 0
      OBVIOUS
    <3> QED BY <3>1, FS_EmptySet
  <2>2. PICK x \in s : f[s \ {x}] \in Int => f[s] = f[s \ {x}] + terms[x]
    BY <2>1 DEF FoldsSum
  <2>3. Cardinality(s \ {x}) = k
    <3>1. IsFiniteSet(s)
      BY <1>1
    <3>2. Cardinality(s \ {x}) = Cardinality(s) - 1
      BY <3>1, FS_RemoveElement
    <3> QED BY <3>2
  <2>4. f[s \ {x}] = h[s \ {x}]
    BY <1>3, <2>3
  <2>5. h[s] = h[s \ {x}] + terms[x] /\ h[s \ {x}] \in Int
    BY DEF IsSum
  <2> QED BY <2>2, <2>4, <2>5
<1>4. \A k \in Nat : k \in S
  <2> HIDE DEF S
  <2> QED BY <1>2, <1>3, Inductive
<1> QED BY <1>1, <1>4

(* The greatest of an interval's part is in it. *)
LEMMA MaxIsIn ==
  ASSUME NEW n \in Nat, NEW s \in SUBSET (1..n), s # {}
  PROVE  Max(s) \in s /\ \A y \in s : Max(s) >= y
<1> DEFINE S == {m \in Nat : \A r \in SUBSET (1..m) :
                   r # {} => \E x \in r : \A y \in r : x >= y}
<1>1. 0 \in S
  <2>1. 1..0 = {}
    OBVIOUS
  <2>2. \A r \in SUBSET (1..0) : r = {}
    BY <2>1
  <2> QED BY <2>2
<1>2. ASSUME NEW m \in Nat, m \in S
      PROVE  m + 1 \in S
  <2> SUFFICES ASSUME NEW r \in SUBSET (1..(m + 1)), r # {}
               PROVE  \E x \in r : \A y \in r : x >= y
    OBVIOUS
  <2>1. CASE m + 1 \in r
    BY <2>1
  <2>2. CASE m + 1 \notin r
    <3>1. r \in SUBSET (1..m)
      BY <2>2
    <3> QED BY <3>1, <1>2
  <2> QED BY <2>1, <2>2
<1>3. n \in S
  <2> HIDE DEF S
  <2> QED BY <1>1, <1>2, Inductive
<1>4. \E x \in s : \A y \in s : x >= y
  BY <1>3
<1> QED BY <1>4 DEF Max

LEMMA MaxOfInterval ==
  ASSUME NEW m \in Nat \ {0}
  PROVE  Max(1..m) = m /\ (1..m) \ {m} = 1..(m - 1)
<1>1. 1..m # {} /\ m \in 1..m
  OBVIOUS
<1>2. Max(1..m) \in 1..m /\ \A y \in 1..m : Max(1..m) >= y
  BY <1>1, MaxIsIn
<1>3. Max(1..m) = m
  BY <1>1, <1>2
<1> QED BY <1>3

(* The two folds the templates and the property use. *)
LEMMA SumOfIsSum ==
  ASSUME NEW n \in Nat, NEW terms \in [1..n -> Int], NEW h, IsSum(h, terms, n)
  PROVE  SumOf(terms) = h[1..n] /\ FoldFunction(+, 0, terms) = h[1..n]
<1> DEFINE Left(f) == f = [s \in SUBSET (1..n) |->
                             IF s = {} THEN 0 ELSE f[s \ {Max(s)}] + terms[Max(s)]]
           IsFold(f)  == f = [s \in SUBSET (1..n) |->
                             IF s = {} THEN 0
                             ELSE terms[CHOOSE x \in s : TRUE] + f[s \ {CHOOSE x \in s : TRUE}]]
<1>1. \A s \in SUBSET (1..n) : s # {} => Max(s) \in s /\ (CHOOSE x \in s : TRUE) \in s
  BY MaxIsIn
<1>2. SumOf(terms) = (CHOOSE f : Left(f))[1..n]
  BY DEF SumOf, FoldLeft, MapThenFoldSet
<1>3. FoldFunction(+, 0, terms) = (CHOOSE f : IsFold(f))[1..n]
  BY DEF FoldFunction, FoldFunctionOnSet, MapThenFoldSet
<1>4. /\ h \in [SUBSET (1..n) -> Int] /\ h[{}] = 0
      /\ \A s \in SUBSET (1..n) : \A x \in s :
           /\ h[s] = h[s \ {x}] + terms[x]
           /\ terms[x] \in Int /\ h[s \ {x}] \in Int
  BY DEF IsSum
<1>5. Left(h) /\ IsFold(h)
  <2>1. \A s \in SUBSET (1..n) :
          h[s] = IF s = {} THEN 0 ELSE h[s \ {Max(s)}] + terms[Max(s)]
    BY <1>1, <1>4
  <2>2. ASSUME NEW s \in SUBSET (1..n)
        PROVE  h[s] = IF s = {} THEN 0
                      ELSE terms[CHOOSE x \in s : TRUE] + h[s \ {CHOOSE x \in s : TRUE}]
    <3>1. CASE s # {}
      <4> DEFINE c == CHOOSE x \in s : TRUE
      <4>1. c \in s
        BY <1>1, <3>1
      <4> HIDE DEF c
      <4>2. h[s] = h[s \ {c}] + terms[c] /\ terms[c] \in Int /\ h[s \ {c}] \in Int
        BY <4>1, <1>4
      <4>3. h[s] = terms[c] + h[s \ {c}]
        BY <4>2
      <4> QED BY <3>1, <4>3 DEF c
    <3> QED BY <3>1, <1>4
  <2> QED BY <1>4, <2>1, <2>2
<1>6. PICK f : Left(f) /\ f = CHOOSE g : Left(g)
  BY <1>5
<1>7. PICK k : IsFold(k) /\ k = CHOOSE g : IsFold(g)
  BY <1>5
<1>8. f[1..n] = h[1..n]
  <2>1. f[{}] = 0
    BY <1>6
  <2>2. \A s \in SUBSET (1..n) : s # {} =>
          \E x \in s : f[s \ {x}] \in Int => f[s] = f[s \ {x}] + terms[x]
    BY <1>1, <1>6
  <2> HIDE DEF Left, IsFold
  <2>3. FoldsSum(f, terms, n)
    BY <2>1, <2>2 DEF FoldsSum
  <2>4. \A s \in SUBSET (1..n) : f[s] = h[s]
    BY <2>3, SumIsUnique
  <2> QED BY <2>4
<1>9. k[1..n] = h[1..n]
  <2>1. k[{}] = 0
    BY <1>7
  <2>2. ASSUME NEW s \in SUBSET (1..n), s # {}
        PROVE  \E x \in s : k[s \ {x}] \in Int => k[s] = k[s \ {x}] + terms[x]
    <3> DEFINE c == CHOOSE x \in s : TRUE
    <3>1. c \in s /\ terms[c] \in Int
      BY <1>1, <2>2
    <3>2. k[s] = terms[c] + k[s \ {c}]
      BY <1>7, <2>2
    <3> HIDE DEF c
    <3>3. k[s \ {c}] \in Int => k[s] = k[s \ {c}] + terms[c]
      BY <3>1, <3>2
    <3> QED BY <3>1, <3>3
  <2> HIDE DEF Left, IsFold
  <2>3. FoldsSum(k, terms, n)
    BY <2>1, <2>2 DEF FoldsSum
  <2>4. \A s \in SUBSET (1..n) : k[s] = h[s]
    BY <2>3, SumIsUnique
  <2> QED BY <2>4
<1> HIDE DEF Left, IsFold
<1> QED BY <1>2, <1>3, <1>6, <1>7, <1>8, <1>9


(* The kernel adds the terms from the left, and checks each sum. *)
IsKernelSum(e, terms, n) ==
  e = [s \in SUBSET (1..n) |->
         IF s = {} THEN {0} ELSE Plus(e[s \ {Max(s)}], Literal(terms[Max(s)]))]

LEMMA KernelSumExists ==
  ASSUME NEW n \in Nat, NEW terms
  PROVE  \E e : IsKernelSum(e, terms, n)
<1> DEFINE S == {m \in Nat : \E e : IsKernelSum(e, terms, m)}
           next(e, s) == IF s = {} THEN {0} ELSE Plus(e[s \ {Max(s)}], Literal(terms[Max(s)]))
<1>1. 0 \in S
  <2>1. 1..0 = {}
    OBVIOUS
  <2> DEFINE e == [s \in SUBSET (1..0) |-> {0}]
  <2>2. IsKernelSum(e, terms, 0)
    BY <2>1 DEF IsKernelSum
  <2> QED BY <2>2
<1>2. ASSUME NEW m \in Nat, m \in S
      PROVE  m + 1 \in S
  <2>1. PICK e : IsKernelSum(e, terms, m)
    BY <1>2
  <2> DEFINE k == [s \in SUBSET (1..(m + 1)) |-> IF m + 1 \in s THEN next(e, s) ELSE e[s]]
  <2>2. ASSUME NEW s \in SUBSET (1..(m + 1))
        PROVE  k[s] = next(k, s)
    <3>1. CASE s = {}
      BY <2>1, <3>1 DEF IsKernelSum
    <3>2. CASE s # {}
      <4> DEFINE x == Max(s)
      <4>0. m + 1 \in Nat
        OBVIOUS
      <4>1. x \in s /\ \A y \in s : x >= y
        BY <3>2, <4>0, MaxIsIn
      <4> HIDE DEF x
      <4>2. m + 1 \in s => x = m + 1
        BY <4>1
      <4>3. s \ {x} \in SUBSET (1..m) /\ m + 1 \notin s \ {x}
        BY <4>1, <4>2
      <4>4. k[s \ {x}] = e[s \ {x}]
        BY <4>3
      <4>5. next(k, s) = next(e, s)
        BY <4>4 DEF x
      <4>6. m + 1 \notin s => e[s] = next(e, s)
        <5> SUFFICES ASSUME m + 1 \notin s
                     PROVE  e[s] = next(e, s)
          OBVIOUS
        <5>1. s \in SUBSET (1..m)
          OBVIOUS
        <5> QED BY <2>1, <5>1 DEF IsKernelSum
      <4>7. k[s] = IF m + 1 \in s THEN next(e, s) ELSE e[s]
        OBVIOUS
      <4> HIDE DEF k, next
      <4> QED BY <4>5, <4>6, <4>7
    <3> QED BY <3>1, <3>2
  <2>3. k = [s \in SUBSET (1..(m + 1)) |-> k[s]]
    OBVIOUS
  <2>4. k = [s \in SUBSET (1..(m + 1)) |-> next(k, s)]
    <3> HIDE DEF k, next
    <3> QED BY <2>2, <2>3
  <2>5. IsKernelSum(k, terms, m + 1)
    <3> HIDE DEF k
    <3> QED BY <2>4 DEF IsKernelSum
  <2> QED BY <2>5
<1>3. n \in S
  <2> HIDE DEF S
  <2> QED BY <1>1, <1>2, Inductive
<1> QED BY <1>3

(* While the terms and the partial sums fit, its sums are the exact ones. *)
LEMMA KernelSumIsSum ==
  ASSUME NEW n \in Nat, NEW terms \in [1..n -> Int], NEW h, IsSum(h, terms, n),
         NEW e, IsKernelSum(e, terms, n),
         \A i \in 1..n : terms[i] \in Int64 /\ h[1..i] \in Int64
  PROVE  e[1..n] = {h[1..n]}
<1> DEFINE S == {m \in Nat : m <= n => e[1..m] = {h[1..m]}}
<1>1. 0 \in S
  <2>1. 1..0 = {}
    OBVIOUS
  <2> QED BY <2>1 DEF IsKernelSum, IsSum
<1>2. ASSUME NEW m \in Nat, m \in S
      PROVE  m + 1 \in S
  <2> SUFFICES ASSUME m + 1 <= n
               PROVE  e[1..(m + 1)] = {h[1..(m + 1)]}
    OBVIOUS
  <2> DEFINE s == 1..(m + 1)
  <2>1. s \in SUBSET (1..n) /\ m + 1 \in s /\ 1..m \in SUBSET (1..n) /\ m + 1 \in 1..n
    OBVIOUS
  <2>2. Max(s) = m + 1 /\ s \ {m + 1} = 1..m
    BY MaxOfInterval
  <2>3. e[s] = Plus(e[1..m], Literal(terms[m + 1]))
    BY <2>1, <2>2 DEF IsKernelSum
  <2>4. h[s] = h[1..m] + terms[m + 1]
    <3>1. h[s] = h[s \ {m + 1}] + terms[m + 1]
      BY <2>1 DEF IsSum
    <3> HIDE DEF s
    <3> QED BY <3>1, <2>2
  <2>5. e[1..m] = {h[1..m]}
    BY <1>2
  <2>6. h[1..m] \in Int64 /\ terms[m + 1] \in Int64 /\ h[s] \in Int64
    <3>1. CASE m = 0
      <4>1. h[1..m] = 0
        BY <3>1, 1..0 = {} DEF IsSum
      <4> QED BY <4>1, <2>1, IntAssumption DEF Int64, IntMin
    <3>2. CASE m # 0
      BY <3>2, <2>1
    <3> QED BY <3>1, <3>2
  <2>7. Literal(h[1..m]) = {h[1..m]}
    BY <2>6, CheckedFits DEF Literal
  <2> HIDE DEF s
  <2>8. Plus(Literal(h[1..m]), Literal(terms[m + 1])) = {h[1..m] + terms[m + 1]}
    BY <2>4, <2>6, PlusFits
  <2>9. e[s] = {h[s]}
    BY <2>3, <2>4, <2>5, <2>7, <2>8
  <2> QED BY <2>9 DEF s
<1>3. n \in S
  <2> HIDE DEF S
  <2> QED BY <1>1, <1>2, Inductive
<1> QED BY <1>3


(* The same of ledger_invariant, of any number of terms: as soon as a      *)
(* partial sum does not fit, snapshotVerdictExpression takes the sum away  *)
(* from the kernel.                                                        *)
THEOREM InvariantIsExact ==
  ASSUME NEW n \in Nat, NEW terms \in [1..n -> Int], NEW tolerance \in Nat
  PROVE  InvariantVerdict(terms, tolerance) = {InvariantPassed(terms, tolerance)}
<1>1. PICK h : IsSum(h, terms, n)
  BY SumExists
<1>2. PICK e : IsKernelSum(e, terms, n) /\ e = CHOOSE g : IsKernelSum(g, terms, n)
  BY KernelSumExists
<1>3. SumOf(terms) = h[1..n] /\ h[1..n] \in Int
  <2>1. h[1..n] \in Int
    BY <1>1 DEF IsSum
  <2> QED BY <1>1, <2>1, SumOfIsSum
<1>4. InvariantKernel(terms, tolerance) = AtMost(AbsInt(e[1..n]), tolerance)
  BY <1>2 DEF InvariantKernel, FoldLeft, MapThenFoldSet, IsKernelSum
<1>5. CASE InvariantValues(terms) \subseteq Int64
  <2>1. ASSUME NEW i \in 1..n
        PROVE  terms[i] \in Int64 /\ h[1..i] \in Int64
    <3>1. terms[i] \in Range(terms)
      BY DEF Range
    <3> DEFINE part == SubSeq(terms, 1, i)
    <3>2. part \in [1..i -> Int] /\ \A j \in 1..i : part[j] = terms[j]
      <4>1. terms \in Seq(Int) /\ Len(terms) = n
        OBVIOUS
      <4>2. part \in Seq(Int) /\ Len(part) = i /\ \A j \in 1..i : part[j] = terms[j]
        BY <4>1
      <4> HIDE DEF part
      <4> QED BY <4>2
    <3> DEFINE k == [s \in SUBSET (1..i) |-> h[s]]
    <3>3. \A s \in SUBSET (1..i) : s \in SUBSET (1..n) /\ h[s] \in Int
      BY <1>1 DEF IsSum
    <3> HIDE DEF part
    <3>4. IsSum(k, part, i)
      <4>1. k \in [SUBSET (1..i) -> Int] /\ k[{}] = 0
        BY <1>1, <3>3 DEF IsSum
      <4>2. ASSUME NEW s \in SUBSET (1..i), NEW x \in s
            PROVE  k[s] = k[s \ {x}] + part[x]
        <5>1. s \in SUBSET (1..n) /\ s \ {x} \in SUBSET (1..i) /\ part[x] = terms[x]
          BY <3>2, <3>3
        <5>2. h[s] = h[s \ {x}] + terms[x]
          BY <1>1, <5>1 DEF IsSum
        <5> QED BY <5>1, <5>2
      <4>3. \A j \in 1..i : part[j] \in Int
        BY <3>2
      <4> HIDE DEF k
      <4> QED BY <4>1, <4>2, <4>3 DEF IsSum
    <3>5. SumOf(part) = h[1..i]
      <4>1. k[1..i] = h[1..i]
        OBVIOUS
      <4> HIDE DEF k
      <4>2. SumOf(part) = k[1..i]
        BY <3>2, <3>4, i \in Nat, SumOfIsSum
      <4> QED BY <4>1, <4>2
    <3>6. SumOf(part) \in PartialSums(terms)
      BY DEF PartialSums, part
    <3> QED BY <1>5, <3>1, <3>5, <3>6 DEF InvariantValues
  <2>2. e[1..n] = {h[1..n]}
    BY <1>1, <1>2, <2>1, KernelSumIsSum
  <2>3. h[1..n] \in Int64 /\ Magnitude(h[1..n]) \in Int64
    BY <1>3, <1>5 DEF InvariantValues
  <2>4. AbsInt({h[1..n]}) = {Magnitude(h[1..n])}
    BY <2>3, AbsFits
  <2>5. InvariantKernel(terms, tolerance) = {Magnitude(h[1..n]) <= tolerance}
    BY <1>4, <2>2, <2>4 DEF AtMost
  <2> QED BY <1>3, <1>5, <2>5 DEF InvariantVerdict, SnapshotVerdict, InvariantPassed
<1>6. CASE ~(InvariantValues(terms) \subseteq Int64)
  BY <1>6 DEF InvariantVerdict, SnapshotVerdict
<1> QED BY <1>5, <1>6

-----------------------------------------------------------------------------
Balances == UNION {[A -> Int] : A \in SUBSET Assets}
Fields   == {"phase", "input", "balances", "pits", "outcomes", "settled"}

StateInv ==
  /\ rule \in RuleSet /\ now \in Instants
  /\ history \in [Sources -> [Instants -> Balances]]
  /\ \A s \in Sources, t \in Instants : history[s][t] # << >> => t <= now
  /\ DOMAIN run = Runs /\ \A k \in Runs : DOMAIN run[k] = Fields

InputInv(k) ==
  /\ run[k].input.pit \in Int /\ run[k].input.pit <= now /\ run[k].input.margin \in Nat
  /\ \A key \in DOMAIN run[k].input.sourcePITs :
       run[k].input.sourcePITs[key] \in Int /\ run[k].input.sourcePITs[key] <= now

EvaluationInv(k) ==
  /\ run[k].phase \in {"idle", "reading", "done", "failed"}
  /\ run[k].balances \in Seq(Balances)
  /\ Len(run[k].balances) <= Len(rule.sources)
  /\ DOMAIN run[k].pits = {Key(i) : i \in 1..Len(run[k].balances)}
  /\ \A key \in DOMAIN run[k].pits : run[k].pits[key] \in Int /\ run[k].pits[key] <= now
  /\ run[k].phase = "idle" => run[k].balances = << >>
  /\ Done(k) => /\ Len(run[k].balances) = Len(rule.sources)
                /\ run[k].outcomes = Outcomes(rule, run[k].balances)
  /\ ~Done(k) => run[k].outcomes = << >>

(* The i-th balance of the evaluation is one that no movement changes. *)
Kept(i) ==
  LET s == rule.sources[i]  pit == run["original"].pits[Key(i)] IN
  /\ pit < now
  /\ s.kind = "pool" => Superseded(s, pit)
  /\ run["original"].balances[i] = InForce(s, pit)

SettledInv ==
  run["original"].settled => \A i \in 1..Len(run["original"].balances) : Kept(i)

ReplayInv ==
  run["replay"].phase # "idle" =>
    /\ Done("original") /\ run["replay"].input.sourcePITs = run["original"].pits
    /\ run["original"].settled =>
         \A i \in 1..Len(run["replay"].balances) :
           run["replay"].balances[i] = run["original"].balances[i]

IInv == /\ StateInv
        /\ \A k \in Runs : InputInv(k) /\ EvaluationInv(k)
        /\ SettledInv /\ ReplayInv

-----------------------------------------------------------------------------
(* Rules and keys. *)
LEMMA RulesAreValid ==
  ASSUME StateInv
  PROVE  /\ ValidRule(rule)
         /\ Len(rule.sources) \in Nat \ {0} /\ DOMAIN rule.sources = 1..Len(rule.sources)
         /\ \A i \in DOMAIN rule.sources :
              rule.sources[i] \in Sources /\ rule.sources[i].kind \in {"ledger", "pool"}
<1>1. ValidRule(rule)
  BY EvaluationAssumption DEF StateInv
<1> QED BY <1>1 DEF ValidRule, Sources, Range

(* sourceKeyer: two sources of a rule never have the same key. *)
LEMMA KeysDiffer ==
  ASSUME StateInv, NEW i \in DOMAIN rule.sources, NEW j \in DOMAIN rule.sources, i < j
  PROVE  Key(i) # Key(j)
<1> SUFFICES ASSUME Key(i) = Key(j) PROVE FALSE
  OBVIOUS
<1> DEFINE Same(n) == {m \in 1..(n - 1) : Label(rule.sources[m]) = Label(rule.sources[n])}
<1>1. i \in Nat /\ j \in Nat /\ i - 1 \in Int /\ j - 1 \in Int
  BY RulesAreValid
<1>2. Label(rule.sources[i]) = Label(rule.sources[j]) /\ Cardinality(Same(i)) = Cardinality(Same(j))
  BY DEF Key
<1>3. Same(i) \in SUBSET Same(j) /\ i \in Same(j) /\ i \notin Same(i)
  BY <1>1, <1>2, RulesAreValid
<1>4. IsFiniteSet(Same(j))
  <2>1. IsFiniteSet(1..(j - 1)) /\ Same(j) \in SUBSET (1..(j - 1))
    BY <1>1, FS_Interval
  <2> HIDE DEF Same
  <2> QED BY <2>1, FS_Subset
<1>5. Same(i) = Same(j)
  <2> HIDE DEF Same
  <2> QED BY <1>2, <1>3, <1>4, FS_Subset
<1> QED BY <1>3, <1>5

(* Balance maps, and the services. *)
LEMMA BalancesType ==
  /\ << >> \in Balances
  /\ \A b \in Balances : DOMAIN b \subseteq Assets /\ \A a \in DOMAIN b : b[a] \in Int
<1>1. << >> \in [{} -> Int]
  OBVIOUS
<1> QED BY <1>1 DEF Balances

LEMMA InForceType ==
  ASSUME StateInv, NEW s \in Sources, NEW t
  PROVE  InForce(s, t) \in Balances
<1>1. CASE LastMove(s, t) = {}
  BY <1>1, BalancesType DEF InForce
<1>2. CASE LastMove(s, t) # {}
  <2> DEFINE u == CHOOSE u \in LastMove(s, t) : TRUE
  <2>1. u \in LastMove(s, t)
    BY <1>2
  <2>2. u \in Instants
    BY <2>1 DEF LastMove, Moves
  <2>3. InForce(s, t) = history[s][u]
    BY <1>2 DEF InForce
  <2> HIDE DEF u
  <2> QED BY <2>2, <2>3 DEF StateInv
<1> QED BY <1>1, <1>2


LEMMA InstantsType ==
  ASSUME StateInv
  PROVE  Instants \subseteq Nat /\ now \in Nat /\ now \in Instants
  BY EvaluationAssumption DEF StateInv, Instants

-----------------------------------------------------------------------------
(* What each action changes. *)
LEMMA MoveChanges ==
  ASSUME StateInv, NEW s \in Sources, NEW asset \in Assets, NEW amount \in Amounts,
         Move(s, asset, amount)
  PROVE  \E b \in Balances \ {<< >>} :
           /\ history' = [history EXCEPT ![s] = [history[s] EXCEPT ![now] = b]]
           /\ UNCHANGED <<rule, now, run>>
<1> DEFINE old == InForce(s, now)
           b == [a \in DOMAIN old \cup {asset} |-> IF a = asset THEN amount ELSE old[a]]
<1>1. old \in Balances /\ amount \in Int
  BY InForceType, EvaluationAssumption
<1>2. b \in Balances
  <2>1. DOMAIN old \subseteq Assets /\ \A a \in DOMAIN old : old[a] \in Int
    BY <1>1, BalancesType
  <2> HIDE DEF old
  <2>2. b \in [DOMAIN old \cup {asset} -> Int]
    BY <1>1, <2>1
  <2>3. DOMAIN old \cup {asset} \in SUBSET Assets
    BY <2>1
  <2> HIDE DEF b
  <2> QED BY <2>2, <2>3 DEF Balances
<1>3. b # << >>
  <2>1. asset \in DOMAIN b
    OBVIOUS
  <2>2. \A f : f = << >> => DOMAIN f = {}
    OBVIOUS
  <2> HIDE DEF b
  <2> QED BY <2>1, <2>2
<1>4. history' = [history EXCEPT ![s] = [history[s] EXCEPT ![now] = b]]
  BY DEF Move
<1> HIDE DEF b
<1> QED BY <1>2, <1>3, <1>4 DEF Move

(* A movement changes no balance of the past, and supersedes for good. *)
LEMMA ThePastStays ==
  ASSUME StateInv, NEW s \in Sources, NEW asset \in Assets, NEW amount \in Amounts,
         Move(s, asset, amount), NEW q \in Sources, NEW t \in Int, t < now
  PROVE  InForce(q, t)' = InForce(q, t) /\ (Superseded(q, t) => Superseded(q, t)')
<1>1. PICK b \in Balances \ {<< >>} :
        /\ history' = [history EXCEPT ![s] = [history[s] EXCEPT ![now] = b]]
        /\ UNCHANGED <<rule, now, run>>
  BY MoveChanges
<1>2. \A u \in Instants : u # now => history'[q][u] = history[q][u]
  BY <1>1 DEF StateInv
<1>3. history[q][now] # << >> => history'[q][now] # << >>
  BY <1>1 DEF StateInv
<1>4. Moves(q) \subseteq Moves(q)' /\ \A u \in Instants : u # now => (u \in Moves(q) <=> u \in Moves(q)')
  BY <1>2, <1>3 DEF Moves
<1>5. LastMove(q, t)' = LastMove(q, t)
  <2>1. \A u \in Instants : u <= t => u # now /\ (u \in Moves(q) <=> u \in Moves(q)')
    BY <1>4, InstantsType
  <2>2. Moves(q) \subseteq Instants /\ Moves(q)' \subseteq Instants
    BY DEF Moves
  <2> QED BY <2>1, <2>2 DEF LastMove
<1>6. \A u \in LastMove(q, t) : history'[q][u] = history[q][u]
  BY <1>2, InstantsType DEF LastMove, Moves
<1>7. InForce(q, t)' = InForce(q, t)
  BY <1>5, <1>6 DEF InForce
<1>8. Superseded(q, t) => Superseded(q, t)'
  BY <1>4 DEF Superseded
<1> QED BY <1>7, <1>8


(* All that a step of run k leaves alone. *)
Others(k) ==
  /\ UNCHANGED <<rule, now, history>>
  /\ DOMAIN run' = Runs /\ \A j \in Runs : DOMAIN run'[j] = Fields
  /\ \A j \in Runs : j # k => run'[j] = run[j]

LEMMA BeginChanges ==
  ASSUME StateInv, NEW k \in Runs, NEW input, Begin(k, input)
  PROVE  /\ Others(k) /\ run[k].phase = "idle"
         /\ run'[k].phase = "reading" /\ run'[k].input = input
         /\ run'[k].balances = run[k].balances /\ run'[k].pits = run[k].pits
         /\ run'[k].outcomes = run[k].outcomes /\ run'[k].settled = run[k].settled
  BY DEF StateInv, Begin, Others, Fields

ReadInstant(k) == EffectivePIT(run[k].input, Key(NextSource(k)))
ReadAsOf(k)    == ReadsAtPIT(run[k].input, Key(NextSource(k)))
Answer(k)      == Resolve(rule.sources[NextSource(k)], ReadInstant(k), ReadAsOf(k))

LEMMA ReadChanges ==
  ASSUME StateInv, NEW k \in Runs, Read(k)
  PROVE  /\ Others(k) /\ run[k].phase = "reading" /\ NextSource(k) \in DOMAIN rule.sources
         /\ run'[k].phase = run[k].phase /\ run'[k].input = run[k].input
         /\ run'[k].balances = Append(run[k].balances, Answer(k)[1])
         /\ run'[k].pits = [key \in DOMAIN run[k].pits \cup {Key(NextSource(k))} |->
                              IF key = Key(NextSource(k)) THEN Answer(k)[2] ELSE run[k].pits[key]]
         /\ run'[k].outcomes = run[k].outcomes
         /\ run'[k].settled = (run[k].settled /\ Settled(rule.sources[NextSource(k)],
                                                         ReadInstant(k), ReadAsOf(k)))
<1> DEFINE balances == Append(run[k].balances, Answer(k)[1])
           pits == [key \in DOMAIN run[k].pits \cup {Key(NextSource(k))} |->
                      IF key = Key(NextSource(k)) THEN Answer(k)[2] ELSE run[k].pits[key]]
           settled == run[k].settled /\ Settled(rule.sources[NextSource(k)],
                                                ReadInstant(k), ReadAsOf(k))
<1>1. /\ run[k].phase = "reading" /\ NextSource(k) \in DOMAIN rule.sources
      /\ UNCHANGED <<rule, now, history>>
      /\ run' = [run EXCEPT ![k].balances = balances, ![k].pits = pits, ![k].settled = settled]
  BY DEF Read, Answer, ReadInstant, ReadAsOf, StateInv, Fields
<1> HIDE DEF balances, pits, settled
<1>2. /\ Others(k)
      /\ run'[k].phase = run[k].phase /\ run'[k].input = run[k].input
      /\ run'[k].outcomes = run[k].outcomes
      /\ run'[k].balances = balances /\ run'[k].pits = pits /\ run'[k].settled = settled
  BY <1>1 DEF StateInv, Others, Fields
<1> QED BY <1>1, <1>2 DEF balances, pits, settled

LEMMA JudgeChanges ==
  ASSUME StateInv, NEW k \in Runs, Judge(k)
  PROVE  /\ Others(k) /\ run[k].phase = "reading" /\ NextSource(k) = Len(rule.sources) + 1
         /\ run'[k].phase = "done" /\ run'[k].input = run[k].input
         /\ run'[k].balances = run[k].balances /\ run'[k].pits = run[k].pits
         /\ run'[k].outcomes = Outcomes(rule, run[k].balances)
         /\ run'[k].settled = run[k].settled
<1> DEFINE outcomes == Outcomes(rule, run[k].balances)
<1>1. /\ run[k].phase = "reading" /\ NextSource(k) = Len(rule.sources) + 1
      /\ UNCHANGED <<rule, now, history>>
      /\ run' = [run EXCEPT ![k].phase = "done", ![k].outcomes = outcomes]
  BY DEF Judge
<1> HIDE DEF outcomes
<1>2. /\ Others(k)
      /\ run'[k].phase = "done" /\ run'[k].input = run[k].input
      /\ run'[k].balances = run[k].balances /\ run'[k].pits = run[k].pits
      /\ run'[k].outcomes = outcomes /\ run'[k].settled = run[k].settled
  BY <1>1 DEF StateInv, Others, Fields
<1> QED BY <1>1, <1>2 DEF outcomes

LEMMA FailChanges ==
  ASSUME StateInv, NEW k \in Runs, Fail(k)
  PROVE  /\ Others(k) /\ run[k].phase = "reading"
         /\ run'[k].phase = "failed" /\ run'[k].input = run[k].input
         /\ run'[k].balances = run[k].balances /\ run'[k].pits = run[k].pits
         /\ run'[k].outcomes = run[k].outcomes /\ run'[k].settled = run[k].settled
  BY DEF StateInv, Fail, Others, Fields


-----------------------------------------------------------------------------
(* Types. *)
LEMMA StateStays ==
  ASSUME StateInv, [Next]_vars
  PROVE  StateInv' /\ rule' = rule /\ now <= now'
<1>1. ASSUME NEW k \in Runs, Others(k)
      PROVE  StateInv' /\ rule' = rule /\ now <= now'
  BY <1>1, InstantsType DEF StateInv, Others, Sources
<1>2. CASE Tick
  <2>1. UNCHANGED <<rule, history, run>> /\ Sources' = Sources
    BY <1>2 DEF Tick, Sources
  <2>2. now' = now + 1 /\ now' \in Instants
    BY <1>2, InstantsType, EvaluationAssumption DEF Tick, Instants
  <2>3. \A s \in Sources, t \in Instants : history[s][t] # << >> => t <= now'
    BY <2>2, InstantsType DEF StateInv
  <2> QED BY <2>1, <2>2, <2>3, InstantsType DEF StateInv
<1>3. ASSUME NEW s \in Sources, NEW asset \in Assets, NEW amount \in Amounts,
             Move(s, asset, amount)
      PROVE  StateInv' /\ rule' = rule /\ now <= now'
  <2>1. PICK b \in Balances \ {<< >>} :
          /\ history' = [history EXCEPT ![s] = [history[s] EXCEPT ![now] = b]]
          /\ UNCHANGED <<rule, now, run>>
    BY <1>3, MoveChanges
  <2>2. Sources' = Sources
    BY <2>1 DEF Sources
  <2>3. [history[s] EXCEPT ![now] = b] \in [Instants -> Balances]
    BY DEF StateInv
  <2>4. history' \in [Sources -> [Instants -> Balances]]
    BY <2>1, <2>3 DEF StateInv
  <2>5. \A q \in Sources, t \in Instants : history'[q][t] # << >> => t <= now
    BY <2>1, InstantsType DEF StateInv
  <2> QED BY <2>1, <2>2, <2>4, <2>5, InstantsType DEF StateInv
<1>4. CASE UNCHANGED vars
  BY <1>4, InstantsType DEF vars, StateInv, Sources
<1>5. ASSUME NEW margin, EvaluateNow(margin) \/ Replay(margin)
      PROVE  \E k \in Runs : Others(k)
  BY <1>5, BeginChanges DEF EvaluateNow, Replay, Runs
<1>6. ASSUME NEW margin, NEW at, NEW overrides, EvaluateAt(at, margin, overrides)
      PROVE  \E k \in Runs : Others(k)
  BY <1>6, BeginChanges DEF EvaluateAt, Runs
<1>7. ASSUME NEW k \in Runs, Read(k) \/ Judge(k) \/ Fail(k)
      PROVE  Others(k)
  BY <1>7, ReadChanges, JudgeChanges, FailChanges
<1> QED BY <1>1, <1>2, <1>3, <1>4, <1>5, <1>6, <1>7 DEF Next

(* A run that is left alone stays as it is while time passes. *)
LEMMA RunStays ==
  ASSUME StateInv, [Next]_vars, NEW k \in Runs, InputInv(k), EvaluationInv(k), run'[k] = run[k]
  PROVE  InputInv(k)' /\ EvaluationInv(k)'
<1>1. rule' = rule /\ now <= now' /\ now \in Nat /\ now' \in Nat
  <2>1. StateInv' /\ rule' = rule /\ now <= now'
    BY StateStays
  <2> QED BY <2>1, InstantsType, EvaluationAssumption DEF StateInv, Instants
<1>2. InputInv(k)'
  BY <1>1 DEF InputInv
<1>3. \A i : Key(i)' = Key(i)
  BY <1>1 DEF Key, Label
<1>4. \A key \in DOMAIN run[k].pits : run[k].pits[key] \in Int /\ run[k].pits[key] <= now'
  BY <1>1 DEF EvaluationInv
<1>5. EvaluationInv(k)'
  BY <1>1, <1>3, <1>4 DEF EvaluationInv, Done
<1> QED BY <1>2, <1>5

LEMMA AnswerType ==
  ASSUME StateInv, NEW k \in Runs, InputInv(k), EvaluationInv(k),
         NextSource(k) \in DOMAIN rule.sources
  PROVE  /\ Answer(k)[1] \in Balances
         /\ Answer(k)[2] \in Int /\ Answer(k)[2] <= now
         /\ ReadInstant(k) \in Int /\ ReadInstant(k) <= now
<1> DEFINE s == rule.sources[NextSource(k)]
<1>1. s \in Sources /\ s.kind \in {"ledger", "pool"}
  BY RulesAreValid
<1>2. ReadInstant(k) \in Int /\ ReadInstant(k) <= now
  BY InstantsType DEF InputInv, ReadInstant, EffectivePIT, Overridden
<1>3. \A t : /\ AggregateBalance(s, t) \in Balances
             /\ PoolBalanceAt(s, t) \in Balances /\ PoolBalanceLatest(s) \in Balances
  BY <1>1, InForceType, BalancesType DEF AggregateBalance, PoolBalanceAt, PoolBalanceLatest
<1>4. ReadAsOf(k) \in BOOLEAN
  BY DEF ReadAsOf, ReadsAtPIT
<1> HIDE DEF s
<1>5. \/ Resolve(s, ReadInstant(k), ReadAsOf(k)) = <<AggregateBalance(s, ReadInstant(k)), ReadInstant(k)>>
      \/ Resolve(s, ReadInstant(k), ReadAsOf(k)) = <<PoolBalanceAt(s, ReadInstant(k)), ReadInstant(k)>>
      \/ Resolve(s, ReadInstant(k), ReadAsOf(k)) = <<PoolBalanceLatest(s), now>>
  BY <1>1, <1>4 DEF Resolve
<1> QED BY <1>2, <1>3, <1>5, InstantsType DEF Answer, s


LEMMA KeysStay ==
  ASSUME rule' = rule
  PROVE  \A i : Key(i)' = Key(i)
  BY DEF Key, Label

(* The inputs of the program are instants that have passed. *)
GoodInput(input) ==
  /\ input.pit \in Int /\ input.pit <= now /\ input.margin \in Nat
  /\ \A key \in DOMAIN input.sourcePITs :
       input.sourcePITs[key] \in Int /\ input.sourcePITs[key] <= now

LEMMA BeginKeepsTypes ==
  ASSUME StateInv, NEW k \in Runs, EvaluationInv(k), NEW input, GoodInput(input), Begin(k, input)
  PROVE  InputInv(k)' /\ EvaluationInv(k)'
<1>1. /\ Others(k) /\ run[k].phase = "idle"
      /\ run'[k].phase = "reading" /\ run'[k].input = input
      /\ run'[k].balances = run[k].balances /\ run'[k].pits = run[k].pits
      /\ run'[k].outcomes = run[k].outcomes /\ run'[k].settled = run[k].settled
  BY BeginChanges
<1>2. UNCHANGED <<rule, now, history>> /\ \A i : Key(i)' = Key(i)
  BY <1>1, KeysStay DEF Others
<1>3. InputInv(k)'
  BY <1>1, <1>2 DEF InputInv, GoodInput
<1>4. EvaluationInv(k)'
  BY <1>1, <1>2 DEF EvaluationInv, Done
<1> QED BY <1>3, <1>4

LEMMA BeginInputs ==
  ASSUME IInv, NEW margin \in Margins, NEW at \in 1..now, NEW overrides \in Overrides
  PROVE  /\ GoodInput(Input(now, FALSE, margin, << >>))
         /\ GoodInput(Input(at, TRUE, margin, overrides))
         /\ GoodInput(Input(run["original"].input.pit, TRUE, margin, run["original"].pits))
<1>1. margin \in Nat /\ now \in Nat
  BY EvaluationAssumption, InstantsType DEF IInv
<1>2. \A key \in DOMAIN overrides : overrides[key] \in Int /\ overrides[key] <= now
  BY <1>1 DEF Overrides
<1>3. /\ run["original"].input.pit \in Int /\ run["original"].input.pit <= now
      /\ \A key \in DOMAIN run["original"].pits :
           run["original"].pits[key] \in Int /\ run["original"].pits[key] <= now
  BY DEF IInv, InputInv, EvaluationInv, Runs
<1> QED BY <1>1, <1>2, <1>3 DEF GoodInput, Input

LEMMA ReadKeepsTypes ==
  ASSUME StateInv, NEW k \in Runs, InputInv(k), EvaluationInv(k), Read(k)
  PROVE  InputInv(k)' /\ EvaluationInv(k)'
<1> DEFINE i == NextSource(k)
           balances == run[k].balances
<1>1. /\ Others(k) /\ run[k].phase = "reading" /\ i \in DOMAIN rule.sources
      /\ run'[k].phase = run[k].phase /\ run'[k].input = run[k].input
      /\ run'[k].balances = Append(balances, Answer(k)[1])
      /\ run'[k].pits = [key \in DOMAIN run[k].pits \cup {Key(i)} |->
                           IF key = Key(i) THEN Answer(k)[2] ELSE run[k].pits[key]]
      /\ run'[k].outcomes = run[k].outcomes
  BY ReadChanges
<1>2. UNCHANGED <<rule, now, history>> /\ \A j : Key(j)' = Key(j)
  BY <1>1, KeysStay DEF Others
<1>3. Answer(k)[1] \in Balances /\ Answer(k)[2] \in Int /\ Answer(k)[2] <= now
  BY <1>1, AnswerType
<1>4. balances \in Seq(Balances) /\ Len(balances) \in Nat /\ i = Len(balances) + 1
  BY DEF EvaluationInv, NextSource
<1>5. i <= Len(rule.sources)
  BY <1>1, <1>4, RulesAreValid
<1> HIDE DEF i, balances
<1>6. /\ run'[k].balances \in Seq(Balances)
      /\ Len(run'[k].balances) = i
  BY <1>1, <1>3, <1>4
<1>7. DOMAIN run'[k].pits = {Key(j) : j \in 1..i}
  <2>1. DOMAIN run[k].pits = {Key(j) : j \in 1..Len(balances)}
    BY DEF EvaluationInv, balances
  <2>2. 1..i = 1..Len(balances) \cup {i}
    BY <1>4
  <2> QED BY <1>1, <2>1, <2>2
<1>8. \A key \in DOMAIN run'[k].pits : run'[k].pits[key] \in Int /\ run'[k].pits[key] <= now
  BY <1>1, <1>3 DEF EvaluationInv
<1>9. run[k].outcomes = << >>
  BY <1>1 DEF EvaluationInv, Done
<1>10. InputInv(k)'
  BY <1>1, <1>2 DEF InputInv
<1>11. /\ Len(run'[k].balances) <= Len(rule'.sources)
       /\ DOMAIN run'[k].pits = {Key(j)' : j \in 1..Len(run'[k].balances)}
  BY <1>2, <1>5, <1>6, <1>7
<1>12. run'[k].phase = "reading" /\ ~Done(k)' /\ run'[k].outcomes = << >>
  BY <1>1, <1>9 DEF Done
<1>13. EvaluationInv(k)'
  BY <1>2, <1>6, <1>8, <1>11, <1>12 DEF EvaluationInv
<1> QED BY <1>10, <1>13

LEMMA EndKeepsTypes ==
  ASSUME StateInv, NEW k \in Runs, InputInv(k), EvaluationInv(k), Judge(k) \/ Fail(k)
  PROVE  InputInv(k)' /\ EvaluationInv(k)'
<1>1. /\ Others(k) /\ run[k].phase = "reading" /\ run'[k].input = run[k].input
      /\ run'[k].balances = run[k].balances /\ run'[k].pits = run[k].pits
      /\ \/ /\ run'[k].phase = "done" /\ NextSource(k) = Len(rule.sources) + 1
            /\ run'[k].outcomes = Outcomes(rule, run[k].balances)
         \/ run'[k].phase = "failed" /\ run'[k].outcomes = run[k].outcomes
  BY JudgeChanges, FailChanges
<1>2. UNCHANGED <<rule, now, history>> /\ \A j : Key(j)' = Key(j)
  BY <1>1, KeysStay DEF Others
<1>3. InputInv(k)'
  BY <1>1, <1>2 DEF InputInv
<1>4. NextSource(k) = Len(rule.sources) + 1 => Len(run[k].balances) = Len(rule.sources)
  BY RulesAreValid DEF NextSource, EvaluationInv
<1>5. /\ run'[k].balances \in Seq(Balances) /\ Len(run'[k].balances) <= Len(rule'.sources)
      /\ DOMAIN run'[k].pits = {Key(i)' : i \in 1..Len(run'[k].balances)}
      /\ \A key \in DOMAIN run'[k].pits : run'[k].pits[key] \in Int /\ run'[k].pits[key] <= now'
  BY <1>1, <1>2 DEF EvaluationInv
<1>6. Done(k)' => /\ Len(run'[k].balances) = Len(rule'.sources)
                  /\ run'[k].outcomes = Outcomes(rule', run'[k].balances)
  BY <1>1, <1>2, <1>4 DEF Done
<1>7. ~Done(k)' => run'[k].outcomes = << >>
  BY <1>1 DEF EvaluationInv, Done
<1>8. EvaluationInv(k)'
  BY <1>1, <1>5, <1>6, <1>7 DEF EvaluationInv
<1> QED BY <1>3, <1>8


-----------------------------------------------------------------------------
(* What was settled stays so. *)
LEMMA KeptStays ==
  ASSUME IInv, StateInv', [Next]_vars, rule' = rule, now <= now',
         run'["original"].balances = run["original"].balances,
         run'["original"].pits = run["original"].pits,
         NEW i \in 1..Len(run["original"].balances), Kept(i)
  PROVE  Kept(i)'
<1> DEFINE s == rule.sources[i]
<1>1. PICK pit : pit = run["original"].pits[Key(i)]
  OBVIOUS
<1>2. i \in DOMAIN rule.sources /\ s \in Sources
  <2>1. Len(run["original"].balances) \in Nat /\ Len(run["original"].balances) <= Len(rule.sources)
    BY DEF IInv, EvaluationInv, Runs
  <2> QED BY <2>1, RulesAreValid DEF IInv
<1>3. pit \in Int /\ pit < now /\ (s.kind = "pool" => Superseded(s, pit))
  <2>1. Key(i) \in DOMAIN run["original"].pits
    BY DEF IInv, EvaluationInv, Runs
  <2> QED BY <1>1, <2>1 DEF IInv, EvaluationInv, Runs, Kept
<1>4. now \in Int /\ now' \in Int /\ pit < now'
  BY <1>3, InstantsType, EvaluationAssumption DEF IInv, StateInv, Instants
<1>5. run["original"].balances[i] = InForce(s, pit)
  BY <1>1 DEF Kept
<1>6. \A q \in Sources : InForce(q, pit)' = InForce(q, pit)
                         /\ (Superseded(q, pit) => Superseded(q, pit)')
  <2>1. CASE UNCHANGED history
    BY <2>1 DEF InForce, LastMove, Moves, Superseded
  <2>2. ASSUME NEW r \in Sources, NEW asset \in Assets, NEW amount \in Amounts,
               Move(r, asset, amount)
        PROVE  \A q \in Sources : InForce(q, pit)' = InForce(q, pit)
                                  /\ (Superseded(q, pit) => Superseded(q, pit)')
    BY <1>3, <2>2, ThePastStays DEF IInv
  <2>3. UNCHANGED history \/ \E r \in Sources, asset \in Assets, amount \in Amounts :
                               Move(r, asset, amount)
    BY DEF Next, vars, Tick, EvaluateNow, EvaluateAt, Replay, Begin, Read, Judge, Fail
  <2> QED BY <2>1, <2>2, <2>3
<1>7. Key(i)' = Key(i) /\ s' = s
  BY KeysStay
<1>8. Kept(i)' <=> /\ pit < now'
                   /\ s.kind = "pool" => Superseded(s, pit)'
                   /\ run["original"].balances[i] = InForce(s, pit)'
  BY <1>1, <1>7 DEF Kept, InForce, LastMove, Superseded, Moves
<1> QED BY <1>2, <1>3, <1>4, <1>5, <1>6, <1>8


(* A settled read finds what was in force at its instant. *)
LEMMA SettledAnswer ==
  ASSUME StateInv, NEW k \in Runs, NextSource(k) \in DOMAIN rule.sources,
         Settled(rule.sources[NextSource(k)], ReadInstant(k), ReadAsOf(k))
  PROVE  Answer(k) = <<InForce(rule.sources[NextSource(k)], ReadInstant(k)), ReadInstant(k)>>
<1>1. rule.sources[NextSource(k)].kind \in {"ledger", "pool"}
  BY RulesAreValid
<1> QED BY <1>1 DEF Settled, Answer, Resolve, AggregateBalance, PoolBalanceAt

LEMMA ReadKeepsSettled ==
  ASSUME IInv, Read("original")
  PROVE  SettledInv'
<1> DEFINE k == "original"
           i == NextSource(k)
           s == rule.sources[i]
           balances == run[k].balances
<1>1. /\ Others(k) /\ run[k].phase = "reading" /\ i \in DOMAIN rule.sources
      /\ run'[k].balances = Append(balances, Answer(k)[1])
      /\ run'[k].pits = [key \in DOMAIN run[k].pits \cup {Key(i)} |->
                           IF key = Key(i) THEN Answer(k)[2] ELSE run[k].pits[key]]
      /\ run'[k].settled = (run[k].settled /\ Settled(s, ReadInstant(k), ReadAsOf(k)))
  BY ReadChanges DEF IInv, Runs
<1>2. UNCHANGED <<rule, now, history>> /\ \A j : Key(j)' = Key(j)
  BY <1>1, KeysStay DEF Others
<1>3. /\ balances \in Seq(Balances) /\ Len(balances) \in Nat /\ i = Len(balances) + 1
      /\ DOMAIN run[k].pits = {Key(j) : j \in 1..Len(balances)}
      /\ i <= Len(rule.sources)
  BY <1>1, RulesAreValid DEF IInv, EvaluationInv, NextSource, Runs
<1> SUFFICES ASSUME run'[k].settled, NEW j \in 1..Len(run'[k].balances)
             PROVE  Kept(j)'
  BY DEF SettledInv
<1>4. run[k].settled /\ Settled(s, ReadInstant(k), ReadAsOf(k))
  BY <1>1
<1>5. j \in 1..i
  BY <1>1, <1>3
<1>6. PICK pit : pit = run'[k].pits[Key(j)]
  OBVIOUS
<1>7. \A q \in Sources : InForce(q, pit)' = InForce(q, pit) /\ (Superseded(q, pit) => Superseded(q, pit)')
  BY <1>2 DEF InForce, LastMove, Moves, Superseded
<1>8. rule.sources[j] \in Sources
  BY <1>3, <1>5, RulesAreValid DEF IInv
<1>9. /\ pit < now
      /\ rule.sources[j].kind = "pool" => Superseded(rule.sources[j], pit)
      /\ run'[k].balances[j] = InForce(rule.sources[j], pit)
  <2>1. CASE j = i
    <3>1. Answer(k) = <<InForce(s, ReadInstant(k)), ReadInstant(k)>>
      BY <1>1, <1>4, SettledAnswer DEF IInv, Runs
    <3>2. pit = ReadInstant(k) /\ run'[k].balances[j] = InForce(s, ReadInstant(k))
      BY <1>1, <1>3, <1>6, <2>1, <3>1
    <3> QED BY <1>4, <2>1, <3>2 DEF Settled
  <2>2. CASE j # i
    <3>1. j \in 1..Len(balances) /\ j < i /\ j \in DOMAIN rule.sources
      BY <1>3, <1>5, <2>2, RulesAreValid, SMTT(60) DEF IInv
    <3>2. Key(j) # Key(i)
      BY <1>1, <3>1, KeysDiffer DEF IInv
    <3>3. pit = run[k].pits[Key(j)] /\ run'[k].balances[j] = balances[j]
      BY <1>1, <1>3, <1>6, <3>1, <3>2
    <3>4. Kept(j)
      BY <1>4, <3>1 DEF IInv, SettledInv
    <3> QED BY <3>3, <3>4 DEF Kept
  <2> QED BY <2>1, <2>2
<1>10. run'[k].pits[Key(j)'] = pit
  BY <1>2, <1>6
<1>11. Kept(j)' <=> /\ pit < now'
                    /\ rule'.sources[j].kind = "pool" => Superseded(rule.sources[j], pit)'
                    /\ run'[k].balances[j] = InForce(rule.sources[j], pit)'
  BY <1>2, <1>10 DEF Kept, InForce, LastMove, Superseded, Moves
<1> QED BY <1>2, <1>7, <1>8, <1>9, <1>11

(* A replay is given the instant of every source, and so reads the same.   *)
LEMMA ReplayReadsTheSame ==
  ASSUME IInv, Read("replay"), run["original"].settled
  PROVE  Answer("replay")[1] = run["original"].balances[NextSource("replay")]
<1> DEFINE i == NextSource("replay")
           s == rule.sources[i]
<1>1. run["replay"].phase = "reading" /\ i \in DOMAIN rule.sources
  BY ReadChanges DEF IInv, Runs
<1>2. Done("original") /\ run["replay"].input.sourcePITs = run["original"].pits
  BY <1>1 DEF IInv, ReplayInv
<1>3. i \in 1..Len(run["original"].balances)
  BY <1>1, <1>2, RulesAreValid DEF IInv, EvaluationInv, Runs
<1>4. Key(i) \in DOMAIN run["original"].pits
  BY <1>3 DEF IInv, EvaluationInv, Runs
<1>5. Kept(i)
  BY <1>3 DEF IInv, SettledInv
<1> HIDE DEF i
<1>6. ReadInstant("replay") = run["original"].pits[Key(i)] /\ ReadAsOf("replay")
  BY <1>2, <1>4 DEF ReadInstant, ReadAsOf, EffectivePIT, ReadsAtPIT, Overridden, i
<1>7. Settled(s, ReadInstant("replay"), ReadAsOf("replay"))
  BY <1>5, <1>6 DEF Kept, Settled
<1>8. Answer("replay") = <<InForce(s, ReadInstant("replay")), ReadInstant("replay")>>
  BY <1>1, <1>7, SettledAnswer DEF IInv, Runs, i
<1> QED BY <1>5, <1>6, <1>8 DEF Kept, i

LEMMA ReplayReadKeeps ==
  ASSUME IInv, Read("replay")
  PROVE  ReplayInv'
<1> DEFINE i == NextSource("replay")
           balances == run["replay"].balances
<1>1. /\ Others("replay") /\ run["replay"].phase = "reading"
      /\ run'["replay"].input = run["replay"].input
      /\ run'["replay"].balances = Append(balances, Answer("replay")[1])
  BY ReadChanges DEF IInv, Runs
<1>2. run'["original"] = run["original"]
  BY <1>1 DEF Others, Runs
<1>3. balances \in Seq(Balances) /\ i = Len(balances) + 1
  BY DEF IInv, EvaluationInv, NextSource, Runs
<1>4. /\ Done("original") /\ run["replay"].input.sourcePITs = run["original"].pits
      /\ run["original"].settled =>
           \A j \in 1..Len(balances) : balances[j] = run["original"].balances[j]
  BY <1>1 DEF IInv, ReplayInv
<1>5. ASSUME run["original"].settled, NEW j \in 1..Len(run'["replay"].balances)
      PROVE  run'["replay"].balances[j] = run["original"].balances[j]
  <2>1. Answer("replay")[1] = run["original"].balances[i]
    BY <1>5, ReplayReadsTheSame
  <2> HIDE DEF i
  <2> QED BY <1>1, <1>3, <1>4, <1>5, <2>1
<1> QED BY <1>1, <1>2, <1>4, <1>5 DEF ReplayInv, Done


-----------------------------------------------------------------------------
(* The steps of the specification, by the run they are of. *)
Begins(k) ==
  \E input : GoodInput(input) /\ Begin(k, input)
             /\ (k = "replay" => Done("original") /\ input.sourcePITs = run["original"].pits)

LEMMA Steps ==
  ASSUME IInv, [Next]_vars
  PROVE  \/ UNCHANGED run
         \/ \E k \in Runs : Begins(k) \/ Read(k) \/ Judge(k) \/ Fail(k)
<1>1. ASSUME NEW margin \in Margins, EvaluateNow(margin)
      PROVE  Begins("original")
  <2>1. GoodInput(Input(now, FALSE, margin, << >>))
    <3>1. << >> \in Overrides /\ 1 \in 1..now
      BY InstantsType DEF Overrides, IInv, Instants
    <3> QED BY <3>1, BeginInputs
  <2> QED BY <1>1, <2>1 DEF EvaluateNow, Begins
<1>2. ASSUME NEW margin \in Margins, NEW at \in 1..now, NEW overrides \in Overrides,
             EvaluateAt(at, margin, overrides)
      PROVE  Begins("original")
  BY <1>2, BeginInputs DEF EvaluateAt, Begins
<1>3. ASSUME NEW margin \in Margins, Replay(margin)
      PROVE  Begins("replay")
  <2> DEFINE input == Input(run["original"].input.pit, TRUE, margin, run["original"].pits)
  <2>1. GoodInput(input)
    <3>1. << >> \in Overrides /\ 1 \in 1..now
      BY InstantsType DEF Overrides, IInv, Instants
    <3> QED BY <3>1, BeginInputs
  <2>2. input.sourcePITs = run["original"].pits
    BY DEF Input
  <2>3. Begin("replay", input) /\ Done("original")
    BY <1>3 DEF Replay, Done
  <2> HIDE DEF input
  <2> QED BY <2>1, <2>2, <2>3 DEF Begins
<1>4. Tick \/ UNCHANGED vars => UNCHANGED run
  BY DEF Tick, vars
<1>5. ASSUME NEW s \in Sources, NEW asset \in Assets, NEW amount \in Amounts,
             Move(s, asset, amount)
      PROVE  UNCHANGED run
  BY <1>5 DEF Move
<1> QED BY <1>1, <1>2, <1>3, <1>4, <1>5 DEF Next, Runs

LEMMA StepChanges ==
  ASSUME IInv, NEW k \in Runs, Begins(k) \/ Read(k) \/ Judge(k) \/ Fail(k)
  PROVE  /\ Others(k) /\ ~Done(k)
         /\ Read(k) \/ (/\ run'[k].balances = run[k].balances /\ run'[k].pits = run[k].pits
                        /\ run'[k].settled = run[k].settled)
<1>1. CASE Begins(k)
  <2>1. PICK input : Begin(k, input)
    BY <1>1 DEF Begins
  <2> QED BY <2>1, BeginChanges DEF IInv, Done
<1>2. CASE Read(k)
  BY <1>2, ReadChanges DEF IInv, Done
<1>3. CASE Judge(k)
  BY <1>3, JudgeChanges DEF IInv, Done
<1>4. CASE Fail(k)
  BY <1>4, FailChanges DEF IInv, Done
<1> QED BY <1>1, <1>2, <1>3, <1>4

LEMMA TypesStay ==
  ASSUME IInv, [Next]_vars
  PROVE  \A j \in Runs : InputInv(j)' /\ EvaluationInv(j)'
<1>1. CASE UNCHANGED run
  BY <1>1, RunStays DEF IInv
<1>2. ASSUME NEW k \in Runs, Begins(k) \/ Read(k) \/ Judge(k) \/ Fail(k)
      PROVE  \A j \in Runs : InputInv(j)' /\ EvaluationInv(j)'
  <2>1. InputInv(k) /\ EvaluationInv(k) /\ StateInv
    BY DEF IInv
  <2>2. InputInv(k)' /\ EvaluationInv(k)'
    <3>1. CASE Begins(k)
      BY <2>1, <3>1, BeginKeepsTypes DEF Begins
    <3>2. CASE Read(k)
      BY <2>1, <3>2, ReadKeepsTypes
    <3>3. CASE Judge(k) \/ Fail(k)
      BY <2>1, <3>3, EndKeepsTypes
    <3> QED BY <1>2, <3>1, <3>2, <3>3
  <2>3. \A j \in Runs : j # k => run'[j] = run[j]
    BY <1>2, StepChanges DEF Others
  <2>4. ASSUME NEW j \in Runs, j # k
        PROVE  InputInv(j)' /\ EvaluationInv(j)'
    BY <2>3, <2>4, RunStays DEF IInv
  <2> QED BY <2>2, <2>4
<1> QED BY <1>1, <1>2, Steps

LEMMA SettledStays ==
  ASSUME IInv, [Next]_vars
  PROVE  SettledInv'
<1>1. CASE Read("original")
  BY <1>1, ReadKeepsSettled
<1>2. CASE ~Read("original")
  <2>1. /\ run'["original"].balances = run["original"].balances
        /\ run'["original"].pits = run["original"].pits
        /\ run'["original"].settled = run["original"].settled
    BY <1>2, Steps, StepChanges DEF Others, Runs
  <2>2. StateInv' /\ rule' = rule /\ now <= now'
    BY StateStays DEF IInv
  <2> SUFFICES ASSUME run["original"].settled, NEW i \in 1..Len(run["original"].balances)
               PROVE  Kept(i)'
    BY <2>1 DEF SettledInv
  <2>3. Kept(i)
    BY DEF IInv, SettledInv
  <2> QED BY <2>1, <2>2, <2>3, KeptStays
<1> QED BY <1>1, <1>2

LEMMA ReplayStays ==
  ASSUME IInv, [Next]_vars
  PROVE  ReplayInv'
<1>1. CASE UNCHANGED run
  BY <1>1 DEF IInv, ReplayInv, Done
<1>2. CASE Begins("original") \/ Read("original") \/ Judge("original") \/ Fail("original")
  <2>1. ~Done("original") /\ run'["replay"] = run["replay"]
    BY <1>2, StepChanges DEF Others, Runs
  <2> QED BY <2>1 DEF IInv, ReplayInv
<1>3. CASE Begins("replay")
  <2>1. PICK input : /\ Begin("replay", input)
                     /\ Done("original") /\ input.sourcePITs = run["original"].pits
    BY <1>3 DEF Begins
  <2>2. /\ Others("replay") /\ run["replay"].phase = "idle" /\ run'["replay"].input = input
        /\ run'["replay"].balances = run["replay"].balances
    BY <2>1, BeginChanges DEF IInv, Runs
  <2>3. run'["replay"].balances = << >> /\ run'["original"] = run["original"]
    BY <2>2 DEF IInv, EvaluationInv, Others, Runs
  <2>4. 1..Len(run'["replay"].balances) = {}
    BY <2>3
  <2> QED BY <2>1, <2>2, <2>3, <2>4 DEF ReplayInv, Done
<1>4. CASE Read("replay")
  BY <1>4, ReplayReadKeeps
<1>5. CASE Judge("replay") \/ Fail("replay")
  <2>1. /\ run["replay"].phase = "reading" /\ run'["replay"].input = run["replay"].input
        /\ run'["replay"].balances = run["replay"].balances /\ run'["original"] = run["original"]
    BY <1>5, JudgeChanges, FailChanges DEF IInv, Others, Runs
  <2> QED BY <2>1 DEF IInv, ReplayInv, Done
<1> QED BY <1>1, <1>2, <1>3, <1>4, <1>5, Steps DEF Runs


LEMMA InvInit ==
  ASSUME Init
  PROVE  IInv
<1>1. 1 \in Instants /\ Instants \subseteq Int
  BY EvaluationAssumption DEF Instants
<1>2. StateInv
  BY <1>1, BalancesType DEF Init, StateInv, Idle, Fields
<1>3. ASSUME NEW k \in Runs
      PROVE  InputInv(k) /\ EvaluationInv(k)
  <2>1. run[k] = Idle /\ now = 1
    BY DEF Init
  <2>2. << >> \in Seq(Balances) /\ Len(<< >>) = 0 /\ DOMAIN << >> = {} /\ 1..0 = {}
    OBVIOUS
  <2>3. 0 <= Len(rule.sources)
    BY <1>2, RulesAreValid
  <2> QED BY <2>1, <2>2, <2>3 DEF InputInv, EvaluationInv, Idle, Input, Done
<1>4. SettledInv /\ ReplayInv
  BY DEF Init, SettledInv, ReplayInv, Idle, Runs
<1> QED BY <1>2, <1>3, <1>4 DEF IInv

LEMMA InvNext ==
  ASSUME IInv, [Next]_vars
  PROVE  IInv'
<1>1. StateInv'
  BY StateStays DEF IInv
<1>2. Runs' = Runs
  BY DEF Runs
<1> QED BY <1>1, <1>2, TypesStay, SettledStays, ReplayStays DEF IInv

THEOREM EvaluationInvariant == Spec => []IInv
  BY InvInit, InvNext, PTL DEF Spec

-----------------------------------------------------------------------------
(* The verdicts of a rule that Validate accepted. *)
LEMMA VerdictIsExact ==
  ASSUME StateInv, NEW balances \in Seq(Balances), Len(balances) = Len(rule.sources),
         NEW asset \in Judged(rule, balances)
  PROVE  /\ Verdict(rule, balances, asset) = {Holds(asset, balances)}
         /\ Holds(asset, balances) \in BOOLEAN
<1> DEFINE v(i) == ZeroIfNil(balances[i], asset)
           tolerance == Tolerance(rule, asset)
<1>1. ValidRule(rule)
  BY RulesAreValid
<1>2. tolerance \in Nat
  BY <1>1, IntAssumption DEF ValidRule, Tolerance, ZeroIfNil
<1>3. DOMAIN balances = 1..Len(rule.sources) /\ \A i \in DOMAIN balances : v(i) \in Int
  BY BalancesType DEF ZeroIfNil
<1>4. \A i \in DOMAIN balances : rule.signs[i] \in {1, -1}
  BY <1>1, <1>3 DEF ValidRule
<1>5. \A x \in Int : x \in -tolerance..tolerance <=> Magnitude(x) <= tolerance
  BY <1>2 DEF Magnitude
<1> HIDE DEF tolerance
<1>6. CASE rule.template = "drift"
  <2>1. 1 \in DOMAIN balances /\ 2 \in DOMAIN balances
    BY <1>1, <1>3, <1>6 DEF ValidRule
  <2> HIDE DEF v
  <2>2. rule.signs[1] \in {1, -1} /\ v(1) \in Int /\ v(2) \in Int
    BY <1>3, <1>4, <2>1
  <2>3. rule.signs[1] * v(1) + v(2) \in Int
    BY <2>2
  <2>4. DriftVerdict(rule.signs[1], v(1), v(2), tolerance)
          = {DriftPassed(rule.signs[1], v(1), v(2), tolerance)}
    BY <1>2, <2>2, DriftIsExact
  <2>5. DriftPassed(rule.signs[1], v(1), v(2), tolerance)
          = (rule.signs[1] * v(1) + v(2) \in -tolerance..tolerance)
    BY <1>5, <2>3 DEF DriftPassed
  <2>6. Verdict(rule, balances, asset) = DriftVerdict(rule.signs[1], v(1), v(2), tolerance)
    BY <1>6 DEF Verdict, v, tolerance
  <2>7. Holds(asset, balances)
          = (rule.signs[1] * v(1) + v(2) \in -tolerance..tolerance)
    BY <1>6 DEF Holds, v, tolerance
  <2> QED BY <2>4, <2>5, <2>6, <2>7
<1>7. CASE rule.template = "parity"
  <2>1. 1 \in DOMAIN balances /\ 2 \in DOMAIN balances
    BY <1>1, <1>3, <1>7 DEF ValidRule
  <2> HIDE DEF v
  <2>2. v(1) \in Int /\ v(2) \in Int
    BY <1>3, <2>1
  <2>3. ParityVerdict(v(1), v(2), tolerance) = {ParityPassed(v(1), v(2), tolerance)}
    BY <1>2, <2>2, ParityIsExact
  <2>4. ParityPassed(v(1), v(2), tolerance) = (v(1) - v(2) \in -tolerance..tolerance)
    BY <1>5, <2>2 DEF ParityPassed
  <2>5. Verdict(rule, balances, asset) = ParityVerdict(v(1), v(2), tolerance)
    BY <1>7 DEF Verdict, v, tolerance
  <2>6. Holds(asset, balances) = (v(1) - v(2) \in -tolerance..tolerance)
    BY <1>7 DEF Holds, v, tolerance
  <2> QED BY <2>3, <2>4, <2>5, <2>6
<1>8. CASE rule.template = "invariant"
  <2> DEFINE n == Len(rule.sources)
             terms == [i \in DOMAIN balances |-> rule.signs[i] * v(i)]
  <2>1. n \in Nat /\ terms \in [1..n -> Int]
    BY <1>3, <1>4, RulesAreValid
  <2>2. Terms(rule, balances, asset) = terms
    BY DEF Terms
  <2>3. Holds(asset, balances) = (FoldFunction(+, 0, terms) \in -tolerance..tolerance)
    BY <1>8 DEF Holds, tolerance
  <2>4. Verdict(rule, balances, asset) = InvariantVerdict(terms, tolerance)
    BY <1>8, <2>2 DEF Verdict, tolerance
  <2> HIDE DEF terms, n
  <2>5. InvariantVerdict(terms, tolerance) = {InvariantPassed(terms, tolerance)}
    BY <1>2, <2>1, InvariantIsExact
  <2>6. PICK h : IsSum(h, terms, n)
    BY <2>1, SumExists
  <2>7. SumOf(terms) = h[1..n] /\ FoldFunction(+, 0, terms) = h[1..n]
    BY <2>1, <2>6, SumOfIsSum
  <2>8. h[1..n] \in Int
    BY <2>6 DEF IsSum
  <2>9. InvariantPassed(terms, tolerance) = (h[1..n] \in -tolerance..tolerance)
    <3>1. InvariantPassed(terms, tolerance) = (Magnitude(h[1..n]) <= tolerance)
      BY <2>7 DEF InvariantPassed
    <3> QED BY <1>5, <2>8, <3>1
  <2>10. Holds(asset, balances) = (h[1..n] \in -tolerance..tolerance)
    BY <2>3, <2>7
  <2> QED BY <2>4, <2>5, <2>9, <2>10
<1>9. CASE rule.template = "threshold"
  <2>1. 1 \in DOMAIN balances /\ asset \in DOMAIN rule.bounds
    BY <1>1, <1>3, <1>9 DEF ValidRule, Judged
  <2>2. \A b \in rule.bounds[asset] : b[2] \in Int
    BY <1>1, <2>1, IntAssumption DEF ValidRule, Int64, IntMin
  <2> HIDE DEF v
  <2>3. v(1) \in Int
    BY <1>3, <2>1
  <2>4. ThresholdVerdict(v(1), rule.bounds[asset]) = {ThresholdPassed(v(1), rule.bounds[asset])}
    BY <2>2, <2>3, ThresholdIsExact
  <2>5. Holds(asset, balances) = ThresholdPassed(v(1), rule.bounds[asset])
    BY <1>9 DEF Holds, ThresholdPassed, Respects, v
  <2>6. ThresholdPassed(v(1), rule.bounds[asset]) \in BOOLEAN
    BY DEF ThresholdPassed
  <2>7. Verdict(rule, balances, asset) = ThresholdVerdict(v(1), rule.bounds[asset])
    BY <1>9 DEF Verdict, v
  <2> QED BY <2>4, <2>5, <2>6, <2>7
<1> QED BY <1>1, <1>6, <1>7, <1>8, <1>9 DEF ValidRule


LEMMA ExactWhenDone ==
  ASSUME IInv, NEW k \in Runs, Done(k), NEW asset \in DOMAIN run[k].outcomes
  PROVE  /\ asset \in Judged(rule, run[k].balances)
         /\ run[k].outcomes[asset] = {Holds(asset, run[k].balances)}
         /\ Holds(asset, run[k].balances) \in BOOLEAN
<1>1. /\ run[k].balances \in Seq(Balances) /\ Len(run[k].balances) = Len(rule.sources)
      /\ run[k].outcomes = Outcomes(rule, run[k].balances)
  BY DEF IInv, EvaluationInv
<1>2. /\ DOMAIN run[k].outcomes = Judged(rule, run[k].balances)
      /\ run[k].outcomes[asset] = Verdict(rule, run[k].balances, asset)
  BY <1>1 DEF Outcomes
<1> QED BY <1>1, <1>2, VerdictIsExact DEF IInv

(* Instants, histories and runs stay well typed under every action; no     *)
(* recorded instant lies in the future.                                    *)
THEOREM TypeCorrect == Spec => []TypeOK
<1>1. ASSUME IInv PROVE TypeOK
  <2>1. ASSUME NEW k \in Runs, NEW a \in DOMAIN run[k].outcomes
        PROVE  run[k].outcomes[a] \subseteq BOOLEAN
    <3>1. Done(k)
      BY <1>1, <2>1 DEF IInv, EvaluationInv
    <3> QED BY <1>1, <3>1, ExactWhenDone
  <2> QED BY <1>1, <2>1 DEF IInv, StateInv, EvaluationInv, TypeOK
<1> QED BY <1>1, EvaluationInvariant, PTL

(* snapshotVerdictExpression: no verdict of any evaluation or replay is    *)
(* lost or changed by the width of the kernel's integers.                  *)
THEOREM ExactVerdicts == Spec => []VerdictsAreExact
<1>1. IInv => VerdictsAreExact
  BY ExactWhenDone DEF VerdictsAreExact
<1> QED BY <1>1, EvaluationInvariant, PTL

(* An evaluation whose reads were settled is replayed with its outcomes,   *)
(* whatever moved meanwhile.                                               *)
THEOREM ReplaysAreFaithful == Spec => []ReplaysAgree
<1>1. ASSUME IInv PROVE ReplaysAgree
  <2> SUFFICES ASSUME Done("original"), Done("replay"), run["original"].settled
               PROVE  run["replay"].outcomes = run["original"].outcomes
    BY DEF ReplaysAgree
  <2>1. \A k \in Runs : /\ run[k].balances \in Seq(Balances)
                        /\ Len(run[k].balances) = Len(rule.sources)
                        /\ run[k].outcomes = Outcomes(rule, run[k].balances)
    BY <1>1 DEF IInv, EvaluationInv, Runs
  <2>2. \A i \in 1..Len(run["replay"].balances) :
          run["replay"].balances[i] = run["original"].balances[i]
    BY <1>1 DEF IInv, ReplayInv, Done
  <2>3. run["replay"].balances = run["original"].balances
    BY <2>1, <2>2 DEF Runs
  <2> QED BY <2>1, <2>3 DEF Runs
<1> QED BY <1>1, EvaluationInvariant, PTL

(* A drift rule that replaces a legacy policy judges the same assets, and  *)
(* its evaluation passes exactly when the policy's reconciliation is OK.   *)
THEOREM LegacyIsPorted == Spec => []LegacyPortsOver
<1>1. ASSUME IInv PROVE LegacyPortsOver
  <2> SUFFICES ASSUME NEW k \in Runs, Done(k), rule.template = "drift", rule.signs[1] = 1,
                      DOMAIN rule.tolerance = {}
               PROVE  LET balances == run[k].balances IN
                      /\ DOMAIN run[k].outcomes = DOMAIN LegacyDrift(balances[1], balances[2])
                      /\ LegacyOK(balances[1], balances[2])
                           <=> \A asset \in DOMAIN run[k].outcomes :
                                 run[k].outcomes[asset] = {TRUE}
    BY DEF LegacyPortsOver
  <2> DEFINE ledger == run[k].balances[1]
             pool == run[k].balances[2]
  <2>1. /\ run[k].balances \in Seq(Balances) /\ Len(run[k].balances) = 2
        /\ run[k].outcomes = Outcomes(rule, run[k].balances)
    <3>1. Len(rule.sources) = 2
      BY <1>1, RulesAreValid DEF IInv, ValidRule
    <3> QED BY <1>1, <3>1 DEF IInv, EvaluationInv
  <2>2. ledger \in Balances /\ pool \in Balances /\ run[k].balances = <<ledger, pool>>
    BY <2>1
  <2> HIDE DEF ledger, pool
  <2>3. /\ \A asset \in DOMAIN ledger : ledger[asset] \in Int
        /\ \A asset \in DOMAIN pool : pool[asset] \in Int
    BY <2>2, BalancesType
  <2>4. /\ DOMAIN LegacyDrift(ledger, pool) = UnionAssets(<<ledger, pool>>)
        /\ LegacyOK(ledger, pool)
             <=> \A asset \in UnionAssets(<<ledger, pool>>) :
                   DriftVerdict(1, ZeroIfNil(ledger, asset), ZeroIfNil(pool, asset), 0) = {TRUE}
    BY <2>3, LegacyIsDrift
  <2>5. DOMAIN run[k].outcomes = UnionAssets(<<ledger, pool>>)
    BY <2>1, <2>2 DEF Outcomes, Judged
  <2>6. ASSUME NEW asset \in DOMAIN run[k].outcomes
        PROVE  run[k].outcomes[asset]
                 = DriftVerdict(1, ZeroIfNil(ledger, asset), ZeroIfNil(pool, asset), 0)
    <3>1. run[k].outcomes[asset] = Verdict(rule, <<ledger, pool>>, asset)
      BY <2>1, <2>2 DEF Outcomes
    <3>2. Tolerance(rule, asset) = 0
      BY DEF Tolerance, ZeroIfNil
    <3> QED BY <3>1, <3>2 DEF Verdict
  <2>7. run[k].balances[1] = ledger /\ run[k].balances[2] = pool
    BY DEF ledger, pool
  <2> QED BY <2>4, <2>5, <2>6, <2>7
<1> QED BY <1>1, EvaluationInvariant, PTL
=============================================================================
