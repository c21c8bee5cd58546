--------------------------- MODULE PlanningProofs ---------------------------
(***************************************************************************)
(* TLAPS proofs about the two sides of planning audits: ConsumableLedger,   *)
(* whose credits a planned audit reserves, and AuditScheduler, which plans   *)
(* the audits that are due.                                                *)
(*                                                                         *)
(* ConsumableLedger: for any number of tasks, planners and grants, any      *)
(* values and any attempt budget.                                           *)
(* AuditScheduler: for any number of processes, any cadence and any time    *)
(* limits.  Its parameters are declared here, and its names are Scheduler's.*)
(*                                                                         *)
(* The first part is about sums over finite sets, which the balances are.    *)
(***************************************************************************)
EXTENDS ConsumableLedger, FiniteSetTheorems, TLAPS

CONSTANTS Schedulers, Mortal, Cadence, Period, LeaseTTL, RetryDelay, MaxFailures,
          ActiveLimit, Nobody, MaxClock, MaxEdits, MaxErrors, MaxOthers
VARIABLES clock, enabled, nextRun, failures, leaseOwner, leaseExpires, audits, others,
          runFor, left, moved, phase, tick, job, edits, errors

Scheduler == INSTANCE AuditScheduler

\* Every nonempty family of subsets of a finite set has a minimal member.
LEMMA SmallestSet ==
  ASSUME NEW S, IsFiniteSet(S), NEW B \in SUBSET SUBSET S, B # {}
  PROVE  \E T \in B : \A U \in B : U \subseteq T => U = T
<1>1. FiniteSubsetsOf(S) = SUBSET S
  BY FS_FiniteSubsetsOfFinite
<1>2. IsWellFoundedOn(StrictSubsetOrdering(S), FiniteSubsetsOf(S))
  BY FS_StrictSubsetOrderingWellFounded
<1>3. PICK T \in B : \A U \in B : ~ (<<U, T>> \in StrictSubsetOrdering(S))
  BY <1>1, <1>2, WFMin
<1>. QED BY <1>3 DEF StrictSubsetOrdering

First(s) == CHOOSE x \in s : TRUE

\* Induction over the subsets of a finite set, one element less at a time.
LEMMA SubsetInduction ==
  ASSUME NEW S, IsFiniteSet(S), NEW P \in SUBSET SUBSET S, {} \in P,
         \A s \in SUBSET S : s # {} /\ s \ {First(s)} \in P => s \in P
  PROVE  P = SUBSET S
<1> DEFINE B == (SUBSET S) \ P
<1> SUFFICES ASSUME B # {}
             PROVE  FALSE
  OBVIOUS
<1>1. PICK T \in B : \A U \in B : U \subseteq T => U = T
  <2>1. B \in SUBSET SUBSET S
    OBVIOUS
  <2>. HIDE DEF B
  <2>. QED BY <2>1, SmallestSet
<1>2. T # {} /\ T \in SUBSET S /\ T \notin P
  BY <1>1
<1>3. First(T) \in T
  BY <1>2 DEF First
<1>4. T \ {First(T)} \notin P
  BY <1>2
<1>. QED BY <1>1, <1>2, <1>3, <1>4

SumEqn(h, f, S) ==
  h = [s \in SUBSET S |-> IF s = {} THEN 0 ELSE f[First(s)] + h[s \ {First(s)}]]

SumBelow(f, S) == CHOOSE h : SumEqn(h, f, S)

LEMMA SumIsSumBelow ==
  ASSUME NEW f, NEW S
  PROVE  SumFunctionOnSet(f, S) = SumBelow(f, S)[S]
  BY DEF SumFunctionOnSet, FoldFunctionOnSet, MapThenFoldSet, SumEqn, SumBelow, First

\* What a sum equation says of one set.
LEMMA SumEqnAt ==
  ASSUME NEW f, NEW S, NEW h, SumEqn(h, f, S)
  PROVE  /\ h[{}] = 0
         /\ \A s \in SUBSET S : s # {} =>
              /\ First(s) \in s /\ s \ {First(s)} \in SUBSET S
              /\ h[s] = f[First(s)] + h[s \ {First(s)}]
<1>1. \A s \in SUBSET S : s # {} => First(s) \in s
  BY DEF First
<1>2. \A s \in SUBSET S :
        h[s] = IF s = {} THEN 0 ELSE f[First(s)] + h[s \ {First(s)}]
  BY DEF SumEqn
<1>. QED BY <1>1, <1>2

\* Two functions that sum up subsets of f's domain agree.
LEMMA SumUnique ==
  ASSUME NEW f, NEW S, IsFiniteSet(S), NEW h, SumEqn(h, f, S), NEW k, SumEqn(k, f, S)
  PROVE  \A s \in SUBSET S : h[s] = k[s]
<1> DEFINE P == {s \in SUBSET S : h[s] = k[s]}
<1>1. {} \in P
  <2>1. h[{}] = 0 /\ k[{}] = 0
    BY SumEqnAt
  <2>. QED BY <2>1
<1>2. ASSUME NEW s \in SUBSET S, s # {}, s \ {First(s)} \in P
      PROVE  s \in P
  <2>1. /\ h[s] = f[First(s)] + h[s \ {First(s)}]
        /\ k[s] = f[First(s)] + k[s \ {First(s)}]
    BY <1>2, SumEqnAt
  <2>. QED BY <1>2, <2>1
<1>3. P = SUBSET S
  <2>1. P \in SUBSET SUBSET S
    OBVIOUS
  <2>. HIDE DEF P
  <2>. QED BY <1>1, <1>2, <2>1, SubsetInduction
<1>. QED BY <1>3

\* The sums of the subsets of a set are among those of a larger one.
LEMMA SumRestricts ==
  ASSUME NEW f, NEW S, NEW T \in SUBSET S, IsFiniteSet(S),
         NEW h, SumEqn(h, f, S), NEW k, SumEqn(k, f, T)
  PROVE  k[T] = h[T]
<1> DEFINE r == [s \in SUBSET T |-> h[s]]
<1>1. SumEqn(r, f, T)
  <2>1. \A s \in SUBSET T : r[s] = IF s = {} THEN 0 ELSE f[First(s)] + r[s \ {First(s)}]
    <3> SUFFICES ASSUME NEW s \in SUBSET T
                 PROVE  r[s] = IF s = {} THEN 0 ELSE f[First(s)] + r[s \ {First(s)}]
      OBVIOUS
    <3>1. s \in SUBSET S /\ s \ {First(s)} \in SUBSET T
      OBVIOUS
    <3>2. CASE s = {}
      BY <3>1, <3>2, SumEqnAt
    <3>3. CASE s # {}
      <4>1. h[s] = f[First(s)] + h[s \ {First(s)}]
        BY <3>1, <3>3, SumEqnAt
      <4>2. r[s] = h[s] /\ r[s \ {First(s)}] = h[s \ {First(s)}]
        BY <3>1
      <4>. QED BY <3>3, <4>1, <4>2
    <3>. QED BY <3>2, <3>3
  <2>. QED BY <2>1 DEF SumEqn
<1>2. IsFiniteSet(T)
  BY FS_Subset
<1>3. k[T] = r[T]
  BY <1>1, <1>2, SumUnique
<1>. QED BY <1>3

LEMMA SumExists ==
  ASSUME NEW f, NEW S, IsFiniteSet(S)
  PROVE  SumEqn(SumBelow(f, S), f, S)
<1> DEFINE Good(s) == \E h : SumEqn(h, f, s)
           B == {s \in SUBSET S : ~Good(s)}
<1>0. \A s : Good(s) => SumEqn(SumBelow(f, s), f, s)
  BY DEF SumBelow
<1>1. SUFFICES B = {}
  BY <1>0
<1>2. SUFFICES ASSUME B # {}
               PROVE  FALSE
  OBVIOUS
<1>3. PICK T \in B : \A U \in B : U \subseteq T => U = T
  <2>1. B \in SUBSET SUBSET S
    OBVIOUS
  <2>. HIDE DEF B
  <2>. QED BY <1>2, <2>1, SmallestSet
<1>4. T \in SUBSET S /\ ~Good(T) /\ IsFiniteSet(T)
  BY <1>3, FS_Subset
<1>5. \A u \in SUBSET T : u # T => SumEqn(SumBelow(f, u), f, u)
  <2> SUFFICES ASSUME NEW u \in SUBSET T, u # T
               PROVE  SumEqn(SumBelow(f, u), f, u)
    OBVIOUS
  <2>1. u \in SUBSET S /\ u \notin B
    BY <1>3
  <2>2. Good(u)
    BY <2>1
  <2>. HIDE DEF Good
  <2>. QED BY <1>0, <2>2
<1> DEFINE Sum(u) == SumBelow(f, u)[u]
           g == [u \in SUBSET T |-> IF u = {} THEN 0 ELSE f[First(u)] + Sum(u \ {First(u)})]
<1>6. ASSUME NEW v \in SUBSET T, v # T
      PROVE  g[v] = Sum(v)
  <2>1. SumEqn(SumBelow(f, v), f, v) /\ v \in SUBSET v
    BY <1>5, <1>6
  <2>2. CASE v = {}
    BY <2>1, <2>2, SumEqnAt
  <2>3. CASE v # {}
    <3> DEFINE w == v \ {First(v)}
    <3>1. First(v) \in v /\ SumBelow(f, v)[v] = f[First(v)] + SumBelow(f, v)[w]
      BY <2>1, <2>3, SumEqnAt
    <3>2. w \in SUBSET v /\ w \in SUBSET T /\ w # T
      BY <3>1
    <3>3. SumEqn(SumBelow(f, w), f, w) /\ IsFiniteSet(v)
      BY <1>4, <1>5, <3>2, FS_Subset
    <3>4. SumBelow(f, w)[w] = SumBelow(f, v)[w]
      <4>. HIDE DEF w
      <4>. QED BY <2>1, <3>2, <3>3, SumRestricts
    <3>. QED BY <2>3, <3>1, <3>4
  <2>. QED BY <2>2, <2>3
<1>7. \A u \in SUBSET T : g[u] = IF u = {} THEN 0 ELSE f[First(u)] + g[u \ {First(u)}]
  <2> SUFFICES ASSUME NEW u \in SUBSET T, u # {}
               PROVE  g[u] = f[First(u)] + g[u \ {First(u)}]
    OBVIOUS
  <2>1. First(u) \in u
    BY DEF First
  <2>2. u \ {First(u)} \in SUBSET T /\ u \ {First(u)} # T
    BY <2>1
  <2>3. g[u \ {First(u)}] = Sum(u \ {First(u)})
    <3>. HIDE DEF g, Sum
    <3>. QED BY <1>6, <2>2
  <2>. QED BY <2>3
<1>8. SumEqn(g, f, T)
  <2>1. g = [u \in SUBSET T |-> IF u = {} THEN 0 ELSE f[First(u)] + g[u \ {First(u)}]]
    BY <1>7
  <2>. QED BY <2>1 DEF SumEqn
<1>. QED BY <1>4, <1>8

-----------------------------------------------------------------------------
\* A sum is built up one element at a time: h[s] is the sum over the subset s.
SumsUp(h, f, S) ==
  /\ h[{}] = 0
  /\ \A s \in SUBSET S : h[s] \in Int
  /\ \A s \in SUBSET S : s # {} =>
       First(s) \in s /\ h[s] = f[First(s)] + h[s \ {First(s)}]

LEMMA SumSteps ==
  ASSUME NEW S, IsFiniteSet(S), NEW f \in [S -> Int]
  PROVE  \E h : SumFunction(f) = h[S] /\ SumsUp(h, f, S)
<1> DEFINE h == SumBelow(f, S)
           P == {s \in SUBSET S : h[s] \in Int}
<1>1. SumFunction(f) = h[S] /\ SumEqn(h, f, S)
  BY SumIsSumBelow, SumExists DEF SumFunction
<1>. HIDE DEF h
<1>2. {} \in P
  BY <1>1, SumEqnAt
<1>3. ASSUME NEW s \in SUBSET S, s # {}, s \ {First(s)} \in P
      PROVE  s \in P
  <2>1. First(s) \in s /\ h[s] = f[First(s)] + h[s \ {First(s)}]
    BY <1>1, <1>3, SumEqnAt
  <2>2. f[First(s)] \in Int /\ h[s \ {First(s)}] \in Int
    BY <1>3, <2>1
  <2>. QED BY <2>1, <2>2
<1>4. P = SUBSET S
  <2>1. P \in SUBSET SUBSET S
    OBVIOUS
  <2>. HIDE DEF P
  <2>. QED BY <1>2, <1>3, <2>1, SubsetInduction
<1>5. SumsUp(h, f, S)
  <2>1. /\ h[{}] = 0
        /\ \A s \in SUBSET S : s # {} =>
             First(s) \in s /\ h[s] = f[First(s)] + h[s \ {First(s)}]
    BY <1>1, SumEqnAt
  <2>. QED BY <1>4, <2>1 DEF SumsUp
<1>. QED BY <1>1, <1>5

\* Changing one term changes the sum by as much.
LEMMA SumUpdate ==
  ASSUME NEW S, IsFiniteSet(S), NEW f \in [S -> Int], NEW e \in [S -> Int],
         NEW t \in S, NEW d \in Int, e[t] = f[t] + d,
         \A u \in S : u # t => e[u] = f[u]
  PROVE  SumFunction(e) = SumFunction(f) + d
<1>0. PICK h : SumFunction(f) = h[S] /\ SumsUp(h, f, S)
  BY SumSteps
<1>1. PICK k : SumFunction(e) = k[S] /\ SumsUp(k, e, S)
  BY SumSteps
<1> DEFINE P == {s \in SUBSET S : k[s] = h[s] + (IF t \in s THEN d ELSE 0)}
<1>2. {} \in P
  BY <1>0, <1>1 DEF SumsUp
<1>3. ASSUME NEW s \in SUBSET S, s # {}, s \ {First(s)} \in P
      PROVE  s \in P
  <2>1. /\ First(s) \in s
        /\ h[s] = f[First(s)] + h[s \ {First(s)}]
        /\ k[s] = e[First(s)] + k[s \ {First(s)}]
    BY <1>0, <1>1, <1>3 DEF SumsUp
  <2>2. k[s \ {First(s)}] = h[s \ {First(s)}] + (IF t \in s \ {First(s)} THEN d ELSE 0)
    BY <1>3
  <2>3. /\ f[First(s)] \in Int /\ e[First(s)] \in Int
        /\ h[s \ {First(s)}] \in Int /\ k[s \ {First(s)}] \in Int
    BY <1>0, <1>1, <1>3, <2>1 DEF SumsUp
  <2>4. CASE First(s) = t
    <3>1. t \in s /\ t \notin s \ {First(s)} /\ e[First(s)] = f[First(s)] + d
      BY <2>1, <2>4
    <3>2. k[s] = h[s] + d
      BY <2>1, <2>2, <2>3, <3>1
    <3>. QED BY <3>1, <3>2
  <2>5. CASE First(s) # t
    <3>1. e[First(s)] = f[First(s)] /\ (t \in s <=> t \in s \ {First(s)})
      BY <2>1, <2>5
    <3>2. k[s] = h[s] + (IF t \in s THEN d ELSE 0)
      BY <2>1, <2>2, <2>3, <3>1
    <3>. QED BY <3>2
  <2>. QED BY <2>4, <2>5
<1>4. P = SUBSET S
  <2>1. P \in SUBSET SUBSET S
    OBVIOUS
  <2>. HIDE DEF P
  <2>. QED BY <1>2, <1>3, <2>1, SubsetInduction
<1>. QED BY <1>0, <1>1, <1>4

\* A function that is nowhere larger has no larger sum.
LEMMA SumMonotone ==
  ASSUME NEW S, IsFiniteSet(S), NEW f \in [S -> Int], NEW e \in [S -> Int],
         \A u \in S : f[u] <= e[u]
  PROVE  SumFunction(f) <= SumFunction(e)
<1>0. PICK h : SumFunction(f) = h[S] /\ SumsUp(h, f, S)
  BY SumSteps
<1>1. PICK k : SumFunction(e) = k[S] /\ SumsUp(k, e, S)
  BY SumSteps
<1> DEFINE P == {s \in SUBSET S : h[s] <= k[s]}
<1>2. {} \in P
  BY <1>0, <1>1 DEF SumsUp
<1>3. ASSUME NEW s \in SUBSET S, s # {}, s \ {First(s)} \in P
      PROVE  s \in P
  <2>1. /\ First(s) \in s
        /\ h[s] = f[First(s)] + h[s \ {First(s)}]
        /\ k[s] = e[First(s)] + k[s \ {First(s)}]
    BY <1>0, <1>1, <1>3 DEF SumsUp
  <2>2. /\ f[First(s)] \in Int /\ e[First(s)] \in Int /\ f[First(s)] <= e[First(s)]
        /\ h[s \ {First(s)}] \in Int /\ k[s \ {First(s)}] \in Int
        /\ h[s \ {First(s)}] <= k[s \ {First(s)}]
    BY <1>0, <1>1, <1>3, <2>1 DEF SumsUp
  <2>. QED BY <2>1, <2>2
<1>4. P = SUBSET S
  <2>1. P \in SUBSET SUBSET S
    OBVIOUS
  <2>. HIDE DEF P
  <2>. QED BY <1>2, <1>3, <2>1, SubsetInduction
<1>. QED BY <1>0, <1>1, <1>4

\* The sum of nothing is nothing.
LEMMA SumZero ==
  ASSUME NEW S, IsFiniteSet(S), NEW f \in [S -> Int], \A u \in S : f[u] = 0
  PROVE  SumFunction(f) = 0
<1>1. PICK h : SumFunction(f) = h[S] /\ SumsUp(h, f, S)
  BY SumSteps
<1> DEFINE P == {s \in SUBSET S : h[s] = 0}
<1>2. {} \in P
  BY <1>1 DEF SumsUp
<1>3. ASSUME NEW s \in SUBSET S, s # {}, s \ {First(s)} \in P
      PROVE  s \in P
  BY <1>1, <1>3 DEF SumsUp
<1>4. P = SUBSET S
  <2>1. P \in SUBSET SUBSET S
    OBVIOUS
  <2>. HIDE DEF P
  <2>. QED BY <1>2, <1>3, <2>1, SubsetInduction
<1>. QED BY <1>1, <1>4

\* Induction up to a bound.
LEMMA IntervalInduction ==
  ASSUME NEW n \in Nat, NEW P \in SUBSET (0 .. n), 0 \in P,
         \A i \in 1 .. n : i - 1 \in P => i \in P
  PROVE  P = 0 .. n
<1> DEFINE Bad == (0 .. n) \ P
           B == {0 .. i : i \in Bad}
<1> SUFFICES ASSUME Bad # {}
             PROVE  FALSE
  OBVIOUS
<1>1. PICK T \in B : \A U \in B : U \subseteq T => U = T
  <2> DEFINE S == 0 .. n
  <2>1. B \in SUBSET SUBSET S /\ B # {}
    OBVIOUS
  <2>2. IsFiniteSet(S)
    BY FS_Interval
  <2>. HIDE DEF B, S
  <2>. QED BY <2>1, <2>2, SmallestSet
<1>2. PICK i \in Bad : T = 0 .. i
  BY <1>1
<1>3. i \in 1 .. n /\ i - 1 \in 0 .. n /\ i - 1 \notin P
  BY <1>2
<1>4. 0 .. (i - 1) \in B /\ 0 .. (i - 1) \subseteq T
  BY <1>2, <1>3
<1>5. i \in T /\ i \notin 0 .. (i - 1)
  BY <1>2, <1>3
<1>. QED BY <1>1, <1>4, <1>5

-----------------------------------------------------------------------------
\* What a reservation draws.

SoFar(h, balance, k) ==
  h = [i \in 0 .. k |->
         IF i = 0 THEN 0
         ELSE SmallerOf(MaxAttempts, h[i - 1] + LargerOf(0, balance[DrawOrder[i]]))]

LEMMA SoFarExists ==
  ASSUME NEW balance, NEW n \in Nat
  PROVE  \E h : SoFar(h, balance, n)
<1> DEFINE P == {k \in 0 .. n : \E h : SoFar(h, balance, k)}
<1>1. 0 \in P
  <2> DEFINE h == [i \in 0 .. 0 |-> 0]
  <2>1. SoFar(h, balance, 0)
    BY DEF SoFar
  <2>. QED BY <2>1
<1>2. ASSUME NEW k \in 1 .. n, k - 1 \in P
      PROVE  k \in P
  <2>1. PICK h : SoFar(h, balance, k - 1)
    BY <1>2
  <2> DEFINE e == [i \in 0 .. k |->
                     IF i = 0 THEN 0
                     ELSE SmallerOf(MaxAttempts, h[i - 1] + LargerOf(0, balance[DrawOrder[i]]))]
  <2>2. ASSUME NEW i \in 0 .. (k - 1)
        PROVE  e[i] = h[i]
    <3>1. h[i] = IF i = 0 THEN 0
                 ELSE SmallerOf(MaxAttempts, h[i - 1] + LargerOf(0, balance[DrawOrder[i]]))
      BY <2>1 DEF SoFar
    <3>2. i \in 0 .. k
      OBVIOUS
    <3>. QED BY <3>1, <3>2
  <2>3. \A i \in 0 .. k : i # 0 => e[i - 1] = h[i - 1]
    <3>1. \A i \in 0 .. k : i # 0 => i - 1 \in 0 .. (k - 1)
      OBVIOUS
    <3>. HIDE DEF e
    <3>. QED BY <2>2, <3>1
  <2>4. e = [i \in 0 .. k |->
               IF i = 0 THEN 0
               ELSE SmallerOf(MaxAttempts, e[i - 1] + LargerOf(0, balance[DrawOrder[i]]))]
    BY <2>3
  <2>5. SoFar(e, balance, k)
    BY <2>4 DEF SoFar
  <2>. QED BY <2>5
<1>3. P = 0 .. n
  <2>1. P \in SUBSET (0 .. n)
    OBVIOUS
  <2>. HIDE DEF P
  <2>. QED BY <1>1, <1>2, <2>1, IntervalInduction
<1>. QED BY <1>3

\* No grant gives more than its balance, and none that has nothing left gives.
LEMMA DrawBounds ==
  ASSUME NEW balance \in [Grants -> Int]
  PROVE  /\ Draw(balance) \in Amounts
         /\ \A g \in Grants : Draw(balance)[g] <= LargerOf(0, balance[g])
<1> DEFINE n == Len(DrawOrder)
           before == CHOOSE h : SoFar(h, balance, n)
<1>1. n \in Nat /\ DOMAIN DrawOrder = 1 .. n /\ MaxAttempts \in Nat
      /\ \A i \in 1 .. n : DrawOrder[i] \in Grants
  BY GrantAssumption
<1>2. SoFar(before, balance, n)
  BY <1>1, SoFarExists
<1>3. Draw(balance) = [g \in Grants |->
        LET i == CHOOSE i \in DOMAIN DrawOrder : DrawOrder[i] = g
        IN before[i] - before[i - 1]]
  BY DEF Draw, SoFar
<1>. HIDE DEF before
<1>4. before[0] = 0
      /\ \A i \in 1 .. n : before[i] = SmallerOf(MaxAttempts,
                              before[i - 1] + LargerOf(0, balance[DrawOrder[i]]))
  BY <1>1, <1>2 DEF SoFar
<1>5. \A i \in 1 .. n : LargerOf(0, balance[DrawOrder[i]]) \in Nat
  BY <1>1 DEF LargerOf
<1> DEFINE P == {i \in 0 .. n : before[i] \in 0 .. MaxAttempts}
<1>6. P = 0 .. n
  <2>1. P \in SUBSET (0 .. n) /\ 0 \in P
    BY <1>1, <1>4
  <2>2. ASSUME NEW i \in 1 .. n, i - 1 \in P
        PROVE  i \in P
    <3>1. before[i - 1] \in 0 .. MaxAttempts
      BY <2>2
    <3>. QED BY <1>1, <1>4, <1>5, <3>1 DEF SmallerOf
  <2>. HIDE DEF P
  <2>. QED BY <1>1, <2>1, <2>2, IntervalInduction
<1>7. ASSUME NEW g \in Grants
      PROVE  Draw(balance)[g] \in Nat /\ Draw(balance)[g] <= LargerOf(0, balance[g])
  <2> DEFINE i == CHOOSE i \in DOMAIN DrawOrder : DrawOrder[i] = g
  <2>1. i \in 1 .. n /\ DrawOrder[i] = g
    BY <1>1, GrantAssumption
  <2>2. Draw(balance)[g] = before[i] - before[i - 1]
    BY <1>3
  <2>. HIDE DEF i
  <2>3. i \in 0 .. n /\ i - 1 \in 0 .. n
    BY <1>1, <2>1
  <2>4. before[i] \in 0 .. MaxAttempts /\ before[i - 1] \in 0 .. MaxAttempts
    BY <1>6, <2>3
  <2>5. LargerOf(0, balance[g]) \in Nat
        /\ before[i] = SmallerOf(MaxAttempts, before[i - 1] + LargerOf(0, balance[g]))
    BY <1>4, <1>5, <2>1
  <2>. QED BY <1>1, <2>2, <2>4, <2>5 DEF SmallerOf
<1>. QED BY <1>3, <1>7 DEF Amounts

-----------------------------------------------------------------------------
\* The balances.

LEMMA TotalType ==
  ASSUME NEW m \in [Tasks -> [Grants -> Int]], NEW g \in Grants
  PROVE  Total(m, g) \in Int
<1> DEFINE f == [t \in Tasks |-> m[t][g]]
<1>1. f \in [Tasks -> Int]
  OBVIOUS
<1>2. PICK h : SumFunction(f) = h[Tasks] /\ SumsUp(h, f, Tasks)
  BY <1>1, GrantAssumption, SumSteps
<1>. QED BY <1>2 DEF SumsUp, Total

\* The rows of one task change a grant's total by what they add.
LEMMA TotalUpdate ==
  ASSUME NEW m \in [Tasks -> [Grants -> Int]], NEW q \in [Tasks -> [Grants -> Int]],
         NEW t \in Tasks, \A u \in Tasks : u # t => q[u] = m[u], NEW g \in Grants
  PROVE  Total(q, g) = Total(m, g) + (q[t][g] - m[t][g])
<1> DEFINE f == [u \in Tasks |-> m[u][g]]
           e == [u \in Tasks |-> q[u][g]]
           d == q[t][g] - m[t][g]
<1>1. f \in [Tasks -> Int] /\ e \in [Tasks -> Int] /\ d \in Int
  OBVIOUS
<1>2. e[t] = f[t] + d
  OBVIOUS
<1>3. \A u \in Tasks : u # t => e[u] = f[u]
  OBVIOUS
<1>4. Total(m, g) = SumFunction(f) /\ Total(q, g) = SumFunction(e)
  BY DEF Total
<1>. HIDE DEF f, e, d
<1>5. IsFiniteSet(Tasks)
  BY GrantAssumption
<1>6. \A old, new \in [Tasks -> Int] : \A k \in Int :
         new[t] = old[t] + k /\ (\A u \in Tasks : u # t => new[u] = old[u])
           => SumFunction(new) = SumFunction(old) + k
  <2>1. SUFFICES ASSUME NEW old \in [Tasks -> Int], NEW new \in [Tasks -> Int], NEW k \in Int,
                        new[t] = old[t] + k, \A u \in Tasks : u # t => new[u] = old[u]
                 PROVE  SumFunction(new) = SumFunction(old) + k
    OBVIOUS
  <2>. QED BY <1>5, <2>1, SumUpdate, SMTT(60)
<1>7. SumFunction(e) = SumFunction(f) + d
  BY <1>1, <1>2, <1>3, <1>6
<1>. QED BY <1>4, <1>7 DEF d

LEMMA TotalMonotone ==
  ASSUME NEW m \in [Tasks -> [Grants -> Int]], NEW q \in [Tasks -> [Grants -> Int]],
         NEW g \in Grants, \A t \in Tasks : m[t][g] <= q[t][g]
  PROVE  Total(m, g) <= Total(q, g)
<1> DEFINE f == [u \in Tasks |-> m[u][g]]
           e == [u \in Tasks |-> q[u][g]]
<1>1. f \in [Tasks -> Int] /\ e \in [Tasks -> Int] /\ \A u \in Tasks : f[u] <= e[u]
  OBVIOUS
<1>2. Total(m, g) = SumFunction(f) /\ Total(q, g) = SumFunction(e)
  BY DEF Total
<1>. HIDE DEF f, e
<1>3. IsFiniteSet(Tasks)
  BY GrantAssumption
<1>. QED BY <1>1, <1>2, <1>3, SumMonotone

-----------------------------------------------------------------------------
\* Types, and which settlements are under way.

\* A task is planned by one planner.
PlannedOnce ==
  \A p, q \in Planners : planning[p] = planning[q] /\ planning[p] # NoTask => p = q

\* The rows of a task: consumed units were freed first, and freed ones reserved, but
\* for those that a boundary and the janitor both returned.
TwiceAtMost(t, g) ==
  released[t][g] > reserved[t][g] =>
    /\ t \in overlapped
    /\ {<<"unused", g>>, <<"janitor", g>>} \subseteq keys[t]
    /\ released[t][g] <= 2 * reserved[t][g]

RowsOrdered ==
  \A t \in Tasks, g \in Grants :
    debited[t][g] <= released[t][g] /\ TwiceAtMost(t, g)

BaseInv == TypeOK /\ SettlementInv /\ PlannedOnce /\ RowsOrdered

LEMMA NothingIsAmounts == Nothing \in Amounts
  BY DEF Nothing, Amounts

LEMMA BaseInit == Init => BaseInv
<1> SUFFICES ASSUME Init
             PROVE  BaseInv
  OBVIOUS
<1>1. TypeOK
  BY NothingIsAmounts DEF Init, TypeOK, Status, Nothing, Amounts
<1>2. SettlementInv
  <2>1. \A t \in Tasks, x \in Settlers : Idle(t, x)
    BY DEF Init, Idle
  <2>2. \A p \in Planners, t \in Tasks : planning[p] # t
    BY GrantAssumption DEF Init
  <2>3. \A t \in Tasks : reserved[t] = Nothing /\ released[t] = Nothing
    BY DEF Init
  <2>4. {"executor", "boundary", "canceller", "janitor"} = Settlers
    BY DEF Settlers
  <2>5. \A g \in Grants : Nothing[g] = 0
    BY DEF Nothing
  <2>. QED BY <2>1, <2>2, <2>3, <2>4, <2>5 DEF SettlementInv
<1>3. PlannedOnce /\ RowsOrdered
  BY DEF Init, PlannedOnce, RowsOrdered, TwiceAtMost, Nothing
<1>. QED BY <1>1, <1>2, <1>3 DEF BaseInv

\* The amounts of a task are numbers.
LEMMA AmountTypes ==
  ASSUME TypeOK, NEW t \in Tasks, NEW g \in Grants
  PROVE  /\ reserved[t][g] \in Nat /\ released[t][g] \in Nat /\ debited[t][g] \in Nat
         /\ Outstanding(t)[g] = reserved[t][g] - released[t][g]
  BY DEF TypeOK, Amounts, Outstanding

\* What a settlement that is not the janitor's has read while it is under way.
LEMMA SettlementHolds ==
  ASSUME BaseInv, NEW t \in Tasks, NEW x \in Settlers, ~Idle(t, x), x # "janitor"
  PROVE  /\ tx[t][x] = Outstanding(t)
         /\ status[t] \in {"open", "ended"}
         /\ x # "boundary" =>
              /\ status[t] = "open"
              /\ \A y \in Settlers : y # x => Idle(t, y)
              /\ \A g \in Grants : released[t][g] <= reserved[t][g]
<1>0. {"executor", "boundary", "canceller", "janitor"} = Settlers
  BY DEF Settlers
<1>1. /\ tx[t][x] = Outstanding(t)
      /\ status[t] \in {"open", "ended"}
      /\ x # "boundary" => status[t] = "open"
  BY <1>0 DEF BaseInv, SettlementInv
<1>2. ASSUME x # "boundary"
      PROVE  \A y \in Settlers : y # x => Idle(t, y)
  <2>1. Idle(t, "janitor")
    BY <1>1, <1>2 DEF BaseInv, SettlementInv
  <2>2. \A y \in Settlers \ {"janitor"} : ~Idle(t, y) => y = x
    BY DEF BaseInv, SettlementInv
  <2>. QED BY <2>1, <2>2
<1>3. ASSUME x # "boundary", NEW g \in Grants
      PROVE  released[t][g] <= reserved[t][g]
  <2>1. ~(released[t][g] > reserved[t][g])
    BY <1>1, <1>3 DEF BaseInv, SettlementInv
  <2>. QED BY <2>1, AmountTypes DEF BaseInv
<1>. QED BY <1>1, <1>2, <1>3

\* A settlement moves what is outstanding, and only of its own task.
LEMMA ReleaseRowsChange ==
  ASSUME BaseInv, NEW t \in Tasks, NEW x \in Settlers, SettleRelease(t, x)
  PROVE  /\ UNCHANGED <<reserved, debited>> /\ released' \in [Tasks -> Amounts]
         /\ \A u \in Tasks : u # t => released'[u] = released[u] /\ keys'[u] = keys[u]
         /\ keys[t] \subseteq keys'[t]
         /\ \A g \in Grants : tx[t][x][g] > 0 => <<Trigger[x], g>> \in keys'[t]
         /\ \A g \in Grants :
              \/ released'[t][g] = LargerOf(released[t][g], reserved[t][g])
              \/ /\ x = "janitor" /\ Returned(t, g)
                 /\ released'[t][g] = reserved[t][g] + tx[t][x][g]
<1>1. ~Idle(t, x) /\ UNCHANGED <<reserved, debited>>
  BY DEF SettleRelease
<1>2. /\ released' = [released EXCEPT ![t] =
           [g \in Grants |-> released[t][g] + LargerOf(0, tx[t][x][g])]]
      /\ keys' = [keys EXCEPT ![t] = @ \cup KeysFor(x, tx[t][x])]
  BY DEF SettleRelease
<1>3. /\ released \in [Tasks -> Amounts]
      /\ keys \in [Tasks -> SUBSET (Triggers \X Grants)]
  BY DEF BaseInv, TypeOK
<1>4. ASSUME NEW g \in Grants
      PROVE  tx[t][x][g] = reserved[t][g] - released[t][g]
             \/ (x = "janitor" /\ Returned(t, g))
  <2>1. CASE x = "janitor"
    BY <1>1, <2>1, AmountTypes DEF BaseInv, SettlementInv
  <2>2. CASE x # "janitor"
    BY <1>1, <2>2, AmountTypes, SettlementHolds DEF BaseInv
  <2>. QED BY <2>1, <2>2
<1>5. \A g \in Grants : reserved[t][g] \in Nat /\ released[t][g] \in Nat
  BY AmountTypes DEF BaseInv
<1>6. ASSUME NEW g \in Grants
      PROVE  /\ released'[t][g] \in Nat
             /\ \/ released'[t][g] = LargerOf(released[t][g], reserved[t][g])
                \/ /\ x = "janitor" /\ Returned(t, g)
                   /\ released'[t][g] = reserved[t][g] + tx[t][x][g]
  <2>1. released'[t][g] = released[t][g] + LargerOf(0, tx[t][x][g])
    BY <1>2, <1>3
  <2>2. CASE tx[t][x][g] = reserved[t][g] - released[t][g]
    BY <1>5, <2>1, <2>2 DEF LargerOf
  <2>3. CASE x = "janitor" /\ Returned(t, g)
    <3>1. released[t][g] = reserved[t][g] /\ tx[t][x][g] \in 0 .. reserved[t][g]
      BY <2>3 DEF Returned
    <3>2. tx[t][x][g] \in Nat
      BY <1>5, <3>1
    <3>. QED BY <1>5, <2>1, <2>3, <3>1, <3>2 DEF LargerOf
  <2>. QED BY <1>4, <2>2, <2>3
<1>7. released' \in [Tasks -> Amounts]
      /\ \A u \in Tasks : u # t => released'[u] = released[u]
  <2>1. [g \in Grants |-> released[t][g] + LargerOf(0, tx[t][x][g])] \in Amounts
    <3>1. \A g \in Grants : released'[t][g] = released[t][g] + LargerOf(0, tx[t][x][g])
      BY <1>2, <1>3
    <3>. QED BY <1>6, <3>1 DEF Amounts
  <2>. QED BY <1>2, <1>3, <2>1
<1>8. /\ \A u \in Tasks : u # t => keys'[u] = keys[u]
      /\ keys'[t] = keys[t] \cup KeysFor(x, tx[t][x])
  BY <1>2, <1>3
<1>9. \A g \in Grants : tx[t][x][g] > 0 => <<Trigger[x], g>> \in KeysFor(x, tx[t][x])
  BY DEF KeysFor, ReleaseRows
<1>. QED BY <1>1, <1>6, <1>7, <1>8, <1>9

LEMMA BillRowsChange ==
  ASSUME BaseInv, NEW t \in Tasks, SettleBill(t)
  PROVE  /\ UNCHANGED reserved
         /\ released' \in [Tasks -> Amounts] /\ debited' \in [Tasks -> Amounts]
         /\ \A u \in Tasks : u # t => released'[u] = released[u] /\ debited'[u] = debited[u]
         /\ \A g \in Grants :
              /\ debited'[t][g] >= debited[t][g]
              /\ released'[t][g] - released[t][g] >= debited'[t][g] - debited[t][g]
              /\ released'[t][g] <= reserved[t][g]
<1>1. ~Idle(t, "executor") /\ "executor" \in Settlers
  BY DEF SettleBill, Settlers
<1>0. /\ tx[t]["executor"] = Outstanding(t)
      /\ \A h \in Grants : released[t][h] <= reserved[t][h]
  BY <1>1, SettlementHolds
<1>2. PICK i \in DOMAIN DrawOrder :
        LET g == DrawOrder[i]
            rest == [Outstanding(t) EXCEPT ![g] = @ - 1]
        IN /\ tx[t]["executor"][g] >= 1
           /\ debited' = [debited EXCEPT ![t][g] = @ + 1]
           /\ \/ released' = [released EXCEPT ![t][g] = @ + 1]
              \/ released' = [released EXCEPT ![t] =
                   [h \in Grants |-> @[h] + LargerOf(0, rest[h])
                                          + (IF h = g THEN 1 ELSE 0)]]
  BY DEF SettleBill
<1> DEFINE g == DrawOrder[i]
           rest == [Outstanding(t) EXCEPT ![g] = @ - 1]
<1>3. g \in Grants
  BY GrantAssumption
<1>4. \A h \in Grants :
        /\ reserved[t][h] \in Nat /\ released[t][h] \in Nat /\ debited[t][h] \in Nat
        /\ reserved[t][h] - released[t][h] \in Nat
        /\ (h = g => reserved[t][h] - released[t][h] >= 1)
        /\ rest[h] = reserved[t][h] - released[t][h] - (IF h = g THEN 1 ELSE 0)
  <2>1. ASSUME NEW h \in Grants
        PROVE  /\ reserved[t][h] \in Nat /\ released[t][h] \in Nat
               /\ debited[t][h] \in Nat
               /\ reserved[t][h] - released[t][h] \in Nat
               /\ tx[t]["executor"][h] = reserved[t][h] - released[t][h]
    BY <1>0, AmountTypes DEF BaseInv
  <2>2. tx[t]["executor"][g] >= 1
    BY <1>2
  <2>3. \A h \in Grants :
          rest[h] = IF h = g THEN Outstanding(t)[h] - 1 ELSE Outstanding(t)[h]
    BY <1>3 DEF Outstanding
  <2>4. \A h \in Grants : Outstanding(t)[h] = reserved[t][h] - released[t][h]
    BY DEF Outstanding
  <2>. HIDE DEF g, rest
  <2>. QED BY <1>3, <2>1, <2>2, <2>3, <2>4
<1>5. /\ released \in [Tasks -> Amounts] /\ debited \in [Tasks -> Amounts]
      /\ UNCHANGED reserved
  BY DEF BaseInv, TypeOK, SettleBill
<1>. HIDE DEF g, rest
<1>6. /\ debited' \in [Tasks -> Amounts]
      /\ \A u \in Tasks : u # t => debited'[u] = debited[u]
      /\ \A h \in Grants : debited'[t][h] = debited[t][h] + (IF h = g THEN 1 ELSE 0)
  <2>1. debited' = [debited EXCEPT ![t][g] = @ + 1]
    BY <1>2 DEF g
  <2>. QED BY <1>3, <1>4, <1>5, <2>1 DEF Amounts
<1>7. CASE released' = [released EXCEPT ![t][g] = @ + 1]
  <2>1. /\ released' \in [Tasks -> Amounts]
        /\ \A u \in Tasks : u # t => released'[u] = released[u]
        /\ \A h \in Grants : released'[t][h] = released[t][h] + (IF h = g THEN 1 ELSE 0)
    BY <1>3, <1>4, <1>5, <1>7 DEF Amounts
  <2>. QED BY <1>4, <1>5, <1>6, <2>1
<1>8. CASE released' = [released EXCEPT ![t] =
              [h \in Grants |-> released[t][h] + LargerOf(0, rest[h])
                                   + (IF h = g THEN 1 ELSE 0)]]
  <2>1. \A h \in Grants : released[t][h] + LargerOf(0, rest[h])
                            + (IF h = g THEN 1 ELSE 0) = reserved[t][h]
    BY <1>4 DEF LargerOf
  <2>2. /\ released' \in [Tasks -> Amounts]
        /\ \A u \in Tasks : u # t => released'[u] = released[u]
        /\ \A h \in Grants : released'[t][h] = reserved[t][h]
    BY <1>4, <1>5, <1>8, <2>1 DEF Amounts
  <2>. QED BY <1>4, <1>5, <1>6, <2>2
<1>. QED BY <1>2, <1>7, <1>8 DEF g, rest

LEMMA BalanceType ==
  ASSUME TypeOK
  PROVE  /\ reserved \in [Tasks -> [Grants -> Int]]
         /\ released \in [Tasks -> [Grants -> Int]]
         /\ debited \in [Tasks -> [Grants -> Int]]
         /\ \A g \in Grants : Balance(g) \in Int
<1>1. /\ reserved \in [Tasks -> [Grants -> Int]]
      /\ released \in [Tasks -> [Grants -> Int]]
      /\ debited \in [Tasks -> [Grants -> Int]]
  BY DEF TypeOK, Amounts
<1>2. \A g \in Grants :
        Total(reserved, g) \in Int /\ Total(released, g) \in Int /\ Total(debited, g) \in Int
  BY <1>1, TotalType
<1>3. \A g \in Grants : Value[g] \in Nat
  BY GrantAssumption
<1>. QED BY <1>1, <1>2, <1>3 DEF Balance

\* The types, action by action.
LEMMA TypeStep ==
  ASSUME BaseInv, [Next]_vars
  PROVE  TypeOK'
<1>0. TypeOK
  BY DEF BaseInv
<1>1. ASSUME NEW p \in Planners, NEW t \in Tasks, BeginReserve(p, t)
      PROVE  TypeOK'
  <2>1. \A g \in Grants : Balance(g) \in Int
    BY <1>0, BalanceType
  <2>2. seenBalance' \in [Planners -> [Grants -> Int]]
    BY <1>0, <1>1, <2>1 DEF BeginReserve, TypeOK
  <2>. QED BY <1>0, <1>1, <2>2 DEF BeginReserve, TypeOK, sums
<1>2. ASSUME NEW p \in Planners, CommitReserve(p)
      PROVE  TypeOK'
  <2>1. Draw(seenBalance[p]) \in Amounts
    BY <1>0, DrawBounds DEF TypeOK
  <2>2. planning[p] \in Tasks
    BY <1>0, <1>2 DEF CommitReserve, TypeOK
  <2>3. reserved' \in [Tasks -> Amounts] /\ released' \in [Tasks -> Amounts]
    BY <1>0, <1>2, <2>1, <2>2 DEF CommitReserve, TypeOK
  <2>4. status' \in [Tasks -> Status]
    BY <1>0, <1>2, <2>2 DEF CommitReserve, TypeOK, Status
  <2>5. seenBalance' \in [Planners -> [Grants -> Int]]
    BY <1>0, <1>2 DEF CommitReserve, TypeOK, Nothing
  <2>. QED BY <1>0, <1>2, <2>3, <2>4, <2>5 DEF CommitReserve, TypeOK
<1>3. ASSUME NEW t \in Tasks, NEW x \in Settlers, BeginSettle(t, x)
      PROVE  TypeOK'
  <2>1. Outstanding(t) \in [Grants -> Int]
    BY <1>0 DEF TypeOK, Outstanding, Amounts
  <2>. QED BY <1>0, <1>3, <2>1 DEF BeginSettle, TypeOK, sums, planVars
<1>4. ASSUME NEW t \in Tasks, NEW x \in Settlers, SettleRelease(t, x)
      PROVE  TypeOK'
  <2>1. released' \in [Tasks -> Amounts]
    BY <1>4, ReleaseRowsChange DEF BaseInv
  <2>2. \A units : KeysFor(x, units) \subseteq Triggers \X Grants
    BY DEF KeysFor, ReleaseRows, Trigger, Triggers, Settlers
  <2>3. keys' \in [Tasks -> SUBSET (Triggers \X Grants)]
    BY <1>0, <1>4, <2>2 DEF SettleRelease, TypeOK
  <2>4. status' \in [Tasks -> Status]
    BY <1>0, <1>4 DEF SettleRelease, TypeOK, Status
  <2>5. tx' \in [Tasks -> [Settlers -> [Grants -> Int] \cup {NoTx}]]
    BY <1>0, <1>4 DEF SettleRelease, EndTx, TypeOK
  <2>. QED BY <1>0, <1>4, <2>1, <2>3, <2>4, <2>5 DEF SettleRelease, TypeOK, planVars
<1>5. ASSUME NEW t \in Tasks, SettleBill(t)
      PROVE  TypeOK'
  <2>1. released' \in [Tasks -> Amounts] /\ debited' \in [Tasks -> Amounts]
    BY <1>5, BillRowsChange
  <2>2. \A units : KeysFor("executor", units) \subseteq Triggers \X Grants
    BY DEF KeysFor, ReleaseRows, Trigger, Triggers, Settlers
  <2>3. keys' \in [Tasks -> SUBSET (Triggers \X Grants)]
    <3>1. keys' = keys \/ \E units : keys' = [keys EXCEPT ![t] = @ \cup KeysFor("executor", units)]
      BY <1>5 DEF SettleBill
    <3>. QED BY <1>0, <2>2, <3>1 DEF TypeOK
  <2>4. tx' \in [Tasks -> [Settlers -> [Grants -> Int] \cup {NoTx}]]
    BY <1>0, <1>5 DEF SettleBill, EndTx, TypeOK, Settlers
  <2>. QED BY <1>0, <1>5, <2>1, <2>3, <2>4 DEF SettleBill, TypeOK, planVars
<1>6. ASSUME NEW t \in Tasks, NEW x \in Settlers, RollBack(t, x)
      PROVE  TypeOK'
  BY <1>0, <1>6 DEF RollBack, EndTx, TypeOK, sums, planVars
<1>7. ASSUME NEW t \in Tasks, End(t)
      PROVE  TypeOK'
  BY <1>0, <1>7 DEF End, TypeOK, sums, planVars, Status
<1>8. CASE (\E g \in Grants : Expire(g)) \/ UNCHANGED vars
  BY <1>0, <1>8 DEF Expire, TypeOK, sums, planVars, vars
<1>. QED BY <1>1, <1>2, <1>3, <1>4, <1>5, <1>6, <1>7, <1>8 DEF Next

\* How the rows of a reservation change: only those of its task, which had none.
LEMMA ReserveRowsChange ==
  ASSUME BaseInv, NEW p \in Planners, CommitReserve(p)
  PROVE  \E t \in Tasks :
           /\ t = planning[p] /\ debited' = debited
           /\ \A u \in Tasks : u # t => reserved'[u] = reserved[u] /\ released'[u] = released[u]
           /\ \A g \in Grants :
                /\ debited[t][g] = 0 /\ released[t][g] = 0 /\ reserved[t][g] = 0
                /\ \/ reserved'[t][g] = 0 /\ released'[t][g] = 0
                   \/ /\ reserved'[t][g] \in Nat
                      /\ reserved'[t][g] <= LargerOf(0, seenBalance[p][g])
                      /\ released'[t][g] \in {0, reserved'[t][g]}
<1>0. TypeOK
  BY DEF BaseInv
<1>1. PICK t \in Tasks : t = planning[p]
  BY <1>0 DEF CommitReserve, TypeOK
<1>2. reserved[t] = Nothing /\ released[t] = Nothing
  BY <1>1 DEF BaseInv, SettlementInv
<1>3. \A g \in Grants : reserved[t][g] = 0 /\ released[t][g] = 0
  BY <1>2 DEF Nothing
<1>4. ASSUME NEW g \in Grants
      PROVE  debited[t][g] = 0
  <2>1. debited[t][g] <= released[t][g]
    BY DEF BaseInv, RowsOrdered
  <2>2. debited[t][g] \in Nat /\ released[t][g] = 0
    BY <1>0, <1>3, AmountTypes
  <2>. QED BY <2>1, <2>2
<1> DEFINE drawn == Draw(seenBalance[p])
<1>5. drawn \in Amounts /\ \A g \in Grants : drawn[g] <= LargerOf(0, seenBalance[p][g])
  BY <1>0, DrawBounds DEF TypeOK
<1>6. \/ reserved' = reserved /\ released' = released
      \/ /\ reserved' = [reserved EXCEPT ![t] = drawn]
         /\ released' = released \/ released' = [released EXCEPT ![t] = drawn]
  BY <1>1 DEF CommitReserve
<1>7. debited' = debited
  BY DEF CommitReserve
<1>. HIDE DEF drawn
<1>8. \A u \in Tasks : u # t => reserved'[u] = reserved[u] /\ released'[u] = released[u]
  BY <1>0, <1>6 DEF TypeOK
<1>9. \A g \in Grants :
        \/ reserved'[t][g] = 0 /\ released'[t][g] = 0
        \/ reserved'[t][g] = drawn[g] /\ released'[t][g] \in {0, drawn[g]}
  BY <1>0, <1>3, <1>6 DEF TypeOK
<1>. QED BY <1>1, <1>3, <1>4, <1>5, <1>7, <1>8, <1>9 DEF Amounts

\* One task's settlements, as the invariant describes them.
Settlement(t) ==
  /\ \A x \in Settlers \ {"janitor"} : ~Idle(t, x) => tx[t][x] = Outstanding(t)
  /\ ~Idle(t, "janitor") =>
       \A g \in Grants :
         tx[t]["janitor"][g] = Outstanding(t)[g] \/ Returned(t, g)
  /\ \A x, y \in Settlers \ {"janitor"} : ~Idle(t, x) /\ ~Idle(t, y) => x = y
  /\ ~Idle(t, "janitor") => status[t] = "ended"
  /\ ~Idle(t, "boundary") => status[t] \in {"open", "ended"}
  /\ ~Idle(t, "boundary") /\ ~Idle(t, "janitor") => t \in overlapped
  /\ \A x \in {"executor", "canceller"} : ~Idle(t, x) => status[t] = "open"
  /\ status[t] = "planned" =>
       reserved[t] = Nothing /\ released[t] = Nothing
  /\ \A p \in Planners : planning[p] = t => status[t] = "planned"
  /\ \A g \in Grants : released[t][g] > reserved[t][g] => status[t] = "ended"

\* A task keeps it that nobody touches, or of which only a settlement is given up.
LEMMA SettlementKept ==
  ASSUME NEW t \in Tasks, Settlement(t),
         \A x \in Settlers : tx'[t][x] \in {tx[t][x], NoTx},
         status'[t] = status[t], reserved'[t] = reserved[t],
         released'[t] = released[t], keys'[t] = keys[t],
         t \in overlapped => t \in overlapped',
         \A p \in Planners : planning'[p] = t => planning[p] = t
  PROVE  Settlement(t)'
<1>0. {"executor", "boundary", "canceller", "janitor"} = Settlers
  BY DEF Settlers
<1>1. \A x \in Settlers : ~Idle(t, x)' => ~Idle(t, x) /\ tx'[t][x] = tx[t][x]
  BY DEF Idle
<1>2. Outstanding(t)' = Outstanding(t)
  BY DEF Outstanding
<1>3. /\ \A x \in Settlers \ {"janitor"} : ~Idle(t, x)' => tx'[t][x] = Outstanding(t)'
      /\ \A x, y \in Settlers \ {"janitor"} : ~Idle(t, x)' /\ ~Idle(t, y)' => x = y
  BY <1>1, <1>2 DEF Settlement
<1>4. ~Idle(t, "janitor")' =>
         \A g \in Grants :
           tx'[t]["janitor"][g] = Outstanding(t)'[g] \/ Returned(t, g)'
  <2> SUFFICES ASSUME ~Idle(t, "janitor")', NEW g \in Grants
               PROVE  tx'[t]["janitor"][g] = Outstanding(t)'[g] \/ Returned(t, g)'
    OBVIOUS
  <2>1. ~Idle(t, "janitor") /\ tx'[t]["janitor"] = tx[t]["janitor"]
    BY <1>0, <1>1
  <2>2. tx[t]["janitor"][g] = Outstanding(t)[g] \/ Returned(t, g)
    BY <2>1 DEF Settlement
  <2>. QED BY <1>2, <2>1, <2>2 DEF Returned
<1>5. /\ ~Idle(t, "janitor")' => status'[t] = "ended"
      /\ ~Idle(t, "boundary")' => status'[t] \in {"open", "ended"}
      /\ ~Idle(t, "boundary")' /\ ~Idle(t, "janitor")' => t \in overlapped'
      /\ \A x \in {"executor", "canceller"} : ~Idle(t, x)' => status'[t] = "open"
  BY <1>0, <1>1 DEF Settlement
<1>6. /\ status'[t] = "planned" => reserved'[t] = Nothing /\ released'[t] = Nothing
      /\ \A p \in Planners : planning'[p] = t => status'[t] = "planned"
      /\ \A g \in Grants : released'[t][g] > reserved'[t][g] => status'[t] = "ended"
  BY DEF Settlement
<1>. QED BY <1>3, <1>4, <1>5, <1>6 DEF Settlement

\* A task whose settlements all ended keeps it.
LEMMA SettlementEnds ==
  ASSUME NEW t \in Tasks, \A x \in Settlers : tx'[t][x] = NoTx,
         status'[t] # "planned", \A p \in Planners : planning'[p] # t,
         \A g \in Grants : released'[t][g] > reserved'[t][g] => status'[t] = "ended"
  PROVE  Settlement(t)'
<1>1. \A x \in Settlers : Idle(t, x)'
  BY DEF Idle
<1>2. {"executor", "boundary", "canceller", "janitor"} = Settlers
  BY DEF Settlers
<1>. QED BY <1>1, <1>2 DEF Settlement

\* A task whose settlement begins keeps it.
LEMMA SettlementBegins ==
  ASSUME TypeOK, NEW t \in Tasks, Settlement(t), NEW x \in Settlers, BeginSettle(t, x)
  PROVE  Settlement(t)'
<1>0. {"executor", "boundary", "canceller", "janitor"} = Settlers
  BY DEF Settlers
<1>1. /\ tx' = [tx EXCEPT ![t][x] = Outstanding(t)] /\ MaySettle(t, x) /\ Idle(t, x)
      /\ UNCHANGED <<status, reserved, released, planning, keys>>
      /\ overlapped' =
           IF {x} \cup {y \in Settlers : ~Idle(t, y)} = {"boundary", "janitor"}
             THEN overlapped \cup {t} ELSE overlapped
  BY DEF BeginSettle, sums, planVars
<1>2. \A y \in Settlers : tx'[t][y] = IF y = x THEN Outstanding(t) ELSE tx[t][y]
  BY <1>1 DEF TypeOK
<1>3. Outstanding(t)' = Outstanding(t)
  BY <1>1 DEF Outstanding
<1>4. \A y \in Settlers : ~Idle(t, y)' => y = x \/ ~Idle(t, y)
  BY <1>2 DEF Idle
<1>5. t \in overlapped => t \in overlapped'
  BY <1>1
<1>6. \A y \in Settlers \ {"janitor"} : ~Idle(t, y)' => tx'[t][y] = Outstanding(t)'
  BY <1>2, <1>3, <1>4 DEF Settlement
<1>7. \A y \in Settlers \ {"janitor"} : x # "janitor" /\ y # x => Idle(t, y)
  <2>1. CASE x = "executor"
    BY <1>0, <1>1, <2>1 DEF MaySettle
  <2>2. CASE x = "boundary"
    BY <1>0, <1>1, <2>2 DEF MaySettle
  <2>3. CASE x = "canceller"
    BY <1>0, <1>1, <2>3 DEF MaySettle
  <2>. QED BY <1>0, <2>1, <2>2, <2>3
<1>8. \A y, z \in Settlers \ {"janitor"} : ~Idle(t, y)' /\ ~Idle(t, z)' => y = z
  BY <1>4, <1>7 DEF Settlement
<1>9. /\ x = "janitor" => status[t] = "ended"
      /\ x = "boundary" => status[t] \in {"open", "ended"}
      /\ x \in {"executor", "canceller"} => status[t] = "open"
  BY <1>1 DEF MaySettle
<1>10. /\ ~Idle(t, "janitor")' => status'[t] = "ended"
       /\ ~Idle(t, "boundary")' => status'[t] \in {"open", "ended"}
       /\ \A y \in {"executor", "canceller"} : ~Idle(t, y)' => status'[t] = "open"
  BY <1>0, <1>1, <1>4, <1>9 DEF Settlement
<1>11. ASSUME ~Idle(t, "boundary")', ~Idle(t, "janitor")'
       PROVE  t \in overlapped'
  <2>1. CASE x \notin {"boundary", "janitor"}
    <3>1. ~Idle(t, "boundary") /\ ~Idle(t, "janitor")
      BY <1>0, <1>4, <1>11, <2>1
    <3>. QED BY <1>5, <3>1 DEF Settlement
  <2>2. CASE x \in {"boundary", "janitor"}
    <3>1. status[t] = "ended"
      BY <1>1, <1>10, <1>11
    <3>2. Idle(t, "executor") /\ Idle(t, "canceller")
      BY <3>1 DEF Settlement
    <3>3. {x} \cup {y \in Settlers : ~Idle(t, y)} = {"boundary", "janitor"}
      BY <1>0, <1>1, <1>4, <1>11, <2>2, <3>2
    <3>. QED BY <1>1, <3>3
  <2>. QED BY <2>1, <2>2
<1>12. ASSUME ~Idle(t, "janitor")', NEW g \in Grants
       PROVE  tx'[t]["janitor"][g] = Outstanding(t)'[g] \/ Returned(t, g)'
  <2>1. CASE x = "janitor"
    BY <1>0, <1>2, <1>3, <2>1
  <2>2. CASE x # "janitor"
    <3>1. tx'[t]["janitor"] = tx[t]["janitor"] /\ ~Idle(t, "janitor")
      BY <1>0, <1>2, <1>4, <1>12, <2>2
    <3>2. tx[t]["janitor"][g] = Outstanding(t)[g] \/ Returned(t, g)
      BY <3>1 DEF Settlement
    <3>. QED BY <1>1, <1>3, <1>5, <3>1, <3>2 DEF Returned
  <2>. QED BY <2>1, <2>2
<1>13. /\ status'[t] = "planned" => reserved'[t] = Nothing /\ released'[t] = Nothing
       /\ \A p \in Planners : planning'[p] = t => status'[t] = "planned"
       /\ \A g \in Grants : released'[t][g] > reserved'[t][g] => status'[t] = "ended"
  BY <1>1 DEF Settlement
<1>. QED BY <1>6, <1>8, <1>10, <1>11, <1>12, <1>13 DEF Settlement

\* A task one of whose settlements releases keeps it.  When that is the boundary's,
\* what the janitor may have read is what it returned.
LEMMA SettlementReleases ==
  ASSUME BaseInv, NEW t \in Tasks, Settlement(t), NEW x \in Settlers,
         SettleRelease(t, x)
  PROVE  Settlement(t)'
<1>0. {"executor", "boundary", "canceller", "janitor"} = Settlers /\ TypeOK
  BY DEF Settlers, BaseInv
<1>1. /\ tx' = [tx EXCEPT ![t][x] = NoTx] /\ ~Idle(t, x) /\ x # "executor"
      /\ x = "janitor" => Idle(t, "boundary")
      /\ planning' = planning /\ overlapped' = overlapped
      /\ status' = IF x = "canceller" THEN [status EXCEPT ![t] = "ended"] ELSE status
  BY DEF SettleRelease, EndTx, planVars
<1>2. \A y \in Settlers : tx'[t][y] = IF y = x THEN NoTx ELSE tx[t][y]
  BY <1>0, <1>1 DEF TypeOK
<1>3. /\ status[t] \in {"open", "ended"}
      /\ status'[t] = IF x = "canceller" THEN "ended" ELSE status[t]
  <2>1. status[t] \in {"open", "ended"}
    BY <1>0, <1>1 DEF Settlement
  <2>. QED BY <1>0, <1>1, <2>1 DEF TypeOK
<1>4. \A p \in Planners : planning'[p] # t
  BY <1>1, <1>3 DEF Settlement
<1>5. CASE x # "boundary"
  <2>1. status'[t] = "ended"
    BY <1>0, <1>1, <1>3, <1>5 DEF Settlement
  <2>2. \A y \in Settlers : y # x => Idle(t, y)
    <3>1. CASE x = "janitor"
      <4>1. status[t] = "ended" /\ Idle(t, "boundary")
        BY <1>1, <3>1 DEF Settlement
      <4>2. Idle(t, "executor") /\ Idle(t, "canceller")
        BY <4>1 DEF Settlement
      <4>. QED BY <1>0, <3>1, <4>1, <4>2
    <3>2. CASE x # "janitor"
      BY <1>1, <1>5, <3>2, SettlementHolds
    <3>. QED BY <3>1, <3>2
  <2>3. \A y \in Settlers : tx'[t][y] = NoTx
    BY <1>2, <2>2 DEF Idle
  <2>. QED BY <1>4, <2>1, <2>3, SettlementEnds
<1>6. CASE x = "boundary"
  <2>1. /\ \A y \in Settlers : ~Idle(t, y)' => y = "janitor"
        /\ Idle(t, "executor") /\ Idle(t, "canceller")
    <3>1. \A y \in Settlers : ~Idle(t, y)' => y # "boundary" /\ ~Idle(t, y)
      BY <1>2, <1>6 DEF Idle
    <3>2. \A y \in Settlers \ {"janitor"} : ~Idle(t, y) => y = "boundary"
      BY <1>0, <1>1, <1>6 DEF Settlement
    <3>. QED BY <1>0, <3>1, <3>2
  <2>2. status'[t] = status[t] /\ tx[t]["boundary"] = Outstanding(t)
    BY <1>0, <1>1, <1>3, <1>6 DEF Settlement
  <2>3. ASSUME NEW g \in Grants
        PROVE  /\ reserved'[t][g] = reserved[t][g]
               /\ released'[t][g] = LargerOf(released[t][g], reserved[t][g])
               /\ reserved[t][g] \in Nat /\ released[t][g] \in Nat
               /\ Outstanding(t)[g] = reserved[t][g] - released[t][g]
               /\ Outstanding(t)'[g] = reserved[t][g] - released'[t][g]
               /\ keys[t] \subseteq keys'[t]
               /\ Outstanding(t)[g] > 0 => <<"unused", g>> \in keys'[t]
    <3>1. /\ reserved' = reserved /\ keys[t] \subseteq keys'[t]
          /\ released'[t][g] = LargerOf(released[t][g], reserved[t][g])
          /\ tx[t]["boundary"][g] > 0 => <<Trigger["boundary"], g>> \in keys'[t]
      BY <1>0, <1>6, ReleaseRowsChange
    <3>2. Trigger["boundary"] = "unused"
      BY <1>0 DEF Trigger
    <3>3. Outstanding(t)'[g] = reserved'[t][g] - released'[t][g]
      BY DEF Outstanding
    <3>. QED BY <1>0, <2>2, <3>1, <3>2, <3>3, AmountTypes
  <2>7. ASSUME NEW g \in Grants
        PROVE  /\ reserved[t][g] \in Nat /\ released[t][g] \in Nat
               /\ Outstanding(t)[g] > 0 =>
                    /\ released'[t][g] = reserved[t][g]
                    /\ reserved[t][g] - released[t][g] \in 0 .. reserved[t][g]
               /\ ~(Outstanding(t)[g] > 0) =>
                    /\ released'[t][g] = released[t][g]
                    /\ Outstanding(t)'[g] = Outstanding(t)[g]
               /\ released'[t][g] > reserved[t][g] => released[t][g] > reserved[t][g]
    <3> DEFINE r == reserved[t][g]  l == released[t][g]  m == released'[t][g]
               o == Outstanding(t)[g]  q == Outstanding(t)'[g]
    <3>1. /\ m = LargerOf(l, r) /\ r \in Nat /\ l \in Nat
          /\ o = r - l /\ q = r - m
      BY <2>3
    <3>. HIDE DEF r, l, m, o, q
    <3>2. /\ o > 0 => m = r /\ r - l \in 0 .. r
          /\ ~(o > 0) => m = l /\ q = o
          /\ m > r => l > r
      BY <3>1 DEF LargerOf
    <3>. QED BY <3>1, <3>2 DEF r, l, m, o, q
  <2>4. ASSUME ~Idle(t, "janitor")', NEW g \in Grants
        PROVE  tx'[t]["janitor"][g] = Outstanding(t)'[g] \/ Returned(t, g)'
    <3>1. /\ tx'[t]["janitor"] = tx[t]["janitor"] /\ ~Idle(t, "janitor")
          /\ t \in overlapped'
      <4>1. tx'[t]["janitor"] = tx[t]["janitor"] /\ ~Idle(t, "janitor")
        BY <1>0, <1>2, <1>6, <2>4 DEF Idle
      <4>. QED BY <1>1, <1>6, <4>1 DEF Settlement
    <3>2. tx[t]["janitor"][g] = Outstanding(t)[g] \/ Returned(t, g)
      BY <3>1 DEF Settlement
    <3>3. CASE Outstanding(t)[g] > 0
      <4>1. released[t][g] # reserved[t][g]
        <5>1. Outstanding(t)[g] = reserved[t][g] - released[t][g]
          BY <2>3
        <5>. QED BY <2>7, <3>3, <5>1
      <4>2. tx[t]["janitor"][g] = Outstanding(t)[g]
        BY <3>2, <4>1 DEF Returned
      <4>3. tx[t]["janitor"][g] \in 0 .. reserved[t][g]
        BY <2>3, <2>7, <3>3, <4>2
      <4>4. released'[t][g] = reserved'[t][g] /\ reserved'[t][g] = reserved[t][g]
        BY <2>3, <2>7, <3>3
      <4>5. tx'[t]["janitor"][g] \in 0 .. reserved'[t][g]
        BY <3>1, <4>3, <4>4
      <4>6. <<"unused", g>> \in keys'[t]
        BY <2>3, <3>3
      <4>. QED BY <3>1, <4>4, <4>5, <4>6 DEF Returned
    <3>4. CASE ~(Outstanding(t)[g] > 0)
      <4>1. /\ released'[t][g] = released[t][g] /\ Outstanding(t)'[g] = Outstanding(t)[g]
            /\ reserved'[t][g] = reserved[t][g] /\ keys[t] \subseteq keys'[t]
        BY <2>3, <2>7, <3>4
      <4>. QED BY <3>1, <3>2, <4>1 DEF Returned
    <3>. QED BY <3>3, <3>4
  <2>5. ASSUME NEW g \in Grants, released'[t][g] > reserved'[t][g]
        PROVE  status'[t] = "ended"
    <3>1. reserved'[t][g] = reserved[t][g]
      BY <2>3
    <3>2. released[t][g] > reserved[t][g]
      BY <2>5, <2>7, <3>1
    <3>. QED BY <2>2, <3>2 DEF Settlement
  <2>6. ~Idle(t, "janitor")' => status'[t] = "ended"
    BY <1>0, <1>2, <1>6, <2>2 DEF Settlement, Idle
  <2>. QED BY <1>0, <1>3, <1>4, <2>1, <2>2, <2>4, <2>5, <2>6 DEF Settlement
<1>. QED BY <1>5, <1>6

LEMMA SettlementStep ==
  ASSUME BaseInv, [Next]_vars
  PROVE  SettlementInv' /\ PlannedOnce'
<1>0. TypeOK /\ TypeOK' /\ PlannedOnce /\ \A t \in Tasks : Settlement(t)
  BY TypeStep DEF BaseInv, SettlementInv, Settlement
<1> DEFINE Ok == (\A t \in Tasks : Settlement(t)') /\ PlannedOnce'
<1>s. SUFFICES Ok
  BY DEF SettlementInv, Settlement
<1>a. {"executor", "boundary", "canceller", "janitor"} = Settlers
  BY DEF Settlers
<1>1. ASSUME NEW p \in Planners, NEW t \in Tasks, BeginReserve(p, t)
      PROVE  Ok
  <2>1. /\ planning' = [planning EXCEPT ![p] = t] /\ status[t] = "planned"
        /\ \A q \in Planners : planning[q] # t
        /\ UNCHANGED <<status, reserved, released, tx, keys, overlapped>>
    BY <1>1 DEF BeginReserve, sums
  <2>2. PlannedOnce'
    BY <1>0, <2>1 DEF PlannedOnce, TypeOK
  <2>3. ASSUME NEW u \in Tasks
        PROVE  Settlement(u)'
    <3>1. \A q \in Planners : planning'[q] = u => status[u] = "planned"
      BY <1>0, <2>1 DEF Settlement, TypeOK
    <3>. QED BY <1>0, <2>1, <3>1 DEF Settlement, Idle, Outstanding, Returned
  <2>. QED BY <2>2, <2>3
<1>2. ASSUME NEW p \in Planners, CommitReserve(p)
      PROVE  Ok
  <2>0. PICK t \in Tasks : t = planning[p] /\ \A g \in Grants :
                             ~(released'[t][g] > reserved'[t][g])
    <3>1. PICK t \in Tasks :
            /\ t = planning[p]
            /\ \A g \in Grants :
                 \/ reserved'[t][g] = 0 /\ released'[t][g] = 0
                 \/ /\ reserved'[t][g] \in Nat
                    /\ released'[t][g] \in {0, reserved'[t][g]}
      BY <1>2, ReserveRowsChange
    <3>. QED BY <3>1
  <2>1. /\ t = planning[p] /\ t # NoTask
        /\ UNCHANGED <<tx, keys, overlapped>>
        /\ planning' = [planning EXCEPT ![p] = NoTask]
        /\ status'[t] \in {"refused", "open", "byok"}
        /\ \A u \in Tasks : u # t => /\ status'[u] = status[u]
                                     /\ reserved'[u] = reserved[u]
                                     /\ released'[u] = released[u]
    BY <1>0, <1>2, <2>0 DEF CommitReserve, TypeOK
  <2>2. \A q \in Planners : planning'[q] # t /\ (planning'[q] # NoTask => planning'[q] = planning[q])
    BY <1>0, <2>1 DEF PlannedOnce, TypeOK
  <2>3. PlannedOnce'
    BY <1>0, <2>2 DEF PlannedOnce
  <2>4. status[t] = "planned"
    BY <1>0, <2>1 DEF Settlement
  <2>5. \A x \in Settlers : tx[t][x] = NoTx
    <3>1. \A x \in Settlers : ~Idle(t, x) => status[t] \in {"ended", "open"}
      BY <1>0, <1>a, <2>1 DEF Settlement
    <3>. QED BY <2>4, <3>1 DEF Idle
  <2>6. Settlement(t)'
    <3>1. /\ \A x \in Settlers : tx'[t][x] = NoTx
          /\ status'[t] # "planned" /\ \A q \in Planners : planning'[q] # t
      BY <2>1, <2>2, <2>5
    <3>. QED BY <2>0, <3>1, SettlementEnds
  <2>7. ASSUME NEW u \in Tasks, u # t
        PROVE  Settlement(u)'
    <3>1. \A q \in Planners : planning'[q] = u => planning[q] = u
      BY <2>2, GrantAssumption
    <3>. QED BY <1>0, <2>1, <2>7, <3>1, SettlementKept
  <2>. QED BY <2>3, <2>6, <2>7
<1>3. ASSUME NEW t \in Tasks, NEW x \in Settlers, BeginSettle(t, x)
      PROVE  Ok
  <2>1. /\ tx' = [tx EXCEPT ![t][x] = Outstanding(t)]
        /\ UNCHANGED <<status, reserved, released, planning, keys>>
        /\ overlapped \subseteq overlapped'
    BY <1>3 DEF BeginSettle, sums, planVars
  <2>2. Settlement(t)'
    BY <1>0, <1>3, SettlementBegins
  <2>3. ASSUME NEW u \in Tasks, u # t
        PROVE  Settlement(u)'
    <3>1. tx'[u] = tx[u]
      BY <1>0, <2>1, <2>3 DEF TypeOK
    <3>. QED BY <1>0, <2>1, <3>1, SettlementKept
  <2>. QED BY <1>0, <2>1, <2>2, <2>3 DEF PlannedOnce
<1>4. ASSUME NEW t \in Tasks, NEW x \in Settlers, SettleRelease(t, x)
      PROVE  Ok
  <2>1. /\ tx' = [tx EXCEPT ![t][x] = NoTx] /\ planning' = planning
        /\ overlapped' = overlapped
        /\ \A u \in Tasks : u # t => status'[u] = status[u]
    BY <1>0, <1>4 DEF SettleRelease, EndTx, planVars, TypeOK
  <2>2. /\ reserved' = reserved
        /\ \A u \in Tasks : u # t => released'[u] = released[u] /\ keys'[u] = keys[u]
    BY <1>4, ReleaseRowsChange
  <2>3. Settlement(t)'
    BY <1>0, <1>4, SettlementReleases
  <2>4. ASSUME NEW u \in Tasks, u # t
        PROVE  Settlement(u)'
    <3>1. tx'[u] = tx[u]
      BY <1>0, <2>1, <2>4 DEF TypeOK
    <3>. QED BY <1>0, <2>1, <2>2, <2>4, <3>1, SettlementKept
  <2>. QED BY <1>0, <2>1, <2>3, <2>4 DEF PlannedOnce
<1>5. ASSUME NEW t \in Tasks, SettleBill(t)
      PROVE  Ok
  <2>1. /\ tx' = [tx EXCEPT ![t]["executor"] = NoTx] /\ ~Idle(t, "executor")
        /\ UNCHANGED <<planning, status, overlapped, reserved>>
        /\ \A u \in Tasks : u # t => keys'[u] = keys[u]
    BY <1>0, <1>5 DEF SettleBill, EndTx, planVars, TypeOK
  <2>2. /\ \A u \in Tasks : u # t => released'[u] = released[u]
        /\ \A g \in Grants : released'[t][g] <= reserved[t][g]
    BY <1>5, BillRowsChange
  <2>3. /\ status[t] = "open" /\ \A y \in Settlers : y # "executor" => Idle(t, y)
    BY <1>a, <2>1, SettlementHolds
  <2>4. \A y \in Settlers : tx'[t][y] = NoTx
    BY <1>0, <1>a, <2>1, <2>3 DEF TypeOK, Idle
  <2>5. \A p \in Planners : planning'[p] # t
    BY <1>0, <2>1, <2>3 DEF Settlement
  <2>6. \A g \in Grants : ~(released'[t][g] > reserved'[t][g])
    <3>1. \A g \in Grants : released'[t][g] \in Nat /\ reserved'[t][g] \in Nat
      BY <1>0 DEF TypeOK, Amounts
    <3>. QED BY <2>1, <2>2, <3>1
  <2>7. Settlement(t)'
    BY <2>1, <2>3, <2>4, <2>5, <2>6, SettlementEnds
  <2>8. ASSUME NEW u \in Tasks, u # t
        PROVE  Settlement(u)'
    <3>1. tx'[u] = tx[u]
      BY <1>0, <2>1, <2>8 DEF TypeOK
    <3>. QED BY <1>0, <2>1, <2>2, <2>8, <3>1, SettlementKept
  <2>. QED BY <1>0, <2>1, <2>7, <2>8 DEF PlannedOnce
<1>6. ASSUME NEW t \in Tasks, NEW x \in Settlers, RollBack(t, x)
      PROVE  Ok
  <2>1. /\ tx' = [tx EXCEPT ![t][x] = NoTx]
        /\ UNCHANGED <<status, reserved, released, planning, keys, overlapped>>
    BY <1>6 DEF RollBack, EndTx, sums, planVars
  <2>2. \A u \in Tasks : \A y \in Settlers : tx'[u][y] \in {tx[u][y], NoTx}
    BY <1>0, <2>1 DEF TypeOK
  <2>3. ASSUME NEW u \in Tasks
        PROVE  Settlement(u)'
    BY <1>0, <2>1, <2>2, SettlementKept
  <2>. QED BY <1>0, <2>1, <2>3 DEF PlannedOnce
<1>7. ASSUME NEW t \in Tasks, End(t)
      PROVE  Ok
  <2>1. /\ status' = [status EXCEPT ![t] = "ended"] /\ status[t] = "open"
        /\ UNCHANGED <<tx, reserved, released, planning, keys, overlapped>>
        /\ Idle(t, "executor") /\ Idle(t, "canceller")
    BY <1>7 DEF End, sums, planVars
  <2>2. Settlement(t) /\ status'[t] = "ended" /\ Idle(t, "janitor")
    BY <1>0, <2>1 DEF Settlement, TypeOK
  <2>3. \A p \in Planners : planning'[p] # t
    BY <2>1, <2>2 DEF Settlement
  <2>4. Settlement(t)'
    BY <1>a, <2>1, <2>2, <2>3 DEF Settlement, Idle, Outstanding, Returned
  <2>5. ASSUME NEW u \in Tasks, u # t
        PROVE  Settlement(u)'
    BY <1>0, <2>1, <2>5, SettlementKept DEF TypeOK
  <2>. QED BY <1>0, <2>1, <2>4, <2>5 DEF PlannedOnce
<1>8. CASE UNCHANGED <<status, sums, planVars, tx, overlapped>>
  <2>1. UNCHANGED <<status, reserved, released, planning, tx, keys, overlapped>>
    BY <1>8 DEF sums, planVars
  <2>2. ASSUME NEW u \in Tasks
        PROVE  Settlement(u)'
    BY <1>0, <2>1, SettlementKept
  <2>. QED BY <1>0, <2>1, <2>2 DEF PlannedOnce
<1>. QED
  BY <1>1, <1>2, <1>3, <1>4, <1>5, <1>6, <1>7, <1>8 DEF Next, Expire, vars

LEMMA RowsStep ==
  ASSUME BaseInv, [Next]_vars
  PROVE  RowsOrdered'
<1>0. /\ \A t \in Tasks, g \in Grants :
           /\ reserved[t][g] \in Nat /\ released[t][g] \in Nat /\ debited[t][g] \in Nat
           /\ reserved'[t][g] \in Nat /\ released'[t][g] \in Nat /\ debited'[t][g] \in Nat
      /\ RowsOrdered
  BY TypeStep DEF BaseInv, TypeOK, Amounts
<1>1. ASSUME NEW p \in Planners, CommitReserve(p)
      PROVE  RowsOrdered'
  <2>1. PICK t \in Tasks :
          /\ debited' = debited
          /\ \A u \in Tasks : u # t => reserved'[u] = reserved[u] /\ released'[u] = released[u]
          /\ \A g \in Grants : debited[t][g] = 0
          /\ \A g \in Grants : released'[t][g] \in {0, reserved'[t][g]}
    BY <1>1, ReserveRowsChange
  <2>2. UNCHANGED <<keys, overlapped>>
    BY <1>1 DEF CommitReserve
  <2>3. ASSUME NEW u \in Tasks, NEW g \in Grants
        PROVE  debited'[u][g] <= released'[u][g] /\ TwiceAtMost(u, g)'
    <3>1. debited[u][g] <= released[u][g] /\ TwiceAtMost(u, g)
      BY <1>0 DEF RowsOrdered
    <3>2. CASE u # t
      BY <2>1, <2>2, <3>1, <3>2 DEF TwiceAtMost
    <3>3. CASE u = t
      BY <1>0, <2>1, <3>3 DEF TwiceAtMost
    <3>. QED BY <3>2, <3>3
  <2>. QED BY <2>3 DEF RowsOrdered
<1>2. ASSUME NEW t \in Tasks, NEW x \in Settlers, SettleRelease(t, x)
      PROVE  RowsOrdered'
  <2>1. /\ UNCHANGED <<reserved, debited, overlapped>>
        /\ \A u \in Tasks : u # t => released'[u] = released[u] /\ keys'[u] = keys[u]
        /\ keys[t] \subseteq keys'[t]
    BY <1>2, ReleaseRowsChange DEF SettleRelease
  <2>2. ASSUME NEW g \in Grants
        PROVE  debited'[t][g] <= released'[t][g] /\ TwiceAtMost(t, g)'
    <3>0. debited[t][g] <= released[t][g] /\ TwiceAtMost(t, g)
      BY <1>0 DEF RowsOrdered
    <3>1. CASE released'[t][g] = LargerOf(released[t][g], reserved[t][g])
      <4>1. /\ released'[t][g] >= released[t][g]
            /\ released'[t][g] > reserved[t][g] => released'[t][g] = released[t][g]
        BY <1>0, <3>1 DEF LargerOf
      <4>. QED BY <1>0, <2>1, <3>0, <4>1 DEF TwiceAtMost
    <3>2. CASE /\ x = "janitor" /\ Returned(t, g)
               /\ released'[t][g] = reserved[t][g] + tx[t][x][g]
      <4>1. /\ t \in overlapped /\ <<"unused", g>> \in keys[t]
            /\ released[t][g] = reserved[t][g]
            /\ tx[t][x][g] \in 0 .. reserved[t][g]
        BY <3>2 DEF Returned
      <4>2. tx[t][x][g] \in Nat /\ tx[t][x][g] <= reserved[t][g]
        BY <1>0, <4>1
      <4>3. tx[t][x][g] > 0 => <<"janitor", g>> \in keys'[t]
        <5>1. Trigger["janitor"] = "janitor"
          BY DEF Trigger, Settlers
        <5>2. tx[t][x][g] > 0 => <<Trigger[x], g>> \in keys'[t]
          BY <1>2, ReleaseRowsChange
        <5>. QED BY <3>2, <5>1, <5>2
      <4>4. /\ debited'[t][g] <= released'[t][g]
            /\ released'[t][g] > reserved'[t][g] => tx[t][x][g] > 0
            /\ released'[t][g] <= 2 * reserved'[t][g]
        BY <1>0, <2>1, <3>0, <3>2, <4>1, <4>2
      <4>. QED BY <2>1, <4>1, <4>3, <4>4 DEF TwiceAtMost
    <3>. QED BY <1>2, <3>1, <3>2, ReleaseRowsChange
  <2>3. ASSUME NEW u \in Tasks, u # t, NEW g \in Grants
        PROVE  debited'[u][g] <= released'[u][g] /\ TwiceAtMost(u, g)'
    <3>1. debited[u][g] <= released[u][g] /\ TwiceAtMost(u, g)
      BY <1>0 DEF RowsOrdered
    <3>. QED BY <2>1, <2>3, <3>1 DEF TwiceAtMost
  <2>. QED BY <2>2, <2>3 DEF RowsOrdered
<1>3. ASSUME NEW t \in Tasks, SettleBill(t)
      PROVE  RowsOrdered'
  <2>1. /\ reserved' = reserved
        /\ \A u \in Tasks : u # t => released'[u] = released[u] /\ debited'[u] = debited[u]
        /\ \A g \in Grants :
             /\ released'[t][g] - released[t][g] >= debited'[t][g] - debited[t][g]
             /\ released'[t][g] <= reserved[t][g]
    BY <1>3, BillRowsChange
  <2>2. ASSUME NEW g \in Grants
        PROVE  debited'[t][g] <= released'[t][g] /\ TwiceAtMost(t, g)'
    <3>1. debited[t][g] <= released[t][g]
      BY <1>0 DEF RowsOrdered
    <3>2. debited'[t][g] <= released'[t][g] /\ ~(released'[t][g] > reserved'[t][g])
      BY <1>0, <2>1, <3>1
    <3>. QED BY <3>2 DEF TwiceAtMost
  <2>3. overlapped' = overlapped /\ \A u \in Tasks : u # t => keys'[u] = keys[u]
    BY <1>3 DEF SettleBill, BaseInv, TypeOK
  <2>4. ASSUME NEW u \in Tasks, u # t, NEW g \in Grants
        PROVE  debited'[u][g] <= released'[u][g] /\ TwiceAtMost(u, g)'
    <3>1. debited[u][g] <= released[u][g] /\ TwiceAtMost(u, g)
      BY <1>0 DEF RowsOrdered
    <3>. QED BY <2>1, <2>3, <2>4, <3>1 DEF TwiceAtMost
  <2>. QED BY <2>2, <2>4 DEF RowsOrdered
<1>4. CASE UNCHANGED sums /\ overlapped \subseteq overlapped'
  BY <1>0, <1>4 DEF sums, RowsOrdered, TwiceAtMost
<1>5. ASSUME NEW t \in Tasks, NEW x \in Settlers, BeginSettle(t, x)
      PROVE  UNCHANGED sums /\ overlapped \subseteq overlapped'
  BY <1>5 DEF BeginSettle
<1>. QED
  BY <1>1, <1>2, <1>3, <1>4, <1>5
  DEF Next, BeginReserve, RollBack, End, Expire, vars

LEMMA BaseInvHolds == Spec => []BaseInv
<1>1. BaseInv /\ [Next]_vars => BaseInv'
  BY TypeStep, SettlementStep, RowsStep DEF BaseInv
<1>. QED BY <1>1, BaseInit, PTL DEF Spec

\* The sums keep their types, and so do the settlements under way.
THEOREM TypeCorrect == Spec => []TypeOK
<1>1. BaseInv => TypeOK
  BY DEF BaseInv
<1>. QED BY <1>1, BaseInvHolds, PTL

\* Whatever settles a task, and whoever holds no lock of it: a unit is returned a
\* second time only by a boundary and the janitor that both found it reserved, and
\* then once more at most.
THEOREM ReleasesAreAccounted == Spec => []ReleasesAccounted
<1>1. BaseInv => ReleasesAccounted
  BY DEF BaseInv, RowsOrdered, TwiceAtMost, ReleasesAccounted
<1>. QED BY <1>1, BaseInvHolds, PTL

-----------------------------------------------------------------------------
\* No overdraft.  What a planner has read of a grant it may draw on is no more
\* than the grant has: its lock keeps other planners out, and settlements only
\* give back.

Solvent == \A g \in Grants : Balance(g) >= 0

SeenInv ==
  \A p \in Planners, g \in Grants :
    planning[p] # NoTask =>
      \/ seenBalance[p][g] = 0
      \/ lock[g] = p /\ seenBalance[p][g] <= Balance(g)

\* The rows of one task change the balances by what they hold.
LEMMA BalanceChange ==
  ASSUME TypeOK, TypeOK', NEW t \in Tasks, NEW g \in Grants,
         \A u \in Tasks : u # t => /\ reserved'[u] = reserved[u]
                                  /\ released'[u] = released[u]
                                  /\ debited'[u] = debited[u]
  PROVE  Balance(g)' = Balance(g) - (reserved'[t][g] - reserved[t][g])
                                  + (released'[t][g] - released[t][g])
                                  - (debited'[t][g] - debited[t][g])
<1>1. /\ reserved \in [Tasks -> [Grants -> Int]] /\ reserved' \in [Tasks -> [Grants -> Int]]
      /\ released \in [Tasks -> [Grants -> Int]] /\ released' \in [Tasks -> [Grants -> Int]]
      /\ debited \in [Tasks -> [Grants -> Int]] /\ debited' \in [Tasks -> [Grants -> Int]]
  BY DEF TypeOK, Amounts
<1>2. Total(reserved', g) = Total(reserved, g) + (reserved'[t][g] - reserved[t][g])
  BY <1>1, TotalUpdate
<1>3. Total(released', g) = Total(released, g) + (released'[t][g] - released[t][g])
  BY <1>1, TotalUpdate
<1>4. Total(debited', g) = Total(debited, g) + (debited'[t][g] - debited[t][g])
  BY <1>1, TotalUpdate
<1>5. /\ Total(reserved, g) \in Int /\ Total(released, g) \in Int /\ Total(debited, g) \in Int
      /\ Value[g] \in Int
  <2>1. Value[g] \in Int
    BY GrantAssumption
  <2>. QED BY <1>1, <2>1, TotalType
<1>6. /\ reserved'[t][g] - reserved[t][g] \in Int /\ released'[t][g] - released[t][g] \in Int
      /\ debited'[t][g] - debited[t][g] \in Int
  BY <1>1
<1>7. Balance(g)' = Value[g] - Total(reserved', g) + Total(released', g) - Total(debited', g)
  BY DEF Balance, Total
<1>. QED BY <1>2, <1>3, <1>4, <1>5, <1>6, <1>7 DEF Balance

\* A settlement takes nothing from any grant.
LEMMA SettlementGivesBack ==
  ASSUME BaseInv, TypeOK', NEW t \in Tasks, NEW x \in Settlers,
         SettleRelease(t, x) \/ SettleBill(t), NEW g \in Grants
  PROVE  Balance(g)' >= Balance(g)
<1>1. /\ \A u \in Tasks : u # t => /\ reserved'[u] = reserved[u]
                                  /\ released'[u] = released[u]
                                  /\ debited'[u] = debited[u]
      /\ reserved'[t][g] = reserved[t][g]
      /\ released'[t][g] - released[t][g] >= debited'[t][g] - debited[t][g]
  <2>1. CASE SettleRelease(t, x)
    <3>1. debited' = debited /\ reserved' = reserved
      BY <2>1, ReleaseRowsChange
    <3>2. \A u \in Tasks : u # t => released'[u] = released[u]
      BY <2>1, ReleaseRowsChange
    <3>3. /\ reserved[t][g] \in Nat /\ released[t][g] \in Nat /\ debited[t][g] \in Nat
      BY DEF BaseInv, TypeOK, Amounts
    <3>4. released'[t][g] >= released[t][g]
      <4>1. CASE released'[t][g] = LargerOf(released[t][g], reserved[t][g])
        BY <3>3, <4>1 DEF LargerOf
      <4>2. CASE /\ Returned(t, g) /\ x = "janitor"
                 /\ released'[t][g] = reserved[t][g] + tx[t][x][g]
        <5>1. released[t][g] = reserved[t][g] /\ tx[t][x][g] \in 0 .. reserved[t][g]
          BY <4>2 DEF Returned
        <5>2. tx[t][x][g] \in Nat
          BY <3>3, <5>1
        <5>. QED BY <3>3, <4>2, <5>1, <5>2
      <4>. QED BY <2>1, <4>1, <4>2, ReleaseRowsChange
    <3>5. released'[t][g] \in Int
      BY DEF TypeOK, Amounts
    <3>. QED BY <3>1, <3>2, <3>3, <3>4, <3>5
  <2>2. CASE SettleBill(t)
    BY <2>2, BillRowsChange
  <2>. QED BY <2>1, <2>2
<1>2. /\ reserved[t][g] \in Int /\ released[t][g] \in Int /\ debited[t][g] \in Int
      /\ released'[t][g] \in Int /\ debited'[t][g] \in Int
  BY DEF BaseInv, TypeOK, Amounts
<1>3. Balance(g) \in Int
  BY BalanceType DEF BaseInv
<1>4. Balance(g)' = Balance(g) - (reserved'[t][g] - reserved[t][g])
                               + (released'[t][g] - released[t][g])
                               - (debited'[t][g] - debited[t][g])
  BY <1>1, BalanceChange DEF BaseInv
<1>. QED BY <1>1, <1>2, <1>3, <1>4

LEMMA SolventStep ==
  ASSUME BaseInv, SeenInv, Solvent, TypeOK', PlannedOnce', [Next]_vars
  PROVE  Solvent' /\ SeenInv'
<1>0. TypeOK /\ \A g \in Grants : Balance(g) \in Int /\ Balance(g)' \in Int
  <2>1. /\ reserved' \in [Tasks -> [Grants -> Int]] /\ released' \in [Tasks -> [Grants -> Int]]
        /\ debited' \in [Tasks -> [Grants -> Int]]
    BY DEF TypeOK, Amounts
  <2>2. ASSUME NEW g \in Grants
        PROVE  Balance(g)' \in Int
    <3>1. /\ Total(reserved', g) \in Int /\ Total(released', g) \in Int
          /\ Total(debited', g) \in Int
      BY <2>1, TotalType
    <3>2. Value[g] \in Int
      BY GrantAssumption
    <3>3. Balance(g)' = Value[g] - Total(reserved', g) + Total(released', g) - Total(debited', g)
      BY DEF Balance, Total
    <3>. QED BY <3>1, <3>2, <3>3
  <2>. QED BY <2>2, BalanceType DEF BaseInv
<1>1. ASSUME \A g \in Grants : Balance(g)' >= Balance(g),
             UNCHANGED <<lock, planning, seenBalance>>
      PROVE  Solvent' /\ SeenInv'
  <2>1. \A p \in Planners, g \in Grants : seenBalance[p][g] \in Int
    BY <1>0 DEF TypeOK
  <2>2. Solvent'
    BY <1>0, <1>1 DEF Solvent
  <2>3. SeenInv'
    <3> SUFFICES ASSUME NEW p \in Planners, NEW g \in Grants, planning[p] # NoTask
                 PROVE  \/ seenBalance[p][g] = 0
                        \/ lock[g] = p /\ seenBalance[p][g] <= Balance(g)'
      BY <1>1 DEF SeenInv
    <3>1. \/ seenBalance[p][g] = 0
          \/ lock[g] = p /\ seenBalance[p][g] <= Balance(g)
      BY DEF SeenInv
    <3>. QED BY <1>0, <1>1, <2>1, <3>1
  <2>. QED BY <2>2, <2>3
<1>2. CASE UNCHANGED <<sums, planVars>>
  <2>1. \A g \in Grants : Balance(g)' = Balance(g)
    BY <1>2 DEF Balance, Total, sums
  <2>. QED BY <1>0, <1>1, <1>2, <2>1 DEF planVars
<1>3. ASSUME NEW t \in Tasks, NEW x \in Settlers, SettleRelease(t, x) \/ SettleBill(t)
      PROVE  Solvent' /\ SeenInv'
  <2>1. UNCHANGED <<lock, planning, seenBalance>>
    BY <1>3 DEF SettleRelease, SettleBill, planVars
  <2>2. \A g \in Grants : Balance(g)' >= Balance(g)
    BY <1>3, SettlementGivesBack
  <2>. QED BY <1>1, <2>1, <2>2
<1>4. ASSUME NEW p \in Planners, NEW t \in Tasks, BeginReserve(p, t)
      PROVE  Solvent' /\ SeenInv'
  <2>1. \A g \in Grants : Balance(g)' = Balance(g)
    BY <1>4 DEF Balance, Total, sums, BeginReserve
  <2>2. Solvent'
    BY <2>1 DEF Solvent
  <2>3. /\ lock' = [g \in Grants |-> IF g \in active THEN p ELSE lock[g]]
        /\ planning' = [planning EXCEPT ![p] = t]
        /\ seenBalance' = [seenBalance EXCEPT ![p] =
             [g \in Grants |-> IF g \in active THEN Balance(g) ELSE 0]]
        /\ \A g \in active : lock[g] = Free
    BY <1>4 DEF BeginReserve
  <2>4. ASSUME NEW q \in Planners, NEW g \in Grants, planning'[q] # NoTask
        PROVE  \/ seenBalance'[q][g] = 0
               \/ lock'[g] = q /\ seenBalance'[q][g] <= Balance(g)
    <3>1. CASE q = p
      BY <1>0, <2>3, <3>1 DEF TypeOK
    <3>2. CASE q # p
      <4>1. planning[q] # NoTask /\ seenBalance'[q] = seenBalance[q]
        BY <1>0, <2>3, <2>4, <3>2 DEF TypeOK
      <4>2. lock[g] = q => lock'[g] = q
        BY <2>3, GrantAssumption
      <4>. QED BY <4>1, <4>2 DEF SeenInv
    <3>. QED BY <3>1, <3>2
  <2>5. SeenInv'
    BY <2>1, <2>4 DEF SeenInv
  <2>. QED BY <2>2, <2>5
<1>5. ASSUME NEW p \in Planners, CommitReserve(p)
      PROVE  Solvent' /\ SeenInv'
  <2>1. PICK t \in Tasks :
          /\ t = planning[p] /\ debited' = debited
          /\ \A u \in Tasks : u # t => reserved'[u] = reserved[u] /\ released'[u] = released[u]
          /\ \A g \in Grants :
               /\ debited[t][g] = 0 /\ released[t][g] = 0 /\ reserved[t][g] = 0
               /\ \/ reserved'[t][g] = 0 /\ released'[t][g] = 0
                  \/ /\ reserved'[t][g] \in Nat
                     /\ reserved'[t][g] <= LargerOf(0, seenBalance[p][g])
                     /\ released'[t][g] \in {0, reserved'[t][g]}
    BY <1>5, ReserveRowsChange
  <2>2. planning[p] # NoTask
    BY <2>1, GrantAssumption
  <2>3. ASSUME NEW g \in Grants
        PROVE  /\ Balance(g)' >= 0
               /\ Balance(g)' >= Balance(g) \/ lock[g] = p
    <3>1. Balance(g)' = Balance(g) - (reserved'[t][g] - reserved[t][g])
                                   + (released'[t][g] - released[t][g])
                                   - (debited'[t][g] - debited[t][g])
      BY <1>0, <2>1, BalanceChange
    <3>2. Balance(g)' = Balance(g) - reserved'[t][g] + released'[t][g]
      BY <1>0, <2>1, <3>1 DEF TypeOK, Amounts
    <3>3. Balance(g) >= 0 /\ Balance(g) \in Int /\ seenBalance[p][g] \in Int
      BY <1>0 DEF Solvent, TypeOK
    <3>4. \/ seenBalance[p][g] = 0
          \/ lock[g] = p /\ seenBalance[p][g] <= Balance(g)
      BY <2>2 DEF SeenInv
    <3>5. CASE reserved'[t][g] = 0 /\ released'[t][g] = 0
      BY <3>2, <3>3, <3>5
    <3>6. CASE /\ reserved'[t][g] \in Nat
               /\ reserved'[t][g] <= LargerOf(0, seenBalance[p][g])
               /\ released'[t][g] \in {0, reserved'[t][g]}
      <4>1. CASE seenBalance[p][g] = 0
        BY <3>2, <3>3, <3>6, <4>1 DEF LargerOf
      <4>2. CASE lock[g] = p /\ seenBalance[p][g] <= Balance(g)
        BY <3>2, <3>3, <3>6, <4>2 DEF LargerOf
      <4>. QED BY <3>4, <4>1, <4>2
    <3>. QED BY <2>1, <3>5, <3>6
  <2>4. /\ planning' = [planning EXCEPT ![p] = NoTask]
        /\ seenBalance' = [seenBalance EXCEPT ![p] = Nothing]
        /\ lock' = [g \in Grants |-> IF lock[g] = p THEN Free ELSE lock[g]]
    BY <1>5 DEF CommitReserve
  <2>5. ASSUME NEW q \in Planners, NEW g \in Grants, planning'[q] # NoTask
        PROVE  \/ seenBalance'[q][g] = 0
               \/ lock'[g] = q /\ seenBalance'[q][g] <= Balance(g)'
    <3>1. q # p /\ planning[q] # NoTask /\ seenBalance'[q] = seenBalance[q]
      BY <1>0, <2>4, <2>5 DEF TypeOK
    <3>2. \/ seenBalance[q][g] = 0
          \/ lock[g] = q /\ seenBalance[q][g] <= Balance(g)
      BY <3>1 DEF SeenInv
    <3>3. lock[g] = q => lock'[g] = q /\ Balance(g)' >= Balance(g)
      BY <2>3, <2>4, <3>1
    <3>4. seenBalance[q][g] \in Int
      BY <1>0 DEF TypeOK
    <3>. QED BY <1>0, <3>1, <3>2, <3>3, <3>4
  <2>6. Solvent'
    BY <2>3 DEF Solvent
  <2>7. SeenInv'
    BY <2>5 DEF SeenInv
  <2>. QED BY <2>6, <2>7
<1>. QED
  BY <1>2, <1>3, <1>4, <1>5
  DEF Next, BeginSettle, RollBack, End, Expire, vars, Settlers

\* What was consumed came out of the grant: nothing is consumed that was not
\* reserved, and no more is reserved than the grant has and was given back.
LEMMA SolventIsEnough ==
  ASSUME BaseInv, Solvent
  PROVE  NoOverdraft
<1>1. TypeOK /\ RowsOrdered
  BY DEF BaseInv
<1>2. ASSUME NEW g \in Grants, \A t \in Tasks : released[t][g] <= reserved[t][g]
      PROVE  Total(debited, g) <= Value[g]
  <2>1. /\ reserved \in [Tasks -> [Grants -> Int]] /\ released \in [Tasks -> [Grants -> Int]]
        /\ debited \in [Tasks -> [Grants -> Int]] /\ Balance(g) \in Int
    BY <1>1, BalanceType
  <2>2. Total(released, g) <= Total(reserved, g)
    BY <1>2, <2>1, TotalMonotone
  <2>3. /\ Total(reserved, g) \in Int /\ Total(released, g) \in Int
        /\ Total(debited, g) \in Int
    BY <2>1, TotalType
  <2>4. Value[g] \in Int
    BY GrantAssumption
  <2>5. Balance(g) >= 0
    BY DEF Solvent
  <2>. QED BY <2>2, <2>3, <2>4, <2>5 DEF Balance
<1>. QED BY <1>1, <1>2 DEF NoOverdraft, Solvent, RowsOrdered

\* No reservation takes more than the rows say is left, and a grant none of whose
\* units was returned twice never gives more than it has, whichever planners reserve
\* and whatever is settled or expires at the same time.
THEOREM NoOverdraftHolds == Spec => []NoOverdraft
<1>1. Init => SeenInv /\ Solvent
  <2> SUFFICES ASSUME Init
               PROVE  SeenInv /\ Solvent
    OBVIOUS
  <2>1. SeenInv
    BY DEF Init, SeenInv
  <2>2. ASSUME NEW g \in Grants
        PROVE  Balance(g) >= 0
    <3> DEFINE f == [t \in Tasks |-> Nothing[g]]
    <3>1. f \in [Tasks -> Int] /\ \A t \in Tasks : f[t] = 0
      BY DEF Nothing
    <3>2. IsFiniteSet(Tasks) /\ Value[g] \in Nat
      BY GrantAssumption
    <3>3. /\ Total(reserved, g) = SumFunction(f) /\ Total(released, g) = SumFunction(f)
          /\ Total(debited, g) = SumFunction(f)
      BY DEF Init, Total
    <3>. HIDE DEF f
    <3>4. SumFunction(f) = 0
      BY <3>1, <3>2, SumZero
    <3>. QED BY <3>2, <3>3, <3>4 DEF Balance
  <2>. QED BY <2>1, <2>2 DEF Solvent
<1>2. BaseInv /\ BaseInv' /\ (SeenInv /\ Solvent) /\ [Next]_vars => (SeenInv /\ Solvent)'
  BY SolventStep DEF BaseInv
<1>3. BaseInv /\ (SeenInv /\ Solvent) => NoOverdraft
  BY SolventIsEnough
<1>. QED BY <1>1, <1>2, <1>3, BaseInvHolds, PTL DEF Spec

-----------------------------------------------------------------------------
\* The schedule

\* The schedulers in a round, the slots that are planned or may be, and whether an
\* audit of a slot is one of a run.
InRound == {s \in Schedulers : phase[s] \notin {"idle", "dead"}}
AuditSlots == {a.slot : a \in audits}
PlannedSlots == {a.slot : a \in audits} \cup {job[s] : s \in InRound}
Covers(slot, run) == run \in {slot.run, slot.at}
Checked == {"planning", "created"}

AuditTypes ==
  /\ IsFiniteSet(audits)
  /\ audits \subseteq [id : Nat, slot : Scheduler!Slot, active : BOOLEAN]

ScheduleTypes ==
  /\ clock \in Nat
  /\ enabled \in BOOLEAN
  /\ nextRun \in Nat \cup {Scheduler!Never}
  /\ nextRun = Scheduler!Never => ~enabled
  /\ leaseOwner \in Schedulers \cup {Nobody}
  /\ runFor \in Nat
  /\ AuditTypes
  /\ phase \in [Schedulers -> Scheduler!Phase]
  /\ tick \in [Schedulers -> 0 .. clock]
  /\ job \in [Schedulers -> Scheduler!Slot]

\* No slot lies after the clock; whatever was planned at the time of the next run,
\* or may be, is of the run it stands for.
NextCovered ==
  \A x \in PlannedSlots : x.at <= clock /\ (x.at = nextRun => Covers(x, runFor))

\* Who holds the lease has claimed last: no slot lies after its clock reading, and
\* those at the time of its own are of its run.  If it has created an audit, or found
\* the slot taken, the slot has an audit.  Once it has checked its claim, the next run is
\* its slot's until a user moves it.
HolderInv ==
  \A s \in InRound : leaseOwner = s =>
    /\ \A x \in PlannedSlots : x.at <= tick[s] /\ (x.at = job[s].at => Covers(x, job[s].run))
    /\ phase[s] = "created" => \E x \in AuditSlots : x.at = job[s].at
    /\ phase[s] \in Checked => s \in moved \/ nextRun = job[s].at

RunsInv ==
  /\ ScheduleTypes
  /\ leaseOwner # Nobody => phase[leaseOwner] # "idle"
  /\ NextCovered
  /\ HolderInv
  /\ Scheduler!NoRunSkipped

\* A set of naturals that is not empty has a least element.
LEMMA LeastNat ==
  ASSUME NEW S \in SUBSET Nat, S # {}
  PROVE  \E k \in S : \A n \in S : k <= n
<1>1. PICK m \in S : m \in Nat
  OBVIOUS
<1> DEFINE I == 0 .. m
           B == {0 .. k : k \in {n \in S : n <= m}}
<1>2. B \in SUBSET SUBSET I /\ B # {}
  BY <1>1
<1>3. IsFiniteSet(I)
  BY <1>1, FS_Interval
<1>4. PICK T \in B : \A U \in B : U \subseteq T => U = T
  <2>. HIDE DEF B, I
  <2>. QED BY <1>2, <1>3, SmallestSet
<1>5. PICK k \in S : k <= m /\ T = 0 .. k
  BY <1>4
<1>6. ASSUME NEW n \in S
      PROVE  k <= n
  <2>1. k \in Nat /\ n \in Nat
    OBVIOUS
  <2>2. SUFFICES ASSUME n < k
                 PROVE  FALSE
    BY <2>1
  <2>3. 0 .. n \in B
    BY <1>1, <1>5, <2>1, <2>2
  <2>4. 0 .. n \subseteq 0 .. k
    BY <2>1, <2>2
  <2>5. k \in 0 .. n
    <3>1. 0 .. n = 0 .. k
      BY <1>4, <1>5, <2>3, <2>4
    <3>. QED BY <2>1, <3>1
  <2>. QED BY <2>1, <2>2, <2>5
<1>. QED BY <1>6

\* Both cadences go on to a time after the round's clock reading.
LEMMA NextRunIsLater ==
  ASSUME Scheduler!Configured, NEW anchor \in Nat, NEW t \in Nat
  PROVE  LET next == Scheduler!NextRunAfter(anchor, t)
         IN next = Scheduler!Never \/ (next \in Nat /\ next > t)
<1>0. Period \in Nat /\ Period > 0
  BY DEF Scheduler!Configured
<1>1. ASSUME NEW a \in Nat
      PROVE  /\ a \div Period \in Nat
             /\ (a \div Period) * Period <= a
             /\ a < (a \div Period) * Period + Period
  <2>1. a \div Period \in Nat
    BY <1>0
  <2>2. a = (a \div Period) * Period + (a % Period)
    BY <1>0
  <2>3. a % Period \in 0 .. (Period - 1)
    BY <1>0
  <2>4. (a \div Period) * Period \in Int
    BY <1>0, <2>1
  <2>. QED BY <1>0, <2>1, <2>2, <2>3, <2>4
<1>2. \A a \in Nat : (a \div Period + 1) * Period = (a \div Period) * Period + Period
  BY <1>0, <1>1
<1>3. CASE Cadence = "daily"
  <2> DEFINE n == anchor + (t \div Period + 1) * Period
             S == Scheduler!SlotsAfter(anchor, t)
  <2>1. n \in Nat /\ n > t /\ n <= anchor + t + Period /\ n >= anchor
    <3>1. /\ (t \div Period) * Period \in Nat /\ (t \div Period) * Period <= t
          /\ t < (t \div Period) * Period + Period
      BY <1>0, <1>1
    <3>. QED BY <1>0, <1>2, <3>1
  <2>2. (n - anchor) % Period = 0
    <3> DEFINE k == t \div Period + 1
    <3>1. k \in Nat /\ n - anchor = k * Period
      BY <1>0, <1>1
    <3>. HIDE DEF k, n
    <3>2. (k * Period) % Period = 0
      BY <1>0, <3>1
    <3>. QED BY <3>1, <3>2
  <2>. HIDE DEF n
  <2>3. n \in S /\ \A m \in S : m \in Nat /\ m > t
    BY <1>0, <2>1, <2>2 DEF Scheduler!SlotsAfter
  <2>. HIDE DEF S
  <2>4. PICK m \in S : \A k \in S : m <= k
    <3>1. S \in SUBSET Nat /\ S # {}
      BY <2>3
    <3>. QED BY <3>1, LeastNat
  <2>5. Scheduler!Earliest(S) \in S
    BY <2>4 DEF Scheduler!Earliest
  <2>. QED BY <1>3, <2>3, <2>5 DEF Scheduler!NextRunAfter, S
<1>4. CASE Cadence = "every_n_minutes"
  <2> DEFINE elapsed == IF t > anchor THEN t - anchor ELSE 0
  <2>1. elapsed \in Nat /\ t <= anchor + elapsed
    OBVIOUS
  <2>. HIDE DEF elapsed
  <2>2. /\ (elapsed \div Period + 1) * Period \in Nat
        /\ (elapsed \div Period + 1) * Period > elapsed
    <3>1. /\ (elapsed \div Period) * Period \in Nat
          /\ elapsed < (elapsed \div Period) * Period + Period
      BY <1>0, <1>1, <2>1
    <3>. QED BY <1>0, <1>2, <2>1, <3>1
  <2>3. Scheduler!NextRunAfter(anchor, t) = anchor + (elapsed \div Period + 1) * Period
    BY <1>4 DEF Scheduler!NextRunAfter, elapsed
  <2>. QED BY <2>1, <2>2, <2>3
<1>5. CASE Cadence = "one_time"
  BY <1>5 DEF Scheduler!NextRunAfter
<1>. QED BY <1>3, <1>4, <1>5 DEF Scheduler!Configured

\* A step that leaves the schedule's times and the rounds' slots as they are, and plans
\* at most what a scheduler in its round was planning.
Stays ==
  /\ UNCHANGED <<nextRun, runFor, left, moved, tick, job>>
  /\ clock' >= clock
  /\ leaseOwner' \in {leaseOwner, Nobody}
  /\ leaseOwner' # Nobody => phase'[leaseOwner'] # "idle"
  /\ InRound' \subseteq InRound
  /\ AuditSlots \subseteq AuditSlots'
  /\ AuditSlots' \subseteq PlannedSlots
  /\ \A s \in InRound' : leaseOwner' = s /\ phase'[s] = "created" =>
       phase[s] = "created" \/ \E x \in AuditSlots' : x.at = job[s].at
  /\ \A s \in InRound' : leaseOwner' = s /\ phase'[s] \in Checked =>
       phase[s] \in Checked \/ nextRun = job[s].at

LEMMA SlotFacts ==
  ASSUME ScheduleTypes
  PROVE  /\ PlannedSlots = AuditSlots \cup {job[s] : s \in InRound}
         /\ \A x \in PlannedSlots : x.at \in Nat /\ x.run \in Nat
<1>1. PlannedSlots = AuditSlots \cup {job[s] : s \in InRound}
  BY DEF PlannedSlots, AuditSlots
<1>2. \A a \in audits : a.slot \in Scheduler!Slot
  BY DEF ScheduleTypes, AuditTypes
<1>3. \A s \in InRound : job[s] \in Scheduler!Slot
  BY DEF ScheduleTypes, InRound
<1>4. \A x \in PlannedSlots : x \in Scheduler!Slot
  BY <1>1, <1>2, <1>3 DEF AuditSlots
<1>5. \A x \in PlannedSlots : x.at \in Nat /\ x.run \in Nat
  BY <1>4 DEF Scheduler!Slot
<1>. QED BY <1>1, <1>5

\* The runs that are behind have their audits as long as no audit goes.
LEMMA RunsKeepAudits ==
  ASSUME Scheduler!NoRunSkipped, AuditSlots \subseteq AuditSlots', left' = left
  PROVE  Scheduler!NoRunSkipped'
<1>1. \A a \in audits : \E b \in audits' : b.slot = a.slot
  BY DEF AuditSlots
<1>. QED BY <1>1 DEF Scheduler!NoRunSkipped, Scheduler!Plans

LEMMA StaysKeeps ==
  ASSUME Scheduler!Configured, RunsInv, ScheduleTypes', Stays
  PROVE  RunsInv'
<1>0. Nobody \notin Schedulers
  BY DEF Scheduler!Configured
<1>1. /\ PlannedSlots = AuditSlots \cup {job[s] : s \in InRound}
      /\ \A x \in PlannedSlots : x.at \in Nat /\ x.run \in Nat
  BY SlotFacts DEF RunsInv
<1>2. PlannedSlots' = AuditSlots' \cup {job'[s] : s \in InRound'}
  BY DEF PlannedSlots, AuditSlots
<1>3. PlannedSlots' \subseteq PlannedSlots
  BY <1>1, <1>2 DEF Stays
<1>4. NextCovered'
  <2>1. clock \in Nat /\ clock' \in Nat /\ clock' >= clock
    BY DEF Stays, RunsInv, ScheduleTypes
  <2>. QED BY <1>1, <1>3, <2>1 DEF NextCovered, Covers, Stays, RunsInv
<1>5. HolderInv'
  <2>. SUFFICES ASSUME NEW s \in InRound', leaseOwner' = s
                PROVE  /\ \A x \in PlannedSlots' : /\ x.at <= tick'[s]
                                                   /\ x.at = job'[s].at => Covers(x, job'[s].run)
                       /\ phase'[s] = "created" => \E x \in AuditSlots' : x.at = job'[s].at
                       /\ phase'[s] \in Checked => s \in moved' \/ nextRun' = job'[s].at
    BY DEF HolderInv, Covers, Checked
  <2>1. s \in InRound /\ s \in Schedulers /\ leaseOwner = s /\ tick' = tick /\ job' = job
    BY <1>0 DEF Stays, InRound
  <2>2. /\ \A x \in PlannedSlots : x.at <= tick[s] /\ (x.at = job[s].at => Covers(x, job[s].run))
        /\ phase[s] = "created" => \E x \in AuditSlots : x.at = job[s].at
        /\ phase[s] \in Checked => s \in moved \/ nextRun = job[s].at
    BY <2>1 DEF HolderInv, RunsInv
  <2>3. phase'[s] = "created" => \E x \in AuditSlots' : x.at = job[s].at
    BY <2>2 DEF Stays
  <2>4. phase'[s] \in Checked => s \in moved' \/ nextRun' = job[s].at
    BY <2>1, <2>2 DEF Stays
  <2>. QED BY <1>3, <2>1, <2>2, <2>3, <2>4
<1>6. Scheduler!NoRunSkipped'
  BY RunsKeepAudits DEF Stays, RunsInv
<1>. QED BY <1>4, <1>5, <1>6 DEF RunsInv, Stays

\* The steps of a scheduler that leave the schedule's times and its round as they are.
QuietStep(s) ==
  \/ Scheduler!RenewClaim(s)
  \/ Scheduler!CheckClaim(s)
  \/ Scheduler!DropLease(s)
  \/ Scheduler!CapReached(s)
  \/ Scheduler!FindSlotTaken(s)
  \/ Scheduler!CreateAudit(s)
  \/ Scheduler!CreateFails(s)
  \/ Scheduler!Die(s)

\* What an audit that a scheduler plans adds to the audits.
Planned(s) == [id |-> Cardinality(audits), slot |-> job[s], active |-> TRUE]

LEMMA SameCardinality == \A S : Scheduler!Cardinality(S) = Cardinality(S)
  BY Zenon DEF Cardinality, Scheduler!Cardinality

LEMMA PlannedTypes ==
  ASSUME ScheduleTypes, NEW s \in Schedulers
  PROVE  LET next == audits \cup {Planned(s)}
         IN /\ IsFiniteSet(next)
            /\ next \subseteq [id : Nat, slot : Scheduler!Slot, active : BOOLEAN]
            /\ {a.slot : a \in next} = AuditSlots \cup {job[s]}
<1>1. IsFiniteSet(audits) /\ audits \subseteq [id : Nat, slot : Scheduler!Slot, active : BOOLEAN]
  BY DEF ScheduleTypes, AuditTypes
<1>2. Cardinality(audits) \in Nat
  BY <1>1, FS_CardinalityType
<1>3. job[s] \in Scheduler!Slot
  BY DEF ScheduleTypes
<1>4. Planned(s) \in [id : Nat, slot : Scheduler!Slot, active : BOOLEAN]
  BY <1>2, <1>3 DEF Planned
<1>5. IsFiniteSet(audits \cup {Planned(s)})
  BY <1>1, FS_AddElement
<1>6. Planned(s).slot = job[s]
  BY DEF Planned
<1>. HIDE DEF Planned
<1>7. {a.slot : a \in audits \cup {Planned(s)}} = AuditSlots \cup {job[s]}
  BY <1>6 DEF AuditSlots
<1>. QED BY <1>1, <1>4, <1>5, <1>7

\* A scheduler's step moves itself alone.
LEMMA Moves ==
  ASSUME ScheduleTypes, NEW s \in Schedulers, NEW p \in Scheduler!Phase, Scheduler!GoTo(s, p)
  PROVE  /\ phase' \in [Schedulers -> Scheduler!Phase]
         /\ phase'[s] = p
         /\ \A t \in Schedulers \ {s} : phase'[t] = phase[t]
         /\ p \in {"idle", "dead"} => InRound' = InRound \ {s}
         /\ p \notin {"idle", "dead"} => InRound' = InRound \cup {s}
<1>1. /\ phase' \in [Schedulers -> Scheduler!Phase]
      /\ phase'[s] = p
      /\ \A t \in Schedulers \ {s} : phase'[t] = phase[t]
  BY DEF ScheduleTypes, Scheduler!GoTo
<1>. QED BY <1>1 DEF InRound

\* Such a step moves its scheduler: out of the round when it has lost the lease, and
\* to "created" only with an audit of its slot.
LEMMA QuietMoves ==
  ASSUME Scheduler!Configured, ScheduleTypes, NEW s \in Schedulers, QuietStep(s)
  PROVE  \E p \in Scheduler!Phase :
           /\ Scheduler!GoTo(s, p)
           /\ phase[s] \notin {"idle", "dead"} \/ (p = "dead" /\ phase[s] # "dead")
           /\ p = "idle" => leaseOwner' # s
           /\ p \in Checked => phase[s] \in Checked \/ nextRun = job[s].at
           /\ \/ audits' = audits /\ (p = "created" => Scheduler!SlotTaken(job[s]))
              \/ audits' = audits \cup {Planned(s)} /\ s \in InRound
<1> DEFINE Result(p) ==
      /\ Scheduler!GoTo(s, p)
      /\ phase[s] \notin {"idle", "dead"} \/ (p = "dead" /\ phase[s] # "dead")
      /\ p = "idle" => leaseOwner' # s
      /\ p \in Checked => phase[s] \in Checked \/ nextRun = job[s].at
      /\ \/ audits' = audits /\ (p = "created" => Scheduler!SlotTaken(job[s]))
         \/ audits' = audits \cup {Planned(s)} /\ s \in InRound
<1>0. s # Nobody /\ {"idle", "checking", "dropping", "planning", "created", "failed", "dead"}
                     \subseteq Scheduler!Phase
  BY DEF Scheduler!Configured, Scheduler!Phase
<1>9. phase[s] = "planning" => s \in InRound
  BY DEF InRound
<1>1. CASE Scheduler!RenewClaim(s)
  <2>1. CASE leaseOwner = s
    <3>1. Result("checking")
      BY <1>1, <2>1 DEF Scheduler!RenewClaim, Checked
    <3>. QED BY <1>0, <3>1
  <2>2. CASE leaseOwner # s
    <3>1. Result("idle")
      BY <1>1, <2>2 DEF Scheduler!RenewClaim, Checked
    <3>. QED BY <1>0, <3>1
  <2>. QED BY <2>1, <2>2
<1>2. CASE Scheduler!CheckClaim(s)
  <2>1. CASE leaseOwner # s
    <3>1. Result("idle")
      BY <1>2, <2>1 DEF Scheduler!CheckClaim, Scheduler!schedule, Checked
    <3>. QED BY <1>0, <3>1
  <2>2. CASE leaseOwner = s /\ Scheduler!StillDue(s)
    <3>1. Result("planning")
      BY <1>2, <2>2 DEF Scheduler!CheckClaim, Scheduler!StillDue, Checked
    <3>. QED BY <1>0, <3>1
  <2>3. CASE leaseOwner = s /\ ~Scheduler!StillDue(s)
    <3>1. Result("dropping")
      BY <1>2, <2>3 DEF Scheduler!CheckClaim, Scheduler!StillDue, Checked
    <3>. QED BY <1>0, <3>1
  <2>. QED BY <2>1, <2>2, <2>3
<1>3. CASE Scheduler!DropLease(s)
  <2>1. Result("idle")
    BY <1>0, <1>3 DEF Scheduler!DropLease, Checked
  <2>. QED BY <1>0, <2>1
<1>4. CASE Scheduler!CapReached(s)
  <2>1. Result("failed")
    BY <1>4 DEF Scheduler!CapReached, Checked
  <2>. QED BY <1>0, <2>1
<1>5. CASE Scheduler!FindSlotTaken(s)
  <2>1. Result("created")
    BY <1>5 DEF Scheduler!FindSlotTaken, Checked
  <2>. QED BY <1>0, <2>1
<1>6. CASE Scheduler!CreateAudit(s)
  <2>1. audits' = audits \cup {Planned(s)}
    BY <1>6, SameCardinality DEF Scheduler!CreateAudit, Planned
  <2>2. phase[s] = "planning" /\ Scheduler!GoTo(s, "created")
    BY <1>6 DEF Scheduler!CreateAudit
  <2>3. Result("created")
    BY <1>9, <2>1, <2>2 DEF Checked
  <2>. QED BY <1>0, <2>3
<1>7. CASE Scheduler!CreateFails(s)
  <2>1. audits' = audits \/ audits' = audits \cup {Planned(s)}
    BY <1>7, SameCardinality DEF Scheduler!CreateFails, Planned
  <2>2. phase[s] = "planning" /\ Scheduler!GoTo(s, "failed")
    BY <1>7 DEF Scheduler!CreateFails
  <2>3. Result("failed")
    BY <1>9, <2>1, <2>2 DEF Checked
  <2>. QED BY <1>0, <2>3
<1>8. CASE Scheduler!Die(s)
  <2>1. Result("dead")
    BY <1>8 DEF Scheduler!Die, Checked
  <2>. QED BY <1>0, <2>1
<1>. QED BY <1>1, <1>2, <1>3, <1>4, <1>5, <1>6, <1>7, <1>8 DEF QuietStep

LEMMA QuietTypes ==
  ASSUME Scheduler!Configured, RunsInv, NEW s \in Schedulers, QuietStep(s)
  PROVE  ScheduleTypes'
<1>1. ScheduleTypes
  BY DEF RunsInv
<1>2. PICK p \in Scheduler!Phase :
        Scheduler!GoTo(s, p) /\ (audits' = audits \/ audits' = audits \cup {Planned(s)})
  BY <1>1, QuietMoves
<1>3. phase' \in [Schedulers -> Scheduler!Phase]
  BY <1>1, <1>2, Moves
<1>4. /\ UNCHANGED <<clock, enabled, nextRun, runFor, tick, job>>
      /\ leaseOwner' \in {leaseOwner, Nobody}
  BY DEF QuietStep, Scheduler!RenewClaim, Scheduler!CheckClaim, Scheduler!DropLease,
         Scheduler!CapReached, Scheduler!FindSlotTaken, Scheduler!CreateAudit,
         Scheduler!CreateFails, Scheduler!Die, Scheduler!schedule, Scheduler!history
<1>5. AuditTypes'
  BY <1>1, <1>2, PlannedTypes DEF AuditTypes, ScheduleTypes
<1>. QED BY <1>1, <1>3, <1>4, <1>5 DEF ScheduleTypes

LEMMA QuietStays ==
  ASSUME Scheduler!Configured, RunsInv, NEW s \in Schedulers, QuietStep(s)
  PROVE  Stays
<1>. ScheduleTypes
  BY DEF RunsInv
<1>1. leaseOwner # Nobody => phase[leaseOwner] # "idle"
  BY DEF RunsInv
<1>2. /\ UNCHANGED <<clock, nextRun, runFor, left, moved, tick, job>>
      /\ leaseOwner' \in {leaseOwner, Nobody}
  BY DEF QuietStep, Scheduler!RenewClaim, Scheduler!CheckClaim, Scheduler!DropLease,
         Scheduler!CapReached, Scheduler!FindSlotTaken, Scheduler!CreateAudit,
         Scheduler!CreateFails, Scheduler!Die, Scheduler!schedule, Scheduler!history
<1>3. PICK p \in Scheduler!Phase :
        /\ Scheduler!GoTo(s, p)
        /\ phase[s] \notin {"idle", "dead"} \/ (p = "dead" /\ phase[s] # "dead")
        /\ p = "idle" => leaseOwner' # s
        /\ p \in Checked => phase[s] \in Checked \/ nextRun = job[s].at
        /\ \/ audits' = audits /\ (p = "created" => Scheduler!SlotTaken(job[s]))
           \/ audits' = audits \cup {Planned(s)} /\ s \in InRound
  BY QuietMoves
<1>4. /\ phase'[s] = p
      /\ \A t \in Schedulers \ {s} : phase'[t] = phase[t]
      /\ p \in {"idle", "dead"} => InRound' = InRound \ {s}
      /\ p \notin {"idle", "dead"} => InRound' = InRound \cup {s}
  BY <1>3, Moves
<1>5. InRound' \subseteq InRound
  <2>1. p \notin {"idle", "dead"} => s \in InRound
    BY <1>3 DEF InRound
  <2>. QED BY <1>4, <2>1
<1>6. leaseOwner' # Nobody => phase'[leaseOwner'] # "idle"
  BY <1>1, <1>2, <1>3, <1>4 DEF ScheduleTypes
<1>7. /\ AuditSlots \subseteq AuditSlots' /\ AuditSlots' \subseteq PlannedSlots
      /\ audits' = audits \cup {Planned(s)} => job[s] \in AuditSlots'
  <2>1. PlannedSlots = AuditSlots \cup {job[t] : t \in InRound}
    BY SlotFacts
  <2>2. CASE audits' = audits
    BY <2>1, <2>2 DEF AuditSlots, Planned
  <2>3. CASE audits' = audits \cup {Planned(s)} /\ s \in InRound
    <3>1. AuditSlots' = AuditSlots \cup {job[s]}
      BY <2>3, PlannedTypes DEF AuditSlots
    <3>. QED BY <2>1, <2>3, <3>1
  <2>. QED BY <1>3, <2>2, <2>3
<1>8. ASSUME NEW t \in InRound', leaseOwner' = t, phase'[t] = "created"
      PROVE  phase[t] = "created" \/ \E x \in AuditSlots' : x.at = job[t].at
  <2>0. t \in InRound /\ t \in Schedulers /\ leaseOwner = t
    BY <1>2, <1>5, <1>8 DEF InRound, Scheduler!Configured
  <2>1. CASE t # s
    BY <1>4, <1>8, <2>0, <2>1
  <2>2. CASE t = s /\ audits' = audits /\ Scheduler!SlotTaken(job[s])
    <3>1. PICK a \in audits : a.slot.at = job[s].at
      BY <2>2 DEF Scheduler!SlotTaken
    <3>2. a.slot \in AuditSlots /\ a.slot \in PlannedSlots
      BY DEF AuditSlots, PlannedSlots
    <3>. QED BY <1>7, <2>2, <3>1, <3>2
  <2>3. CASE t = s /\ audits' = audits \cup {Planned(s)}
    BY <1>7, <2>3
  <2>4. p = "created" \/ t # s
    BY <1>4, <1>8
  <2>. QED BY <1>3, <2>1, <2>2, <2>3, <2>4
<1>9. clock' >= clock
  BY <1>2 DEF ScheduleTypes
<1>10. ASSUME NEW t \in InRound', phase'[t] \in Checked
       PROVE  phase[t] \in Checked \/ nextRun = job[t].at
  BY <1>3, <1>4, <1>5, <1>10 DEF InRound
<1>. QED BY <1>2, <1>5, <1>6, <1>7, <1>8, <1>9, <1>10 DEF Stays

\* A new round takes the lease: its slot is the next run's, at the latest now.
LEMMA ClaimKeeps ==
  ASSUME Scheduler!Configured, RunsInv, NEW s \in Schedulers, Scheduler!ClaimDue(s)
  PROVE  RunsInv'
<1>. ScheduleTypes
  BY DEF RunsInv
<1> DEFINE slot == [at |-> nextRun, run |-> runFor]
<1>1. /\ UNCHANGED <<clock, enabled, nextRun, audits, runFor, left>>
      /\ phase[s] = "idle" /\ nextRun <= clock /\ nextRun # Scheduler!Never
      /\ leaseOwner' = s
      /\ tick' = [tick EXCEPT ![s] = clock]
      /\ job' = [job EXCEPT ![s] = slot]
  BY DEF Scheduler!ClaimDue, Scheduler!history, ScheduleTypes
<1>2. slot \in Scheduler!Slot /\ slot.at = nextRun /\ slot.run = runFor
  BY <1>1 DEF ScheduleTypes, Scheduler!Slot
<1>. HIDE DEF slot
<1>3. /\ phase' \in [Schedulers -> Scheduler!Phase] /\ phase'[s] = "claimed"
      /\ InRound' = InRound \cup {s}
  <2>1. "claimed" \in Scheduler!Phase /\ Scheduler!GoTo(s, "claimed")
    BY DEF Scheduler!Phase, Scheduler!ClaimDue
  <2>. QED BY <2>1, Moves
<1>4. ScheduleTypes'
  <2>1. tick' \in [Schedulers -> 0 .. clock'] /\ job' \in [Schedulers -> Scheduler!Slot]
    BY <1>1, <1>2 DEF ScheduleTypes
  <2>. QED BY <1>1, <1>3, <2>1 DEF ScheduleTypes, AuditTypes
<1>5. \A x \in PlannedSlots' : x \in PlannedSlots \/ x = slot
  BY <1>1, <1>3 DEF PlannedSlots, ScheduleTypes, InRound
<1>6. \A x \in PlannedSlots' : x.at <= clock /\ (x.at = nextRun => Covers(x, runFor))
  BY <1>1, <1>2, <1>5 DEF NextCovered, Covers, RunsInv
<1>7. NextCovered'
  BY <1>1, <1>6 DEF NextCovered, Covers
<1>8. HolderInv'
  <2>1. tick'[s] = clock /\ job'[s] = slot
    BY <1>1 DEF ScheduleTypes
  <2>2. ASSUME NEW t \in InRound', leaseOwner' = t
        PROVE  /\ \A x \in PlannedSlots' : /\ x.at <= tick'[t]
                                           /\ x.at = job'[t].at => Covers(x, job'[t].run)
               /\ phase'[t] \notin Checked
    BY <1>1, <1>2, <1>3, <1>6, <2>1, <2>2 DEF Checked
  <2>. QED BY <2>2 DEF HolderInv, Covers, Checked
<1>9. Scheduler!NoRunSkipped'
  BY <1>1, RunsKeepAudits DEF AuditSlots, RunsInv
<1>. QED BY <1>1, <1>3, <1>4, <1>7, <1>8, <1>9 DEF RunsInv

\* The end of a round under its lease: the next run lies after every planned slot, and
\* the run it is past has its audit.
LEMMA FinishKeeps ==
  ASSUME Scheduler!Configured, RunsInv, NEW s \in Schedulers,
         Scheduler!FinishRun(s) \/ Scheduler!FinishFailure(s)
  PROVE  RunsInv'
<1>. ScheduleTypes
  BY DEF RunsInv
<1>1. /\ UNCHANGED <<clock, audits, tick, job>>
      /\ phase[s] \in {"created", "failed"}
      /\ Scheduler!GoTo(s, "idle")
  BY DEF Scheduler!FinishRun, Scheduler!FinishFailure
<1>2. "idle" \in Scheduler!Phase
  BY DEF Scheduler!Phase
<1>3. /\ phase' \in [Schedulers -> Scheduler!Phase] /\ phase'[s] = "idle"
      /\ \A t \in Schedulers \ {s} : phase'[t] = phase[t]
      /\ InRound' = InRound \ {s} /\ s \in InRound
  BY <1>1, <1>2, Moves DEF InRound
<1>4. AuditSlots' = AuditSlots /\ PlannedSlots' \subseteq PlannedSlots
  BY <1>1, <1>3 DEF AuditSlots, PlannedSlots
<1>5. AuditTypes' /\ tick' \in [Schedulers -> 0 .. clock'] /\ job' \in [Schedulers -> Scheduler!Slot]
      /\ clock' \in Nat
  BY <1>1 DEF AuditTypes, ScheduleTypes
<1>6. CASE leaseOwner # s
  <2>1. UNCHANGED <<enabled, nextRun, leaseOwner, runFor, left, moved>>
    BY <1>6 DEF Scheduler!FinishRun, Scheduler!FinishFailure, Scheduler!schedule, Scheduler!history
  <2>2. ScheduleTypes'
    BY <1>3, <1>5, <2>1 DEF ScheduleTypes
  <2>3. Stays
    <3>1. leaseOwner' # Nobody => phase'[leaseOwner'] # "idle"
      BY <1>3, <1>6, <2>1 DEF RunsInv, ScheduleTypes
    <3>2. AuditSlots' \subseteq PlannedSlots
      BY <1>4 DEF AuditSlots, PlannedSlots
    <3>3. \A t \in InRound' : phase'[t] = phase[t]
      BY <1>3 DEF InRound
    <3>4. clock' >= clock
      BY <1>1 DEF ScheduleTypes
    <3>. QED BY <1>1, <1>3, <1>4, <2>1, <3>1, <3>2, <3>3, <3>4 DEF Stays
  <2>. QED BY <2>2, <2>3, StaysKeeps
<1>7. CASE leaseOwner = s
  <2>1. leaseOwner' = Nobody
    BY <1>7 DEF Scheduler!FinishRun, Scheduler!FinishFailure
  <2>2. \A x \in PlannedSlots : x.at \in Nat /\ x.at <= tick[s]
    BY <1>3, <1>7, SlotFacts DEF RunsInv, HolderInv
  <2>3. tick[s] \in Nat /\ tick[s] <= clock
    BY DEF ScheduleTypes
  <2>4. CASE Scheduler!FinishRun(s)
    <3> DEFINE next == IF nextRun = Scheduler!Never THEN Scheduler!NextRunAfter(tick[s], tick[s])
                       ELSE Scheduler!NextRunAfter(nextRun, tick[s])
    <3>1. next = Scheduler!Never \/ (next \in Nat /\ next > tick[s])
      BY <2>3, NextRunIsLater DEF ScheduleTypes
    <3>2. /\ nextRun' = next /\ enabled' = (enabled /\ next # Scheduler!Never)
          /\ runFor' = IF next = Scheduler!Never THEN runFor ELSE next
          /\ left' = IF nextRun \in {next, Scheduler!Never} THEN left
                     ELSE left \cup {[run |-> runFor, slot |-> job[s], edited |-> s \in moved]}
          /\ phase[s] = "created"
      BY <1>7, <2>4 DEF Scheduler!FinishRun
    <3>. HIDE DEF next
    <3>3. Scheduler!Never \notin Nat
      BY DEF Scheduler!Never
    <3>4. ScheduleTypes'
      BY <1>3, <1>5, <2>1, <3>1, <3>2 DEF ScheduleTypes
    <3>5. NextCovered'
      <4>1. \A x \in PlannedSlots : x.at <= clock /\ x.at # nextRun'
        BY <2>2, <2>3, <3>1, <3>2, <3>3 DEF ScheduleTypes
      <4>. QED BY <1>1, <1>4, <4>1 DEF NextCovered
    <3>6. PICK a \in audits : a.slot.at = job[s].at
      BY <1>3, <1>7, <3>2 DEF RunsInv, HolderInv, AuditSlots
    <3>7. a.slot \in PlannedSlots
      BY DEF PlannedSlots
    <3>8. Covers(a.slot, job[s].run)
      BY <1>3, <1>7, <3>6, <3>7 DEF RunsInv, HolderInv
    <3>9. s \in moved \/ Covers(a.slot, runFor)
      BY <1>3, <1>7, <3>2, <3>6, <3>7 DEF RunsInv, HolderInv, NextCovered, Checked
    <3>10. Scheduler!NoRunSkipped'
      <4> DEFINE new == [run |-> runFor, slot |-> job[s], edited |-> s \in moved]
      <4>1. new.run = runFor /\ new.slot = job[s] /\ (new.edited <=> s \in moved)
        OBVIOUS
      <4>2. \A l \in left' : l \in left \/ l = new
        BY <3>2
      <4>3. /\ a.slot.at = new.slot.at
            /\ Scheduler!Plans(a.slot, new.slot.run)
            /\ new.edited \/ Scheduler!Plans(a.slot, new.run)
        BY <3>6, <3>8, <3>9, <4>1 DEF Covers, Scheduler!Plans
      <4>4. \A l \in left' : \E b \in audits :
              /\ b.slot.at = l.slot.at
              /\ Scheduler!Plans(b.slot, l.slot.run)
              /\ l.edited \/ Scheduler!Plans(b.slot, l.run)
        <5>. HIDE DEF new
        <5>. QED BY <4>2, <4>3 DEF Scheduler!NoRunSkipped, RunsInv
      <4>. QED BY <1>1, <4>4 DEF Scheduler!NoRunSkipped, Scheduler!Plans
    <3>. QED BY <1>3, <2>1, <3>4, <3>5, <3>10 DEF RunsInv, HolderInv, Scheduler!Configured, InRound
  <2>5. CASE Scheduler!FinishFailure(s)
    <3>1. /\ nextRun' = tick[s] + RetryDelay
          /\ enabled' = (enabled /\ failures + 1 < MaxFailures)
          /\ UNCHANGED <<runFor, left>>
      BY <1>7, <2>5 DEF Scheduler!FinishFailure, Scheduler!history
    <3>2. nextRun' \in Nat /\ nextRun' > tick[s] /\ nextRun' # Scheduler!Never
      BY <2>3, <3>1 DEF Scheduler!Configured, Scheduler!Never
    <3>3. ScheduleTypes'
      BY <1>3, <1>5, <2>1, <3>1, <3>2 DEF ScheduleTypes
    <3>4. NextCovered'
      <4>1. \A x \in PlannedSlots : x.at <= clock /\ x.at # nextRun'
        BY <2>2, <2>3, <3>2 DEF ScheduleTypes
      <4>. QED BY <1>1, <1>4, <4>1 DEF NextCovered
    <3>5. Scheduler!NoRunSkipped'
      BY <1>4, <3>1, RunsKeepAudits DEF RunsInv
    <3>. QED BY <1>3, <2>1, <3>3, <3>4, <3>5 DEF RunsInv, HolderInv, Scheduler!Configured, InRound
  <2>. QED BY <2>4, <2>5
<1>. QED BY <1>6, <1>7

\* A user's edit makes the next run a run of its own, or leaves it as it is.
LEMMA EditKeeps ==
  ASSUME Scheduler!Configured, RunsInv, Scheduler!Edit
  PROVE  RunsInv'
<1>. ScheduleTypes
  BY DEF RunsInv
<1>1. UNCHANGED <<clock, leaseOwner, audits, left, phase, tick, job>>
  BY DEF Scheduler!Edit, Scheduler!workers
<1>2. \/ UNCHANGED <<nextRun, runFor, moved>> /\ (enabled' => nextRun # Scheduler!Never)
      \/ /\ nextRun' \in Nat /\ runFor' = nextRun'
         /\ moved' = IF nextRun' = nextRun THEN moved
                     ELSE moved \cup {s \in Schedulers : phase[s] \in Checked}
  BY DEF Scheduler!Edit, ScheduleTypes, Checked
<1>3. enabled' \in BOOLEAN
  BY DEF Scheduler!Edit
<1>4. ScheduleTypes'
  <2>1. Scheduler!Never \notin Nat
    BY DEF Scheduler!Never
  <2>. QED BY <1>1, <1>2, <1>3, <2>1 DEF ScheduleTypes, AuditTypes
<1>5. InRound' = InRound /\ AuditSlots' = AuditSlots /\ PlannedSlots' = PlannedSlots
  BY <1>1 DEF InRound, AuditSlots, PlannedSlots
<1>6. NextCovered'
  BY <1>1, <1>2, <1>5 DEF NextCovered, Covers, RunsInv
<1>7. HolderInv'
  <2>. SUFFICES ASSUME NEW s \in InRound, leaseOwner = s
                PROVE  /\ \A x \in PlannedSlots : /\ x.at <= tick[s]
                                                  /\ x.at = job[s].at => Covers(x, job[s].run)
                       /\ phase[s] = "created" => \E x \in AuditSlots : x.at = job[s].at
                       /\ phase[s] \in Checked => s \in moved' \/ nextRun' = job[s].at
    BY <1>1, <1>5 DEF HolderInv, Covers, Checked
  <2>1. phase[s] \in Checked => s \in moved' \/ nextRun' = job[s].at
    <3>1. phase[s] \in Checked => s \in moved \/ nextRun = job[s].at
      BY DEF RunsInv, HolderInv
    <3>. QED BY <1>2, <3>1 DEF InRound
  <2>. QED BY <2>1 DEF RunsInv, HolderInv
<1>8. Scheduler!NoRunSkipped'
  BY <1>1, <1>5, RunsKeepAudits DEF RunsInv
<1>. QED BY <1>1, <1>4, <1>6, <1>7, <1>8 DEF RunsInv

\* An audit that ends keeps its slot, and the clock and other audits touch nothing.
LEMMA EnvironmentKeeps ==
  ASSUME Scheduler!Configured, RunsInv,
         Scheduler!AuditEnds \/ Scheduler!OtherAudits \/ Scheduler!Tick
  PROVE  RunsInv'
<1>. ScheduleTypes
  BY DEF RunsInv
<1>1. UNCHANGED <<enabled, nextRun, leaseOwner, runFor, left, moved, phase, tick, job>>
  BY DEF Scheduler!AuditEnds, Scheduler!OtherAudits, Scheduler!Tick, Scheduler!schedule,
         Scheduler!history, Scheduler!workers
<1>2. clock' \in {clock, clock + 1}
  BY DEF Scheduler!AuditEnds, Scheduler!OtherAudits, Scheduler!Tick
<1>3. clock' \in Nat /\ clock' >= clock
  BY <1>2 DEF ScheduleTypes
<1>4. tick' \in [Schedulers -> 0 .. clock']
  BY <1>1, <1>3 DEF ScheduleTypes
<1>5. AuditTypes' /\ AuditSlots' = AuditSlots
  <2>1. CASE Scheduler!AuditEnds
    <3>1. PICK a \in audits : audits' = (audits \ {a}) \cup {[a EXCEPT !.active = FALSE]}
      BY <2>1 DEF Scheduler!AuditEnds
    <3> DEFINE b == [a EXCEPT !.active = FALSE]
    <3>2. /\ b \in [id : Nat, slot : Scheduler!Slot, active : BOOLEAN]
          /\ b.slot = a.slot
      BY DEF ScheduleTypes, AuditTypes
    <3>. HIDE DEF b
    <3>3. IsFiniteSet(audits')
      <4>1. IsFiniteSet(audits \ {a})
        BY FS_Difference DEF ScheduleTypes, AuditTypes
      <4>2. IsFiniteSet((audits \ {a}) \cup {b})
        BY <4>1, FS_AddElement
      <4>. QED BY <3>1, <4>2 DEF b
    <3>4. audits' = (audits \ {a}) \cup {b}
      BY <3>1 DEF b
    <3>. QED BY <3>2, <3>3, <3>4 DEF ScheduleTypes, AuditTypes, AuditSlots
  <2>2. CASE UNCHANGED audits
    BY <2>2 DEF ScheduleTypes, AuditTypes, AuditSlots
  <2>. QED BY <2>1, <2>2 DEF Scheduler!OtherAudits, Scheduler!Tick
<1>6. ScheduleTypes'
  BY <1>1, <1>3, <1>4, <1>5 DEF ScheduleTypes
<1>7. Stays
  <2>1. InRound' = InRound /\ AuditSlots \subseteq PlannedSlots
    BY <1>1 DEF InRound, AuditSlots, PlannedSlots
  <2>. QED BY <1>1, <1>3, <1>5, <2>1 DEF Stays, RunsInv
<1>. QED BY <1>6, <1>7, StaysKeeps

LEMMA RunsInvHolds ==
  ASSUME Scheduler!Configured
  PROVE  Scheduler!Spec => []RunsInv
<1>1. Scheduler!Init => RunsInv
  <2>. SUFFICES ASSUME Scheduler!Init
                PROVE  RunsInv
    OBVIOUS
  <2>1. ScheduleTypes
    <3>1. IsFiniteSet({})
      BY FS_EmptySet
    <3>. QED BY <3>1 DEF Scheduler!Init, ScheduleTypes, AuditTypes, Scheduler!Never, Scheduler!Phase,
                Scheduler!Slot
  <2>2. InRound = {} /\ PlannedSlots = {}
    BY DEF Scheduler!Init, InRound, PlannedSlots
  <2>. QED BY <2>1, <2>2 DEF Scheduler!Init, RunsInv, NextCovered, HolderInv, Scheduler!NoRunSkipped
<1>2. RunsInv /\ [Scheduler!Next]_Scheduler!vars => RunsInv'
  <2>. SUFFICES ASSUME RunsInv, [Scheduler!Next]_Scheduler!vars
                PROVE  RunsInv'
    OBVIOUS
  <2>1. CASE \E s \in Schedulers : QuietStep(s)
    BY <2>1, QuietTypes, QuietStays, StaysKeeps
  <2>2. CASE \E s \in Schedulers : Scheduler!ClaimDue(s)
    BY <2>2, ClaimKeeps
  <2>3. CASE \E s \in Schedulers : Scheduler!FinishRun(s) \/ Scheduler!FinishFailure(s)
    BY <2>3, FinishKeeps
  <2>4. CASE Scheduler!Edit
    BY <2>4, EditKeeps
  <2>5. CASE Scheduler!AuditEnds \/ Scheduler!OtherAudits \/ Scheduler!Tick
    BY <2>5, EnvironmentKeeps
  <2>6. CASE UNCHANGED Scheduler!vars
    BY <2>6 DEF Scheduler!vars, Scheduler!schedule, Scheduler!history, Scheduler!workers, RunsInv,
                ScheduleTypes, AuditTypes, NextCovered, HolderInv, PlannedSlots, InRound, Covers,
                AuditSlots, Checked, Scheduler!NoRunSkipped, Scheduler!Plans
  <2>. QED BY <2>1, <2>2, <2>3, <2>4, <2>5, <2>6 DEF Scheduler!Next, QuietStep
<1>. QED BY <1>1, <1>2, PTL DEF Scheduler!Spec

\* The run a round planned has its audit when the round moves on, and so has the run
\* the schedule is moved past, unless a user set it after the round's last look: for any
\* schedulers, any cadence and any cap.
THEOREM NoRunSkippedHolds ==
  ASSUME Scheduler!Configured
  PROVE  Scheduler!Spec => []Scheduler!NoRunSkipped
<1>1. RunsInv => Scheduler!NoRunSkipped
  BY DEF RunsInv
<1>. QED BY <1>1, RunsInvHolds, PTL
=============================================================================
