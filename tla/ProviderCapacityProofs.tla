----------------------- MODULE ProviderCapacityProofs -----------------------
(***************************************************************************)
(* TLAPS proofs about ProviderCapacity, for any number of workers, attempts *)
(* and pools, any ceilings, rates and lease times.                          *)
(***************************************************************************)
EXTENDS ProviderCapacity, FiniteSetTheorems, TLAPS

Busy == {"acquiring", "calling", "releasing"}

\* An attempt is executed by one worker, and by the phases that execute.
JobsApart ==
  /\ \A w \in Workers : phase[w] \in Busy <=> job[w] # NoAttempt
  /\ \A v, w \in Workers : job[v] = job[w] /\ job[w] # NoAttempt => v = w

\* A transaction and a call last as long as they may at most.
InTime ==
  \A w \in Workers :
    /\ phase[w] = "acquiring" => clock <= now[w] + MaxWait
    /\ phase[w] = "calling" => clock <= now[w] + CallTimeout

\* The leases of a call outlive the last moment it may run.
CallsLeased ==
  \A w \in Workers : phase[w] = "calling" =>
    \A p \in PoolsOf(job[w]) : lease[p][job[w]] > now[w] + CallTimeout

LeasesStamped == \A p \in Pools, a \in Attempts : lease[p][a] >= Unleased

BaseInv == TypeOK /\ JobsApart /\ InTime /\ CallsLeased /\ LeasesStamped

\* A pool is the pools of the canonical order: a worker draws on nothing else.
LEMMA PoolsOfJob ==
  ASSUME NEW a \in Attempts
  PROVE  PoolsOf(a) \subseteq Pools
  BY PoolAssumption DEF PoolsOf

LEMMA TimesAreNumbers ==
  /\ LeaseTTL \in Nat /\ CallTimeout \in Nat /\ MaxCooldown \in Nat
  /\ MaxClock \in Nat /\ MaxWait \in Nat /\ LeaseTTL > MaxWait + CallTimeout
  BY TimeAssumption

\* A refill credits the time since the last one and never exceeds the burst.
LEMMA RefilledType ==
  ASSUME TypeOK, NEW t \in Nat
  PROVE  /\ Refilled(t) \in 0 .. Burst
         /\ refilledAt <= t => Refilled(t) <= tokens + Rate * (t - refilledAt)
<1>1. /\ Burst \in Nat /\ Rate \in Nat /\ tokens \in 0 .. Burst
      /\ refilledAt \in Nat
  BY RateAssumption DEF TypeOK
<1>2. LargerOf(0, t - refilledAt) \in Nat
  BY <1>1 DEF LargerOf
<1>3. Rate * LargerOf(0, t - refilledAt) \in Nat
  BY <1>1, <1>2
<1>4. Refilled(t) \in 0 .. Burst
  BY <1>1, <1>3 DEF Refilled, SmallerOf
<1>5. ASSUME refilledAt <= t
      PROVE  Refilled(t) <= tokens + Rate * (t - refilledAt)
  <2>1. LargerOf(0, t - refilledAt) = t - refilledAt
    BY <1>1, <1>5 DEF LargerOf
  <2>2. Rate * (t - refilledAt) \in Nat
    BY <1>3, <2>1
  <2>. QED BY <1>1, <2>1, <2>2 DEF Refilled, SmallerOf
<1>. QED BY <1>4, <1>5

LEMMA SetbackType ==
  ASSUME TypeOK, NEW t \in 0 .. clock, Refill(t)
  PROVE  refilledAt' \in 0 .. clock /\ replayed' \in Nat
<1>1. t \in Nat /\ refilledAt \in Nat /\ replayed \in Nat
  BY TimesAreNumbers DEF TypeOK
<1>. QED BY <1>1 DEF Refill, LargerOf

-----------------------------------------------------------------------------

LEMMA BaseInit == Init => BaseInv
<1> SUFFICES ASSUME Init
             PROVE  BaseInv
  OBVIOUS
<1>1. TypeOK
  BY RateAssumption, TimesAreNumbers, PoolAssumption
  DEF Init, TypeOK, Phase, Unleased
<1>2. JobsApart /\ InTime /\ CallsLeased /\ LeasesStamped
  BY DEF Init, JobsApart, InTime, CallsLeased, LeasesStamped, Busy, Unleased
<1>. QED BY <1>1, <1>2 DEF BaseInv

LEMMA TypeStep ==
  ASSUME TypeOK, JobsApart, [Next]_vars
  PROVE  TypeOK'
<1> USE DEF TypeOK
<1>0. \A w \in Workers :
        /\ now[w] \in Nat
        /\ phase[w] \in Busy => job[w] \in Attempts
        /\ Unlock(w) => lock' \in [Pools -> Workers \cup {Free}]
  BY DEF JobsApart, Busy, Unlock
<1>1. ASSUME NEW w \in Workers, Begin(w) \/ EndCall(w) \/ Die(w)
      PROVE  TypeOK'
  <2>1. clock \in 0 .. clock /\ clock \in Nat
    BY TimesAreNumbers
  <2>2. CASE Begin(w)
    BY <2>1, <2>2 DEF Begin, bucketVars, Phase
  <2>3. CASE EndCall(w)
    BY <2>1, <2>3 DEF EndCall, bucketVars, Phase
  <2>4. CASE Die(w)
    BY <1>0, <2>4 DEF Die, bucketVars, Phase
  <2>. QED BY <1>1, <2>2, <2>3, <2>4
<1>2. ASSUME NEW w \in Workers, LockBucket(w)
      PROVE  TypeOK'
  BY <1>2 DEF LockBucket, bucketVars, workerVars
<1>3. ASSUME NEW w \in Workers, Park(w)
      PROVE  TypeOK'
  <2>1. Refilled(now[w]) \in 0 .. Burst /\ now[w] \in 0 .. clock
    BY <1>0, RefilledType
  <2>2. tokens' \in 0 .. Burst /\ refilledAt' \in 0 .. clock /\ replayed' \in Nat
    BY <1>0, <1>3, <2>1, SetbackType DEF Park, pacing
  <2>. QED BY <1>0, <1>3, <2>2 DEF Park, Phase, pacing
<1>4. ASSUME NEW w \in Workers, Acquire(w)
      PROVE  TypeOK'
  <2>1. Refilled(now[w]) \in 0 .. Burst /\ now[w] \in 0 .. clock
    BY <1>0, RefilledType
  <2>2. Configured => Refilled(now[w]) - 1 \in 0 .. Burst
    BY <1>4, <2>1, RateAssumption DEF Acquire, Refused, PacingRefuses
  <2>3. lease' \in [Pools -> [Attempts -> Int]]
    BY <1>0, <1>4, TimesAreNumbers DEF Acquire, Busy
  <2>4. tokens' \in 0 .. Burst /\ refilledAt' \in 0 .. clock /\ replayed' \in Nat
    BY <1>0, <1>4, <2>1, <2>2, SetbackType DEF Acquire, pacing
  <2>5. starts' \in Nat
    BY <1>4 DEF Acquire, pacing
  <2>. QED BY <1>0, <1>4, <2>3, <2>4, <2>5 DEF Acquire, Phase
<1>5. ASSUME NEW w \in Workers, Release(w)
      PROVE  TypeOK'
  <2>1. lease' \in [Pools -> [Attempts -> Int]]
    <3>1. lease' = [p \in Pools |->
            IF p \in PoolsOf(job[w])
              THEN [lease[p] EXCEPT ![job[w]] = Unleased] ELSE lease[p]]
      BY <1>5 DEF Release
    <3>2. Unleased \in Int
      BY DEF Unleased
    <3>. QED BY <3>1, <3>2
  <2>2. blockedUntil' \in [Pools -> Nat]
    BY <1>0, <1>5, TimesAreNumbers DEF Release, Raised, LargerOf
  <2>. QED BY <1>0, <1>5, <2>1, <2>2 DEF Release, Phase
<1>6. CASE Tick \/ UNCHANGED vars
  BY <1>6, TimesAreNumbers DEF Tick, vars, bucketVars, workerVars
<1>. QED BY <1>1, <1>2, <1>3, <1>4, <1>5, <1>6 DEF Next, Transact

LEMMA BaseStep ==
  ASSUME BaseInv, [Next]_vars
  PROVE  BaseInv'
<1>0. TypeOK /\ TypeOK'
  BY TypeStep DEF BaseInv
<1> USE DEF BaseInv
<1>a. \A w \in Workers : now[w] \in Nat /\ clock \in Nat /\ now[w] <= clock
  BY <1>0 DEF TypeOK
<1>b. \A w \in Workers : phase[w] \in Busy => job[w] \in Attempts
  BY <1>0 DEF TypeOK, JobsApart
<1>1. ASSUME NEW w \in Workers, Begin(w)
      PROVE  BaseInv'
  <2>1. PICK a \in Attempts : /\ \A v \in Workers : job[v] # a
                              /\ job' = [job EXCEPT ![w] = a]
    BY <1>1 DEF Begin
  <2>2. a # NoAttempt /\ phase[w] = "idle"
    BY <1>1, PoolAssumption DEF Begin
  <2>3. JobsApart'
    BY <1>0, <1>1, <2>1, <2>2 DEF Begin, JobsApart, TypeOK, Busy
  <2>4. InTime' /\ CallsLeased' /\ LeasesStamped'
    BY <1>0, <1>1, <1>a, <2>1, TimesAreNumbers
    DEF Begin, InTime, CallsLeased, LeasesStamped, TypeOK, bucketVars
  <2>. QED BY <1>0, <2>3, <2>4
<1>2. ASSUME NEW w \in Workers, LockBucket(w)
      PROVE  BaseInv'
  BY <1>0, <1>2
  DEF LockBucket, bucketVars, workerVars, JobsApart, InTime, CallsLeased, LeasesStamped
<1>3. ASSUME NEW w \in Workers, Park(w)
      PROVE  BaseInv'
  BY <1>0, <1>3
  DEF Park, JobsApart, InTime, CallsLeased, LeasesStamped, TypeOK, Busy
<1>4. ASSUME NEW w \in Workers, Acquire(w)
      PROVE  BaseInv'
  <2>0. job[w] \in Attempts /\ job[w] # NoAttempt /\ phase[w] = "acquiring"
    BY <1>4, <1>b, PoolAssumption DEF Acquire, Busy
  <2>1. JobsApart'
    BY <1>0, <1>4 DEF Acquire, JobsApart, TypeOK, Busy
  <2>2. InTime'
    BY <1>0, <1>4, <1>a, TimesAreNumbers DEF Acquire, InTime, TypeOK
  <2>3. \A v \in Workers : v # w => job[v] # job[w]
    BY <2>0 DEF JobsApart
  <2>4. \A p \in Pools, a \in Attempts :
          lease'[p][a] = IF p \in PoolsOf(job[w]) /\ a = job[w]
                           THEN now[w] + LeaseTTL ELSE lease[p][a]
    BY <1>0, <1>4 DEF Acquire, TypeOK
  <2>5. now[w] + LeaseTTL > clock + CallTimeout
    BY <1>a, <2>0, TimesAreNumbers DEF InTime
  <2>6. ASSUME NEW v \in Workers, phase'[v] = "calling", NEW p \in PoolsOf(job'[v])
        PROVE  lease'[p][job'[v]] > now'[v] + CallTimeout
    <3>1. CASE v = w
      <4>1. job'[v] = job[w] /\ now'[v] = clock
        BY <1>0, <1>4, <3>1 DEF Acquire, TypeOK
      <4>2. p \in Pools
        BY <2>0, <2>6, <4>1, PoolsOfJob
      <4>. QED BY <2>0, <2>4, <2>5, <2>6, <4>1, <4>2
    <3>2. CASE v # w
      <4>1. job'[v] = job[v] /\ now'[v] = now[v] /\ phase[v] = "calling"
        BY <1>0, <1>4, <2>6, <3>2 DEF Acquire, TypeOK
      <4>2. job[v] \in Attempts /\ p \in Pools
        BY <1>b, <2>6, <4>1, PoolsOfJob DEF Busy
      <4>. QED BY <2>3, <2>4, <2>6, <3>2, <4>1, <4>2 DEF CallsLeased
    <3>. QED BY <3>1, <3>2
  <2>7. CallsLeased'
    BY <2>6 DEF CallsLeased, PoolsOf
  <2>8. LeasesStamped'
    BY <1>a, <2>4, TimesAreNumbers DEF LeasesStamped, Unleased
  <2>. QED BY <1>0, <2>1, <2>2, <2>7, <2>8
<1>5. ASSUME NEW w \in Workers, EndCall(w)
      PROVE  BaseInv'
  BY <1>0, <1>5
  DEF EndCall, JobsApart, InTime, CallsLeased, LeasesStamped, TypeOK, bucketVars, Busy
<1>6. ASSUME NEW w \in Workers, Release(w)
      PROVE  BaseInv'
  <2>0. job[w] \in Attempts /\ job[w] # NoAttempt /\ phase[w] = "releasing"
    BY <1>6, <1>b, PoolAssumption DEF Release, Busy
  <2>1. JobsApart' /\ InTime'
    BY <1>0, <1>6, <2>0 DEF Release, JobsApart, InTime, TypeOK, Busy
  <2>2. \A p \in Pools, a \in Attempts :
          lease'[p][a] = IF p \in PoolsOf(job[w]) /\ a = job[w]
                           THEN Unleased ELSE lease[p][a]
    BY <1>0, <1>6 DEF Release, TypeOK
  <2>3. ASSUME NEW v \in Workers, phase'[v] = "calling", NEW p \in PoolsOf(job'[v])
        PROVE  lease'[p][job'[v]] > now'[v] + CallTimeout
    <3>1. v # w /\ job'[v] = job[v] /\ now'[v] = now[v] /\ phase[v] = "calling"
      BY <1>0, <1>6, <2>3 DEF Release, TypeOK
    <3>2. job[v] \in Attempts /\ p \in Pools /\ job[v] # job[w]
      BY <1>b, <2>0, <2>3, <3>1, PoolsOfJob DEF Busy, JobsApart
    <3>. QED BY <2>2, <2>3, <3>1, <3>2 DEF CallsLeased
  <2>4. CallsLeased'
    BY <2>3 DEF CallsLeased, PoolsOf
  <2>5. LeasesStamped'
    BY <2>2 DEF LeasesStamped, Unleased
  <2>. QED BY <1>0, <2>1, <2>4, <2>5
<1>7. ASSUME NEW w \in Workers, Die(w)
      PROVE  BaseInv'
  BY <1>0, <1>7
  DEF Die, JobsApart, InTime, CallsLeased, LeasesStamped, TypeOK, bucketVars, Busy
<1>8. CASE Tick
  <2>1. \A w \in Workers : clock - now[w] < Patience(w)
    BY <1>8 DEF Tick
  <2>2. InTime'
    BY <1>8, <1>a, <2>1, TimesAreNumbers DEF Tick, workerVars, Patience, InTime
  <2>. QED BY <1>0, <1>8, <2>2
           DEF Tick, workerVars, bucketVars, JobsApart, CallsLeased, LeasesStamped
<1>9. CASE UNCHANGED vars
  BY <1>0, <1>9
  DEF vars, bucketVars, workerVars, JobsApart, InTime, CallsLeased, LeasesStamped
<1>. QED BY <1>1, <1>2, <1>3, <1>4, <1>5, <1>6, <1>7, <1>8, <1>9 DEF Next, Transact

LEMMA BaseInvHolds == Spec => []BaseInv
  BY BaseInit, BaseStep, PTL DEF Spec

\* The clock, the buckets, their leases and locks and the workers keep their types:
\* the tokens never exceed the burst, nothing is stamped in the future.
THEOREM TypeCorrect == Spec => []TypeOK
<1>1. BaseInv => TypeOK
  BY DEF BaseInv
<1>. QED BY <1>1, BaseInvHolds, PTL

-----------------------------------------------------------------------------
\* The ceiling.  Units are counted as leases that have not run out: time and
\* releases only take from them, and an acquisition adds one at most.

Active(p, t) == {a \in Attempts : lease[p][a] > t}
WithinCeiling == \A p \in Pools : Cardinality(Active(p, clock)) <= Ceiling[p]

LEMMA ActiveFinite ==
  ASSUME NEW p, NEW t
  PROVE  IsFiniteSet(Active(p, t)) /\ Cardinality(Active(p, t)) \in Nat
<1>1. Active(p, t) \in SUBSET Attempts
  BY DEF Active
<1>. QED BY <1>1, PoolAssumption, FS_Subset, FS_CardinalityType

\* A pool whose units are among those it had stays within the ceiling.
LEMMA FewerUnits ==
  ASSUME WithinCeiling, NEW p \in Pools, Active(p, clock)' \subseteq Active(p, clock)
  PROVE  Cardinality(Active(p, clock)') <= Ceiling[p]
<1>1. Cardinality(Active(p, clock)') <= Cardinality(Active(p, clock))
  BY ActiveFinite, FS_Subset
<1>2. IsFiniteSet(Active(p, clock)') /\ Cardinality(Active(p, clock)') \in Nat
  BY ActiveFinite, FS_Subset, FS_CardinalityType
<1>. QED BY <1>1, <1>2, ActiveFinite, PoolAssumption DEF WithinCeiling

LEMMA CeilingStep ==
  ASSUME BaseInv, WithinCeiling, [Next]_vars
  PROVE  WithinCeiling'
<1> USE DEF BaseInv
<1>1. ASSUME NEW p \in Pools,
             \A a \in Attempts : lease'[p][a] <= lease[p][a]
      PROVE  Cardinality(Active(p, clock)') <= Ceiling[p]
  <2>1. clock \in Nat /\ clock' \in Nat /\ clock <= clock'
    BY TypeStep, TimesAreNumbers
    DEF TypeOK, Next, Transact, Begin, LockBucket, Park, Acquire, EndCall, Release, Die,
        Tick, vars
  <2>2. \A a \in Attempts : lease[p][a] \in Int /\ lease'[p][a] \in Int
    BY TypeStep DEF TypeOK
  <2>3. Active(p, clock)' \subseteq Active(p, clock)
    BY <1>1, <2>1, <2>2 DEF Active
  <2>. QED BY <2>3, FewerUnits
<1>2. CASE lease' = lease
  <2>1. \A p \in Pools, a \in Attempts : lease'[p][a] <= lease[p][a]
    BY <1>2 DEF TypeOK
  <2>. QED BY <1>1, <2>1 DEF WithinCeiling
<1>3. ASSUME NEW w \in Workers, Release(w)
      PROVE  WithinCeiling'
  <2>1. \A p \in Pools, a \in Attempts : lease'[p][a] <= lease[p][a]
    BY <1>3 DEF Release, TypeOK, LeasesStamped, Unleased
  <2>. QED BY <1>1, <2>1 DEF WithinCeiling
<1>4. ASSUME NEW w \in Workers, Acquire(w)
      PROVE  WithinCeiling'
  <2>1. job[w] \in Attempts /\ now[w] \in Nat /\ clock \in Nat /\ now[w] <= clock
    BY <1>4, TimesAreNumbers DEF Acquire, JobsApart, Busy, TypeOK
  <2>2. ASSUME NEW p \in Pools, p \in PoolsOf(job[w])
        PROVE  Cardinality(Active(p, clock)') <= Ceiling[p]
    <3>1. Cardinality(Active(p, now[w])) + 1 <= Ceiling[p]
      <4>1. ~ (ActiveUnits(p, now[w]) + 1 > Ceiling[p])
        BY <1>4, <2>2 DEF Acquire, Refused, PoolRefuses
      <4>2. ActiveUnits(p, now[w]) = Cardinality(Active(p, now[w]))
        BY DEF ActiveUnits, Active
      <4>. QED BY <4>1, <4>2, ActiveFinite, PoolAssumption
    <3>2. Active(p, clock)' \subseteq Active(p, now[w]) \cup {job[w]}
      <4>1. ASSUME NEW a \in Attempts, a # job[w], lease'[p][a] > clock'
            PROVE  lease[p][a] > now[w]
        <5>1. lease'[p][a] = lease[p][a] /\ clock' = clock /\ lease[p][a] \in Int
          BY <1>4, <4>1 DEF Acquire, TypeOK
        <5>. QED BY <2>1, <4>1, <5>1
      <4>. QED BY <4>1 DEF Active
    <3>3. /\ IsFiniteSet(Active(p, now[w]) \cup {job[w]})
          /\ Cardinality(Active(p, now[w]) \cup {job[w]})
               <= Cardinality(Active(p, now[w])) + 1
      <4> DEFINE A == Active(p, now[w])
      <4>1. IsFiniteSet(A) /\ Cardinality(A) \in Nat
        BY ActiveFinite
      <4>2. /\ IsFiniteSet(A \cup {job[w]})
            /\ Cardinality(A \cup {job[w]})
                 = IF job[w] \in A THEN Cardinality(A) ELSE Cardinality(A) + 1
        BY <4>1, FS_AddElement
      <4>. QED BY <4>1, <4>2
    <3>4. /\ Cardinality(Active(p, clock)')
               <= Cardinality(Active(p, now[w]) \cup {job[w]})
          /\ IsFiniteSet(Active(p, clock)')
      BY <3>2, <3>3, FS_Subset
    <3>5. /\ Cardinality(Active(p, clock)') \in Nat
          /\ Cardinality(Active(p, now[w])) \in Nat
          /\ Cardinality(Active(p, now[w]) \cup {job[w]}) \in Nat
      BY <3>3, <3>4, ActiveFinite, FS_CardinalityType
    <3>. QED BY <3>1, <3>3, <3>4, <3>5, PoolAssumption
  <2>3. ASSUME NEW p \in Pools, p \notin PoolsOf(job[w])
        PROVE  Cardinality(Active(p, clock)') <= Ceiling[p]
    <3>1. \A a \in Attempts : lease'[p][a] <= lease[p][a]
      BY <1>4, <2>3 DEF Acquire, TypeOK
    <3>. QED BY <1>1, <3>1
  <2>. QED BY <2>2, <2>3 DEF WithinCeiling
<1>. QED
  BY <1>2, <1>3, <1>4
  DEF Next, Transact, Begin, LockBucket, Park, EndCall, Die, Tick, vars, bucketVars

\* A call in flight is a unit that counts: each has an attempt of its own, and
\* its lease has not run out.
LEMMA CallsAreActive ==
  ASSUME BaseInv, WithinCeiling, NEW p \in Pools
  PROVE  Cardinality({w \in Workers : phase[w] = "calling" /\ p \in PoolsOf(job[w])})
           <= Ceiling[p]
<1> DEFINE C == {w \in Workers : phase[w] = "calling" /\ p \in PoolsOf(job[w])}
           f == [w \in C |-> job[w]]
<1>1. \A w \in C : job[w] \in Active(p, clock)
  <2> SUFFICES ASSUME NEW w \in C
               PROVE  job[w] \in Active(p, clock)
    OBVIOUS
  <2>1. job[w] \in Attempts
    BY DEF BaseInv, TypeOK, JobsApart, Busy
  <2>2. lease[p][job[w]] > now[w] + CallTimeout /\ clock <= now[w] + CallTimeout
    BY DEF BaseInv, CallsLeased, InTime
  <2>3. lease[p][job[w]] \in Int /\ now[w] \in Int /\ clock \in Int /\ CallTimeout \in Int
    BY <2>1, TimesAreNumbers DEF BaseInv, TypeOK
  <2>. QED BY <2>1, <2>2, <2>3 DEF Active
<1>2. \A v, w \in C : f[v] = f[w] => v = w
  BY DEF BaseInv, JobsApart, Busy
<1>3. f \in Injection(C, Active(p, clock))
  BY <1>1, <1>2 DEF Injection, IsInjective
<1>4. IsFiniteSet(C) /\ Cardinality(C) <= Cardinality(Active(p, clock))
  BY <1>3, ActiveFinite, FS_Injection
<1>5. Cardinality(C) \in Nat
  BY <1>4, FS_CardinalityType
<1>. QED BY <1>4, <1>5, ActiveFinite, PoolAssumption DEF WithinCeiling

\* No pool counts more units than its ceiling, nor are there more calls in flight
\* on it: whatever died, and however long transactions waited for their locks.
THEOREM CeilingRespectedHolds == Spec => []CeilingRespected
<1>1. Init => WithinCeiling
  <2> SUFFICES ASSUME Init, NEW p \in Pools
               PROVE  Cardinality(Active(p, clock)) <= Ceiling[p]
    BY DEF WithinCeiling
  <2>1. Active(p, clock) = {}
    BY DEF Init, Active, Unleased
  <2>. QED BY <2>1, FS_EmptySet, PoolAssumption
<1>2. BaseInv /\ WithinCeiling => CeilingRespected
  BY CallsAreActive DEF WithinCeiling, CeilingRespected, ActiveUnits, Active
<1>. QED BY <1>1, <1>2, BaseInvHolds, CeilingStep, PTL DEF Spec

-----------------------------------------------------------------------------
\* Pacing.  What was started and what is left was in the first burst or was earned
\* up to the last refill, the time that refills were dated back counted again.

PacingInv == starts + tokens <= Burst + Rate * (refilledAt + replayed)

\* A refill to a time t earns what the rate allows for the time since the last one,
\* and nothing when t is before it.
LEMMA RefillEarns ==
  ASSUME TypeOK, PacingInv, NEW t \in Nat, Refill(t)
  PROVE  starts + Refilled(t) <= Burst + Rate * (refilledAt' + replayed')
<1>1. /\ Rate \in Nat /\ Burst \in Nat /\ refilledAt \in Nat /\ replayed \in Nat
      /\ tokens \in Nat /\ starts \in Nat
  BY RateAssumption DEF TypeOK
<1>2. Refilled(t) \in Nat
  BY RefilledType
<1>3. CASE refilledAt <= t
  <2>1. refilledAt' = t /\ replayed' = replayed
    BY <1>1, <1>3 DEF Refill, LargerOf
  <2>2. Refilled(t) <= tokens + Rate * (t - refilledAt)
    BY <1>3, RefilledType
  <2>3. Rate * (t + replayed) = Rate * (refilledAt + replayed) + Rate * (t - refilledAt)
    BY <1>1
  <2>4. Rate * (refilledAt + replayed) \in Nat /\ Rate * (t - refilledAt) \in Nat
    BY <1>1, <1>3
  <2>. QED BY <1>1, <1>2, <2>1, <2>2, <2>3, <2>4 DEF PacingInv
<1>4. CASE t < refilledAt
  <2>1. refilledAt' + replayed' = refilledAt + replayed
    BY <1>1, <1>4 DEF Refill, LargerOf
  <2>2. Refilled(t) <= tokens
    <3>1. LargerOf(0, t - refilledAt) = 0
      BY <1>1, <1>4 DEF LargerOf
    <3>2. Rate * 0 = 0
      BY <1>1
    <3>. QED BY <1>1, <3>1, <3>2 DEF Refilled, SmallerOf
  <2>3. Rate * (refilledAt + replayed) \in Nat
    BY <1>1
  <2>. QED BY <1>1, <1>2, <2>1, <2>2, <2>3 DEF PacingInv
<1>. QED BY <1>1, <1>3, <1>4

\* A transaction has waited for MaxWait at most, so it dates a refill back by no more.
LEMMA SetbackBounded ==
  ASSUME BaseInv, NEW w \in Workers, phase[w] = "acquiring", Refill(now[w])
  PROVE  now[w] \in Nat /\ replayed' <= replayed + MaxWait
<1>1. /\ now[w] \in Nat /\ clock \in Nat /\ refilledAt \in Nat /\ refilledAt <= clock
      /\ replayed \in Nat /\ MaxWait \in Nat
  BY TimesAreNumbers DEF BaseInv, TypeOK
<1>2. refilledAt - now[w] <= MaxWait
  BY <1>1 DEF BaseInv, InTime
<1>. QED BY <1>1, <1>2 DEF Refill, LargerOf

LEMMA PacingStep ==
  ASSUME BaseInv, PacingInv, [Next]_vars
  PROVE  PacingInv' /\ replayed' <= replayed + MaxWait
<1> USE DEF BaseInv
<1>1. ASSUME UNCHANGED pacing
      PROVE  PacingInv' /\ replayed' <= replayed + MaxWait
  BY <1>1, TimesAreNumbers DEF PacingInv, pacing, TypeOK
<1>2. ASSUME NEW w \in Workers, Park(w)
      PROVE  PacingInv' /\ replayed' <= replayed + MaxWait
  <2>1. CASE ReachesPacing(w)
    <3>1. Refill(now[w]) /\ tokens' = Refilled(now[w]) /\ starts' = starts
      BY <1>2, <2>1 DEF Park
    <3>2. now[w] \in Nat /\ replayed' <= replayed + MaxWait
      BY <1>2, <3>1, SetbackBounded DEF Park
    <3>3. starts + Refilled(now[w]) <= Burst + Rate * (refilledAt' + replayed')
      BY <3>1, <3>2, RefillEarns
    <3>. QED BY <3>1, <3>2, <3>3 DEF PacingInv
  <2>2. CASE ~ReachesPacing(w)
    BY <1>1, <1>2, <2>2 DEF Park
  <2>. QED BY <2>1, <2>2
<1>3. ASSUME NEW w \in Workers, Acquire(w)
      PROVE  PacingInv' /\ replayed' <= replayed + MaxWait
  <2>1. CASE Configured
    <3>1. /\ Refill(now[w]) /\ starts' = starts + 1
          /\ tokens' = Refilled(now[w]) - 1
      BY <1>3, <2>1 DEF Acquire
    <3>2. now[w] \in Nat /\ replayed' <= replayed + MaxWait
      BY <1>3, <3>1, SetbackBounded DEF Acquire
    <3>3. starts + Refilled(now[w]) <= Burst + Rate * (refilledAt' + replayed')
      BY <3>1, <3>2, RefillEarns
    <3>4. starts \in Nat /\ Refilled(now[w]) \in Int
      BY <3>2, RefilledType DEF TypeOK
    <3>5. (starts + 1) + (Refilled(now[w]) - 1) = starts + Refilled(now[w])
      BY <3>4
    <3>. QED BY <3>1, <3>2, <3>3, <3>5 DEF PacingInv
  <2>2. CASE ~Configured
    BY <1>1, <1>3, <2>2 DEF Acquire
  <2>. QED BY <2>1, <2>2
<1>. QED
  BY <1>1, <1>2, <1>3
  DEF Next, Transact, Begin, LockBucket, EndCall, Release, Die, Tick, vars, bucketVars,
      pacing

\* What was earned up to the last refill was earned by now.
LEMMA EarnedByNow ==
  ASSUME NEW started \in Nat, NEW left \in Nat, NEW last \in Nat, NEW today \in Nat,
         NEW again \in Nat, last <= today,
         started + left <= Burst + Rate * (last + again)
  PROVE  started <= Burst + Rate * (today + again)
<1>1. Rate * (today + again) = Rate * (last + again) + Rate * (today - last)
  BY RateAssumption
<1>2. Rate * (last + again) \in Nat /\ Rate * (today - last) \in Nat
  BY RateAssumption
<1>. QED BY <1>1, <1>2, RateAssumption

\* However long transactions wait for their locks, the paced calls that started are
\* covered by the burst, what the rate earned since and what it earned twice because
\* a late transaction dated the refill back, by MaxWait at most each time.
THEOREM StartsAreAccounted == Spec => StartsAccounted
<1>1. Init => PacingInv
  BY RateAssumption DEF Init, PacingInv
<1>2. ASSUME TypeOK', PacingInv'
      PROVE  starts' <= Burst + Rate * (clock' + replayed')
  <2>1. /\ starts' \in Nat /\ replayed' \in Nat /\ tokens' \in 0 .. Burst
        /\ clock' \in 0 .. MaxClock /\ refilledAt' \in 0 .. clock'
    BY <1>2 DEF TypeOK
  <2>2. starts' + tokens' <= Burst + Rate * (refilledAt' + replayed')
    BY <1>2 DEF PacingInv
  <2>3. clock' \in Nat /\ refilledAt' \in Nat /\ tokens' \in Nat
    BY <2>1, TimesAreNumbers, RateAssumption
  <2>4. refilledAt' <= clock'
    BY <2>1, <2>3
  <2>. QED BY <2>1, <2>2, <2>3, <2>4, EarnedByNow
<1>3. BaseInv /\ PacingInv /\ [Next]_vars
        => [/\ starts' <= Burst + Rate * (clock' + replayed')
            /\ replayed' <= replayed + MaxWait]_vars
  BY <1>2, PacingStep, BaseStep DEF BaseInv
<1>4. BaseInv /\ PacingInv /\ [Next]_vars => PacingInv'
  BY PacingStep
<1>. QED BY <1>1, <1>3, <1>4, BaseInvHolds, PTL DEF Spec, StartsAccounted

-----------------------------------------------------------------------------
\* The shared cooldown.

LEMMA CooldownStep ==
  ASSUME BaseInv, [Next]_vars, NEW p \in Pools
  PROVE  /\ blockedUntil'[p] >= blockedUntil[p]
         /\ blockedUntil[p] > clock => \A a \in Attempts : lease'[p][a] <= lease[p][a]
<1> USE DEF BaseInv
<1>0. blockedUntil[p] \in Nat /\ \A a \in Attempts : lease[p][a] \in Int
  BY DEF TypeOK
<1>1. CASE UNCHANGED <<blockedUntil, lease>>
  BY <1>0, <1>1
<1>2. ASSUME NEW w \in Workers, Acquire(w)
      PROVE  /\ blockedUntil'[p] >= blockedUntil[p]
             /\ blockedUntil[p] > clock => \A a \in Attempts : lease'[p][a] <= lease[p][a]
  <2>1. blockedUntil' = blockedUntil
    BY <1>2 DEF Acquire
  <2>2. ASSUME blockedUntil[p] > clock
        PROVE  p \notin PoolsOf(job[w])
    <3>1. now[w] \in Nat /\ clock \in Nat /\ now[w] <= clock
      BY TimesAreNumbers DEF TypeOK
    <3>2. PoolRefuses(p, now[w])
      BY <1>0, <2>2, <3>1 DEF PoolRefuses
    <3>. QED BY <1>2, <3>2 DEF Acquire, Refused
  <2>3. p \notin PoolsOf(job[w]) => lease'[p] = lease[p]
    BY <1>2 DEF Acquire
  <2>. QED BY <1>0, <2>1, <2>2, <2>3
<1>3. ASSUME NEW w \in Workers, Release(w)
      PROVE  /\ blockedUntil'[p] >= blockedUntil[p]
             /\ \A a \in Attempts : lease'[p][a] <= lease[p][a]
  <2>1. \A a \in Attempts : lease'[p][a] <= lease[p][a]
    BY <1>3 DEF Release, TypeOK, LeasesStamped, Unleased
  <2>2. blockedUntil'[p] >= blockedUntil[p]
    <3>1. now[w] \in Nat
      BY TimesAreNumbers DEF TypeOK
    <3>2. \A cooldown \in 0 .. MaxCooldown : Raised(p, now[w] + cooldown) >= blockedUntil[p]
      BY <1>0, <3>1, TimesAreNumbers DEF Raised, LargerOf
    <3>. QED BY <1>0, <1>3, <3>2 DEF Release
  <2>. QED BY <2>1, <2>2
<1>. QED
  BY <1>1, <1>2, <1>3
  DEF Next, Transact, Begin, LockBucket, Park, EndCall, Die, Tick, vars, bucketVars

\* A cooldown in force admits no call that draws on the pool, and is never
\* shortened.
THEOREM CooldownsHoldAlways == Spec => CooldownsHold
<1>1. BaseInv /\ [Next]_vars
        => [\A p \in Pools :
              /\ blockedUntil'[p] >= blockedUntil[p]
              /\ blockedUntil[p] > clock =>
                   \A a \in Attempts : lease'[p][a] <= lease[p][a]]_vars
  BY CooldownStep
<1>. QED BY <1>1, BaseInvHolds, PTL DEF Spec, CooldownsHold
=============================================================================
