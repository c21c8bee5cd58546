-------------------------- MODULE ProviderCapacity --------------------------
(***************************************************************************)
(* The shared pools a provider call draws on                               *)
(* (src/backend/app/orchestration/provider_capacity.py).                   *)
(*                                                                         *)
(* Acquiring and releasing are transactions that lock the request's buckets *)
(* one after the other in the canonical order and decide when they have     *)
(* them all.  Both read the clock before the first lock, so the time they   *)
(* work with may be older than what they find in the bucket, by MaxWait at  *)
(* most.                                                                   *)
(*                                                                         *)
(* Every request asks for one unit.  Time is a bounded clock; buckets exist *)
(* from the start, full.  The live re-sync of ceilings is left out: the      *)
(* configuration does not change.                                          *)
(***************************************************************************)
EXTENDS Integers, Sequences, FiniteSets

CONSTANTS
  Workers,
  Attempts,      \* (task_id, attempt_number) pairs
  Pools,
  Transport,     \* the pool that is paced besides being counted
  Draws,         \* [Attempts -> Seq(Pools)]: _bucket_specs, canonical order
  Funded,        \* the attempts on a platform credential
  Ceiling,       \* [Pools -> Nat]
  Configured,    \* the route has rates
  Burst, Rate,   \* the route's token capacity and its refill per tick
  LeaseTTL,      \* capacity_lease_ttl_seconds
  CallTimeout,   \* the frozen per-call ceiling
  MaxCooldown,   \* the route's max_cooldown_seconds
  Mortal,        \* workers that may die
  NoAttempt, Free,
  MaxClock, MaxWait   \* bounds: the clock, and how long a lock is waited for

ASSUME PoolAssumption ==
  /\ Transport \in Pools
  /\ Ceiling \in [Pools -> Nat]
  /\ IsFiniteSet(Attempts)
  /\ Draws \in [Attempts -> Seq(Pools)]
  /\ NoAttempt \notin Attempts
  /\ Free \notin Workers
ASSUME RateAssumption ==
  /\ Burst \in Nat
  /\ Rate \in Nat
  /\ Configured \in BOOLEAN
\* A lease outlives the call it was taken for: 240 s against 60 s.
ASSUME TimeAssumption ==
  /\ {LeaseTTL, CallTimeout, MaxCooldown, MaxClock, MaxWait} \subseteq Nat
  /\ LeaseTTL > MaxWait + CallTimeout

VARIABLES
  clock,
  tokens,        \* transport bucket: starts left
  refilledAt,    \* transport bucket: when they were last topped up
  blockedUntil,  \* [Pools -> Nat]: shared cooldown, 0 for none
  lease,         \* [Pools -> [Attempts -> Int]]: expires_at, -1 when released
  lock,          \* [Pools -> Workers \cup {Free}]: FOR UPDATE on the bucket row
  phase,         \* [Workers -> Phase]
  job,           \* [Workers -> Attempts \cup {NoAttempt}]
  now,           \* [Workers -> Nat]: the transaction's time, then the call's
  starts,        \* history: paced call starts
  replayed       \* history: ticks by which the last refill was dated back

bucketVars == <<tokens, refilledAt, blockedUntil, lease>>
workerVars == <<phase, job, now>>
pacing == <<tokens, refilledAt, starts, replayed>>
vars == <<clock, bucketVars, lock, workerVars, starts, replayed>>

Phase == {"idle", "acquiring", "calling", "releasing", "dead"}
Unleased == -1

TypeOK ==
  /\ clock \in 0 .. MaxClock
  /\ tokens \in 0 .. Burst
  /\ refilledAt \in 0 .. clock
  /\ blockedUntil \in [Pools -> Nat]
  /\ lease \in [Pools -> [Attempts -> Int]]
  /\ lock \in [Pools -> Workers \cup {Free}]
  /\ phase \in [Workers -> Phase]
  /\ job \in [Workers -> Attempts \cup {NoAttempt}]
  /\ now \in [Workers -> 0 .. clock]
  /\ starts \in Nat
  /\ replayed \in Nat

Init ==
  /\ clock = 0
  /\ tokens = Burst
  /\ refilledAt = 0
  /\ blockedUntil = [p \in Pools |-> 0]
  /\ lease = [p \in Pools |-> [a \in Attempts |-> Unleased]]
  /\ lock = [p \in Pools |-> Free]
  /\ phase = [w \in Workers |-> "idle"]
  /\ job = [w \in Workers |-> NoAttempt]
  /\ now = [w \in Workers |-> 0]
  /\ starts = 0
  /\ replayed = 0

PoolsOf(a) == {Draws[a][i] : i \in DOMAIN Draws[a]}   \* no pool twice
Locked(w) == {p \in Pools : lock[p] = w}
HasLocks(w) == Locked(w) = PoolsOf(job[w])
Unlock(w) == lock' = [p \in Pools |-> IF lock[p] = w THEN Free ELSE lock[p]]

\* Mutation: a release locks in the reverse order.
NextLockReversedOnRelease(w) ==
  LET d == Draws[job[w]]
      n == Cardinality(Locked(w))
  IN IF phase[w] = "releasing" THEN d[Len(d) - n] ELSE d[n + 1]

\* The first pool of the canonical order that is not locked yet.
NextLock(w) == Draws[job[w]][Cardinality(Locked(w)) + 1]

\* Units of a pool that count at time t: released and expired leases do not.
ActiveUnits(p, t) == Cardinality({a \in Attempts : lease[p][a] > t})

-----------------------------------------------------------------------------
\* acquire_provider_capacity

\* Nobody else is executing the attempt: the queue leased its task to w.
Begin(w) ==
  /\ phase[w] = "idle"
  /\ \E a \in Attempts :
       /\ \A v \in Workers : job[v] # a
       /\ job' = [job EXCEPT ![w] = a]
  /\ phase' = [phase EXCEPT ![w] = "acquiring"]
  /\ now' = [now EXCEPT ![w] = clock]
  /\ UNCHANGED <<clock, bucketVars, lock, starts, replayed>>

\* Wait for the next bucket row, or go on to it.
LockBucket(w) ==
  /\ phase[w] \in {"acquiring", "releasing"}
  /\ ~HasLocks(w)
  /\ lock[NextLock(w)] = Free
  /\ lock' = [lock EXCEPT ![NextLock(w)] = w]
  /\ UNCHANGED <<clock, bucketVars, workerVars, starts, replayed>>

\* Mutation: the ceiling is checked off by one.
PoolRefusesLate(p, t) == blockedUntil[p] > t \/ ActiveUnits(p, t) > Ceiling[p]

\* Refused by the shared cooldown or by the ceiling.
PoolRefuses(p, t) == blockedUntil[p] > t \/ ActiveUnits(p, t) + 1 > Ceiling[p]

SmallerOf(a, b) == IF a <= b THEN a ELSE b
LargerOf(a, b) == IF a >= b THEN a ELSE b

\* Mutation: every refill credits the whole time since the start.
RefilledFromStart(t) == SmallerOf(Burst, tokens + Rate * t)

\* _refill_tokens: never more than the burst, nothing for a negative interval.
Refilled(t) == SmallerOf(Burst, tokens + Rate * LargerOf(0, t - refilledAt))

\* refilled_at takes the transaction's time, also when that is before the last
\* refill: the next one credits the interval in between again.
Refill(t) ==
  /\ refilledAt' = t
  /\ replayed' = replayed + LargerOf(0, refilledAt - t)

\* The transport pool is checked first, and reaching its token check refills it,
\* whatever is decided afterwards.
ReachesPacing(w) == Configured /\ ~PoolRefuses(Transport, now[w])

PacingRefuses(w) ==
  IF Configured THEN Refilled(now[w]) < 1 ELSE job[w] \in Funded

Refused(w) ==
  \/ \E p \in PoolsOf(job[w]) : PoolRefuses(p, now[w])
  \/ PacingRefuses(w)

\* Parked: the slot goes back to its queue.
Park(w) ==
  /\ phase[w] = "acquiring"
  /\ HasLocks(w)
  /\ Refused(w)
  /\ IF ReachesPacing(w)
       THEN Refill(now[w]) /\ tokens' = Refilled(now[w]) /\ UNCHANGED starts
       ELSE UNCHANGED pacing
  /\ Unlock(w)
  /\ phase' = [phase EXCEPT ![w] = "idle"]
  /\ job' = [job EXCEPT ![w] = NoAttempt]
  /\ UNCHANGED <<clock, blockedUntil, lease, now>>

\* The lease of an earlier acquisition of the same attempt is refreshed.
Acquire(w) ==
  /\ phase[w] = "acquiring"
  /\ HasLocks(w)
  /\ ~Refused(w)
  /\ lease' = [p \in Pools |->
       IF p \in PoolsOf(job[w])
         THEN [lease[p] EXCEPT ![job[w]] = now[w] + LeaseTTL]
         ELSE lease[p]]
  /\ IF Configured
       THEN /\ Refill(now[w])
            /\ tokens' = Refilled(now[w]) - 1
            /\ starts' = starts + 1
       ELSE UNCHANGED pacing
  /\ Unlock(w)
  /\ phase' = [phase EXCEPT ![w] = "calling"]
  /\ now' = [now EXCEPT ![w] = clock]
  /\ UNCHANGED <<clock, blockedUntil, job>>

-----------------------------------------------------------------------------
\* The call and release_provider_capacity

EndCall(w) ==
  /\ phase[w] = "calling"
  /\ phase' = [phase EXCEPT ![w] = "releasing"]
  /\ now' = [now EXCEPT ![w] = clock]
  /\ UNCHANGED <<clock, bucketVars, lock, job, starts, replayed>>

\* Mutation: the cooldown is overwritten, not raised.
RaisedOverwriting(p, until) == until

Raised(p, until) == LargerOf(blockedUntil[p], until)

\* Only a 429 writes the cooldown, clamped to the route's maximum, on every pool
\* the request drew from.  Tokens stay consumed.
Release(w) ==
  /\ phase[w] = "releasing"
  /\ HasLocks(w)
  /\ lease' = [p \in Pools |->
       IF p \in PoolsOf(job[w])
         THEN [lease[p] EXCEPT ![job[w]] = Unleased] ELSE lease[p]]
  /\ \/ UNCHANGED blockedUntil
     \/ \E cooldown \in 0 .. MaxCooldown :
          blockedUntil' = [p \in Pools |->
            IF p \in PoolsOf(job[w])
              THEN Raised(p, now[w] + cooldown) ELSE blockedUntil[p]]
  /\ Unlock(w)
  /\ phase' = [phase EXCEPT ![w] = "idle"]
  /\ job' = [job EXCEPT ![w] = NoAttempt]
  /\ UNCHANGED <<clock, tokens, refilledAt, now, starts, replayed>>

\* A process dies: its transaction rolls back, its leases stay.
Die(w) ==
  /\ w \in Mortal
  /\ phase[w] # "dead"
  /\ Unlock(w)
  /\ phase' = [phase EXCEPT ![w] = "dead"]
  /\ job' = [job EXCEPT ![w] = NoAttempt]
  /\ UNCHANGED <<clock, bucketVars, now, starts, replayed>>

\* Calls end within their timeout and locks are granted within MaxWait.
Patience(w) ==
  CASE phase[w] = "calling" -> CallTimeout
    [] phase[w] \in {"acquiring", "releasing"} -> MaxWait
    [] OTHER -> MaxClock

Tick ==
  /\ clock < MaxClock
  /\ \A w \in Workers : clock - now[w] < Patience(w)
  /\ clock' = clock + 1
  /\ UNCHANGED <<bucketVars, lock, workerVars, starts, replayed>>

-----------------------------------------------------------------------------
Transact(w) == LockBucket(w) \/ Park(w) \/ Acquire(w) \/ Release(w)

Next ==
  \/ \E w \in Workers : Begin(w) \/ Transact(w) \/ EndCall(w) \/ Die(w)
  \/ Tick

Spec == Init /\ [][Next]_vars

\* A transaction that has its locks commits, and row locks are granted in the
\* order they are asked for: nobody is passed over for ever.
FairSpec ==
  /\ Spec
  /\ \A w \in Workers : WF_vars(Transact(w)) /\ SF_vars(LockBucket(w))

-----------------------------------------------------------------------------
\* Properties

\* No pool ever counts more units than its ceiling, whoever crashed or waited,
\* and the calls really in flight on it stay within the ceiling too: a lease is
\* not forgotten while its call runs.
CeilingRespected ==
  \A p \in Pools :
    /\ ActiveUnits(p, clock) <= Ceiling[p]
    /\ Cardinality({w \in Workers : phase[w] = "calling" /\ p \in PoolsOf(job[w])})
         <= Ceiling[p]

\* What the pacing guarantees when transactions wait for their locks: the paced
\* starts are covered by one burst, what the rate earned since, and what it earned
\* again for the time by which a late transaction dated the refill back, MaxWait at
\* most each time.
StartsAccounted ==
  [][/\ starts' <= Burst + Rate * (clock' + replayed')
     /\ replayed' <= replayed + MaxWait]_vars

\* A cooldown that is visible is respected by every later acquisition and no 429
\* shortens it.
CooldownsHold ==
  [][\A p \in Pools :
       /\ blockedUntil'[p] >= blockedUntil[p]
       /\ blockedUntil[p] > clock =>
            \A a \in Attempts : lease'[p][a] <= lease[p][a]]_vars

\* The lock order is deadlock-free: whoever begins a transaction ends it.
TransactionsEnd ==
  \A w \in Workers :
    phase[w] \in {"acquiring", "releasing"}
      ~> phase[w] \notin {"acquiring", "releasing"}

-----------------------------------------------------------------------------
\* What the repository says of the pacing and the code refutes

\* "refill_tokens_per_second is the sustained start rate": no more paced starts
\* than one burst and what was refilled since.
PacingRespected == starts <= Burst + Rate * clock
=============================================================================
