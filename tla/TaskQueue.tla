----------------------------- MODULE TaskQueue -----------------------------
(***************************************************************************)
(* PostgresTaskQueue and the worker slots that use it                      *)
(* (src/backend/app/orchestration/postgres_task_queue.py).                 *)
(*                                                                         *)
(* Every operation of the queue is one short transaction that locks its    *)
(* rows, so each is one action; between two operations of a slot anything   *)
(* may happen.  The claim is the exception: its statement finds candidates  *)
(* in a snapshot and locks them afterwards, and the status condition sits   *)
(* inside the ranking subquery, so a row whose lock is obtained late is     *)
(* re-checked against the join on its id only.                             *)
(*                                                                         *)
(* A slot is one coroutine of a worker process.  The slots of a process     *)
(* share its lease_owner string (AuditWorker.owner), and a process that     *)
(* restarts draws a new one: crashed slots do not come back.  The order in   *)
(* which a claim prefers its candidates is FairClaim's subject: here any     *)
(* eligible row may be picked.                                             *)
(***************************************************************************)
EXTENDS TaskRow, FiniteSets

CONSTANTS
  Tasks,
  Slots,
  NoTask,        \* a slot that works on nothing
  Nobody,        \* a task nobody executes (history only)
  OwnerOf,       \* [Slots -> Owners]: the process of each slot
  SweepBatch     \* release_expired(batch_size = ...)

ASSUME SlotAssumption ==
  /\ NoTask \notin Tasks
  /\ Nobody \notin Slots
  /\ OwnerOf \in [Slots -> Owners]
ASSUME SweepAssumption == SweepBatch \in Nat \ {0}

VARIABLES
  row,      \* [Tasks -> Row]: the queue table
  pc,       \* [Slots -> Phase]: where a slot's coroutine is
  work,     \* [Slots -> Tasks \cup {NoTask}]: the task it claimed
  seen,     \* [Slots -> SUBSET Tasks]: candidates of an unfinished claim
  holder,   \* [Tasks -> Slots \cup {Nobody}]: history, the last slot to lease
  crossed   \* SUBSET Tasks: history, the tasks a claim took out of turn

vars == <<row, pc, work, seen, holder, crossed>>
slotVars == <<pc, work, seen, crossed>>

\* "idle" polls; "claiming" has a snapshot and no lock yet; "claimed" and
\* "calling" execute; the rest has persisted its attempt (or decided without
\* one) and still has to tell the queue.
Phase == {"idle", "claiming", "claimed", "calling",
          "to_succeed", "to_fail", "to_retry", "dead"}
Executing == {"claimed", "calling"}
Reporting == {"to_succeed", "to_fail", "to_retry"}

\* Bound of the model: one attempt past the budget is enough to see the budget
\* broken; a slot that would record more waits.
AttemptBound == MaxAttempts + 1

RowTypes ==
  /\ row \in [Tasks -> Row]
  /\ holder \in [Tasks -> Slots \cup {Nobody}]
  /\ crossed \in SUBSET Tasks

SlotTypes ==
  /\ pc \in [Slots -> Phase]
  /\ work \in [Slots -> Tasks \cup {NoTask}]
  /\ seen \in [Slots -> SUBSET Tasks]
  /\ \A s \in Slots :
       /\ work[s] = NoTask <=> pc[s] \in {"idle", "claiming", "dead"}
       /\ seen[s] # {} => pc[s] = "claiming"

TypeOK == RowTypes /\ SlotTypes

Init ==
  /\ row = [t \in Tasks |-> NewRow]
  /\ pc = [s \in Slots |-> "idle"]
  /\ work = [s \in Slots |-> NoTask]
  /\ seen = [s \in Slots |-> {}]
  /\ holder = [t \in Tasks |-> Nobody]
  /\ crossed = {}

\* The queue row a slot works on still carries the slot's owner string.
Holds(s) == work[s] # NoTask /\ OwnedBy(row[work[s]], OwnerOf[s])

MoveTo(s, phase) ==
  /\ pc' = [pc EXCEPT ![s] = phase]
  /\ work' = IF phase = "idle" THEN [work EXCEPT ![s] = NoTask] ELSE work
  /\ UNCHANGED <<seen, crossed>>

\* A slot's operation that lets the row go: nothing happens to a row that
\* carries another owner string or none.
Release(s, newRow) ==
  IF Holds(s)
    THEN /\ row' = [row EXCEPT ![work[s]] = newRow]
         /\ holder' = [holder EXCEPT ![work[s]] = Nobody]
    ELSE UNCHANGED <<row, holder>>

-----------------------------------------------------------------------------
\* claim()

\* What the owner check of the later operations relies on and the claim does not
\* see to: the row still waits when its lock is obtained, and no other slot of the
\* process is still busy with an earlier lease of it.
InTurn(s, t) ==
  /\ row[t].status \in Claimable
  /\ \A u \in Slots \ {s} : OwnerOf[u] = OwnerOf[s] => work[u] # t

TakeLease(s, t) ==
  /\ row' = [row EXCEPT ![t] = Lease(@, OwnerOf[s])]
  /\ holder' = [holder EXCEPT ![t] = s]
  /\ pc' = [pc EXCEPT ![s] = "claimed"]
  /\ work' = [work EXCEPT ![s] = t]
  /\ seen' = [seen EXCEPT ![s] = {}]
  /\ crossed' = IF InTurn(s, t) THEN crossed ELSE crossed \cup {t}

ClaimSnapshot(s) ==
  /\ pc[s] = "idle"
  /\ \E t \in Tasks : Eligible(row[t])
  /\ pc' = [pc EXCEPT ![s] = "claiming"]
  /\ seen' = [seen EXCEPT ![s] = {t \in Tasks : Eligible(row[t])}]
  /\ UNCHANGED <<row, work, holder, crossed>>

ClaimLock(s) ==
  /\ pc[s] = "claiming"
  /\ \E t \in seen[s] : TakeLease(s, t)

\* Every candidate was locked by somebody else: SKIP LOCKED returns nothing.
ClaimNothing(s) ==
  /\ pc[s] = "claiming"
  /\ pc' = [pc EXCEPT ![s] = "idle"]
  /\ seen' = [seen EXCEPT ![s] = {}]
  /\ UNCHANGED <<row, work, holder, crossed>>

-----------------------------------------------------------------------------
\* The operations of a slot on the row it claimed

MarkRunning(s) ==
  /\ pc[s] = "claimed"
  /\ IF Holds(s) /\ row[work[s]].status = "leased"
       THEN /\ row' = [row EXCEPT ![work[s]] = Begin(@)]
            /\ MoveTo(s, "calling")
       ELSE /\ UNCHANGED row
            /\ MoveTo(s, "idle")
  /\ UNCHANGED holder

\* A heartbeat revives a lease that has lapsed but was not swept yet.
Heartbeat(s) ==
  /\ pc[s] = "calling"
  /\ Holds(s)
  /\ row[work[s]].status \in LeaseHeld
  /\ row[work[s]].lapsed
  /\ row' = [row EXCEPT ![work[s]] = Extend(@)]
  /\ UNCHANGED <<slotVars, holder>>

\* The worker persists one attempt in a transaction of its own, under the row
\* lock and an owner-and-status check, and decides there what to tell the queue
\* afterwards.  A call that is not the row's any more is discarded.
RecordAttempt(s) ==
  /\ pc[s] = "calling"
  /\ row[work[s]].attempts < AttemptBound
  /\ IF Holds(s) /\ row[work[s]].status = "running"
       THEN LET n == row[work[s]].attempts + 1
            IN /\ row' = [row EXCEPT ![work[s]].attempts = n]
               /\ \/ MoveTo(s, "to_succeed")
                  \/ MoveTo(s, "to_fail")
                  \/ n < MaxAttempts /\ MoveTo(s, "to_retry")
       ELSE /\ UNCHANGED row
            /\ MoveTo(s, "idle")
  /\ UNCHANGED holder

\* A task that cannot run at all is failed before any call, with an attempt.
RejectTask(s) ==
  /\ pc[s] = "claimed"
  /\ Holds(s)
  /\ row[work[s]].status = "leased"
  /\ row[work[s]].attempts < AttemptBound
  /\ row' = [row EXCEPT ![work[s]].attempts = @ + 1]
  /\ MoveTo(s, "to_fail")
  /\ UNCHANGED holder

Succeed(s) ==
  /\ pc[s] = "to_succeed"
  /\ Release(s, Finalize(row[work[s]], "succeeded"))
  /\ MoveTo(s, "idle")

\* Also called with no attempt persisted: the run's deadline, a crash handler.
Fail(s) ==
  /\ pc[s] \in Executing \cup Reporting
  /\ Release(s, Finalize(row[work[s]], "failed"))
  /\ MoveTo(s, "idle")

Retry(s) ==
  /\ pc[s] = "to_retry"
  /\ \E isDue \in BOOLEAN :
       Release(s, Postpone(row[work[s]], "retry_wait", isDue))
  /\ MoveTo(s, "idle")

ParkCapacityWait(s) ==
  /\ pc[s] = "claimed"
  /\ \E isDue \in BOOLEAN :
       Release(s, Postpone(row[work[s]], "capacity_wait", isDue))
  /\ MoveTo(s, "idle")

-----------------------------------------------------------------------------
\* Operations that need no lease, and the environment

Cancel(t) ==
  /\ row[t].status \notin Terminal
  /\ row' = [row EXCEPT ![t] = Finalize(@, "cancelled")]
  /\ holder' = [holder EXCEPT ![t] = Nobody]
  /\ UNCHANGED slotVars

ReleaseExpired ==
  /\ \E batch \in SUBSET {t \in Tasks : Expired(row[t])} :
       /\ batch # {}
       /\ Cardinality(batch) <= SweepBatch
       /\ row' = [t \in Tasks |->
                    IF t \in batch THEN Reclaim(row[t]) ELSE row[t]]
       /\ holder' = [t \in Tasks |-> IF t \in batch THEN Nobody ELSE holder[t]]
  /\ UNCHANGED slotVars

\* The lease runs out: no heartbeat came in time.
LeaseLapses(t) ==
  /\ row[t].status \in LeaseHeld
  /\ ~row[t].lapsed
  /\ row' = [row EXCEPT ![t].lapsed = TRUE]
  /\ UNCHANGED <<slotVars, holder>>

BecomesDue(t) ==
  /\ row[t].status \in Claimable
  /\ ~row[t].due
  /\ row' = [row EXCEPT ![t].due = TRUE]
  /\ UNCHANGED <<slotVars, holder>>

\* A worker process dies with all its slots, at any point.
Crash(o) ==
  /\ \E s \in Slots : OwnerOf[s] = o /\ pc[s] # "dead"
  /\ pc' = [s \in Slots |-> IF OwnerOf[s] = o THEN "dead" ELSE pc[s]]
  /\ work' = [s \in Slots |-> IF OwnerOf[s] = o THEN NoTask ELSE work[s]]
  /\ seen' = [s \in Slots |-> IF OwnerOf[s] = o THEN {} ELSE seen[s]]
  /\ UNCHANGED <<row, holder, crossed>>

-----------------------------------------------------------------------------
SlotStep(s) ==
  \/ ClaimSnapshot(s)
  \/ ClaimLock(s)
  \/ ClaimNothing(s)
  \/ MarkRunning(s)
  \/ Heartbeat(s)
  \/ RecordAttempt(s)
  \/ RejectTask(s)
  \/ Succeed(s)
  \/ Fail(s)
  \/ Retry(s)
  \/ ParkCapacityWait(s)

RowStep(t) == Cancel(t) \/ LeaseLapses(t) \/ BecomesDue(t)

Next ==
  \/ \E s \in Slots : SlotStep(s)
  \/ \E t \in Tasks : RowStep(t)
  \/ ReleaseExpired
  \/ \E o \in Owners : Crash(o)

Spec == Init /\ [][Next]_vars

\* Time passes, the pollers of a live process sweep, and a slot that executes
\* gets to its end: the provider call has a hard timeout.
Progress(s) ==
  MarkRunning(s) \/ RecordAttempt(s) \/ Succeed(s) \/ Fail(s) \/ Retry(s)

Fairness ==
  /\ WF_vars(ReleaseExpired)
  /\ \A t \in Tasks : WF_vars(LeaseLapses(t)) /\ WF_vars(BecomesDue(t))
  /\ \A s \in Slots : WF_vars(Progress(s))

FairSpec == Spec /\ Fairness

-----------------------------------------------------------------------------
\* Properties

\* A lease names its owner and an unleased row names none: no operation leaves
\* an owner on a row that a sweep can no longer reclaim, or a leased row that
\* nobody owns.
LeaseCoherent ==
  \A t \in Tasks : row[t].status \in LeaseHeld <=> row[t].owner # NoOwner

\* The attempt budget holds whatever crashes, lapses and sweeps happen between
\* persisting an attempt and reporting it, and a row that can be claimed again
\* still has budget ("bounded by the task's frozen max_attempts"), unless a claim
\* took the task out of turn.
AttemptsWithinBudget ==
  \A t \in Tasks \ crossed :
    /\ row[t].attempts <= MaxAttempts
    /\ row[t].status \in Claimable => row[t].attempts < MaxAttempts

\* Why it holds: a slot whose lease still stands and that has not persisted its
\* attempt, or has persisted one that left some budget, finds some budget.
BudgetInv ==
  /\ AttemptsWithinBudget
  /\ \A s \in Slots :
       /\ Holds(s) /\ work[s] \notin crossed
       /\ pc[s] \in Executing \cup {"to_retry"}
       => row[work[s]].attempts < MaxAttempts

\* A terminal row is not written again, by any slot however late, except by a claim
\* that saw it waiting before it ended.
TerminalIsFinal ==
  [][\A t \in Tasks \ crossed' :
       row[t].status \in Terminal => row'[t] = row[t]]_vars

\* A slot that lost its lease decides nothing: whatever a slot step changes in a
\* row is changed by the slot that leased the row last, and a lease is only
\* taken of a row nobody holds, as long as no claim takes the row out of turn.
OnlyTheHolderWrites ==
  [][\A s \in Slots, t \in Tasks \ crossed' :
       SlotStep(s) /\ row'[t] # row[t] =>
         \/ holder[t] = s
         \/ holder[t] = Nobody /\ holder'[t] = s]_vars

\* The queue keeps the protocol's promise for every task that is claimed in turn.
Lifecycle == INSTANCE TaskLifecycle WITH
  Executors <- Slots,
  status <- [t \in Tasks |-> row[t].status],
  attempts <- [t \in Tasks |-> row[t].attempts]

RefinesLifecycle == Lifecycle!Spec

\* A lease never outlives its executor for good: a row leased by a process that
\* died comes back or ends.
LeasesEnd == \A t \in Tasks : []<>(row[t].status \notin LeaseHeld)

-----------------------------------------------------------------------------
\* What the repository says of the queue and the code refutes

\* "task-row locks make claims disjoint": no claim takes a row while another process
\* has a standing lease on it.
ClaimsAreDisjoint ==
  [][\A s \in Slots, t \in Tasks :
       TakeLease(s, t) /\ row[t].status \in LeaseHeld =>
         row[t].lapsed \/ row[t].owner = OwnerOf[s]]_vars

\* "Lease was reclaimed by the sweeper or stolen; do not act": the owner string tells
\* a slot whether the lease is still its own.
StaleHolderDoesNotAct ==
  [][\A s \in Slots, t \in Tasks :
       SlotStep(s) /\ pc[s] # "claiming" /\ row'[t] # row[t] => holder[t] = s]_vars
=============================================================================
