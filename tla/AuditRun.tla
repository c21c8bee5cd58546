------------------------------ MODULE AuditRun ------------------------------
(***************************************************************************)
(* One audit from its first claim to its terminal status: AuditWorker      *)
(* (src/backend/app/workers/audit_worker.py), the audit state machine, the  *)
(* cancel request and the credits reserved for the audit's funded tasks.    *)
(*                                                                         *)
(* A slot executes a task as a sequence of short transactions; each is one  *)
(* action, and anything may happen between two of them.  The transactions   *)
(* that lock the audit row exclude each other: only _finalize_audit does    *)
(* more than one query under that lock whose answers can differ, so it is    *)
(* two actions and AuditUnlocked guards the others.                         *)
(*                                                                         *)
(* Taken from TaskQueue and not repeated here: claims are atomic, a waiting *)
(* row is due (delays are just time), a lease lapses and is swept in one     *)
(* step.  Provider capacity is ProviderCapacity's subject: here it is       *)
(* granted or refused.  The ledger's rows are ConsumableLedger's: here a     *)
(* reservation is a number of outstanding units.                            *)
(***************************************************************************)
EXTENDS TaskRow, FiniteSets

CONSTANTS
  Tasks,
  Slots,
  NoTask,
  OwnerOf,       \* [Slots -> Owners]
  Funded,        \* the tasks with a frozen reservation, the rest is BYOK
  Mortal,        \* the processes that may die
  MaxStalls,     \* bound: leases of live executors that lapse
  MaxErrors      \* bound: exceptions raised by a transaction

ASSUME SlotAssumption ==
  IsFiniteSet(Slots) /\ NoTask \notin Tasks /\ OwnerOf \in [Slots -> Owners]
ASSUME FundedAssumption == Funded \subseteq Tasks
ASSUME FaultAssumption ==
  Mortal \subseteq Owners /\ MaxStalls \in Nat /\ MaxErrors \in Nat

VARIABLES
  audit,      \* the audit's status
  late,       \* max_run_seconds have passed since started_at
  row,        \* [Tasks -> Row]
  calls,      \* [Tasks -> Nat]: history, provider calls sent
  evidence,   \* [Tasks -> Nat]: persisted artifacts of successful calls
  reserve,    \* [Tasks -> Nat]: outstanding units of the task's reservation
  billed,     \* [Tasks -> Nat]: debited units
  pc,         \* [Slots -> Phase]
  work,       \* [Slots -> Tasks \cup {NoTask}]
  sawSuccess, \* [Slots -> BOOLEAN]: _finalize_audit counted a succeeded task
  stalls,
  errors,
  crossed     \* SUBSET Tasks: history, the tasks a claim took out of turn

taskVars == <<row, calls, evidence>>
credits == <<reserve, billed>>
slotVars == <<pc, work, sawSuccess>>
faults == <<stalls, errors, crossed>>
vars == <<audit, late, taskVars, credits, slotVars, faults>>

AuditTerminal == {"completed", "partially_completed", "failed", "cancelled"}
AuditActive   == {"queued", "running", "analyzing"}

\* Inside the try block of _execute_task, after its except and finally clauses,
\* and between two tasks.
Trying == {"boundary", "to_cancel", "prepare", "to_park", "calling",
           "to_succeed", "to_retry", "to_fail"}
Handling == {"crashed", "crash_release"}
Closing == {"finalize", "counting", "analyze"}
Phase == Trying \cup Handling \cup Closing \cup {"idle", "sweep_release", "dead"}

TypeOK ==
  /\ audit \in AuditActive \cup AuditTerminal
  /\ late \in BOOLEAN
  /\ row \in [Tasks -> Row]
  /\ calls \in [Tasks -> Nat]
  /\ evidence \in [Tasks -> Nat]
  /\ reserve \in [Tasks -> Nat]
  /\ billed \in [Tasks -> Nat]
  /\ pc \in [Slots -> Phase]
  /\ work \in [Slots -> Tasks \cup {NoTask}]
  /\ sawSuccess \in [Slots -> BOOLEAN]
  /\ stalls \in 0 .. MaxStalls
  /\ errors \in 0 .. MaxErrors
  /\ crossed \in SUBSET Tasks
  /\ \A s \in Slots : work[s] = NoTask <=> pc[s] \in {"idle", "dead"}

\* create_audit has committed: the tasks are queued and their credits reserved,
\* max_attempts units for each funded task.
Init ==
  /\ audit = "queued"
  /\ late = FALSE
  /\ row = [t \in Tasks |-> NewRow]
  /\ calls = [t \in Tasks |-> 0]
  /\ evidence = [t \in Tasks |-> 0]
  /\ reserve = [t \in Tasks |-> IF t \in Funded THEN MaxAttempts ELSE 0]
  /\ billed = [t \in Tasks |-> 0]
  /\ pc = [s \in Slots |-> "idle"]
  /\ work = [s \in Slots |-> NoTask]
  /\ sawSuccess = [s \in Slots |-> FALSE]
  /\ stalls = 0
  /\ errors = 0
  /\ crossed = {}

Holds(s) == OwnedBy(row[work[s]], OwnerOf[s])

\* The audit row is FOR UPDATE locked while a slot counts.
AuditUnlocked == \A s \in Slots : pc[s] # "counting"

\* Mutation: the slot forgets to drop its task.
GoToKeepingTask(s, phase) ==
  /\ pc' = [pc EXCEPT ![s] = phase]
  /\ UNCHANGED <<work, sawSuccess>>

GoTo(s, phase) ==
  /\ pc' = [pc EXCEPT ![s] = phase]
  /\ work' = IF phase = "idle" THEN [work EXCEPT ![s] = NoTask] ELSE work
  /\ UNCHANGED sawSuccess

SetRow(t, r) == row' = [row EXCEPT ![t] = r]

\* release_terminal_funded_task: whatever is still outstanding, nothing twice.
ReleaseCredits(t) == reserve' = [reserve EXCEPT ![t] = 0]

\* _lock_owned_running_task
LockOwnedTask(s, allowed) ==
  /\ Holds(s)
  /\ row[work[s]].status \in allowed
  /\ audit \notin AuditTerminal

-----------------------------------------------------------------------------
\* Between two tasks: the sweep and the claim

\* Nobody alive executes the row for the process that leased it.
Unattended(t) ==
  \A s \in Slots :
    ~(pc[s] \in Trying \cup Handling /\ work[s] = t /\ Holds(s))

\* release_expired, one row at a time: a lease lapses when its executor is gone
\* or, MaxStalls times, although it lives.
Sweep(s) ==
  /\ pc[s] = "idle"
  /\ \E t \in Tasks :
       /\ row[t].status \in LeaseHeld
       /\ \/ Unattended(t) /\ UNCHANGED stalls
          \/ ~Unattended(t) /\ stalls < MaxStalls /\ stalls' = stalls + 1
       /\ SetRow(t, Reclaim(row[t]))
       /\ IF Reclaim(row[t]).status = "failed"
            THEN /\ pc' = [pc EXCEPT ![s] = "sweep_release"]
                 /\ work' = [work EXCEPT ![s] = t]
            ELSE UNCHANGED <<pc, work>>
  /\ UNCHANGED <<audit, late, calls, evidence, credits, sawSuccess, errors, crossed>>

\* _release_swept_funded_tasks, a transaction of its own.  No finalization
\* follows: the sweep reports no parents for this queue.
SweepRelease(s) ==
  /\ pc[s] = "sweep_release"
  /\ ReleaseCredits(work[s])
  /\ GoTo(s, "idle")
  /\ UNCHANGED <<audit, late, taskVars, billed, faults>>

\* The owner check cannot tell the lease from one that another slot of the process
\* lost and still acts on.
InTurn(s, t) ==
  \A u \in Slots \ {s} :
    ~(OwnerOf[u] = OwnerOf[s] /\ pc[u] \in Trying \cup Handling /\ work[u] = t)

Claim(s) ==
  /\ pc[s] = "idle"
  /\ \E t \in Tasks :
       /\ Eligible(row[t])
       /\ SetRow(t, Lease(row[t], OwnerOf[s]))
       /\ work' = [work EXCEPT ![s] = t]
       /\ crossed' = IF InTurn(s, t) THEN crossed ELSE crossed \cup {t}
  /\ pc' = [pc EXCEPT ![s] = "boundary"]
  /\ UNCHANGED <<audit, late, calls, evidence, credits, sawSuccess, stalls, errors>>

-----------------------------------------------------------------------------
\* _execute_task, up to the provider call

\* One transaction under the audit lock.  Neither a cancelled audit nor a passed
\* deadline makes it look at the task's lease before it releases the credits.
StopAtBoundary(s) ==
  /\ pc[s] = "boundary"
  /\ AuditUnlocked
  /\ \/ audit = "cancelled" /\ GoTo(s, "to_cancel")
     \/ audit # "cancelled" /\ late /\ GoTo(s, "to_fail")
  /\ ReleaseCredits(work[s])
  /\ UNCHANGED <<audit, late, taskVars, billed, faults>>

PassBoundary(s) ==
  /\ pc[s] = "boundary"
  /\ AuditUnlocked
  /\ audit # "cancelled"
  /\ ~late
  /\ audit' = IF audit = "queued" THEN "running" ELSE audit
  /\ GoTo(s, "prepare")
  /\ UNCHANGED <<late, taskVars, credits, faults>>

\* queue.cancel: whoever owns the row.
QueueCancel(s) ==
  /\ pc[s] = "to_cancel"
  /\ IF row[work[s]].status \in Terminal
       THEN UNCHANGED row
       ELSE SetRow(work[s], Finalize(row[work[s]], "cancelled"))
  /\ GoTo(s, "finalize")
  /\ UNCHANGED <<audit, late, calls, evidence, credits, faults>>

\* _fail_terminal: a retired transport, a missing connection, no adapter.
Reject(s) ==
  /\ pc[s] = "prepare"
  /\ AuditUnlocked
  /\ IF LockOwnedTask(s, LeaseHeld)
       THEN /\ SetRow(work[s], [row[work[s]] EXCEPT !.attempts = @ + 1])
            /\ ReleaseCredits(work[s])
            /\ GoTo(s, "to_fail")
       ELSE /\ UNCHANGED <<row, reserve>>
            /\ GoTo(s, "finalize")
  /\ UNCHANGED <<audit, late, calls, evidence, billed, faults>>

\* _park_capacity_wait: the event's transaction, then the queue's.
RecordCapacityWait(s) ==
  /\ pc[s] = "prepare"
  /\ AuditUnlocked
  /\ GoTo(s, IF LockOwnedTask(s, LeaseHeld) THEN "to_park" ELSE "finalize")
  /\ UNCHANGED <<audit, late, taskVars, credits, faults>>

QueuePark(s) ==
  /\ pc[s] = "to_park"
  /\ IF Holds(s)
       THEN SetRow(work[s], Postpone(row[work[s]], "capacity_wait", TRUE))
       ELSE UNCHANGED row
  /\ GoTo(s, "finalize")
  /\ UNCHANGED <<audit, late, calls, evidence, credits, faults>>

\* Capacity is held: the row is running and the call goes out.
StartCall(s) ==
  /\ pc[s] = "prepare"
  /\ IF Holds(s) /\ row[work[s]].status = "leased"
       THEN /\ SetRow(work[s], Begin(row[work[s]]))
            /\ calls' = [calls EXCEPT ![work[s]] = @ + 1]
            /\ GoTo(s, "calling")
       ELSE /\ UNCHANGED <<row, calls>>
            /\ GoTo(s, "finalize")
  /\ UNCHANGED <<audit, late, evidence, credits, faults>>

-----------------------------------------------------------------------------
\* The call's outcome: one transaction for attempt, evidence and credits, then
\* the queue's

\* record_billable_attempt raises when nothing is outstanding any more.
CanBill(t) == t \in Funded => reserve[t] > 0

BillCall(t) ==
  billed' = IF t \in Funded THEN [billed EXCEPT ![t] = @ + 1] ELSE billed

\* Mutation: the persisted success is not billed.
PersistSuccessUnbilled(s) ==
  /\ pc[s] = "calling"
  /\ AuditUnlocked
  /\ LockOwnedTask(s, {"running"})
  /\ evidence' = [evidence EXCEPT ![work[s]] = @ + 1]
  /\ SetRow(work[s], [row[work[s]] EXCEPT !.attempts = @ + 1])
  /\ GoTo(s, "to_succeed")
  /\ UNCHANGED <<audit, late, calls, credits, faults>>

PersistSuccess(s) ==
  /\ pc[s] = "calling"
  /\ AuditUnlocked
  /\ LockOwnedTask(s, {"running"})
  /\ CanBill(work[s])
  /\ evidence' = [evidence EXCEPT ![work[s]] = @ + 1]
  /\ SetRow(work[s], [row[work[s]] EXCEPT !.attempts = @ + 1])
  /\ BillCall(work[s])
  /\ ReleaseCredits(work[s])
  /\ GoTo(s, "to_succeed")
  /\ UNCHANGED <<audit, late, calls, faults>>

\* _handle_failure: a retryable error with budget left keeps the reservation.
PersistFailure(s) ==
  /\ pc[s] = "calling"
  /\ AuditUnlocked
  /\ LockOwnedTask(s, {"running"})
  /\ CanBill(work[s])
  /\ SetRow(work[s], [row[work[s]] EXCEPT !.attempts = @ + 1])
  /\ BillCall(work[s])
  /\ \/ /\ row[work[s]].attempts + 1 < MaxAttempts
        /\ reserve' = IF work[s] \in Funded
                        THEN [reserve EXCEPT ![work[s]] = @ - 1]
                        ELSE reserve
        /\ GoTo(s, "to_retry")
     \/ /\ ReleaseCredits(work[s])
        /\ GoTo(s, "to_fail")
  /\ UNCHANGED <<audit, late, calls, evidence, faults>>

\* The ledger refuses the bill: the transaction rolls back.
BillingRefused(s) ==
  /\ pc[s] = "calling"
  /\ AuditUnlocked
  /\ LockOwnedTask(s, {"running"})
  /\ ~CanBill(work[s])
  /\ GoTo(s, "crashed")
  /\ UNCHANGED <<audit, late, taskVars, credits, faults>>

\* The lease is lost or the audit is over: the answer is thrown away.
DiscardAnswer(s) ==
  /\ pc[s] = "calling"
  /\ ~LockOwnedTask(s, {"running"})
  /\ GoTo(s, "finalize")
  /\ UNCHANGED <<audit, late, taskVars, credits, faults>>

\* queue.succeed, queue.fail and queue.retry do nothing to a row that carries
\* another owner.
Report(s, phase, newRow) ==
  /\ pc[s] = phase
  /\ IF Holds(s) THEN SetRow(work[s], newRow) ELSE UNCHANGED row
  /\ GoTo(s, "finalize")
  /\ UNCHANGED <<audit, late, calls, evidence, credits, faults>>

QueueSucceed(s) ==
  Report(s, "to_succeed", Finalize(row[work[s]], "succeeded"))
QueueFail(s)  == Report(s, "to_fail", Finalize(row[work[s]], "failed"))
QueueRetry(s) ==
  Report(s, "to_retry", Postpone(row[work[s]], "retry_wait", TRUE))

\* _record_crash: fail the row if it is still ours, and only then release.
RecordCrash(s) ==
  /\ pc[s] = "crashed"
  /\ IF Holds(s)
       THEN /\ SetRow(work[s], Finalize(row[work[s]], "failed"))
            /\ GoTo(s, "crash_release")
       ELSE /\ UNCHANGED row
            /\ GoTo(s, "finalize")
  /\ UNCHANGED <<audit, late, calls, evidence, credits, faults>>

CrashRelease(s) ==
  /\ pc[s] = "crash_release"
  /\ ReleaseCredits(work[s])
  /\ GoTo(s, "finalize")
  /\ UNCHANGED <<audit, late, taskVars, billed, faults>>

-----------------------------------------------------------------------------
\* _finalize_audit and _finalize_analysis, after every task boundary

\* _progress_counts first counts the succeeded tasks ...
CountSucceeded(s) ==
  /\ pc[s] = "finalize"
  /\ AuditUnlocked
  /\ IF audit \in AuditTerminal
       THEN GoTo(s, "idle")
       ELSE /\ pc' = [pc EXCEPT ![s] = "counting"]
            /\ sawSuccess' = [sawSuccess EXCEPT ![s] =
                 \E t \in Tasks : row[t].status = "succeeded"]
            /\ UNCHANGED work
  /\ UNCHANGED <<audit, late, taskVars, credits, faults>>

\* Mutation of NothingRemains: only successes count as done.
EverythingSucceeded == \A t \in Tasks : row[t].status = "succeeded"

\* ... and then, in a query of its own that sees what was committed meanwhile,
\* the terminal ones.
NothingRemains == \A t \in Tasks : row[t].status \in Terminal

CountTerminal(s) ==
  /\ pc[s] = "counting"
  /\ LET over == NothingRemains /\ audit = "running"
         next == IF over /\ sawSuccess[s] THEN "analyze" ELSE "idle"
     IN /\ audit' = IF ~over THEN audit
                    ELSE IF sawSuccess[s] THEN "analyzing" ELSE "failed"
        /\ pc' = [pc EXCEPT ![s] = next]
        /\ work' = IF next = "idle" THEN [work EXCEPT ![s] = NoTask] ELSE work
  /\ sawSuccess' = [sawSuccess EXCEPT ![s] = FALSE]
  /\ UNCHANGED <<late, taskVars, credits, faults>>

\* Mutation: the outcome is read off the task rows, not off the analyses.
AnalyzeByRows(s) ==
  /\ pc[s] = "analyze"
  /\ AuditUnlocked
  /\ audit' = IF audit # "analyzing" THEN audit
              ELSE IF \A t \in Tasks : row[t].status = "succeeded"
                     THEN "completed" ELSE "partially_completed"
  /\ GoTo(s, "idle")
  /\ UNCHANGED <<late, taskVars, credits, faults>>

\* finalize_audit_analysis counts analyses, and a task is analyzed in the
\* transaction that persists its answer.
Analyze(s) ==
  /\ pc[s] = "analyze"
  /\ AuditUnlocked
  /\ audit' = IF audit # "analyzing" THEN audit
              ELSE IF \A t \in Tasks : evidence[t] > 0
                     THEN "completed" ELSE "partially_completed"
  /\ GoTo(s, "idle")
  /\ UNCHANGED <<late, taskVars, credits, faults>>

-----------------------------------------------------------------------------
\* cancel_audit, one transaction, and the environment

\* Mutation: the cancel request leaves the leased tasks to their workers.
CancelWaitingOnly ==
  /\ AuditUnlocked
  /\ audit \in AuditActive
  /\ audit' = "cancelled"
  /\ row' = [t \in Tasks |-> IF row[t].status \notin Claimable THEN row[t]
                             ELSE Finalize(row[t], "cancelled")]
  /\ reserve' = [t \in Tasks |->
                   IF row[t].status \notin Claimable THEN reserve[t] ELSE 0]
  /\ UNCHANGED <<late, calls, evidence, billed, slotVars, faults>>

CancelAudit ==
  /\ AuditUnlocked
  /\ audit \in AuditActive
  /\ audit' = "cancelled"
  /\ row' = [t \in Tasks |-> IF row[t].status \in Terminal THEN row[t]
                             ELSE Finalize(row[t], "cancelled")]
  /\ reserve' = [t \in Tasks |->
                   IF row[t].status \in Terminal THEN reserve[t] ELSE 0]
  /\ UNCHANGED <<late, calls, evidence, billed, slotVars, faults>>

DeadlinePasses ==
  /\ audit \in {"running", "analyzing"}
  /\ ~late
  /\ late' = TRUE
  /\ UNCHANGED <<audit, taskVars, credits, slotVars, faults>>

\* A transaction of a slot raises and changes nothing.  _execute_task handles
\* it; an exception of its handlers is logged by the caller.
Raise(s) ==
  /\ errors < MaxErrors
  /\ errors' = errors + 1
  /\ sawSuccess' = [sawSuccess EXCEPT ![s] = FALSE]
  /\ \/ /\ pc[s] \in Trying
        /\ pc' = [pc EXCEPT ![s] = "crashed"]
        /\ UNCHANGED work
     \/ /\ pc[s] \in Handling
        /\ pc' = [pc EXCEPT ![s] = "finalize"]
        /\ UNCHANGED work
     \/ /\ pc[s] \in Closing \cup {"sweep_release"}
        /\ pc' = [pc EXCEPT ![s] = "idle"]
        /\ work' = [work EXCEPT ![s] = NoTask]
  /\ UNCHANGED <<audit, late, taskVars, credits, stalls, crossed>>

Die(o) ==
  /\ o \in Mortal
  /\ \E s \in Slots : OwnerOf[s] = o /\ pc[s] # "dead"
  /\ pc' = [s \in Slots |-> IF OwnerOf[s] = o THEN "dead" ELSE pc[s]]
  /\ work' = [s \in Slots |-> IF OwnerOf[s] = o THEN NoTask ELSE work[s]]
  /\ sawSuccess' = [s \in Slots |-> IF OwnerOf[s] = o THEN FALSE
                                    ELSE sawSuccess[s]]
  /\ UNCHANGED <<audit, late, taskVars, credits, faults>>

-----------------------------------------------------------------------------
Persist(s) ==
  PersistSuccess(s) \/ PersistFailure(s) \/ BillingRefused(s) \/ DiscardAnswer(s)

Execute(s) ==
  \/ StopAtBoundary(s)
  \/ PassBoundary(s)
  \/ QueueCancel(s)
  \/ Reject(s)
  \/ RecordCapacityWait(s)
  \/ QueuePark(s)
  \/ StartCall(s)
  \/ Persist(s)
  \/ QueueSucceed(s)
  \/ QueueFail(s)
  \/ QueueRetry(s)
  \/ RecordCrash(s)
  \/ CrashRelease(s)
  \/ CountSucceeded(s)
  \/ CountTerminal(s)
  \/ Analyze(s)
  \/ SweepRelease(s)

Next ==
  \/ \E s \in Slots : Execute(s) \/ Sweep(s) \/ Claim(s) \/ Raise(s)
  \/ CancelAudit
  \/ DeadlinePasses
  \/ \E o \in Owners : Die(o)

Spec == Init /\ [][Next]_vars

\* A live slot finishes what it began (the provider call has a hard timeout),
\* polls and sweeps as long as it lives, and time passes.  No fairness on
\* CancelAudit: nobody has to ask for it.
FairSpec ==
  /\ Spec
  /\ WF_vars(DeadlinePasses)
  /\ \A s \in Slots :
       WF_vars(Execute(s)) /\ WF_vars(Claim(s)) /\ WF_vars(Sweep(s))

-----------------------------------------------------------------------------
\* Properties

\* A terminal audit has no open task left: no worker finds anything of it to
\* claim, to call or to bill.
TerminalAuditIsQuiet ==
  audit \in AuditTerminal => \A t \in Tasks : row[t].status \in Terminal

\* Once the audit is over nothing is recorded for it any more, however late a
\* call returns and whoever made it.
NothingRecordedAfterTheEnd ==
  [][(audit \in AuditTerminal) =>
       UNCHANGED <<audit, row, evidence, billed>>]_vars

\* What the audit and its tasks report rests on persisted answers.
OutcomesRestOnEvidence ==
  /\ \A t \in Tasks : row[t].status = "succeeded" => evidence[t] > 0
  /\ audit = "completed" => \A t \in Tasks : evidence[t] > 0
  /\ audit = "partially_completed" =>
       (\E t \in Tasks : evidence[t] > 0) /\ (\E t \in Tasks : evidence[t] = 0)

\* No process died and no transaction failed: leases may have lapsed all the same.
Untroubled == errors = 0 /\ \A s \in Slots : pc[s] # "dead"

\* A funded task never costs more than it reserved, every debit stands for a
\* call that was made, and no answer of a funded task is free.  Once it ended its
\* credits are back, unless somebody is about to return them or a fault kept
\* somebody from it.
CreditsConserved ==
  \A t \in Funded :
    /\ reserve[t] + billed[t] <= MaxAttempts
    /\ billed[t] <= calls[t]
    /\ evidence[t] <= billed[t]
    /\ Untroubled /\ row[t].status \in Terminal =>
         \/ reserve[t] = 0
         \/ \E s \in Slots :
              pc[s] \in {"crash_release", "sweep_release"} /\ work[s] = t

\* The worker keeps the promise of its queue: through all its transactions, cancel
\* requests, sweeps and faults a task has one holder at a time, attempts are counted
\* and endings reported for a holder only, a task goes back to wait only with an
\* attempt left, and one that ended stays as it is, unless the task was claimed while
\* another slot of the process still acted on it.
Lifecycle == INSTANCE TaskLifecycle WITH
  Executors <- Owners,
  Nobody <- NoOwner,
  status <- [t \in Tasks |-> row[t].status],
  holder <- [t \in Tasks |-> row[t].owner],
  attempts <- [t \in Tasks |-> row[t].attempts]

KeepsLifecycle == Lifecycle!Spec

\* Every audit ends unless a fault strikes: no exit of a task, no refused capacity
\* and no lapsed lease leaves it running with nobody to finish it.
AuditEnds == <>(Untroubled => audit \in AuditTerminal)

-----------------------------------------------------------------------------
\* What the repository says of the run and the faults refute

\* "Succeeded work is not re-executed under the same identity."
NoReexecution ==
  [][\A t \in Tasks : evidence[t] > 0 => calls'[t] = calls[t]]_vars

\* "a worker can never claim an unreserved funded task"
ClaimsAreReserved ==
  [][\A t \in Funded :
       row[t].status \in Claimable /\ row'[t].status = "leased" =>
         reserve[t] > 0]_vars

\* "the queue's retry/backoff is the SOLE retry loop, bounded by the task's
\* frozen max_attempts"
CallsWithinBudget == \A t \in Tasks : calls[t] <= MaxAttempts

\* "audit failed: no successful executions"
FailedMeansNoSuccess ==
  audit = "failed" => \A t \in Tasks : row[t].status # "succeeded"

\* "a run whose LAST outstanding task is terminalized here would otherwise sit
\* non-terminal forever. Callers reconcile the reported parents."
SweptRunsEnd ==
  NothingRemains /\ (\E s \in Slots : pc[s] = "sweep_release")
    ~> audit \in AuditTerminal

\* A crash never costs the account the credits of calls nobody made: "so a crash
\* loop can never leak credits".
CreditsReturned ==
  \A t \in Funded : row[t].status \in Terminal ~> reserve[t] = 0
=============================================================================
