--------------------------- MODULE TaskLifecycle ---------------------------
(***************************************************************************)
(* What the TaskQueue protocol promises its callers                        *)
(* (src/backend/app/orchestration/task_queue.py), with no leases, clocks   *)
(* or owner strings in it: a task is handed to one executor at a time, only *)
(* that executor decides how its execution ends, a reclaimed executor       *)
(* decides nothing any more, a task is executed within its attempt budget   *)
(* and a terminal task stays as it is.  The promise is made for each task,  *)
(* and for as long as the task is claimed in turn: what the queue says with *)
(* an owner string and a snapshot can name one execution only then.         *)
(* TaskQueue and AuditRun instantiate the module.                           *)
(***************************************************************************)
EXTENDS Naturals

CONSTANTS
  Tasks,
  Executors,     \* whoever an owner string can tell apart
  Nobody,        \* no executor holds the task
  MaxAttempts

VARIABLES
  status,        \* [Tasks -> Status]
  holder,        \* [Tasks -> Executors \cup {Nobody}]: who executes the task
  attempts,      \* [Tasks -> Nat]: persisted attempts
  crossed        \* SUBSET Tasks: those that were claimed out of turn

vars == <<status, holder, attempts, crossed>>

Waiting  == {"queued", "retry_wait", "capacity_wait"}
Held     == {"leased", "running"}
Finished == {"succeeded", "failed", "cancelled"}

Init ==
  /\ status = [t \in Tasks |-> "queued"]
  /\ holder = [t \in Tasks |-> Nobody]
  /\ attempts = [t \in Tasks |-> 0]
  /\ crossed = {}

Keeps(t) ==
  /\ status'[t] = status[t]
  /\ holder'[t] = holder[t]
  /\ attempts'[t] = attempts[t]

\* claim(): from a waiting status, to one executor.
Claim(t) ==
  /\ status[t] \in Waiting
  /\ status'[t] = "leased"
  /\ holder'[t] \in Executors
  /\ attempts'[t] = attempts[t]

\* mark_running(): False if lost.
Start(t) ==
  /\ status[t] = "leased"
  /\ status'[t] = "running"
  /\ holder'[t] = holder[t]
  /\ attempts'[t] = attempts[t]

\* The executor persists one attempt, within the budget.
Attempt(t) ==
  /\ holder[t] \in Executors
  /\ attempts[t] < MaxAttempts
  /\ attempts'[t] = attempts[t] + 1
  /\ status'[t] = status[t]
  /\ holder'[t] = holder[t]

\* succeed() or fail(): of a task that is executed.
Complete(t) ==
  /\ holder[t] \in Executors
  /\ status'[t] \in {"succeeded", "failed"}
  /\ holder'[t] = Nobody
  /\ attempts'[t] = attempts[t]

\* retry() or park_capacity_wait(): only while attempts remain.
GiveBack(t) ==
  /\ holder[t] \in Executors
  /\ attempts[t] < MaxAttempts
  /\ status'[t] \in {"retry_wait", "capacity_wait"}
  /\ holder'[t] = Nobody
  /\ attempts'[t] = attempts[t]

\* cancel(): of a task that is not terminal.
Cancel(t) ==
  /\ status[t] \notin Finished
  /\ status'[t] = "cancelled"
  /\ holder'[t] = Nobody
  /\ attempts'[t] = attempts[t]

\* release_expired(): the executor loses the task.
TakeBack(t) ==
  /\ status[t] \in Held
  /\ status'[t] = IF attempts[t] < MaxAttempts THEN "retry_wait" ELSE "failed"
  /\ holder'[t] = Nobody
  /\ attempts'[t] = attempts[t]

TaskStep(t) ==
  \/ Keeps(t)
  \/ Claim(t)
  \/ Start(t)
  \/ Attempt(t)
  \/ Complete(t)
  \/ GiveBack(t)
  \/ Cancel(t)
  \/ TakeBack(t)

Next ==
  /\ crossed \subseteq crossed'
  /\ \A t \in Tasks \ crossed' : TaskStep(t)

Spec == Init /\ [][Next]_vars
=============================================================================
