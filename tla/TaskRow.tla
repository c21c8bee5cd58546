------------------------------ MODULE TaskRow ------------------------------
(***************************************************************************)
(* One row of a PostgreSQL-backed queue and what each operation of         *)
(* PostgresTaskQueue writes to it (src/backend/app/orchestration/          *)
(* postgres_task_queue.py).  The operators are pure: the modules that have  *)
(* state (TaskQueue, AuditRun) apply them to their rows.                    *)
(*                                                                         *)
(* Wall-clock columns are reduced to what the code compares them with:     *)
(* lease_expires_at < now is the flag "lapsed", available_at <= now the     *)
(* flag "due".  A row's result, error text and timestamps are left out.     *)
(***************************************************************************)
EXTENDS Naturals

CONSTANTS
  Owners,        \* lease_owner strings: one per worker process
  NoOwner,       \* lease_owner IS NULL
  MaxAttempts    \* the row's frozen max_attempts

ASSUME NoOwnerAssumption == NoOwner \notin Owners
ASSUME MaxAttemptsAssumption == MaxAttempts \in Nat \ {0}

Claimable == {"queued", "retry_wait", "capacity_wait"}
LeaseHeld == {"leased", "running"}
Terminal  == {"succeeded", "failed", "cancelled"}
Status    == Claimable \cup LeaseHeld \cup Terminal

Row == [status : Status, owner : Owners \cup {NoOwner},
        lapsed : BOOLEAN, due : BOOLEAN, attempts : Nat]

\* A freshly planned row: available at once, never attempted.
NewRow == [status |-> "queued", owner |-> NoOwner,
           lapsed |-> FALSE, due |-> TRUE, attempts |-> 0]

\* The claim's WHERE clause.
Eligible(r) == r.status \in Claimable /\ r.due

\* Mutations of the operators below, each a plausible slip in the queue's code.
OwnedByAnyone(r, o) == TRUE
ExpiredRunningOnly(r) == r.status = "running" /\ r.lapsed

\* _owned_task: every lease-holder operation re-reads the row FOR UPDATE and
\* compares the owner string, nothing else.
OwnedBy(r, o) == r.owner = o

\* The sweeper's WHERE clause.
Expired(r) == r.status \in LeaseHeld /\ r.owner # NoOwner /\ r.lapsed

Unleased(r) == [r EXCEPT !.owner = NoOwner, !.lapsed = FALSE]

Lease(r, o)   == [r EXCEPT !.status = "leased", !.owner = o, !.lapsed = FALSE]
Extend(r)     == [r EXCEPT !.lapsed = FALSE]
Begin(r)      == [r EXCEPT !.status = "running"]
Finalize(r, outcome) == [Unleased(r) EXCEPT !.status = outcome]
Postpone(r, wait, isDue) == [Unleased(r) EXCEPT !.status = wait, !.due = isDue]

\* Mutations of Reclaim: no attempt check; the check off by one.
ReclaimForever(r) == Postpone(r, "retry_wait", TRUE)
ReclaimOnceMore(r) == IF r.attempts > MaxAttempts
                        THEN Finalize(r, "failed")
                        ELSE Postpone(r, "retry_wait", TRUE)

Reclaim(r)    == IF r.attempts >= MaxAttempts
                   THEN Finalize(r, "failed")
                   ELSE Postpone(r, "retry_wait", TRUE)
=============================================================================
