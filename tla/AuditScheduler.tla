---------------------------- MODULE AuditScheduler ----------------------------
(***************************************************************************)
(* One audit schedule and the scheduler processes that plan its runs        *)
(* (src/backend/app/workers/audit_scheduler.py).                            *)
(*                                                                         *)
(* A scheduler reads the clock once per round and works with that reading   *)
(* until the round is over: when it claims, when it renews its lease and    *)
(* when it computes the next run.  Claim, renewal, check, planning and the   *)
(* last write are transactions of their own, and the schedules of a batch    *)
(* are handled one after the other, so any time may pass between them.      *)
(*                                                                         *)
(* create_audit is reduced to what the scheduler sees: the cap on active     *)
(* audits of the workspace, checked before anything is inserted, the unique  *)
(* slot (schedule_id, scheduled_for), other errors, the commit.  Deleting    *)
(* the schedule is left out.                                               *)
(***************************************************************************)
EXTENDS Integers, FiniteSets

CONSTANTS
  Schedulers,
  Mortal,         \* schedulers that may die
  Cadence,
  Period,         \* of a recurring cadence
  LeaseTTL,       \* lease_ttl_seconds
  RetryDelay,     \* failure_retry_seconds
  MaxFailures,    \* max_consecutive_failures
  ActiveLimit,    \* active_audits_per_workspace
  Nobody,
  MaxClock, MaxEdits, MaxErrors,  \* bounds: the clock, edits by a user,
  MaxOthers                       \* failures of create_audit, other audits

Configured ==
  /\ Cadence \in {"one_time", "every_n_minutes", "daily"}
  /\ {Period, LeaseTTL, RetryDelay, MaxFailures, ActiveLimit} \subseteq Nat \ {0}
  /\ Nobody \notin Schedulers
  /\ Mortal \subseteq Schedulers
  /\ {MaxClock, MaxEdits, MaxErrors, MaxOthers} \subseteq Nat

ASSUME ScheduleAssumption == Configured

VARIABLES
  clock,
  enabled,
  nextRun,     \* next_run_at, Never when NULL
  failures,    \* failure_count
  leaseOwner, leaseExpires,
  audits,      \* the schedule's audits: scheduled_for, the run it stands for,
               \* and whether it is still active
  others,      \* active audits of the workspace that are not the schedule's
  runFor,      \* history: the run nextRun stands for, itself or a failed one
  left,        \* history: the runs the schedule has moved past, see Left
  moved,       \* history: the schedulers with a checked claim since whose check
               \* a user has moved the next run
  phase,       \* [Schedulers -> Phase]
  tick,        \* [Schedulers -> Nat]: tick_at
  job,         \* [Schedulers -> Slot]: the claimed slot and its run
  edits, errors

schedule == <<enabled, nextRun, failures, leaseOwner, leaseExpires>>
history == <<runFor, left, moved>>
workers == <<phase, tick, job>>
vars == <<clock, schedule, audits, others, history, workers, edits, errors>>

Never == -1
Slot == [at : Nat, run : Nat]
\* That the schedule moved past a run when the round of a slot ended, and whether
\* a user had set that run only after the round's check.
Left == [run : Nat, slot : Slot, edited : BOOLEAN]
Phase == {"idle", "claimed", "checking", "dropping", "planning",
          "created", "failed", "dead"}

TypeOK ==
  /\ clock \in 0 .. MaxClock
  /\ enabled \in BOOLEAN
  /\ nextRun \in Nat \cup {Never}
  /\ failures \in Nat
  /\ leaseOwner \in Schedulers \cup {Nobody}
  /\ leaseExpires \in Nat
  /\ \A a \in audits : a.slot \in Slot /\ a.active \in BOOLEAN /\ a.id \in Nat
  /\ others \in 0 .. MaxOthers
  /\ runFor \in Nat
  /\ left \in SUBSET Left
  /\ moved \in SUBSET Schedulers
  /\ phase \in [Schedulers -> Phase]
  /\ tick \in [Schedulers -> 0 .. clock]
  /\ job \in [Schedulers -> Slot]
  /\ nextRun = Never => ~enabled
  /\ leaseOwner = Nobody => leaseExpires = 0

Init ==
  /\ clock = 0
  /\ enabled = TRUE
  /\ nextRun = 0
  /\ failures = 0
  /\ leaseOwner = Nobody
  /\ leaseExpires = 0
  /\ audits = {}
  /\ others = 0
  /\ runFor = 0
  /\ left = {}
  /\ moved = {}
  /\ phase = [s \in Schedulers |-> "idle"]
  /\ tick = [s \in Schedulers |-> 0]
  /\ job = [s \in Schedulers |-> [at |-> 0, run |-> 0]]
  /\ edits = 0
  /\ errors = 0

GoTo(s, p) == phase' = [phase EXCEPT ![s] = p]

-----------------------------------------------------------------------------
\* One schedule in a scheduler's round

\* _claim_due: the lease is free or has expired.
ClaimDue(s) ==
  /\ phase[s] = "idle"
  /\ enabled
  /\ nextRun <= clock
  /\ leaseOwner = Nobody \/ leaseExpires <= clock
  /\ leaseOwner' = s
  /\ leaseExpires' = clock + LeaseTTL
  /\ tick' = [tick EXCEPT ![s] = clock]
  /\ job' = [job EXCEPT ![s] = [at |-> nextRun, run |-> runFor]]
  /\ moved' = moved \ {s}
  /\ GoTo(s, "claimed")
  /\ UNCHANGED <<clock, enabled, nextRun, failures, audits, others, runFor, left,
                 edits, errors>>

\* _renew_claim: the new expiry counts from the round's clock reading.
RenewClaim(s) ==
  /\ phase[s] = "claimed"
  /\ IF leaseOwner = s
       THEN /\ leaseExpires' = tick[s] + LeaseTTL
            /\ GoTo(s, "checking")
       ELSE /\ UNCHANGED leaseExpires
            /\ GoTo(s, "idle")
  /\ UNCHANGED <<clock, enabled, nextRun, failures, leaseOwner, audits, others,
                 history, tick, job, edits, errors>>

\* Mutation: the run that was claimed is not compared with the next one.
StillEnabled(s) == enabled

StillDue(s) == enabled /\ nextRun = job[s].at

\* _current_claim, which locks nothing.
CheckClaim(s) ==
  /\ phase[s] = "checking"
  /\ GoTo(s, IF leaseOwner # s THEN "idle"
             ELSE IF StillDue(s) THEN "planning"
             ELSE "dropping")
  /\ UNCHANGED <<clock, schedule, audits, others, history, tick, job, edits,
                 errors>>

\* Its write: the lease is cleared, whoever holds it by now.
DropLease(s) ==
  /\ phase[s] = "dropping"
  /\ leaseOwner' = Nobody
  /\ leaseExpires' = 0
  /\ GoTo(s, "idle")
  /\ UNCHANGED <<clock, enabled, nextRun, failures, audits, others, history,
                 tick, job, edits, errors>>

ActiveAudits == others + Cardinality({a \in audits : a.active})

\* uq_audit_schedule_slot
SlotTaken(slot) == \E a \in audits : a.slot.at = slot.at

\* reserve_workspace_capacity comes first.
CapReached(s) ==
  /\ phase[s] = "planning"
  /\ ActiveAudits >= ActiveLimit
  /\ GoTo(s, "failed")
  /\ UNCHANGED <<clock, schedule, audits, others, history, tick, job, edits,
                 errors>>

\* IntegrityError: an audit of the slot exists, and the run counts as created.
FindSlotTaken(s) ==
  /\ phase[s] = "planning"
  /\ ActiveAudits < ActiveLimit
  /\ SlotTaken(job[s])
  /\ GoTo(s, "created")
  /\ UNCHANGED <<clock, schedule, audits, others, history, tick, job, edits,
                 errors>>

CreateAudit(s) ==
  /\ phase[s] = "planning"
  /\ ActiveAudits < ActiveLimit
  /\ ~SlotTaken(job[s])
  /\ audits' = audits \cup
       {[id |-> Cardinality(audits), slot |-> job[s], active |-> TRUE]}
  /\ GoTo(s, "created")
  /\ UNCHANGED <<clock, schedule, others, history, tick, job, edits, errors>>

\* Any other exception of create_audit, before its commit or after it.
CreateFails(s) ==
  /\ phase[s] = "planning"
  /\ errors < MaxErrors
  /\ errors' = errors + 1
  /\ \/ UNCHANGED audits
     \/ /\ ActiveAudits < ActiveLimit
        /\ ~SlotTaken(job[s])
        /\ audits' = audits \cup
             {[id |-> Cardinality(audits), slot |-> job[s], active |-> TRUE]}
  /\ GoTo(s, "failed")
  /\ UNCHANGED <<clock, schedule, others, history, tick, job, edits>>

-----------------------------------------------------------------------------
\* _finalize_claim

Earliest(S) == CHOOSE n \in S : \A m \in S : n <= m
\* The cadence's slots from the anchor on that lie after t.
SlotsAfter(anchor, t) ==
  {n \in anchor .. (anchor + t + Period) : n > t /\ (n - anchor) % Period = 0}

\* next_run_after: a daily cadence walks from the anchor, an interval counts the
\* whole intervals since the anchor and adds one.
NextRunAfter(anchor, t) ==
  CASE Cadence = "one_time" -> Never
    [] Cadence = "daily" -> Earliest(SlotsAfter(anchor, t))
    [] Cadence = "every_n_minutes" ->
         LET elapsed == IF t > anchor THEN t - anchor ELSE 0
         IN anchor + (elapsed \div Period + 1) * Period

FinishRun(s) ==
  /\ phase[s] = "created"
  /\ IF leaseOwner = s
       THEN LET next == IF nextRun = Never THEN NextRunAfter(tick[s], tick[s])
                        ELSE NextRunAfter(nextRun, tick[s])
            IN /\ nextRun' = next
               /\ enabled' = (enabled /\ next # Never)
               /\ failures' = 0
               /\ runFor' = IF next = Never THEN runFor ELSE next
               /\ left' = IF nextRun \in {next, Never} THEN left
                          ELSE left \cup {[run |-> runFor, slot |-> job[s],
                                           edited |-> s \in moved]}
               /\ UNCHANGED moved
               /\ leaseOwner' = Nobody
               /\ leaseExpires' = 0
       ELSE UNCHANGED <<schedule, history>>
  /\ GoTo(s, "idle")
  /\ UNCHANGED <<clock, audits, others, tick, job, edits, errors>>

\* The failed run is tried again later, as a slot of its own.
FinishFailure(s) ==
  /\ phase[s] = "failed"
  /\ IF leaseOwner = s
       THEN /\ nextRun' = tick[s] + RetryDelay
            /\ failures' = failures + 1
            /\ enabled' = (enabled /\ failures + 1 < MaxFailures)
            /\ leaseOwner' = Nobody
            /\ leaseExpires' = 0
       ELSE UNCHANGED schedule
  /\ GoTo(s, "idle")
  /\ UNCHANGED <<clock, audits, others, history, tick, job, edits, errors>>

-----------------------------------------------------------------------------
\* The environment

\* update_schedule looks at no lease; enabling without a next run means now.
\* A round that has checked its claim does not look again.
Edit ==
  /\ edits < MaxEdits
  /\ edits' = edits + 1
  /\ enabled' \in BOOLEAN
  /\ \/ /\ enabled' => nextRun # Never
        /\ UNCHANGED <<nextRun, runFor, moved>>
     \/ \E t \in {clock, clock + 1} :
          /\ nextRun' = t
          /\ runFor' = t
          /\ moved' = IF t = nextRun THEN moved
                      ELSE moved \cup {s \in Schedulers : phase[s] \in {"planning", "created"}}
  /\ UNCHANGED <<clock, failures, leaseOwner, leaseExpires, audits, others, left,
                 workers, errors>>

AuditEnds ==
  \E a \in audits :
    /\ a.active
    /\ audits' = (audits \ {a}) \cup {[a EXCEPT !.active = FALSE]}
    /\ UNCHANGED <<clock, schedule, others, history, workers, edits, errors>>

OtherAudits ==
  /\ \E n \in {others - 1, others + 1} :
       /\ n \in 0 .. MaxOthers
       /\ ActiveAudits - others + n <= ActiveLimit
       /\ others' = n
  /\ UNCHANGED <<clock, schedule, audits, history, workers, edits, errors>>

Die(s) ==
  /\ s \in Mortal
  /\ phase[s] # "dead"
  /\ GoTo(s, "dead")
  /\ UNCHANGED <<clock, schedule, audits, others, history, tick, job, edits,
                 errors>>

Tick ==
  /\ clock < MaxClock
  /\ clock' = clock + 1
  /\ UNCHANGED <<schedule, audits, others, history, workers, edits, errors>>

Next ==
  \/ \E s \in Schedulers :
       \/ ClaimDue(s)
       \/ RenewClaim(s)
       \/ CheckClaim(s)
       \/ DropLease(s)
       \/ CapReached(s)
       \/ FindSlotTaken(s)
       \/ CreateAudit(s)
       \/ CreateFails(s)
       \/ FinishRun(s)
       \/ FinishFailure(s)
       \/ Die(s)
  \/ Edit
  \/ AuditEnds
  \/ OtherAudits
  \/ Tick

Spec == Init /\ [][Next]_vars

-----------------------------------------------------------------------------
\* Properties

Plans(slot, run) == run \in {slot.run, slot.at}

\* A schedule moves past the run its next_run_at stands for only when an audit has
\* that run, unless a user set it after the round had checked its claim; the run the
\* round was for has its audit in any case.  Neither a stale scheduler nor a failed
\* plan, an expired lease or an earlier edit loses one.
NoRunSkipped ==
  \A l \in left : \E a \in audits :
    /\ a.slot.at = l.slot.at
    /\ Plans(a.slot, l.slot.run)
    /\ l.edited \/ Plans(a.slot, l.run)

-----------------------------------------------------------------------------
\* What the repository says of this code and the code refutes (see README)

\* "Plan each currently due schedule once": every run that is left has its audit.
\* The end of a round moves on from whatever next_run_at a user has set meanwhile.
EveryRunIsPlanned ==
  \A l \in left : \E a \in audits : Plans(a.slot, l.run)

\* A run is planned by one audit at most, whichever schedulers die, lose their
\* lease while they plan, or find the work of a dead one: "The unique slot makes
\* this retry a harmless completion, never a duplicate planned audit."
NoDuplicateAudit ==
  \A a, b \in audits : a.slot.run = b.slot.run => a.id = b.id

\* The run after a finished one is "the first cadence slot strictly after" the
\* round, also when a user has moved the schedule while it was planned.
NextSlotIsFirst ==
  [][\A s \in Schedulers :
       FinishRun(s) /\ nextRun' # nextRun /\ nextRun # Never =>
         nextRun' = Earliest(SlotsAfter(nextRun, tick[s]))]_vars
=============================================================================
