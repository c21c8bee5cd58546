# A TLA+ model of Searchify's workers, ledgers and purchases

Searchify measures how answer engines (ChatGPT, Gemini, Perplexity, ...) speak of a
brand. Its backend (`src/backend/app`) plans *audits*, sets of provider calls that worker
processes execute from PostgreSQL tables used as queues, under shared capacity limits and
billed to prepaid credits; it crawls the brand's site, imports and projects the
search data a user connected, and sells the plans that pay for it all. This directory models
these parts in TLA+, checks them with TLC and proves the safety of most of them, for every
value of the constants, with TLAPS.

Contents: [inventory](#inventory), [modules](#modules-and-how-they-follow-the-code),
[runs](#runs), [bounds](#bounds), [fairness](#fairness), [proofs](#proofs),
[what the code does otherwise than it says](#where-the-code-and-its-documentation-part),
[not modelled](#not-modelled), [plan](#plan).

## Inventory

| Component | State it keeps | Operations | Hard behaviour | What makes it correct |
|---|---|---|---|---|
| Task queue (`orchestration/postgres_task_queue.py`, protocol in `task_queue.py`) | rows with status, lease owner, lease expiry, due time, attempts; a turn cursor per workspace | claim, heartbeat, mark_running, succeed, fail, retry, park_capacity_wait, cancel, sweep | late holders, sweeps, crashes, concurrent claims, tenants competing | one executor at a time, bounded attempts, terminal rows final, leases end, no workspace starves |
| Audit worker (`workers/audit_worker.py`, `orchestration/audit_state.py`) | the audit's status and counts, artifacts, attempts | execute a task in about eight transactions, finalize, sweep janitor, crash handler | a fault between any two transactions, cancellation and deadline at any time | outcomes rest on evidence, nothing recorded after the end, every audit ends |
| Audit planner (`domain/audits/planner.py`) | audits, snapshots, tasks, reservations | create_audit, cancel_audit | active cap, cancellation racing executors | one plan per slot, cancel leaves nothing open |
| Capacity pools (`orchestration/provider_capacity.py`) | bucket rows (tokens, cooldown), leases with TTL | acquire, release | row locks in order, stale clock readings, orphaned leases | ceilings, start rate and cooldowns hold, no lock circle |
| Credit ledger (`domain/entitlements/ledger.py`) | append-only rows: reservation, release, debit | reserve, bill, release | sums read before rows are written, five settling paths | no overdraft, units settled once |
| Audit scheduler (`workers/audit_scheduler.py`, `domain/audits/schedule_service.py`) | schedules with a lease and a next run | claim, renew, plan, finish, edit | a clock read once per round, retry of what was done | no run lost, none planned twice |
| Audit analysis (`analysis/service.py`) | metrics, scores, the audit's final status | finalize_audit_analysis | runs once, after the last task | partial only with partial evidence |
| Site health crawl (`workers/site_health_worker.py`, `workers/site_health/`, `domain/site_health/`) | a crawl with two sub-states, tasks of three kinds, phase runs, the monitored selection | discover, analyze, check links, reconcile, cancel, start and stop phases, replace the selection | tasks that add tasks, late fetches, a phase stopped and started under running tasks | a crawl ends once or is parked, its end is truthful, nothing is written after it |
| Integrations (`workers/integration_worker.py`, `integration_dispatcher.py`, `domain/integrations/`) | a grant's tokens and status, its connections, sync runs, artifacts, metric rows | refresh, sync page by page, derive, connect, disconnect, retry a revocation | provider calls between read and write, rotated tokens, three kinds of sessions, resumed syncs | a rotated token is not lost, a failed revocation is retried until it is resolved, a page is imported once and no page is left out |
| Analytics and traffic (`workers/analytics_worker.py`, `domain/analytics/`, `domain/traffic/`) | tasks, referral events, one snapshot per window | ingest, classify, refresh | executors that run twice, keys that deduplicate what is new, revisions arriving meanwhile | what was imported is projected, the latest revision counts |
| Billing (`domain/billing/`) | pending activations, idempotency and webhook records, activations, subscriptions, grant bundles | intent, webhook, activate, apply a subscription's state, reconcile | duplicate, late and missing deliveries, a death between intent and call | a purchase calls the provider once, is settled once, and only if it was paid |
| Entitlements (`domain/entitlements/`) | grants, revocations, cache | resolve, enforce, issue | stale cache | allowances never exceed grants |
| Content and discovery workers (`workers/`) | their queue rows and drafts | claim, run, finalize | as the audit worker, with fewer steps | attempts settle once |
| Abuse limits (`domain/abuse/service.py`) | usage counters per window | consume, reserve | concurrent consumption | limits never exceeded |
| Opportunities, prompts, projects, products, attribution, measurement, command center | domain rows | CRUD, aggregates, refresh | little | per row |
| Connectors, API, auth, frontend, migrations | none of their own that matters here | I/O, routing, rendering | | |

Components meet in a few ways. A worker calls the queue, and every call is a transaction of
its own. The audit worker's own transactions lock the audit row or the task row and write
the ledger in the same transaction. Capacity is acquired before a provider call and
released after it, again in transactions of their own. The scheduler calls the planner,
whose commit is what a retry finds. The Site Health worker is a second client of the same
queue; workers and requests share a grant's row; webhooks, sweep and requests share a
purchase's rows, and what a purchase issues is what the credit ledger draws on. A sync run's
last transaction enqueues the analytics tasks, which enqueue one another. Between two transactions of one coroutine, any
transaction of any other may commit; that is where the hazards of PROJECT.json lie.

## Modules and how they follow the code

```
TaskLifecycle  <--refines--  TaskQueue  --extends-->  TaskRow  <--extends--  AuditRun  --refines-->  TaskLifecycle
                                                            <--extends--  SiteCrawl
                                                       <--extends--  ImportProjection
FairClaim   ProviderCapacity   ConsumableLedger   AuditScheduler   IntegrationGrant   Billing
```

A module `XProofs` extends X and holds the theorems about it. PlanningProofs extends
ConsumableLedger and instantiates AuditScheduler as `Scheduler` (what plans an audit and what the
audit reserves); TaskQueueProofs instantiates FairClaim as `Turns` (the queue, and whose task its
claim takes). The proofs about TaskQueue, AuditRun and SiteCrawl begin with the same lemmas
about the operations of TaskRow. About TaskLifecycle itself there are none: it is what two
theorems conclude.

Every `MC*` module extends its component and adds the values of an instance. Next to some
operators stands a variant marked *Mutation*: a plausible slip of the code
that a property of a run must notice when it takes the operator's place.

**TaskRow** is one queue row as a record and, as pure operators, what each queue operation
writes into it: `Lease`, `Begin`, `Extend`, `Finalize`, `Postpone`, `Reclaim`, and the WHERE
clauses `Eligible`, `Expired`, `OwnedBy`. The two wall-clock columns become the flags
`lapsed` (`lease_expires_at < now`) and `due` (`available_at <= now`). The four modules
with tasks use it, so a task row means the same thing in all of them.

**TaskLifecycle** is what the `TaskQueue` protocol class promises: a task is handed to one
executor, which alone decides how its execution ends, within the attempt budget; a
terminal task stays as it is. TaskQueue and AuditRun instantiate it, the one for the queue's
operations under any caller, the other for what the audit worker, the cancel request and the
deadline make of them. A cancel request ends several waiting tasks at once, so `Cancel` takes a set.

**TaskQueue** is `PostgresTaskQueue` under several worker slots. One action per operation;
a slot (one coroutine of `run_pipelined`) is the program counter of `_execute_task` as far
as the queue can tell. `RecordAttempt` is the worker's transaction that writes
`attempt_count` under the lease, between provider call and report. A heartbeat may come at
any time, a lease may lapse at any time, a process may die at any time. A claim is `ClaimSnapshot`
followed by `ClaimLock` or `ClaimNothing`, because that is what PostgreSQL does: the status filter
sits in the ranking subquery, so a row that was leased or ended and committed after the snapshot
is re-checked only for the join on its id. And all slots of a process share its owner
string. A claim that takes a row which waits no longer, or one that another slot of the process
still acts on, is not *in turn* (`InTurn`); the history `crossed` keeps the tasks that were ever claimed so.
What the queue promises, it keeps for all others, with splits and shared strings in the model, and of a
crossed task the sweeps and the end of leases are still checked.

**FairClaim** is the choice a claim makes among tenants: position of a row within its
workspace first, then the workspace's `last_claimed_at`, then the base order; rows locked by
another claim are skipped; the cursor rows are upserted one by one in the order of the
workspace id, keeping the later time. Time stamps are kept only up to their order.

**AuditRun** is one audit from its first claim to its terminal status. Its slots run the
whole of `_execute_task`: boundary checks under the audit lock (`StopAtBoundary`,
`PassBoundary`), capacity wait (`RecordCapacityWait`, `QueuePark`), the call, the persisting
transactions with billing (`PersistSuccess`, `PersistFailure`, `BillingRefused`,
`DiscardAnswer`, `Reject`), the report to the queue, the crash handler in its two
transactions, `_finalize_audit` in its two counting statements, and the analysis. Also the
sweep with its janitor, `cancel_audit`, the deadline, exceptions and dead processes. A
reservation is a number of outstanding units here. A claim is one step, since TaskQueue has it in two;
slots may share an owner string, and `crossed` is TaskQueue's.

**ProviderCapacity** is acquire and release over bucket rows that are locked one after the
other in the order of `_bucket_specs`, with the clock read before the first lock, lazily
refilled tokens, cooldowns that are only ever raised, and leases that expire. Time passes
while a lock is waited for, up to `MaxWait`. `_refill_tokens` credits nothing for a negative
interval, but it sets `refilled_at` back to the late transaction's clock (`Refill`);
the history `replayed` adds up the time that will be credited a second time.

**ConsumableLedger** keeps the sums of the append-only rows. A settlement is two actions,
the read of what is outstanding and the write; `MaySettle` says which row locks
the callers hold in between. An executor has the task's row. A boundary has the audit's and
reads the task without a lock; the janitor and the crash handler have none. An executor and
a boundary append rows whose foreign keys need the row the other holds, so
that one of the two is rolled back; a boundary and the janitor both commit, and `overlapped`
keeps the tasks that met such a pair. A planner locks the account's grants in draw order, then reads
balances, draws and commits or rolls back.

**AuditScheduler** is one schedule under several scheduler processes: `run_once` as claim,
renewal, check, planning and finish, each a transaction of its own, all working with the
one clock reading of the round. `create_audit` is reduced to the active cap, the unique
slot, other failures and the commit. Of the history variables, `runFor` is the run `next_run_at`
stands for, `left` the runs the schedule has moved past: what `next_run_at` stood for when a
round's end overwrote it, beside the slot the round was for; `moved` names the schedulers behind
whose check a user set another run.

**SiteCrawl** is one crawl of either mode, or the first review of a project
(`projects/activation.py`), which monitors and analyzes the pages it discovers up to a limit. A slot executes a task as in AuditRun, but the
crawl's end is decided by `CrawlLifecycle.reconcile`, which runs after every task, after a
sweep that failed one, and as a backstop for stalled crawls: `Reconcile`, with `Progress`,
`Park` and `Conclude` as its three outcomes. Discovery admits the links of a page up to a
budget and keeps the rest in `frontier`. A first review puts the pages it samples into the selection,
also those a user has removed (`revived`, if their analysis was planned before), and plans
their analyses in the phase run of the discovery; `LockedPages` are the memberships an open
request has locked. An analysis adds its link check, in its own phase run. Selection
requests hold the workspace's runtime row, so they come in two actions, the look for an
active crawl and the commit; phases are started and stopped in one. `phaseRun` names the
phase-run row of a task, `running` the ordinals of the running ones. Which pages `start_analysis`
takes is left open among all the crawl has a task of, more than the observations it selects from.

**IntegrationGrant** is one Google grant with two connections. Actors are the sync workers,
requests that list properties, disconnects, OAuth callbacks and the dispatcher. `copy` is
the grant as an actor's session loaded it, `bundle` the provider's answer: the code
overwrites rows with what differs from the loaded copy (`Overwrite`), and
`fresh_access_token` re-reads a grant into a session that holds it already, so a caller
judges its old copy. A worker opens a session of its own, and does not. `lock` is the row
lock a refresh holds across its call. The provider numbers what it issues; it may rotate a
refresh token, lose an answer, or refuse.

**Billing** is the purchases of one account, each one Idempotency-Key. Requests check, insert
intent and record, call the provider and complete; a handler records an event, dispatches
and applies it with the subscription it loaded; the sweep claims a batch and settles it one
by one, the oldest first and no more than `BatchSize`. `Settles` is the tail of `activate_pending`
that all of them share, behind the checks of identity, catalog revision, price and amount: when
the record and the stored intent disagree (`Disagrees`), every payment of the purchase is refused. The
provider goes through the states of what was bought and sends an event for each. A base
subscription is renewed, falls past due or unpaid, or ends, in an order the constant `Course`
fixes: only an active one settles a purchase, a failed or ended one closes it, and any other
leaves it pending (`Undecided`).

**ImportProjection** follows search data from the provider to a dashboard. A sync run fetches
the pages its artifacts lack (`Missing`), one transaction each, then derives metric rows and
enqueues the projections with its own end (`Derive`). Analytics tasks ingest an artifact's
referral rows, classify them and enqueue a refresh; a refresh reads the rows of its window
and replaces the window's snapshot, `Read` and `Upsert`, with other workers in between. Both queues
are one map from unique key to row, so that `ON CONFLICT DO NOTHING` is a test of the
domain; `line` is the order of `available_at`, in which rows are claimed. The provider's data is
a version number, and an artifact keeps the version it was fetched at. One abstraction counts:
a page yields the same row identities whenever it is fetched (`Derived`), so the dimension keys that only
a later fetch brings (`derive.py:217-232`) do not occur; their rows would be inserted like others.

## Runs

Passing runs:

| Run | Shows |
|---|---|
| `task_queue` | Two slots that share an owner string and one of another process, split claims, deaths in every state: as long as a task is claimed in turn it follows TaskLifecycle (`RefinesLifecycle`), its attempts stay in the budget, and nobody but the holder of its lease writes under it; and every lease of any task ends (`LeasesEnd`). |
| `fair_claim` | Overlapping claims of one or two rows: a waiting workspace is passed over fewer than twice per worker (`BoundedBypass`), it is served (`WorkspacesServed`) although clock readings and commits cross, and the cursor locks make no circle (`ClaimsEnd`). |
| `audit_run` | Two tasks, one of them funded, two processes, a death, an exception, a lapsed lease, cancellation and deadline: a terminal audit has no open task, its status rests on artifacts, a funded task's answers are billed within its reservation, nothing is recorded after the end, and the tasks follow TaskLifecycle (`KeepsLifecycle`); without a death or exception the audit ends and its credits are back. |
| `provider_capacity` | BYOK and funded attempts over one transport, one worker dying: units and calls in flight stay under every ceiling, cooldowns are never shortened or ignored, and lock waits end, although clock readings are a tick old when they are used; paced starts stay under burst, rate and what a set-back refill credits twice (`StartsAccounted`). |
| `consumable_ledger` | Two planners, two grants and all settling paths with the locks they have: units come back twice only of a task that a boundary and the janitor settled together, and once more at most (`ReleasesAccounted`); no reservation takes more than the rows leave, no debit is without a release of its task, and a grant none of whose units came back twice is not overdrawn (`NoOverdraft`). |
| `audit_scheduler` | A reached cap, an exception before or after the commit, a death, lost leases and an edit by a user: the schedule moves past a run only when an audit of it exists, or a user set that run while the round was planning. |
| `site_crawl` | Eight scenarios of a crawl with one or two pages and two processes, in three modes: one event (stall, exception, failed fetch, death, cancellation, selection request) at any point, or phases started and stopped: it settles (`CrawlSettles`), ends once with nothing recorded after (`NothingAfterTheEnd`), reports what its tasks did (`EndIsTruthful`), and a stopped phase run leaves no live task (`StoppedPhasesAreQuiet`). |
| `integration_grant` | Two workers, a caller, a disconnect, a reconnect and the dispatcher, with one expiry, failed call, lost answer or death: the stored refresh token works (`StoredTokenWorks`), a rotation replaces the token it was made with (`RotationReplacesItself`), pending revocations resolve and every request is answered. |
| `billing` | A base plan whose key is retried beside a top-up, with two deliveries at a time, or beside two top-ups with a sweep of one row; two failures; the plan falls unpaid after its first period: one provider call and one settlement per purchase, bundles only for what was paid, and a payment that is not refused is settled by the sweep alone, unless other purchases keep the sweep from it. |
| `import_projection` | Two revisions of one window, two sync workers and an analytics worker, with one stall, error or death, while the provider revises its data: no page is imported twice (`PagesImportedOnce`) or left out (`SucceededIsComplete`), within a window a higher revision is newer data (`HigherRevisionIsNewer`), referral rows are classified, and imported rows reach the traffic snapshot, as long as no sync of another connection or kind shares their refresh (`OwnRefreshReachesTraffic`). |

Runs that end in a violation state a sentence of the repository; see
[below](#where-the-code-and-its-documentation-part).

## Bounds

Two tasks, slots, workers, planners or schedulers are enough for the races looked for,
which are all between a late actor and a new one, or between two that read before either
writes. `fair_claim` has two workspaces with two tasks each and claims of one or two rows, so
that a claim can serve both and two claims can hold each other's cursor; the audit worker
claims a batch in `run_once` and one row in a slot. `MaxAttempts = 2`
gives a first attempt, a retry and the end of the budget. `SweepBatch` 1 and 2 lie below
and at the number of tasks.

`AuditRun` has two bounds of its own: `MaxStalls` leases of a live executor that lapse
(`Sweep` takes a dead one's lease always) and `MaxErrors` raised exceptions; one of each is
combined with one mortal process. `ProviderCapacity` bounds the clock by `MaxClock` and the
time a row lock is waited for by `MaxWait`; 1 is enough for two transactions to commit in the
opposite order of their clock readings. `LeaseTTL > MaxWait + CallTimeout` mirrors 240 s
against the per-call ceiling. `AuditScheduler` bounds the clock, edits, failures of
`create_audit` and other audits. Its lease is one tick and its period two, so leases
expire during a round and two runs fall due within the clock.

`SiteCrawl` has two pages, the root linking to the other; a second generation of a page's
tasks (`MaxGeneration = 1`) is enough for a page to be analyzed again while its first
analysis is late. `Scenarios` are the crawls that are planned, each with its mode and its own
bounds (`Crawls` in MCSiteCrawl): an ordinary crawl, a first review and a crawl with
advanced controls, of two pages where the second page matters and of one otherwise, each with one
event, or with up to two starts and one stop of its phases. What one scenario has, another need not:
the product of all would not end.
`IntegrationGrant` lets two runs begin on two workers beside one actor of each other kind,
with one event. `Billing` has three purchases and two casts (`Casts`): the base plan and one
top-up with two requests for one key and two deliveries, so that a renewal, a lapse and an end
overtake each other; and all three without deliveries, so that one is behind a full batch
(`BatchSize = 1`). Two calls are uncertain, refused or fail, records disagree, or somebody dies.

`ImportProjection` has one connection with the two GA4 referral datasets as its pages (both
feed the referral chain, one the traffic snapshot), two runs, one change of the provider's data
and one fault. There is one analytics worker, as the runbook deploys it
(`docs/archive/operations/aws-hosting-runbook.md:373`); what two do is in the table below.
An instance with both connections also passes (1.2 million states), with runs of two kinds the
safety properties do; `traffic_refresh` is the one with two connections whose refresh they share.

`TypeOK` of the modules whose runs do not list it holds in the same instances; the runs
give their time to what a type does not say.

Deadlock checking is off where the system may stop: tasks, clock or live processes run
out. `fair_claim` has no such end and checks it.

## Fairness

* TaskQueue: the sweeper keeps running (every worker sweeps before it claims), time passes,
  and a slot in the middle of an operation goes on unless its process dies.
  No fairness on claims, heartbeats, cancellation or deaths.
* FairClaim: claimers poll and commit; `SF` on a cursor lock, because PostgreSQL queues the
  waiters of a row lock in order.
* AuditRun: live slots finish, poll and sweep, and the run's deadline passes. Nobody has to
  cancel. `AuditEnds` is claimed only for behaviours without a death or exception; see
  `SweptRunsEnd` below.
* SiteCrawl: a live slot takes some step: it goes on with what it claimed (a fetch has a deadline),
  or claims, sweeps or looks for stalled crawls, whichever; and a selection request ends, by its
  commit or by a failure. Users owe nothing, and the mortal
  process may die at any point.
* IntegrationGrant: an actor in a call goes on, and the dispatcher ticks. Weak fairness is
  enough for the row's lock because only boundedly many others contend for it.
* Billing: the operator runs the sweep again and again (`scripts/reconcile_billing.py`; there is
  "no scheduler and no worker loop"), and nothing else: no request has to go on, no event to be
  delivered, nobody to pay.
* ImportProjection: worker loops run on, delays of retries end, and a dead process's lease
  runs out. Nothing makes anybody request a sync.
* ProviderCapacity: transactions that have their locks commit, and lock waiters are served
  in order. Nothing makes a worker begin or a call end.

## Proofs

All theorems hold for every value of the constants that the modules' assumptions allow: any
sets of tasks, slots, pages, pools or purchases (finite where something counts them), any
bounds. What a theorem assumes beyond that is in the last column.

| Theorem | States | Assumes |
|---|---|---|
| *TaskQueueProofs* `TypeCorrect`, `LeasesAreCoherent` | `TypeOK`, `LeaseCoherent` | |
| `TerminalHolds` | `TerminalIsFinal` | |
| `BudgetHolds`, `OnlyHolderWritesHolds`, `QueueRefinesLifecycle` | `AttemptsWithinBudget`, `OnlyTheHolderWrites`, `RefinesLifecycle` | |
| `BoundedBypassHolds` | `BoundedBypass` of FairClaim | its `ClaimAssumption` |
| *AuditRunProofs* `TypeCorrect` | `TypeOK` | |
| `TerminalAuditIsQuietHolds`, `NothingRecordedHolds` | `TerminalAuditIsQuiet`, `NothingRecordedAfterTheEnd` | |
| `OutcomesRestOnEvidenceHolds` | `OutcomesRestOnEvidence` | |
| `CreditsConservedHolds` | `CreditsConserved` | |
| `RunKeepsLifecycle` | `KeepsLifecycle` | |
| *SiteCrawlProofs* `TypeCorrect`, `NothingAfterTheEndHolds` | `TypeOK`, `NothingAfterTheEnd` | |
| `StoppedPhasesAreQuietHolds` | `StoppedPhasesAreQuiet` | |
| `EndIsTruthfulHolds` | `EndIsTruthful` | |
| *ImportProjectionProofs* `PagesImportedOnceHolds`, `SucceededIsCompleteHolds` | `PagesImportedOnce`, `SucceededIsComplete` | |
| `HigherRevisionIsNewerHolds` | `HigherRevisionIsNewer` | |
| *IntegrationGrantProofs* `TypeCorrect`, `StoredTokenWorksHolds`, `RotationReplacesItselfHolds` | `TypeOK`, `StoredTokenWorks`, `RotationReplacesItself` | |
| *BillingProofs* `TypeCorrect`, `OneSettlementHolds`, `ProviderCalledOnceHolds`, `GrantsRestOnPaymentHolds` | `TypeOK`, `OneSettlement`, `ProviderCalledOnce`, `GrantsRestOnPayment` | |
| *ProviderCapacityProofs* `TypeCorrect`, `CeilingRespectedHolds`, `CooldownsHoldAlways` | `TypeOK`, `CeilingRespected`, `CooldownsHold` | |
| `StartsAreAccounted` | `StartsAccounted` | |
| *PlanningProofs* `TypeCorrect`, `ReleasesAreAccounted`, `NoOverdraftHolds` | `TypeOK`, `ReleasesAccounted`, `NoOverdraft` | |
| `NoRunSkippedHolds` | `NoRunSkipped` of AuditScheduler | its `ScheduleAssumption` |

What AuditScheduler and FairClaim assume of their constants is a hypothesis of
`NoRunSkippedHolds` and `BoundedBypassHolds` (`Scheduler!Configured`, `Turns!Configured`),
because an instance does not bring the assumption along. Where the code does not keep a
promise in every case, the case is in the model and the theorem says which it is (a crossed task,
a credited second, an overlapped settlement, a run set behind a check, a revived page); the section below has the
promise as the repository words it.

Every proof has the same shape: pure lemmas about operators, an inductive `BaseInv` (the
type invariant and what it needs to be inductive, above all that a row has an owner exactly
while it is leased), then one invariant after the other on top of it, each with one step per
action. Where many actions do the same kind of thing to a part of the state, a lemma says what
any step may do to it (`RowsMove`, `SlotMoves`, `PlanMoves`, `OwnStep`, ...), and the invariants
are proved from these. Why the properties are not inductive, and what is added:

* **TaskQueue**, `BudgetInv`. A slot writes `attempt_count` in one transaction
  and tells the queue in a later one, and a sweep, a lapse or a cancellation may come between.
  Added is what a slot with a standing lease knows: before it
  persists its attempt, or after one that is to be retried, there is budget left. It stands
  only if the row named by the slot's owner string is leased to that slot, and that is what being claimed
  in turn sees to: no two slots of one string are at one task that is not crossed. Of a crossed
  task the refinement keeps nothing (TaskLifecycle has `crossed`, too, and steps of such tasks are free). It maps a slot to an executor and a row's status and
  attempts to themselves; the sweep of a batch is one abstract step.
* **FairClaim**, `Counted`. How often v may still be served before w depends on which of them had its
  turn last. While v's turn is no later than w's, each service of v either leaves it so, and
  then its clock reading is one of those taken before w's last turn (`Early`), of which there are
  fewer than workers and never new ones, or moves v's turn past w's, once. From then on no new claim
  prefers v (`LaterTurnsWait`), and only claims that had their rows already can serve it
  (`Overtaking`). That the clock is renumbered is harmless because renumbering keeps the order
  (`RenumberedOrder`).
* **AuditRun**. `EndedQuietly`: an audit under analysis has no open task either, because it
  ends without another look at the rows. `Evidenced`: not only succeeded rows rest on an
  artifact, but every slot that is about to report a success or has counted one. `Covered`:
  debits and calls in flight together are at most the calls that were sent, which needs a
  count of slots, and `ReleasedFirst` and `Returned`: whoever is about to end a row has returned
  its credits, and an ended row's are back or with a slot in one of the two releasing stages.
  For the lifecycle, `BudgetInv` as for the queue, of the tasks that are not crossed; `StepActs` reduces all the
  worker's phases to the eight things a step may do to a row, and the refinement maps those.
* **SiteCrawl**. `PhaseInv` adds to the types that discover tasks carry a run of the discovery
  (`DiscoversForDiscovery`). `Acknowledged`: what succeeded, and what a slot will report
  as succeeded, has its result. `EndInv` holds of an ordinary crawl that is not
  over and in which nobody alive lost a lease: whoever executes a task has its lease and is
  alone with it (`Alone`), the analyses of a page are numbered without a gap, so that a request
  plans a task that is really new (`Numbered`), and a selected page with analyses has
  one that has its result, failed, or is live with no slot about to cancel it (`Promised`). A page
  that discovery put back into the selection is excepted (`revived`): its task stays cancelled.
* **ImportProjection**. `InHand`: the page a worker fetched is not imported while the run is still its own.
  `Fetched`: a run is derived when no page is missing. For the order of
  revisions, `RevisionInv`: the line holds each due run once; when a window has a further run the
  earlier ones ended; neither an artifact nor an answer in hand of a later run is older than an
  artifact of an earlier one; and a metric row names a run whose page is imported. What
  `Without` (`SelectSeq`) does to a sequence is described by a recurrence, which
  is proved by induction over intervals.
* **Billing**. `SettledInv`: a purchase that is not claimed is not settled.
  `CalledInv`: one request of a key is at the call, and none has called before it.
  `PaidInv`: what the sweep was told, and the provider's own state, was said in an event.
* **ProviderCapacity**. The ceiling counts leases by the clock, and calls in flight by
  their workers; that a call's leases outlive it follows from how old a transaction's clock
  reading may be (`InTime`, `CallsLeased`). `PacingInv` is
  `starts + tokens <= Burst + Rate * (refilledAt + replayed)`, with `replayed` the time that
  an old clock reading set `refilled_at` back by.
* **ConsumableLedger**. `SettlementInv`: one settlement of a task is under way, or a boundary's and the
  janitor's. What it has read is what is outstanding, except that the janitor may have read, of a task
  that overlapped, what the boundary then returned (`Returned`). `SeenInv`: a planner that holds a grant's
  lock has read at most its balance. The draw's sums over grants are finite sums, for
  which the module proves the recurrence and monotonicity it needs.
* **AuditScheduler**. A retry is a slot of its own for an older run, so slot times must be related
  to clocks. `NextCovered`: no planned slot lies after the clock, and one at the time of the next run
  stands for that run. `HolderInv`: whoever holds the lease claimed last, so the same is true of
  its clock reading and its slot, and once it has created the audit or found the slot
  taken, its run has one; and once it has checked its claim, the next run is its slot's until a
  user moves it (`moved`). `Stays` says what most steps leave of it all.
* **IntegrationGrant**. `SessionSafe` says what a session holds at each stage of its actor's call,
  and of the row meanwhile: a worker that refreshes presents what the row holds. `ConsentsApart`:
  nobody but its callback knows the refresh token of a consent that is not stored yet, so no
  refresh takes it back. With it `ConsentsWork`, `StoredWorks` and `RotatedWorks` say that what
  is to be stored is accepted, what is stored is too, and a rotation that waits takes over, unless a disconnect
  waits to drop the tokens. All but six actions are proved by what `Brings` and `Harmless`
  say of a step: which tokens it moves and that it withdraws none.

TLC checked the strengthenings on the instances of the runs before they were proved. One
proof failed for a reason: without `grant.refresh # NoToken` `StoredTokenWorks` is false, of two
disconnects of one connection and two reconnects. `RevocationIsRecorded` below
shows how a connected grant is left without credentials.

Only model-checked: all liveness, which the prover does not do, with FairClaim's `ClaimsEnd` and
`WorkspacesServed`. The type invariants
of AuditRun, SiteCrawl and IntegrationGrant are checked and proved; those of
TaskQueue, Billing, ProviderCapacity and ConsumableLedger are proved, and `LeaseCoherent` and
`TerminalIsFinal` are, and no run repeats them. For ImportProjection, AuditScheduler and FairClaim
the proofs' `BaseInv`, `ScheduleTypes` and `TurnTypes` take the place of `TypeOK`.

## Where the code and its documentation part

Two runs end in a violation:

| Run | Sentence | What the code does |
|---|---|---|
| `ledger_overlap`: `ReleasedOnce` | "so exactly the still-reserved units are ever released" (`ledger.py:484-485`), "Either way exactly one release settles per reservation" (`planner.py:1641`) | The boundary (`audit_worker.py:996-1036`) and the janitor (`724-760`) release without a lock of the task: both read the same units as outstanding and both return them. |
| `traffic_refresh`: `RowsReachTraffic` | a landed sync enqueues a refresh of the projections (`docs/archive/roadmap/traffic.md:127-128`) | The refresh's key names project, window and revision (`enqueue.py:179-181`): the second connection's refresh is taken for the first's, which may have run before its rows landed. |

More statements of the same kind are in the modules without a run of their own. Each is
violated in the instance its row describes. *Lone task* is `AuditRun.cfg` with
`Tasks = {t1}`, `Funded = {}`, `MaxStalls = MaxErrors = 0`, `MaxAttempts = 1`; *quiet import* is
`ImportProjection.cfg` with `Syncers = {s1}` (and `Owners` to match), `MaxFaults = 0`:

| Statement | Instance |
|---|---|
| `StaleHolderDoesNotAct` (TaskQueue): "Lease was reclaimed by the sweeper or stolen; do not act" (`postgres_task_queue.py:219`) | `TaskQueue.cfg`: slots of one process share the owner string, so the one that lost its lease acts under the other's. |
| `ClaimsAreDisjoint` (TaskQueue): "task-row locks make claims disjoint" (`postgres_task_queue.py:126`) | `TaskQueue.cfg`: the rows to lock were chosen in an older snapshot, and the lock has no status condition of its own; a row that another process leased in between is leased again. |
| `SweptRunsEnd` (AuditRun): "Callers reconcile the reported parents" (`postgres_task_queue.py:402`) | Lone task: the audit worker's sweep ignores `failed_parent_ids`; an audit whose last task it fails stays active. |
| `NoReexecution` (AuditRun): "Succeeded work is not re-executed under the same identity" (`docs/invariants.md:149-150`) | Lone task with `MaxAttempts = 2`: a death between the evidence's commit and `queue.succeed`. |
| `ClaimsAreReserved` (AuditRun): "a worker can never claim an unreserved funded task" (`core/config/audits.py:118-121`) | the same with `Funded = {t1}`: billed or released, then swept and claimed again. |
| `CallsWithinBudget` (AuditRun): "bounded by the task's frozen `max_attempts`" (`audit_worker.py:10-11`) | Lone task: a call whose executor died is not counted. |
| `CreditsReturned` (AuditRun): "a crash loop can never leak credits" (`audit_worker.py:712`) | Lone task with `Funded = {t1}`, `MaxErrors = 1`: a death between the sweep and its release. |
| `PacingRespected` (ProviderCapacity): "the sustained start rate" (`core/config/provider_catalog.py:237`) | `ProviderCapacity.cfg`: an old clock reading sets `refilled_at` back (`provider_capacity.py:353`) and the same seconds are credited twice. |
| `NextSlotIsFirst` (AuditScheduler): "the first cadence slot strictly after `after`" (`audit_scheduler.py:48`) | `AuditScheduler.cfg` with `Cadence = "every_n_minutes"`, `MaxEdits = 1`, `ActiveLimit = 9`: an interval is added even to an anchor that lies ahead. |
| `FailedMeansNoSuccess` (AuditRun): "audit failed: no successful executions" (`audit_worker.py:1979`) | `AuditRun.cfg`: succeeded and terminal rows are counted by two statements; a success between them is missed. |
| `NoDuplicateAudit` (AuditScheduler): "never a duplicate planned audit" (`audit_scheduler.py:185`) | `AuditScheduler.cfg` with `ActiveLimit = 2`, `MaxOthers = 1`, `MaxEdits = 0`, `MaxErrors = 0`: the cap is checked before the unique slot; a repeat of a planned slot fails on the cap its own audit fills, and is retried as another slot. |
| `EveryRunIsPlanned` (AuditScheduler): "Plan each currently due schedule once" (`audit_scheduler.py:89`) | `AuditScheduler.cfg`: a user sets the next run while a round is planning (`schedule_service.py:157-161`); the round's end moves on from it without an audit of it (`audit_scheduler.py:229-231`). |
| `LostLeaseNotCancelled` (SiteCrawl): "a lost lease is not ours to cancel" (`phases/analyze.py:188`) | `SiteCrawl.cfg`: the first, unlocked check of `_run_analyze` (`phases/analyze.py:98-106`) cancels the row whoever owns it by then. |
| `NoTaskOnTerminalCrawl` (SiteCrawl): "an enqueue onto a terminal crawl is dropped rather than stranded" (`discovery.py:322-323`) | `SiteCrawl.cfg`: selection requests insert their tasks without that lock. |
| `EvidenceIsAcknowledged` (SiteCrawl): "a reclaimed task must acknowledge that durable result" (`phases/analyze.py:84-86`) | `SiteCrawl.cfg`: an exception after the result's commit fails the task that has it, and so does a sweep that finds the attempts spent. |
| `StoppedCrawlIsPaused` (SiteCrawl): "Settle crawl + phase state once no non-terminal task remains" (`phase_control.py:313`) | `SiteCrawl.cfg`: a crawl stopped before its first claim stays `queued`. |
| `EverySelectedPageIsAnalyzed` (SiteCrawl): "a recrawl can genuinely bring a previously-sampled URL back into the monitored set" (`discovery.py:440-456`) | `SiteCrawl.cfg`: a page that discovery puts back into the selection (`discovery.py:383-405`) keeps its cancelled task, because the enqueue of its first generation conflicts with it; the crawl completes without its analysis. |
| `PausedIsParked` (SiteCrawl): "a RUNNING sub-state with no work behind it is not a live phase, it is a lie" (`lifecycle.py:146-149`) | `SiteCrawl.cfg` with the one crawl `Planned(TRUE, FALSE, {Root}, 0, 0, 2)`. |
| `SingleRefresh` (IntegrationGrant): "two concurrent requests on one grant perform at most one remote refresh" (`tokens.py:47-49`) | `IntegrationGrant.cfg`: the locked read returns what the session loaded before. The crawl's worker documents the pitfall itself (`site_health_worker.py:476-480`). |
| `ReauthIsWarranted` (IntegrationGrant) | `IntegrationGrant.cfg`: a worker marks a grant a reconnect has just renewed. |
| `LastDisconnectRevokes` (IntegrationGrant): revoked "when it was the LAST one" (`service.py:633`) | `IntegrationGrant.cfg` with `Removers = {d1, d2}`, `MaxRuns = 0`: each of two requests sees the other's connection. |
| `NoLiveGrantForgotten` (IntegrationGrant): "a failed remote revoke can never orphan a live remote grant" (`service.py:638-639`) | the same: a reconnect between the revocation and the write of its outcome. |
| `RevocationIsRecorded` (IntegrationGrant): "remote-revoke SUCCESS → grant `revoked` + encrypted tokens dropped" (`service.py:641`) | `IntegrationGrant.cfg` with `Connections = {gsc}`, `Workers = {}`, `Removers = {d1, d2}`, `Target <- SameConnection`, `Callbacks = {k1, k2}`, `MaxRuns = 0`: a refresh wrote its tokens into a revoked row, a disconnect loaded that row, and a reconnect came before its outcome: the update erases the new tokens but not the status, which in its own copy was `revoked` already. |
| `RetryFinishes` (IntegrationGrant): see the module | `IntegrationGrant.cfg` with `Callers = {}`, `Callbacks = {}`: the revocation arrived, its answer did not, and every retry is refused. |
| `PaidIsRecovered` (Billing): without the sweep "ONE missed webhook leaves a paying customer with no grants" (`reconciliation.py:3-4`) | `Billing.cfg`: with it, too: a paid purchase stays pending when the checks refuse it, when its subscription has fallen due since, when it is behind a full batch of such, or when a paid top-up without a live base plan aborts every sweep. |
| `StaleEventsRejected` (Billing): "rejects stale events" (`service.py:173`) | `Billing.cfg`: versions are compared with rows loaded before the lock. |
| `EndedGrantsAreRevoked` (Billing): immediate loss revokes the grants (`service.py:290`) | `Billing.cfg` with `Course <- Renews`: an older event issues its bundle after the end. |
| `EndIsApplied` (Billing) | `Billing.cfg`: the end arrives while the activation commits, matches nothing, and is never delivered again. |
| `OneBasePurchase` (Billing): a pending row "blocks a second base purchase" (`service.py:842-847`) | `Billing.cfg` with `Purchases = BasePlans = {base, other}`, `Requests = {r1, r4}`, `Casts = {{r1, r4}}`: checked before the first began, inserted after it was paid. |
| `LateDataIsPickedUp` (ImportProjection): "Recent trailing window re-synced (with a bumped resync_seq) to pick up late provider revisions" (`core/config/integrations.py:754-755`) | Quiet import with `Windows = {"week", "next"}`, `DaysOf <- TwoOverlapping`: a window's first sync has `resync_seq` 0, which for the days it shares with an earlier window exists already; the new data is dropped on the conflict. |
| `ReferralsReachAnalytics` (ImportProjection): "the executors chain `classify_referrals` and `analytics_snapshot_refresh` on completion" (`domain/analytics/enqueue.py:439-441`) | Quiet import with `MaxFaults = 1`: a run's two referral artifacts share the refresh's key; it may run after the first is classified and before the second is. |
| `SnapshotsKeepUp` (ImportProjection): "concurrent refreshes serialize on the unique row" (`domain/analytics/snapshot.py:700-701`) | Quiet import with `Projectors = {p1, p2}`: what was read earlier is written later. |

What the passing properties except, in the words of the code: `StoppedPhasesAreQuiet` is about the
tasks that `stop_*` cancels; analyses which an automatic crawl admits while it discovers carry the
discovery's run (`discovery.py:719-734`, `505-515`) and stay live when discovery is stopped
(`phase_control.py:347-349`), to be executed. `ReleasesAccounted` and `OwnRefreshReachesTraffic` say
what remains of the sentences of the two runs. A success that the two counts of an audit's end miss
leaves it `failed`, which `FailedMeansNoSuccess` says and `OutcomesRestOnEvidence` does not. Writes
of a snapshot overtake each other only where two projectors run, as in the instance of `SnapshotsKeepUp`.

Two remarks that are not runs. Google answers a withdrawn refresh token with 400, which
`classify_status` does not take for an authentication failure, so a worker may meet it
without marking the grant; the model lets a refusal be either. And the site health lock
order of `site_health_worker.py:464` is not kept by every path: `start_analysis` locks crawl,
profile, runtime (`phase_control.py:723-738`), discovery of a sample crawl locks the runtime
while it holds crawl and task (`discovery.py:536-545`), while a persisted analysis starts with the
runtime (`phases/analyze.py:195-213`); a first review locks the crawl and then upserts memberships
(`discovery.py:554`), which a replaced selection holds when its tasks need the crawl's row.
PostgreSQL would end such a circle by an error, which the model has as `Raise` and `AbandonRequest`.

## Not modelled

Content and discovery workers, entitlement resolution and the usage windows are
state machines of the kinds modelled here and follow by the plan. Scoring, metrics,
attribution, the read models and the content of answers and pages are computation over frozen rows.
Connectors, API, authentication, frontend and migrations are I/O, routing and rendering.

Within the modelled components: the `kinds` filter of a claim and its deterministic base
order (TaskQueue takes any eligible row), frozen configuration, cost projection, the
opportunity refresh after an audit, lock waits between the audit row and its task rows
(AuditRun's transactions are single steps), the live re-sync of ceilings, time zones and
the deletion of a schedule. Of the crawl: sample mode, the crawl a page re-run makes of its
own, `start_analysis` for a crawl that has ended, URL counters, what is fetched and found. Of
integrations and analytics: when the dispatcher enqueues a due sync, Shopify's orders, the
attribution chain, retention sweeps, Microsoft and Shopify transports, the refresh of the
token within a sync (IntegrationGrant has it), a death of the API process within a disconnect. Of billing: scheduled
cancellation and its sweep, add-ons, quotes, prices, signatures, the account's version.

## Plan

Done, in this order: TaskRow, TaskQueue, TaskLifecycle and the proofs, AuditRun,
ProviderCapacity, ConsumableLedger, FairClaim, AuditScheduler, SiteCrawl,
IntegrationGrant, Billing, ImportProjection and the proofs about all ten that run. Next:

1. **ContentAttempt**: the content and discovery workers, on TaskRow.
2. **UsageWindow**: the abuse limits under advisory locks.
