----------------------------- MODULE SiteCrawl -----------------------------
(***************************************************************************)
(* One Site Health crawl from its planning to its end: SiteHealthWorker    *)
(* (src/backend/app/workers/site_health_worker.py) with its three phases,  *)
(* CrawlLifecycle, the monitored selection and the phase controls.          *)
(*                                                                         *)
(* A slot executes a task as a sequence of short transactions, one action   *)
(* each.  A crawl's modes are frozen when it is planned: an ordinary one    *)
(* runs to a terminal status, one with advanced controls is parked between  *)
(* the phases its user starts and stops; the first review of a project      *)
(* monitors and analyzes pages as it discovers them.  Selection requests     *)
(* hold the workspace's runtime row: there is one at a time, and no analysis *)
(* is persisted while it is open.                                           *)
(*                                                                         *)
(* Taken from TaskQueue and not repeated here: claims are atomic, a waiting *)
(* row is due, a lease lapses and is swept in one step.  The monitored and   *)
(* the automatic allowance are folded into what is selected; sample mode is  *)
(* left out.                                                               *)
(***************************************************************************)
EXTENDS TaskRow, FiniteSets

CONSTANTS
  Pages,
  Root,           \* the page the crawl starts from
  Links,          \* [Pages -> SUBSET Pages]: what the pages refer to
  Scenarios,      \* the crawls that are planned, a subset of Scenario
  Slots,
  NoTask,
  NoRequest,
  OwnerOf,        \* [Slots -> Owners]
  Mortal,         \* the processes that may die
  MaxGeneration   \* bound: generations of a page's tasks

ASSUME PageAssumption == Root \in Pages /\ Links \in [Pages -> SUBSET Pages]
ASSUME SlotAssumption == OwnerOf \in [Slots -> Owners] /\ Mortal \subseteq Owners
\* advanced_controls_enabled and whether AUTOMATIC_MONITOR_LIMIT_KEY is set; the bounds
\* on the pages, the phases users start and stop and what else happens to the crawl.
Scenario == [advanced : BOOLEAN, automatic : BOOLEAN, site : SUBSET Pages,
             starts : Nat, stops : Nat, events : Nat]
ASSUME ScenarioAssumption == Scenarios \subseteq Scenario
ASSUME BoundAssumption == MaxGeneration \in Nat

VARIABLES
  advanced, automatic,            \* the frozen mode
  site,                           \* the pages there are
  crawl, discovery, analysis,     \* the crawl's status and sub-states
  tasks,      \* the planned tasks, a subset of Task
  row,        \* [Task -> Row]
  phaseRun,   \* [Task -> Run]: the task's phase run, NoRun if none
  running,    \* [Phases -> Nat]: ordinal of the running phase run, 0 if none
  lastRun,    \* [Phases -> Nat]: the highest ordinal
  evidence,   \* history: the tasks whose result is committed
  monitored,  \* the pages of the active selection
  revived,    \* history: the pages that discovery put back into it, with no task
              \* planned for them since
  frontier,   \* pages found and not yet admitted
  endings,    \* history: crawl.completed, crawl.failed and crawl.cancelled events
  request,    \* the open selection request, which saw an active crawl
  pc, work,   \* the slots: [Slots -> Stage] and [Slots -> Task \cup {NoTask}]
  starts, stops,   \* the phases users may still start and stop
  stalled,    \* history: a live executor lost its lease
  events      \* the other requests, failed fetches, lapsed leases, exceptions and
              \* deaths that may still happen

statuses == <<crawl, discovery, analysis, endings>>
phases == <<running, lastRun>>
mode == <<advanced, automatic, site>>
plan == <<tasks, phaseRun, frontier>>
selection == <<monitored, revived, request>>
slotVars == <<pc, work>>
faults == <<starts, stops, stalled, events>>
vars == <<mode, statuses, phases, plan, row, evidence, selection, slotVars,
          faults>>

Kinds == {"discover", "analyze", "link"}
Phases == {"discovery", "analysis"}
PhaseKinds(phase) ==
  IF phase = "discovery" THEN {"discover"} ELSE {"analyze", "link"}

\* A phase run of the crawl.
Run == [phase : Phases, ordinal : Nat]
RunOf(phase, ordinal) == [phase |-> phase, ordinal |-> ordinal]
NoRun == RunOf("discovery", 0)

\* The unique slot (task_kind, url_hash, generation) of a crawl's task.
Task == [kind : Kinds, page : Pages, gen : 0 .. MaxGeneration]
TheTask(kind, page, gen) == [kind |-> kind, page |-> page, gen |-> gen]

CrawlActive   == {"queued", "running", "paused"}
CrawlTerminal == {"completed", "partially_completed", "failed", "cancelled"}

Trying == {"boundary", "to_cancel", "begin", "enter", "guard", "fetched",
           "to_succeed", "to_retry", "to_fail"}
Stage == Trying \cup {"crashed", "reconcile", "idle", "dead"}

Requests == [op : {"add", "remove", "rerun"}, page : Pages]

ASSUME NoneAssumption == NoTask \notin Task /\ NoRequest \notin Requests

TypeOK ==
  /\ advanced \in BOOLEAN /\ automatic \in BOOLEAN /\ site \in SUBSET Pages
  /\ crawl \in CrawlActive \cup CrawlTerminal
  /\ discovery \in {"running", "stopped", "completed", "failed", "cancelled"}
  /\ analysis \in {"pending", "running", "stopped"} \cup CrawlTerminal
  /\ endings \in Nat
  /\ running \in [Phases -> Nat] /\ lastRun \in [Phases -> Nat]
  /\ tasks \subseteq Task /\ evidence \subseteq tasks
  /\ row \in [Task -> Row] /\ phaseRun \in [Task -> Run]
  /\ frontier \subseteq Pages /\ monitored \subseteq Pages /\ revived \subseteq Pages
  /\ request \in Requests \cup {NoRequest}
  /\ pc \in [Slots -> Stage] /\ work \in [Slots -> tasks \cup {NoTask}]
  /\ starts \in Nat /\ stops \in Nat /\ events \in Nat
  /\ stalled \in BOOLEAN
  /\ \A s \in Slots : work[s] = NoTask <=> pc[s] \in {"idle", "dead"}

\* create_crawl has committed: the root's discovery and, page by page, a fresh
\* analysis of the selection an earlier crawl left; or start_initial_site_review,
\* which selects the root.
Init ==
  /\ \E scenario \in Scenarios :
       /\ advanced = scenario.advanced /\ automatic = scenario.automatic
       /\ site = scenario.site
       /\ starts = scenario.starts /\ stops = scenario.stops
       /\ events = scenario.events
  /\ crawl = "queued" /\ discovery = "running" /\ analysis = "pending"
  /\ endings = 0
  /\ monitored \in SUBSET {Root} /\ (automatic => monitored = {Root})
  /\ tasks = {TheTask("discover", Root, 0)}
               \cup {TheTask("analyze", p, 0) : p \in monitored}
  /\ row = [t \in Task |-> NewRow]
  /\ lastRun = [p \in Phases |-> IF advanced /\ p = "discovery" THEN 1 ELSE 0]
  /\ running = lastRun
  /\ phaseRun = [t \in Task |->
                   IF t = TheTask("discover", Root, 0)
                     THEN RunOf("discovery", lastRun["discovery"]) ELSE NoRun]
  /\ evidence = {} /\ frontier = {} /\ revived = {} /\ request = NoRequest
  /\ pc = [s \in Slots |-> "idle"] /\ work = [s \in Slots |-> NoTask]
  /\ stalled = FALSE

-----------------------------------------------------------------------------
\* Helpers

Occurs == events > 0 /\ events' = events - 1

Holds(s) == OwnedBy(row[work[s]], OwnerOf[s])

\* Mutation: the slot forgets to drop its task.
GoToKeepingTask(s, stage) ==
  /\ pc' = [pc EXCEPT ![s] = stage]
  /\ UNCHANGED work

GoTo(s, stage) ==
  /\ pc' = [pc EXCEPT ![s] = stage]
  /\ work' = IF stage = "idle" THEN [work EXCEPT ![s] = NoTask] ELSE work

SetRow(t, r) == row' = [row EXCEPT ![t] = r]

LiveTasks == {t \in tasks : row[t].status \notin Terminal}
Live(kinds) == {t \in LiveTasks : t.kind \in kinds}
Of(kind) == {t \in tasks : t.kind = kind}
Ended(kind, outcome) == {t \in Of(kind) : row[t].status = outcome}

\* discovered_url_count # 0
Discovered == \E t \in evidence : t.kind = "discover"

\* lease_is_owned
LeaseOwned(s) == Holds(s) /\ row[work[s]].status \in LeaseHeld

\* _lock_owned_running_task
LockOwnedRunningTask(s) ==
  /\ Holds(s)
  /\ row[work[s]].status = "running"
  /\ crawl \in CrawlActive

\* evaluate_task_guard
GuardOk(s) ==
  /\ LeaseOwned(s)
  /\ crawl \in CrawlActive
  /\ work[s].page \in monitored

MayPersist(s) ==
  IF work[s].kind = "analyze" THEN GuardOk(s) ELSE LockOwnedRunningTask(s)

\* The runtime row a selection request holds, which an analysis locks first.
RuntimeFree(s) == work[s].kind = "analyze" => request = NoRequest

\* max(generation) + 1 of the page's tasks of a kind, 0 for the first.
NextGeneration(kind, page) ==
  Cardinality({t \in Of(kind) : t.page = page})

-----------------------------------------------------------------------------
\* CrawlLifecycle.reconcile, one transaction under the crawl's lock

RunningRun(phase) == RunOf(phase, running[phase])

\* Mutation: the link checks of a phase run do not keep it open.
PhaseDrainedOfPages(phase) ==
  IF phase = "discovery"
    THEN Live({"discover"}) = {}
    ELSE \A t \in Live({"analyze"}) : phaseRun[t] # RunningRun("analysis")

\* A phase run is over when its own tasks are; discovery's when no discovery
\* task of the crawl is left.
PhaseDrained(phase) ==
  IF phase = "discovery"
    THEN Live({"discover"}) = {}
    ELSE \A t \in Live(PhaseKinds("analysis")) : phaseRun[t] # RunningRun("analysis")

\* Mutation of the classification: a failed analysis is no blemish.
ClassifiedByDiscovery ==
  CASE ~Discovered -> "failed"
    [] Discovered /\ Ended("discover", "failed") # {} -> "partially_completed"
    [] OTHER -> "completed"

\* How an ordinary crawl whose tasks have all ended is classified.
Classified ==
  CASE ~Discovered -> "failed"
    [] Discovered /\ \/ Ended("discover", "failed") # {}
                     \/ Ended("analyze", "failed") # {} -> "partially_completed"
    [] OTHER -> "completed"

\* analysis_status of such a crawl.
AnalysisClassified ==
  LET applicable == Of("analyze") \ Ended("analyze", "cancelled")
      succeeded == Ended("analyze", "succeeded")
  IN IF applicable = {} /\ Of("analyze") # {} THEN "cancelled"
     ELSE IF ~Discovered THEN "failed"
     ELSE IF succeeded = applicable THEN "completed"
     ELSE IF succeeded # {} THEN "partially_completed"
     ELSE "failed"

StoppedIfRunning(status) == IF status = "running" THEN "stopped" ELSE status

\* _stop_drained_phases and _pause_running_crawl
Park ==
  /\ discovery' = StoppedIfRunning(discovery)
  /\ analysis' = StoppedIfRunning(analysis)
  /\ crawl' = IF crawl = "running" THEN "paused" ELSE crawl
  /\ UNCHANGED endings

\* Work is left: discovery ends on its own, analysis starts with its first task.
Progress ==
  LET stopped(phase, status) ==
        IF advanced /\ running[phase] # 0 /\ PhaseDrained(phase)
          THEN StoppedIfRunning(status) ELSE status
      d == stopped("discovery", discovery)
      a == stopped("analysis", analysis)
  IN /\ discovery' = IF Live({"discover"}) # {} \/ d # "running" THEN d
                     ELSE IF Discovered THEN "completed" ELSE "failed"
     /\ analysis' = IF Of("analyze") # {} /\ a = "pending" THEN "running" ELSE a
     /\ UNCHANGED <<crawl, endings>>

\* Every task of every kind has ended.
Conclude ==
  /\ discovery' = IF discovery # "running" THEN discovery
                  ELSE IF Discovered THEN "completed" ELSE "failed"
  /\ analysis' = IF analysis \in {"pending", "running"} THEN AnalysisClassified
                 ELSE analysis
  /\ crawl' = Classified
  /\ endings' = endings + 1

\* Mutation: a crawl that has ended is concluded like any other.
ReconcileAgain ==
  /\ running' = [p \in Phases |->
                   IF advanced /\ PhaseDrained(p) THEN 0 ELSE running[p]]
  /\ \/ LiveTasks # {} /\ Progress
     \/ LiveTasks = {} /\ advanced /\ Park
     \/ LiveTasks = {} /\ ~advanced /\ Conclude

Reconcile ==
  \/ /\ crawl \in CrawlTerminal
     /\ UNCHANGED <<statuses, running>>
  \/ /\ crawl \in CrawlActive
     /\ running' = [p \in Phases |->
                      IF advanced /\ PhaseDrained(p) THEN 0 ELSE running[p]]
     /\ \/ LiveTasks # {} /\ Progress
        \/ LiveTasks = {} /\ advanced /\ Park
        \/ LiveTasks = {} /\ ~advanced /\ Conclude

-----------------------------------------------------------------------------
\* run_once: the sweep, the two reconciliations that belong to it, the claim

\* Nobody alive executes the row for the process that leased it.
Unattended(t) ==
  \A s \in Slots :
    ~(pc[s] \in Trying \cup {"crashed"} /\ work[s] = t /\ Holds(s))

\* A task the sweep fails has its crawl reconciled.
Sweep(s) ==
  /\ pc[s] = "idle"
  /\ \E t \in tasks :
       /\ row[t].status \in LeaseHeld
       /\ \/ Unattended(t) /\ UNCHANGED faults
          \/ ~Unattended(t) /\ Occurs /\ stalled' = TRUE /\ UNCHANGED <<starts, stops>>
       /\ SetRow(t, Reclaim(row[t]))
       /\ IF Reclaim(row[t]).status = "failed"
            THEN /\ pc' = [pc EXCEPT ![s] = "reconcile"]
                 /\ work' = [work EXCEPT ![s] = t]
            ELSE UNCHANGED slotVars
  /\ UNCHANGED <<mode, statuses, phases, plan, evidence, selection>>

\* Mutation: the backstop takes a crawl without analysis for one still at work.
StalledInAnalysis ==
  crawl \in CrawlActive \ {"paused"} /\ LiveTasks = {} /\ analysis = "running"

\* reconcile_stalled's question: an active crawl, not parked, without work.
Stalled == crawl \in CrawlActive \ {"paused"} /\ LiveTasks = {}

ReconcileStalled(s) ==
  /\ pc[s] = "idle"
  /\ Stalled
  /\ Reconcile
  /\ UNCHANGED <<mode, lastRun, plan, row, evidence, selection, slotVars,
                 faults>>

Claim(s) ==
  /\ pc[s] = "idle"
  /\ \E t \in tasks :
       /\ Eligible(row[t])
       /\ SetRow(t, Lease(row[t], OwnerOf[s]))
       /\ work' = [work EXCEPT ![s] = t]
  /\ pc' = [pc EXCEPT ![s] = "boundary"]
  /\ UNCHANGED <<mode, statuses, phases, plan, evidence, selection, faults>>

-----------------------------------------------------------------------------
\* _execute_task and the phases, up to the fetch

\* A task of a crawl that is over is cancelled; any other wakes its crawl.
Boundary(s) ==
  /\ pc[s] = "boundary"
  /\ IF crawl \in CrawlActive
       THEN crawl' = "running" /\ GoTo(s, "begin")
       ELSE UNCHANGED crawl /\ GoTo(s, "to_cancel")
  /\ UNCHANGED <<mode, discovery, analysis, endings, phases, plan, row, evidence,
                 selection, faults>>

\* Steps that touch the slot's own row and nothing else.
RowStep(s, newRow, stage) ==
  /\ SetRow(work[s], newRow)
  /\ GoTo(s, stage)
  /\ UNCHANGED <<mode, statuses, phases, plan, evidence, selection, faults>>

\* Steps that only decide what comes next.
Decide(s, stage) == RowStep(s, row[work[s]], stage)

\* queue.cancel: whoever owns the row.
QueueCancel(s) ==
  /\ pc[s] = "to_cancel"
  /\ RowStep(s, IF row[work[s]].status \in Terminal THEN row[work[s]]
                ELSE Finalize(row[work[s]], "cancelled"), "reconcile")

MarkRunning(s) ==
  /\ pc[s] = "begin"
  /\ IF Holds(s) /\ row[work[s]].status = "leased"
       THEN RowStep(s, Begin(row[work[s]]), "enter")
       ELSE Decide(s, "reconcile")

\* A task that is executed again acknowledges the result it already committed.
Enter(s) ==
  /\ pc[s] = "enter"
  /\ Decide(s, IF work[s] \in evidence THEN "to_succeed"
               ELSE IF work[s].kind = "analyze" THEN "guard" ELSE "fetched")

\* _run_analyze asks the guard once without locks.
CheckGuard(s) ==
  /\ pc[s] = "guard"
  /\ Decide(s, IF GuardOk(s) THEN "fetched" ELSE "to_cancel")

-----------------------------------------------------------------------------
\* The fetch has returned: one transaction for the result, then the queue's

Attempted(t) == [row[t] EXCEPT !.attempts = @ + 1]

\* The rows a selection request has locked: the active ones and its own.
LockedPages == IF request = NoRequest THEN {} ELSE monitored \cup {request.page}

\* What an automatic crawl monitors of the pages it admits, as far as the limit goes.
Samples(admitted) ==
  IF automatic THEN SUBSET (admitted \ LockedPages) ELSE {{}}

\* admit_candidates: the first discovery of each page and the first analysis of each
\* that is sampled, unless there was one (_enqueue_task), in the phase run of the
\* discovery.  A page that was removed from the selection is put back into it.
Admit(admitted, sampled, run) ==
  LET new == {TheTask("discover", p, 0) : p \in admitted} \cup
             {TheTask("analyze", p, 0) : p \in sampled}
  IN /\ tasks' = tasks \cup new
     /\ phaseRun' = [t \in Task |-> IF t \in new \ tasks THEN run ELSE phaseRun[t]]
     /\ monitored' = monitored \cup sampled
     /\ revived' = revived \cup
          {p \in sampled \ monitored : TheTask("analyze", p, 0) \in tasks}

\* The pages with a frontier row.  The root's is written by its own discovery.
InFrontier(p) ==
  IF p = Root THEN \E t \in evidence : t.kind = "discover" /\ t.page = Root
              ELSE p \in frontier \/ TheTask("discover", p, 0) \in tasks

\* The pages a discovery finds: its links and, which matters to a crawl that monitors
\* what it admits, the root itself.
Candidates(p) == (Links[p] \cap site) \cup {q \in {p} : q = Root /\ automatic}

\* The budget decides how many of the candidates are admitted now.  A crawl keeps
\* the others in its frontier.
PersistDiscovery(s) ==
  /\ pc[s] = "fetched" /\ work[s].kind = "discover"
  /\ MayPersist(s)
  /\ \E found \in SUBSET Candidates(work[s].page) :
       LET pending == frontier \cup {p \in found : ~InFrontier(p)}
       IN \E admitted \in SUBSET pending : \E sampled \in Samples(admitted) :
            /\ Admit(admitted, sampled, phaseRun[work[s]])
            /\ frontier' = pending \ admitted
  /\ evidence' = evidence \cup {work[s]}
  /\ SetRow(work[s], Attempted(work[s]))
  /\ GoTo(s, "to_succeed")
  /\ UNCHANGED <<mode, statuses, phases, request, faults>>

\* The analysis and its link check, in the same phase run.
PersistAnalysis(s) ==
  /\ pc[s] = "fetched" /\ work[s].kind = "analyze"
  /\ RuntimeFree(s)
  /\ MayPersist(s)
  /\ LET check == [work[s] EXCEPT !.kind = "link"]
     IN /\ tasks' = tasks \cup {check}
        /\ phaseRun' = [phaseRun EXCEPT ![check] = phaseRun[work[s]]]
  /\ evidence' = evidence \cup {work[s]}
  /\ SetRow(work[s], Attempted(work[s]))
  /\ GoTo(s, "to_succeed")
  /\ UNCHANGED <<mode, statuses, phases, frontier, selection, faults>>

\* The link references; the task counts no attempts.
PersistLinkCheck(s) ==
  /\ pc[s] = "fetched" /\ work[s].kind = "link"
  /\ MayPersist(s)
  /\ evidence' = evidence \cup {work[s]}
  /\ GoTo(s, "to_succeed")
  /\ UNCHANGED <<mode, statuses, phases, plan, row, selection, faults>>

\* The fetch failed: again if the error is transient and attempts are left.
PersistFailure(s) ==
  /\ pc[s] = "fetched" /\ work[s].kind # "link"
  /\ RuntimeFree(s)
  /\ MayPersist(s)
  /\ Occurs
  /\ SetRow(work[s], Attempted(work[s]))
  /\ \/ row[work[s]].attempts + 1 < MaxAttempts /\ GoTo(s, "to_retry")
     \/ GoTo(s, "to_fail")
  /\ UNCHANGED <<mode, statuses, phases, plan, evidence, selection, starts, stops,
                 stalled>>

\* The result is thrown away.  Only an analysis its worker still owns, denied by
\* the crawl or the selection, is cancelled.
Discard(s) ==
  /\ pc[s] = "fetched"
  /\ RuntimeFree(s)
  /\ ~MayPersist(s)
  /\ Decide(s, IF work[s].kind = "analyze" /\ LeaseOwned(s) THEN "to_cancel"
               ELSE "reconcile")

\* queue.succeed, fail and retry do nothing to a row that has another owner.
Report(s, stage, newRow) ==
  /\ pc[s] = stage
  /\ RowStep(s, IF Holds(s) THEN newRow ELSE row[work[s]], "reconcile")

QueueSucceed(s) == Report(s, "to_succeed", Finalize(row[work[s]], "succeeded"))
QueueFail(s)    == Report(s, "to_fail", Finalize(row[work[s]], "failed"))
QueueRetry(s)   ==
  Report(s, "to_retry", Postpone(row[work[s]], "retry_wait", TRUE))
RecordCrash(s)  == Report(s, "crashed", Finalize(row[work[s]], "failed"))

\* The finally clause of every task.
ReconcileTask(s) ==
  /\ pc[s] = "reconcile"
  /\ Reconcile
  /\ GoTo(s, "idle")
  /\ UNCHANGED <<mode, lastRun, plan, row, evidence, selection, faults>>

-----------------------------------------------------------------------------
\* Requests of users

CancelRows(cancelled) ==
  row' = [t \in Task |-> IF t \in cancelled THEN Finalize(row[t], "cancelled")
                         ELSE row[t]]

CancelCrawl ==
  /\ Occurs
  /\ crawl \in CrawlActive
  /\ crawl' = "cancelled"
  /\ discovery' = IF discovery \in {"running", "stopped"} THEN "cancelled"
                  ELSE discovery
  /\ analysis' = IF analysis \in {"pending", "running", "stopped"} THEN "cancelled"
                 ELSE analysis
  /\ CancelRows(LiveTasks)
  /\ endings' = endings + 1
  /\ UNCHANGED <<mode, phases, plan, evidence, selection, slotVars, starts, stops,
                 stalled>>

\* replace_monitored_set and rerun_page look for an active crawl without locking
\* it ...
OpenRequest ==
  /\ Occurs
  /\ request = NoRequest
  /\ \E r \in Requests :
       /\ r.page \in site
       /\ r.op = "add" <=> r.page \notin monitored
       /\ IF crawl \in CrawlActive
            THEN request' = r /\ UNCHANGED monitored
            ELSE /\ UNCHANGED request
                 /\ monitored' = CASE r.op = "add" -> monitored \cup {r.page}
                                   [] r.op = "remove" -> monitored \ {r.page}
                                   [] OTHER -> monitored
  /\ UNCHANGED <<mode, statuses, phases, plan, row, evidence, revived, slotVars, starts,
                 stops, stalled>>

\* ... and commit what they do for it: a task of the next generation for a page
\* added or to be analyzed again, the waiting tasks of a removed page cancelled.
CommitRequest ==
  /\ request # NoRequest
  /\ request' = NoRequest
  /\ revived' = revived \ {request.page}
  /\ \/ /\ request.op = "remove"
        /\ monitored' = monitored \ {request.page}
        /\ CancelRows({t \in Of("analyze") :
                         t.page = request.page /\ row[t].status \in Claimable})
        /\ UNCHANGED tasks
     \/ LET gen == NextGeneration("analyze", request.page)
        IN /\ request.op # "remove"
           /\ gen <= MaxGeneration
           /\ monitored' = monitored \cup {request.page}
           /\ tasks' = tasks \cup {TheTask("analyze", request.page, gen)}
           /\ UNCHANGED row
  /\ UNCHANGED <<mode, statuses, phases, phaseRun, frontier, evidence, slotVars, faults>>

\* The request fails and rolls back (here also: no generation is left).
AbandonRequest ==
  /\ request # NoRequest
  /\ request' = NoRequest
  /\ UNCHANGED <<mode, statuses, phases, plan, row, evidence, monitored, revived,
                 slotVars, faults>>

OpenPhase(phase) ==
  /\ starts > 0 /\ starts' = starts - 1
  /\ lastRun' = [lastRun EXCEPT ![phase] = @ + 1]
  /\ running' = [running EXCEPT ![phase] = lastRun'[phase]]

\* The frontier is admitted as far as the batch allows; if that plans no discovery,
\* those a stop cancelled are planned again.
StartDiscovery ==
  /\ advanced
  /\ crawl \in CrawlActive
  /\ running["discovery"] = 0
  /\ OpenPhase("discovery")
  /\ LET run == RunOf("discovery", lastRun'["discovery"])
         again(t) == TheTask("discover", t.page, NextGeneration("discover", t.page))
     IN \/ \E admitted \in SUBSET frontier : \E sampled \in Samples(admitted) :
             /\ admitted \ {Root} # {}
             /\ Admit(admitted, sampled, run)
             /\ frontier' = frontier \ admitted
        \/ \E sampled \in Samples(frontier) :
             LET new == {again(t) : t \in Ended("discover", "cancelled")}
             IN /\ frontier \subseteq {Root}
                /\ new \subseteq Task
                /\ tasks' = tasks \cup new
                /\ phaseRun' = [t \in Task |-> IF t \in new THEN run ELSE phaseRun[t]]
                /\ monitored' = monitored \cup sampled
                /\ revived' = revived \cup (sampled \ monitored)
                /\ frontier' = {}
  /\ discovery' = IF discovery = "stopped" THEN "running" ELSE discovery
  /\ crawl' = "running"
  /\ UNCHANGED <<mode, analysis, endings, row, evidence, request, slotVars,
                 stops, stalled, events>>

\* A candidate is a page the crawl has a row of: it was planned, and seen or not.
StartAnalysis ==
  /\ advanced
  /\ crawl \in CrawlActive
  /\ request = NoRequest
  /\ running["analysis"] = 0
  /\ OpenPhase("analysis")
  /\ \E chosen \in SUBSET {t.page : t \in tasks} :
       LET new == {TheTask("analyze", p, NextGeneration("analyze", p)) : p \in chosen}
       IN /\ chosen # {}
          /\ new \subseteq Task
          /\ tasks' = tasks \cup new
          /\ phaseRun' = [t \in Task |-> IF t \in new THEN RunOf("analysis", lastRun'["analysis"])
                                         ELSE phaseRun[t]]
          /\ monitored' = monitored \cup chosen
          /\ revived' = revived \ chosen
  /\ analysis' = "running"
  /\ crawl' = "running"
  /\ UNCHANGED <<mode, discovery, endings, frontier, row, evidence, request,
                 slotVars, stops, stalled, events>>

\* stop_discovery and stop_analysis: the tasks of the running phase run, and the
\* crawl is parked if no other is left.
StopPhase(phase) ==
  /\ advanced
  /\ crawl \in CrawlActive
  /\ stops > 0 /\ stops' = stops - 1
  /\ LET stopping == running[phase] # 0
         stopped == {t \in Live(PhaseKinds(phase)) :
                       stopping /\ phaseRun[t] = RunningRun(phase)}
         idle == LiveTasks = stopped
     IN /\ CancelRows(stopped)
        /\ running' = [running EXCEPT ![phase] = 0]
        /\ discovery' = IF idle \/ (stopping /\ phase = "discovery")
                          THEN StoppedIfRunning(discovery) ELSE discovery
        /\ analysis' = IF idle \/ (stopping /\ phase = "analysis")
                         THEN StoppedIfRunning(analysis) ELSE analysis
        /\ crawl' = IF idle /\ crawl = "running" THEN "paused" ELSE crawl
  /\ UNCHANGED <<mode, endings, lastRun, plan, evidence, selection, slotVars,
                 starts, stalled, events>>

-----------------------------------------------------------------------------
\* Faults

\* A transaction of a slot raises and changes nothing.
Raise(s) ==
  /\ Occurs
  /\ \/ pc[s] \in Trying /\ GoTo(s, "crashed")
     \/ pc[s] = "crashed" /\ GoTo(s, "reconcile")
     \/ pc[s] = "reconcile" /\ GoTo(s, "idle")
  /\ UNCHANGED <<mode, statuses, phases, plan, row, evidence, selection,
                 starts, stops, stalled>>

Die(o) ==
  /\ o \in Mortal
  /\ Occurs
  /\ \E s \in Slots : OwnerOf[s] = o /\ pc[s] # "dead"
  /\ pc' = [s \in Slots |-> IF OwnerOf[s] = o THEN "dead" ELSE pc[s]]
  /\ work' = [s \in Slots |-> IF OwnerOf[s] = o THEN NoTask ELSE work[s]]
  /\ UNCHANGED <<mode, statuses, phases, plan, row, evidence, selection,
                 starts, stops, stalled>>

-----------------------------------------------------------------------------
Persist(s) ==
  \/ PersistDiscovery(s)
  \/ PersistAnalysis(s)
  \/ PersistLinkCheck(s)
  \/ PersistFailure(s)
  \/ Discard(s)

Execute(s) ==
  \/ Boundary(s)
  \/ QueueCancel(s)
  \/ MarkRunning(s)
  \/ Enter(s)
  \/ CheckGuard(s)
  \/ Persist(s)
  \/ QueueSucceed(s)
  \/ QueueFail(s)
  \/ QueueRetry(s)
  \/ RecordCrash(s)
  \/ ReconcileTask(s)

UserRequest ==
  \/ CancelCrawl
  \/ OpenRequest
  \/ StartDiscovery
  \/ StartAnalysis
  \/ \E phase \in Phases : StopPhase(phase)

Next ==
  \/ \E s \in Slots :
       Execute(s) \/ Sweep(s) \/ ReconcileStalled(s) \/ Claim(s) \/ Raise(s)
  \/ UserRequest
  \/ CommitRequest
  \/ AbandonRequest
  \/ \E o \in Owners : Die(o)

Spec == Init /\ [][Next]_vars

\* A live worker finishes what it began (a fetch has a deadline) and, idle, sweeps,
\* looks for stalled crawls and claims, in whatever order; a request ends.  Users owe
\* nothing.
FairSpec ==
  /\ Spec
  /\ WF_vars(CommitRequest \/ AbandonRequest)
  /\ \A s \in Slots : WF_vars(Execute(s) \/ Sweep(s) \/ ReconcileStalled(s) \/ Claim(s))

-----------------------------------------------------------------------------
\* Properties

\* A crawl ends once.  Nothing is recorded for it afterwards, however late a fetch
\* returns and whoever made it.
NothingAfterTheEnd ==
  [][(crawl \in CrawlTerminal) => UNCHANGED <<statuses, evidence>>]_vars

\* What an ordinary crawl reports when it ends: it failed exactly if it discovered
\* nothing; if it completed, all work of the moment is done, no page it meant to
\* analyze lacks its analysis, and, as long as no live worker lost a lease, that
\* holds of every selected page that has a task, except those a user had removed and
\* discovery put back; if partially, something failed.
EndIsTruthful ==
  [][(crawl \in CrawlActive /\ crawl' \in CrawlTerminal \ {"cancelled"}) =>
       /\ LiveTasks = {}
       /\ crawl' = "failed" <=> ~Discovered
       /\ crawl' = "completed" =>
            /\ \A t \in Of("analyze") : t \in evidence \/ row[t].status = "cancelled"
            /\ ~stalled =>
                 \A t \in Of("analyze") : t.page \in monitored \ revived =>
                   \E e \in evidence : e.kind = "analyze" /\ e.page = t.page
       /\ crawl' = "partially_completed" =>
            \E t \in tasks : row[t].status = "failed"]_vars

\* The task does the work of its run's phase.  The analysis of a page that a discovery
\* sampled is of the discovery's run, and so is its link check.
IsOfPhase(t) == t.kind \in PhaseKinds(phaseRun[t].phase)

\* Stopping a phase, or its end, leaves no work of that phase behind: a live task that
\* does the work of a phase run does that of the one that is running.
StoppedPhasesAreQuiet ==
  \A t \in LiveTasks :
    IsOfPhase(t) /\ phaseRun[t].ordinal # 0 => phaseRun[t] = RunningRun(phaseRun[t].phase)

\* Whatever dies, stalls or raises, and whenever the user adds, stops or starts, a
\* crawl comes to rest with no work left.  The one rest that is neither an end
\* nor a pause is the queue of a crawl stopped before its first task began.
CrawlSettles ==
  <>[](/\ LiveTasks = {}
       /\ \/ crawl \in CrawlTerminal \cup {"paused"}
          \/ crawl = "queued" /\ advanced)

-----------------------------------------------------------------------------
\* What the repository says of the crawl and the code refutes

\* "a recrawl can genuinely bring a previously-sampled URL back into the monitored
\* set", with "the analyze task [that] deep-analyzes" it
EverySelectedPageIsAnalyzed ==
  [][(crawl \in CrawlActive /\ crawl' = "completed" /\ ~stalled) =>
       \A t \in Of("analyze") : t.page \in monitored =>
         \E e \in evidence : e.kind = "analyze" /\ e.page = t.page]_vars

\* "a lost lease is not ours to cancel"
LostLeaseNotCancelled ==
  [][\A s \in Slots :
       pc[s] = "to_cancel" /\ crawl \in CrawlActive /\ ~LeaseOwned(s)
         /\ row[work[s]].status \notin Terminal /\ pc'[s] = "reconcile" =>
         row'[work[s]].status # "cancelled"]_vars

\* "an enqueue onto a terminal crawl is dropped rather than stranded"
NoTaskOnTerminalCrawl ==
  [][(crawl \in CrawlTerminal) => tasks' = tasks]_vars

\* "a reclaimed task must acknowledge the durable result"
EvidenceIsAcknowledged ==
  \A t \in evidence : row[t].status # "failed"

\* "Settle crawl + phase state once no non-terminal task remains."
StoppedCrawlIsPaused ==
  [][(crawl = "queued") /\ running # running' /\ LiveTasks' = {} =>
       crawl' # "queued"]_vars

\* "a RUNNING sub-state with no work behind it is not a live phase, it is a lie"
PausedIsParked ==
  crawl = "paused" /\ LiveTasks = {} => "running" \notin {discovery, analysis}
=============================================================================
