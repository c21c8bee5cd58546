-------------------------- MODULE ImportProjection --------------------------
(***************************************************************************)
(* From an analytics provider to a dashboard: a sync run imports its pages  *)
(* (src/backend/app/workers/integration_worker.py), derives metric rows     *)
(* from them and enqueues projections (domain/integrations/derive.py,       *)
(* domain/analytics/enqueue.py); analytics tasks ingest and classify the    *)
(* referral rows and rebuild the window snapshots                           *)
(* (workers/analytics_worker.py, domain/analytics, domain/traffic).          *)
(*                                                                         *)
(* Both queues are one map from a row's unique key to a row of TaskRow, with *)
(* the rows that are due in a line of their queue: they are claimed by       *)
(* available_at.  A claim is one step.  A page holds one metric row for each *)
(* day of its run's window, and its content is the number of the provider's  *)
(* revision it was fetched at.  The grant is that of IntegrationGrant.       *)
(***************************************************************************)
EXTENDS TaskRow, FiniteSets, Sequences, Functions

CONSTANTS
  Connections, Kinds,
  Windows,
  DaysOf,           \* [Windows -> sets of days]
  Pages,            \* the sequence of pages a run fetches
  TrafficPages,     \* those of a dataset the traffic snapshot reads
  ReferralPages,    \* those of a dataset the referral chain reads
  Syncers,          \* sync worker processes
  Projectors,       \* analytics worker processes
  Gone,             \* the owner strings of processes that died
  MaxRuns,          \* bound: sync runs
  MaxVersion,       \* bound: revisions of the provider's data
  MaxFaults         \* bound: stalls, deaths, errors

ASSUME OwnersAssumption ==
  /\ Owners = Syncers \cup Projectors \cup {Gone}
  /\ Syncers \cap Projectors = {} /\ Gone \notin Syncers \cup Projectors
ASSUME WindowsAssumption == DOMAIN DaysOf = Windows
ASSUME PagesAssumption == Pages \in Seq(Range(Pages))
ASSUME BoundAssumption == {MaxRuns, MaxVersion, MaxFaults} \subseteq Nat

VARIABLES
  version,      \* the provider's current revision
  jobs,         \* partial function: unique key -> Row
  line,         \* [Queues -> the keys of the rows that are due, by available_at]
  artifact,     \* partial function: <<run, page>> -> the revisions of its artifacts
  rows,         \* partial function: metric row identity -> the run it came from
  events,       \* the metric rows a referral event was made of
  classified,   \* those whose event is classified
  snapshot,     \* <<chain, window>> -> the metric rows it was built from
  pc, job,      \* what a process does, and the key of the row it claimed
  page,         \* [Syncers -> the page in hand]
  facts,        \* [Projectors -> the metric rows read]
  faults

queues == <<jobs, line>>
evidence == <<artifact, rows>>
referrals == <<events, classified>>
vars == <<version, queues, evidence, referrals, snapshot, pc, job, page, facts, faults>>

Workers == Syncers \cup Projectors
AllPages == {Pages[i] : i \in DOMAIN Pages}
Days == UNION {DaysOf[w] : w \in Windows}
Chains == {"traffic", "analytics"}
Queues == {"sync", "analytics"}

Run == [connection : Connections, kind : Kinds, window : Windows, seq : 0 .. MaxRuns - 1]
Identity == [connection : Connections, page : AllPages, day : Days, seq : 0 .. MaxRuns - 1]

\* Mutations: one ingest for a run's artifacts; a refresh for a window.
IngestKeyOfRun(r, p) == <<"ingest", r, CHOOSE n \in ReferralPages : TRUE>>
RefreshKeyOfWindow(chain, r) == <<chain, r.window>>

\* The unique keys of the two queues.  A refresh is for a window's revision.
SyncKey(r) == <<"sync", r>>
IngestKey(r, p) == <<"ingest", r, p>>
ClassifyKey(r, p) == <<"classify", r, p>>
RefreshKey(chain, r) == <<chain, r.window, r.seq>>

Key == {SyncKey(r) : r \in Run}
       \cup {IngestKey(r, p) : r \in Run, p \in ReferralPages}
       \cup {ClassifyKey(r, p) : r \in Run, p \in ReferralPages}
       \cup {RefreshKey(c, r) : c \in Chains, r \in Run}

Runs == {k[2] : k \in {j \in DOMAIN jobs : j[1] = "sync"}}
QueueOf(k) == IF k[1] = "sync" THEN "sync" ELSE "analytics"
Due(k) == k \in DOMAIN jobs /\ jobs[k].status \in Claimable /\ jobs[k].due
Free == <<"none">>
NoPage == [page |-> "none", revision |-> 0]

TypeOK ==
  /\ version \in 0 .. MaxVersion
  /\ DOMAIN jobs \subseteq Key /\ \A k \in DOMAIN jobs : jobs[k] \in Row
  /\ \A q \in Queues :
       /\ Range(line[q]) = {k \in DOMAIN jobs : QueueOf(k) = q /\ Due(k)}
       /\ Len(line[q]) = Cardinality(Range(line[q]))
  /\ DOMAIN artifact \subseteq Run \X AllPages
  /\ \A a \in DOMAIN artifact : artifact[a] \in Seq(0 .. MaxVersion) \ {<<>>}
  /\ DOMAIN rows \subseteq Identity /\ \A i \in DOMAIN rows : rows[i] \in Runs
  /\ classified \subseteq events /\ events \subseteq DOMAIN rows
  /\ snapshot \in [Chains \X Windows -> SUBSET DOMAIN rows]
  /\ pc \in [Workers -> {"idle", "start", "fetch", "write", "derive", "ingest",
                         "classify", "chain", "read", "upsert", "finish"}]
  /\ job \in [Workers -> DOMAIN jobs \cup {Free}]
  /\ page \in [Syncers -> {NoPage} \cup [page : AllPages, revision : 0 .. MaxVersion]]
  /\ facts \in [Projectors -> SUBSET DOMAIN rows]
  /\ faults \in 0 .. MaxFaults
  /\ \A w \in Workers : (pc[w] = "idle") = (job[w] = Free)

Init ==
  /\ version = 0
  /\ jobs = <<>> /\ line = [q \in Queues |-> <<>>]
  /\ artifact = <<>> /\ rows = <<>>
  /\ events = {} /\ classified = {}
  /\ snapshot = [s \in Chains \X Windows |-> {}]
  /\ pc = [w \in Workers |-> "idle"] /\ job = [w \in Workers |-> Free]
  /\ page = [w \in Syncers |-> NoPage]
  /\ facts = [w \in Projectors |-> {}]
  /\ faults = 0

-----------------------------------------------------------------------------
\* Helpers

Occurs == faults < MaxFaults /\ faults' = faults + 1

GoTo(w, stage) ==
  /\ pc' = [pc EXCEPT ![w] = stage]
  /\ job' = [job EXCEPT ![w] = IF stage = "idle" THEN Free ELSE @]

\* A row that becomes claimable goes to the end of its line.
Put(k, row) ==
  /\ jobs' = [jobs EXCEPT ![k] = row]
  /\ line' = IF Eligible(row) THEN [line EXCEPT ![QueueOf(k)] = Append(@, k)]
             ELSE line

\* f, and what g adds to it.
With(f, g) ==
  [x \in DOMAIN f \cup DOMAIN g |-> IF x \in DOMAIN f THEN f[x] ELSE g[x]]

\* The sequence s without the elements of S, in its order.
Without(s, S) ==
  LET kept[n \in 0 .. Len(s)] ==
        IF n = 0 THEN <<>>
        ELSE IF s[n] \in S THEN kept[n - 1] ELSE Append(kept[n - 1], s[n])
  IN kept[Len(s)]

\* INSERT ... ON CONFLICT (idempotency_key) DO NOTHING, for keys of one queue.
Enqueue(known, queue, keys) ==
  /\ jobs' = With(known, [k \in Range(keys) |-> NewRow])
  /\ line' = [line EXCEPT ![queue] = @ \o Without(keys, DOMAIN known)]

\* _claim_run_if_owned and _still_owned: the worker holds the running row.
StillRuns(w) == OwnedBy(jobs[job[w]], w) /\ jobs[job[w]].status = "running"

\* Metric rows whose identity agrees in everything but the revision.
SameFact(i, k) == [i EXCEPT !.seq = 0] = [k EXCEPT !.seq = 0]

\* select_latest_rows, select_latest_referral_facts, metric_row_not_superseded.
Latest(ids) == {i \in ids : \A k \in ids : SameFact(i, k) => k.seq <= i.seq}

-----------------------------------------------------------------------------
\* The queues

\* enqueue_sync_run, under the connection's row lock: the next revision of the
\* group, unless one of its runs is active.
Group(c, kind, w) ==
  {r \in Runs : r.connection = c /\ r.kind = kind /\ r.window = w}

NextRevision(c, kind, w) ==
  [connection |-> c, kind |-> kind, window |-> w,
   seq |-> Cardinality(Group(c, kind, w))]

\* Mutation: a run that waits for its retry does not hold its window.
WindowIsFreeOfRetries(c, kind, w) ==
  \A r \in Group(c, kind, w) :
    jobs[SyncKey(r)].status \in Terminal \cup {"retry_wait"}

\* The index of active windows.
WindowIsFree(c, kind, w) ==
  \A r \in Group(c, kind, w) : jobs[SyncKey(r)].status \in Terminal

EnqueueSync(c, kind, w) ==
  /\ Cardinality(Runs) < MaxRuns
  /\ WindowIsFree(c, kind, w)
  /\ Enqueue(jobs, "sync", <<SyncKey(NextRevision(c, kind, w))>>)
  /\ UNCHANGED <<version, evidence, referrals, snapshot, pc, job, page, facts, faults>>

\* The provider revises its data.
Revise ==
  /\ version < MaxVersion /\ version' = version + 1
  /\ UNCHANGED <<queues, evidence, referrals, snapshot, pc, job, page, facts, faults>>

QueueServed(w) == IF w \in Syncers THEN "sync" ELSE "analytics"

\* run_once sweeps before it claims; the rows of a batch are swept one by one.
Sweep(w) ==
  /\ pc[w] = "idle"
  /\ \E k \in DOMAIN jobs :
       /\ QueueOf(k) = QueueServed(w) /\ Expired(jobs[k])
       /\ Put(k, Reclaim(jobs[k]))
  /\ UNCHANGED <<version, evidence, referrals, snapshot, pc, job, page, facts, faults>>

Claim(w) ==
  LET q == QueueServed(w)
      k == Head(line[q])
  IN /\ pc[w] = "idle" /\ line[q] # <<>>
     /\ jobs' = [jobs EXCEPT ![k] = Lease(@, w)]
     /\ line' = [line EXCEPT ![q] = Tail(@)]
     /\ pc' = [pc EXCEPT ![w] = "start"]
     /\ job' = [job EXCEPT ![w] = k]
     /\ UNCHANGED <<version, evidence, referrals, snapshot, page, facts, faults>>

\* The delay of a retry is over.
BecomeDue ==
  /\ \E k \in DOMAIN jobs :
       /\ jobs[k].status \in Claimable /\ ~jobs[k].due
       /\ Put(k, [jobs[k] EXCEPT !.due = TRUE])
  /\ UNCHANGED <<version, evidence, referrals, snapshot, pc, job, page, facts, faults>>

\* The executor a row's kind is dispatched to.
Entry(k) == CASE k[1] = "sync" -> "fetch"
              [] k[1] = "ingest" -> "ingest"
              [] k[1] = "classify" -> "classify"
              [] k[1] \in Chains -> "read"

\* mark_running and, for a sync, _begin_attempt; both check the owner.
Start(w) ==
  LET row == jobs[job[w]]
  IN /\ pc[w] = "start"
     /\ IF OwnedBy(row, w) /\ row.status = "leased"
        THEN /\ Put(job[w], [Begin(row) EXCEPT !.attempts =
                               IF w \in Syncers THEN @ + 1 ELSE @])
             /\ GoTo(w, Entry(job[w]))
        ELSE UNCHANGED queues /\ GoTo(w, "idle")
     /\ UNCHANGED <<version, evidence, referrals, snapshot, page, facts, faults>>

\* The heartbeats of a live process stop for longer than its lease.
Stall(k) ==
  /\ k \in DOMAIN jobs /\ jobs[k].status \in LeaseHeld
  /\ jobs[k].owner # Gone /\ ~jobs[k].lapsed /\ Occurs
  /\ Put(k, [jobs[k] EXCEPT !.lapsed = TRUE])
  /\ UNCHANGED <<version, evidence, referrals, snapshot, pc, job, page, facts>>

\* A process dies and another, with an owner string of its own, takes its place.
Die(w) ==
  /\ pc[w] # "idle" /\ Occurs
  /\ jobs' = [jobs EXCEPT ![job[w]].owner = IF @ = w THEN Gone ELSE @]
  /\ GoTo(w, "idle")
  /\ page' = IF w \in Syncers THEN [page EXCEPT ![w] = NoPage] ELSE page
  /\ facts' = IF w \in Projectors THEN [facts EXCEPT ![w] = {}] ELSE facts
  /\ UNCHANGED <<version, line, evidence, referrals, snapshot>>

DeadLeaseLapses ==
  /\ \E k \in DOMAIN jobs :
       /\ jobs[k].owner = Gone /\ ~jobs[k].lapsed
       /\ Put(k, [jobs[k] EXCEPT !.lapsed = TRUE])
  /\ UNCHANGED <<version, evidence, referrals, snapshot, pc, job, page, facts, faults>>

-----------------------------------------------------------------------------
\* IntegrationWorker

RunOf(w) == job[w][2]

\* Mutation: a page of any attempt ends the datasets.
MissingAfterNone(r) ==
  IF \E i \in DOMAIN Pages : <<r, Pages[i]>> \in DOMAIN artifact
  THEN {} ELSE DOMAIN Pages

\* _dataset_resume: the pages no artifact of the run holds, whatever attempt.
Missing(r) == {i \in DOMAIN Pages : <<r, Pages[i]>> \notin DOMAIN artifact}

\* _sync_dataset: the ownership check, then the provider's answer.
Fetch(w) ==
  /\ pc[w] = "fetch"
  /\ IF ~StillRuns(w) THEN GoTo(w, "idle") /\ UNCHANGED page
     ELSE IF Missing(RunOf(w)) = {} THEN GoTo(w, "derive") /\ UNCHANGED page
     ELSE /\ page' = [page EXCEPT ![w] =
               [page |-> Pages[CHOOSE i \in Missing(RunOf(w)) :
                                 \A n \in Missing(RunOf(w)) : i <= n],
                revision |-> version]]
          /\ GoTo(w, "write")
  /\ UNCHANGED <<version, queues, evidence, referrals, snapshot, facts, faults>>

Stored(w) ==
  LET key == <<RunOf(w), page[w].page>>
      old == IF key \in DOMAIN artifact THEN artifact[key] ELSE <<>>
  IN [a \in DOMAIN artifact \cup {key} |->
        IF a = key THEN Append(old, page[w].revision) ELSE artifact[a]]

\* Mutation: the page is written without a look at the run.
WriteUnowned(w) ==
  /\ pc[w] = "write"
  /\ artifact' = Stored(w)
  /\ page' = [page EXCEPT ![w] = NoPage]
  /\ GoTo(w, "fetch")
  /\ UNCHANGED <<version, queues, rows, referrals, snapshot, facts, faults>>

\* _write_artifact: a page whose run was lost meanwhile is discarded.
Write(w) ==
  /\ pc[w] = "write"
  /\ page' = [page EXCEPT ![w] = NoPage]
  /\ IF StillRuns(w) THEN artifact' = Stored(w) /\ GoTo(w, "fetch")
                     ELSE UNCHANGED artifact /\ GoTo(w, "idle")
  /\ UNCHANGED <<version, queues, rows, referrals, snapshot, facts, faults>>

\* enqueue_post_sync_projections: an ingest for each referral artifact, in the
\* order they were written, and a traffic refresh.
Projections(r) ==
  LET referral == Without(Pages, AllPages \ ReferralPages)
  IN [n \in DOMAIN referral |-> IngestKey(r, referral[n])]
     \o (IF TrafficPages # {} THEN <<RefreshKey("traffic", r)>> ELSE <<>>)

\* derive_run inserts what no row of the same identity precedes.  The rows of a page
\* are the same whenever it is fetched: it holds no new dimension keys.
Derived(r) ==
  LET fetched == {p \in AllPages : <<r, p>> \in DOMAIN artifact}
  IN [i \in [connection : {r.connection}, page : fetched,
             day : DaysOf[r.window], seq : {r.seq}] |-> r]

\* _finalize_success: rows, projections and the run's end in one transaction.
Derive(w) ==
  /\ pc[w] = "derive"
  /\ IF StillRuns(w)
     THEN /\ rows' = With(rows, Derived(RunOf(w)))
          /\ Enqueue([jobs EXCEPT ![job[w]] = Finalize(@, "succeeded")],
                     "analytics", Projections(RunOf(w)))
     ELSE UNCHANGED <<queues, rows>>
  /\ GoTo(w, "idle")
  /\ UNCHANGED <<version, artifact, referrals, snapshot, page, facts, faults>>

\* A provider error is retried until the budget is spent; a grant that is not
\* connected, a page that is too large or malformed, a property without a
\* mapping and a crash end the run.  All of it is for the owner to write.
SyncFails(w) ==
  LET row == jobs[job[w]]
  IN /\ pc[w] \in {"fetch", "write", "derive"} /\ Occurs
     /\ IF OwnedBy(row, w)
        THEN \/ Put(job[w], Finalize(row, "failed"))
             \/ row.attempts < MaxAttempts /\ Put(job[w], Postpone(row, "retry_wait", FALSE))
        ELSE UNCHANGED queues
     /\ page' = [page EXCEPT ![w] = NoPage]
     /\ GoTo(w, "idle")
     /\ UNCHANGED <<version, evidence, referrals, snapshot, facts>>

-----------------------------------------------------------------------------
\* AnalyticsWorker: the executors do not look at the lease, and may be repeated

PageOf(w) == job[w][3]
RowsOf(r, p) == {i \in DOMAIN rows : rows[i] = r /\ i.page = p}

\* ingest_referrals, one transaction.
Ingest(w) ==
  /\ pc[w] = "ingest"
  /\ events' = events \cup (RowsOf(RunOf(w), PageOf(w)) \cap Latest(DOMAIN rows))
  /\ Enqueue(jobs, "analytics", <<ClassifyKey(RunOf(w), PageOf(w))>>)
  /\ GoTo(w, "finish")
  /\ UNCHANGED <<version, evidence, classified, snapshot, page, facts, faults>>

\* raise_if_task_terminal, before each batch that is read.
Cancelled(w) == jobs[job[w]].status \in Terminal

\* run_classify_referrals commits its batches ...
Classify(w) ==
  /\ pc[w] = "classify"
  /\ IF Cancelled(w) THEN UNCHANGED classified /\ GoTo(w, "finish")
     ELSE /\ classified' = classified \cup (events \cap RowsOf(RunOf(w), PageOf(w)))
          /\ GoTo(w, "chain")
  /\ UNCHANGED <<version, queues, evidence, events, snapshot, page, facts, faults>>

\* ... and then enqueues the refresh of the run's window and revision.
Chain(w) ==
  /\ pc[w] = "chain"
  /\ Enqueue(jobs, "analytics", <<RefreshKey("analytics", RunOf(w))>>)
  /\ GoTo(w, "finish")
  /\ UNCHANGED <<version, evidence, referrals, snapshot, page, facts, faults>>

\* refresh_traffic_snapshot and refresh_analytics_snapshot: what is read ...
Facts(chain, w) ==
  {i \in IF chain = "traffic" THEN {n \in DOMAIN rows : n.page \in TrafficPages}
                              ELSE classified : i.day \in DaysOf[w]}

Read(w) ==
  /\ pc[w] = "read"
  /\ IF Cancelled(w) THEN UNCHANGED facts /\ GoTo(w, "finish")
     ELSE /\ facts' = [facts EXCEPT ![w] = Facts(job[w][1], job[w][2])]
          /\ GoTo(w, "upsert")
  /\ UNCHANGED <<version, queues, evidence, referrals, snapshot, page, faults>>

\* ... replaces the window's one snapshot, in a transaction.
Upsert(w) ==
  /\ pc[w] = "upsert"
  /\ snapshot' = [snapshot EXCEPT ![<<job[w][1], job[w][2]>>] = Latest(facts[w])]
  /\ facts' = [facts EXCEPT ![w] = {}]
  /\ GoTo(w, "finish")
  /\ UNCHANGED <<version, queues, evidence, referrals, page, faults>>

MayFinish(w) == OwnedBy(jobs[job[w]], w) /\ jobs[job[w]].status \notin Terminal

Counted(row) == [row EXCEPT !.attempts = @ + 1]

\* AnalyticsWorker._finalize, after the executor returned ...
Finish(w) ==
  /\ pc[w] = "finish"
  /\ IF MayFinish(w) THEN Put(job[w], Finalize(Counted(jobs[job[w]]), "succeeded"))
                     ELSE UNCHANGED queues
  /\ GoTo(w, "idle")
  /\ UNCHANGED <<version, evidence, referrals, snapshot, page, facts, faults>>

\* ... and after it raised.
ExecutorRaises(w) ==
  LET row == Counted(jobs[job[w]])
  IN /\ pc[w] \in {"ingest", "classify", "chain", "read", "upsert"} /\ Occurs
     /\ IF ~MayFinish(w) THEN UNCHANGED queues
        ELSE Put(job[w], IF row.attempts < MaxAttempts
                         THEN Postpone(row, "retry_wait", FALSE)
                         ELSE Finalize(row, "failed"))
     /\ facts' = [facts EXCEPT ![w] = {}]
     /\ GoTo(w, "idle")
     /\ UNCHANGED <<version, evidence, referrals, snapshot, page>>

-----------------------------------------------------------------------------
SyncStep(w) == Sweep(w) \/ Claim(w) \/ Start(w) \/ Fetch(w) \/ Write(w) \/ Derive(w)

ProjectStep(w) ==
  \/ Sweep(w) \/ Claim(w) \/ Start(w)
  \/ Ingest(w) \/ Classify(w) \/ Chain(w)
  \/ Read(w) \/ Upsert(w) \/ Finish(w)

Next ==
  \/ \E c \in Connections, kind \in Kinds, w \in Windows : EnqueueSync(c, kind, w)
  \/ Revise
  \/ \E w \in Syncers : SyncStep(w) \/ SyncFails(w)
  \/ \E w \in Projectors : ProjectStep(w) \/ ExecutorRaises(w)
  \/ \E w \in Workers : Die(w)
  \/ \E k \in DOMAIN jobs : Stall(k)
  \/ DeadLeaseLapses \/ BecomeDue

Spec == Init /\ [][Next]_vars

\* Worker loops run for ever, and the lease of a dead process runs out.
FairSpec ==
  /\ Spec
  /\ \A w \in Syncers : WF_vars(SyncStep(w))
  /\ \A w \in Projectors : WF_vars(ProjectStep(w))
  /\ WF_vars(DeadLeaseLapses) /\ WF_vars(BecomeDue)

-----------------------------------------------------------------------------
\* A page of a run is imported at most once, whoever fetched it again after a
\* lost lease, a retry or a restart.
PagesImportedOnce == \A a \in DOMAIN artifact : Len(artifact[a]) = 1

\* A run that succeeded has an artifact for every page it was to fetch, each
\* fact of its window at its revision, and its projections queued.
SucceededIsComplete ==
  \A r \in Runs : jobs[SyncKey(r)].status = "succeeded" =>
    /\ \A p \in AllPages :
         /\ <<r, p>> \in DOMAIN artifact
         /\ \A d \in DaysOf[r.window] :
              [connection |-> r.connection, page |-> p, day |-> d, seq |-> r.seq]
                \in DOMAIN rows
    /\ Range(Projections(r)) \subseteq DOMAIN jobs

Supersedes(k, i) == SameFact(i, k) /\ i.seq <= k.seq
RevisionOf(i) == artifact[<<rows[i], i.page>>][1]

\* Within the runs of one connection, kind and window, a higher resync_seq was
\* never fetched before a lower one: the latest revision is the newest data.
HigherRevisionIsNewer ==
  \A i, k \in DOMAIN rows :
    (/\ Supersedes(k, i)
     /\ rows[i].kind = rows[k].kind /\ rows[i].window = rows[k].window)
    => RevisionOf(i) <= RevisionOf(k)

GaveUp(k) == k \in DOMAIN jobs /\ jobs[k].status = "failed"

RowsFrom(r) == {i \in DOMAIN rows : rows[i] = r}

\* The traffic rows of a run are in its window's snapshot, or revisions that supersede
\* them are, or its refresh failed for good.
InTraffic(r) ==
  \/ GaveUp(RefreshKey("traffic", r))
  \/ \A i \in RowsFrom(r) : i.page \in TrafficPages =>
       \E k \in snapshot["traffic", r.window] : Supersedes(k, i)

\* No run of another connection or kind has imported the same revision of the window.
OwnsItsRefresh(r) ==
  \A q \in Runs \ {r} : q.window = r.window /\ q.seq = r.seq => RowsFrom(q) = {}

\* The rows of a run that has its refresh for itself are in the snapshot sooner or later.
OwnRefreshReachesTraffic == <>[](\A r \in Run : OwnsItsRefresh(r) => InTraffic(r))

\* Every referral row of a run is classified sooner or later, or one that
\* supersedes it is, unless one of its tasks failed for good.
ReferralsAreClassified ==
  <>[](\A r \in Run : \A i \in RowsFrom(r) :
         i.page \in ReferralPages =>
           \E k \in DOMAIN rows :
             /\ Supersedes(k, i)
             /\ \/ k \in classified
                \/ GaveUp(IngestKey(rows[k], k.page))
                \/ GaveUp(ClassifyKey(rows[k], k.page)))

-----------------------------------------------------------------------------
\* What the repository says of the projections and the code refutes (see README)

\* docs/archive/roadmap/traffic.md:127-130: "When an integrations sync finishes and
\* lands/updates IntegrationMetricRows for a project's GSC/GA4 property, a
\* snapshot-refresh projection job is enqueued".  Violated: the refresh of a second
\* connection's revision has the key of the first one's, which may have read already.
RowsReachTraffic == <>[](\A r \in Run : InTraffic(r))

\* What a sync fetched is not hidden behind data that was fetched earlier.
LateDataIsPickedUp ==
  \A r \in Runs : jobs[SyncKey(r)].status = "succeeded" =>
    \A p \in AllPages, d \in DaysOf[r.window] :
      \E i \in Latest(DOMAIN rows) :
        /\ i.connection = r.connection /\ i.page = p /\ i.day = d
        /\ RevisionOf(i) >= artifact[r, p][1]

\* The referral rows of a run reach the window's analytics snapshot.
ReferralsReachAnalytics ==
  \A r \in Run :
    RowsFrom(r) # {} ~>
      \A i \in RowsFrom(r) : i.page \in ReferralPages =>
        \/ \E k \in snapshot["analytics", r.window] : Supersedes(k, i)
        \/ \E k \in DOMAIN rows :
             /\ Supersedes(k, i)
             /\ \/ GaveUp(IngestKey(rows[k], k.page))
                \/ GaveUp(ClassifyKey(rows[k], k.page))
                \/ GaveUp(RefreshKey("analytics", rows[k]))

\* A snapshot is replaced by one that is as recent.
SnapshotsKeepUp ==
  [][\A s \in Chains \X Windows : \A i \in snapshot[s] :
       \E k \in snapshot'[s] : Supersedes(k, i)]_vars
=============================================================================
