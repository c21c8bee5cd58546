-------------------------- MODULE SiteCrawlProofs --------------------------
(***************************************************************************)
(* TLAPS proofs about SiteCrawl, for any pages and links between them, any   *)
(* slots of any processes (slots may share an owner string), any attempt     *)
(* budget and any number of started phases, requests, faults and deaths.    *)
(***************************************************************************)
EXTENDS SiteCrawl, FiniteSetTheorems, TLAPS

-----------------------------------------------------------------------------
\* Each operation on a queue row yields a row and writes the columns it says.
LEMMA LeaseRow ==
  ASSUME NEW r \in Row, NEW o \in Owners
  PROVE  /\ Lease(r, o) \in Row
         /\ Lease(r, o).status = "leased"
         /\ Lease(r, o).owner = o
         /\ Lease(r, o).attempts = r.attempts
  BY DEF Row, Lease, Status, LeaseHeld

LEMMA BeginRow ==
  ASSUME NEW r \in Row
  PROVE  /\ Begin(r) \in Row
         /\ Begin(r).status = "running"
         /\ Begin(r).owner = r.owner
         /\ Begin(r).attempts = r.attempts
  BY DEF Row, Begin, Status, LeaseHeld

LEMMA AttemptRow ==
  ASSUME NEW r \in Row, NEW n \in Nat
  PROVE  /\ [r EXCEPT !.attempts = n] \in Row
         /\ [r EXCEPT !.attempts = n].status = r.status
         /\ [r EXCEPT !.attempts = n].owner = r.owner
         /\ [r EXCEPT !.attempts = n].attempts = n
  BY DEF Row

LEMMA FinalizeRow ==
  ASSUME NEW r \in Row, NEW outcome \in Terminal
  PROVE  /\ Finalize(r, outcome) \in Row
         /\ Finalize(r, outcome).status = outcome
         /\ Finalize(r, outcome).owner = NoOwner
         /\ Finalize(r, outcome).attempts = r.attempts
  BY DEF Row, Finalize, Unleased, Status

LEMMA PostponeRow ==
  ASSUME NEW r \in Row, NEW wait \in Claimable, NEW isDue \in BOOLEAN
  PROVE  /\ Postpone(r, wait, isDue) \in Row
         /\ Postpone(r, wait, isDue).status = wait
         /\ Postpone(r, wait, isDue).owner = NoOwner
         /\ Postpone(r, wait, isDue).attempts = r.attempts
  BY DEF Row, Postpone, Unleased, Status

LEMMA ReclaimRow ==
  ASSUME NEW r \in Row
  PROVE  /\ Reclaim(r) \in Row
         /\ Reclaim(r).status = IF r.attempts < MaxAttempts
                                  THEN "retry_wait" ELSE "failed"
         /\ Reclaim(r).owner = NoOwner
         /\ Reclaim(r).attempts = r.attempts
<1>1. r.attempts \in Nat /\ MaxAttempts \in Nat
  BY MaxAttemptsAssumption DEF Row
<1>2. /\ Finalize(r, "failed") \in Row
      /\ Finalize(r, "failed").status = "failed"
      /\ Finalize(r, "failed").owner = NoOwner
      /\ Finalize(r, "failed").attempts = r.attempts
  BY FinalizeRow DEF Terminal
<1>5. /\ Postpone(r, "retry_wait", TRUE) \in Row
      /\ Postpone(r, "retry_wait", TRUE).status = "retry_wait"
      /\ Postpone(r, "retry_wait", TRUE).owner = NoOwner
      /\ Postpone(r, "retry_wait", TRUE).attempts = r.attempts
  BY PostponeRow DEF Claimable
<1>3. CASE r.attempts >= MaxAttempts
  <2>1. Reclaim(r) = Finalize(r, "failed")
    BY <1>3 DEF Reclaim
  <2>2. ~(r.attempts < MaxAttempts)
    BY <1>1, <1>3
  <2>. QED BY <1>2, <2>1, <2>2
<1>4. CASE ~(r.attempts >= MaxAttempts)
  <2>1. Reclaim(r) = Postpone(r, "retry_wait", TRUE)
    BY <1>4 DEF Reclaim
  <2>2. r.attempts < MaxAttempts
    BY <1>1, <1>4
  <2>. QED BY <1>5, <2>1, <2>2
<1>. QED BY <1>3, <1>4

\* How a step changes a row: it is one of these row operations.  What follows
\* about statuses, owners and attempts needs no more than this.
RowChange(r, q) ==
  \/ q = r
  \/ \E o \in Owners : q = Lease(r, o)
  \/ q = Begin(r) /\ r.status = "leased"
  \/ q = Extend(r)
  \/ \E outcome \in Terminal : q = Finalize(r, outcome)
  \/ \E wait \in Claimable, isDue \in BOOLEAN : q = Postpone(r, wait, isDue)
  \/ q = Reclaim(r)
  \/ \E n \in Nat : q = [r EXCEPT !.attempts = n]
  \/ \E b \in BOOLEAN : q = [r EXCEPT !.lapsed = b] \/ q = [r EXCEPT !.due = b]

LEMMA RowChangeType ==
  ASSUME NEW r \in Row, NEW q, RowChange(r, q)
  PROVE  q \in Row
<1>1. CASE q = r \/ q = Begin(r) \/ q = Extend(r)
  BY <1>1 DEF Row, Status, LeaseHeld, Begin, Extend
<1>2. CASE \E o \in Owners : q = Lease(r, o)
  BY <1>2 DEF Row, Status, LeaseHeld, Lease
<1>3. CASE \E outcome \in Terminal : q = Finalize(r, outcome)
  BY <1>3, FinalizeRow
<1>4. CASE \E wait \in Claimable, isDue \in BOOLEAN : q = Postpone(r, wait, isDue)
  BY <1>4, PostponeRow
<1>5. CASE q = Reclaim(r)
  BY <1>5, ReclaimRow
<1>6. CASE \/ \E n \in Nat : q = [r EXCEPT !.attempts = n]
            \/ \E b \in BOOLEAN : \/ q = [r EXCEPT !.lapsed = b]
                                  \/ q = [r EXCEPT !.due = b]
  BY <1>6 DEF Row
<1>. QED BY <1>1, <1>2, <1>3, <1>4, <1>5, <1>6 DEF RowChange

\* Every row operation keeps a lease and its owner together.
LEMMA RowChangeCoherent ==
  ASSUME NEW r \in Row, NEW q, RowChange(r, q),
         r.status \in LeaseHeld <=> r.owner # NoOwner
  PROVE  q.status \in LeaseHeld <=> q.owner # NoOwner
<1>1. CASE q = r \/ q = Extend(r) \/ (q = Begin(r) /\ r.status = "leased")
  BY <1>1 DEF Row, Begin, Extend, LeaseHeld
<1>2. CASE \E o \in Owners : q = Lease(r, o)
  <2>1. PICK o \in Owners : q = Lease(r, o)
    BY <1>2
  <2>2. q.status = "leased" /\ q.owner = o
    BY <2>1 DEF Row, Lease
  <2>. QED BY <2>2, NoOwnerAssumption DEF LeaseHeld
<1>3. CASE \E outcome \in Terminal : q = Finalize(r, outcome)
  BY <1>3, FinalizeRow DEF LeaseHeld, Terminal
<1>4. CASE \E wait \in Claimable, isDue \in BOOLEAN : q = Postpone(r, wait, isDue)
  BY <1>4, PostponeRow DEF LeaseHeld, Claimable
<1>5. CASE q = Reclaim(r)
  BY <1>5, ReclaimRow DEF LeaseHeld
<1>6. CASE \/ \E n \in Nat : q = [r EXCEPT !.attempts = n]
            \/ \E b \in BOOLEAN : \/ q = [r EXCEPT !.lapsed = b]
                                  \/ q = [r EXCEPT !.due = b]
  <2>1. q.status = r.status /\ q.owner = r.owner
    BY <1>6 DEF Row
  <2>. QED BY <2>1
<1>. QED BY <1>1, <1>2, <1>3, <1>4, <1>5, <1>6 DEF RowChange

-----------------------------------------------------------------------------

\* A row has an owner exactly while it is leased.
RowsCoherent ==
  \A t \in Task : row[t].status \in LeaseHeld <=> row[t].owner # NoOwner

\* The columns a task will be inserted with, kept for those that are not planned.
Unplanned == \A t \in Task \ tasks : row[t] = NewRow /\ phaseRun[t] = NoRun

BaseInv == TypeOK /\ RowsCoherent /\ Unplanned

Busy == Stage \ {"idle", "dead"}

LEMMA Stages ==
  /\ Trying \cup {"crashed", "reconcile"} \subseteq Busy
  /\ Busy \cup {"idle", "dead"} \subseteq Stage
  BY DEF Busy, Stage, Trying

LEMMA TaskFields ==
  /\ \A t \in Task : t.kind \in Kinds /\ t.page \in Pages /\ t.gen \in 0 .. MaxGeneration
  /\ \A kind \in Kinds, p \in Pages, g \in 0 .. MaxGeneration :
       /\ TheTask(kind, p, g) \in Task
       /\ TheTask(kind, p, g).kind = kind
       /\ TheTask(kind, p, g).page = p
       /\ TheTask(kind, p, g).gen = g
  BY DEF Task, TheTask

LEMMA BusySlot ==
  ASSUME TypeOK, NEW s \in Slots, pc[s] \in Busy
  PROVE  work[s] \in tasks /\ work[s] \in Task
  BY DEF TypeOK, Busy

\* A slot that passes the owner check of _owned_task has a leased row.
LEMMA HeldRow ==
  ASSUME BaseInv, NEW s \in Slots, pc[s] \in Busy, Holds(s)
  PROVE  /\ row[work[s]].owner = OwnerOf[s]
         /\ row[work[s]].status \in LeaseHeld
         /\ row[work[s]].status \notin Terminal
<1>1. work[s] \in Task
  BY BusySlot DEF BaseInv
<1>2. row[work[s]].owner = OwnerOf[s] /\ OwnerOf[s] # NoOwner
  BY SlotAssumption, NoOwnerAssumption DEF Holds, OwnedBy
<1>. QED BY <1>1, <1>2 DEF BaseInv, RowsCoherent, LeaseHeld, Terminal

-----------------------------------------------------------------------------
\* What a step does to the rows: row operations, nothing to a row that ended,
\* nothing to a task that is not planned.
RowsMove ==
  /\ row' \in [Task -> Row]
  /\ \A t \in Task : RowChange(row[t], row'[t])
  /\ \A t \in Task : row[t].status \in Terminal => row'[t] = row[t]
  /\ \A t \in Task \ tasks : row'[t] = row[t]

LEMMA RowSet ==
  ASSUME TypeOK, NEW t \in tasks, NEW q, SetRow(t, q),
         \/ q = row[t]
         \/ RowChange(row[t], q) /\ row[t].status \notin Terminal
  PROVE  RowsMove
<1>0. t \in Task /\ row \in [Task -> Row]
  BY DEF TypeOK
<1>1. RowChange(row[t], q)
  BY DEF RowChange
<1>2. q \in Row
  BY <1>0, <1>1, RowChangeType
<1>3. \A u \in Task : RowChange(row[u], row'[u])
  BY <1>0, <1>1 DEF SetRow, RowChange
<1>4. \A u \in Task : row[u].status \in Terminal => row'[u] = row[u]
  BY <1>0 DEF SetRow
<1>5. \A u \in Task \ tasks : row'[u] = row[u]
  BY <1>0 DEF SetRow
<1>. QED BY <1>0, <1>2, <1>3, <1>4, <1>5 DEF RowsMove, SetRow

LEMMA RowKept ==
  ASSUME TypeOK, row' = row
  PROVE  RowsMove
  BY DEF RowsMove, TypeOK, RowChange

LEMMA RowsCancelled ==
  ASSUME TypeOK, NEW cancelled, CancelRows(cancelled), cancelled \subseteq LiveTasks
  PROVE  /\ RowsMove
         /\ \A t \in Task : row'[t] = row[t] \/ row'[t].status = "cancelled"
         /\ \A t \in cancelled : row'[t].status = "cancelled"
<1>0. row \in [Task -> Row] /\ tasks \subseteq Task /\ "cancelled" \in Terminal
  BY DEF TypeOK, Terminal
<1>1. \A t \in Task : /\ Finalize(row[t], "cancelled") \in Row
                      /\ Finalize(row[t], "cancelled").status = "cancelled"
                      /\ RowChange(row[t], Finalize(row[t], "cancelled"))
                      /\ RowChange(row[t], row[t])
  BY <1>0, FinalizeRow DEF RowChange
<1>2. \A t \in Task : row'[t] = IF t \in cancelled THEN Finalize(row[t], "cancelled")
                                ELSE row[t]
  BY DEF CancelRows
<1>3. row' \in [Task -> Row]
  BY <1>0, <1>1 DEF CancelRows
<1>4. \A t \in cancelled : t \in tasks /\ t \in Task /\ row[t].status \notin Terminal
  BY <1>0 DEF LiveTasks
<1>. QED BY <1>1, <1>2, <1>3, <1>4 DEF RowsMove

LEMMA StepMovesRows ==
  ASSUME BaseInv, Next
  PROVE  RowsMove
<1>0. TypeOK /\ row \in [Task -> Row] /\ tasks \subseteq Task
  BY DEF BaseInv, TypeOK
<1>1. ASSUME NEW s \in Slots, Sweep(s)
      PROVE  RowsMove
  <2>1. PICK t \in tasks : row[t].status \in LeaseHeld /\ SetRow(t, Reclaim(row[t]))
    BY <1>1 DEF Sweep
  <2>2. RowChange(row[t], Reclaim(row[t])) /\ row[t].status \notin Terminal
    BY <2>1 DEF RowChange, LeaseHeld, Terminal
  <2>. QED BY <1>0, <2>1, <2>2, RowSet
<1>2. ASSUME NEW s \in Slots, Claim(s)
      PROVE  RowsMove
  <2>1. PICK t \in tasks : Eligible(row[t]) /\ SetRow(t, Lease(row[t], OwnerOf[s]))
    BY <1>2 DEF Claim
  <2>2. RowChange(row[t], Lease(row[t], OwnerOf[s])) /\ row[t].status \notin Terminal
    BY <2>1, SlotAssumption DEF RowChange, Eligible, Claimable, Terminal
  <2>. QED BY <1>0, <2>1, <2>2, RowSet
<1>3. ASSUME NEW s \in Slots, pc[s] \in Busy,
             \E q : /\ SetRow(work[s], q)
                    /\ \/ q = row[work[s]]
                       \/ /\ RowChange(row[work[s]], q)
                          /\ row[work[s]].status \notin Terminal
      PROVE  RowsMove
  BY <1>0, <1>3, BusySlot, RowSet
<1>4. ASSUME NEW s \in Slots, QueueCancel(s)
      PROVE  RowsMove
  <2>1. pc[s] \in Busy /\ RowChange(row[work[s]], Finalize(row[work[s]], "cancelled"))
    BY <1>4, Stages DEF QueueCancel, Trying, RowChange, Terminal
  <2>. QED BY <1>3, <1>4, <2>1 DEF QueueCancel, RowStep
<1>5. ASSUME NEW s \in Slots, MarkRunning(s)
      PROVE  RowsMove
  <2>1. pc[s] \in Busy
    BY <1>5, Stages DEF MarkRunning, Trying
  <2>2. row[work[s]].status = "leased" =>
          RowChange(row[work[s]], Begin(row[work[s]])) /\ row[work[s]].status \notin Terminal
    BY DEF RowChange, Terminal
  <2>. QED BY <1>3, <1>5, <2>1, <2>2 DEF MarkRunning, RowStep, Decide
<1>6. ASSUME NEW s \in Slots, Enter(s) \/ CheckGuard(s) \/ Discard(s)
      PROVE  RowsMove
  <2>1. pc[s] \in Busy
    BY <1>6, Stages DEF Enter, CheckGuard, Discard, Trying
  <2>. QED BY <1>3, <1>6, <2>1 DEF Enter, CheckGuard, Discard, RowStep, Decide
<1>7. ASSUME NEW s \in Slots,
             PersistDiscovery(s) \/ PersistAnalysis(s) \/ PersistFailure(s)
      PROVE  RowsMove
  <2>1. pc[s] \in Busy
    BY <1>7, Stages DEF PersistDiscovery, PersistAnalysis, PersistFailure, Trying
  <2>2. work[s] \in Task
    BY <1>0, <2>1, BusySlot
  <2>3. row[work[s]].attempts + 1 \in Nat
    BY <1>0, <2>2 DEF Row
  <2>4. RowChange(row[work[s]], Attempted(work[s]))
    BY <2>3 DEF RowChange, Attempted
  <2>5. SetRow(work[s], Attempted(work[s])) /\ MayPersist(s)
    BY <1>7 DEF PersistDiscovery, PersistAnalysis, PersistFailure
  <2>6. Holds(s)
    BY <2>5 DEF MayPersist, GuardOk, LeaseOwned, LockOwnedRunningTask
  <2>. QED BY <1>3, <2>1, <2>4, <2>5, <2>6, HeldRow
<1>8. ASSUME NEW s \in Slots,
             \E q : \E stage \in Busy :
               Report(s, stage, q) /\ RowChange(row[work[s]], q)
      PROVE  RowsMove
  <2>1. pc[s] \in Busy
    BY <1>8 DEF Report
  <2>. QED BY <1>3, <1>8, <2>1, HeldRow DEF Report, RowStep
<1>9. ASSUME NEW s \in Slots,
             QueueSucceed(s) \/ QueueFail(s) \/ QueueRetry(s) \/ RecordCrash(s)
      PROVE  RowsMove
  <2>1. /\ RowChange(row[work[s]], Finalize(row[work[s]], "failed"))
        /\ RowChange(row[work[s]], Finalize(row[work[s]], "succeeded"))
        /\ RowChange(row[work[s]], Postpone(row[work[s]], "retry_wait", TRUE))
    BY DEF RowChange, Terminal, Claimable
  <2>2. {"to_succeed", "to_fail", "to_retry", "crashed"} \subseteq Busy
    BY Stages DEF Trying
  <2>. QED
    BY <1>8, <1>9, <2>1, <2>2 DEF QueueSucceed, QueueFail, QueueRetry, RecordCrash
<1>10. CASE CancelCrawl
  BY <1>0, <1>10, RowsCancelled DEF CancelCrawl
<1>11. CASE CommitRequest
  <2>1. CASE row' = row
    BY <1>0, <2>1, RowKept
  <2>2. CASE row' # row
    <3>. DEFINE waiting == {t \in Of("analyze") :
                              t.page = request.page /\ row[t].status \in Claimable}
    <3>1. CancelRows(waiting)
      BY <1>11, <2>2 DEF CommitRequest
    <3>2. waiting \subseteq LiveTasks
      BY DEF Of, LiveTasks, Claimable, Terminal
    <3>. QED BY <1>0, <3>1, <3>2, RowsCancelled
  <2>. QED BY <2>1, <2>2
<1>12. ASSUME NEW phase \in Phases, StopPhase(phase)
       PROVE  RowsMove
  <2>. DEFINE stopped == {t \in Live(PhaseKinds(phase)) :
                            running[phase] # 0 /\ phaseRun[t] = RunningRun(phase)}
  <2>1. CancelRows(stopped)
    BY <1>12 DEF StopPhase
  <2>2. stopped \subseteq LiveTasks
    BY DEF Live
  <2>. QED BY <1>0, <2>1, <2>2, RowsCancelled
<1>13. CASE row' = row
  BY <1>0, <1>13, RowKept
<1>. QED
  BY <1>1, <1>2, <1>4, <1>5, <1>6, <1>7, <1>9, <1>10, <1>11, <1>12, <1>13
  DEF Next, Execute, Boundary, Persist, PersistLinkCheck, ReconcileTask, UserRequest,
      OpenRequest, StartDiscovery, StartAnalysis, AbandonRequest, ReconcileStalled,
      Raise, Die

LEMMA StepKeepsCoherence ==
  ASSUME BaseInv, RowsMove
  PROVE  RowsCoherent'
<1>. SUFFICES ASSUME NEW t \in Task
              PROVE  row'[t].status \in LeaseHeld <=> row'[t].owner # NoOwner
  BY DEF RowsCoherent
<1>1. row[t] \in Row /\ (row[t].status \in LeaseHeld <=> row[t].owner # NoOwner)
  BY DEF BaseInv, TypeOK, RowsCoherent
<1>. QED BY <1>1, RowChangeCoherent DEF RowsMove

-----------------------------------------------------------------------------
\* What a step does to the slots: a slot without a task is idle or dead, one with
\* a task has a planned one.
SlotsMove ==
  /\ pc' \in [Slots -> Stage]
  /\ work' \in [Slots -> tasks \cup {NoTask}]
  /\ \A s \in Slots : work'[s] = NoTask <=> pc'[s] \in {"idle", "dead"}

LEMMA GoToMoves ==
  ASSUME TypeOK, NEW s \in Slots, pc[s] \in Busy,
         NEW stage \in Busy \cup {"idle"}, GoTo(s, stage)
  PROVE  SlotsMove
<1>1. /\ pc \in [Slots -> Stage] /\ work \in [Slots -> tasks \cup {NoTask}]
      /\ \A u \in Slots : work[u] = NoTask <=> pc[u] \in {"idle", "dead"}
  BY DEF TypeOK
<1>2. stage \in Stage /\ pc' = [pc EXCEPT ![s] = stage]
  BY Stages DEF GoTo
<1>3. CASE stage = "idle"
  BY <1>1, <1>2, <1>3 DEF GoTo, SlotsMove
<1>4. CASE stage # "idle"
  <2>1. work' = work /\ stage \notin {"idle", "dead"}
    BY <1>4 DEF GoTo, Busy
  <2>2. pc[s] \notin {"idle", "dead"}
    BY DEF Busy
  <2>. QED BY <1>1, <1>2, <2>1, <2>2 DEF SlotsMove
<1>. QED BY <1>3, <1>4

LEMMA StepMovesSlots ==
  ASSUME BaseInv, Next
  PROVE  SlotsMove
<1>0. /\ TypeOK /\ NoTask \notin tasks
      /\ pc \in [Slots -> Stage] /\ work \in [Slots -> tasks \cup {NoTask}]
      /\ \A s \in Slots : work[s] = NoTask <=> pc[s] \in {"idle", "dead"}
  BY NoneAssumption DEF BaseInv, TypeOK
<1>1. ASSUME NEW s \in Slots, Sweep(s) \/ Claim(s)
      PROVE  SlotsMove
  <2>1. \/ UNCHANGED slotVars
        \/ \E t \in tasks, stage \in {"reconcile", "boundary"} :
             /\ pc' = [pc EXCEPT ![s] = stage]
             /\ work' = [work EXCEPT ![s] = t]
    BY <1>1 DEF Sweep, Claim
  <2>2. {"reconcile", "boundary"} \subseteq Stage \ {"idle", "dead"}
    BY DEF Stage, Trying
  <2>. QED BY <1>0, <2>1, <2>2 DEF SlotsMove, slotVars
<1>2. ASSUME NEW s \in Slots, pc[s] \in Busy,
             \E stage \in Busy \cup {"idle"} : GoTo(s, stage)
      PROVE  SlotsMove
  BY <1>0, <1>2, GoToMoves
<1>3. ASSUME NEW s \in Slots, Execute(s)
      PROVE  SlotsMove
  <2>0. Trying \cup {"crashed", "reconcile"} \subseteq Busy
    BY Stages
  <2>1. CASE Boundary(s) \/ QueueCancel(s) \/ MarkRunning(s)
    <3>1. pc[s] \in Busy
      BY <2>0, <2>1 DEF Boundary, QueueCancel, MarkRunning, Trying
    <3>2. \E stage \in {"begin", "to_cancel", "reconcile", "enter"} : GoTo(s, stage)
      BY <2>1 DEF Boundary, QueueCancel, MarkRunning, Decide, RowStep
    <3>. QED BY <1>2, <2>0, <3>1, <3>2 DEF Trying
  <2>2. CASE Enter(s) \/ CheckGuard(s) \/ Discard(s)
    <3>1. pc[s] \in Busy
      BY <2>0, <2>2 DEF Enter, CheckGuard, Discard, Trying
    <3>2. \E stage \in {"to_succeed", "guard", "fetched", "to_cancel", "reconcile"} :
            GoTo(s, stage)
      BY <2>2 DEF Enter, CheckGuard, Discard, Decide, RowStep
    <3>. QED BY <1>2, <2>0, <3>1, <3>2 DEF Trying
  <2>3. CASE \/ PersistDiscovery(s) \/ PersistAnalysis(s) \/ PersistLinkCheck(s)
             \/ PersistFailure(s)
    <3>1. pc[s] \in Busy
      BY <2>0, <2>3
      DEF PersistDiscovery, PersistAnalysis, PersistLinkCheck, PersistFailure, Trying
    <3>2. \E stage \in {"to_succeed", "to_retry", "to_fail"} : GoTo(s, stage)
      BY <2>3 DEF PersistDiscovery, PersistAnalysis, PersistLinkCheck, PersistFailure
    <3>. QED BY <1>2, <2>0, <3>1, <3>2 DEF Trying
  <2>4. CASE QueueSucceed(s) \/ QueueFail(s) \/ QueueRetry(s) \/ RecordCrash(s)
    <3>1. pc[s] \in Busy /\ GoTo(s, "reconcile")
      BY <2>0, <2>4
      DEF QueueSucceed, QueueFail, QueueRetry, RecordCrash, Report, RowStep, Trying
    <3>. QED BY <1>2, <2>0, <3>1
  <2>5. CASE ReconcileTask(s)
    BY <1>2, <2>0, <2>5 DEF ReconcileTask
  <2>. QED BY <1>3, <2>1, <2>2, <2>3, <2>4, <2>5 DEF Execute, Persist
<1>4. ASSUME NEW s \in Slots, Raise(s)
      PROVE  SlotsMove
  <2>1. pc[s] \in Busy
    BY <1>4, Stages DEF Raise
  <2>2. \E stage \in {"crashed", "reconcile", "idle"} : GoTo(s, stage)
    BY <1>4 DEF Raise
  <2>. QED BY <1>2, <2>1, <2>2, Stages
<1>5. ASSUME NEW o \in Owners, Die(o)
      PROVE  SlotsMove
  <2>1. /\ pc' = [s \in Slots |-> IF OwnerOf[s] = o THEN "dead" ELSE pc[s]]
        /\ work' = [s \in Slots |-> IF OwnerOf[s] = o THEN NoTask ELSE work[s]]
    BY <1>5 DEF Die
  <2>. QED BY <1>0, <2>1, Stages DEF SlotsMove
<1>6. CASE UNCHANGED slotVars
  BY <1>0, <1>6 DEF SlotsMove, slotVars
<1>. QED
  BY <1>1, <1>3, <1>4, <1>5, <1>6
  DEF Next, UserRequest, CancelCrawl, OpenRequest, CommitRequest, AbandonRequest,
      StartDiscovery, StartAnalysis, StopPhase, ReconcileStalled

-----------------------------------------------------------------------------
\* What a step does to the plan: tasks and results are added, never dropped.
PlanMoves ==
  /\ tasks \subseteq tasks' /\ tasks' \subseteq Task
  /\ evidence \subseteq evidence' /\ evidence' \subseteq tasks'
  /\ phaseRun' \in [Task -> Run]
  /\ \A t \in Task \ tasks' : phaseRun'[t] = NoRun
  /\ frontier' \subseteq Pages /\ monitored' \subseteq Pages /\ revived' \subseteq Pages
  /\ request' \in Requests \cup {NoRequest}

PlanTypes ==
  /\ tasks \subseteq Task /\ evidence \subseteq tasks
  /\ phaseRun \in [Task -> Run]
  /\ \A t \in Task \ tasks : phaseRun[t] = NoRun
  /\ frontier \subseteq Pages /\ monitored \subseteq Pages /\ revived \subseteq Pages
  /\ request \in Requests \cup {NoRequest}
  /\ running \in [Phases -> Nat] /\ lastRun \in [Phases -> Nat]

LEMMA PlanTypesHold == BaseInv => PlanTypes
  BY DEF BaseInv, TypeOK, Unplanned, PlanTypes

\* The new phase run of a phase has an ordinal of its own, never 0.
LEMMA OpenedPhase ==
  ASSUME PlanTypes, NEW phase \in Phases, OpenPhase(phase)
  PROVE  /\ lastRun'[phase] \in Nat /\ lastRun'[phase] # 0
         /\ lastRun' \in [Phases -> Nat] /\ running' \in [Phases -> Nat]
         /\ running'[phase] = lastRun'[phase]
         /\ \A other \in Phases \ {phase} : running'[other] = running[other]
<1>1. lastRun' = [lastRun EXCEPT ![phase] = lastRun[phase] + 1]
  BY DEF OpenPhase
<1>2. lastRun[phase] + 1 \in Nat /\ lastRun[phase] + 1 # 0
  BY DEF PlanTypes
<1>3. lastRun'[phase] = lastRun[phase] + 1 /\ lastRun' \in [Phases -> Nat]
  BY <1>1, <1>2 DEF PlanTypes
<1>4. running' = [running EXCEPT ![phase] = lastRun'[phase]]
  BY DEF OpenPhase
<1>. QED BY <1>2, <1>3, <1>4 DEF PlanTypes

LEMMA RunFields ==
  /\ NoRun \in Run /\ NoRun.ordinal = 0
  /\ \A phase \in Phases, ordinal \in Nat :
       /\ RunOf(phase, ordinal) \in Run
       /\ RunOf(phase, ordinal).phase = phase /\ RunOf(phase, ordinal).ordinal = ordinal
  BY DEF NoRun, Run, RunOf, Phases

\* Planning tasks; the fresh ones are of a phase run.
LEMMA Planned ==
  ASSUME PlanTypes, NEW new \in SUBSET Task, NEW fresh \in SUBSET new, NEW run \in Run,
         tasks' = tasks \cup new,
         phaseRun' = [t \in Task |-> IF t \in fresh THEN run ELSE phaseRun[t]]
  PROVE  /\ tasks \subseteq tasks' /\ tasks' \subseteq Task
         /\ phaseRun' \in [Task -> Run]
         /\ \A t \in Task \ tasks' : phaseRun'[t] = NoRun
  BY DEF PlanTypes

\* Generations are counted: a page has finitely many tasks of a kind.
LEMMA GenerationsCounted ==
  ASSUME PlanTypes, NEW kind \in Kinds, NEW p \in Pages
  PROVE  NextGeneration(kind, p) \in Nat
<1> DEFINE S == {t \in Of(kind) : t.page = p}
           G == 0 .. MaxGeneration
           f == [g \in G |-> TheTask(kind, p, g)]
           T == {f[g] : g \in G}
<1>1. S \subseteq T
  <2>. SUFFICES ASSUME NEW t \in S PROVE t \in T
    OBVIOUS
  <2>1. t \in Task /\ t.kind = kind /\ t.page = p
    BY DEF PlanTypes, Of
  <2>2. t.gen \in G /\ t = TheTask(kind, p, t.gen)
    BY <2>1 DEF Task, TheTask
  <2>3. t = f[t.gen]
    BY <2>2
  <2>. QED BY <2>2, <2>3
<1>2. IsFiniteSet(G)
  BY FS_Interval, BoundAssumption
<1>3. f \in Surjection(G, T)
  BY DEF Surjection
<1>. HIDE DEF f, S, G, T
<1>4. IsFiniteSet(T)
  BY <1>2, <1>3, FS_Surjection
<1>5. IsFiniteSet(S)
  BY <1>1, <1>4, FS_Subset
<1>. QED BY <1>5, FS_CardinalityType DEF NextGeneration, S

\* A discovery plans the tasks new, and their analyses are those of the sampled pages,
\* which it selects.
Sampling(new, sampled) ==
  /\ \A t \in new : \/ t.kind = "discover"
                    \/ t.kind = "analyze" /\ t.gen = 0 /\ t.page \in sampled
  /\ \A p \in sampled : TheTask("analyze", p, 0) \in new
  /\ tasks' = tasks \cup new
  /\ monitored' = monitored \cup sampled
  /\ revived' = revived \cup
       {p \in sampled \ monitored : TheTask("analyze", p, 0) \in tasks}

LEMMA Admitted ==
  ASSUME NEW admitted \in SUBSET Pages, NEW sampled \in SUBSET Pages, NEW run \in Run,
         Admit(admitted, sampled, run)
  PROVE  \E new \in SUBSET Task :
           /\ Sampling(new, sampled)
           /\ phaseRun' = [t \in Task |-> IF t \in new \ tasks THEN run ELSE phaseRun[t]]
<1> DEFINE new == {TheTask("discover", p, 0) : p \in admitted} \cup
                  {TheTask("analyze", p, 0) : p \in sampled}
<1>1. "discover" \in Kinds /\ "analyze" \in Kinds /\ 0 \in 0 .. MaxGeneration
  BY BoundAssumption DEF Kinds
<1>2. /\ new \in SUBSET Task
      /\ \A t \in new : \/ t.kind = "discover"
                        \/ t.kind = "analyze" /\ t.gen = 0 /\ t.page \in sampled
      /\ \A p \in sampled : TheTask("analyze", p, 0) \in new
  BY <1>1, TaskFields
<1>3. /\ tasks' = tasks \cup new
      /\ phaseRun' = [t \in Task |-> IF t \in new \ tasks THEN run ELSE phaseRun[t]]
      /\ monitored' = monitored \cup sampled
      /\ revived' = revived \cup
           {p \in sampled \ monitored : TheTask("analyze", p, 0) \in tasks}
  BY DEF Admit
<1>. HIDE DEF new
<1>. QED BY <1>2, <1>3 DEF Sampling

LEMMA SampledPages ==
  ASSUME NEW admitted \in SUBSET Pages, NEW sampled \in Samples(admitted)
  PROVE  sampled \in SUBSET Pages
  BY DEF Samples

LEMMA DiscoveryPersisted ==
  ASSUME BaseInv, NEW s \in Slots, PersistDiscovery(s)
  PROVE  /\ \E sampled \in SUBSET Pages, new \in SUBSET Task :
              /\ Sampling(new, sampled)
              /\ phaseRun' = [t \in Task |-> IF t \in new \ tasks THEN phaseRun[work[s]]
                                             ELSE phaseRun[t]]
         /\ frontier' \subseteq Pages
         /\ work[s] \in tasks /\ phaseRun[work[s]] \in Run
<1>0. PlanTypes /\ TypeOK
  BY PlanTypesHold DEF BaseInv
<1>1. work[s] \in tasks /\ work[s] \in Task
  BY <1>0, BusySlot, Stages DEF PersistDiscovery, Trying
<1>2. Candidates(work[s].page) \in SUBSET Pages
  BY <1>1, TaskFields, PageAssumption DEF Candidates
<1>3. PICK found \in SUBSET Candidates(work[s].page) :
        LET pending == frontier \cup {p \in found : ~InFrontier(p)}
        IN \E admitted \in SUBSET pending : \E sampled \in Samples(admitted) :
             /\ Admit(admitted, sampled, phaseRun[work[s]])
             /\ frontier' = pending \ admitted
  BY DEF PersistDiscovery
<1> DEFINE pending == frontier \cup {p \in found : ~InFrontier(p)}
<1>4. pending \in SUBSET Pages
  BY <1>0, <1>2 DEF PlanTypes
<1>5. PICK admitted \in SUBSET pending : \E sampled \in Samples(admitted) :
        /\ Admit(admitted, sampled, phaseRun[work[s]])
        /\ frontier' = pending \ admitted
  BY <1>3
<1>. HIDE DEF pending
<1>6. PICK sampled \in Samples(admitted) :
        /\ Admit(admitted, sampled, phaseRun[work[s]])
        /\ frontier' = pending \ admitted
  BY <1>5
<1>7. /\ admitted \in SUBSET Pages /\ frontier' \subseteq Pages
      /\ sampled \in SUBSET Pages
  BY <1>4, <1>6, SampledPages
<1>8. phaseRun[work[s]] \in Run
  BY <1>0, <1>1 DEF PlanTypes
<1>9. \E new \in SUBSET Task :
        /\ Sampling(new, sampled)
        /\ phaseRun' = [t \in Task |-> IF t \in new \ tasks THEN phaseRun[work[s]]
                                       ELSE phaseRun[t]]
  <2>1. PICK run \in Run : run = phaseRun[work[s]]
    BY <1>8
  <2>2. Admit(admitted, sampled, run)
    BY <1>6, <2>1 DEF Admit
  <2>3. PICK new \in SUBSET Task :
          /\ Sampling(new, sampled)
          /\ phaseRun' = [t \in Task |-> IF t \in new \ tasks THEN run ELSE phaseRun[t]]
    BY <1>7, <2>2, Admitted
  <2>. QED BY <2>1, <2>3
<1>. QED BY <1>1, <1>7, <1>8, <1>9

LEMMA DiscoveryStarted ==
  ASSUME BaseInv, StartDiscovery
  PROVE  /\ \E new \in SUBSET Task : \E fresh \in SUBSET new :
              /\ tasks' = tasks \cup new
              /\ phaseRun' = [t \in Task |->
                                IF t \in fresh
                                  THEN RunOf("discovery", lastRun'["discovery"])
                                  ELSE phaseRun[t]]
         /\ frontier' \subseteq Pages /\ monitored' \subseteq Pages
         /\ revived' \subseteq Pages
         /\ RunOf("discovery", lastRun'["discovery"]) \in Run
<1> DEFINE run == RunOf("discovery", lastRun'["discovery"])
<1>0. PlanTypes /\ frontier \in SUBSET Pages
  BY PlanTypesHold DEF PlanTypes
<1>1. run \in Run
  <2>1. "discovery" \in Phases /\ lastRun'["discovery"] \in Nat
    BY <1>0, OpenedPhase DEF StartDiscovery, Phases
  <2>. QED BY <2>1, RunFields
<1>2. CASE \E admitted \in SUBSET frontier : \E sampled \in Samples(admitted) :
             /\ Admit(admitted, sampled, run)
             /\ frontier' = frontier \ admitted
  <2>0. PICK admitted \in SUBSET frontier : \E sampled \in Samples(admitted) :
          /\ Admit(admitted, sampled, run)
          /\ frontier' = frontier \ admitted
    BY <1>2
  <2>1. PICK sampled \in Samples(admitted) :
          /\ Admit(admitted, sampled, run)
          /\ frontier' = frontier \ admitted
    BY <2>0
  <2>2. admitted \in SUBSET Pages /\ sampled \in SUBSET Pages /\ frontier' \subseteq Pages
    BY <1>0, <2>1, SampledPages
  <2>6. PICK opened \in Run : opened = run
    BY <1>1
  <2>. HIDE DEF run
  <2>7. Admit(admitted, sampled, opened)
    BY <2>1, <2>6 DEF Admit
  <2>8. PICK new \in SUBSET Task :
          /\ Sampling(new, sampled)
          /\ phaseRun' = [t \in Task |-> IF t \in new \ tasks THEN opened
                                         ELSE phaseRun[t]]
    BY <2>2, <2>7, Admitted
  <2>3. /\ Sampling(new, sampled)
        /\ phaseRun' = [t \in Task |-> IF t \in new \ tasks THEN run ELSE phaseRun[t]]
    BY <2>6, <2>8
  <2>4. tasks' = tasks \cup new /\ monitored' \subseteq Pages /\ revived' \subseteq Pages
    BY <1>0, <2>2, <2>3 DEF Sampling, PlanTypes
  <2>5. new \ tasks \in SUBSET new
    OBVIOUS
  <2>. QED BY <1>1, <2>2, <2>3, <2>4, <2>5 DEF run
<1>3. CASE \E sampled \in Samples(frontier) :
             LET new == {TheTask("discover", t.page, NextGeneration("discover", t.page)) :
                           t \in Ended("discover", "cancelled")}
             IN /\ new \subseteq Task
                /\ tasks' = tasks \cup new
                /\ phaseRun' = [t \in Task |-> IF t \in new THEN run ELSE phaseRun[t]]
                /\ monitored' = monitored \cup sampled
                /\ revived' = revived \cup (sampled \ monitored)
                /\ frontier' = {}
  <2> DEFINE new == {TheTask("discover", t.page, NextGeneration("discover", t.page)) :
                       t \in Ended("discover", "cancelled")}
  <2>1. PICK sampled \in Samples(frontier) :
          /\ new \in SUBSET Task
          /\ tasks' = tasks \cup new
          /\ phaseRun' = [t \in Task |-> IF t \in new THEN run ELSE phaseRun[t]]
          /\ monitored' = monitored \cup sampled
          /\ revived' = revived \cup (sampled \ monitored)
          /\ frontier' = {}
    BY <1>3
  <2>2. sampled \in SUBSET Pages
    BY <1>0, SampledPages
  <2>. HIDE DEF new, run
  <2>3. monitored' \subseteq Pages /\ revived' \subseteq Pages /\ frontier' \subseteq Pages
    BY <1>0, <2>1, <2>2 DEF PlanTypes
  <2>4. new \in SUBSET new
    OBVIOUS
  <2>. QED BY <1>1, <2>1, <2>3, <2>4 DEF run
<1>. QED BY <1>2, <1>3 DEF StartDiscovery

LEMMA AnalysisStarted ==
  ASSUME BaseInv, StartAnalysis
  PROVE  /\ \E new \in SUBSET Task :
              /\ \A t \in new : t.kind = "analyze"
              /\ tasks' = tasks \cup new
              /\ phaseRun' = [t \in Task |->
                                IF t \in new THEN RunOf("analysis", lastRun'["analysis"])
                                             ELSE phaseRun[t]]
         /\ monitored' \subseteq Pages /\ revived' \subseteq Pages
         /\ RunOf("analysis", lastRun'["analysis"]) \in Run
<1> DEFINE run == RunOf("analysis", lastRun'["analysis"])
<1>0. PlanTypes
  BY PlanTypesHold
<1>1. run \in Run
  <2>1. "analysis" \in Phases /\ lastRun'["analysis"] \in Nat
    BY <1>0, OpenedPhase DEF StartAnalysis, Phases
  <2>. QED BY <2>1, RunFields
<1>2. PICK chosen \in SUBSET {t.page : t \in tasks} :
        LET new == {TheTask("analyze", p, NextGeneration("analyze", p)) : p \in chosen}
        IN /\ new \subseteq Task
           /\ tasks' = tasks \cup new
           /\ phaseRun' = [t \in Task |-> IF t \in new THEN run ELSE phaseRun[t]]
           /\ monitored' = monitored \cup chosen
           /\ revived' = revived \ chosen
  BY DEF StartAnalysis
<1> DEFINE new == {TheTask("analyze", p, NextGeneration("analyze", p)) : p \in chosen}
<1>3. chosen \subseteq Pages
  BY <1>0, TaskFields DEF PlanTypes
<1>4. /\ new \in SUBSET Task
      /\ tasks' = tasks \cup new
      /\ phaseRun' = [t \in Task |-> IF t \in new THEN run ELSE phaseRun[t]]
      /\ monitored' \subseteq Pages /\ revived' \subseteq Pages
  BY <1>0, <1>2, <1>3 DEF PlanTypes
<1>5. \A t \in new : t.kind = "analyze"
  BY DEF TheTask
<1>. HIDE DEF new, run
<1>. QED BY <1>1, <1>4, <1>5 DEF run

LEMMA StepMovesPlan ==
  ASSUME BaseInv, Next
  PROVE  PlanMoves
<1>0. PlanTypes /\ TypeOK
  BY PlanTypesHold DEF BaseInv
<1>1. ASSUME NEW s \in Slots, PersistDiscovery(s)
      PROVE  PlanMoves
  <2>1. PICK sampled \in SUBSET Pages, new \in SUBSET Task :
          /\ Sampling(new, sampled)
          /\ phaseRun' = [t \in Task |-> IF t \in new \ tasks THEN phaseRun[work[s]]
                                         ELSE phaseRun[t]]
    BY <1>1, DiscoveryPersisted
  <2>2. frontier' \subseteq Pages /\ work[s] \in tasks /\ phaseRun[work[s]] \in Run
    BY <1>1, DiscoveryPersisted
  <2>3. /\ tasks \subseteq tasks' /\ tasks' \subseteq Task
        /\ phaseRun' \in [Task -> Run]
        /\ \A t \in Task \ tasks' : phaseRun'[t] = NoRun
    <3>1. tasks' = tasks \cup new /\ new \ tasks \in SUBSET new
      BY <2>1 DEF Sampling
    <3>. QED BY <1>0, <2>1, <2>2, <3>1, Planned
  <2>4. evidence' = evidence \cup {work[s]} /\ request' = request
    BY <1>1 DEF PersistDiscovery
  <2>5. monitored' \subseteq Pages /\ revived' \subseteq Pages
    BY <1>0, <2>1 DEF Sampling, PlanTypes
  <2>. QED BY <1>0, <2>2, <2>3, <2>4, <2>5 DEF PlanTypes, PlanMoves
<1>2. ASSUME NEW s \in Slots, PersistAnalysis(s)
      PROVE  PlanMoves
  <2> DEFINE check == [work[s] EXCEPT !.kind = "link"]
  <2>1. work[s] \in tasks /\ work[s] \in Task
    BY <1>0, <1>2, BusySlot, Stages DEF PersistAnalysis, Trying
  <2>2. check \in Task
    BY <2>1 DEF Task, Kinds
  <2>3. /\ tasks' = tasks \cup {check}
        /\ phaseRun' = [phaseRun EXCEPT ![check] = phaseRun[work[s]]]
        /\ evidence' = evidence \cup {work[s]}
        /\ frontier' = frontier /\ monitored' = monitored /\ request' = request
        /\ revived' = revived
    BY <1>2 DEF PersistAnalysis, selection
  <2>. HIDE DEF check
  <2>. QED BY <1>0, <2>1, <2>2, <2>3 DEF PlanTypes, PlanMoves
<1>3. ASSUME NEW s \in Slots, PersistLinkCheck(s)
      PROVE  PlanMoves
  <2>1. work[s] \in tasks /\ work[s] \in Task
    BY <1>0, <1>3, BusySlot, Stages DEF PersistLinkCheck, Trying
  <2>. QED BY <1>0, <1>3, <2>1 DEF PersistLinkCheck, plan, selection, PlanTypes, PlanMoves
<1>4. CASE OpenRequest
  <2>1. PICK r \in Requests :
          \/ request' = r /\ monitored' = monitored
          \/ request' = request /\ monitored' \in {monitored \cup {r.page},
                                                  monitored \ {r.page}, monitored}
    BY <1>4 DEF OpenRequest
  <2>2. r.page \in Pages
    BY <2>1 DEF Requests
  <2>. QED BY <1>0, <1>4, <2>1, <2>2 DEF OpenRequest, plan, PlanTypes, PlanMoves
<1>5. CASE CommitRequest
  <2>1. request \in Requests /\ request.page \in Pages
    BY <1>0, <1>5 DEF CommitRequest, PlanTypes, Requests
  <2>2. /\ request' = NoRequest /\ frontier' = frontier /\ evidence' = evidence
        /\ phaseRun' = phaseRun /\ revived' = revived \ {request.page}
    BY <1>5 DEF CommitRequest
  <2>3. CASE request.op = "remove"
    BY <1>0, <1>5, <2>2, <2>3 DEF CommitRequest, PlanTypes, PlanMoves
  <2>4. CASE request.op # "remove"
    <3> DEFINE gen == NextGeneration("analyze", request.page)
               new == TheTask("analyze", request.page, gen)
    <3>1. /\ gen <= MaxGeneration /\ tasks' = tasks \cup {new}
          /\ monitored' = monitored \cup {request.page}
      BY <1>5, <2>4 DEF CommitRequest
    <3>2. gen \in 0 .. MaxGeneration
      <4>1. gen \in Nat
        BY <1>0, <2>1, GenerationsCounted DEF Kinds
      <4>. QED BY <3>1, <4>1, BoundAssumption
    <3>3. new \in Task
      <4>. HIDE DEF gen
      <4>. QED BY <2>1, <3>2 DEF Task, TheTask, Kinds
    <3>. HIDE DEF new, gen
    <3>. QED BY <1>0, <2>1, <2>2, <3>1, <3>3 DEF PlanTypes, PlanMoves
  <2>. QED BY <2>3, <2>4
<1>6. CASE AbandonRequest
  BY <1>0, <1>6 DEF AbandonRequest, plan, PlanTypes, PlanMoves
<1>7. CASE StartDiscovery
  <2>1. PICK new \in SUBSET Task : \E fresh \in SUBSET new :
          /\ tasks' = tasks \cup new
          /\ phaseRun' = [t \in Task |-> IF t \in fresh
                                           THEN RunOf("discovery", lastRun'["discovery"])
                                           ELSE phaseRun[t]]
    BY <1>7, DiscoveryStarted
  <2>5. PICK fresh \in SUBSET new :
          phaseRun' = [t \in Task |-> IF t \in fresh
                                        THEN RunOf("discovery", lastRun'["discovery"])
                                        ELSE phaseRun[t]]
    BY <2>1
  <2>2. /\ RunOf("discovery", lastRun'["discovery"]) \in Run
        /\ frontier' \subseteq Pages /\ monitored' \subseteq Pages /\ revived' \subseteq Pages
    BY <1>7, DiscoveryStarted
  <2>3. /\ tasks \subseteq tasks' /\ tasks' \subseteq Task
        /\ phaseRun' \in [Task -> Run]
        /\ \A t \in Task \ tasks' : phaseRun'[t] = NoRun
    BY <1>0, <2>1, <2>2, <2>5, Planned
  <2>4. evidence' = evidence /\ request' = request
    BY <1>7 DEF StartDiscovery
  <2>. QED BY <1>0, <2>2, <2>3, <2>4 DEF PlanTypes, PlanMoves
<1>8. CASE StartAnalysis
  <2>1. PICK new \in SUBSET Task :
          /\ tasks' = tasks \cup new
          /\ phaseRun' = [t \in Task |-> IF t \in new
                                           THEN RunOf("analysis", lastRun'["analysis"])
                                           ELSE phaseRun[t]]
    BY <1>8, AnalysisStarted
  <2>2. /\ RunOf("analysis", lastRun'["analysis"]) \in Run
        /\ monitored' \subseteq Pages /\ revived' \subseteq Pages
    BY <1>8, AnalysisStarted
  <2>3. /\ tasks \subseteq tasks' /\ tasks' \subseteq Task
        /\ phaseRun' \in [Task -> Run]
        /\ \A t \in Task \ tasks' : phaseRun'[t] = NoRun
    <3>1. new \in SUBSET new
      OBVIOUS
    <3>. QED BY <1>0, <2>1, <2>2, <3>1, Planned
  <2>4. evidence' = evidence /\ request' = request /\ frontier' = frontier
    BY <1>8 DEF StartAnalysis
  <2>. QED BY <1>0, <2>2, <2>3, <2>4 DEF PlanTypes, PlanMoves
<1>9. CASE UNCHANGED <<plan, evidence, selection>>
  BY <1>0, <1>9 DEF plan, selection, PlanTypes, PlanMoves
<1>. QED
  BY <1>1, <1>2, <1>3, <1>4, <1>5, <1>6, <1>7, <1>8, <1>9
  DEF Next, Execute, Sweep, ReconcileStalled, Claim, Boundary, QueueCancel, MarkRunning,
      Enter, CheckGuard, Decide, RowStep, Persist, PersistFailure, Discard,
      QueueSucceed, QueueFail, QueueRetry, RecordCrash, Report, ReconcileTask,
      UserRequest, CancelCrawl, StopPhase, Raise, Die

-----------------------------------------------------------------------------
\* The statuses and phase runs, the bounds of the instance.
StatusTypes ==
  /\ crawl \in CrawlActive \cup CrawlTerminal
  /\ discovery \in {"running", "stopped", "completed", "failed", "cancelled"}
  /\ analysis \in {"pending", "running", "stopped"} \cup CrawlTerminal
  /\ endings \in Nat

PhaseTypes == running \in [Phases -> Nat] /\ lastRun \in [Phases -> Nat]

FaultTypes ==
  /\ advanced \in BOOLEAN /\ automatic \in BOOLEAN /\ site \in SUBSET Pages
  /\ starts \in Nat /\ stops \in Nat /\ events \in Nat
  /\ stalled \in BOOLEAN

LEMMA ReconcileTypes ==
  ASSUME StatusTypes, PhaseTypes, Reconcile
  PROVE  StatusTypes' /\ running' \in [Phases -> Nat]
<1>1. \/ UNCHANGED <<statuses, running>>
      \/ /\ running' = [p \in Phases |->
                          IF advanced /\ PhaseDrained(p) THEN 0 ELSE running[p]]
         /\ Progress \/ Park \/ Conclude
  BY DEF Reconcile
<1>2. running' \in [Phases -> Nat]
  BY <1>1 DEF PhaseTypes
<1>0. /\ crawl \in CrawlActive \cup CrawlTerminal
      /\ discovery \in {"running", "stopped", "completed", "failed", "cancelled"}
      /\ analysis \in {"pending", "running", "stopped"} \cup CrawlTerminal
      /\ endings \in Nat
  BY DEF StatusTypes
<1>3. CASE Progress
  <2>1. crawl' = crawl /\ endings' = endings
    BY <1>3 DEF Progress
  <2>2. discovery' \in {discovery, "stopped", "completed", "failed"}
    BY <1>3 DEF Progress, StoppedIfRunning
  <2>3. analysis' \in {analysis, "stopped", "running"}
    BY <1>3 DEF Progress, StoppedIfRunning
  <2>4. "failed" \in CrawlTerminal /\ "completed" \in CrawlTerminal
    BY DEF CrawlTerminal
  <2>. QED BY <1>0, <1>2, <2>1, <2>2, <2>3, <2>4 DEF StatusTypes
<1>4. CASE Park
  <2>1. /\ crawl' \in {crawl, "paused"} /\ endings' = endings
        /\ discovery' \in {discovery, "stopped"} /\ analysis' \in {analysis, "stopped"}
    BY <1>4 DEF Park, StoppedIfRunning
  <2>. QED BY <1>0, <1>2, <2>1 DEF StatusTypes, CrawlActive
<1>5. CASE Conclude
  <2>1. endings' \in Nat
    BY <1>5 DEF Conclude, StatusTypes
  <2>2. crawl' \in CrawlTerminal
    BY <1>5 DEF Conclude, Classified, CrawlTerminal
  <2>3. discovery' \in {discovery, "completed", "failed"}
    BY <1>5 DEF Conclude
  <2>4. analysis' \in {analysis} \cup CrawlTerminal
    BY <1>5 DEF Conclude, AnalysisClassified, CrawlTerminal
  <2>. QED BY <1>0, <1>2, <2>1, <2>2, <2>3, <2>4 DEF StatusTypes
<1>6. CASE UNCHANGED <<statuses, running>>
  BY <1>0, <1>2, <1>6 DEF statuses, StatusTypes
<1>. QED BY <1>1, <1>2, <1>3, <1>4, <1>5, <1>6

LEMMA StepKeepsStatusTypes ==
  ASSUME BaseInv, Next
  PROVE  StatusTypes' /\ PhaseTypes'
<1>0. StatusTypes /\ PhaseTypes /\ PlanTypes
  BY PlanTypesHold DEF BaseInv, TypeOK, StatusTypes, PhaseTypes
<1>1. ASSUME NEW s \in Slots, ReconcileTask(s) \/ ReconcileStalled(s)
      PROVE  StatusTypes' /\ PhaseTypes'
  <2>1. Reconcile /\ lastRun' = lastRun
    BY <1>1 DEF ReconcileTask, ReconcileStalled
  <2>2. StatusTypes' /\ running' \in [Phases -> Nat]
    BY <1>0, <2>1, ReconcileTypes
  <2>. QED BY <1>0, <2>1, <2>2 DEF PhaseTypes
<1>2. ASSUME NEW s \in Slots, Boundary(s)
      PROVE  StatusTypes' /\ PhaseTypes'
  BY <1>0, <1>2 DEF Boundary, phases, StatusTypes, PhaseTypes, CrawlActive
<1>3. CASE CancelCrawl
  BY <1>0, <1>3 DEF CancelCrawl, phases, StatusTypes, PhaseTypes, CrawlTerminal
<1>4. CASE StartDiscovery
  <2>1. PhaseTypes'
    BY <1>0, <1>4, OpenedPhase DEF StartDiscovery, Phases, PhaseTypes
  <2>. QED BY <1>0, <1>4, <2>1 DEF StartDiscovery, StatusTypes, CrawlActive
<1>5. CASE StartAnalysis
  <2>1. PhaseTypes'
    BY <1>0, <1>5, OpenedPhase DEF StartAnalysis, Phases, PhaseTypes
  <2>. QED BY <1>0, <1>5, <2>1 DEF StartAnalysis, StatusTypes, CrawlActive
<1>6. ASSUME NEW phase \in Phases, StopPhase(phase)
      PROVE  StatusTypes' /\ PhaseTypes'
  <2>1. /\ running' = [running EXCEPT ![phase] = 0] /\ lastRun' = lastRun
        /\ endings' = endings
        /\ discovery' \in {discovery, "stopped"} /\ analysis' \in {analysis, "stopped"}
        /\ crawl' \in {crawl, "paused"}
    BY <1>6 DEF StopPhase, StoppedIfRunning
  <2>. QED BY <1>0, <2>1 DEF StatusTypes, PhaseTypes, CrawlActive
<1>7. CASE UNCHANGED <<statuses, phases>>
  BY <1>0, <1>7 DEF statuses, phases, StatusTypes, PhaseTypes
<1>. QED
  BY <1>1, <1>2, <1>3, <1>4, <1>5, <1>6, <1>7
  DEF Next, Execute, Sweep, Claim, QueueCancel, MarkRunning, Enter, CheckGuard, Decide,
      RowStep, Persist, PersistDiscovery, PersistAnalysis, PersistLinkCheck,
      PersistFailure, Discard, QueueSucceed, QueueFail, QueueRetry, RecordCrash, Report,
      UserRequest, OpenRequest, CommitRequest, AbandonRequest, Raise, Die

LEMMA StepKeepsFaultTypes ==
  ASSUME BaseInv, Next
  PROVE  FaultTypes' /\ advanced' = advanced /\ (stalled => stalled')
<1>0. FaultTypes
  BY DEF BaseInv, TypeOK, FaultTypes
<1>1. UNCHANGED mode
  BY DEF Next, Execute, Sweep, ReconcileStalled, Claim, Boundary, QueueCancel, MarkRunning,
      Enter, CheckGuard, Decide, RowStep, Persist, PersistDiscovery, PersistAnalysis,
      PersistLinkCheck, PersistFailure, Discard, QueueSucceed, QueueFail, QueueRetry,
      RecordCrash, Report, ReconcileTask, UserRequest, CancelCrawl, OpenRequest,
      CommitRequest, AbandonRequest, StartDiscovery, StartAnalysis, StopPhase, Raise, Die
<1>2. starts' = starts \/ (starts > 0 /\ starts' = starts - 1)
  BY DEF Next, Execute, Sweep, ReconcileStalled, Claim, Boundary, QueueCancel, MarkRunning,
      Enter, CheckGuard, Decide, RowStep, Persist, PersistDiscovery, PersistAnalysis,
      PersistLinkCheck, PersistFailure, Discard, QueueSucceed, QueueFail, QueueRetry,
      RecordCrash, Report, ReconcileTask, UserRequest, CancelCrawl, OpenRequest,
      CommitRequest, AbandonRequest, StartDiscovery, StartAnalysis, StopPhase, Raise, Die,
      OpenPhase, faults
<1>3. events' = events \/ Occurs
  BY DEF Next, Execute, Sweep, ReconcileStalled, Claim, Boundary, QueueCancel, MarkRunning,
      Enter, CheckGuard, Decide, RowStep, Persist, PersistDiscovery, PersistAnalysis,
      PersistLinkCheck, PersistFailure, Discard, QueueSucceed, QueueFail, QueueRetry,
      RecordCrash, Report, ReconcileTask, UserRequest, CancelCrawl, OpenRequest,
      CommitRequest, AbandonRequest, StartDiscovery, StartAnalysis, StopPhase, Raise, Die,
      faults
<1>4. stalled' = stalled \/ stalled' = TRUE
  BY DEF Next, Execute, Sweep, ReconcileStalled, Claim, Boundary, QueueCancel, MarkRunning,
      Enter, CheckGuard, Decide, RowStep, Persist, PersistDiscovery, PersistAnalysis,
      PersistLinkCheck, PersistFailure, Discard, QueueSucceed, QueueFail, QueueRetry,
      RecordCrash, Report, ReconcileTask, UserRequest, CancelCrawl, OpenRequest,
      CommitRequest, AbandonRequest, StartDiscovery, StartAnalysis, StopPhase, Raise, Die,
      faults
<1>5. stops' = stops \/ (stops > 0 /\ stops' = stops - 1)
  BY DEF Next, Execute, Sweep, ReconcileStalled, Claim, Boundary, QueueCancel, MarkRunning,
      Enter, CheckGuard, Decide, RowStep, Persist, PersistDiscovery, PersistAnalysis,
      PersistLinkCheck, PersistFailure, Discard, QueueSucceed, QueueFail, QueueRetry,
      RecordCrash, Report, ReconcileTask, UserRequest, CancelCrawl, OpenRequest,
      CommitRequest, AbandonRequest, StartDiscovery, StartAnalysis, StopPhase, Raise, Die,
      faults
<1>6. stalled' \in BOOLEAN /\ (stalled => stalled')
  BY <1>0, <1>4 DEF FaultTypes
<1>7. starts' \in Nat /\ stops' \in Nat /\ events' \in Nat
  BY <1>0, <1>2, <1>3, <1>5 DEF FaultTypes, Occurs
<1>. QED BY <1>0, <1>1, <1>6, <1>7 DEF FaultTypes, mode

LEMMA BaseInvInit == Init => BaseInv
<1>. SUFFICES ASSUME Init PROVE BaseInv
  OBVIOUS
<1>1. NewRow \in Row /\ NewRow.status = "queued" /\ NewRow.owner = NoOwner
  BY DEF NewRow, Row, Status, Claimable
<1>2. row \in [Task -> Row] /\ RowsCoherent
  BY <1>1 DEF Init, RowsCoherent, LeaseHeld
<1>3. /\ "discover" \in Kinds /\ "analyze" \in Kinds /\ 0 \in 0 .. MaxGeneration
      /\ Root \in Pages /\ monitored \subseteq Pages
  BY PageAssumption, BoundAssumption DEF Kinds, Init
<1>4. tasks \subseteq Task /\ evidence \subseteq tasks
  <2>1. TheTask("discover", Root, 0) \in Task
    BY <1>3, TaskFields
  <2>2. \A p \in monitored : TheTask("analyze", p, 0) \in Task
    BY <1>3, TaskFields
  <2>. QED BY <2>1, <2>2 DEF Init
<1>5. lastRun \in [Phases -> Nat] /\ running \in [Phases -> Nat]
  BY DEF Init
<1>6. phaseRun \in [Task -> Run] /\ Unplanned
  <2>1. RunOf("discovery", lastRun["discovery"]) \in Run /\ NoRun \in Run
    BY <1>5, RunFields DEF Phases
  <2>2. phaseRun \in [Task -> Run]
    BY <2>1 DEF Init
  <2>3. TheTask("discover", Root, 0) \in tasks
    BY DEF Init
  <2>4. \A t \in Task : t # TheTask("discover", Root, 0) => phaseRun[t] = NoRun
    BY DEF Init
  <2>5. \A t \in Task : row[t] = NewRow
    BY DEF Init
  <2>. QED BY <2>2, <2>3, <2>4, <2>5 DEF Unplanned
<1>7. StatusTypes /\ FaultTypes
  <2>1. /\ crawl = "queued" /\ discovery = "running" /\ analysis = "pending"
        /\ endings = 0 /\ stalled = FALSE
    BY DEF Init
  <2>2. PICK scenario \in Scenario :
          /\ advanced = scenario.advanced /\ automatic = scenario.automatic
          /\ site = scenario.site
          /\ starts = scenario.starts /\ stops = scenario.stops
          /\ events = scenario.events
    BY ScenarioAssumption DEF Init
  <2>. QED BY <2>1, <2>2 DEF StatusTypes, FaultTypes, CrawlActive, Scenario
<1>8. /\ pc \in [Slots -> Stage] /\ work \in [Slots -> tasks \cup {NoTask}]
      /\ \A s \in Slots : work[s] = NoTask <=> pc[s] \in {"idle", "dead"}
  BY DEF Init, Stage
<1>9. /\ frontier \subseteq Pages /\ revived \subseteq Pages
      /\ request \in Requests \cup {NoRequest}
  BY DEF Init
<1>. QED
  BY <1>2, <1>3, <1>4, <1>5, <1>6, <1>7, <1>8, <1>9
  DEF BaseInv, TypeOK, StatusTypes, FaultTypes

LEMMA BaseInvStep == BaseInv /\ [Next]_vars => BaseInv'
<1>. SUFFICES ASSUME BaseInv, [Next]_vars PROVE BaseInv'
  OBVIOUS
<1>1. CASE Next
  <2>1. RowsMove /\ RowsCoherent'
    BY <1>1, StepMovesRows, StepKeepsCoherence
  <2>2. PlanMoves /\ SlotsMove
    BY <1>1, StepMovesPlan, StepMovesSlots
  <2>3. StatusTypes' /\ PhaseTypes' /\ FaultTypes'
    BY <1>1, StepKeepsStatusTypes, StepKeepsFaultTypes
  <2>4. work' \in [Slots -> tasks' \cup {NoTask}]
    BY <2>2 DEF PlanMoves, SlotsMove
  <2>5. Unplanned'
    <3>1. \A t \in Task \ tasks' : row'[t] = NewRow
      BY <2>1, <2>2 DEF RowsMove, PlanMoves, BaseInv, Unplanned
    <3>. QED BY <2>2, <3>1 DEF PlanMoves, Unplanned
  <2>6. TypeOK'
    BY <2>1, <2>2, <2>3, <2>4
    DEF TypeOK, RowsMove, PlanMoves, SlotsMove, StatusTypes, PhaseTypes, FaultTypes
  <2>. QED BY <2>1, <2>5, <2>6 DEF BaseInv
<1>2. CASE UNCHANGED vars
  BY <1>2
  DEF vars, mode, statuses, phases, plan, selection, slotVars, faults, BaseInv, TypeOK,
      RowsCoherent, Unplanned
<1>. QED BY <1>1, <1>2

LEMMA BaseInvHolds == Spec => []BaseInv
  BY BaseInvInit, BaseInvStep, PTL DEF Spec

\* The crawl, its phases, tasks and slots stay well formed, whatever stalls, raises
\* or dies and whatever the user selects, starts and stops.
THEOREM TypeCorrect == Spec => []TypeOK
  BY BaseInvHolds, PTL DEF BaseInv

-----------------------------------------------------------------------------
\* The end

\* Nothing that a slot, a request or the backstop does to a crawl that has ended
\* changes its statuses or its results.
LEMMA EndIsFinal ==
  ASSUME BaseInv, Next, crawl \in CrawlTerminal
  PROVE  UNCHANGED <<statuses, evidence>>
<1>0. crawl \notin CrawlActive
  BY DEF CrawlActive, CrawlTerminal
<1>1. ASSUME NEW s \in Slots, Persist(s)
      PROVE  UNCHANGED <<statuses, evidence>>
  BY <1>0, <1>1
  DEF Persist, PersistDiscovery, PersistAnalysis, PersistLinkCheck, PersistFailure,
      Discard, Decide, RowStep, MayPersist, GuardOk, LockOwnedRunningTask
<1>2. ASSUME NEW s \in Slots, ReconcileTask(s) \/ ReconcileStalled(s)
      PROVE  UNCHANGED <<statuses, evidence>>
  BY <1>0, <1>2 DEF ReconcileTask, ReconcileStalled, Reconcile
<1>3. ASSUME NEW s \in Slots, Boundary(s)
      PROVE  UNCHANGED <<statuses, evidence>>
  BY <1>0, <1>3 DEF Boundary, statuses
<1>. QED
  BY <1>0, <1>1, <1>2, <1>3
  DEF Next, Execute, Sweep, Claim, QueueCancel, MarkRunning, Enter, CheckGuard, Decide,
      RowStep, QueueSucceed, QueueFail, QueueRetry, RecordCrash, Report,
      UserRequest, CancelCrawl, OpenRequest, CommitRequest, AbandonRequest,
      StartDiscovery, StartAnalysis, StopPhase, Raise, Die

\* A crawl ends once.  Nothing is recorded for it afterwards, however late a fetch
\* returns and whoever made it.
THEOREM NothingAfterTheEndHolds == Spec => NothingAfterTheEnd
<1>1. BaseInv /\ [Next]_vars
        => [(crawl \in CrawlTerminal) => UNCHANGED <<statuses, evidence>>]_vars
  BY EndIsFinal
<1>. QED
  BY <1>1, BaseInvHolds, PTL DEF Spec, NothingAfterTheEnd

-----------------------------------------------------------------------------
\* Phase runs

\* The discoveries are of the discovery's runs (NoRun is counted as one).
DiscoversForDiscovery ==
  \A t \in Task : t.kind = "discover" => phaseRun[t].phase = "discovery"

PhaseInv == BaseInv /\ DiscoversForDiscovery /\ StoppedPhasesAreQuiet

LEMMA DiscoversStep ==
  ASSUME BaseInv, DiscoversForDiscovery, Next
  PROVE  DiscoversForDiscovery'
<1>1. ASSUME NEW fresh, NEW run, \A t \in fresh : t.kind # "discover" \/ run.phase = "discovery",
             phaseRun' = [t \in Task |-> IF t \in fresh THEN run ELSE phaseRun[t]]
      PROVE  DiscoversForDiscovery'
  BY <1>1 DEF DiscoversForDiscovery
<1>2. ASSUME NEW s \in Slots, PersistDiscovery(s)
      PROVE  DiscoversForDiscovery'
  <2>3. PICK sampled \in SUBSET Pages, new \in SUBSET Task :
          phaseRun' = [t \in Task |-> IF t \in new \ tasks THEN phaseRun[work[s]]
                                      ELSE phaseRun[t]]
    BY <1>2, DiscoveryPersisted
  <2>1. PICK fresh, run : /\ run = phaseRun[work[s]]
                          /\ phaseRun' = [t \in Task |-> IF t \in fresh THEN run
                                                         ELSE phaseRun[t]]
    BY <2>3
  <2>2. work[s] \in Task /\ work[s].kind = "discover"
    BY <1>2, BusySlot, Stages DEF PersistDiscovery, Trying, BaseInv
  <2>. QED BY <1>1, <2>1, <2>2 DEF DiscoversForDiscovery
<1>3. ASSUME NEW s \in Slots, PersistAnalysis(s)
      PROVE  DiscoversForDiscovery'
  <2> DEFINE check == [work[s] EXCEPT !.kind = "link"]
  <2>1. work[s] \in Task
    BY <1>3, BusySlot, Stages DEF PersistAnalysis, Trying, BaseInv
  <2>2. check.kind # "discover"
    BY <2>1 DEF Task
  <2>3. phaseRun' = [phaseRun EXCEPT ![check] = phaseRun[work[s]]]
    BY <1>3 DEF PersistAnalysis
  <2>. HIDE DEF check
  <2>. QED BY <2>2, <2>3 DEF DiscoversForDiscovery, BaseInv, TypeOK
<1>4. CASE StartDiscovery
  <2>1. PICK fresh, run : /\ run = RunOf("discovery", lastRun'["discovery"])
                          /\ phaseRun' = [t \in Task |-> IF t \in fresh THEN run
                                                         ELSE phaseRun[t]]
    BY <1>4, DiscoveryStarted
  <2>2. run.phase = "discovery"
    BY <2>1 DEF RunOf
  <2>. QED BY <1>1, <2>1, <2>2
<1>5. CASE StartAnalysis
  <2>1. PICK fresh, run : /\ \A t \in fresh : t.kind = "analyze"
                          /\ phaseRun' = [t \in Task |-> IF t \in fresh THEN run
                                                         ELSE phaseRun[t]]
    BY <1>5, AnalysisStarted
  <2>. QED BY <1>1, <2>1
<1>6. CASE phaseRun' = phaseRun
  BY <1>6 DEF DiscoversForDiscovery
<1>. QED
  BY <1>2, <1>3, <1>4, <1>5, <1>6
  DEF Next, Execute, Sweep, ReconcileStalled, Claim, Boundary, QueueCancel, MarkRunning,
      Enter, CheckGuard, Decide, RowStep, Persist, PersistLinkCheck, PersistFailure,
      Discard, QueueSucceed, QueueFail, QueueRetry, RecordCrash, Report, ReconcileTask,
      UserRequest, CancelCrawl, OpenRequest, CommitRequest, AbandonRequest, StopPhase,
      Raise, Die, plan

\* A task that is live after a step was live before it, or is new.
LEMMA LiveBefore ==
  ASSUME BaseInv, RowsMove, PlanMoves, NEW t \in LiveTasks'
  PROVE  t \in Task /\ t \in tasks' /\ (t \in tasks => t \in LiveTasks)
  BY DEF LiveTasks, RowsMove, PlanMoves

LEMMA QuietTask ==
  ASSUME PhaseInv, NEW t \in LiveTasks, IsOfPhase(t), phaseRun[t].ordinal # 0
  PROVE  /\ phaseRun[t].phase \in Phases
         /\ phaseRun[t] = RunOf(phaseRun[t].phase, running[phaseRun[t].phase])
         /\ phaseRun[t].ordinal = running[phaseRun[t].phase]
<1>1. phaseRun[t] \in Run
  BY DEF PhaseInv, BaseInv, TypeOK, LiveTasks
<1>2. phaseRun[t].phase \in Phases
  BY <1>1 DEF Run
<1>3. phaseRun[t] = RunOf(phaseRun[t].phase, running[phaseRun[t].phase])
  BY DEF PhaseInv, StoppedPhasesAreQuiet, RunningRun
<1>4. RunOf(phaseRun[t].phase, running[phaseRun[t].phase]).ordinal
        = running[phaseRun[t].phase]
  BY DEF RunOf
<1>. QED BY <1>2, <1>3, <1>4

\* Steps that leave the phase runs alone; a task they plan belongs to none.
LEMMA QuietKept ==
  ASSUME PhaseInv, RowsMove, PlanMoves, phaseRun' = phaseRun, running' = running
  PROVE  StoppedPhasesAreQuiet'
<1>. SUFFICES ASSUME NEW t \in LiveTasks', IsOfPhase(t)', phaseRun'[t].ordinal # 0
              PROVE  phaseRun'[t] = RunOf(phaseRun'[t].phase, running'[phaseRun'[t].phase])
  BY DEF StoppedPhasesAreQuiet, RunningRun
<1>1. t \in Task /\ (t \in tasks => t \in LiveTasks)
  BY LiveBefore DEF PhaseInv
<1>2. t \in tasks
  BY <1>1, RunFields DEF PhaseInv, BaseInv, Unplanned
<1>3. IsOfPhase(t)
  BY DEF IsOfPhase
<1>. QED BY <1>1, <1>2, <1>3, QuietTask

\* Steps that plan tasks; those that do the work of their run's phase are planned for
\* the run of it that is running, or is now.
LEMMA QuietPlanned ==
  ASSUME PhaseInv, RowsMove, PlanMoves, NEW phase \in Phases, NEW fresh, NEW run \in Run,
         phaseRun' = [t \in Task |-> IF t \in fresh THEN run ELSE phaseRun[t]],
         \A t \in fresh : t.kind \in PhaseKinds(run.phase) /\ run.ordinal # 0 =>
                         run = RunOf(run.phase, running'[run.phase]),
         running[phase] = 0 \/ running'[phase] = running[phase],
         \A other \in Phases \ {phase} : running'[other] = running[other]
  PROVE  StoppedPhasesAreQuiet'
<1>. SUFFICES ASSUME NEW t \in LiveTasks', IsOfPhase(t)', phaseRun'[t].ordinal # 0
              PROVE  phaseRun'[t] = RunOf(phaseRun'[t].phase, running'[phaseRun'[t].phase])
  BY DEF StoppedPhasesAreQuiet, RunningRun
<1>1. t \in Task /\ t \in tasks' /\ (t \in tasks => t \in LiveTasks)
  BY LiveBefore DEF PhaseInv
<1>2. CASE t \in fresh
  <2>1. phaseRun'[t] = run
    BY <1>1, <1>2
  <2>2. t.kind \in PhaseKinds(run.phase)
    BY <2>1 DEF IsOfPhase
  <2>. QED BY <1>2, <2>1, <2>2
<1>3. CASE t \notin fresh
  <2>1. phaseRun'[t] = phaseRun[t]
    BY <1>1, <1>3
  <2>2. t \in LiveTasks
    <3>1. t \in tasks
      BY <1>1, <2>1, RunFields DEF PhaseInv, BaseInv, Unplanned
    <3>. QED BY <1>1, <3>1
  <2>3. IsOfPhase(t)
    BY <2>1 DEF IsOfPhase
  <2>4. /\ phaseRun[t].phase \in Phases
        /\ phaseRun[t] = RunOf(phaseRun[t].phase, running[phaseRun[t].phase])
        /\ phaseRun[t].ordinal = running[phaseRun[t].phase]
    BY <2>1, <2>2, <2>3, QuietTask
  <2>5. running'[phaseRun[t].phase] = running[phaseRun[t].phase]
    BY <2>1, <2>4
  <2>. QED BY <2>1, <2>4, <2>5
<1>. QED BY <1>2, <1>3

LEMMA QuietReconciled ==
  ASSUME PhaseInv, Reconcile, row' = row, UNCHANGED plan
  PROVE  StoppedPhasesAreQuiet'
<1>. SUFFICES ASSUME NEW t \in LiveTasks', IsOfPhase(t)', phaseRun'[t].ordinal # 0
              PROVE  phaseRun'[t] = RunOf(phaseRun'[t].phase, running'[phaseRun'[t].phase])
  BY DEF StoppedPhasesAreQuiet, RunningRun
<1>1. t \in LiveTasks /\ phaseRun'[t] = phaseRun[t] /\ IsOfPhase(t)
  BY DEF LiveTasks, plan, IsOfPhase
<1>2. /\ phaseRun[t].phase \in Phases
      /\ phaseRun[t] = RunOf(phaseRun[t].phase, running[phaseRun[t].phase])
  BY <1>1, QuietTask
<1>3. t \in Live(PhaseKinds(phaseRun[t].phase))
  BY <1>1 DEF IsOfPhase, Live
<1>4. ~PhaseDrained(phaseRun[t].phase)
  <2>1. CASE phaseRun[t].phase = "discovery"
    BY <1>3, <2>1 DEF PhaseDrained, PhaseKinds
  <2>2. CASE phaseRun[t].phase = "analysis"
    BY <1>2, <1>3, <2>2 DEF PhaseDrained, RunningRun
  <2>. QED BY <1>2, <2>1, <2>2 DEF Phases
<1>5. running'[phaseRun[t].phase] = running[phaseRun[t].phase]
  BY <1>2, <1>4 DEF Reconcile
<1>. QED BY <1>1, <1>2, <1>5

LEMMA QuietStopped ==
  ASSUME PhaseInv, RowsMove, PlanMoves, NEW phase \in Phases, StopPhase(phase)
  PROVE  StoppedPhasesAreQuiet'
<1> DEFINE stopped == {t \in Live(PhaseKinds(phase)) :
                         running[phase] # 0 /\ phaseRun[t] = RunningRun(phase)}
<1>0. /\ CancelRows(stopped) /\ running' = [running EXCEPT ![phase] = 0]
      /\ tasks' = tasks /\ phaseRun' = phaseRun
  BY DEF StopPhase, plan
<1>1. stopped \subseteq LiveTasks
  BY DEF Live
<1>. SUFFICES ASSUME NEW t \in LiveTasks', IsOfPhase(t)', phaseRun'[t].ordinal # 0
              PROVE  phaseRun'[t] = RunOf(phaseRun'[t].phase, running'[phaseRun'[t].phase])
  BY DEF StoppedPhasesAreQuiet, RunningRun
<1>2. t \in LiveTasks /\ IsOfPhase(t)
  BY <1>0, LiveBefore DEF PhaseInv, IsOfPhase
<1>3. /\ phaseRun[t].phase \in Phases
      /\ phaseRun[t] = RunOf(phaseRun[t].phase, running[phaseRun[t].phase])
      /\ running[phaseRun[t].phase] # 0
  BY <1>0, <1>2, QuietTask
<1>4. CASE phaseRun[t].phase = phase
  <2>1. t \in stopped
    BY <1>2, <1>3, <1>4 DEF Live, IsOfPhase, RunningRun
  <2>. HIDE DEF stopped
  <2>2. row'[t].status = "cancelled"
    BY <1>0, <1>1, <2>1, RowsCancelled DEF PhaseInv, BaseInv
  <2>. QED BY <2>2 DEF LiveTasks, Terminal
<1>5. CASE phaseRun[t].phase # phase
  <2>1. running'[phaseRun[t].phase] = running[phaseRun[t].phase]
    BY <1>0, <1>3, <1>5 DEF PhaseInv, BaseInv, TypeOK
  <2>. QED BY <1>0, <1>3, <2>1
<1>. QED BY <1>4, <1>5

\* A slot that may persist a result works on a live task.
LEMMA PersistsLive ==
  ASSUME BaseInv, NEW s \in Slots, pc[s] \in Busy, MayPersist(s)
  PROVE  work[s] \in LiveTasks
<1>1. Holds(s) /\ work[s] \in tasks
  BY BusySlot DEF MayPersist, GuardOk, LeaseOwned, LockOwnedRunningTask, BaseInv
<1>. QED BY <1>1, HeldRow DEF LiveTasks

LEMMA StoppedPhasesStep ==
  ASSUME PhaseInv, Next
  PROVE  StoppedPhasesAreQuiet'
<1>0. BaseInv /\ TypeOK /\ PlanTypes /\ RowsMove /\ PlanMoves
  BY StepMovesRows, StepMovesPlan, PlanTypesHold DEF PhaseInv, BaseInv
<1>a. "discovery" \in Phases /\ "analysis" \in Phases
  BY DEF Phases
<1>1. ASSUME NEW s \in Slots, PersistDiscovery(s)
      PROVE  StoppedPhasesAreQuiet'
  <2>1. PICK sampled \in SUBSET Pages, new \in SUBSET Task :
          /\ Sampling(new, sampled)
          /\ phaseRun' = [t \in Task |-> IF t \in new \ tasks THEN phaseRun[work[s]]
                                         ELSE phaseRun[t]]
    BY <1>0, <1>1, DiscoveryPersisted
  <2>2. work[s] \in LiveTasks /\ work[s].kind = "discover"
    BY <1>0, <1>1, PersistsLive, Stages DEF PersistDiscovery, Trying
  <2>3. PICK run \in Run : run = phaseRun[work[s]]
    BY <1>0, <1>1, DiscoveryPersisted
  <2>4. running' = running
    BY <1>1 DEF PersistDiscovery, phases
  <2>5. ASSUME NEW t \in new \ tasks, t.kind \in PhaseKinds(run.phase), run.ordinal # 0
        PROVE  run = RunOf(run.phase, running'[run.phase])
    <3>1. t.kind = "discover" \/ t.kind = "analyze"
      BY <2>1 DEF Sampling
    <3>2. CASE t.kind = "discover"
      BY <2>2, <2>3, <2>4, <2>5, <3>2, QuietTask DEF IsOfPhase
    <3>3. run.phase = "discovery"
      BY <1>0, <2>2, <2>3 DEF PhaseInv, DiscoversForDiscovery, LiveTasks, PlanTypes
    <3>. QED BY <2>5, <3>1, <3>2, <3>3 DEF PhaseKinds
  <2>. QED BY <1>0, <1>a, <2>1, <2>3, <2>4, <2>5, QuietPlanned
<1>2. ASSUME NEW s \in Slots, PersistAnalysis(s)
      PROVE  StoppedPhasesAreQuiet'
  <2> DEFINE check == [work[s] EXCEPT !.kind = "link"]
  <2>1. work[s] \in LiveTasks /\ work[s].kind = "analyze"
    BY <1>0, <1>2, PersistsLive, Stages DEF PersistAnalysis, Trying
  <2>2. work[s] \in Task
    BY <1>0, <2>1 DEF LiveTasks, PlanTypes
  <2>3. check \in Task /\ check.kind = "link"
    BY <2>2 DEF Task, Kinds
  <2>4. PICK run \in Run : run = phaseRun[work[s]]
    BY <1>0, <2>2 DEF PlanTypes
  <2>5. running' = running
    BY <1>2 DEF PersistAnalysis, phases
  <2>6. phaseRun' = [t \in Task |-> IF t \in {check} THEN run ELSE phaseRun[t]]
    <3>1. phaseRun' = [phaseRun EXCEPT ![check] = phaseRun[work[s]]]
      BY <1>2 DEF PersistAnalysis
    <3>. HIDE DEF check
    <3>. QED BY <1>0, <2>4, <3>1 DEF PlanTypes
  <2>7. ASSUME check.kind \in PhaseKinds(run.phase), run.ordinal # 0
        PROVE  run = RunOf(run.phase, running'[run.phase])
    <3>1. work[s].kind \in PhaseKinds(run.phase)
      BY <2>1, <2>3, <2>7 DEF PhaseKinds
    <3>. QED BY <2>1, <2>4, <2>5, <2>7, <3>1, QuietTask DEF IsOfPhase
  <2>. HIDE DEF check
  <2>. QED BY <1>0, <1>a, <2>5, <2>6, <2>7, QuietPlanned
<1>3. CASE StartDiscovery
  <2>1. PICK fresh \in SUBSET Task :
          phaseRun' = [t \in Task |-> IF t \in fresh
                                        THEN RunOf("discovery", lastRun'["discovery"])
                                        ELSE phaseRun[t]]
    BY <1>0, <1>3, DiscoveryStarted
  <2>2. /\ lastRun'["discovery"] \in Nat /\ running'["discovery"] = lastRun'["discovery"]
        /\ \A other \in Phases \ {"discovery"} : running'[other] = running[other]
    BY <1>0, <1>a, <1>3, OpenedPhase DEF StartDiscovery
  <2>3. running["discovery"] = 0
    BY <1>3 DEF StartDiscovery
  <2>4. PICK run \in Run : run = RunOf("discovery", lastRun'["discovery"])
    BY <1>0, <1>3, DiscoveryStarted
  <2>5. run = RunOf(run.phase, running'[run.phase])
    BY <1>a, <2>2, <2>4, RunFields
  <2>. QED BY <1>0, <1>a, <2>1, <2>2, <2>3, <2>4, <2>5, QuietPlanned
<1>4. CASE StartAnalysis
  <2>1. PICK new \in SUBSET Task :
          phaseRun' = [t \in Task |-> IF t \in new
                                        THEN RunOf("analysis", lastRun'["analysis"])
                                        ELSE phaseRun[t]]
    BY <1>0, <1>4, AnalysisStarted
  <2>2. /\ lastRun'["analysis"] \in Nat /\ running'["analysis"] = lastRun'["analysis"]
        /\ \A other \in Phases \ {"analysis"} : running'[other] = running[other]
    BY <1>0, <1>a, <1>4, OpenedPhase DEF StartAnalysis
  <2>3. running["analysis"] = 0
    BY <1>4 DEF StartAnalysis
  <2>4. PICK run \in Run : run = RunOf("analysis", lastRun'["analysis"])
    BY <1>0, <1>4, AnalysisStarted
  <2>5. run = RunOf(run.phase, running'[run.phase])
    BY <1>a, <2>2, <2>4, RunFields
  <2>. QED BY <1>0, <1>a, <2>1, <2>2, <2>3, <2>4, <2>5, QuietPlanned
<1>5. ASSUME NEW phase \in Phases, StopPhase(phase)
      PROVE  StoppedPhasesAreQuiet'
  BY <1>0, <1>5, QuietStopped
<1>6. ASSUME NEW s \in Slots, ReconcileTask(s) \/ ReconcileStalled(s)
      PROVE  StoppedPhasesAreQuiet'
  BY <1>6, QuietReconciled DEF ReconcileTask, ReconcileStalled
<1>7. CASE phaseRun' = phaseRun /\ running' = running
  BY <1>0, <1>7, QuietKept
<1>. QED
  BY <1>1, <1>2, <1>3, <1>4, <1>5, <1>6, <1>7
  DEF Next, Execute, Sweep, Claim, Boundary, QueueCancel, MarkRunning, Enter, CheckGuard,
      Decide, RowStep, Persist, PersistLinkCheck, PersistFailure, Discard, QueueSucceed,
      QueueFail, QueueRetry, RecordCrash, Report, UserRequest, CancelCrawl, OpenRequest,
      CommitRequest, AbandonRequest, Raise, Die, plan, phases

\* Stopping a phase, or its end, leaves no work of that phase behind: a live task that
\* does the work of a phase run does that of the one that is running.
THEOREM StoppedPhasesAreQuietHolds == Spec => []StoppedPhasesAreQuiet
<1>1. Init => DiscoversForDiscovery /\ StoppedPhasesAreQuiet
  <2>. SUFFICES ASSUME Init PROVE DiscoversForDiscovery /\ StoppedPhasesAreQuiet
    OBVIOUS
  <2>1. \A t \in Task : \/ phaseRun[t] = NoRun
                       \/ phaseRun[t] = RunOf("discovery", running["discovery"])
    BY DEF Init
  <2>2. \A t \in Task : phaseRun[t].phase = "discovery"
    BY <2>1 DEF NoRun, RunOf
  <2>3. \A t \in LiveTasks : t \in Task
    BY BaseInvInit DEF BaseInv, TypeOK, LiveTasks
  <2>4. ASSUME NEW t \in LiveTasks, phaseRun[t].ordinal # 0
        PROVE  phaseRun[t] = RunningRun(phaseRun[t].phase)
    <3>1. phaseRun[t] = RunOf("discovery", running["discovery"])
      BY <2>1, <2>3, <2>4, RunFields
    <3>. QED BY <2>2, <2>3, <3>1 DEF RunningRun
  <2>. QED BY <2>2, <2>4 DEF DiscoversForDiscovery, StoppedPhasesAreQuiet
<1>2. PhaseInv /\ [Next]_vars => DiscoversForDiscovery' /\ StoppedPhasesAreQuiet'
  <2>1. PhaseInv /\ UNCHANGED vars => DiscoversForDiscovery' /\ StoppedPhasesAreQuiet'
    BY DEF vars, phases, plan, PhaseInv, DiscoversForDiscovery, StoppedPhasesAreQuiet,
           LiveTasks, IsOfPhase, RunningRun
  <2>2. PhaseInv /\ Next => DiscoversForDiscovery'
    BY DiscoversStep DEF PhaseInv
  <2>. QED BY <2>1, <2>2, StoppedPhasesStep
<1>3. BaseInv /\ DiscoversForDiscovery /\ StoppedPhasesAreQuiet => PhaseInv
  BY DEF PhaseInv
<1>. QED BY <1>1, <1>2, <1>3, BaseInvHolds, PTL DEF Spec

-----------------------------------------------------------------------------
\* Results and reports

\* A row is closed as succeeded by the slot that was about to report it, as
\* cancelled by the slot that was told to, or by a request.
Outcomes ==
  \A t \in Task :
    /\ row'[t].status = "succeeded" =>
         \/ row[t].status = "succeeded"
         \/ \E s \in Slots : pc[s] = "to_succeed" /\ work[s] = t
    /\ row'[t].status = "cancelled" =>
         \/ row[t].status = "cancelled"
         \/ \E s \in Slots : pc[s] = "to_cancel" /\ work[s] = t
         \/ CancelCrawl
         \/ \E phase \in Phases : StopPhase(phase)
         \/ CommitRequest /\ request.op = "remove" /\ request.page = t.page

LEMMA SetRowOutcomes ==
  ASSUME BaseInv, NEW t \in tasks, NEW q, SetRow(t, q),
         q.status \notin {"succeeded", "cancelled"} \/ q.status = row[t].status
  PROVE  Outcomes
  BY DEF BaseInv, TypeOK, SetRow, Outcomes

LEMMA StepOutcomes ==
  ASSUME BaseInv, Next
  PROVE  Outcomes
<1>0. /\ TypeOK /\ row \in [Task -> Row] /\ tasks \subseteq Task
      /\ OwnerOf \in [Slots -> Owners]
  BY SlotAssumption DEF BaseInv, TypeOK
<1>1. ASSUME NEW s \in Slots, Sweep(s)
      PROVE  Outcomes
  <2>1. PICK t \in tasks : SetRow(t, Reclaim(row[t]))
    BY <1>1 DEF Sweep
  <2>2. Reclaim(row[t]).status \notin {"succeeded", "cancelled"}
    BY <1>0, ReclaimRow
  <2>. QED BY <2>1, <2>2, SetRowOutcomes
<1>2. ASSUME NEW s \in Slots, Claim(s)
      PROVE  Outcomes
  <2>1. PICK t \in tasks : SetRow(t, Lease(row[t], OwnerOf[s]))
    BY <1>2 DEF Claim
  <2>2. Lease(row[t], OwnerOf[s]).status \notin {"succeeded", "cancelled"}
    BY <1>0, LeaseRow
  <2>. QED BY <2>1, <2>2, SetRowOutcomes
<1>3. ASSUME NEW s \in Slots, pc[s] \in Busy,
             \E q : /\ SetRow(work[s], q)
                    /\ \/ q.status \notin {"succeeded", "cancelled"}
                       \/ q.status = row[work[s]].status
      PROVE  Outcomes
  <2>1. work[s] \in tasks
    BY <1>0, <1>3, BusySlot
  <2>. QED BY <1>3, <2>1, SetRowOutcomes
<1>4. ASSUME NEW s \in Slots, MarkRunning(s) \/ Enter(s) \/ CheckGuard(s) \/ Discard(s)
      PROVE  Outcomes
  <2>1. pc[s] \in Busy
    BY <1>4, Stages DEF MarkRunning, Enter, CheckGuard, Discard, Trying
  <2>2. Begin(row[work[s]]).status \notin {"succeeded", "cancelled"}
    BY <1>0, <2>1, BusySlot, BeginRow
  <2>3. \/ SetRow(work[s], row[work[s]])
        \/ SetRow(work[s], Begin(row[work[s]]))
    BY <1>4 DEF MarkRunning, Enter, CheckGuard, Discard, Decide, RowStep
  <2>. QED BY <1>3, <2>1, <2>2, <2>3
<1>5. ASSUME NEW s \in Slots,
             PersistDiscovery(s) \/ PersistAnalysis(s) \/ PersistFailure(s)
      PROVE  Outcomes
  <2>1. pc[s] \in Busy /\ SetRow(work[s], Attempted(work[s]))
    BY <1>5, Stages DEF PersistDiscovery, PersistAnalysis, PersistFailure, Trying
  <2>2. row[work[s]] \in Row /\ row[work[s]].attempts + 1 \in Nat
    BY <1>0, <2>1, BusySlot DEF Row
  <2>3. Attempted(work[s]).status = row[work[s]].status
    BY <2>2, AttemptRow DEF Attempted
  <2>. QED BY <1>3, <2>1, <2>3
<1>6. ASSUME NEW s \in Slots, QueueFail(s) \/ QueueRetry(s) \/ RecordCrash(s)
      PROVE  Outcomes
  <2>1. pc[s] \in Busy
    BY <1>6, Stages DEF QueueFail, QueueRetry, RecordCrash, Report, Trying
  <2>2. row[work[s]] \in Row
    BY <1>0, <2>1, BusySlot
  <2>3. /\ Finalize(row[work[s]], "failed").status \notin {"succeeded", "cancelled"}
        /\ Postpone(row[work[s]], "retry_wait", TRUE).status
             \notin {"succeeded", "cancelled"}
    BY <2>2, FinalizeRow, PostponeRow DEF Terminal, Claimable
  <2>4. \/ SetRow(work[s], row[work[s]])
        \/ SetRow(work[s], Finalize(row[work[s]], "failed"))
        \/ SetRow(work[s], Postpone(row[work[s]], "retry_wait", TRUE))
    BY <1>6 DEF QueueFail, QueueRetry, RecordCrash, Report, RowStep
  <2>. QED BY <1>3, <2>1, <2>3, <2>4
<1>7. ASSUME NEW s \in Slots, QueueSucceed(s)
      PROVE  Outcomes
  <2>1. pc[s] = "to_succeed" /\ work[s] \in tasks
    BY <1>0, <1>7, BusySlot, Stages DEF QueueSucceed, Report, Trying
  <2>2. Finalize(row[work[s]], "succeeded").status = "succeeded"
    BY <1>0, <2>1, FinalizeRow DEF Terminal
  <2>3. PICK q \in {row[work[s]], Finalize(row[work[s]], "succeeded")} :
          row' = [row EXCEPT ![work[s]] = q]
    BY <1>7 DEF QueueSucceed, Report, RowStep, SetRow
  <2>4. \A t \in Task \ {work[s]} : row'[t] = row[t]
    BY <1>0, <2>3
  <2>5. row'[work[s]] = q /\ (q = row[work[s]] \/ q.status = "succeeded")
    BY <1>0, <2>1, <2>2, <2>3
  <2>. QED BY <2>1, <2>4, <2>5 DEF Outcomes
<1>8. ASSUME NEW s \in Slots, QueueCancel(s)
      PROVE  Outcomes
  <2>1. pc[s] = "to_cancel" /\ work[s] \in tasks
    BY <1>0, <1>8, BusySlot, Stages DEF QueueCancel, Trying
  <2>2. Finalize(row[work[s]], "cancelled").status = "cancelled"
    BY <1>0, <2>1, FinalizeRow DEF Terminal
  <2>3. PICK q \in {row[work[s]], Finalize(row[work[s]], "cancelled")} :
          row' = [row EXCEPT ![work[s]] = q]
    BY <1>8 DEF QueueCancel, RowStep, SetRow
  <2>4. \A t \in Task \ {work[s]} : row'[t] = row[t]
    BY <1>0, <2>3
  <2>5. row'[work[s]] = q /\ (q = row[work[s]] \/ q.status = "cancelled")
    BY <1>0, <2>1, <2>2, <2>3
  <2>. QED BY <2>1, <2>4, <2>5 DEF Outcomes
<1>9. CASE CancelCrawl
  <2>1. \A t \in Task : row'[t] = row[t] \/ row'[t].status = "cancelled"
    BY <1>0, <1>9, RowsCancelled DEF CancelCrawl
  <2>. QED BY <1>9, <2>1 DEF Outcomes
<1>10. ASSUME NEW phase \in Phases, StopPhase(phase)
       PROVE  Outcomes
  <2> DEFINE stopped == {t \in Live(PhaseKinds(phase)) :
                           running[phase] # 0 /\ phaseRun[t] = RunningRun(phase)}
  <2>1. CancelRows(stopped) /\ stopped \subseteq LiveTasks
    BY <1>10 DEF StopPhase, Live
  <2>. HIDE DEF stopped
  <2>2. \A t \in Task : row'[t] = row[t] \/ row'[t].status = "cancelled"
    BY <1>0, <2>1, RowsCancelled
  <2>. QED BY <1>10, <2>2 DEF Outcomes
<1>11. CASE CommitRequest
  <2>1. CASE row' = row
    BY <2>1 DEF Outcomes
  <2>2. CASE row' # row
    <3> DEFINE waiting == {t \in Of("analyze") :
                             t.page = request.page /\ row[t].status \in Claimable}
    <3>1. CancelRows(waiting) /\ request.op = "remove"
      BY <1>11, <2>2 DEF CommitRequest
    <3>2. waiting \subseteq LiveTasks
      BY DEF Of, LiveTasks, Claimable, Terminal
    <3>3. \A t \in Task : \/ row'[t] = row[t]
                          \/ t \in waiting /\ row'[t].status = "cancelled"
      <4>1. \A t \in Task \ waiting : row'[t] = row[t]
        BY <3>1 DEF CancelRows
      <4>. HIDE DEF waiting
      <4>2. \A t \in waiting : row'[t].status = "cancelled"
        BY <1>0, <3>1, <3>2, RowsCancelled
      <4>. QED BY <4>1, <4>2
    <3>4. \A t \in waiting : t.page = request.page
      OBVIOUS
    <3>. HIDE DEF waiting
    <3>. QED BY <1>11, <3>1, <3>3, <3>4 DEF Outcomes
  <2>. QED BY <2>1, <2>2
<1>12. CASE row' = row
  BY <1>12 DEF Outcomes
<1>. QED
  BY <1>1, <1>2, <1>4, <1>5, <1>6, <1>7, <1>8, <1>9, <1>10, <1>11, <1>12
  DEF Next, Execute, Boundary, Persist, PersistLinkCheck, ReconcileTask, UserRequest,
      OpenRequest, StartDiscovery, StartAnalysis, AbandonRequest, ReconcileStalled,
      Raise, Die

\* A slot reports a success only for a task whose result is committed, and is told
\* to cancel only by a denied guard: the crawl is over, the page was deselected, or
\* the lease is lost.
Reports ==
  \A s \in Slots :
    /\ pc'[s] = "to_succeed" =>
         /\ work'[s] = work[s]
         /\ pc[s] = "to_succeed" \/ work[s] \in evidence'
    /\ pc'[s] = "to_cancel" =>
         /\ work'[s] = work[s]
         /\ \/ pc[s] = "to_cancel"
            \/ crawl \notin CrawlActive
            \/ ~LeaseOwned(s) /\ pc[s] = "guard"
            \/ work[s].page \notin monitored

LEMMA GoToReports ==
  ASSUME BaseInv, NEW s \in Slots, NEW stage, GoTo(s, stage),
         stage # "to_succeed" \/ work[s] \in evidence',
         \/ stage # "to_cancel"
         \/ crawl \notin CrawlActive
         \/ ~LeaseOwned(s) /\ pc[s] = "guard"
         \/ work[s].page \notin monitored
  PROVE  Reports
<1>1. pc \in [Slots -> Stage] /\ pc' = [pc EXCEPT ![s] = stage]
  BY DEF BaseInv, TypeOK, GoTo
<1>2. \A u \in Slots : u # s => pc'[u] = pc[u] /\ work'[u] = work[u]
  BY <1>1 DEF GoTo, BaseInv, TypeOK
<1>3. pc'[s] = stage /\ (stage # "idle" => work'[s] = work[s])
  BY <1>1 DEF GoTo
<1>. QED BY <1>2, <1>3 DEF Reports

LEMMA StepReports ==
  ASSUME BaseInv, Next
  PROVE  Reports
<1>0. /\ pc \in [Slots -> Stage] /\ work \in [Slots -> tasks \cup {NoTask}]
      /\ evidence \subseteq evidence'
  BY StepMovesPlan DEF BaseInv, TypeOK, PlanMoves
<1>1. ASSUME NEW s \in Slots, Sweep(s) \/ Claim(s)
      PROVE  Reports
  <2>1. \/ UNCHANGED slotVars
        \/ \E t \in tasks, stage \in {"reconcile", "boundary"} :
             /\ pc' = [pc EXCEPT ![s] = stage]
             /\ work' = [work EXCEPT ![s] = t]
    BY <1>1 DEF Sweep, Claim
  <2>. QED BY <1>0, <2>1 DEF Reports, slotVars
<1>2. ASSUME NEW s \in Slots,
             \E stage \in Stage \ {"to_succeed", "to_cancel"} : GoTo(s, stage)
      PROVE  Reports
  BY <1>2, GoToReports
<1>3. ASSUME NEW s \in Slots, Boundary(s)
      PROVE  Reports
  <2>1. CASE crawl \in CrawlActive
    BY <1>2, <1>3, <2>1 DEF Boundary, Stage, Trying
  <2>2. CASE crawl \notin CrawlActive
    BY <1>3, <2>2, GoToReports DEF Boundary
  <2>. QED BY <2>1, <2>2
<1>4. ASSUME NEW s \in Slots, QueueCancel(s) \/ MarkRunning(s)
      PROVE  Reports
  BY <1>2, <1>4 DEF QueueCancel, MarkRunning, Decide, RowStep, Stage, Trying
<1>5. ASSUME NEW s \in Slots, Enter(s)
      PROVE  Reports
  <2>1. CASE work[s] \in evidence
    BY <1>0, <1>5, <2>1, GoToReports DEF Enter, Decide, RowStep
  <2>2. CASE work[s] \notin evidence
    BY <1>2, <1>5, <2>2 DEF Enter, Decide, RowStep, Stage, Trying
  <2>. QED BY <2>1, <2>2
<1>6. ASSUME NEW s \in Slots, CheckGuard(s)
      PROVE  Reports
  <2>1. CASE GuardOk(s)
    BY <1>2, <1>6, <2>1 DEF CheckGuard, Decide, RowStep, Stage, Trying
  <2>2. CASE ~GuardOk(s)
    <3>1. \/ crawl \notin CrawlActive
          \/ ~LeaseOwned(s) /\ pc[s] = "guard"
          \/ work[s].page \notin monitored
      BY <1>6, <2>2 DEF CheckGuard, GuardOk
    <3>2. GoTo(s, "to_cancel")
      BY <1>6, <2>2 DEF CheckGuard, Decide, RowStep
    <3>. QED BY <3>1, <3>2, GoToReports
  <2>. QED BY <2>1, <2>2
<1>7. ASSUME NEW s \in Slots,
             PersistDiscovery(s) \/ PersistAnalysis(s) \/ PersistLinkCheck(s)
      PROVE  Reports
  <2>1. GoTo(s, "to_succeed") /\ work[s] \in evidence'
    BY <1>7 DEF PersistDiscovery, PersistAnalysis, PersistLinkCheck
  <2>. QED BY <2>1, GoToReports
<1>8. ASSUME NEW s \in Slots, PersistFailure(s)
      PROVE  Reports
  BY <1>2, <1>8 DEF PersistFailure, Stage, Trying
<1>9. ASSUME NEW s \in Slots, Discard(s)
      PROVE  Reports
  <2>1. CASE work[s].kind = "analyze" /\ LeaseOwned(s)
    <3>1. crawl \notin CrawlActive \/ work[s].page \notin monitored
      BY <1>9, <2>1 DEF Discard, MayPersist, GuardOk
    <3>2. GoTo(s, "to_cancel")
      BY <1>9, <2>1 DEF Discard, Decide, RowStep
    <3>. QED BY <3>1, <3>2, GoToReports
  <2>2. CASE ~(work[s].kind = "analyze" /\ LeaseOwned(s))
    BY <1>2, <1>9, <2>2 DEF Discard, Decide, RowStep, Stage
  <2>. QED BY <2>1, <2>2
<1>10. ASSUME NEW s \in Slots,
              \/ QueueSucceed(s) \/ QueueFail(s) \/ QueueRetry(s) \/ RecordCrash(s)
              \/ ReconcileTask(s) \/ Raise(s)
       PROVE  Reports
  <2>1. \E stage \in {"reconcile", "idle", "crashed"} : GoTo(s, stage)
    BY <1>10
    DEF QueueSucceed, QueueFail, QueueRetry, RecordCrash, Report, RowStep, ReconcileTask,
        Raise
  <2>. QED BY <1>2, <2>1 DEF Stage
<1>11. ASSUME NEW o \in Owners, Die(o)
       PROVE  Reports
  BY <1>0, <1>11 DEF Die, Reports
<1>12. CASE UNCHANGED slotVars
  BY <1>12 DEF Reports, slotVars
<1>. QED
  BY <1>1, <1>3, <1>4, <1>5, <1>6, <1>7, <1>8, <1>9, <1>10, <1>11, <1>12
  DEF Next, Execute, Persist, UserRequest, CancelCrawl, OpenRequest, CommitRequest,
      AbandonRequest, StartDiscovery, StartAnalysis, StopPhase, ReconcileStalled

\* What succeeded, and what a slot is about to report as succeeded, has its result.
Acknowledged ==
  /\ \A t \in tasks : row[t].status = "succeeded" => t \in evidence
  /\ \A s \in Slots : pc[s] = "to_succeed" => work[s] \in evidence

AckInv == BaseInv /\ Acknowledged

LEMMA AcknowledgedStep ==
  ASSUME AckInv, Next
  PROVE  Acknowledged'
<1>0. BaseInv /\ Outcomes /\ Reports /\ evidence \subseteq evidence'
  BY StepOutcomes, StepReports, StepMovesPlan DEF AckInv, PlanMoves
<1>1. ASSUME NEW t \in tasks', row'[t].status = "succeeded"
      PROVE  t \in evidence'
  <2>1. t \in Task
    BY StepMovesPlan, <1>0 DEF PlanMoves
  <2>2. CASE row[t].status = "succeeded"
    <3>1. NewRow.status # "succeeded"
      BY DEF NewRow
    <3>2. t \in tasks
      BY <1>0, <2>1, <2>2, <3>1 DEF BaseInv, Unplanned
    <3>. QED BY <1>0, <2>2, <3>2 DEF AckInv, Acknowledged
  <2>3. CASE \E s \in Slots : pc[s] = "to_succeed" /\ work[s] = t
    BY <1>0, <2>3 DEF AckInv, Acknowledged
  <2>. QED BY <1>0, <1>1, <2>1, <2>2, <2>3 DEF Outcomes
<1>2. ASSUME NEW s \in Slots, pc'[s] = "to_succeed"
      PROVE  work'[s] \in evidence'
  BY <1>0, <1>2 DEF Reports, AckInv, Acknowledged
<1>. QED BY <1>1, <1>2 DEF Acknowledged

LEMMA AckInvHolds == Spec => []AckInv
<1>1. Init => Acknowledged
  <2>1. NewRow.status # "succeeded"
    BY DEF NewRow
  <2>2. Init => \A t \in tasks : t \in Task
    BY BaseInvInit DEF BaseInv, TypeOK
  <2>. QED BY <2>1, <2>2 DEF Init, Acknowledged
<1>2. AckInv /\ [Next]_vars => Acknowledged'
  <2>1. AckInv /\ UNCHANGED vars => Acknowledged'
    BY DEF vars, plan, slotVars, AckInv, Acknowledged
  <2>. QED BY <2>1, AcknowledgedStep
<1>3. BaseInv /\ Acknowledged => AckInv
  BY DEF AckInv
<1>4. AckInv => Acknowledged
  BY DEF AckInv
<1>. QED BY <1>1, <1>2, <1>3, <1>4, BaseInvHolds, PTL DEF Spec

-----------------------------------------------------------------------------
\* An undisturbed ordinary crawl: it is not over, and nobody alive lost a lease.
Undisturbed == crawl \in CrawlActive /\ ~advanced /\ ~stalled

Executing(s) == pc[s] \in Trying \cup {"crashed"}

\* Whoever executes a task has its lease and is alone with it.
Alone ==
  \A s \in Slots : Executing(s) =>
    /\ LeaseOwned(s)
    /\ \A u \in Slots \ {s} : Executing(u) => work[u] # work[s]

\* The analyses of a page are numbered without a gap.
Numbered ==
  \A p \in Pages : \E n \in 0 .. (MaxGeneration + 1) : \A g \in 0 .. MaxGeneration :
    TheTask("analyze", p, g) \in tasks <=> g < n

\* A task that has its result or failed, or that nobody is about to cancel.
Promising(t) ==
  \/ t \in evidence
  \/ row[t].status = "failed"
  \/ /\ row[t].status \notin Terminal
     /\ \A s \in Slots : ~(pc[s] = "to_cancel" /\ work[s] = t)

\* A selected page with analyses has one that is not given up, unless discovery put the
\* page back into the selection.
Promised ==
  \A t \in Of("analyze") : t.page \in monitored \ revived =>
    \E u \in Of("analyze") : u.page = t.page /\ Promising(u)

EndInv == Undisturbed => Alone /\ Numbered /\ Promised

LEMMA UndisturbedBefore ==
  ASSUME BaseInv, Next, Undisturbed'
  PROVE  Undisturbed
<1>1. advanced' = advanced /\ (stalled => stalled')
  BY StepKeepsFaultTypes
<1>2. crawl \in CrawlActive
  <2>1. crawl \in CrawlTerminal => crawl' = crawl
    BY EndIsFinal DEF statuses
  <2>. QED BY <2>1 DEF Undisturbed, BaseInv, TypeOK, CrawlActive, CrawlTerminal
<1>. QED BY <1>1, <1>2 DEF Undisturbed

\* A step of a slot that works on a task: the rows of other tasks and the other slots
\* stay as they are, and the slot keeps the lease while it goes on.
OwnStep(s) ==
  /\ \A u \in Slots \ {s} : pc'[u] = pc[u] /\ work'[u] = work[u]
  /\ \A t \in Task \ {work[s]} : row'[t] = row[t]
  /\ ~Executing(s) => row' = row
  /\ pc'[s] \in Trying \cup {"crashed"} =>
       /\ Executing(s) /\ work'[s] = work[s]
       /\ row'[work[s]].owner = row[work[s]].owner
       /\ row[work[s]].status \in LeaseHeld => row'[work[s]].status \in LeaseHeld

LEMMA OwnSteps ==
  ASSUME BaseInv, NEW s \in Slots, Executing(s),
         \E stage, q :
           /\ GoTo(s, stage) /\ SetRow(work[s], q)
           /\ \/ stage \notin Trying \cup {"crashed"}
              \/ /\ stage # "idle" /\ q.owner = row[work[s]].owner
                 /\ row[work[s]].status \in LeaseHeld => q.status \in LeaseHeld
  PROVE  OwnStep(s)
<1>0. /\ pc \in [Slots -> Stage] /\ row \in [Task -> Row]
      /\ work \in [Slots -> tasks \cup {NoTask}] /\ work[s] \in Task
  BY BusySlot, Stages DEF Executing, BaseInv, TypeOK
<1>1. PICK stage, q :
        /\ GoTo(s, stage) /\ SetRow(work[s], q)
        /\ \/ stage \notin Trying \cup {"crashed"}
           \/ /\ stage # "idle" /\ q.owner = row[work[s]].owner
              /\ row[work[s]].status \in LeaseHeld => q.status \in LeaseHeld
  OBVIOUS
<1>2. pc' = [pc EXCEPT ![s] = stage] /\ row' = [row EXCEPT ![work[s]] = q]
  BY <1>1 DEF GoTo, SetRow
<1>3. \A u \in Slots \ {s} : pc'[u] = pc[u] /\ work'[u] = work[u]
  BY <1>0, <1>1, <1>2 DEF GoTo
<1>4. pc'[s] = stage /\ row'[work[s]] = q /\ (stage # "idle" => work'[s] = work[s])
  BY <1>0, <1>1, <1>2 DEF GoTo
<1>5. \A t \in Task \ {work[s]} : row'[t] = row[t]
  BY <1>0, <1>2
<1>. QED BY <1>1, <1>3, <1>4, <1>5 DEF OwnStep

LEMMA StepIsOwn ==
  ASSUME BaseInv, NEW s \in Slots, Execute(s) \/ Raise(s)
  PROVE  OwnStep(s)
<1>0. /\ pc \in [Slots -> Stage] /\ row \in [Task -> Row]
      /\ work \in [Slots -> tasks \cup {NoTask}] /\ tasks \subseteq Task
  BY DEF BaseInv, TypeOK
<1>1. ASSUME NEW stage, GoTo(s, stage), row' = row,
             \/ stage \notin Trying \cup {"crashed"}
             \/ Executing(s) /\ stage # "idle"
      PROVE  OwnStep(s)
  <2>1. pc' = [pc EXCEPT ![s] = stage]
    BY <1>1 DEF GoTo
  <2>2. \A u \in Slots \ {s} : pc'[u] = pc[u] /\ work'[u] = work[u]
    BY <1>0, <1>1, <2>1 DEF GoTo
  <2>3. pc'[s] = stage /\ (stage # "idle" => work'[s] = work[s])
    BY <1>0, <1>1, <2>1 DEF GoTo
  <2>. QED BY <1>1, <2>2, <2>3 DEF OwnStep
<1>2. CASE Boundary(s)
  <2>1. row' = row /\ Executing(s)
    BY <1>2 DEF Boundary, Executing, Trying
  <2>2. GoTo(s, "begin") \/ GoTo(s, "to_cancel")
    BY <1>2 DEF Boundary
  <2>. QED BY <1>1, <2>1, <2>2
<1>3. CASE QueueCancel(s)
  <2>1. Executing(s)
    BY <1>3 DEF QueueCancel, Executing, Trying
  <2>2. \E q : GoTo(s, "reconcile") /\ SetRow(work[s], q)
    BY <1>3 DEF QueueCancel, RowStep
  <2>. QED BY <2>1, <2>2, OwnSteps DEF Trying
<1>4. CASE MarkRunning(s)
  <2>1. Executing(s)
    BY <1>4 DEF MarkRunning, Executing, Trying
  <2>2. row[work[s]] \in Row
    BY <1>0, <2>1, BusySlot, Stages DEF Executing, BaseInv
  <2>3. \/ GoTo(s, "reconcile") /\ SetRow(work[s], row[work[s]])
        \/ GoTo(s, "enter") /\ SetRow(work[s], Begin(row[work[s]]))
    BY <1>4 DEF MarkRunning, Decide, RowStep
  <2>4. /\ Begin(row[work[s]]).owner = row[work[s]].owner
        /\ Begin(row[work[s]]).status \in LeaseHeld
    BY <2>2, BeginRow DEF LeaseHeld
  <2>5. "reconcile" \notin Trying \cup {"crashed"}
    BY DEF Trying
  <2>. QED BY <2>1, <2>3, <2>4, <2>5, OwnSteps
<1>5. CASE Enter(s) \/ CheckGuard(s) \/ Discard(s)
  <2>1. Executing(s)
    BY <1>5 DEF Enter, CheckGuard, Discard, Executing, Trying
  <2>2. \E stage \in {"to_succeed", "guard", "fetched", "to_cancel", "reconcile"} :
          GoTo(s, stage)
    BY <1>5 DEF Enter, CheckGuard, Discard, Decide, RowStep
  <2>3. SetRow(work[s], row[work[s]])
    BY <1>5 DEF Enter, CheckGuard, Discard, Decide, RowStep
  <2>. QED BY <2>1, <2>2, <2>3, OwnSteps
<1>6. CASE PersistDiscovery(s) \/ PersistAnalysis(s) \/ PersistFailure(s)
  <2>1. Executing(s)
    BY <1>6 DEF PersistDiscovery, PersistAnalysis, PersistFailure, Executing, Trying
  <2>2. row[work[s]] \in Row /\ row[work[s]].attempts + 1 \in Nat
    BY <1>0, <2>1, BusySlot, Stages DEF Executing, BaseInv, Row
  <2>3. /\ Attempted(work[s]).owner = row[work[s]].owner
        /\ Attempted(work[s]).status = row[work[s]].status
    BY <2>2, AttemptRow DEF Attempted
  <2>4. \E stage \in {"to_succeed", "to_retry", "to_fail"} : GoTo(s, stage)
    BY <1>6 DEF PersistDiscovery, PersistAnalysis, PersistFailure
  <2>5. SetRow(work[s], Attempted(work[s]))
    BY <1>6 DEF PersistDiscovery, PersistAnalysis, PersistFailure
  <2>. QED BY <2>1, <2>3, <2>4, <2>5, OwnSteps
<1>7. CASE PersistLinkCheck(s)
  <2>1. Executing(s) /\ row' = row /\ GoTo(s, "to_succeed")
    BY <1>7 DEF PersistLinkCheck, Executing, Trying
  <2>. QED BY <1>1, <2>1
<1>8. CASE QueueSucceed(s) \/ QueueFail(s) \/ QueueRetry(s) \/ RecordCrash(s)
  <2>1. Executing(s)
    BY <1>8
    DEF QueueSucceed, QueueFail, QueueRetry, RecordCrash, Report, Executing, Trying
  <2>2. \E q : GoTo(s, "reconcile") /\ SetRow(work[s], q)
    BY <1>8 DEF QueueSucceed, QueueFail, QueueRetry, RecordCrash, Report, RowStep
  <2>. QED BY <2>1, <2>2, OwnSteps DEF Trying
<1>9. CASE ReconcileTask(s)
  <2>1. row' = row /\ GoTo(s, "idle") /\ "idle" \notin Trying \cup {"crashed"}
    BY <1>9 DEF ReconcileTask, Trying
  <2>. QED BY <1>1, <2>1
<1>10. CASE Raise(s)
  <2>1. row' = row
    BY <1>10 DEF Raise
  <2>2. \/ Executing(s) /\ GoTo(s, "crashed")
        \/ GoTo(s, "reconcile") \/ GoTo(s, "idle")
    BY <1>10 DEF Raise, Executing
  <2>3. {"reconcile", "idle"} \cap (Trying \cup {"crashed"}) = {}
    BY DEF Trying
  <2>. QED BY <1>1, <2>1, <2>2, <2>3
<1>. QED
  BY <1>2, <1>3, <1>4, <1>5, <1>6, <1>7, <1>8, <1>9, <1>10 DEF Execute, Persist

LEMMA AloneStep ==
  ASSUME BaseInv, Next, Undisturbed, Undisturbed', Alone
  PROVE  Alone'
<1>0. /\ pc \in [Slots -> Stage] /\ row \in [Task -> Row]
      /\ work \in [Slots -> tasks \cup {NoTask}] /\ tasks \subseteq Task
      /\ OwnerOf \in [Slots -> Owners]
  BY SlotAssumption DEF BaseInv, TypeOK
<1>1. \A s \in Slots : Executing(s) => /\ work[s] \in Task
                                       /\ row[work[s]].owner = OwnerOf[s]
                                       /\ row[work[s]].status \in LeaseHeld
  BY BusySlot, Stages DEF Executing, Alone, LeaseOwned, Holds, OwnedBy, BaseInv
<1>a. \A s, u \in Slots : s # u /\ Executing(s) /\ Executing(u) => work[u] # work[s]
  BY DEF Alone
<1> DEFINE Kept(s) == pc'[s] = pc[s] /\ work'[s] = work[s]
           Exec(s) == pc'[s] \in Trying \cup {"crashed"}
<1>b. ASSUME \A s \in Slots : Exec(s) =>
               /\ row'[work'[s]].owner = OwnerOf[s]
               /\ row'[work'[s]].status \in LeaseHeld
               /\ \A u \in Slots \ {s} : Exec(u) => work'[u] # work'[s]
      PROVE  Alone'
  BY <1>b DEF Alone, Executing, LeaseOwned, Holds, OwnedBy
<1>2. ASSUME NEW s \in Slots, Execute(s) \/ Raise(s)
      PROVE  Alone'
  <2>1. OwnStep(s)
    BY <1>2, StepIsOwn
  <2>2. \A u \in Slots \ {s} : Kept(u)
    BY <2>1 DEF OwnStep
  <2>3. \A u \in Slots \ {s} : Executing(u) => row'[work[u]] = row[work[u]]
    <3>1. CASE Executing(s)
      BY <1>1, <1>a, <2>1, <3>1 DEF OwnStep
    <3>2. CASE ~Executing(s)
      BY <2>1, <3>2 DEF OwnStep
    <3>. QED BY <3>1, <3>2
  <2>4. ASSUME NEW u \in Slots, Exec(u)
        PROVE  /\ row'[work'[u]].owner = OwnerOf[u]
               /\ row'[work'[u]].status \in LeaseHeld
               /\ Executing(u) /\ work'[u] = work[u]
    <3>1. CASE u = s
      BY <1>1, <2>1, <2>4, <3>1 DEF OwnStep
    <3>2. CASE u # s
      <4>1. Executing(u) /\ work'[u] = work[u]
        BY <2>2, <2>4, <3>2 DEF Executing
      <4>. QED BY <1>1, <2>3, <3>2, <4>1
    <3>. QED BY <3>1, <3>2
  <2>5. \A u, v \in Slots : u # v /\ Exec(u) /\ Exec(v) => work'[u] # work'[v]
    BY <1>a, <2>4
  <2>. HIDE DEF Exec
  <2>. QED BY <1>b, <2>4, <2>5
<1>c. ASSUME \A s \in Slots : Exec(s) => Kept(s),
             \A s \in Slots : Executing(s) => row'[work[s]] = row[work[s]]
      PROVE  Alone'
  <2>1. ASSUME NEW s \in Slots, Exec(s)
        PROVE  /\ row'[work'[s]].owner = OwnerOf[s]
               /\ row'[work'[s]].status \in LeaseHeld
               /\ Executing(s) /\ work'[s] = work[s]
    <3>1. Executing(s) /\ work'[s] = work[s]
      BY <1>c, <2>1 DEF Executing
    <3>. QED BY <1>1, <1>c, <3>1
  <2>2. \A u, v \in Slots : u # v /\ Exec(u) /\ Exec(v) => work'[u] # work'[v]
    BY <1>a, <2>1
  <2>. HIDE DEF Exec
  <2>. QED BY <1>b, <2>1, <2>2
<1>3. ASSUME NEW s \in Slots, Sweep(s)
      PROVE  Alone'
  <2>1. PICK t \in tasks :
          /\ Unattended(t) \/ stalled' = TRUE
          /\ SetRow(t, Reclaim(row[t]))
          /\ \/ UNCHANGED slotVars
             \/ /\ pc' = [pc EXCEPT ![s] = "reconcile"]
                /\ work' = [work EXCEPT ![s] = t]
    BY <1>3 DEF Sweep
  <2>2. Unattended(t)
    BY <2>1 DEF Undisturbed
  <2>3. \A u \in Slots : Executing(u) => work[u] # t
    BY <1>1, <2>2 DEF Unattended, Executing, Holds, OwnedBy
  <2>4. \A u \in Slots : Executing(u) => row'[work[u]] = row[work[u]]
    BY <1>0, <1>1, <2>1, <2>3 DEF SetRow
  <2>5. \A u \in Slots : Exec(u) => Kept(u)
    <3>1. "reconcile" \notin Trying \cup {"crashed"}
      BY DEF Trying
    <3>. QED BY <1>0, <2>1, <3>1 DEF slotVars
  <2>. QED BY <1>c, <2>4, <2>5
<1>4. ASSUME NEW s \in Slots, Claim(s)
      PROVE  Alone'
  <2>1. PICK t \in tasks : /\ Eligible(row[t])
                           /\ SetRow(t, Lease(row[t], OwnerOf[s]))
                           /\ work' = [work EXCEPT ![s] = t]
    BY <1>4 DEF Claim
  <2>2. pc[s] = "idle" /\ pc' = [pc EXCEPT ![s] = "boundary"]
    BY <1>4 DEF Claim
  <2>3. \A u \in Slots : Executing(u) => work[u] # t
    BY <1>1, <2>1 DEF Eligible, Claimable, LeaseHeld
  <2>4. row'[t].owner = OwnerOf[s] /\ row'[t].status \in LeaseHeld
    <3>1. t \in Task /\ row'[t] = Lease(row[t], OwnerOf[s])
      BY <1>0, <2>1 DEF SetRow
    <3>. QED BY <1>0, <3>1, LeaseRow DEF LeaseHeld
  <2>5. \A u \in Slots : Executing(u) => row'[work[u]] = row[work[u]]
    BY <1>0, <1>1, <2>1, <2>3 DEF SetRow
  <2>6. work'[s] = t /\ \A u \in Slots \ {s} : Kept(u)
    BY <1>0, <2>1, <2>2
  <2>7. \A u \in Slots \ {s} : Exec(u) => Executing(u)
    BY <2>6 DEF Executing
  <2>. HIDE DEF Exec
  <2>8. ASSUME NEW u \in Slots, Exec(u)
        PROVE  /\ row'[work'[u]].owner = OwnerOf[u]
               /\ row'[work'[u]].status \in LeaseHeld
    <3>1. CASE u = s
      BY <2>4, <2>6, <3>1
    <3>2. CASE u # s
      BY <1>1, <2>5, <2>6, <2>7, <2>8, <3>2
    <3>. QED BY <3>1, <3>2
  <2>9. \A u, v \in Slots : u # v /\ Exec(u) /\ Exec(v) => work'[u] # work'[v]
    BY <1>a, <2>3, <2>6, <2>7
  <2>. QED BY <1>b, <2>8, <2>9
<1>5. CASE CommitRequest
  <2>1. \A u \in Slots : Exec(u) => Kept(u)
    BY <1>5 DEF CommitRequest, slotVars
  <2>2. \/ row' = row
        \/ CancelRows({t \in Of("analyze") :
                         t.page = request.page /\ row[t].status \in Claimable})
    BY <1>5 DEF CommitRequest
  <2>3. \A t \in Task : row[t].status \in LeaseHeld => row'[t] = row[t]
    BY <2>2 DEF CancelRows, Claimable, LeaseHeld
  <2>. QED BY <1>1, <1>c, <2>1, <2>3
<1>6. ASSUME NEW o \in Owners, Die(o)
      PROVE  Alone'
  <2>1. /\ row' = row
        /\ pc' = [s \in Slots |-> IF OwnerOf[s] = o THEN "dead" ELSE pc[s]]
        /\ work' = [s \in Slots |-> IF OwnerOf[s] = o THEN NoTask ELSE work[s]]
    BY <1>6 DEF Die
  <2>2. "dead" \notin Trying \cup {"crashed"}
    BY DEF Trying
  <2>3. \A u \in Slots : Exec(u) => Kept(u)
    BY <2>1, <2>2
  <2>. QED BY <1>c, <2>1, <2>3
<1>7. ~CancelCrawl /\ ~StartDiscovery /\ ~StartAnalysis /\ \A p \in Phases : ~StopPhase(p)
  BY DEF Undisturbed, CancelCrawl, StartDiscovery, StartAnalysis, StopPhase, CrawlActive
<1>8. CASE row' = row /\ UNCHANGED slotVars
  BY <1>c, <1>8 DEF slotVars
<1>. QED
  BY <1>2, <1>3, <1>4, <1>5, <1>6, <1>7, <1>8
  DEF Next, UserRequest, OpenRequest, AbandonRequest, ReconcileStalled

-----------------------------------------------------------------------------
\* What an undisturbed step plans and selects: a discovery plans the first analyses of
\* the pages it samples and selects those, a request that adds a page or asks for
\* another analysis of it plans the next, and nothing else does either.
LEMMA GenerationIsNext ==
  ASSUME BaseInv, NEW p \in Pages, NEW n \in 0 .. (MaxGeneration + 1),
         \A g \in 0 .. MaxGeneration : TheTask("analyze", p, g) \in tasks <=> g < n
  PROVE  NextGeneration("analyze", p) = n
<1> DEFINE S == {t \in Of("analyze") : t.page = p}
           G == 0 .. (n - 1)
           f == [g \in G |-> TheTask("analyze", p, g)]
<1>0. n \in Nat /\ MaxGeneration \in Nat /\ G \subseteq 0 .. MaxGeneration
  BY BoundAssumption
<1>1. f \in [G -> S]
  <2>. SUFFICES ASSUME NEW g \in G PROVE TheTask("analyze", p, g) \in S
    OBVIOUS
  <2>1. TheTask("analyze", p, g) \in tasks
    BY <1>0
  <2>. QED BY <2>1 DEF Of, TheTask
<1>2. \A t \in S : \E g \in G : f[g] = t
  <2>. SUFFICES ASSUME NEW t \in S PROVE \E g \in G : f[g] = t
    OBVIOUS
  <2>1. t \in tasks /\ t \in Task /\ t.kind = "analyze" /\ t.page = p
    BY DEF Of, BaseInv, TypeOK
  <2>2. t.gen \in 0 .. MaxGeneration /\ t = TheTask("analyze", p, t.gen)
    BY <2>1 DEF Task, TheTask
  <2>3. t.gen < n
    BY <2>1, <2>2
  <2>4. t.gen \in G
    BY <1>0, <2>2, <2>3
  <2>. QED BY <2>2, <2>4
<1>3. \A g, h \in G : f[g] = f[h] => g = h
  BY DEF TheTask
<1>. HIDE DEF f, S, G
<1>4. f \in Bijection(G, S)
  BY <1>1, <1>2, <1>3 DEF Bijection, Injection, Surjection, IsInjective
<1>5. IsFiniteSet(G) /\ Cardinality(G) = n
  BY <1>0, FS_Interval DEF G
<1>6. ExistsBijection(G, S)
  BY <1>4 DEF ExistsBijection
<1>7. Cardinality(S) = n
  BY <1>5, <1>6, FS_Bijection
<1>. QED BY <1>7 DEF NextGeneration, S

LEMMA PlannedOnRequest ==
  ASSUME BaseInv, Next, Undisturbed, Undisturbed', ~CommitRequest,
         \A s \in Slots : ~PersistDiscovery(s)
  PROVE  /\ \A t \in tasks' \ tasks : t.kind # "analyze"
         /\ monitored' = monitored /\ revived' = revived
<1>1. ASSUME NEW s \in Slots, PersistAnalysis(s)
      PROVE  \A t \in tasks' \ tasks : t.kind # "analyze"
  <2> DEFINE check == [work[s] EXCEPT !.kind = "link"]
  <2>1. work[s] \in Task
    BY <1>1, BusySlot, Stages DEF PersistAnalysis, Trying, BaseInv
  <2>2. check.kind = "link"
    BY <2>1 DEF Task
  <2>3. tasks' = tasks \cup {check}
    BY <1>1 DEF PersistAnalysis
  <2>. HIDE DEF check
  <2>. QED BY <2>2, <2>3
<1>2. ~CancelCrawl /\ ~StartDiscovery /\ ~StartAnalysis /\ \A p \in Phases : ~StopPhase(p)
  BY DEF Undisturbed, CancelCrawl, StartDiscovery, StartAnalysis, StopPhase, CrawlActive
<1>3. \/ tasks' = tasks
      \/ \E s \in Slots : PersistAnalysis(s)
  BY <1>2
  DEF Next, Execute, Sweep, ReconcileStalled, Claim, Boundary, QueueCancel, MarkRunning,
      Enter, CheckGuard, Decide, RowStep, Persist, PersistLinkCheck, PersistFailure,
      Discard, QueueSucceed, QueueFail, QueueRetry, RecordCrash, Report, ReconcileTask,
      UserRequest, OpenRequest, AbandonRequest, Raise, Die, plan
<1>4. monitored' = monitored /\ revived' = revived
  BY <1>2
  DEF Next, Execute, Sweep, ReconcileStalled, Claim, Boundary, QueueCancel, MarkRunning,
      Enter, CheckGuard, Decide, RowStep, Persist, PersistAnalysis, PersistLinkCheck,
      PersistFailure, Discard, QueueSucceed, QueueFail, QueueRetry, RecordCrash, Report, ReconcileTask,
      UserRequest, OpenRequest, AbandonRequest, Raise, Die, selection, Undisturbed
<1>. QED BY <1>1, <1>3, <1>4

\* A request that adds a page or repeats its analysis plans a new task.
LEMMA NewAnalysis ==
  ASSUME BaseInv, Numbered, CommitRequest, request.op # "remove"
  PROVE  \E n \in 0 .. MaxGeneration :
           LET new == TheTask("analyze", request.page, n)
           IN /\ request.page \in Pages
              /\ \A g \in 0 .. MaxGeneration :
                   TheTask("analyze", request.page, g) \in tasks <=> g < n
              /\ new \in Task \ tasks
              /\ tasks' = tasks \cup {new}
              /\ monitored' = monitored \cup {request.page}
              /\ revived' = revived \ {request.page}
              /\ row' = row /\ pc' = pc /\ work' = work /\ evidence' = evidence
<1>1. request \in Requests /\ request.page \in Pages
  BY DEF CommitRequest, BaseInv, TypeOK, Requests
<1>2. PICK n \in 0 .. (MaxGeneration + 1) : \A g \in 0 .. MaxGeneration :
        TheTask("analyze", request.page, g) \in tasks <=> g < n
  BY <1>1 DEF Numbered
<1>3. NextGeneration("analyze", request.page) = n
  BY <1>1, <1>2, GenerationIsNext
<1>4. /\ n <= MaxGeneration /\ row' = row
      /\ tasks' = tasks \cup {TheTask("analyze", request.page, n)}
      /\ monitored' = monitored \cup {request.page}
      /\ revived' = revived \ {request.page}
      /\ pc' = pc /\ work' = work /\ evidence' = evidence
  BY <1>3 DEF CommitRequest, slotVars
<1>5. n \in 0 .. MaxGeneration
  BY <1>4, BoundAssumption
<1>6. TheTask("analyze", request.page, n) \in Task
  BY <1>1, <1>5, TaskFields DEF Kinds
<1>7. TheTask("analyze", request.page, n) \notin tasks
  BY <1>2, <1>5
<1>. QED BY <1>1, <1>2, <1>4, <1>5, <1>6, <1>7

\* The analyses that exist once a discovery has sampled pages.
LEMMA SampledAnalyses ==
  ASSUME NEW new \in SUBSET Task, NEW sampled \in SUBSET Pages, Sampling(new, sampled),
         NEW p \in Pages, NEW g \in 0 .. MaxGeneration
  PROVE  TheTask("analyze", p, g) \in tasks' <=>
           TheTask("analyze", p, g) \in tasks \/ (p \in sampled /\ g = 0)
<1>1. /\ TheTask("analyze", p, g).kind = "analyze"
      /\ TheTask("analyze", p, g).page = p /\ TheTask("analyze", p, g).gen = g
  BY DEF TheTask
<1>. QED BY <1>1 DEF Sampling

LEMMA NumberedSampled ==
  ASSUME Numbered, NEW new \in SUBSET Task, NEW sampled \in SUBSET Pages,
         Sampling(new, sampled)
  PROVE  Numbered'
<1>. SUFFICES ASSUME NEW p \in Pages
              PROVE  \E m \in 0 .. (MaxGeneration + 1) : \A g \in 0 .. MaxGeneration :
                       TheTask("analyze", p, g) \in tasks' <=> g < m
  BY DEF Numbered
<1>0. MaxGeneration \in Nat
  BY BoundAssumption
<1>1. PICK n \in 0 .. (MaxGeneration + 1) : \A g \in 0 .. MaxGeneration :
        TheTask("analyze", p, g) \in tasks <=> g < n
  BY DEF Numbered
<1>2. \A g \in 0 .. MaxGeneration :
        TheTask("analyze", p, g) \in tasks' <=> g < n \/ (p \in sampled /\ g = 0)
  BY <1>1, SampledAnalyses
<1>3. CASE p \in sampled /\ n = 0
  <2>1. \A g \in 0 .. MaxGeneration : (g < n \/ g = 0) <=> g < 1
    BY <1>0, <1>3
  <2>2. 1 \in 0 .. (MaxGeneration + 1)
    BY <1>0
  <2>. QED BY <1>2, <1>3, <2>1, <2>2
<1>4. CASE p \in sampled /\ n # 0
  <2>1. \A g \in 0 .. MaxGeneration : (g < n \/ g = 0) <=> g < n
    BY <1>0, <1>4
  <2>. QED BY <1>2, <1>4, <2>1
<1>5. CASE p \notin sampled
  BY <1>2, <1>5
<1>. QED BY <1>3, <1>4, <1>5

LEMMA NumberedStep ==
  ASSUME BaseInv, Next, Undisturbed, Undisturbed', Numbered
  PROVE  Numbered'
<1>0. MaxGeneration \in Nat /\ tasks \subseteq tasks' /\ tasks' \subseteq Task
  BY BoundAssumption, StepMovesPlan DEF PlanMoves
<1>1. ASSUME \A p \in Pages, g \in 0 .. MaxGeneration :
               TheTask("analyze", p, g) \in tasks' <=> TheTask("analyze", p, g) \in tasks
      PROVE  Numbered'
  BY <1>1 DEF Numbered
<1>a. ASSUME NEW s \in Slots, PersistDiscovery(s)
      PROVE  Numbered'
  <2>1. PICK sampled \in SUBSET Pages, new \in SUBSET Task : Sampling(new, sampled)
    BY <1>a, DiscoveryPersisted
  <2>. QED BY <2>1, NumberedSampled
<1>2. CASE ~CommitRequest /\ \A s \in Slots : ~PersistDiscovery(s)
  <2>1. \A t \in tasks' \ tasks : t.kind # "analyze"
    BY <1>2, PlannedOnRequest
  <2>2. \A p, g : TheTask("analyze", p, g).kind = "analyze"
    BY DEF TheTask
  <2>. QED BY <1>0, <1>1, <2>1, <2>2
<1>3. CASE CommitRequest /\ request.op = "remove"
  <2>1. tasks' = tasks
    BY <1>3 DEF CommitRequest
  <2>. QED BY <1>1, <2>1
<1>4. CASE CommitRequest /\ request.op # "remove"
  <2>1. PICK n \in 0 .. MaxGeneration :
          /\ \A g \in 0 .. MaxGeneration :
               TheTask("analyze", request.page, g) \in tasks <=> g < n
          /\ tasks' = tasks \cup {TheTask("analyze", request.page, n)}
    BY <1>4, NewAnalysis
  <2>. SUFFICES ASSUME NEW p \in Pages
                PROVE  \E m \in 0 .. (MaxGeneration + 1) : \A g \in 0 .. MaxGeneration :
                         TheTask("analyze", p, g) \in tasks' <=> g < m
    BY DEF Numbered
  <2>2. \A g : TheTask("analyze", p, g) \in tasks' <=>
                 \/ TheTask("analyze", p, g) \in tasks
                 \/ p = request.page /\ g = n
    BY <2>1 DEF TheTask
  <2>3. CASE p = request.page
    <3>1. n + 1 \in 0 .. (MaxGeneration + 1)
      BY <1>0
    <3>2. \A g \in 0 .. MaxGeneration : g < n + 1 <=> g < n \/ g = n
      BY <1>0
    <3>3. \A g \in 0 .. MaxGeneration : TheTask("analyze", p, g) \in tasks' <=> g < n + 1
      BY <2>1, <2>2, <2>3, <3>2
    <3>. QED BY <3>1, <3>3
  <2>4. CASE p # request.page
    BY <2>2, <2>4 DEF Numbered
  <2>. QED BY <2>3, <2>4
<1>. QED BY <1>a, <1>2, <1>3, <1>4

\* A task that is not given up stays so, unless its page is deselected.
LEMMA PromiseKept ==
  ASSUME AckInv, Next, Undisturbed, Undisturbed', Alone,
         NEW u \in tasks, Promising(u), u.page \in monitored,
         ~(CommitRequest /\ request.op = "remove" /\ request.page = u.page)
  PROVE  Promising(u)'
<1>0. /\ BaseInv /\ u \in Task /\ row'[u] \in Row
      /\ evidence \subseteq evidence' /\ tasks \subseteq tasks'
      /\ row[u].status \in Terminal => row'[u] = row[u]
  BY StepMovesRows, StepMovesPlan DEF AckInv, BaseInv, TypeOK, RowsMove, PlanMoves
<1>1. CASE u \in evidence
  BY <1>0, <1>1 DEF Promising
<1>2. CASE row[u].status = "failed"
  BY <1>0, <1>2 DEF Promising, Terminal
<1>3. CASE /\ row[u].status \notin Terminal
           /\ \A s \in Slots : ~(pc[s] = "to_cancel" /\ work[s] = u)
  <2>1. ~CancelCrawl /\ \A phase \in Phases : ~StopPhase(phase)
    BY DEF Undisturbed, CancelCrawl, StopPhase, CrawlActive
  <2>2. row'[u].status # "cancelled"
    <3>1. row[u].status # "cancelled"
      BY <1>3 DEF Terminal
    <3>. QED BY <1>0, <1>3, <2>1, <3>1, StepOutcomes DEF Outcomes
  <2>3. \A s \in Slots : ~(pc'[s] = "to_cancel" /\ work'[s] = u)
    <3>. SUFFICES ASSUME NEW s \in Slots, pc'[s] = "to_cancel", work'[s] = u
                  PROVE  FALSE
      OBVIOUS
    <3>1. pc[s] = "guard" => LeaseOwned(s)
      BY DEF Alone, Executing, Trying
    <3>. QED BY <1>0, <1>3, <3>1, StepReports DEF Reports, Undisturbed
  <2>4. row'[u].status = "succeeded" => u \in evidence'
    BY <1>0, AcknowledgedStep DEF Acknowledged
  <2>5. row'[u].status \in Terminal => row'[u].status \in {"succeeded", "failed"}
    BY <2>2 DEF Terminal
  <2>. QED BY <2>3, <2>4, <2>5 DEF Promising
<1>. QED BY <1>1, <1>2, <1>3 DEF Promising

\* What a discovery plans is not given up.
LEMMA FreshPromising ==
  ASSUME BaseInv, Next, NEW s \in Slots, PersistDiscovery(s), NEW new \in Task \ tasks,
         new \in tasks'
  PROVE  Promising(new)'
<1>1. work[s] \in tasks
  BY BusySlot, Stages DEF PersistDiscovery, Trying, BaseInv
<1>2. row'[new] = row[new]
  BY <1>1 DEF PersistDiscovery, SetRow, BaseInv, TypeOK
<1>3. row'[new].status \notin Terminal
  BY <1>2 DEF BaseInv, Unplanned, NewRow, Terminal
<1>4. \A u \in Slots : work'[u] # new
  BY <1>1, NoneAssumption DEF PersistDiscovery, GoTo, BaseInv, TypeOK
<1>. QED BY <1>3, <1>4 DEF Promising

LEMMA PromisedStep ==
  ASSUME AckInv, Next, Undisturbed, Undisturbed', Alone, Numbered, Promised
  PROVE  Promised'
<1>0. BaseInv /\ tasks \subseteq tasks'
  BY StepMovesPlan DEF AckInv, PlanMoves
<1>. SUFFICES ASSUME NEW t \in tasks', t.kind = "analyze",
                     t.page \in monitored', t.page \notin revived'
              PROVE  \E u \in tasks' : /\ u.kind = "analyze" /\ u.page = t.page
                                       /\ Promising(u)'
  BY DEF Promised, Of
<1>1. ASSUME NEW v \in Of("analyze"), v.page = t.page, t.page \in monitored \ revived,
             ~(CommitRequest /\ request.op = "remove" /\ request.page = t.page)
      PROVE  \E u \in tasks' : /\ u.kind = "analyze" /\ u.page = t.page
                               /\ Promising(u)'
  <2>1. PICK u \in tasks : u.kind = "analyze" /\ u.page = t.page /\ Promising(u)
    BY <1>1 DEF Promised, Of
  <2>2. Promising(u)'
    BY <1>1, <2>1, PromiseKept
  <2>. QED BY <1>0, <2>1, <2>2
<1>a. ASSUME NEW s \in Slots, PersistDiscovery(s)
      PROVE  \E u \in tasks' : /\ u.kind = "analyze" /\ u.page = t.page
                               /\ Promising(u)'
  <2>0. ~CommitRequest
    BY <1>a DEF PersistDiscovery, CommitRequest, selection
  <2>1. PICK sampled \in SUBSET Pages, new \in SUBSET Task : Sampling(new, sampled)
    BY <1>0, <1>a, DiscoveryPersisted
  <2>2. /\ t \in Task /\ t \in tasks \cup new
        /\ t.page \in monitored \cup sampled /\ t.page \notin revived
    BY <1>0, <2>1 DEF Sampling, BaseInv, TypeOK
  <2>3. CASE t.page \in sampled
    <3> DEFINE first == TheTask("analyze", t.page, 0)
    <3>1. /\ first \in Task /\ first \in tasks'
          /\ first.kind = "analyze" /\ first.page = t.page
      BY <2>1, <2>3 DEF Sampling, TheTask
    <3>2. first \in tasks => t.page \in monitored
      BY <2>1, <2>3 DEF Sampling
    <3>. HIDE DEF first
    <3>3. CASE first \in tasks
      BY <1>1, <2>0, <2>2, <3>1, <3>2, <3>3 DEF Of
    <3>4. CASE first \notin tasks
      <4>1. Promising(first)'
        BY <1>0, <1>a, <3>1, <3>4, FreshPromising
      <4>. QED BY <3>1, <4>1
    <3>. QED BY <3>3, <3>4
  <2>4. CASE t.page \notin sampled
    <3>1. t \in tasks
      BY <2>1, <2>2, <2>4 DEF Sampling
    <3>. QED BY <1>1, <2>0, <2>2, <2>4, <3>1 DEF Of
  <2>. QED BY <2>3, <2>4
<1>2. CASE ~CommitRequest /\ \A s \in Slots : ~PersistDiscovery(s)
  <2>1. t \in Of("analyze") /\ t.page \in monitored \ revived
    BY <1>0, <1>2, PlannedOnRequest DEF Of
  <2>. QED BY <1>1, <1>2, <2>1
<1>3. CASE CommitRequest /\ request.op = "remove"
  <2>1. /\ tasks' = tasks /\ monitored' = monitored \ {request.page}
        /\ revived' = revived \ {request.page}
    BY <1>3 DEF CommitRequest
  <2>. QED BY <1>1, <2>1 DEF Of
<1>4. CASE CommitRequest /\ request.op # "remove"
  <2>1. PICK n \in 0 .. MaxGeneration :
          LET new == TheTask("analyze", request.page, n)
          IN /\ new \in Task \ tasks
             /\ tasks' = tasks \cup {new}
             /\ monitored' = monitored \cup {request.page}
             /\ revived' = revived \ {request.page}
             /\ row' = row /\ pc' = pc /\ work' = work
    BY <1>0, <1>4, NewAnalysis
  <2>2. PICK new \in Task \ tasks :
          /\ new.kind = "analyze" /\ new.page = request.page
          /\ tasks' = tasks \cup {new}
          /\ monitored' = monitored \cup {request.page}
          /\ revived' = revived \ {request.page}
          /\ row' = row /\ pc' = pc /\ work' = work
    BY <2>1 DEF TheTask
  <2>3. CASE t.page = request.page
    <3>1. row[new].status \notin Terminal
      BY <1>0, <2>2 DEF BaseInv, Unplanned, NewRow, Terminal
    <3>2. \A s \in Slots : work[s] # new
      BY <1>0, <2>2, NoneAssumption DEF BaseInv, TypeOK
    <3>3. Promising(new)'
      BY <2>2, <3>1, <3>2 DEF Promising
    <3>. QED BY <2>2, <2>3, <3>3
  <2>4. CASE t.page # request.page
    <3>1. t \in Of("analyze") /\ t.page \in monitored \ revived
      BY <2>2, <2>4 DEF Of
    <3>. QED BY <1>1, <2>4, <3>1
  <2>. QED BY <2>3, <2>4
<1>. QED BY <1>a, <1>2, <1>3, <1>4

LEMMA EndInvInit == Init => EndInv
<1>. SUFFICES ASSUME Init PROVE Alone /\ Numbered /\ Promised
  BY DEF EndInv
<1>0. BaseInv /\ MaxGeneration \in Nat
  BY BaseInvInit, BoundAssumption
<1>1. \A s \in Slots : pc[s] = "idle"
  BY DEF Init
<1>2. Alone
  BY <1>1 DEF Alone, Executing, Trying
<1>3. \A p \in Pages, g \in 0 .. MaxGeneration :
        TheTask("analyze", p, g) \in tasks <=> p \in monitored /\ g = 0
  BY DEF Init, TheTask
<1>4. Numbered
  <2>. SUFFICES ASSUME NEW p \in Pages
                PROVE  \E n \in 0 .. (MaxGeneration + 1) : \A g \in 0 .. MaxGeneration :
                         TheTask("analyze", p, g) \in tasks <=> g < n
    BY DEF Numbered
  <2>1. CASE p \in monitored
    <3>1. 1 \in 0 .. (MaxGeneration + 1) /\ \A g \in 0 .. MaxGeneration : g = 0 <=> g < 1
      BY <1>0
    <3>. QED BY <1>3, <2>1, <3>1
  <2>2. CASE p \notin monitored
    <3>1. 0 \in 0 .. (MaxGeneration + 1) /\ \A g \in 0 .. MaxGeneration : ~(g < 0)
      BY <1>0
    <3>. QED BY <1>3, <2>2, <3>1
  <2>. QED BY <2>1, <2>2
<1>5. Promised
  <2>. SUFFICES ASSUME NEW t \in tasks PROVE Promising(t)
    BY DEF Promised, Of
  <2>1. row[t].status \notin Terminal
    BY <1>0 DEF Init, NewRow, Terminal, BaseInv, TypeOK
  <2>. QED BY <1>1, <2>1 DEF Promising
<1>. QED BY <1>2, <1>4, <1>5

LEMMA EndInvStep == AckInv /\ EndInv /\ [Next]_vars => EndInv'
<1>. SUFFICES ASSUME AckInv, EndInv, [Next]_vars, Undisturbed'
              PROVE  (Alone /\ Numbered /\ Promised)'
  BY DEF EndInv
<1>1. CASE Next
  <2>1. Undisturbed /\ BaseInv
    BY <1>1, UndisturbedBefore DEF AckInv
  <2>. QED BY <1>1, <2>1, AloneStep, NumberedStep, PromisedStep DEF EndInv
<1>2. CASE UNCHANGED vars
  <2>1. Undisturbed
    BY <1>2 DEF Undisturbed, vars, mode, statuses, faults
  <2>. QED
    BY <1>2, <2>1
    DEF EndInv, vars, plan, selection, slotVars, Alone, Executing, LeaseOwned, Holds,
        Numbered, Promised, Promising, Of
<1>. QED BY <1>1, <1>2

LEMMA EndInvHolds == Spec => []EndInv
  BY EndInvInit, EndInvStep, AckInvHolds, PTL DEF Spec

\* Only the reconciliation ends a crawl that is not cancelled.
LEMMA Conclusion ==
  ASSUME BaseInv, Next, crawl \in CrawlActive,
         crawl' \in CrawlTerminal \ {"cancelled"}
  PROVE  /\ ~advanced /\ LiveTasks = {} /\ crawl' = Classified
         /\ UNCHANGED <<tasks, row, evidence, monitored, revived, stalled>>
<1>1. ASSUME Reconcile
      PROVE  ~advanced /\ LiveTasks = {} /\ crawl' = Classified
  BY <1>1 DEF Reconcile, Progress, Park, Conclude, CrawlActive, CrawlTerminal
<1>2. ASSUME NEW s \in Slots, ReconcileTask(s) \/ ReconcileStalled(s)
      PROVE  Reconcile /\ UNCHANGED <<tasks, row, evidence, monitored, revived, stalled>>
  BY <1>2 DEF ReconcileTask, ReconcileStalled, plan, selection, faults
<1>3. crawl' # crawl /\ crawl' # "running"
  BY DEF CrawlActive, CrawlTerminal
<1>4. ~CancelCrawl /\ ~StartDiscovery /\ ~StartAnalysis
  BY DEF CancelCrawl, StartDiscovery, StartAnalysis, CrawlTerminal
<1>5. \A phase \in Phases : ~StopPhase(phase)
  BY DEF StopPhase, CrawlActive, CrawlTerminal
<1>6. \E s \in Slots : ReconcileTask(s) \/ ReconcileStalled(s)
  BY <1>3, <1>4, <1>5
  DEF Next, Execute, Sweep, Claim, Boundary, QueueCancel, MarkRunning,
      Enter, CheckGuard, Decide, RowStep, Persist, PersistDiscovery, PersistAnalysis,
      PersistLinkCheck, PersistFailure, Discard, QueueSucceed, QueueFail, QueueRetry,
      RecordCrash, Report, UserRequest, OpenRequest, CommitRequest, AbandonRequest,
      Raise, Die, statuses
<1>. QED BY <1>1, <1>2, <1>6

\* EndIsTruthful: what an ordinary crawl reports when it ends
\* (CrawlLifecycle.reconcile) agrees with the results that were committed for it.
THEOREM EndIsTruthfulHolds == Spec => EndIsTruthful
<1> DEFINE Truthful ==
      (crawl \in CrawlActive /\ crawl' \in CrawlTerminal \ {"cancelled"}) =>
       /\ LiveTasks = {}
       /\ crawl' = "failed" <=> ~Discovered
       /\ crawl' = "completed" =>
            /\ \A t \in Of("analyze") : t \in evidence \/ row[t].status = "cancelled"
            /\ ~stalled =>
                 \A t \in Of("analyze") : t.page \in monitored \ revived =>
                   \E e \in evidence : e.kind = "analyze" /\ e.page = t.page
       /\ crawl' = "partially_completed" =>
            \E t \in tasks : row[t].status = "failed"
<1>1. ASSUME AckInv, EndInv, [Next]_vars
      PROVE  [Truthful]_vars
  <2>. SUFFICES ASSUME Next, crawl \in CrawlActive,
                       crawl' \in CrawlTerminal \ {"cancelled"}
                PROVE  Truthful
    BY <1>1
  <2>1. ~advanced /\ LiveTasks = {} /\ crawl' = Classified
    BY <1>1, Conclusion DEF AckInv
  <2>2. crawl' = "failed" <=> ~Discovered
    BY <2>1 DEF Classified
  <2>3. ASSUME crawl' = "completed"
        PROVE  Ended("analyze", "failed") = {}
    BY <2>1, <2>3 DEF Classified
  <2>4. \A t \in tasks : row[t].status \in Terminal
    BY <2>1 DEF LiveTasks
  <2>5. ASSUME crawl' = "completed", NEW t \in Of("analyze")
        PROVE  t \in evidence \/ row[t].status = "cancelled"
    <3>1. t \in tasks /\ row[t].status # "failed"
      BY <2>3, <2>5 DEF Of, Ended
    <3>. QED BY <1>1, <2>4, <3>1 DEF Terminal, AckInv, Acknowledged
  <2>6. ASSUME crawl' = "completed", ~stalled, NEW t \in Of("analyze"),
             t.page \in monitored \ revived
        PROVE  \E e \in evidence : e.kind = "analyze" /\ e.page = t.page
    <3>1. PICK u \in Of("analyze") : u.page = t.page /\ Promising(u)
      BY <1>1, <2>1, <2>6 DEF EndInv, Undisturbed, Promised
    <3>2. u \in tasks /\ u.kind = "analyze" /\ row[u].status # "failed"
      BY <2>3, <2>6 DEF Of, Ended
    <3>. QED BY <2>4, <3>1, <3>2 DEF Promising
  <2>7. ASSUME crawl' = "partially_completed"
        PROVE  \E t \in tasks : row[t].status = "failed"
    BY <2>1, <2>7 DEF Classified, Ended, Of
  <2>. QED BY <2>1, <2>2, <2>5, <2>6, <2>7
<1>. QED BY <1>1, AckInvHolds, EndInvHolds, PTL DEF Spec, EndIsTruthful
=============================================================================
