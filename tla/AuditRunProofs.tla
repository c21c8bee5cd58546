--------------------------- MODULE AuditRunProofs ---------------------------
(***************************************************************************)
(* TLAPS proofs about AuditRun, for any tasks, funded or not, any slots of  *)
(* any processes (slots may share an owner string), any attempt budget and  *)
(* any number of stalls, errors and deaths.                                *)
(***************************************************************************)
EXTENDS AuditRun, FiniteSetTheorems, TLAPS

-----------------------------------------------------------------------------
\* Each operation on a queue row yields a row and writes the columns it says.
LEMMA FinalizeRow ==
  ASSUME NEW r \in Row, NEW outcome \in Terminal
  PROVE  /\ Finalize(r, outcome) \in Row
         /\ Finalize(r, outcome).status = outcome
         /\ Finalize(r, outcome).owner = NoOwner
         /\ Finalize(r, outcome).attempts = r.attempts
  BY DEF Row, Finalize, Unleased, Status

LEMMA PostponeRow ==
  ASSUME NEW r \in Row, NEW wait \in Claimable, NEW isDue \in BOOLEAN
  PROVE  /\ Postpone(r, wait, isDue) \in Row
         /\ Postpone(r, wait, isDue).status = wait
         /\ Postpone(r, wait, isDue).owner = NoOwner
         /\ Postpone(r, wait, isDue).attempts = r.attempts
  BY DEF Row, Postpone, Unleased, Status

LEMMA ReclaimRow ==
  ASSUME NEW r \in Row
  PROVE  /\ Reclaim(r) \in Row
         /\ Reclaim(r).status = IF r.attempts < MaxAttempts
                                  THEN "retry_wait" ELSE "failed"
         /\ Reclaim(r).owner = NoOwner
         /\ Reclaim(r).attempts = r.attempts
<1>1. r.attempts \in Nat /\ MaxAttempts \in Nat
  BY MaxAttemptsAssumption DEF Row
<1>2. /\ Finalize(r, "failed") \in Row
      /\ Finalize(r, "failed").status = "failed"
      /\ Finalize(r, "failed").owner = NoOwner
      /\ Finalize(r, "failed").attempts = r.attempts
  BY FinalizeRow DEF Terminal
<1>5. /\ Postpone(r, "retry_wait", TRUE) \in Row
      /\ Postpone(r, "retry_wait", TRUE).status = "retry_wait"
      /\ Postpone(r, "retry_wait", TRUE).owner = NoOwner
      /\ Postpone(r, "retry_wait", TRUE).attempts = r.attempts
  BY PostponeRow DEF Claimable
<1>3. CASE r.attempts >= MaxAttempts
  <2>1. Reclaim(r) = Finalize(r, "failed")
    BY <1>3 DEF Reclaim
  <2>2. ~(r.attempts < MaxAttempts)
    BY <1>1, <1>3
  <2>. QED BY <1>2, <2>1, <2>2
<1>4. CASE ~(r.attempts >= MaxAttempts)
  <2>1. Reclaim(r) = Postpone(r, "retry_wait", TRUE)
    BY <1>4 DEF Reclaim
  <2>2. r.attempts < MaxAttempts
    BY <1>1, <1>4
  <2>. QED BY <1>5, <2>1, <2>2
<1>. QED BY <1>3, <1>4

\* How a step changes a row: it is one of these row operations.  What follows
\* about statuses, owners and attempts needs no more than this.
RowChange(r, q) ==
  \/ q = r
  \/ \E o \in Owners : q = Lease(r, o)
  \/ q = Begin(r) /\ r.status = "leased"
  \/ q = Extend(r)
  \/ \E outcome \in Terminal : q = Finalize(r, outcome)
  \/ \E wait \in Claimable, isDue \in BOOLEAN : q = Postpone(r, wait, isDue)
  \/ q = Reclaim(r)
  \/ \E n \in Nat : q = [r EXCEPT !.attempts = n]
  \/ \E b \in BOOLEAN : q = [r EXCEPT !.lapsed = b] \/ q = [r EXCEPT !.due = b]

LEMMA RowChangeType ==
  ASSUME NEW r \in Row, NEW q, RowChange(r, q)
  PROVE  q \in Row
<1>1. CASE q = r \/ q = Begin(r) \/ q = Extend(r)
  BY <1>1 DEF Row, Status, LeaseHeld, Begin, Extend
<1>2. CASE \E o \in Owners : q = Lease(r, o)
  BY <1>2 DEF Row, Status, LeaseHeld, Lease
<1>3. CASE \E outcome \in Terminal : q = Finalize(r, outcome)
  BY <1>3, FinalizeRow
<1>4. CASE \E wait \in Claimable, isDue \in BOOLEAN : q = Postpone(r, wait, isDue)
  BY <1>4, PostponeRow
<1>5. CASE q = Reclaim(r)
  BY <1>5, ReclaimRow
<1>6. CASE \/ \E n \in Nat : q = [r EXCEPT !.attempts = n]
            \/ \E b \in BOOLEAN : \/ q = [r EXCEPT !.lapsed = b]
                                  \/ q = [r EXCEPT !.due = b]
  BY <1>6 DEF Row
<1>. QED BY <1>1, <1>2, <1>3, <1>4, <1>5, <1>6 DEF RowChange

\* Every row operation keeps a lease and its owner together.
LEMMA RowChangeCoherent ==
  ASSUME NEW r \in Row, NEW q, RowChange(r, q),
         r.status \in LeaseHeld <=> r.owner # NoOwner
  PROVE  q.status \in LeaseHeld <=> q.owner # NoOwner
<1>1. CASE q = r \/ q = Extend(r) \/ (q = Begin(r) /\ r.status = "leased")
  BY <1>1 DEF Row, Begin, Extend, LeaseHeld
<1>2. CASE \E o \in Owners : q = Lease(r, o)
  <2>1. PICK o \in Owners : q = Lease(r, o)
    BY <1>2
  <2>2. q.status = "leased" /\ q.owner = o
    BY <2>1 DEF Row, Lease
  <2>. QED BY <2>2, NoOwnerAssumption DEF LeaseHeld
<1>3. CASE \E outcome \in Terminal : q = Finalize(r, outcome)
  BY <1>3, FinalizeRow DEF LeaseHeld, Terminal
<1>4. CASE \E wait \in Claimable, isDue \in BOOLEAN : q = Postpone(r, wait, isDue)
  BY <1>4, PostponeRow DEF LeaseHeld, Claimable
<1>5. CASE q = Reclaim(r)
  BY <1>5, ReclaimRow DEF LeaseHeld
<1>6. CASE \/ \E n \in Nat : q = [r EXCEPT !.attempts = n]
            \/ \E b \in BOOLEAN : \/ q = [r EXCEPT !.lapsed = b]
                                  \/ q = [r EXCEPT !.due = b]
  <2>1. q.status = r.status /\ q.owner = r.owner
    BY <1>6 DEF Row
  <2>. QED BY <2>1
<1>. QED BY <1>1, <1>2, <1>3, <1>4, <1>5, <1>6 DEF RowChange

-----------------------------------------------------------------------------

\* A row has an owner exactly while it is leased.
LeaseCoherent ==
  \A t \in Tasks : row[t].status \in LeaseHeld <=> row[t].owner # NoOwner

SlotTypes ==
  /\ pc \in [Slots -> Phase]
  /\ work \in [Slots -> Tasks \cup {NoTask}]
  /\ sawSuccess \in [Slots -> BOOLEAN]
  /\ \A s \in Slots : work[s] = NoTask <=> pc[s] \in {"idle", "dead"}

Busy == Phase \ {"idle", "dead"}

BaseInv == TypeOK /\ LeaseCoherent

LEMMA BusySlot ==
  ASSUME TypeOK, NEW s \in Slots, pc[s] \in Busy
  PROVE  work[s] \in Tasks
  BY DEF TypeOK, Busy

\* A slot that passes the owner check of _owned_task has a leased row.
LEMMA HeldRow ==
  ASSUME BaseInv, NEW s \in Slots, pc[s] \in Busy, Holds(s)
  PROVE  /\ row[work[s]].owner = OwnerOf[s]
         /\ row[work[s]].status \in LeaseHeld
         /\ row[work[s]].status \notin Terminal
<1>1. work[s] \in Tasks
  BY BusySlot DEF BaseInv
<1>2. row[work[s]].owner = OwnerOf[s] /\ OwnerOf[s] # NoOwner
  BY SlotAssumption, NoOwnerAssumption DEF Holds, OwnedBy
<1>. QED BY <1>1, <1>2 DEF BaseInv, LeaseCoherent, LeaseHeld, Terminal

-----------------------------------------------------------------------------
\* What a step does to the rows: row operations, and nothing to a row that
\* ended.
RowsMove ==
  /\ row' \in [Tasks -> Row]
  /\ \A t \in Tasks : RowChange(row[t], row'[t])
  /\ \A t \in Tasks : row[t].status \in Terminal => row'[t] = row[t]

LEMMA RowSet ==
  ASSUME TypeOK, NEW t \in Tasks, NEW q, SetRow(t, q),
         RowChange(row[t], q), row[t].status \notin Terminal
  PROVE  RowsMove
<1>1. q \in Row
  BY RowChangeType DEF TypeOK
<1>2. \A u \in Tasks : RowChange(row[u], row'[u])
  BY DEF TypeOK, SetRow, RowChange
<1>. QED BY <1>1, <1>2 DEF RowsMove, TypeOK, SetRow

LEMMA RowKept ==
  ASSUME TypeOK, row' = row
  PROVE  RowsMove
  BY DEF RowsMove, TypeOK, RowChange

LEMMA ReportMovesRows ==
  ASSUME BaseInv, NEW s \in Slots, NEW phase \in Busy, NEW q,
         Report(s, phase, q), RowChange(row[work[s]], q)
  PROVE  RowsMove
<1>1. pc[s] \in Busy /\ work[s] \in Tasks
  BY BusySlot DEF Report, BaseInv
<1>2. CASE Holds(s)
  BY <1>1, <1>2, HeldRow, RowSet DEF Report, BaseInv
<1>3. CASE ~Holds(s)
  BY <1>3, RowKept DEF Report, BaseInv
<1>. QED BY <1>2, <1>3

LEMMA StepMovesRows ==
  ASSUME BaseInv, Next
  PROVE  RowsMove
<1>0. TypeOK /\ row \in [Tasks -> Row]
  BY DEF BaseInv, TypeOK
<1>1. ASSUME NEW s \in Slots, Sweep(s)
      PROVE  RowsMove
  <2>1. PICK t \in Tasks : row[t].status \in LeaseHeld /\ SetRow(t, Reclaim(row[t]))
    BY <1>1 DEF Sweep
  <2>2. RowChange(row[t], Reclaim(row[t])) /\ row[t].status \notin Terminal
    BY <2>1 DEF RowChange, LeaseHeld, Terminal
  <2>. QED BY <1>0, <2>1, <2>2, RowSet
<1>2. ASSUME NEW s \in Slots, Claim(s)
      PROVE  RowsMove
  <2>1. PICK t \in Tasks : Eligible(row[t]) /\ SetRow(t, Lease(row[t], OwnerOf[s]))
    BY <1>2 DEF Claim
  <2>2. RowChange(row[t], Lease(row[t], OwnerOf[s])) /\ row[t].status \notin Terminal
    BY <2>1, SlotAssumption DEF RowChange, Eligible, Claimable, Terminal
  <2>. QED BY <1>0, <2>1, <2>2, RowSet
<1>3. ASSUME NEW s \in Slots, pc[s] \in Busy, row' = row \/ 
             \E q : /\ SetRow(work[s], q)
                    /\ RowChange(row[work[s]], q)
                    /\ row[work[s]].status \notin Terminal
      PROVE  RowsMove
  BY <1>0, <1>3, BusySlot, RowKept, RowSet
<1>4. ASSUME NEW s \in Slots, QueueCancel(s)
      PROVE  RowsMove
  <2>1. pc[s] \in Busy /\ RowChange(row[work[s]], Finalize(row[work[s]], "cancelled"))
    BY <1>4 DEF QueueCancel, Busy, Phase, Trying, RowChange, Terminal
  <2>. QED BY <1>3, <1>4, <2>1 DEF QueueCancel
<1>5. ASSUME NEW s \in Slots,
             Reject(s) \/ PersistSuccess(s) \/ PersistFailure(s)
      PROVE  RowsMove
  <2>1. pc[s] \in Busy
    BY <1>5 DEF Reject, PersistSuccess, PersistFailure, Busy, Phase, Trying
  <2>2. work[s] \in Tasks
    BY <1>0, <2>1, BusySlot
  <2>3. row[work[s]].attempts + 1 \in Nat
    BY <1>0, <2>2 DEF Row
  <2>4. RowChange(row[work[s]],
                  [row[work[s]] EXCEPT !.attempts = row[work[s]].attempts + 1])
    BY <2>3 DEF RowChange
  <2>5. \/ row' = row
        \/ /\ Holds(s)
           /\ SetRow(work[s],
                [row[work[s]] EXCEPT !.attempts = row[work[s]].attempts + 1])
    BY <1>5 DEF Reject, PersistSuccess, PersistFailure, LockOwnedTask
  <2>. QED BY <1>3, <2>1, <2>4, <2>5, HeldRow
<1>6. ASSUME NEW s \in Slots, QueuePark(s) \/ RecordCrash(s) \/ StartCall(s)
      PROVE  RowsMove
  <2>1. pc[s] \in Busy
    BY <1>6 DEF QueuePark, RecordCrash, StartCall, Busy, Phase, Trying, Handling
  <2>2. /\ RowChange(row[work[s]], Finalize(row[work[s]], "failed"))
        /\ RowChange(row[work[s]], Postpone(row[work[s]], "capacity_wait", TRUE))
        /\ row[work[s]].status = "leased" => RowChange(row[work[s]], Begin(row[work[s]]))
    BY DEF RowChange, Terminal, Claimable
  <2>. QED BY <1>3, <1>6, <2>1, <2>2, HeldRow DEF QueuePark, RecordCrash, StartCall
<1>7. ASSUME NEW s \in Slots, QueueSucceed(s) \/ QueueFail(s) \/ QueueRetry(s)
      PROVE  RowsMove
  <2>1. /\ RowChange(row[work[s]], Finalize(row[work[s]], "failed"))
        /\ RowChange(row[work[s]], Finalize(row[work[s]], "succeeded"))
        /\ RowChange(row[work[s]], Postpone(row[work[s]], "retry_wait", TRUE))
    BY DEF RowChange, Terminal, Claimable
  <2>2. {"to_succeed", "to_fail", "to_retry"} \subseteq Busy
    BY DEF Busy, Phase, Trying
  <2>. QED BY <1>7, <2>1, <2>2, ReportMovesRows DEF QueueSucceed, QueueFail, QueueRetry
<1>8. ASSUME CancelAudit
      PROVE  RowsMove
  <2>1. \A t \in Tasks : RowChange(row[t], row'[t])
    BY <1>8 DEF CancelAudit, RowChange, Terminal
  <2>2. \A t \in Tasks : row'[t] \in Row
    BY <1>0, <2>1, RowChangeType
  <2>. QED BY <1>8, <2>1, <2>2 DEF CancelAudit, RowsMove
<1>9. CASE row' = row
  BY <1>0, <1>9, RowKept
<1>. QED
  BY <1>1, <1>2, <1>4, <1>5, <1>6, <1>7, <1>8, <1>9
  DEF Next, Execute, StopAtBoundary, PassBoundary, RecordCapacityWait, Persist,
      BillingRefused, DiscardAnswer, CrashRelease, CountSucceeded, CountTerminal,
      Analyze, SweepRelease, Raise, DeadlinePasses, Die, taskVars

LEMMA StepKeepsCoherence ==
  ASSUME BaseInv, RowsMove
  PROVE  LeaseCoherent'
<1>. SUFFICES ASSUME NEW t \in Tasks
              PROVE  row'[t].status \in LeaseHeld <=> row'[t].owner # NoOwner
  BY DEF LeaseCoherent
<1>1. row[t] \in Row /\ (row[t].status \in LeaseHeld <=> row[t].owner # NoOwner)
  BY DEF BaseInv, TypeOK, LeaseCoherent
<1>. QED BY <1>1, RowChangeCoherent DEF RowsMove
-----------------------------------------------------------------------------
\* Type correctness

LEMMA GoToTypes ==
  ASSUME TypeOK, NEW s \in Slots, pc[s] \in Busy,
         NEW phase \in Busy \cup {"idle"}, GoTo(s, phase)
  PROVE  SlotTypes'
  BY SlotAssumption DEF GoTo, TypeOK, SlotTypes, Busy, Phase

LEMMA StepKeepsSlotTypes ==
  ASSUME TypeOK, Next
  PROVE  SlotTypes'
<1>0. /\ Trying \cup Handling \cup Closing \cup {"sweep_release"} \subseteq Busy
      /\ Busy \subseteq Phase
  BY DEF Busy, Phase, Trying, Handling, Closing
<1>1. ASSUME NEW s \in Slots, Sweep(s) \/ Claim(s)
      PROVE  SlotTypes'
  BY <1>1, SlotAssumption
  DEF Sweep, Claim, TypeOK, SlotTypes, Phase, Trying
<1>2. ASSUME NEW s \in Slots,
             \E from \in Busy, phase \in Busy \cup {"idle"} :
               pc[s] = from /\ GoTo(s, phase)
      PROVE  SlotTypes'
  BY <1>2, GoToTypes
<1>3. ASSUME NEW s \in Slots, Execute(s)
      PROVE  SlotTypes'
  <2>1. CASE CountSucceeded(s)
    <3>1. CASE GoTo(s, "idle")
      BY <1>0, <1>2, <2>1, <3>1 DEF CountSucceeded, Closing
    <3>2. CASE ~GoTo(s, "idle")
      BY <2>1, <3>2 DEF CountSucceeded, TypeOK, SlotTypes, Phase, Closing
    <3>. QED BY <3>1, <3>2
  <2>2. CASE CountTerminal(s)
    BY <2>2, SlotAssumption DEF CountTerminal, TypeOK, SlotTypes, Phase, Closing
  <2>3. CASE StopAtBoundary(s) \/ PassBoundary(s) \/ QueueCancel(s)
    BY <1>0, <1>2, <2>3 DEF StopAtBoundary, PassBoundary, QueueCancel, Trying, Closing
  <2>4. CASE Reject(s) \/ RecordCapacityWait(s) \/ QueuePark(s) \/ StartCall(s)
    BY <1>0, <1>2, <2>4
    DEF Reject, RecordCapacityWait, QueuePark, StartCall, Trying, Closing
  <2>5. CASE Persist(s)
    BY <1>0, <1>2, <2>5
    DEF Persist, PersistSuccess, PersistFailure, BillingRefused, DiscardAnswer,
        Trying, Handling, Closing
  <2>6. CASE QueueSucceed(s) \/ QueueFail(s) \/ QueueRetry(s)
    BY <1>0, <1>2, <2>6
    DEF QueueSucceed, QueueFail, QueueRetry, Report, Trying, Closing
  <2>7. CASE RecordCrash(s) \/ CrashRelease(s)
    BY <1>0, <1>2, <2>7 DEF RecordCrash, CrashRelease, Handling, Closing
  <2>8. CASE Analyze(s) \/ SweepRelease(s)
    BY <1>0, <1>2, <2>8 DEF Analyze, SweepRelease, Closing
  <2>. QED BY <1>3, <2>1, <2>2, <2>3, <2>4, <2>5, <2>6, <2>7, <2>8 DEF Execute
<1>4. ASSUME NEW s \in Slots, Raise(s)
      PROVE  SlotTypes'
  <2>. USE DEF TypeOK, SlotTypes
  <2>1. sawSuccess' \in [Slots -> BOOLEAN]
    BY <1>4 DEF Raise
  <2>2. pc[s] \in Busy /\ pc[s] \notin {"idle", "dead"}
    BY <1>0, <1>4 DEF Raise, Busy
  <2>3. \/ pc' = [pc EXCEPT ![s] = "crashed"] /\ work' = work
        \/ pc' = [pc EXCEPT ![s] = "finalize"] /\ work' = work
        \/ pc' = [pc EXCEPT ![s] = "idle"] /\ work' = [work EXCEPT ![s] = NoTask]
    BY <1>4 DEF Raise
  <2>. QED BY <2>1, <2>2, <2>3, SlotAssumption DEF Phase, Handling, Closing
<1>5. ASSUME NEW o \in Owners, Die(o)
      PROVE  SlotTypes'
  BY <1>5 DEF Die, TypeOK, SlotTypes, Phase
<1>6. CASE UNCHANGED slotVars
  BY <1>6 DEF TypeOK, SlotTypes, slotVars
<1>. QED BY <1>1, <1>3, <1>4, <1>5, <1>6 DEF Next, CancelAudit, DeadlinePasses

\* The columns of numbers.
CountTypes ==
  /\ calls \in [Tasks -> Nat]
  /\ evidence \in [Tasks -> Nat]
  /\ reserve \in [Tasks -> Nat]
  /\ billed \in [Tasks -> Nat]

LEMMA StepKeepsCountTypes ==
  ASSUME BaseInv, Next
  PROVE  CountTypes'
<1>. USE DEF CountTypes
<1>0. TypeOK /\ CountTypes
  BY DEF BaseInv, TypeOK
<1>1. ASSUME NEW s \in Slots,
             \/ StopAtBoundary(s) \/ Reject(s) \/ CrashRelease(s) \/ SweepRelease(s)
      PROVE  CountTypes'
  BY <1>0, <1>1
  DEF StopAtBoundary, Reject, CrashRelease, SweepRelease, ReleaseCredits, taskVars
<1>2. ASSUME NEW s \in Slots, StartCall(s)
      PROVE  CountTypes'
  BY <1>0, <1>2 DEF StartCall, credits
<1>3. ASSUME NEW s \in Slots, PersistSuccess(s)
      PROVE  CountTypes'
  <2>0. work[s] \in Tasks
    BY <1>0, <1>3, BusySlot DEF PersistSuccess, Busy, Phase, Trying
  <2>1. evidence' \in [Tasks -> Nat] /\ calls' \in [Tasks -> Nat]
    BY <1>0, <1>3, <2>0 DEF PersistSuccess
  <2>2. reserve' \in [Tasks -> Nat]
    BY <1>0, <1>3 DEF PersistSuccess, ReleaseCredits
  <2>3. billed' \in [Tasks -> Nat]
    BY <1>0, <1>3, <2>0 DEF PersistSuccess, BillCall
  <2>. QED BY <2>1, <2>2, <2>3
<1>4. ASSUME NEW s \in Slots, PersistFailure(s)
      PROVE  CountTypes'
  <2>1. work[s] \in Tasks
    BY <1>0, <1>4, BusySlot DEF PersistFailure, Busy, Phase, Trying
  <2>2. work[s] \in Funded => reserve[work[s]] - 1 \in Nat
    BY <1>0, <1>4, <2>1 DEF PersistFailure, CanBill
  <2>. QED BY <1>0, <1>4, <2>1, <2>2 DEF PersistFailure, BillCall, ReleaseCredits
<1>5. CASE CancelAudit
  BY <1>0, <1>5 DEF CancelAudit
<1>6. CASE UNCHANGED <<calls, evidence, reserve, billed>>
  BY <1>0, <1>6
<1>. QED
  BY <1>1, <1>2, <1>3, <1>4, <1>5, <1>6
  DEF Next, Execute, Sweep, Claim, PassBoundary, QueueCancel, RecordCapacityWait,
      QueuePark, Persist, BillingRefused, DiscardAnswer, QueueSucceed, QueueFail,
      QueueRetry, Report, RecordCrash, CountSucceeded, CountTerminal, Analyze, Raise,
      DeadlinePasses, Die, taskVars, credits

AuditTypes ==
  /\ audit \in AuditActive \cup AuditTerminal
  /\ late \in BOOLEAN
  /\ stalls \in 0 .. MaxStalls
  /\ errors \in 0 .. MaxErrors
  /\ crossed \in SUBSET Tasks

LEMMA StepKeepsAuditTypes ==
  ASSUME TypeOK, Next
  PROVE  AuditTypes'
<1>0. AuditTypes /\ MaxStalls \in Nat /\ MaxErrors \in Nat
  BY FaultAssumption DEF TypeOK, AuditTypes
<1>1. ASSUME NEW s \in Slots, Sweep(s)
      PROVE  AuditTypes'
  <2>1. PICK t \in Tasks : \/ stalls' = stalls
                           \/ stalls < MaxStalls /\ stalls' = stalls + 1
    BY <1>1 DEF Sweep
  <2>. QED BY <1>0, <1>1, <2>1 DEF Sweep, AuditTypes
<1>2. ASSUME NEW s \in Slots, Raise(s) \/ Claim(s)
      PROVE  AuditTypes'
  BY <1>0, <1>2 DEF Raise, Claim, AuditTypes
<1>3. ASSUME NEW s \in Slots, PassBoundary(s) \/ CountTerminal(s) \/ Analyze(s)
      PROVE  AuditTypes'
  BY <1>0, <1>3
  DEF PassBoundary, CountTerminal, Analyze, AuditTypes, AuditActive, AuditTerminal,
      faults
<1>4. CASE CancelAudit \/ DeadlinePasses
  BY <1>0, <1>4
  DEF CancelAudit, DeadlinePasses, AuditTypes, AuditTerminal, faults
<1>5. CASE UNCHANGED <<audit, late, faults>>
  BY <1>0, <1>5 DEF AuditTypes, faults
<1>. QED
  BY <1>1, <1>2, <1>3, <1>4, <1>5
  DEF Next, Execute, StopAtBoundary, QueueCancel, Reject, RecordCapacityWait,
      QueuePark, StartCall, Persist, PersistSuccess, PersistFailure, BillingRefused,
      DiscardAnswer, QueueSucceed, QueueFail, QueueRetry, Report, RecordCrash,
      CrashRelease, CountSucceeded, SweepRelease, Die

LEMMA BaseInvInit == Init => BaseInv
<1>. SUFFICES ASSUME Init PROVE BaseInv
  OBVIOUS
<1>1. NewRow \in Row /\ NewRow.status = "queued" /\ NewRow.owner = NoOwner
  BY DEF NewRow, Row, Status, Claimable
<1>2. \A t \in Tasks : row[t] = NewRow
  BY DEF Init
<1>3. LeaseCoherent
  BY <1>1, <1>2 DEF LeaseCoherent, LeaseHeld
<1>4. MaxAttempts \in Nat /\ MaxStalls \in Nat /\ MaxErrors \in Nat
  BY MaxAttemptsAssumption, FaultAssumption
<1>5. reserve \in [Tasks -> Nat]
  BY <1>4 DEF Init
<1>6. SlotTypes
  BY DEF Init, SlotTypes, Phase
<1>7. AuditTypes
  <2>1. audit = "queued" /\ late = FALSE /\ stalls = 0 /\ errors = 0
    BY DEF Init
  <2>2. audit \in AuditActive /\ late \in BOOLEAN
    BY <2>1 DEF AuditActive
  <2>3. stalls \in 0 .. MaxStalls /\ errors \in 0 .. MaxErrors
    BY <1>4, <2>1
  <2>4. crossed \in SUBSET Tasks
    BY DEF Init
  <2>. QED BY <2>2, <2>3, <2>4 DEF AuditTypes
<1>8. row \in [Tasks -> Row]
  BY <1>1 DEF Init
<1>. QED
  BY <1>3, <1>5, <1>6, <1>7, <1>8 DEF Init, BaseInv, TypeOK, SlotTypes, AuditTypes

LEMMA BaseInvStep == BaseInv /\ [Next]_vars => BaseInv'
<1>. SUFFICES ASSUME BaseInv, [Next]_vars PROVE BaseInv'
  OBVIOUS
<1>1. CASE Next
  <2>1. RowsMove /\ LeaseCoherent'
    BY <1>1, StepMovesRows, StepKeepsCoherence
  <2>2. SlotTypes' /\ CountTypes' /\ AuditTypes'
    BY <1>1, StepKeepsSlotTypes, StepKeepsCountTypes, StepKeepsAuditTypes DEF BaseInv
  <2>. QED
    BY <2>1, <2>2 DEF BaseInv, TypeOK, RowsMove, SlotTypes, CountTypes, AuditTypes
<1>2. CASE UNCHANGED vars
  BY <1>2
  DEF vars, taskVars, credits, slotVars, faults, BaseInv, TypeOK, LeaseCoherent
<1>. QED BY <1>1, <1>2

LEMMA BaseInvHolds == Spec => []BaseInv
  BY BaseInvInit, BaseInvStep, PTL DEF Spec

\* The audit, its tasks, the credits and the slots stay well formed, whatever
\* lapses, raises or dies.
THEOREM TypeCorrect == Spec => []TypeOK
  BY BaseInvHolds, PTL DEF BaseInv

-----------------------------------------------------------------------------
\* How the audit's status moves.  The five disjuncts are the program's: nothing,
\* the first boundary, the cancel request, the finalization and the analysis.
AuditMoves ==
  \/ audit' = audit
  \/ audit = "queued" /\ audit' = "running"
  \/ audit \in AuditActive /\ audit' = "cancelled" /\ NothingRemains'
       /\ evidence' = evidence
  \/ /\ audit = "running" /\ NothingRemains
     /\ row' = row /\ evidence' = evidence
     /\ \/ audit' = "failed"
        \/ audit' = "analyzing" /\ \E s \in Slots : sawSuccess[s]
  \/ /\ audit = "analyzing"
     /\ row' = row /\ evidence' = evidence
     /\ audit' = IF \A t \in Tasks : evidence[t] > 0
                   THEN "completed" ELSE "partially_completed"

LEMMA StepMovesAudit ==
  ASSUME TypeOK, Next
  PROVE  AuditMoves
<1>1. ASSUME NEW s \in Slots, PassBoundary(s)
      PROVE  AuditMoves
  BY <1>1 DEF PassBoundary, AuditMoves
<1>2. CASE CancelAudit
  <2>1. \A t \in Tasks : row'[t].status \in Terminal
    <3>. SUFFICES ASSUME NEW t \in Tasks PROVE row'[t].status \in Terminal
      OBVIOUS
    <3>1. row'[t] = IF row[t].status \in Terminal THEN row[t]
                    ELSE Finalize(row[t], "cancelled")
      BY <1>2 DEF CancelAudit
    <3>2. row[t] \in Row /\ "cancelled" \in Terminal
      BY DEF TypeOK, Terminal
    <3>3. Finalize(row[t], "cancelled").status = "cancelled"
      BY <3>2, FinalizeRow
    <3>. QED BY <3>1, <3>2, <3>3
  <2>2. NothingRemains'
    BY <2>1 DEF NothingRemains
  <2>. QED BY <1>2, <2>2 DEF CancelAudit, AuditMoves
<1>3. ASSUME NEW s \in Slots, CountTerminal(s)
      PROVE  AuditMoves
  BY <1>3 DEF CountTerminal, AuditMoves, taskVars, TypeOK
<1>4. ASSUME NEW s \in Slots, Analyze(s)
      PROVE  AuditMoves
  BY <1>4 DEF Analyze, AuditMoves, taskVars
<1>5. CASE audit' = audit
  BY <1>5 DEF AuditMoves
<1>. QED
  BY <1>1, <1>2, <1>3, <1>4, <1>5
  DEF Next, Execute, Sweep, Claim, StopAtBoundary, QueueCancel, Reject,
      RecordCapacityWait, QueuePark, StartCall, Persist, PersistSuccess,
      PersistFailure, BillingRefused, DiscardAnswer, QueueSucceed, QueueFail,
      QueueRetry, Report, RecordCrash, CrashRelease, CountSucceeded, SweepRelease,
      Raise, DeadlinePasses, Die

\* Once the audit ended, or its analysis began, every task is terminal.  An audit
\* that is being analyzed must be in it: it ends without another look at the rows.
EndedQuietly ==
  audit \in AuditTerminal \cup {"analyzing"} => NothingRemains

LEMMA EndedQuietlyStep ==
  BaseInv /\ EndedQuietly /\ [Next]_vars => EndedQuietly'
<1>. SUFFICES ASSUME BaseInv, EndedQuietly, [Next]_vars PROVE EndedQuietly'
  OBVIOUS
<1>1. CASE Next
  <2>1. RowsMove /\ AuditMoves
    BY <1>1, StepMovesRows, StepMovesAudit DEF BaseInv
  <2>2. NothingRemains => NothingRemains'
    BY <2>1 DEF RowsMove, NothingRemains
  <2>. QED
    BY <2>1, <2>2 DEF AuditMoves, EndedQuietly, AuditTerminal
<1>2. CASE UNCHANGED vars
  BY <1>2 DEF vars, taskVars, EndedQuietly, NothingRemains
<1>. QED BY <1>1, <1>2

LEMMA EndedQuietlyHolds == Spec => []EndedQuietly
<1>1. Init => EndedQuietly
  BY DEF Init, EndedQuietly, AuditTerminal
<1>. QED BY <1>1, EndedQuietlyStep, BaseInvHolds, PTL DEF Spec

\* No run leaves an open task behind a terminal audit: the count of terminal rows,
\* the cancel request and the analysis end it only when every row ended, and no
\* row ever opens again.
THEOREM TerminalAuditIsQuietHolds == Spec => []TerminalAuditIsQuiet
<1>1. EndedQuietly => TerminalAuditIsQuiet
  BY DEF EndedQuietly, TerminalAuditIsQuiet, NothingRemains
<1>. QED BY <1>1, EndedQuietlyHolds, PTL

\* A terminal audit takes no answer, no evidence and no debit any more: whoever
\* still executes a task of it finds the audit over or the row ended.
THEOREM NothingRecordedHolds == Spec => NothingRecordedAfterTheEnd
<1>1. ASSUME BaseInv, EndedQuietly, Next, audit \in AuditTerminal
      PROVE  UNCHANGED <<audit, row, evidence, billed>>
  <2>1. RowsMove /\ AuditMoves /\ NothingRemains
    BY <1>1, StepMovesRows, StepMovesAudit DEF BaseInv, EndedQuietly
  <2>2. audit' = audit
    BY <1>1, <2>1 DEF AuditMoves, AuditTerminal, AuditActive
  <2>3. row' = row
    <3>1. \A t \in Tasks : row'[t] = row[t]
      BY <2>1 DEF RowsMove, NothingRemains
    <3>2. row \in [Tasks -> Row] /\ row' \in [Tasks -> Row]
      BY <1>1, <2>1 DEF BaseInv, TypeOK, RowsMove
    <3>. QED BY <3>1, <3>2
  <2>4. evidence' = evidence /\ billed' = billed
    BY <1>1
    DEF Next, Execute, Sweep, Claim, StopAtBoundary, PassBoundary, QueueCancel,
        Reject, RecordCapacityWait, QueuePark, StartCall, Persist, PersistSuccess,
        PersistFailure, BillingRefused, DiscardAnswer, QueueSucceed, QueueFail,
        QueueRetry, Report, RecordCrash, CrashRelease, CountSucceeded,
        CountTerminal, Analyze, SweepRelease, CancelAudit, Raise, DeadlinePasses,
        Die, LockOwnedTask, taskVars, credits
  <2>. QED BY <2>2, <2>3, <2>4
<1>2. BaseInv /\ EndedQuietly /\ [Next]_vars
        => [(audit \in AuditTerminal) => UNCHANGED <<audit, row, evidence, billed>>]_vars
  BY <1>1
<1>. QED
  BY <1>2, BaseInvHolds, EndedQuietlyHolds, PTL DEF Spec, NothingRecordedAfterTheEnd

-----------------------------------------------------------------------------
\* Outcomes and evidence

\* A succeeded row, and whatever leads to a success - a slot about to report one,
\* a slot that counted one, an audit under analysis - rests on an artifact.
Evidenced ==
  /\ \A t \in Tasks : row[t].status = "succeeded" => evidence[t] > 0
  /\ \A s \in Slots : pc[s] = "to_succeed" => evidence[work[s]] > 0
  /\ \A s \in Slots : sawSuccess[s] => \E t \in Tasks : evidence[t] > 0
  /\ audit = "analyzing" => \E t \in Tasks : evidence[t] > 0

\* Evidence only grows, and only for the task whose answer is being persisted.
EvidenceMoves ==
  \/ evidence' = evidence
  \/ \E s \in Slots : PersistSuccess(s)

LEMMA StepMovesEvidence ==
  ASSUME Next
  PROVE  EvidenceMoves
BY DEF EvidenceMoves, Next, Execute, Sweep, Claim, StopAtBoundary, PassBoundary,
       QueueCancel, Reject, RecordCapacityWait, QueuePark, StartCall, Persist,
       PersistFailure, BillingRefused, DiscardAnswer, QueueSucceed, QueueFail,
       QueueRetry, Report, RecordCrash, CrashRelease, CountSucceeded,
       CountTerminal, Analyze, SweepRelease, CancelAudit, Raise, DeadlinePasses,
       Die, taskVars

LEMMA EvidenceGrows ==
  ASSUME TypeOK, EvidenceMoves
  PROVE  \A t \in Tasks : evidence[t] > 0 => evidence'[t] > 0
<1>1. ASSUME NEW s \in Slots, PersistSuccess(s)
      PROVE  \A t \in Tasks : evidence[t] > 0 => evidence'[t] > 0
  <2>1. evidence' = [evidence EXCEPT ![work[s]] = evidence[work[s]] + 1]
    BY <1>1 DEF PersistSuccess
  <2>2. evidence \in [Tasks -> Nat]
    BY DEF TypeOK
  <2>. QED BY <2>1, <2>2
<1>. QED BY <1>1 DEF EvidenceMoves

\* Which steps make a row succeeded: the report of a slot that still holds it.
LEMMA SuccessIsReported ==
  ASSUME BaseInv, Next, NEW t \in Tasks,
         row[t].status # "succeeded", row'[t].status = "succeeded"
  PROVE  \E s \in Slots : pc[s] = "to_succeed" /\ work[s] = t
<1>0. row \in [Tasks -> Row] /\ row[t] \in Row /\ TypeOK
  BY DEF BaseInv, TypeOK
<1>1. ASSUME NEW u, NEW q, SetRow(u, q), u = t => q.status # "succeeded"
      PROVE  FALSE
  BY <1>0, <1>1 DEF SetRow
<1>2. /\ Finalize(row[t], "cancelled").status # "succeeded"
      /\ Finalize(row[t], "failed").status # "succeeded"
      /\ Postpone(row[t], "capacity_wait", TRUE).status # "succeeded"
      /\ Postpone(row[t], "retry_wait", TRUE).status # "succeeded"
      /\ Reclaim(row[t]).status # "succeeded"
      /\ Begin(row[t]).status # "succeeded"
      /\ \A o \in Owners : Lease(row[t], o).status # "succeeded"
      /\ [row[t] EXCEPT !.attempts = row[t].attempts + 1].status # "succeeded"
  BY <1>0 DEF Row, Finalize, Postpone, Reclaim, Begin, Lease, Unleased
<1>3. ASSUME NEW s \in Slots, Sweep(s) \/ Claim(s)
      PROVE  FALSE
  BY <1>1, <1>2, <1>3, SlotAssumption DEF Sweep, Claim
<1>4. ASSUME NEW s \in Slots,
             \/ QueueCancel(s) \/ Reject(s) \/ QueuePark(s) \/ StartCall(s)
             \/ PersistSuccess(s) \/ PersistFailure(s) \/ RecordCrash(s)
             \/ QueueFail(s) \/ QueueRetry(s)
      PROVE  FALSE
  BY <1>1, <1>2, <1>4
  DEF QueueCancel, Reject, QueuePark, StartCall, PersistSuccess, PersistFailure,
      RecordCrash, QueueFail, QueueRetry, Report
<1>5. ASSUME NEW s \in Slots, QueueSucceed(s)
      PROVE  pc[s] = "to_succeed" /\ work[s] = t
  BY <1>1, <1>5 DEF QueueSucceed, Report
<1>6. CASE CancelAudit
  BY <1>2, <1>6 DEF CancelAudit
<1>7. CASE row' = row
  BY <1>7
<1>. QED
  BY <1>3, <1>4, <1>5, <1>6, <1>7
  DEF Next, Execute, StopAtBoundary, PassBoundary, RecordCapacityWait, Persist,
      BillingRefused, DiscardAnswer, CrashRelease, CountSucceeded, CountTerminal,
      Analyze, SweepRelease, Raise, DeadlinePasses, Die, taskVars

\* How a slot moves, as far as the invariants tell its phases apart: it stays, it
\* begins a call, it is about to report an outcome whose credits the same
\* transaction released, or it is in none of these phases.
Reporting == {"to_cancel", "to_succeed", "to_fail"}

SlotMoves(u) ==
  \/ pc'[u] = pc[u] /\ work'[u] = work[u]
  \/ pc'[u] = "calling" /\ StartCall(u)
  \/ pc'[u] = "to_succeed" /\ PersistSuccess(u) /\ work'[u] = work[u]
  \/ pc'[u] \in {"to_cancel", "to_fail"} /\ ReleaseCredits(work[u]) /\ work'[u] = work[u]
  \/ pc'[u] \notin Reporting \cup {"calling"}

LEMMA GoToMoves ==
  ASSUME TypeOK, NEW s \in Slots, NEW phase \in Phase, GoTo(s, phase),
         NEW u \in Slots
  PROVE  /\ u # s => pc'[u] = pc[u] /\ work'[u] = work[u]
         /\ u = s => pc'[u] = phase /\ (phase # "idle" => work'[u] = work[u])
  BY DEF TypeOK, GoTo

LEMMA StepMovesSlots ==
  ASSUME TypeOK, Next, NEW u \in Slots
  PROVE  SlotMoves(u)
<1>0. /\ pc \in [Slots -> Phase] /\ work \in [Slots -> Tasks \cup {NoTask}]
      /\ Trying \cup Handling \cup Closing \cup {"idle"} \subseteq Phase
  BY DEF TypeOK, Phase
<1>1. ASSUME NEW s \in Slots, NEW phase \in Phase, GoTo(s, phase),
             phase \notin Reporting \cup {"calling"}
      PROVE  SlotMoves(u)
  BY <1>1, GoToMoves DEF SlotMoves
<1>2. ASSUME NEW s \in Slots, StopAtBoundary(s)
      PROVE  SlotMoves(u)
  <2>1. PICK phase \in {"to_cancel", "to_fail"} : GoTo(s, phase)
    BY <1>2 DEF StopAtBoundary
  <2>2. phase \in Phase /\ phase # "idle"
    BY DEF Phase, Trying
  <2>. QED BY <1>2, <2>1, <2>2, GoToMoves DEF StopAtBoundary, SlotMoves
<1>3. ASSUME NEW s \in Slots, Reject(s)
      PROVE  SlotMoves(u)
  <2>1. "to_fail" \in Phase /\ "finalize" \in Phase
    BY DEF Phase, Trying, Closing
  <2>2. CASE ReleaseCredits(work[s]) /\ GoTo(s, "to_fail")
    BY <2>1, <2>2, GoToMoves DEF SlotMoves
  <2>3. CASE GoTo(s, "finalize")
    BY <1>1, <2>1, <2>3 DEF Reporting
  <2>. QED BY <1>3, <2>2, <2>3 DEF Reject
<1>4. ASSUME NEW s \in Slots, StartCall(s)
      PROVE  SlotMoves(u)
  <2>1. "calling" \in Phase /\ "finalize" \in Phase
    BY DEF Phase, Trying, Closing
  <2>2. CASE GoTo(s, "calling")
    BY <1>4, <2>1, <2>2, GoToMoves DEF SlotMoves
  <2>3. CASE GoTo(s, "finalize")
    BY <1>1, <2>1, <2>3 DEF Reporting
  <2>. QED BY <1>4, <2>2, <2>3 DEF StartCall
<1>5. ASSUME NEW s \in Slots, PersistSuccess(s)
      PROVE  SlotMoves(u)
  <2>1. "to_succeed" \in Phase /\ GoTo(s, "to_succeed")
    BY <1>5 DEF Phase, Trying, PersistSuccess
  <2>. QED BY <1>5, <2>1, GoToMoves DEF SlotMoves
<1>6. ASSUME NEW s \in Slots, PersistFailure(s)
      PROVE  SlotMoves(u)
  <2>1. "to_fail" \in Phase /\ "to_retry" \in Phase
    BY DEF Phase, Trying
  <2>2. CASE ReleaseCredits(work[s]) /\ GoTo(s, "to_fail")
    BY <2>1, <2>2, GoToMoves DEF SlotMoves
  <2>3. CASE GoTo(s, "to_retry")
    BY <1>1, <2>1, <2>3 DEF Reporting
  <2>. QED BY <1>6, <2>2, <2>3 DEF PersistFailure
<1>7. ASSUME NEW s \in Slots,
             \E phase \in {"prepare", "finalize", "to_park", "crashed",
                           "crash_release", "idle"} : GoTo(s, phase)
      PROVE  SlotMoves(u)
  BY <1>0, <1>1, <1>7 DEF Trying, Handling, Closing, Reporting
<1>8. ASSUME NEW s \in Slots, NEW phase, pc' = [pc EXCEPT ![s] = phase],
             \A v \in Slots \ {s} : work'[v] = work[v],
             phase \notin Reporting \cup {"calling"}
      PROVE  SlotMoves(u)
  BY <1>0, <1>8 DEF SlotMoves
<1>9. ASSUME NEW s \in Slots, Sweep(s)
      PROVE  SlotMoves(u)
  <2>1. \/ pc' = pc /\ work' = work
        \/ /\ pc' = [pc EXCEPT ![s] = "sweep_release"]
           /\ \E t \in Tasks : work' = [work EXCEPT ![s] = t]
    BY <1>9 DEF Sweep
  <2>2. CASE pc' = pc /\ work' = work
    BY <2>2 DEF SlotMoves
  <2>. QED BY <1>0, <1>8, <2>1, <2>2 DEF Reporting
<1>10. ASSUME NEW s \in Slots, Claim(s)
       PROVE  SlotMoves(u)
  <2>1. PICK t \in Tasks : work' = [work EXCEPT ![s] = t]
    BY <1>10 DEF Claim
  <2>. QED BY <1>0, <1>8, <1>10, <2>1 DEF Claim, Reporting
<1>11. ASSUME NEW s \in Slots, CountSucceeded(s) \/ CountTerminal(s)
       PROVE  SlotMoves(u)
  <2>1. CASE CountSucceeded(s)
    BY <1>0, <1>7, <1>8, <2>1 DEF CountSucceeded, Reporting
  <2>2. CASE CountTerminal(s)
    <3>1. PICK next \in {"analyze", "idle"} :
            /\ pc' = [pc EXCEPT ![s] = next]
            /\ work' = IF next = "idle" THEN [work EXCEPT ![s] = NoTask] ELSE work
      BY <2>2 DEF CountTerminal
    <3>. QED BY <1>0, <1>8, <3>1 DEF Reporting
  <2>. QED BY <1>11, <2>1, <2>2
<1>12. ASSUME NEW s \in Slots, Raise(s)
       PROVE  SlotMoves(u)
  <2>1. \E phase \in {"crashed", "finalize", "idle"} : pc' = [pc EXCEPT ![s] = phase]
    BY <1>12 DEF Raise
  <2>2. \A v \in Slots \ {s} : work'[v] = work[v]
    BY <1>0, <1>12 DEF Raise
  <2>. QED BY <1>8, <2>1, <2>2 DEF Reporting
<1>13. ASSUME NEW o \in Owners, Die(o)
       PROVE  SlotMoves(u)
  BY <1>13 DEF Die, SlotMoves, Reporting
<1>14. CASE pc' = pc /\ work' = work
  BY <1>14 DEF SlotMoves
<1>15. ASSUME NEW s \in Slots, QueueSucceed(s) \/ QueueFail(s) \/ QueueRetry(s)
       PROVE  SlotMoves(u)
  BY <1>7, <1>15 DEF QueueSucceed, QueueFail, QueueRetry, Report
<1>16. ASSUME NEW s \in Slots,
              \/ PassBoundary(s) \/ QueueCancel(s) \/ RecordCapacityWait(s)
              \/ QueuePark(s) \/ BillingRefused(s) \/ DiscardAnswer(s)
              \/ RecordCrash(s) \/ CrashRelease(s) \/ Analyze(s) \/ SweepRelease(s)
       PROVE  SlotMoves(u)
  BY <1>7, <1>16
  DEF PassBoundary, QueueCancel, RecordCapacityWait, QueuePark, BillingRefused,
      DiscardAnswer, RecordCrash, CrashRelease, Analyze, SweepRelease
<1>. QED
  BY <1>2, <1>3, <1>4, <1>5, <1>6, <1>9, <1>10, <1>11, <1>12, <1>13, <1>14, <1>15, <1>16
  DEF Next, Execute, Persist, CancelAudit, DeadlinePasses, slotVars

\* A slot believes in a success only while or after it looked at one.
LEMMA SuccessIsCounted ==
  ASSUME TypeOK, Next, NEW s \in Slots, sawSuccess'[s]
  PROVE  sawSuccess[s] \/ \E t \in Tasks : row[t].status = "succeeded"
<1>0. sawSuccess \in [Slots -> BOOLEAN]
  BY DEF TypeOK
<1>1. ASSUME NEW u \in Slots, CountSucceeded(u)
      PROVE  sawSuccess[s] \/ \E t \in Tasks : row[t].status = "succeeded"
  <2>1. CASE UNCHANGED sawSuccess
    BY <2>1
  <2>2. CASE sawSuccess' = [sawSuccess EXCEPT ![u] =
                              \E t \in Tasks : row[t].status = "succeeded"]
    BY <1>0, <2>2
  <2>. QED BY <1>1, <2>1, <2>2 DEF CountSucceeded, GoTo
<1>2. ASSUME NEW u \in Slots, sawSuccess' = [sawSuccess EXCEPT ![u] = FALSE]
      PROVE  sawSuccess[s]
  BY <1>0, <1>2
<1>3. ASSUME NEW o \in Owners, Die(o)
      PROVE  sawSuccess[s]
  BY <1>3 DEF Die
<1>4. CASE sawSuccess' = sawSuccess
  BY <1>4
<1>. QED
  BY <1>1, <1>2, <1>3, <1>4
  DEF Next, Execute, Sweep, Claim, StopAtBoundary, PassBoundary, QueueCancel, Reject,
      RecordCapacityWait, QueuePark, StartCall, Persist, PersistSuccess,
      PersistFailure, BillingRefused, DiscardAnswer, QueueSucceed, QueueFail,
      QueueRetry, Report, RecordCrash, CrashRelease, CountTerminal, Analyze,
      SweepRelease, CancelAudit, Raise, DeadlinePasses, GoTo, slotVars

LEMMA EvidencedStep ==
  BaseInv /\ Evidenced /\ [Next]_vars => Evidenced'
<1>. SUFFICES ASSUME BaseInv, Evidenced, [Next]_vars PROVE Evidenced'
  OBVIOUS
<1>1. CASE Next
  <2>0. TypeOK
    BY DEF BaseInv
  <2>1. \A t \in Tasks : evidence[t] > 0 => evidence'[t] > 0
    BY <1>1, <2>0, StepMovesEvidence, EvidenceGrows
  <2>2. ASSUME NEW t \in Tasks, row'[t].status = "succeeded"
        PROVE  evidence'[t] > 0
    BY <1>1, <2>1, <2>2, SuccessIsReported DEF Evidenced
  <2>3. ASSUME NEW s \in Slots, pc'[s] = "to_succeed"
        PROVE  evidence'[work'[s]] > 0
    <3>1. CASE PersistSuccess(s) /\ work'[s] = work[s]
      <4>1. work[s] \in Tasks
        BY <2>0, <3>1, BusySlot DEF PersistSuccess, Busy, Phase, Trying
      <4>2. evidence' = [evidence EXCEPT ![work[s]] = evidence[work[s]] + 1]
        BY <3>1 DEF PersistSuccess
      <4>3. evidence \in [Tasks -> Nat]
        BY <2>0 DEF TypeOK
      <4>. QED BY <3>1, <4>1, <4>2, <4>3
    <3>2. CASE pc'[s] = pc[s] /\ work'[s] = work[s]
      <4>1. work[s] \in Tasks
        BY <2>0, <2>3, <3>2, BusySlot DEF Busy, Phase, Trying
      <4>. QED BY <2>1, <2>3, <3>2, <4>1 DEF Evidenced
    <3>. QED
      BY <1>1, <2>0, <2>3, <3>1, <3>2, StepMovesSlots DEF SlotMoves, Reporting
  <2>4. ASSUME NEW s \in Slots, sawSuccess'[s]
        PROVE  \E t \in Tasks : evidence'[t] > 0
    BY <1>1, <2>0, <2>1, <2>4, SuccessIsCounted DEF Evidenced
  <2>5. ASSUME audit' = "analyzing"
        PROVE  \E t \in Tasks : evidence'[t] > 0
    BY <1>1, <2>0, <2>1, <2>5, StepMovesAudit DEF AuditMoves, Evidenced
  <2>. QED BY <2>2, <2>3, <2>4, <2>5 DEF Evidenced
<1>2. CASE UNCHANGED vars
  BY <1>2 DEF vars, taskVars, slotVars, Evidenced
<1>. QED BY <1>1, <1>2

LEMMA EvidencedInit == Init => Evidenced
  BY DEF Init, Evidenced, NewRow

LEMMA OutcomesStep ==
  BaseInv /\ Evidenced /\ OutcomesRestOnEvidence /\ [Next]_vars
    => OutcomesRestOnEvidence'
<1>. SUFFICES ASSUME BaseInv, Evidenced, OutcomesRestOnEvidence, [Next]_vars
              PROVE  OutcomesRestOnEvidence'
  OBVIOUS
<1>1. Evidenced'
  BY EvidencedStep
<1>2. CASE Next
  <2>1. AuditMoves /\ EvidenceMoves /\ evidence \in [Tasks -> Nat]
    BY <1>2, StepMovesAudit, StepMovesEvidence DEF BaseInv, TypeOK
  <2>2. CASE audit' = audit /\ evidence' = evidence
    BY <1>1, <2>2 DEF OutcomesRestOnEvidence, Evidenced
  <2>3. CASE audit \notin AuditTerminal /\ audit' = audit
    BY <1>1, <2>3 DEF OutcomesRestOnEvidence, Evidenced, AuditTerminal
  <2>4. CASE audit' # audit
    <3>1. CASE audit' \in {"running", "cancelled", "failed", "analyzing"}
      BY <1>1, <3>1 DEF OutcomesRestOnEvidence, Evidenced
    <3>2. CASE /\ audit = "analyzing" /\ evidence' = evidence
               /\ audit' = IF \A t \in Tasks : evidence[t] > 0
                             THEN "completed" ELSE "partially_completed"
      <4>1. \A t \in Tasks : evidence[t] > 0 \/ evidence[t] = 0
        BY <2>1
      <4>. QED BY <1>1, <3>2, <4>1 DEF OutcomesRestOnEvidence, Evidenced
    <3>. QED BY <2>1, <2>4, <3>1, <3>2 DEF AuditMoves
  <2>5. ASSUME NEW s \in Slots, PersistSuccess(s)
        PROVE  audit \notin AuditTerminal /\ audit' = audit
    BY <2>5 DEF PersistSuccess, LockOwnedTask
  <2>. QED BY <2>1, <2>2, <2>3, <2>4, <2>5 DEF EvidenceMoves
<1>3. CASE UNCHANGED vars
  BY <1>3 DEF vars, taskVars, OutcomesRestOnEvidence
<1>. QED BY <1>2, <1>3

\* A succeeded task has its artifact, a completed audit one for each task, a
\* partially completed one for some and not for all: nothing is reported on the
\* strength of a status that a lapsed lease or a cancel request may have changed.
THEOREM OutcomesRestOnEvidenceHolds == Spec => []OutcomesRestOnEvidence
<1>1. Init => OutcomesRestOnEvidence
  BY DEF Init, OutcomesRestOnEvidence, NewRow
<1>. QED
  BY <1>1, EvidencedInit, EvidencedStep, OutcomesStep, BaseInvHolds, PTL DEF Spec

-----------------------------------------------------------------------------
\* Credits

\* The slots whose provider call for the task is under way.
InFlight(t) == {s \in Slots : pc[s] = "calling" /\ work[s] = t}

\* Every debit stands for a call of its own: what is debited and what is still
\* under way together are not more than what was sent.
Covered ==
  \A t \in Funded :
    /\ reserve[t] + billed[t] <= MaxAttempts
    /\ billed[t] + Cardinality(InFlight(t)) <= calls[t]
    /\ evidence[t] <= billed[t]

\* Who is about to end a row has released its credits before.
ReleasedFirst ==
  \A s \in Slots : pc[s] \in Reporting => reserve[work[s]] = 0

Releasing(t) ==
  \E s \in Slots : pc[s] \in {"crash_release", "sweep_release"} /\ work[s] = t

\* Credits of an ended task are back or on their way.
Returned ==
  \A t \in Funded : Untroubled /\ row[t].status \in Terminal =>
    reserve[t] = 0 \/ Releasing(t)

\* Nobody adds to a reservation after the audit was created.
LEMMA ReserveShrinks ==
  ASSUME BaseInv, Next, NEW t \in Tasks
  PROVE  reserve'[t] <= reserve[t]
<1>0. reserve \in [Tasks -> Nat] /\ TypeOK
  BY DEF BaseInv, TypeOK
<1>1. ASSUME NEW u, ReleaseCredits(u)
      PROVE  reserve'[t] <= reserve[t]
  BY <1>0, <1>1 DEF ReleaseCredits
<1>2. ASSUME NEW s \in Slots, PersistFailure(s)
      PROVE  reserve'[t] <= reserve[t]
  <2>1. \/ ReleaseCredits(work[s])
        \/ reserve' = reserve
        \/ reserve' = [reserve EXCEPT ![work[s]] = reserve[work[s]] - 1]
    BY <1>2 DEF PersistFailure
  <2>. QED BY <1>0, <1>1, <2>1
<1>3. CASE CancelAudit
  BY <1>0, <1>3 DEF CancelAudit
<1>4. CASE reserve' = reserve
  BY <1>0, <1>4
<1>. QED
  BY <1>1, <1>2, <1>3, <1>4
  DEF Next, Execute, Sweep, Claim, StopAtBoundary, PassBoundary, QueueCancel, Reject,
      RecordCapacityWait, QueuePark, StartCall, Persist, PersistSuccess,
      BillingRefused, DiscardAnswer, QueueSucceed, QueueFail, QueueRetry, Report,
      RecordCrash, CrashRelease, CountSucceeded, CountTerminal, Analyze,
      SweepRelease, Raise, DeadlinePasses, Die, credits

LEMMA ReleasedFirstStep ==
  BaseInv /\ ReleasedFirst /\ [Next]_vars => ReleasedFirst'
<1>. SUFFICES ASSUME BaseInv, ReleasedFirst, [Next]_vars PROVE ReleasedFirst'
  OBVIOUS
<1>1. CASE Next
  <2>. SUFFICES ASSUME NEW s \in Slots, pc'[s] \in Reporting
                PROVE  reserve'[work'[s]] = 0
    BY DEF ReleasedFirst
  <2>0. TypeOK /\ reserve \in [Tasks -> Nat] /\ CountTypes'
    BY <1>1, StepKeepsCountTypes DEF BaseInv, TypeOK
  <2>1. CASE pc'[s] = pc[s] /\ work'[s] = work[s]
    <3>1. work[s] \in Tasks /\ reserve[work[s]] = 0
      BY <2>0, <2>1, BusySlot DEF ReleasedFirst, Reporting, Busy, Phase, Trying
    <3>2. reserve'[work[s]] <= 0 /\ reserve'[work[s]] \in Nat
      BY <1>1, <2>0, <3>1, ReserveShrinks DEF CountTypes
    <3>. QED BY <2>1, <3>2
  <2>2. ASSUME ReleaseCredits(work[s]), work'[s] = work[s], work[s] \in Tasks
        PROVE  reserve'[work'[s]] = 0
    BY <2>0, <2>2 DEF ReleaseCredits
  <2>3. CASE pc'[s] \in {"to_cancel", "to_fail"} /\ ReleaseCredits(work[s])
               /\ work'[s] = work[s]
    <3>1. work'[s] \in Tasks
      BY <1>1, <2>0, <2>3, StepKeepsSlotTypes DEF SlotTypes
    <3>. QED BY <2>2, <2>3, <3>1
  <2>4. CASE PersistSuccess(s) /\ work'[s] = work[s]
    <3>1. work[s] \in Tasks
      BY <2>0, <2>4, BusySlot DEF PersistSuccess, Busy, Phase, Trying
    <3>. QED BY <2>2, <2>4, <3>1 DEF PersistSuccess
  <2>. QED
    BY <1>1, <2>0, <2>1, <2>3, <2>4, StepMovesSlots DEF SlotMoves, Reporting
<1>2. CASE UNCHANGED vars
  BY <1>2 DEF vars, credits, slotVars, ReleasedFirst
<1>. QED BY <1>1, <1>2

-----------------------------------------------------------------------------
\* What is covered stays covered

LEMMA InFlightFinite ==
  \A t \in Tasks : IsFiniteSet(InFlight(t)) /\ Cardinality(InFlight(t)) \in Nat
<1>. SUFFICES ASSUME NEW t \in Tasks
              PROVE  IsFiniteSet(InFlight(t)) /\ Cardinality(InFlight(t)) \in Nat
  OBVIOUS
<1>1. InFlight(t) \subseteq Slots /\ IsFiniteSet(Slots)
  BY SlotAssumption DEF InFlight
<1>2. IsFiniteSet(InFlight(t))
  BY <1>1, FS_Subset
<1>. QED BY <1>2, FS_CardinalityType

\* A step that begins no call leaves no more calls under way.
LEMMA InFlightShrinks ==
  ASSUME TypeOK, Next, \A s \in Slots : ~StartCall(s), NEW t \in Tasks
  PROVE  InFlight(t)' \subseteq InFlight(t)
<1>. SUFFICES ASSUME NEW u \in Slots, pc'[u] = "calling", work'[u] = t
              PROVE  pc[u] = "calling" /\ work[u] = t
  BY DEF InFlight
<1>1. SlotMoves(u)
  BY StepMovesSlots
<1>. QED BY <1>1 DEF SlotMoves

LEMMA SmallerCount ==
  ASSUME NEW S, NEW T, IsFiniteSet(S), T \subseteq S
  PROVE  Cardinality(T) \in Nat /\ Cardinality(T) <= Cardinality(S)
<1>1. IsFiniteSet(T) /\ Cardinality(T) <= Cardinality(S)
  BY FS_Subset
<1>. QED BY <1>1, FS_CardinalityType

LEMMA CoveredBill ==
  ASSUME BaseInv, Next, Covered, NEW s \in Slots,
         PersistSuccess(s) \/ PersistFailure(s), NEW t \in Funded
  PROVE  billed'[t] + Cardinality(InFlight(t)') <= calls'[t]
<1>0. TypeOK /\ t \in Tasks /\ IsFiniteSet(InFlight(t))
  BY InFlightFinite, FundedAssumption DEF BaseInv
<1>1. billed[t] \in Nat /\ calls'[t] = calls[t] /\ calls[t] \in Nat
  BY <1>0 DEF TypeOK, PersistSuccess, PersistFailure
<1>2. \A u \in Slots : ~StartCall(u)
  <2>. SUFFICES ASSUME NEW u \in Slots, StartCall(u) PROVE FALSE
    OBVIOUS
  <2>1. pc[s] = "calling" /\ pc[u] = "prepare"
    BY DEF StartCall, PersistSuccess, PersistFailure
  <2>2. pc'[u] # "prepare"
    BY <1>0, <2>1 DEF StartCall, GoTo, TypeOK
  <2>3. pc'[u] = pc[u]
    BY <1>0, <2>1 DEF PersistSuccess, PersistFailure, GoTo, TypeOK
  <2>. QED BY <2>1, <2>2, <2>3
<1>3. InFlight(t)' \subseteq InFlight(t)
  BY <1>0, <1>2, InFlightShrinks
<1>4. CASE work[s] # t
  <2>1. billed'[t] = billed[t]
    BY <1>0, <1>4 DEF PersistSuccess, PersistFailure, BillCall, TypeOK
  <2>2. /\ Cardinality(InFlight(t)') \in Nat
        /\ Cardinality(InFlight(t)') <= Cardinality(InFlight(t))
    BY <1>0, <1>3, SmallerCount
  <2>. QED BY <1>0, <1>1, <2>1, <2>2, InFlightFinite DEF Covered
<1>5. CASE work[s] = t
  <2>1. billed'[t] = billed[t] + 1
    BY <1>0, <1>5 DEF PersistSuccess, PersistFailure, BillCall, TypeOK
  <2>2. s \in InFlight(t)
    BY <1>5 DEF InFlight, PersistSuccess, PersistFailure
  <2>3. s \notin InFlight(t)'
    BY <1>0 DEF InFlight, PersistSuccess, PersistFailure, GoTo, TypeOK
  <2>4. InFlight(t)' \subseteq InFlight(t) \ {s}
    BY <1>3, <2>3
  <2>5. /\ IsFiniteSet(InFlight(t) \ {s})
        /\ Cardinality(InFlight(t) \ {s}) = Cardinality(InFlight(t)) - 1
    BY <1>0, <2>2, FS_RemoveElement
  <2>6. /\ Cardinality(InFlight(t)') \in Nat
        /\ Cardinality(InFlight(t)') <= Cardinality(InFlight(t) \ {s})
    BY <2>4, <2>5, SmallerCount
  <2>. QED BY <1>0, <1>1, <2>1, <2>5, <2>6, InFlightFinite DEF Covered
<1>. QED BY <1>4, <1>5

LEMMA CoveredCall ==
  ASSUME BaseInv, Next, Covered, NEW s \in Slots, StartCall(s), NEW t \in Funded
  PROVE  billed'[t] + Cardinality(InFlight(t)') <= calls'[t]
<1>0. TypeOK /\ t \in Tasks /\ IsFiniteSet(InFlight(t)) /\ Cardinality(InFlight(t)) \in Nat
  BY InFlightFinite, FundedAssumption DEF BaseInv
<1>1. billed'[t] = billed[t] /\ billed[t] \in Nat /\ calls[t] \in Nat
  BY <1>0 DEF TypeOK, StartCall, credits
<1>2. \A u \in Slots \ {s} : pc'[u] = pc[u] /\ work'[u] = work[u]
  BY <1>0 DEF TypeOK, StartCall, GoTo
<1>3. work'[s] = work[s]
  BY <1>0 DEF TypeOK, StartCall, GoTo
<1>4. CASE GoTo(s, "calling") /\ calls' = [calls EXCEPT ![work[s]] = calls[work[s]] + 1]
             /\ work[s] = t
  <2>1. InFlight(t)' \subseteq InFlight(t) \cup {s}
    BY <1>2 DEF InFlight
  <2>2. s \notin InFlight(t)
    BY DEF InFlight, StartCall
  <2>3. /\ IsFiniteSet(InFlight(t) \cup {s})
        /\ Cardinality(InFlight(t) \cup {s}) = Cardinality(InFlight(t)) + 1
    BY <1>0, <2>2, FS_AddElement
  <2>4. /\ Cardinality(InFlight(t)') \in Nat
        /\ Cardinality(InFlight(t)') <= Cardinality(InFlight(t) \cup {s})
    BY <2>1, <2>3, SmallerCount
  <2>5. calls'[t] = calls[t] + 1
    BY <1>0, <1>4 DEF TypeOK
  <2>. QED BY <1>0, <1>1, <2>3, <2>4, <2>5 DEF Covered
<1>5. CASE work[s] # t \/ GoTo(s, "finalize")
  <2>1. InFlight(t)' \subseteq InFlight(t)
    BY <1>0, <1>2, <1>3, <1>5 DEF InFlight, GoTo, TypeOK
  <2>2. /\ Cardinality(InFlight(t)') \in Nat
        /\ Cardinality(InFlight(t)') <= Cardinality(InFlight(t))
    BY <1>0, <2>1, SmallerCount
  <2>3. calls'[t] \in Nat /\ calls'[t] >= calls[t]
    BY <1>0 DEF StartCall, TypeOK
  <2>. QED BY <1>0, <1>1, <2>2, <2>3 DEF Covered
<1>. QED BY <1>4, <1>5 DEF StartCall

LEMMA CoveredStep == BaseInv /\ Covered /\ [Next]_vars => Covered'
<1>. SUFFICES ASSUME BaseInv, Covered, [Next]_vars PROVE Covered'
  OBVIOUS
<1>1. CASE Next
  <2>. SUFFICES ASSUME NEW t \in Funded
                PROVE  /\ reserve'[t] + billed'[t] <= MaxAttempts
                       /\ billed'[t] + Cardinality(InFlight(t)') <= calls'[t]
                       /\ evidence'[t] <= billed'[t]
    BY DEF Covered
  <2>0. /\ TypeOK /\ t \in Tasks /\ MaxAttempts \in Nat
        /\ reserve[t] \in Nat /\ billed[t] \in Nat /\ evidence[t] \in Nat
        /\ calls[t] \in Nat
    BY FundedAssumption, MaxAttemptsAssumption DEF BaseInv, TypeOK
  <2>1. /\ reserve[t] + billed[t] <= MaxAttempts
        /\ billed[t] + Cardinality(InFlight(t)) <= calls[t]
        /\ evidence[t] <= billed[t]
    BY DEF Covered
  <2>2. reserve'[t] <= reserve[t] /\ reserve'[t] \in Nat
    BY <1>1, <2>0, ReserveShrinks, StepKeepsCountTypes DEF CountTypes
  <2>3. ASSUME NEW s \in Slots, PersistSuccess(s)
        PROVE  /\ reserve'[t] + billed'[t] <= MaxAttempts
               /\ evidence'[t] <= billed'[t]
    <3>1. CASE work[s] = t
      <4>1. billed'[t] = billed[t] + 1 /\ evidence'[t] = evidence[t] + 1
        BY <2>0, <2>3, <3>1 DEF PersistSuccess, BillCall, TypeOK
      <4>2. reserve'[t] = 0 /\ reserve[t] > 0
        BY <2>0, <2>3, <3>1 DEF PersistSuccess, ReleaseCredits, CanBill, TypeOK
      <4>. QED BY <2>0, <2>1, <4>1, <4>2
    <3>2. CASE work[s] # t
      <4>1. billed'[t] = billed[t] /\ evidence'[t] = evidence[t]
        BY <2>0, <2>3, <3>2 DEF PersistSuccess, BillCall, TypeOK
      <4>. QED BY <2>0, <2>1, <2>2, <4>1
    <3>. QED BY <3>1, <3>2
  <2>4. ASSUME NEW s \in Slots, PersistFailure(s)
        PROVE  /\ reserve'[t] + billed'[t] <= MaxAttempts
               /\ evidence'[t] <= billed'[t]
    <3>0. evidence' = evidence
      BY <2>4 DEF PersistFailure
    <3>1. CASE work[s] = t
      <4>1. billed'[t] = billed[t] + 1
        BY <2>0, <2>4, <3>1 DEF PersistFailure, BillCall, TypeOK
      <4>2. reserve[t] > 0
        BY <2>4, <3>1 DEF PersistFailure, CanBill
      <4>3. \/ ReleaseCredits(t)
            \/ reserve' = [reserve EXCEPT ![t] = reserve[t] - 1]
        BY <2>4, <3>1 DEF PersistFailure
      <4>4. reserve'[t] = 0 \/ reserve'[t] = reserve[t] - 1
        BY <2>0, <4>3 DEF ReleaseCredits, TypeOK
      <4>. QED BY <2>0, <2>1, <3>0, <4>1, <4>2, <4>4
    <3>2. CASE work[s] # t
      <4>1. billed'[t] = billed[t]
        BY <2>0, <2>4, <3>2 DEF PersistFailure, BillCall, TypeOK
      <4>. QED BY <2>0, <2>1, <2>2, <3>0, <4>1
    <3>. QED BY <3>1, <3>2
  <2>5. CASE \E s \in Slots : PersistSuccess(s) \/ PersistFailure(s)
    BY <1>1, <2>3, <2>4, <2>5, CoveredBill
  <2>6. CASE \E s \in Slots : StartCall(s)
    <3>1. billed' = billed /\ evidence' = evidence
      BY <2>6 DEF StartCall, credits
    <3>. QED BY <1>1, <2>0, <2>1, <2>2, <2>6, <3>1, CoveredCall
  <2>7. CASE \A s \in Slots : ~(PersistSuccess(s) \/ PersistFailure(s) \/ StartCall(s))
    <3>1. billed' = billed /\ evidence' = evidence /\ calls' = calls
      BY <1>1, <2>7
      DEF Next, Execute, Sweep, Claim, StopAtBoundary, PassBoundary, QueueCancel,
          Reject, RecordCapacityWait, QueuePark, Persist, BillingRefused,
          DiscardAnswer, QueueSucceed, QueueFail, QueueRetry, Report, RecordCrash,
          CrashRelease, CountSucceeded, CountTerminal, Analyze, SweepRelease,
          CancelAudit, Raise, DeadlinePasses, Die, taskVars, credits
    <3>2. InFlight(t)' \subseteq InFlight(t)
      BY <1>1, <2>0, <2>7, InFlightShrinks
    <3>3. /\ Cardinality(InFlight(t)') \in Nat
          /\ Cardinality(InFlight(t)') <= Cardinality(InFlight(t))
      BY <2>0, <3>2, InFlightFinite, SmallerCount
    <3>. QED BY <2>0, <2>1, <2>2, <3>1, <3>3, InFlightFinite
  <2>. QED BY <2>5, <2>6, <2>7
<1>2. CASE UNCHANGED vars
  BY <1>2 DEF vars, credits, taskVars, slotVars, Covered, InFlight
<1>. QED BY <1>1, <1>2

-----------------------------------------------------------------------------
\* What an ended task reserved comes back

\* A step is one slot's, or a death, or nobody's.
LEMMA OneSlotMoves ==
  ASSUME TypeOK, NEW s \in Slots, Execute(s) \/ Sweep(s) \/ Claim(s) \/ Raise(s)
  PROVE  /\ pc[s] # "dead"
         /\ \A u \in Slots \ {s} : pc'[u] = pc[u] /\ work'[u] = work[u]
<1>0. pc \in [Slots -> Phase] /\ work \in [Slots -> Tasks \cup {NoTask}]
  BY DEF TypeOK
<1>1. pc[s] # "dead"
  BY DEF Execute, Sweep, Claim, StopAtBoundary, PassBoundary, QueueCancel, Reject,
      RecordCapacityWait, QueuePark, StartCall, Persist, PersistSuccess,
      PersistFailure, BillingRefused, DiscardAnswer, QueueSucceed, QueueFail,
      QueueRetry, Report, RecordCrash, CrashRelease, CountSucceeded, CountTerminal,
      Analyze, SweepRelease, Raise, Trying, Handling, Closing
<1>2. ASSUME \E phase : GoTo(s, phase)
      PROVE  \A u \in Slots \ {s} : pc'[u] = pc[u] /\ work'[u] = work[u]
  BY <1>0, <1>2 DEF GoTo
<1>3. CASE Sweep(s) \/ Claim(s)
  BY <1>0, <1>1, <1>3 DEF Sweep, Claim
<1>4. CASE Raise(s)
  BY <1>0, <1>1, <1>4 DEF Raise
<1>5. CASE CountSucceeded(s)
  BY <1>0, <1>1, <1>2, <1>5 DEF CountSucceeded
<1>6. CASE CountTerminal(s)
  BY <1>0, <1>1, <1>6 DEF CountTerminal
<1>7. CASE StopAtBoundary(s) \/ PassBoundary(s) \/ QueueCancel(s) \/ Reject(s)
  BY <1>1, <1>2, <1>7 DEF StopAtBoundary, PassBoundary, QueueCancel, Reject
<1>8. CASE RecordCapacityWait(s) \/ QueuePark(s) \/ StartCall(s) \/ Persist(s)
  BY <1>1, <1>2, <1>8
  DEF RecordCapacityWait, QueuePark, StartCall, Persist, PersistSuccess,
      PersistFailure, BillingRefused, DiscardAnswer
<1>9. CASE QueueSucceed(s) \/ QueueFail(s) \/ QueueRetry(s)
  BY <1>1, <1>2, <1>9 DEF QueueSucceed, QueueFail, QueueRetry, Report
<1>10. CASE RecordCrash(s) \/ CrashRelease(s) \/ Analyze(s) \/ SweepRelease(s)
  BY <1>1, <1>2, <1>10 DEF RecordCrash, CrashRelease, Analyze, SweepRelease
<1>. QED BY <1>3, <1>4, <1>5, <1>6, <1>7, <1>8, <1>9, <1>10 DEF Execute

\* A fault that happened is never undone.
LEMMA TroubleStays ==
  ASSUME TypeOK, Next, Untroubled'
  PROVE  /\ Untroubled
         /\ \A s \in Slots : ~Raise(s)
         /\ \A o \in Owners : ~Die(o)
<1>1. ASSUME NEW s \in Slots, Raise(s)
      PROVE  FALSE
  <2>1. errors' = errors + 1 /\ errors \in 0 .. MaxErrors /\ MaxErrors \in Nat
    BY <1>1, FaultAssumption DEF Raise, TypeOK
  <2>2. errors' = 0
    BY DEF Untroubled
  <2>. QED BY <2>1, <2>2
<1>2. ASSUME NEW o \in Owners, Die(o)
      PROVE  FALSE
  BY <1>2 DEF Die, Untroubled
<1>3. errors = 0
  <2>1. errors' = errors
    BY <1>1, <1>2
    DEF Next, Execute, Sweep, Claim, StopAtBoundary, PassBoundary, QueueCancel,
        Reject, RecordCapacityWait, QueuePark, StartCall, Persist, PersistSuccess,
        PersistFailure, BillingRefused, DiscardAnswer, QueueSucceed, QueueFail,
        QueueRetry, Report, RecordCrash, CrashRelease, CountSucceeded,
        CountTerminal, Analyze, SweepRelease, CancelAudit, DeadlinePasses, faults
  <2>. QED BY <2>1 DEF Untroubled
<1>4. ASSUME NEW u \in Slots
      PROVE  pc[u] # "dead"
  <2>1. CASE \E s \in Slots : Execute(s) \/ Sweep(s) \/ Claim(s) \/ Raise(s)
    <3>1. PICK s \in Slots : Execute(s) \/ Sweep(s) \/ Claim(s) \/ Raise(s)
      BY <2>1
    <3>2. CASE u = s
      BY <3>1, <3>2, OneSlotMoves
    <3>3. CASE u # s
      BY <3>1, <3>3, OneSlotMoves DEF Untroubled
    <3>. QED BY <3>2, <3>3
  <2>2. CASE CancelAudit \/ DeadlinePasses
    BY <2>2 DEF CancelAudit, DeadlinePasses, slotVars, Untroubled
  <2>. QED BY <1>2, <2>1, <2>2 DEF Next
<1>. QED BY <1>1, <1>2, <1>3, <1>4 DEF Untroubled

\* How a row ends: its credits are released with it, or were before, or the slot
\* that ended it goes on to release them.
LEMMA EndedRow ==
  ASSUME BaseInv, Next, NEW t \in Tasks,
         row[t].status \notin Terminal, row'[t].status \in Terminal
  PROVE  \/ \E s \in Slots : pc[s] \in Reporting /\ work[s] = t
         \/ Releasing(t)'
         \/ reserve'[t] = 0
<1>0. row \in [Tasks -> Row] /\ row[t] \in Row /\ TypeOK
  BY DEF BaseInv, TypeOK
<1>1. ASSUME NEW u, NEW q, SetRow(u, q), u = t => q.status \notin Terminal
      PROVE  FALSE
  BY <1>0, <1>1 DEF SetRow
<1>2. /\ Postpone(row[t], "capacity_wait", TRUE).status \notin Terminal
      /\ Postpone(row[t], "retry_wait", TRUE).status \notin Terminal
      /\ Begin(row[t]).status \notin Terminal
      /\ \A o \in Owners : Lease(row[t], o).status \notin Terminal
      /\ [row[t] EXCEPT !.attempts = row[t].attempts + 1].status \notin Terminal
  BY <1>0 DEF Row, Postpone, Begin, Lease, Unleased, Terminal
<1>3. ASSUME NEW s \in Slots, Sweep(s)
      PROVE  Releasing(t)'
  <2>1. PICK u \in Tasks :
          /\ SetRow(u, Reclaim(row[u]))
          /\ Reclaim(row[u]).status = "failed" =>
               /\ pc' = [pc EXCEPT ![s] = "sweep_release"]
               /\ work' = [work EXCEPT ![s] = u]
    BY <1>3 DEF Sweep
  <2>2. u = t
    BY <1>0, <2>1 DEF SetRow
  <2>3. row'[t] = Reclaim(row[t])
    BY <1>0, <2>1, <2>2 DEF SetRow
  <2>4. Reclaim(row[t]).status \in {"retry_wait", "failed"}
    BY <1>0, ReclaimRow
  <2>5. Reclaim(row[t]).status = "failed"
    BY <2>3, <2>4 DEF Terminal
  <2>6. pc'[s] = "sweep_release" /\ work'[s] = t
    BY <1>0, <2>1, <2>2, <2>5 DEF TypeOK
  <2>. QED BY <2>6 DEF Releasing
<1>4. ASSUME NEW s \in Slots,
             \/ Claim(s) \/ Reject(s) \/ QueuePark(s) \/ StartCall(s)
             \/ PersistSuccess(s) \/ PersistFailure(s) \/ QueueRetry(s)
      PROVE  FALSE
  BY <1>1, <1>2, <1>4, SlotAssumption
  DEF Claim, Reject, QueuePark, StartCall, PersistSuccess, PersistFailure,
      QueueRetry, Report
<1>5. ASSUME NEW s \in Slots, QueueCancel(s) \/ QueueSucceed(s) \/ QueueFail(s)
      PROVE  pc[s] \in Reporting /\ work[s] = t
  BY <1>1, <1>5 DEF QueueCancel, QueueSucceed, QueueFail, Report, Reporting
<1>6. ASSUME NEW s \in Slots, RecordCrash(s)
      PROVE  Releasing(t)'
  <2>1. Holds(s) /\ work[s] = t /\ GoTo(s, "crash_release")
    BY <1>1, <1>6 DEF RecordCrash
  <2>2. pc'[s] = "crash_release" /\ work'[s] = t
    BY <1>0, <2>1 DEF GoTo, TypeOK
  <2>. QED BY <2>2 DEF Releasing
<1>7. CASE CancelAudit
  BY <1>7 DEF CancelAudit
<1>8. CASE row' = row
  BY <1>8
<1>. QED
  BY <1>3, <1>4, <1>5, <1>6, <1>7, <1>8
  DEF Next, Execute, StopAtBoundary, PassBoundary, RecordCapacityWait, Persist,
      BillingRefused, DiscardAnswer, CrashRelease, CountSucceeded, CountTerminal,
      Analyze, SweepRelease, Raise, DeadlinePasses, Die, taskVars

\* Who has credits to release does so with its next step, unless it raises or dies.
LEMMA ReleaserActs ==
  ASSUME TypeOK, Next, NEW s \in Slots,
         pc[s] \in {"crash_release", "sweep_release"},
         \A u \in Slots : ~Raise(u), \A o \in Owners : ~Die(o)
  PROVE  \/ pc'[s] = pc[s] /\ work'[s] = work[s]
         \/ reserve'[work[s]] = 0
<1>1. CASE \E u \in Slots : Execute(u) \/ Sweep(u) \/ Claim(u)
  <2>1. PICK u \in Slots : Execute(u) \/ Sweep(u) \/ Claim(u)
    BY <1>1
  <2>2. CASE u # s
    BY <2>1, <2>2, OneSlotMoves
  <2>3. CASE u = s
    <3>1. work[s] \in Tasks
      BY BusySlot DEF Busy, Phase, Handling
    <3>2. CrashRelease(s) \/ SweepRelease(s)
      BY <2>1, <2>3
      DEF Execute, Sweep, Claim, StopAtBoundary, PassBoundary, QueueCancel, Reject,
          RecordCapacityWait, QueuePark, StartCall, Persist, PersistSuccess,
          PersistFailure, BillingRefused, DiscardAnswer, QueueSucceed, QueueFail,
          QueueRetry, Report, RecordCrash, CountSucceeded, CountTerminal, Analyze
    <3>. QED BY <3>1, <3>2 DEF CrashRelease, SweepRelease, ReleaseCredits, TypeOK
  <2>. QED BY <2>2, <2>3
<1>2. CASE CancelAudit \/ DeadlinePasses
  BY <1>2 DEF CancelAudit, DeadlinePasses, slotVars
<1>. QED BY <1>1, <1>2 DEF Next

LEMMA ReturnedStep ==
  BaseInv /\ ReleasedFirst /\ Returned /\ [Next]_vars => Returned'
<1>. SUFFICES ASSUME BaseInv, ReleasedFirst, Returned, [Next]_vars PROVE Returned'
  OBVIOUS
<1>1. CASE Next
  <2>. SUFFICES ASSUME NEW t \in Funded, Untroubled', row'[t].status \in Terminal
                PROVE  reserve'[t] = 0 \/ Releasing(t)'
    BY DEF Returned
  <2>0. TypeOK /\ t \in Tasks /\ reserve'[t] \in Nat /\ reserve'[t] <= reserve[t]
    BY <1>1, FundedAssumption, StepKeepsCountTypes, ReserveShrinks
    DEF BaseInv, CountTypes
  <2>1. reserve[t] = 0 => reserve'[t] = 0
    BY <2>0
  <2>2. CASE row[t].status \notin Terminal
    <3>1. CASE \E s \in Slots : pc[s] \in Reporting /\ work[s] = t
      BY <2>1, <3>1 DEF ReleasedFirst
    <3>. QED BY <1>1, <2>0, <2>2, <3>1, EndedRow
  <2>3. CASE row[t].status \in Terminal /\ Releasing(t)
    <3>1. PICK s \in Slots : /\ pc[s] \in {"crash_release", "sweep_release"}
                             /\ work[s] = t
      BY <2>3 DEF Releasing
    <3>2. \/ pc'[s] = pc[s] /\ work'[s] = work[s]
          \/ reserve'[t] = 0
      BY <1>1, <2>0, <3>1, TroubleStays, ReleaserActs
    <3>. QED BY <3>1, <3>2 DEF Releasing
  <2>4. CASE row[t].status \in Terminal /\ reserve[t] = 0
    BY <2>1, <2>4
  <2>. QED BY <1>1, <2>0, <2>2, <2>3, <2>4, TroubleStays DEF Returned
<1>2. CASE UNCHANGED vars
  BY <1>2
  DEF vars, credits, taskVars, slotVars, faults, Returned, Releasing, Untroubled
<1>. QED BY <1>1, <1>2

LEMMA CreditsInit == Init => Covered /\ ReleasedFirst /\ Returned
<1>. SUFFICES ASSUME Init PROVE Covered /\ ReleasedFirst /\ Returned
  OBVIOUS
<1>1. \A t \in Funded : /\ t \in Tasks /\ reserve[t] = MaxAttempts
                        /\ billed[t] = 0 /\ calls[t] = 0 /\ evidence[t] = 0
  BY FundedAssumption DEF Init
<1>2. \A t \in Tasks : Cardinality(InFlight(t)) = 0
  <2>1. \A t \in Tasks : InFlight(t) = {}
    BY DEF Init, InFlight
  <2>. QED BY <2>1, FS_EmptySet
<1>3. Covered
  BY <1>1, <1>2, MaxAttemptsAssumption DEF Covered
<1>4. ReleasedFirst
  BY DEF Init, ReleasedFirst, Reporting
<1>5. Returned
  BY <1>1 DEF Init, Returned, NewRow, Terminal
<1>. QED BY <1>3, <1>4, <1>5

\* No interleaving of lapsed leases, discarded answers, refused bills and cancel
\* requests makes a funded task cost more than it reserved, bills a call nobody
\* made or gives an answer away; and, if no transaction failed and no process
\* died, an ended task's credits are back or a slot is about to return them.
THEOREM CreditsConservedHolds == Spec => []CreditsConserved
<1>1. BaseInv /\ Covered /\ Returned => CreditsConserved
  <2>. SUFFICES ASSUME BaseInv, Covered, Returned, NEW t \in Funded
                PROVE  billed[t] <= calls[t]
    BY DEF CreditsConserved, Covered, Returned, Releasing
  <2>1. billed[t] \in Nat /\ calls[t] \in Nat /\ Cardinality(InFlight(t)) \in Nat
    BY InFlightFinite, FundedAssumption DEF BaseInv, TypeOK
  <2>. QED BY <2>1 DEF Covered
<1>. QED
  BY <1>1, CreditsInit, CoveredStep, ReleasedFirstStep, ReturnedStep, BaseInvHolds, PTL
  DEF Spec

-----------------------------------------------------------------------------
\* The refinement of TaskLifecycle, for the tasks that are claimed in turn: out of
\* turn, the owner check does not tell the leases of two slots apart.
\* The slots that may hand their row back to the queue.
Spare(s) == pc[s] \in {"boundary", "prepare", "to_park", "calling", "to_retry"}

\* A row that waits has an attempt left, and so has the row of a slot that may hand
\* it back.
Within(r) ==
  /\ r.attempts <= MaxAttempts
  /\ r.status \in Claimable => r.attempts < MaxAttempts

BudgetInv ==
  /\ \A t \in Tasks \ crossed : Within(row[t])
  /\ \A s \in Slots :
       Spare(s) /\ Holds(s) /\ work[s] \notin crossed
         => row[work[s]].attempts < MaxAttempts

\* In turn, no two slots with one owner string may both hand a row back.
Sole ==
  \A s \in Slots, u \in Slots :
    /\ s # u /\ OwnerOf[s] = OwnerOf[u]
    /\ Spare(s) /\ Spare(u) /\ work[s] = work[u]
    => work[s] \in crossed

\* What a slot's step does to the rows, with the phases that matter to the budget.
Claims(s) ==
  \E t \in Tasks : /\ Eligible(row[t])
                   /\ SetRow(t, Lease(row[t], OwnerOf[s]))
                   /\ work'[s] = t
                   /\ t \notin crossed' => InTurn(s, t)

Begins(s) ==
  /\ Spare(s) /\ Holds(s)
  /\ row[work[s]].status = "leased"
  /\ SetRow(work[s], Begin(row[work[s]]))

Attempts(s) ==
  /\ Spare(s) /\ Holds(s)
  /\ SetRow(work[s], [row[work[s]] EXCEPT !.attempts = row[work[s]].attempts + 1])
  /\ Spare(s)' => row[work[s]].attempts + 1 < MaxAttempts

Completes(s) ==
  /\ pc[s] \in Busy /\ Holds(s)
  /\ \E outcome \in {"succeeded", "failed"} :
       SetRow(work[s], Finalize(row[work[s]], outcome))

GivesBack(s) ==
  /\ Spare(s) /\ Holds(s)
  /\ \E wait \in {"retry_wait", "capacity_wait"} :
       SetRow(work[s], Postpone(row[work[s]], wait, TRUE))

TakesBack ==
  \E t \in Tasks : row[t].status \in LeaseHeld /\ SetRow(t, Reclaim(row[t]))

Cancels(s) ==
  /\ pc[s] \in Busy
  /\ row[work[s]].status \notin Terminal
  /\ SetRow(work[s], Finalize(row[work[s]], "cancelled"))

SlotActs(s) ==
  \/ row' = row
  \/ Claims(s)
  \/ Begins(s)
  \/ Attempts(s)
  \/ Completes(s)
  \/ GivesBack(s)
  \/ TakesBack
  \/ Cancels(s)

\* A slot becomes one that may hand a row back with its claim only.
LEMMA StepActs ==
  ASSUME TypeOK, NEW s \in Slots, Execute(s) \/ Sweep(s) \/ Claim(s) \/ Raise(s)
  PROVE  /\ SlotActs(s)
         /\ Spare(s)' => Claims(s) \/ (Spare(s) /\ work'[s] = work[s])
<1>0. pc \in [Slots -> Phase] /\ work \in [Slots -> Tasks \cup {NoTask}]
  BY DEF TypeOK
<1>1. ASSUME NEW phase, GoTo(s, phase)
      PROVE  pc'[s] = phase /\ (phase # "idle" => work'[s] = work[s])
  BY <1>0, <1>1 DEF GoTo
<1>2. CASE Sweep(s)
  <2>1. TakesBack
    BY <1>2 DEF Sweep, TakesBack
  <2>2. pc'[s] \in {"idle", "sweep_release"}
    BY <1>0, <1>2 DEF Sweep
  <2>. QED BY <2>1, <2>2 DEF SlotActs, Spare
<1>3. CASE Claim(s)
  <2>1. Claims(s)
    BY <1>0, <1>3 DEF Claim, Claims
  <2>. QED BY <2>1 DEF SlotActs
<1>4. CASE Raise(s)
  <2>1. pc'[s] \in {"crashed", "finalize", "idle"}
    BY <1>0, <1>4 DEF Raise
  <2>2. row' = row
    BY <1>4 DEF Raise, taskVars
  <2>. QED BY <2>1, <2>2 DEF SlotActs, Spare
<1>5. CASE Reject(s) \/ PersistSuccess(s)
  <2>1. Spare(s) /\ pc'[s] \in {"to_fail", "finalize", "to_succeed"}
    BY <1>1, <1>5 DEF Reject, PersistSuccess, Spare
  <2>2. ~Spare(s)'
    BY <2>1 DEF Spare
  <2>3. row' = row \/ Attempts(s)
    BY <1>5, <2>1, <2>2 DEF Reject, PersistSuccess, LockOwnedTask, Attempts
  <2>. QED BY <2>2, <2>3 DEF SlotActs
<1>6. CASE PersistFailure(s)
  <2>1. Spare(s) /\ Holds(s) /\ SetRow(work[s],
          [row[work[s]] EXCEPT !.attempts = row[work[s]].attempts + 1])
    BY <1>6 DEF PersistFailure, Spare, LockOwnedTask
  <2>2. \/ row[work[s]].attempts + 1 < MaxAttempts /\ pc'[s] = "to_retry"
           /\ work'[s] = work[s]
        \/ pc'[s] = "to_fail"
    BY <1>1, <1>6 DEF PersistFailure
  <2>3. Spare(s)' => row[work[s]].attempts + 1 < MaxAttempts /\ work'[s] = work[s]
    BY <2>2 DEF Spare
  <2>. QED BY <2>1, <2>3 DEF SlotActs, Attempts
<1>7. CASE StartCall(s)
  <2>1. Spare(s) /\ pc'[s] \in {"calling", "finalize"} /\ work'[s] = work[s]
    BY <1>1, <1>7 DEF StartCall, Spare
  <2>2. row' = row \/ Begins(s)
    BY <1>7, <2>1 DEF StartCall, Begins
  <2>. QED BY <2>1, <2>2 DEF SlotActs
<1>8. CASE QueueSucceed(s) \/ QueueFail(s) \/ RecordCrash(s)
  <2>1. pc[s] \in Busy /\ pc'[s] \in {"finalize", "crash_release"}
    BY <1>1, <1>8
    DEF QueueSucceed, QueueFail, Report, RecordCrash, Busy, Phase, Trying, Handling
  <2>2. row' = row \/ Completes(s)
    BY <1>8, <2>1 DEF QueueSucceed, QueueFail, Report, RecordCrash, Completes
  <2>. QED BY <2>1, <2>2 DEF SlotActs, Spare
<1>9. CASE QueuePark(s) \/ QueueRetry(s)
  <2>1. Spare(s) /\ pc'[s] = "finalize"
    BY <1>1, <1>9 DEF QueuePark, QueueRetry, Report, Spare
  <2>2. row' = row \/ GivesBack(s)
    BY <1>9, <2>1 DEF QueuePark, QueueRetry, Report, GivesBack
  <2>. QED BY <2>1, <2>2 DEF SlotActs, Spare
<1>10. CASE QueueCancel(s)
  <2>1. pc[s] \in Busy /\ pc'[s] = "finalize"
    BY <1>1, <1>10 DEF QueueCancel, Busy, Phase, Trying
  <2>2. row' = row \/ Cancels(s)
    BY <1>10, <2>1 DEF QueueCancel, Cancels
  <2>. QED BY <2>1, <2>2 DEF SlotActs, Spare
<1>11. CASE StopAtBoundary(s) \/ PassBoundary(s) \/ RecordCapacityWait(s)
  <2>1. Spare(s) /\ work'[s] = work[s] /\ row' = row
    BY <1>1, <1>11
    DEF StopAtBoundary, PassBoundary, RecordCapacityWait, Spare, taskVars
  <2>. QED BY <2>1 DEF SlotActs
<1>12. CASE BillingRefused(s) \/ DiscardAnswer(s) \/ CrashRelease(s)
            \/ SweepRelease(s) \/ Analyze(s)
  <2>1. pc'[s] \in {"crashed", "finalize", "idle"}
    BY <1>1, <1>12 DEF BillingRefused, DiscardAnswer, CrashRelease, SweepRelease, Analyze
  <2>2. row' = row
    BY <1>12
    DEF BillingRefused, DiscardAnswer, CrashRelease, SweepRelease, Analyze, taskVars
  <2>. QED BY <2>1, <2>2 DEF SlotActs, Spare
<1>13. CASE CountSucceeded(s) \/ CountTerminal(s)
  <2>1. pc'[s] \in {"counting", "analyze", "idle"}
    BY <1>0, <1>1, <1>13 DEF CountSucceeded, CountTerminal
  <2>2. row' = row
    BY <1>13 DEF CountSucceeded, CountTerminal, taskVars
  <2>. QED BY <2>1, <2>2 DEF SlotActs, Spare
<1>. QED
  BY <1>2, <1>3, <1>4, <1>5, <1>6, <1>7, <1>8, <1>9, <1>10, <1>11, <1>12, <1>13
  DEF Execute, Persist

LEMMA StepCrosses ==
  ASSUME NEW s \in Slots, Execute(s) \/ Sweep(s) \/ Claim(s) \/ Raise(s)
  PROVE  crossed \subseteq crossed'
<1>1. CASE crossed' = crossed
  BY <1>1
<1>2. CASE Claim(s)
  BY <1>2 DEF Claim
<1>. QED
  BY <1>1, <1>2
  DEF Execute, Sweep, StopAtBoundary, PassBoundary, QueueCancel, Reject,
      RecordCapacityWait, QueuePark, StartCall, Persist, PersistSuccess,
      PersistFailure, BillingRefused, DiscardAnswer, QueueSucceed, QueueFail,
      QueueRetry, Report, RecordCrash, CrashRelease, CountSucceeded, CountTerminal,
      Analyze, SweepRelease, Raise, faults

\* Each of these writes one row: which one, and the columns the budget is about.
LEMMA LeaseRow ==
  ASSUME NEW r \in Row, NEW o \in Owners
  PROVE  /\ Lease(r, o).status = "leased"
         /\ Lease(r, o).owner = o
         /\ Lease(r, o).attempts = r.attempts
  BY DEF Row, Lease

LEMMA BeginRow ==
  ASSUME NEW r \in Row
  PROVE  /\ Begin(r).status = "running"
         /\ Begin(r).owner = r.owner
         /\ Begin(r).attempts = r.attempts
  BY DEF Row, Begin

LEMMA AttemptRow ==
  ASSUME NEW r \in Row
  PROVE  /\ [r EXCEPT !.attempts = r.attempts + 1].status = r.status
         /\ [r EXCEPT !.attempts = r.attempts + 1].owner = r.owner
         /\ [r EXCEPT !.attempts = r.attempts + 1].attempts = r.attempts + 1
  BY DEF Row

LEMMA SetRowCells ==
  ASSUME TypeOK, NEW t \in Tasks, NEW q, SetRow(t, q)
  PROVE  row'[t] = q /\ \A u \in Tasks : u # t => row'[u] = row[u]
  BY DEF TypeOK, SetRow

\* A slot writes its own row or ends somebody's lease: nothing else happens to a row
\* that stays leased.
LEMMA OthersRows ==
  ASSUME BaseInv, NEW s \in Slots, SlotActs(s), NEW t \in Tasks,
         row'[t].owner # NoOwner,
         \/ row'[t].owner # OwnerOf[s]
         \/ ~(Spare(s) /\ work[s] = t) /\ ~(Claims(s) /\ work'[s] = t)
  PROVE  row'[t] = row[t]
<1>0. TypeOK /\ row[t] \in Row /\ OwnerOf[s] \in Owners
  BY SlotAssumption DEF BaseInv, TypeOK
<1>1. ASSUME NEW u \in Tasks, NEW q, SetRow(u, q),
             u = t => \/ q.owner = NoOwner
                      \/ /\ q.owner = OwnerOf[s]
                         /\ \/ Spare(s) /\ work[s] = t
                            \/ Claims(s) /\ work'[s] = t
      PROVE  row'[t] = row[t]
  BY <1>0, <1>1, SetRowCells
<1>2. ASSUME pc[s] \in Busy, Holds(s)
      PROVE  work[s] \in Tasks /\ row[work[s]].owner = OwnerOf[s]
  BY <1>0, <1>2, BusySlot, HeldRow
<1>3. Spare(s) => pc[s] \in Busy
  BY DEF Spare, Busy, Phase, Trying
<1>4. CASE Claims(s)
  <2>1. PICK u \in Tasks : SetRow(u, Lease(row[u], OwnerOf[s])) /\ work'[s] = u
    BY <1>4 DEF Claims
  <2>. QED BY <1>0, <1>1, <1>4, <2>1, LeaseRow
<1>5. CASE Begins(s)
  BY <1>0, <1>1, <1>2, <1>3, <1>5, BeginRow DEF Begins
<1>6. CASE Attempts(s)
  BY <1>0, <1>1, <1>2, <1>3, <1>6, AttemptRow DEF Attempts
<1>7. CASE Completes(s)
  <2>1. PICK outcome \in {"succeeded", "failed"} :
          SetRow(work[s], Finalize(row[work[s]], outcome))
    BY <1>7 DEF Completes
  <2>2. outcome \in Terminal
    BY DEF Terminal
  <2>3. work[s] = t => Finalize(row[work[s]], outcome).owner = NoOwner
    BY <1>0, <2>2, FinalizeRow
  <2>. QED BY <1>1, <1>2, <1>7, <2>1, <2>3 DEF Completes
<1>8. CASE GivesBack(s)
  <2>1. PICK wait \in {"retry_wait", "capacity_wait"} :
          SetRow(work[s], Postpone(row[work[s]], wait, TRUE))
    BY <1>8 DEF GivesBack
  <2>2. wait \in Claimable
    BY DEF Claimable
  <2>3. work[s] = t => Postpone(row[work[s]], wait, TRUE).owner = NoOwner
    BY <1>0, <2>2, PostponeRow
  <2>. QED BY <1>1, <1>2, <1>3, <1>8, <2>1, <2>3 DEF GivesBack
<1>9. CASE TakesBack
  <2>1. PICK u \in Tasks : SetRow(u, Reclaim(row[u]))
    BY <1>9 DEF TakesBack
  <2>. QED BY <1>0, <1>1, <2>1, ReclaimRow
<1>10. CASE Cancels(s)
  <2>1. work[s] = t => Finalize(row[work[s]], "cancelled").owner = NoOwner
    BY <1>0, FinalizeRow DEF Terminal
  <2>2. work[s] \in Tasks
    BY <1>0, <1>10, BusySlot DEF Cancels
  <2>. QED BY <1>1, <1>10, <2>1, <2>2 DEF Cancels
<1>. QED BY <1>4, <1>5, <1>6, <1>7, <1>8, <1>9, <1>10 DEF SlotActs

\* The rows stay within the budget.
LEMMA RowsStayWithin ==
  ASSUME BaseInv, BudgetInv, NEW s \in Slots, SlotActs(s), NEW t \in Tasks \ crossed
  PROVE  Within(row'[t])
<1>0. /\ TypeOK /\ row[t] \in Row /\ row[t].attempts \in Nat /\ Within(row[t])
      /\ OwnerOf[s] \in Owners /\ MaxAttempts \in Nat
  BY SlotAssumption, MaxAttemptsAssumption DEF BaseInv, TypeOK, Row, BudgetInv
<1>1. ASSUME NEW u \in Tasks, NEW q, SetRow(u, q), u = t => Within(q)
      PROVE  Within(row'[t])
  BY <1>0, <1>1, SetRowCells
<1>2. Spare(s) => pc[s] \in Busy
  BY DEF Spare, Busy, Phase, Trying
<1>3. pc[s] \in Busy => work[s] \in Tasks
  BY <1>0, BusySlot
<1>4. ASSUME NEW q, q.attempts = row[t].attempts, q.status \notin Claimable
      PROVE  Within(q)
  BY <1>0, <1>4 DEF Within
<1>5. CASE Claims(s)
  <2>1. PICK u \in Tasks : SetRow(u, Lease(row[u], OwnerOf[s]))
    BY <1>5 DEF Claims
  <2>2. u = t => Within(Lease(row[u], OwnerOf[s]))
    BY <1>0, <1>4, LeaseRow DEF Claimable
  <2>. QED BY <1>1, <2>1, <2>2
<1>6. CASE Begins(s)
  <2>1. work[s] = t => Within(Begin(row[work[s]]))
    BY <1>0, <1>4, BeginRow DEF Claimable
  <2>. QED BY <1>1, <1>2, <1>3, <1>6, <2>1 DEF Begins
<1>7. CASE Attempts(s)
  <2>1. /\ work[s] \in Tasks
        /\ work[s] = t => row[t].attempts < MaxAttempts
    BY <1>2, <1>3, <1>7 DEF Attempts, BudgetInv
  <2>2. pc[s] \in Busy /\ Holds(s)
    BY <1>2, <1>7 DEF Attempts
  <2>3. row[work[s]].status \in LeaseHeld
    BY <2>2, HeldRow
  <2>4. row[work[s]].status \notin Claimable
    BY <2>3 DEF LeaseHeld, Claimable
  <2>5. work[s] = t =>
          Within([row[work[s]] EXCEPT !.attempts = row[work[s]].attempts + 1])
    <3>. SUFFICES ASSUME work[s] = t
                  PROVE  Within([row[t] EXCEPT !.attempts = row[t].attempts + 1])
      OBVIOUS
    <3>. DEFINE q == [row[t] EXCEPT !.attempts = row[t].attempts + 1]
    <3>1. q.status = row[t].status /\ q.attempts = row[t].attempts + 1
      BY <1>0, AttemptRow
    <3>2. q.attempts <= MaxAttempts
      BY <1>0, <2>1, <3>1
    <3>. QED BY <2>4, <3>1, <3>2 DEF Within
  <2>. QED BY <1>1, <1>7, <2>1, <2>5 DEF Attempts
<1>8. CASE Completes(s)
  <2>1. PICK outcome \in {"succeeded", "failed"} :
          SetRow(work[s], Finalize(row[work[s]], outcome))
    BY <1>8 DEF Completes
  <2>2. outcome \in Terminal /\ outcome \notin Claimable
    BY DEF Terminal, Claimable
  <2>3. work[s] = t => Within(Finalize(row[work[s]], outcome))
    BY <1>0, <1>4, <2>2, FinalizeRow
  <2>. QED BY <1>1, <1>3, <1>8, <2>1, <2>3 DEF Completes
<1>9. CASE GivesBack(s)
  <2>1. PICK wait \in {"retry_wait", "capacity_wait"} :
          SetRow(work[s], Postpone(row[work[s]], wait, TRUE))
    BY <1>9 DEF GivesBack
  <2>2. wait \in Claimable
    BY DEF Claimable
  <2>3. /\ work[s] \in Tasks
        /\ work[s] = t => row[t].attempts < MaxAttempts
    BY <1>2, <1>3, <1>9 DEF GivesBack, BudgetInv
  <2>4. work[s] = t => Within(Postpone(row[work[s]], wait, TRUE))
    <3>1. Postpone(row[t], wait, TRUE).attempts = row[t].attempts
      BY <1>0, <2>2, PostponeRow
    <3>2. work[s] = t => row[t].attempts < MaxAttempts /\ row[t].attempts <= MaxAttempts
      BY <1>0, <2>3
    <3>. QED BY <3>1, <3>2 DEF Within
  <2>. QED BY <1>1, <2>1, <2>3, <2>4
<1>10. CASE TakesBack
  <2>1. PICK u \in Tasks : SetRow(u, Reclaim(row[u]))
    BY <1>10 DEF TakesBack
  <2>2. Within(Reclaim(row[t]))
    <3>1. /\ Reclaim(row[t]).attempts = row[t].attempts
          /\ Reclaim(row[t]).status = IF row[t].attempts < MaxAttempts
                                        THEN "retry_wait" ELSE "failed"
      BY <1>0, ReclaimRow
    <3>. QED BY <1>0, <3>1 DEF Within, Claimable
  <2>. QED BY <1>1, <2>1, <2>2
<1>11. CASE Cancels(s)
  <2>1. "cancelled" \in Terminal /\ "cancelled" \notin Claimable
    BY DEF Terminal, Claimable
  <2>2. work[s] = t => Within(Finalize(row[work[s]], "cancelled"))
    BY <1>0, <1>4, <2>1, FinalizeRow
  <2>. QED BY <1>1, <1>3, <1>11, <2>2 DEF Cancels
<1>. QED
  BY <1>0, <1>5, <1>6, <1>7, <1>8, <1>9, <1>10, <1>11 DEF SlotActs

\* A slot's own row keeps an attempt left as long as the slot may hand it back.
LEMMA OwnRowSpares ==
  ASSUME BaseInv, BudgetInv, NEW s \in Slots, SlotActs(s),
         Spare(s)', Holds(s)', work'[s] \notin crossed,
         Claims(s) \/ (Spare(s) /\ work'[s] = work[s])
  PROVE  row'[work'[s]].attempts < MaxAttempts
<1>0. /\ TypeOK /\ OwnerOf[s] \in Owners /\ OwnerOf[s] # NoOwner
      /\ row'[work'[s]].owner = OwnerOf[s]
  BY SlotAssumption, NoOwnerAssumption DEF BaseInv, Holds, OwnedBy
<1>1. CASE Claims(s)
  <2>1. PICK t \in Tasks : /\ Eligible(row[t])
                           /\ SetRow(t, Lease(row[t], OwnerOf[s]))
                           /\ work'[s] = t
    BY <1>1 DEF Claims
  <2>2. row[t] \in Row /\ row[t].attempts < MaxAttempts
    BY <1>0, <2>1 DEF BudgetInv, Within, Eligible, TypeOK
  <2>3. row'[t].attempts = row[t].attempts
    BY <1>0, <2>1, <2>2, LeaseRow, SetRowCells
  <2>. QED BY <2>1, <2>2, <2>3
<1>2. CASE Spare(s) /\ work'[s] = work[s] /\ ~Claims(s)
  <2>. DEFINE t == work[s]
  <2>0. pc[s] \in Busy /\ t \in Tasks /\ row[t] \in Row /\ row'[t].owner = OwnerOf[s]
    <3>1. pc[s] \in Busy
      BY <1>2 DEF Spare, Busy, Phase, Trying
    <3>. QED BY <1>0, <1>2, <3>1, BusySlot DEF TypeOK
  <2>1. ASSUME NEW q, q.owner = NoOwner, SetRow(t, q)
        PROVE  FALSE
    BY <1>0, <2>0, <2>1, SetRowCells
  <2>2. Holds(s) => row[t].attempts < MaxAttempts
    BY <1>2 DEF BudgetInv
  <2>. HIDE DEF t
  <2>3. CASE row' = row
    BY <1>0, <1>2, <2>0, <2>2, <2>3 DEF Holds, OwnedBy, t
  <2>4. CASE Begins(s)
    <3>1. Holds(s) /\ SetRow(t, Begin(row[t]))
      BY <2>4 DEF Begins, t
    <3>2. row'[t].attempts = row[t].attempts
      BY <1>0, <2>0, <3>1, BeginRow, SetRowCells
    <3>. QED BY <1>2, <2>2, <3>1, <3>2 DEF t
  <2>5. CASE Attempts(s)
    <3>1. /\ SetRow(t, [row[t] EXCEPT !.attempts = row[t].attempts + 1])
          /\ row[t].attempts + 1 < MaxAttempts
      BY <2>5 DEF Attempts, t
    <3>2. row'[t].attempts = row[t].attempts + 1
      BY <1>0, <2>0, <3>1, AttemptRow, SetRowCells
    <3>. QED BY <1>2, <3>1, <3>2 DEF t
  <2>6. CASE Completes(s)
    <3>1. PICK outcome \in {"succeeded", "failed"} : SetRow(t, Finalize(row[t], outcome))
      BY <2>6 DEF Completes, t
    <3>2. outcome \in Terminal
      BY DEF Terminal
    <3>3. Finalize(row[t], outcome).owner = NoOwner
      BY <2>0, <3>2, FinalizeRow
    <3>. QED BY <2>1, <3>1, <3>3
  <2>7. CASE GivesBack(s)
    <3>1. PICK wait \in {"retry_wait", "capacity_wait"} :
            SetRow(t, Postpone(row[t], wait, TRUE))
      BY <2>7 DEF GivesBack, t
    <3>2. wait \in Claimable
      BY DEF Claimable
    <3>3. Postpone(row[t], wait, TRUE).owner = NoOwner
      BY <2>0, <3>2, PostponeRow
    <3>. QED BY <2>1, <3>1, <3>3
  <2>8. CASE TakesBack
    <3>1. PICK u \in Tasks : SetRow(u, Reclaim(row[u]))
      BY <2>8 DEF TakesBack
    <3>2. CASE u = t
      <4>1. Reclaim(row[t]).owner = NoOwner
        BY <2>0, ReclaimRow
      <4>. QED BY <2>1, <3>1, <3>2, <4>1
    <3>3. CASE u # t
      <4>1. row'[t] = row[t]
        BY <1>0, <2>0, <3>1, <3>3, SetRowCells
      <4>. QED BY <1>0, <1>2, <2>0, <2>2, <4>1 DEF Holds, OwnedBy, t
    <3>. QED BY <3>2, <3>3
  <2>9. CASE Cancels(s)
    <3>1. Finalize(row[t], "cancelled").owner = NoOwner
      BY <2>0, FinalizeRow DEF Terminal
    <3>. QED BY <2>1, <2>9, <3>1 DEF Cancels, t
  <2>. QED BY <1>2, <2>3, <2>4, <2>5, <2>6, <2>7, <2>8, <2>9 DEF SlotActs
<1>. QED BY <1>1, <1>2

LEMMA BudgetSlotStep ==
  ASSUME BaseInv, BudgetInv, Sole, NEW s \in Slots,
         Execute(s) \/ Sweep(s) \/ Claim(s) \/ Raise(s)
  PROVE  BudgetInv' /\ Sole'
<1>1. /\ TypeOK /\ SlotActs(s)
      /\ Spare(s)' => Claims(s) \/ (Spare(s) /\ work'[s] = work[s])
      /\ crossed \subseteq crossed'
  BY StepActs, StepCrosses DEF BaseInv
<1>2. \A t \in Tasks \ crossed' : Within(row'[t])
  BY <1>1, RowsStayWithin
<1>3. ASSUME NEW u \in Slots \ {s}, Spare(u)'
      PROVE  /\ pc'[u] = pc[u] /\ work'[u] = work[u]
             /\ Spare(u) /\ pc[u] \in Busy /\ work[u] \in Tasks
  <2>1. pc'[u] = pc[u] /\ work'[u] = work[u]
    BY <1>1, OneSlotMoves
  <2>2. Spare(u) /\ pc[u] \in Busy
    BY <1>3, <2>1 DEF Spare, Busy, Phase, Trying
  <2>. QED BY <1>1, <2>1, <2>2, BusySlot
\* Another slot of the process with the same task: the task was crossed.
<1>4. ASSUME NEW u \in Slots \ {s}, Spare(u)', OwnerOf[u] = OwnerOf[s],
             work[u] \notin crossed'
      PROVE  /\ ~(Spare(s) /\ work[s] = work[u])
             /\ ~(Claims(s) /\ work'[s] = work[u])
  <2>1. Spare(u)
    BY <1>3, <1>4
  <2>2. ~(Spare(s) /\ work[s] = work[u])
    BY <1>1, <1>4, <2>1 DEF Sole
  <2>3. ASSUME Claims(s), work'[s] = work[u]
        PROVE  FALSE
    <3>1. InTurn(s, work[u])
      BY <1>4, <2>3 DEF Claims
    <3>. QED BY <1>4, <2>1, <3>1 DEF InTurn, Spare, Trying
  <2>. QED BY <2>2, <2>3
<1>5. ASSUME NEW u \in Slots, Spare(u)', Holds(u)', work'[u] \notin crossed'
      PROVE  row'[work'[u]].attempts < MaxAttempts
  <2>1. CASE u = s
    BY <1>1, <1>5, <2>1, OwnRowSpares
  <2>2. CASE u # s
    <3>1. work'[u] = work[u] /\ Spare(u) /\ work[u] \in Tasks
      BY <1>3, <1>5, <2>2
    <3>2. row'[work[u]].owner = OwnerOf[u] /\ OwnerOf[u] # NoOwner
      BY <1>5, <3>1, SlotAssumption, NoOwnerAssumption DEF Holds, OwnedBy
    <3>3. \/ row'[work[u]].owner # OwnerOf[s]
          \/ /\ ~(Spare(s) /\ work[s] = work[u])
             /\ ~(Claims(s) /\ work'[s] = work[u])
      BY <1>4, <1>5, <2>2, <3>1, <3>2
    <3>4. row'[work[u]] = row[work[u]]
      BY <1>1, <3>1, <3>2, <3>3, OthersRows
    <3>5. Holds(u) /\ work[u] \notin crossed
      BY <1>1, <1>5, <3>1, <3>2, <3>4 DEF Holds, OwnedBy
    <3>. QED BY <3>1, <3>4, <3>5 DEF BudgetInv
  <2>. QED BY <2>1, <2>2
<1>6. ASSUME NEW u \in Slots, NEW v \in Slots, u # v, OwnerOf[u] = OwnerOf[v],
             Spare(u)', Spare(v)', work'[u] = work'[v], work'[u] \notin crossed'
      PROVE  FALSE
  <2>1. CASE u = s
    <3>1. work'[v] = work[v] /\ work[v] \notin crossed'
      BY <1>3, <1>6, <2>1
    <3>. QED BY <1>1, <1>4, <1>6, <2>1, <3>1
  <2>2. CASE v = s
    <3>1. work'[u] = work[u] /\ work[u] \notin crossed'
      BY <1>3, <1>6, <2>2
    <3>. QED BY <1>1, <1>4, <1>6, <2>2, <3>1
  <2>3. CASE u # s /\ v # s
    BY <1>1, <1>3, <1>6, <2>3 DEF Sole
  <2>. QED BY <2>1, <2>2, <2>3
<1>7. Sole'
  BY <1>6 DEF Sole
<1>. QED BY <1>2, <1>5, <1>7 DEF BudgetInv

LEMMA BudgetStep ==
  ASSUME BaseInv, BudgetInv, Sole, [Next]_vars
  PROVE  BudgetInv' /\ Sole'
<1>0. TypeOK /\ pc \in [Slots -> Phase]
  BY DEF BaseInv, TypeOK
<1>1. ASSUME NEW s \in Slots, Execute(s) \/ Sweep(s) \/ Claim(s) \/ Raise(s)
      PROVE  BudgetInv' /\ Sole'
  BY <1>1, BudgetSlotStep
<1>2. CASE CancelAudit
  <2>1. ASSUME NEW t \in Tasks
        PROVE  row'[t] = row[t] \/
                 (row'[t] = Finalize(row[t], "cancelled") /\ row'[t].owner = NoOwner)
    BY <1>0, <1>2, FinalizeRow DEF CancelAudit, TypeOK, Terminal
  <2>2. ASSUME NEW t \in Tasks \ crossed
        PROVE  Within(row'[t])
    <3>1. Within(row[t]) /\ row[t] \in Row
      BY <1>0 DEF BudgetInv, TypeOK
    <3>2. /\ Finalize(row[t], "cancelled").status = "cancelled"
          /\ Finalize(row[t], "cancelled").attempts = row[t].attempts
      BY <3>1, FinalizeRow DEF Terminal
    <3>. QED BY <2>1, <3>1, <3>2 DEF Within, Claimable
  <2>3. ASSUME NEW u \in Slots, Spare(u)', Holds(u)', work'[u] \notin crossed
        PROVE  row'[work'[u]].attempts < MaxAttempts
    <3>1. Spare(u) /\ work'[u] = work[u] /\ pc[u] \in Busy
      BY <1>2, <2>3 DEF CancelAudit, slotVars, Spare, Busy, Phase, Trying
    <3>2. work[u] \in Tasks /\ row'[work[u]].owner # NoOwner
      BY <1>0, <2>3, <3>1, BusySlot, SlotAssumption, NoOwnerAssumption DEF Holds, OwnedBy
    <3>3. row'[work[u]] = row[work[u]]
      BY <2>1, <3>2
    <3>. QED BY <2>3, <3>1, <3>3 DEF BudgetInv, Holds, OwnedBy
  <2>4. UNCHANGED <<pc, work, crossed>>
    BY <1>2 DEF CancelAudit, slotVars, faults
  <2>. QED BY <2>2, <2>3, <2>4 DEF BudgetInv, Sole, Spare
<1>3. ASSUME NEW o \in Owners, Die(o)
      PROVE  BudgetInv' /\ Sole'
  <2>1. row' = row /\ crossed' = crossed
    BY <1>3 DEF Die, taskVars, faults
  <2>2. \A u \in Slots : Spare(u)' => Spare(u) /\ work'[u] = work[u]
    BY <1>3 DEF Die, Spare
  <2>3. BudgetInv'
    BY <2>1, <2>2 DEF BudgetInv, Holds, OwnedBy
  <2>4. Sole'
    BY <2>1, <2>2 DEF Sole
  <2>. QED BY <2>3, <2>4
<1>4. CASE DeadlinePasses \/ UNCHANGED vars
  <2>1. UNCHANGED <<row, pc, work, crossed>>
    BY <1>4 DEF DeadlinePasses, vars, taskVars, slotVars, faults
  <2>. QED BY <2>1 DEF BudgetInv, Sole, Spare, Holds
<1>. QED BY <1>1, <1>2, <1>3, <1>4 DEF Next

LEMMA BudgetInit == Init => BudgetInv /\ Sole
  BY MaxAttemptsAssumption DEF Init, BudgetInv, Sole, NewRow, Within, Spare

\* How a slot's step looks to the protocol, at a task it does not take out of turn.
LEMMA SlotStepRefines ==
  ASSUME BaseInv, BudgetInv, NEW s \in Slots, SlotActs(s), NEW t \in Tasks,
         t \notin crossed
  PROVE  Lifecycle!TaskStep(t)
<1>0. /\ TypeOK /\ OwnerOf[s] \in Owners
      /\ row[t] \in Row /\ row[t].attempts \in Nat
  BY SlotAssumption DEF BaseInv, TypeOK, Row
<1>1. ASSUME row'[t] = row[t]
      PROVE  Lifecycle!TaskStep(t)
  <2>1. Lifecycle!Keeps(t)
    BY <1>1 DEF Lifecycle!Keeps
  <2>. QED BY <2>1 DEF Lifecycle!TaskStep
\* A write to another row is no step of this task.
<1>2. ASSUME NEW u \in Tasks, NEW q, SetRow(u, q)
      PROVE  \/ u = t /\ row'[t] = q
             \/ Lifecycle!TaskStep(t)
  BY <1>0, <1>1, <1>2, SetRowCells
<1>3. (Spare(s) \/ pc[s] \in Busy) => work[s] \in Tasks
  BY <1>0, BusySlot DEF Spare, Busy, Phase, Trying
<1>4. Holds(s) /\ work[s] = t => row[t].owner \in Owners
  BY <1>0 DEF Holds, OwnedBy
<1>5. Spare(s) /\ Holds(s) /\ work[s] = t => row[t].attempts < MaxAttempts
  BY DEF BudgetInv
<1>6. CASE Claims(s)
  <2>1. PICK u \in Tasks : Eligible(row[u]) /\ SetRow(u, Lease(row[u], OwnerOf[s]))
    BY <1>6 DEF Claims
  <2>2. CASE u = t /\ row'[t] = Lease(row[t], OwnerOf[s])
    <3>1. /\ row[t].status \in Claimable
          /\ row'[t].status = "leased"
          /\ row'[t].owner = OwnerOf[s]
          /\ row'[t].attempts = row[t].attempts
      BY <1>0, <2>1, <2>2, LeaseRow DEF Eligible
    <3>2. Lifecycle!Claim(t)
      BY <1>0, <3>1 DEF Lifecycle!Claim, Lifecycle!Waiting, Claimable
    <3>. QED BY <3>2 DEF Lifecycle!TaskStep
  <2>. QED BY <1>2, <2>1, <2>2
<1>7. CASE Begins(s)
  <2>1. CASE work[s] = t /\ row'[t] = Begin(row[t])
    <3>1. /\ row[t].status = "leased"
          /\ row'[t].status = "running"
          /\ row'[t].owner = row[t].owner
          /\ row'[t].attempts = row[t].attempts
      BY <1>0, <1>7, <2>1, BeginRow DEF Begins
    <3>2. Lifecycle!Start(t)
      BY <3>1 DEF Lifecycle!Start
    <3>. QED BY <3>2 DEF Lifecycle!TaskStep
  <2>. QED BY <1>2, <1>3, <1>7, <2>1 DEF Begins
<1>8. CASE Attempts(s)
  <2>1. CASE /\ work[s] = t
             /\ row'[t] = [row[t] EXCEPT !.attempts = row[t].attempts + 1]
    <3>1. row[t].owner \in Owners /\ row[t].attempts < MaxAttempts
      BY <1>4, <1>5, <1>8, <2>1 DEF Attempts
    <3>2. /\ row'[t].status = row[t].status
          /\ row'[t].owner = row[t].owner
          /\ row'[t].attempts = row[t].attempts + 1
      BY <1>0, <2>1, AttemptRow
    <3>3. Lifecycle!Attempt(t)
      BY <3>1, <3>2 DEF Lifecycle!Attempt
    <3>. QED BY <3>3 DEF Lifecycle!TaskStep
  <2>. QED BY <1>2, <1>3, <1>8, <2>1 DEF Attempts
<1>9. CASE Completes(s)
  <2>1. PICK outcome \in {"succeeded", "failed"} :
          SetRow(work[s], Finalize(row[work[s]], outcome))
    BY <1>9 DEF Completes
  <2>2. CASE work[s] = t /\ row'[t] = Finalize(row[t], outcome)
    <3>1. outcome \in Terminal /\ row[t].owner \in Owners
      BY <1>4, <1>9, <2>2 DEF Terminal, Completes
    <3>2. /\ row'[t].status = outcome
          /\ row'[t].owner = NoOwner
          /\ row'[t].attempts = row[t].attempts
      BY <1>0, <2>2, <3>1, FinalizeRow
    <3>3. Lifecycle!Complete(t)
      BY <3>1, <3>2 DEF Lifecycle!Complete
    <3>. QED BY <3>3 DEF Lifecycle!TaskStep
  <2>3. work[s] \in Tasks
    BY <1>3, <1>9 DEF Completes
  <2>. QED BY <1>2, <2>1, <2>2, <2>3
<1>10. CASE GivesBack(s)
  <2>1. PICK wait \in {"retry_wait", "capacity_wait"} :
          SetRow(work[s], Postpone(row[work[s]], wait, TRUE))
    BY <1>10 DEF GivesBack
  <2>2. CASE work[s] = t /\ row'[t] = Postpone(row[t], wait, TRUE)
    <3>1. /\ wait \in Claimable
          /\ row[t].owner \in Owners
          /\ row[t].attempts < MaxAttempts
      BY <1>4, <1>5, <1>10, <2>2 DEF GivesBack, Claimable
    <3>. DEFINE q == Postpone(row[t], wait, TRUE)
    <3>2. /\ row'[t] = q
          /\ q.status = wait
          /\ q.owner = NoOwner
          /\ q.attempts = row[t].attempts
      BY <1>0, <2>2, <3>1, PostponeRow
    <3>. HIDE DEF q
    <3>3. Lifecycle!GiveBack(t)
      BY <3>1, <3>2 DEF Lifecycle!GiveBack
    <3>. QED BY <3>3 DEF Lifecycle!TaskStep
  <2>3. work[s] \in Tasks
    BY <1>3, <1>10 DEF GivesBack
  <2>. QED BY <1>2, <2>1, <2>2, <2>3
<1>11. CASE TakesBack
  <2>1. PICK u \in Tasks : row[u].status \in LeaseHeld /\ SetRow(u, Reclaim(row[u]))
    BY <1>11 DEF TakesBack
  <2>2. CASE u = t /\ row'[t] = Reclaim(row[t])
    <3>1. /\ row[t].status \in LeaseHeld
          /\ row'[t].attempts = row[t].attempts
          /\ row'[t].owner = NoOwner
          /\ row'[t].status = IF row[t].attempts < MaxAttempts
                                THEN "retry_wait" ELSE "failed"
      BY <1>0, <2>1, <2>2, ReclaimRow
    <3>2. Lifecycle!TakeBack(t)
      BY <3>1 DEF Lifecycle!TakeBack, Lifecycle!Held, LeaseHeld
    <3>. QED BY <3>2 DEF Lifecycle!TaskStep
  <2>. QED BY <1>2, <2>1, <2>2
<1>12. CASE Cancels(s)
  <2>1. CASE work[s] = t /\ row'[t] = Finalize(row[t], "cancelled")
    <3>1. row[t].status \notin Terminal
      BY <1>12, <2>1 DEF Cancels
    <3>2. Lifecycle!Cancel(t)
      <4>1. /\ row'[t].status = "cancelled"
            /\ row'[t].owner = NoOwner
            /\ row'[t].attempts = row[t].attempts
        BY <1>0, <2>1, FinalizeRow DEF Terminal
      <4>. QED BY <3>1, <4>1 DEF Lifecycle!Cancel, Lifecycle!Finished, Terminal
    <3>. QED BY <3>2 DEF Lifecycle!TaskStep
  <2>2. work[s] \in Tasks /\ SetRow(work[s], Finalize(row[work[s]], "cancelled"))
    BY <1>3, <1>12 DEF Cancels
  <2>. QED BY <1>2, <2>1, <2>2
<1>. QED
  BY <1>1, <1>6, <1>7, <1>8, <1>9, <1>10, <1>11, <1>12 DEF SlotActs

LEMMA StepKeepsLifecycle ==
  ASSUME BaseInv, BudgetInv, [Next]_vars
  PROVE  [Lifecycle!Next]_(Lifecycle!vars)
<1>0. TypeOK /\ \A u \in Tasks : row[u] \in Row
  BY DEF BaseInv, TypeOK
<1>1. ASSUME NEW s \in Slots, Execute(s) \/ Sweep(s) \/ Claim(s) \/ Raise(s)
      PROVE  Lifecycle!Next
  <2>1. SlotActs(s) /\ crossed \subseteq crossed'
    BY <1>0, <1>1, StepActs, StepCrosses
  <2>2. ASSUME NEW t \in Tasks \ crossed'
        PROVE  Lifecycle!TaskStep(t)
    BY <2>1, SlotStepRefines
  <2>. QED BY <2>1, <2>2 DEF Lifecycle!Next
<1>2. ASSUME crossed' = crossed,
             \A t \in Tasks : \/ row'[t] = row[t]
                              \/ /\ row[t].status \notin Terminal
                                 /\ row'[t] = Finalize(row[t], "cancelled")
      PROVE  Lifecycle!Next
  <2>1. ASSUME NEW t \in Tasks
        PROVE  Lifecycle!TaskStep(t)
    <3>1. CASE row'[t] = row[t]
      BY <3>1 DEF Lifecycle!TaskStep, Lifecycle!Keeps
    <3>2. CASE row[t].status \notin Terminal /\ row'[t] = Finalize(row[t], "cancelled")
      <4>1. /\ row'[t].status = "cancelled"
            /\ row'[t].owner = NoOwner
            /\ row'[t].attempts = row[t].attempts
        BY <1>0, <3>2, FinalizeRow DEF Terminal
      <4>2. Lifecycle!Cancel(t)
        BY <3>2, <4>1 DEF Lifecycle!Cancel, Lifecycle!Finished, Terminal
      <4>. QED BY <4>2 DEF Lifecycle!TaskStep
    <3>. QED BY <1>2, <3>1, <3>2
  <2>. QED BY <1>2, <2>1 DEF Lifecycle!Next
<1>3. CASE CancelAudit
  BY <1>2, <1>3 DEF CancelAudit, faults
<1>4. CASE DeadlinePasses \/ \E o \in Owners : Die(o)
  BY <1>2, <1>4 DEF DeadlinePasses, Die, taskVars, faults
<1>5. CASE UNCHANGED vars
  BY <1>5 DEF vars, taskVars, faults, Lifecycle!vars
<1>. QED BY <1>1, <1>3, <1>4, <1>5 DEF Next

\* The audit worker keeps the promise of its queue (TaskLifecycle) for every task
\* that is claimed in turn: nothing its transactions, the cancel request, the sweeps,
\* lapsed leases, exceptions or deaths do to a task's row is more than a claim, a
\* start, an attempt, an ending or a return by the task's one holder, a sweep or a
\* cancellation, however many slots share an owner string.
THEOREM RunKeepsLifecycle == Spec => KeepsLifecycle
<1>1. Init => Lifecycle!Init
  BY DEF Init, Lifecycle!Init, NewRow
<1>2. BaseInv /\ BudgetInv /\ Sole /\ [Next]_vars => BudgetInv' /\ Sole'
  BY BudgetStep
<1>3. BaseInv /\ BudgetInv /\ [Next]_vars => [Lifecycle!Next]_(Lifecycle!vars)
  BY StepKeepsLifecycle
<1>. QED
  BY <1>1, <1>2, <1>3, BudgetInit, BaseInvHolds, PTL
  DEF Spec, Lifecycle!Spec, KeepsLifecycle
=============================================================================
