-------------------------- MODULE TaskQueueProofs --------------------------
(***************************************************************************)
(* TLAPS proofs about TaskQueue, for any number of tasks, slots and         *)
(* processes, any attempt budget and any sweep batch, and, at the end, about *)
(* whose task a claim takes (FairClaim).                                   *)
(***************************************************************************)
EXTENDS TaskQueue, FiniteSetTheorems, TLAPS

-----------------------------------------------------------------------------
\* Each operation on a queue row yields a row and writes the columns it says.
LEMMA LeaseRow ==
  ASSUME NEW r \in Row, NEW o \in Owners
  PROVE  /\ Lease(r, o) \in Row
         /\ Lease(r, o).status = "leased"
         /\ Lease(r, o).owner = o
         /\ Lease(r, o).attempts = r.attempts
  BY DEF Row, Lease, Status, LeaseHeld

LEMMA BeginRow ==
  ASSUME NEW r \in Row
  PROVE  /\ Begin(r) \in Row
         /\ Begin(r).status = "running"
         /\ Begin(r).owner = r.owner
         /\ Begin(r).attempts = r.attempts
  BY DEF Row, Begin, Status, LeaseHeld

LEMMA ExtendRow ==
  ASSUME NEW r \in Row
  PROVE  /\ Extend(r) \in Row
         /\ Extend(r).status = r.status
         /\ Extend(r).owner = r.owner
         /\ Extend(r).attempts = r.attempts
  BY DEF Row, Extend

LEMMA FinalizeRow ==
  ASSUME NEW r \in Row, NEW outcome \in Terminal
  PROVE  /\ Finalize(r, outcome) \in Row
         /\ Finalize(r, outcome).status = outcome
         /\ Finalize(r, outcome).owner = NoOwner
         /\ Finalize(r, outcome).attempts = r.attempts
  BY DEF Row, Finalize, Unleased, Status

LEMMA PostponeRow ==
  ASSUME NEW r \in Row, NEW wait \in Claimable, NEW isDue \in BOOLEAN
  PROVE  /\ Postpone(r, wait, isDue) \in Row
         /\ Postpone(r, wait, isDue).status = wait
         /\ Postpone(r, wait, isDue).owner = NoOwner
         /\ Postpone(r, wait, isDue).attempts = r.attempts
  BY DEF Row, Postpone, Unleased, Status

LEMMA ReclaimRow ==
  ASSUME NEW r \in Row
  PROVE  /\ Reclaim(r) \in Row
         /\ Reclaim(r).status = IF r.attempts < MaxAttempts
                                  THEN "retry_wait" ELSE "failed"
         /\ Reclaim(r).owner = NoOwner
         /\ Reclaim(r).attempts = r.attempts
<1>1. r.attempts \in Nat /\ MaxAttempts \in Nat
  BY MaxAttemptsAssumption DEF Row
<1>2. /\ Finalize(r, "failed") \in Row
      /\ Finalize(r, "failed").status = "failed"
      /\ Finalize(r, "failed").owner = NoOwner
      /\ Finalize(r, "failed").attempts = r.attempts
  BY FinalizeRow DEF Terminal
<1>5. /\ Postpone(r, "retry_wait", TRUE) \in Row
      /\ Postpone(r, "retry_wait", TRUE).status = "retry_wait"
      /\ Postpone(r, "retry_wait", TRUE).owner = NoOwner
      /\ Postpone(r, "retry_wait", TRUE).attempts = r.attempts
  BY PostponeRow DEF Claimable
<1>3. CASE r.attempts >= MaxAttempts
  <2>1. Reclaim(r) = Finalize(r, "failed")
    BY <1>3 DEF Reclaim
  <2>2. ~(r.attempts < MaxAttempts)
    BY <1>1, <1>3
  <2>. QED BY <1>2, <2>1, <2>2
<1>4. CASE ~(r.attempts >= MaxAttempts)
  <2>1. Reclaim(r) = Postpone(r, "retry_wait", TRUE)
    BY <1>4 DEF Reclaim
  <2>2. r.attempts < MaxAttempts
    BY <1>1, <1>4
  <2>. QED BY <1>5, <2>1, <2>2
<1>. QED BY <1>3, <1>4

\* How a step changes a row: it is one of these row operations.  What follows
\* about statuses, owners and attempts needs no more than this.
RowChange(r, q) ==
  \/ q = r
  \/ \E o \in Owners : q = Lease(r, o)
  \/ q = Begin(r) /\ r.status = "leased"
  \/ q = Extend(r)
  \/ \E outcome \in Terminal : q = Finalize(r, outcome)
  \/ \E wait \in Claimable, isDue \in BOOLEAN : q = Postpone(r, wait, isDue)
  \/ q = Reclaim(r)
  \/ \E n \in Nat : q = [r EXCEPT !.attempts = n]
  \/ \E b \in BOOLEAN : q = [r EXCEPT !.lapsed = b] \/ q = [r EXCEPT !.due = b]

LEMMA RowChangeType ==
  ASSUME NEW r \in Row, NEW q, RowChange(r, q)
  PROVE  q \in Row
<1>1. CASE q = r \/ q = Begin(r) \/ q = Extend(r)
  BY <1>1 DEF Row, Status, LeaseHeld, Begin, Extend
<1>2. CASE \E o \in Owners : q = Lease(r, o)
  BY <1>2 DEF Row, Status, LeaseHeld, Lease
<1>3. CASE \E outcome \in Terminal : q = Finalize(r, outcome)
  BY <1>3, FinalizeRow
<1>4. CASE \E wait \in Claimable, isDue \in BOOLEAN : q = Postpone(r, wait, isDue)
  BY <1>4, PostponeRow
<1>5. CASE q = Reclaim(r)
  BY <1>5, ReclaimRow
<1>6. CASE \/ \E n \in Nat : q = [r EXCEPT !.attempts = n]
            \/ \E b \in BOOLEAN : \/ q = [r EXCEPT !.lapsed = b]
                                  \/ q = [r EXCEPT !.due = b]
  BY <1>6 DEF Row
<1>. QED BY <1>1, <1>2, <1>3, <1>4, <1>5, <1>6 DEF RowChange

\* Every row operation keeps a lease and its owner together.
LEMMA RowChangeCoherent ==
  ASSUME NEW r \in Row, NEW q, RowChange(r, q),
         r.status \in LeaseHeld <=> r.owner # NoOwner
  PROVE  q.status \in LeaseHeld <=> q.owner # NoOwner
<1>1. CASE q = r \/ q = Extend(r) \/ (q = Begin(r) /\ r.status = "leased")
  BY <1>1 DEF Row, Begin, Extend, LeaseHeld
<1>2. CASE \E o \in Owners : q = Lease(r, o)
  <2>1. PICK o \in Owners : q = Lease(r, o)
    BY <1>2
  <2>2. q.status = "leased" /\ q.owner = o
    BY <2>1 DEF Row, Lease
  <2>. QED BY <2>2, NoOwnerAssumption DEF LeaseHeld
<1>3. CASE \E outcome \in Terminal : q = Finalize(r, outcome)
  BY <1>3, FinalizeRow DEF LeaseHeld, Terminal
<1>4. CASE \E wait \in Claimable, isDue \in BOOLEAN : q = Postpone(r, wait, isDue)
  BY <1>4, PostponeRow DEF LeaseHeld, Claimable
<1>5. CASE q = Reclaim(r)
  BY <1>5, ReclaimRow DEF LeaseHeld
<1>6. CASE \/ \E n \in Nat : q = [r EXCEPT !.attempts = n]
            \/ \E b \in BOOLEAN : \/ q = [r EXCEPT !.lapsed = b]
                                  \/ q = [r EXCEPT !.due = b]
  <2>1. q.status = r.status /\ q.owner = r.owner
    BY <1>6 DEF Row
  <2>. QED BY <2>1
<1>. QED BY <1>1, <1>2, <1>3, <1>4, <1>5, <1>6 DEF RowChange

-----------------------------------------------------------------------------

\* A step that rewrites one row.
LEMMA OneRow ==
  ASSUME row \in [Tasks -> Row], NEW u, NEW q,
         row' = [row EXCEPT ![u] = q],
         u \in Tasks => RowChange(row[u], q)
  PROVE  /\ row' \in [Tasks -> Row]
         /\ \A t \in Tasks : RowChange(row[t], row'[t])
<1>1. \A t \in Tasks : RowChange(row[t], row'[t])
  BY DEF RowChange
<1>2. u \in Tasks => q \in Row
  BY RowChangeType
<1>. QED BY <1>1, <1>2

LEMMA NoRow ==
  ASSUME row \in [Tasks -> Row], row' = row
  PROVE  /\ row' \in [Tasks -> Row]
         /\ \A t \in Tasks : RowChange(row[t], row'[t])
  BY DEF RowChange

LEMMA ReleasedRow ==
  ASSUME row \in [Tasks -> Row], NEW s \in Slots, NEW q,
         Release(s, q), RowChange(row[work[s]], q)
  PROVE  /\ row' \in [Tasks -> Row]
         /\ \A t \in Tasks : RowChange(row[t], row'[t])
  BY OneRow, NoRow DEF Release

\* Every step of the system changes every row by a row operation.
LEMMA StepChangesRows ==
  ASSUME row \in [Tasks -> Row], Next
  PROVE  /\ row' \in [Tasks -> Row]
         /\ \A t \in Tasks : RowChange(row[t], row'[t])
<1>1. ASSUME NEW s \in Slots, ClaimLock(s)
      PROVE  /\ row' \in [Tasks -> Row]
             /\ \A t \in Tasks : RowChange(row[t], row'[t])
  <2>1. PICK t \in seen[s] : TakeLease(s, t)
    BY <1>1 DEF ClaimLock
  <2>2. OwnerOf[s] \in Owners
    BY SlotAssumption
  <2>3. RowChange(row[t], Lease(row[t], OwnerOf[s]))
    BY <2>2 DEF RowChange
  <2>. QED BY <2>1, <2>3, OneRow DEF TakeLease
<1>2. ASSUME NEW s \in Slots, MarkRunning(s)
      PROVE  /\ row' \in [Tasks -> Row]
             /\ \A t \in Tasks : RowChange(row[t], row'[t])
  <2>1. CASE row' = [row EXCEPT ![work[s]] = Begin(row[work[s]])]
             /\ row[work[s]].status = "leased"
    <3>1. RowChange(row[work[s]], Begin(row[work[s]]))
      BY <2>1 DEF RowChange
    <3>. QED BY <2>1, <3>1, OneRow
  <2>2. CASE row' = row
    BY <2>2, NoRow
  <2>. QED BY <1>2, <2>1, <2>2 DEF MarkRunning
<1>3. ASSUME NEW s \in Slots, Heartbeat(s)
      PROVE  /\ row' \in [Tasks -> Row]
             /\ \A t \in Tasks : RowChange(row[t], row'[t])
  <2>1. RowChange(row[work[s]], Extend(row[work[s]]))
    BY DEF RowChange
  <2>. QED BY <1>3, <2>1, OneRow DEF Heartbeat
<1>4. ASSUME NEW s \in Slots, NEW n,
             row' = [row EXCEPT ![work[s]].attempts = n],
             work[s] \in Tasks => n = row[work[s]].attempts + 1
      PROVE  /\ row' \in [Tasks -> Row]
             /\ \A t \in Tasks : RowChange(row[t], row'[t])
  <2>1. work[s] \in Tasks => n \in Nat
    BY <1>4 DEF Row
  <2>2. work[s] \in Tasks =>
          RowChange(row[work[s]], [row[work[s]] EXCEPT !.attempts = n])
    BY <2>1 DEF RowChange
  <2>. QED BY <1>4, <2>2, OneRow
<1>5. ASSUME NEW s \in Slots, RecordAttempt(s) \/ RejectTask(s)
      PROVE  /\ row' \in [Tasks -> Row]
             /\ \A t \in Tasks : RowChange(row[t], row'[t])
  BY <1>4, <1>5, NoRow DEF RecordAttempt, RejectTask
<1>6. ASSUME NEW s \in Slots, Succeed(s) \/ Fail(s)
      PROVE  /\ row' \in [Tasks -> Row]
             /\ \A t \in Tasks : RowChange(row[t], row'[t])
  <2>1. \A outcome \in Terminal : RowChange(row[work[s]], Finalize(row[work[s]], outcome))
    BY DEF RowChange
  <2>2. PICK outcome \in Terminal : Release(s, Finalize(row[work[s]], outcome))
    BY <1>6 DEF Succeed, Fail, Terminal
  <2>. QED BY <2>1, <2>2, ReleasedRow
<1>7. ASSUME NEW s \in Slots, Retry(s) \/ ParkCapacityWait(s)
      PROVE  /\ row' \in [Tasks -> Row]
             /\ \A t \in Tasks : RowChange(row[t], row'[t])
  <2>1. PICK wait \in Claimable, isDue \in BOOLEAN :
          Release(s, Postpone(row[work[s]], wait, isDue))
    BY <1>7 DEF Retry, ParkCapacityWait, Claimable
  <2>2. RowChange(row[work[s]], Postpone(row[work[s]], wait, isDue))
    BY DEF RowChange
  <2>. QED BY <2>1, <2>2, ReleasedRow
<1>8. ASSUME NEW t \in Tasks, RowStep(t)
      PROVE  /\ row' \in [Tasks -> Row]
             /\ \A u \in Tasks : RowChange(row[u], row'[u])
  <2>1. /\ RowChange(row[t], Finalize(row[t], "cancelled"))
        /\ RowChange(row[t], [row[t] EXCEPT !.lapsed = TRUE])
        /\ RowChange(row[t], [row[t] EXCEPT !.due = TRUE])
    BY DEF RowChange, Terminal
  <2>. QED BY <1>8, <2>1, OneRow DEF RowStep, Cancel, LeaseLapses, BecomesDue
<1>9. ASSUME ReleaseExpired
      PROVE  /\ row' \in [Tasks -> Row]
             /\ \A t \in Tasks : RowChange(row[t], row'[t])
  <2>1. PICK batch : row' = [t \in Tasks |->
                               IF t \in batch THEN Reclaim(row[t]) ELSE row[t]]
    BY <1>9 DEF ReleaseExpired
  <2>2. \A t \in Tasks : RowChange(row[t], row'[t])
    BY <2>1 DEF RowChange
  <2>. QED BY <2>1, <2>2, RowChangeType
<1>10. CASE row' = row
  BY <1>10, NoRow
<1>. QED
  BY <1>1, <1>2, <1>3, <1>5, <1>6, <1>7, <1>8, <1>9, <1>10
  DEF Next, SlotStep, ClaimSnapshot, ClaimNothing, Crash

-----------------------------------------------------------------------------
\* Type correctness and coherent leases.

LEMMA MoveToTypes ==
  ASSUME SlotTypes, NEW s \in Slots,
         NEW phase \in {"idle"} \cup Executing \cup Reporting,
         pc[s] \in Executing \cup Reporting, MoveTo(s, phase)
  PROVE  SlotTypes'
  BY SlotAssumption DEF SlotTypes, MoveTo, Phase, Executing, Reporting

LEMMA StepKeepsSlotTypes ==
  ASSUME TypeOK, Next
  PROVE  SlotTypes'
<1>1. ASSUME NEW s \in Slots, NEW t \in Tasks, TakeLease(s, t)
      PROVE  SlotTypes'
  BY <1>1, SlotAssumption DEF TypeOK, SlotTypes, TakeLease, Phase
<1>2. ASSUME NEW s \in Slots, ClaimLock(s)
      PROVE  SlotTypes'
  BY <1>1, <1>2 DEF ClaimLock, TypeOK, SlotTypes
<1>3. ASSUME NEW s \in Slots, ClaimSnapshot(s) \/ ClaimNothing(s)
      PROVE  SlotTypes'
  BY <1>3 DEF ClaimSnapshot, ClaimNothing, TypeOK, SlotTypes, Phase
<1>4. ASSUME NEW s \in Slots, MarkRunning(s) \/ RecordAttempt(s) \/ RejectTask(s)
      PROVE  SlotTypes'
  <2>1. pc[s] \in Executing \cup Reporting
    BY <1>4 DEF MarkRunning, RecordAttempt, RejectTask, Executing
  <2>2. PICK phase \in {"idle"} \cup Executing \cup Reporting : MoveTo(s, phase)
    BY <1>4 DEF MarkRunning, RecordAttempt, RejectTask, Executing, Reporting
  <2>. QED BY <2>1, <2>2, MoveToTypes DEF TypeOK
<1>5. ASSUME NEW s \in Slots, Succeed(s) \/ Fail(s) \/ Retry(s) \/ ParkCapacityWait(s)
      PROVE  SlotTypes'
  <2>1. pc[s] \in Executing \cup Reporting /\ MoveTo(s, "idle")
    BY <1>5 DEF Succeed, Fail, Retry, ParkCapacityWait, Executing, Reporting
  <2>. QED BY <2>1, MoveToTypes DEF TypeOK
<1>6. ASSUME NEW o \in Owners, Crash(o)
      PROVE  SlotTypes'
  BY <1>6 DEF Crash, TypeOK, SlotTypes, Phase
<1>7. CASE UNCHANGED slotVars
  BY <1>7 DEF TypeOK, SlotTypes, slotVars
<1>. QED
  BY <1>2, <1>3, <1>4, <1>5, <1>6, <1>7
  DEF Next, SlotStep, RowStep, Heartbeat, Cancel, LeaseLapses, BecomesDue,
      ReleaseExpired

\* History: the owner string of a row is the one of the slot that leased it last.
HolderNamed ==
  \A t \in Tasks :
    row[t].owner = IF holder[t] = Nobody THEN NoOwner ELSE OwnerOf[holder[t]]

LEMMA StepKeepsHolder ==
  ASSUME TypeOK, HolderNamed, Next
  PROVE  holder' \in [Tasks -> Slots \cup {Nobody}] /\ HolderNamed'
<1>. DEFINE Good == holder' \in [Tasks -> Slots \cup {Nobody}] /\ HolderNamed'
<1>. USE SlotAssumption
<1>1. ASSUME NEW s \in Slots, NEW t \in Tasks, TakeLease(s, t)
      PROVE  Good
  <2>1. row[t] \in Row /\ OwnerOf[s] \in Owners
    BY DEF TypeOK, RowTypes
  <2>2. Lease(row[t], OwnerOf[s]).owner = OwnerOf[s]
    BY <2>1, LeaseRow
  <2>. QED BY <1>1, <2>2 DEF TakeLease, HolderNamed, TypeOK, RowTypes
<1>2. ASSUME NEW s \in Slots, NEW q, Release(s, q), q.owner = NoOwner
      PROVE  Good
  BY <1>2 DEF Release, HolderNamed, TypeOK, RowTypes
<1>3. ASSUME UNCHANGED holder, \A t \in Tasks : row'[t].owner = row[t].owner
      PROVE  Good
  BY <1>3 DEF HolderNamed, TypeOK, RowTypes
<1>4. ASSUME NEW s \in Slots, ClaimLock(s)
      PROVE  Good
  BY <1>1, <1>4 DEF ClaimLock, TypeOK, SlotTypes
<1>5. ASSUME NEW s \in Slots,
             MarkRunning(s) \/ Heartbeat(s) \/ RecordAttempt(s) \/ RejectTask(s)
      PROVE  Good
  <2>1. \A t \in Tasks : row[t] \in Row
    BY DEF TypeOK, RowTypes
  <2>2. \A t \in Tasks : row'[t].owner = row[t].owner
    <3>1. CASE MarkRunning(s)
      BY <3>1, <2>1, BeginRow DEF MarkRunning, TypeOK, RowTypes
    <3>2. CASE Heartbeat(s)
      BY <3>2, <2>1, ExtendRow DEF Heartbeat, TypeOK, RowTypes
    <3>3. CASE RecordAttempt(s) \/ RejectTask(s)
      BY <3>3, <2>1 DEF RecordAttempt, RejectTask, TypeOK, RowTypes, Row
    <3>. QED BY <1>5, <3>1, <3>2, <3>3
  <2>. QED BY <1>5, <1>3, <2>2 DEF MarkRunning, Heartbeat, RecordAttempt, RejectTask
<1>6. ASSUME NEW s \in Slots, Succeed(s) \/ Fail(s) \/ Retry(s) \/ ParkCapacityWait(s)
      PROVE  Good
  <2>1. row[work[s]] \in Row
    BY <1>6 DEF Succeed, Fail, Retry, ParkCapacityWait, TypeOK, RowTypes,
                SlotTypes, Executing, Reporting
  <2>2. PICK q : Release(s, q) /\ q.owner = NoOwner
    <3>1. \A outcome \in Terminal : Finalize(row[work[s]], outcome).owner = NoOwner
      BY <2>1, FinalizeRow
    <3>2. \A wait \in Claimable, isDue \in BOOLEAN :
            Postpone(row[work[s]], wait, isDue).owner = NoOwner
      BY <2>1, PostponeRow
    <3>3. CASE Succeed(s) \/ Fail(s)
      BY <3>1, <3>3 DEF Succeed, Fail, Terminal
    <3>4. CASE Retry(s) \/ ParkCapacityWait(s)
      BY <3>2, <3>4 DEF Retry, ParkCapacityWait, Claimable
    <3>. QED BY <1>6, <3>3, <3>4
  <2>. QED BY <1>2, <2>2
<1>7. ASSUME NEW t \in Tasks, Cancel(t)
      PROVE  Good
  <2>1. Finalize(row[t], "cancelled").owner = NoOwner
    BY FinalizeRow DEF TypeOK, RowTypes, Terminal
  <2>. QED BY <1>7, <2>1 DEF Cancel, HolderNamed, TypeOK, RowTypes
<1>8. ASSUME NEW t \in Tasks, LeaseLapses(t) \/ BecomesDue(t)
      PROVE  Good
  <2>1. \A u \in Tasks : row'[u].owner = row[u].owner
    BY <1>8 DEF LeaseLapses, BecomesDue, TypeOK, RowTypes, Row
  <2>. QED BY <1>3, <1>8, <2>1 DEF LeaseLapses, BecomesDue
<1>9. ASSUME ReleaseExpired
      PROVE  Good
  <2>1. \A t \in Tasks : Reclaim(row[t]).owner = NoOwner
    BY ReclaimRow DEF TypeOK, RowTypes
  <2>. QED BY <1>9, <2>1 DEF ReleaseExpired, HolderNamed, TypeOK, RowTypes
<1>10. CASE UNCHANGED <<row, holder>>
  BY <1>3, <1>10
<1>. QED
  BY <1>4, <1>5, <1>6, <1>7, <1>8, <1>9, <1>10
  DEF Next, SlotStep, RowStep, ClaimSnapshot, ClaimNothing, Crash

\* History: a slot whose owner string is still on the row it works on is the one
\* that leased the row last, unless the task was taken out of turn.  Two slots of a
\* process never hold the same task in turn.
HeldByHolder ==
  \A s \in Slots : Holds(s) /\ work[s] \notin crossed => holder[work[s]] = s

\* A step that lets slots stop and rows lose their owner, and nothing else.
LEMMA HeldFrame ==
  ASSUME TypeOK, HeldByHolder, crossed' = crossed,
         \A s \in Slots : work'[s] # NoTask => work'[s] = work[s],
         \A t \in Tasks : \/ row'[t].owner = row[t].owner /\ holder'[t] = holder[t]
                          \/ row'[t].owner = NoOwner
  PROVE  HeldByHolder'
<1>. SUFFICES ASSUME NEW s \in Slots, Holds(s)', work'[s] \notin crossed'
              PROVE  holder'[work'[s]] = s
  BY DEF HeldByHolder
<1>1. work'[s] = work[s] /\ work[s] \in Tasks
  BY DEF Holds, TypeOK, SlotTypes
<1>2. row'[work[s]].owner = OwnerOf[s] /\ row'[work[s]].owner # NoOwner
  BY <1>1, SlotAssumption, NoOwnerAssumption DEF Holds, OwnedBy
<1>. QED BY <1>1, <1>2 DEF HeldByHolder, Holds, OwnedBy

LEMMA StepKeepsHeld ==
  ASSUME TypeOK, HeldByHolder, Next, \A t \in Tasks : row'[t] \in Row
  PROVE  HeldByHolder'
<1>. USE SlotAssumption, NoOwnerAssumption
<1>0. /\ row \in [Tasks -> Row]
      /\ holder \in [Tasks -> Slots \cup {Nobody}]
      /\ work \in [Slots -> Tasks \cup {NoTask}]
      /\ \A t \in Tasks : row[t] \in Row
  BY DEF TypeOK, RowTypes, SlotTypes
<1>1. ASSUME NEW s \in Slots, NEW t \in Tasks, TakeLease(s, t)
      PROVE  HeldByHolder'
  <2>. SUFFICES ASSUME NEW u \in Slots, Holds(u)', work'[u] \notin crossed'
                PROVE  holder'[work'[u]] = u
    BY DEF HeldByHolder
  <2>1. row'[t].owner = OwnerOf[s]
    BY <1>0, <1>1, LeaseRow DEF TakeLease
  <2>2. CASE u = s
    BY <1>0, <1>1, <2>2 DEF TakeLease
  <2>3. CASE u # s /\ work[u] = t
    <3>1. work'[u] = t /\ t \notin crossed'
      BY <1>0, <1>1, <2>3 DEF TakeLease
    <3>2. InTurn(s, t)
      BY <1>1, <3>1 DEF TakeLease
    <3>3. OwnerOf[u] = OwnerOf[s]
      BY <2>1, <3>1 DEF Holds, OwnedBy
    <3>. QED BY <2>3, <3>2, <3>3 DEF InTurn
  <2>4. CASE u # s /\ work[u] # t
    <3>1. work'[u] = work[u] /\ work[u] \in Tasks
      BY <1>0, <1>1, <2>4 DEF TakeLease, Holds
    <3>2. row'[work[u]] = row[work[u]] /\ holder'[work[u]] = holder[work[u]]
      BY <1>0, <1>1, <2>4, <3>1 DEF TakeLease
    <3>3. work[u] \notin crossed
      BY <1>1, <3>1 DEF TakeLease
    <3>. QED BY <3>1, <3>2, <3>3 DEF HeldByHolder, Holds, OwnedBy
  <2>. QED BY <2>2, <2>3, <2>4
<1>2. ASSUME NEW s \in Slots, ClaimLock(s)
      PROVE  HeldByHolder'
  BY <1>1, <1>2 DEF ClaimLock, TypeOK, SlotTypes
<1>3. ASSUME NEW s \in Slots, NEW phase, MoveTo(s, phase)
      PROVE  /\ crossed' = crossed
             /\ \A u \in Slots : work'[u] # NoTask => work'[u] = work[u]
  BY <1>0, <1>3 DEF MoveTo
<1>4. ASSUME NEW s \in Slots,
             MarkRunning(s) \/ Heartbeat(s) \/ RecordAttempt(s) \/ RejectTask(s)
      PROVE  HeldByHolder'
  <2>1. /\ crossed' = crossed
        /\ \A u \in Slots : work'[u] # NoTask => work'[u] = work[u]
    BY <1>3, <1>4
    DEF MarkRunning, Heartbeat, RecordAttempt, RejectTask, slotVars
  <2>2. \A t \in Tasks : row'[t].owner = row[t].owner
    <3>1. CASE MarkRunning(s)
      BY <3>1, <1>0, BeginRow DEF MarkRunning
    <3>2. CASE Heartbeat(s)
      BY <3>2, <1>0, ExtendRow DEF Heartbeat
    <3>3. CASE RecordAttempt(s) \/ RejectTask(s)
      BY <3>3, <1>0 DEF RecordAttempt, RejectTask, Row
    <3>. QED BY <1>4, <3>1, <3>2, <3>3
  <2>3. holder' = holder
    BY <1>4 DEF MarkRunning, Heartbeat, RecordAttempt, RejectTask
  <2>. QED BY <2>1, <2>2, <2>3, HeldFrame
<1>5. ASSUME NEW s \in Slots, Succeed(s) \/ Fail(s) \/ Retry(s) \/ ParkCapacityWait(s)
      PROVE  HeldByHolder'
  <2>1. MoveTo(s, "idle") /\ work[s] \in Tasks
    BY <1>5 DEF Succeed, Fail, Retry, ParkCapacityWait, TypeOK, SlotTypes,
                Executing, Reporting
  <2>2. PICK q : Release(s, q) /\ q.owner = NoOwner
    <3>1. \A outcome \in Terminal : Finalize(row[work[s]], outcome).owner = NoOwner
      BY <1>0, <2>1, FinalizeRow
    <3>2. \A wait \in Claimable, isDue \in BOOLEAN :
            Postpone(row[work[s]], wait, isDue).owner = NoOwner
      BY <1>0, <2>1, PostponeRow
    <3>3. CASE Succeed(s) \/ Fail(s)
      BY <3>1, <3>3 DEF Succeed, Fail, Terminal
    <3>4. CASE Retry(s) \/ ParkCapacityWait(s)
      BY <3>2, <3>4 DEF Retry, ParkCapacityWait, Claimable
    <3>. QED BY <1>5, <3>3, <3>4
  <2>3. \A t \in Tasks : \/ row'[t].owner = row[t].owner /\ holder'[t] = holder[t]
                         \/ row'[t].owner = NoOwner
    BY <1>0, <2>1, <2>2 DEF Release
  <2>. QED BY <1>3, <2>1, <2>3, HeldFrame
<1>6. ASSUME NEW t \in Tasks, RowStep(t)
      PROVE  HeldByHolder'
  <2>1. Finalize(row[t], "cancelled").owner = NoOwner
    BY <1>0, FinalizeRow DEF Terminal
  <2>2. \A u \in Tasks : \/ row'[u].owner = row[u].owner /\ holder'[u] = holder[u]
                         \/ row'[u].owner = NoOwner
    BY <1>0, <1>6, <2>1 DEF RowStep, Cancel, LeaseLapses, BecomesDue, Row
  <2>3. UNCHANGED slotVars
    BY <1>6 DEF RowStep, Cancel, LeaseLapses, BecomesDue
  <2>. QED BY <2>2, <2>3, HeldFrame DEF slotVars
<1>7. CASE ReleaseExpired
  <2>1. \A t \in Tasks : Reclaim(row[t]).owner = NoOwner
    BY <1>0, ReclaimRow
  <2>2. \A u \in Tasks : \/ row'[u].owner = row[u].owner /\ holder'[u] = holder[u]
                         \/ row'[u].owner = NoOwner
    BY <1>0, <1>7, <2>1 DEF ReleaseExpired
  <2>. QED BY <1>7, <2>2, HeldFrame DEF ReleaseExpired, slotVars
<1>8. CASE \/ \E s \in Slots : ClaimSnapshot(s) \/ ClaimNothing(s)
           \/ \E o \in Owners : Crash(o)
  <2>1. /\ UNCHANGED <<row, holder, crossed>>
        /\ \A u \in Slots : work'[u] # NoTask => work'[u] = work[u]
    BY <1>0, <1>8 DEF ClaimSnapshot, ClaimNothing, Crash
  <2>. QED BY <2>1, HeldFrame
<1>. QED BY <1>2, <1>4, <1>5, <1>6, <1>7, <1>8 DEF Next, SlotStep

LEMMA StepKeepsCrossed ==
  ASSUME TypeOK, Next
  PROVE  crossed \subseteq crossed' /\ crossed' \in SUBSET Tasks
<1>1. ASSUME NEW s \in Slots, ClaimLock(s)
      PROVE  crossed \subseteq crossed' /\ crossed' \in SUBSET Tasks
  BY <1>1 DEF ClaimLock, TakeLease, TypeOK, RowTypes, SlotTypes
<1>2. CASE crossed' = crossed
  BY <1>2 DEF TypeOK, RowTypes
<1>. QED
  BY <1>1, <1>2
  DEF Next, SlotStep, RowStep, ClaimSnapshot, ClaimNothing, MarkRunning, Heartbeat,
      RecordAttempt, RejectTask, Succeed, Fail, Retry, ParkCapacityWait, MoveTo,
      Cancel, LeaseLapses, BecomesDue, ReleaseExpired, Crash, slotVars

\* The invariant of rows, slots and leases.
BaseInv == TypeOK /\ LeaseCoherent /\ HolderNamed /\ HeldByHolder

LEMMA BaseInvInit == Init => BaseInv
  BY SlotAssumption
  DEF Init, BaseInv, TypeOK, RowTypes, SlotTypes, LeaseCoherent, HolderNamed,
      HeldByHolder, Holds, NewRow, Row, Status, Claimable, LeaseHeld, Phase

LEMMA BaseInvStep == BaseInv /\ [Next]_vars => BaseInv'
<1>. SUFFICES ASSUME BaseInv, [Next]_vars PROVE BaseInv'
  OBVIOUS
<1>1. CASE Next
  <2>1. /\ row' \in [Tasks -> Row]
        /\ \A t \in Tasks : RowChange(row[t], row'[t])
    BY <1>1, StepChangesRows DEF BaseInv, TypeOK, RowTypes
  <2>2. LeaseCoherent'
    <3>. SUFFICES ASSUME NEW t \in Tasks
                  PROVE  row'[t].status \in LeaseHeld <=> row'[t].owner # NoOwner
      BY DEF LeaseCoherent
    <3>1. row[t] \in Row /\ (row[t].status \in LeaseHeld <=> row[t].owner # NoOwner)
      BY DEF BaseInv, TypeOK, RowTypes, LeaseCoherent
    <3>. QED BY <2>1, <3>1, RowChangeCoherent
  <2>3. SlotTypes'
    BY <1>1, StepKeepsSlotTypes DEF BaseInv
  <2>4. holder' \in [Tasks -> Slots \cup {Nobody}] /\ HolderNamed'
    BY <1>1, StepKeepsHolder DEF BaseInv
  <2>5. HeldByHolder'
    BY <1>1, <2>1, StepKeepsHeld DEF BaseInv
  <2>6. crossed' \in SUBSET Tasks
    BY <1>1, StepKeepsCrossed DEF BaseInv
  <2>. QED BY <2>1, <2>2, <2>3, <2>4, <2>5, <2>6 DEF BaseInv, TypeOK, RowTypes
<1>2. CASE UNCHANGED vars
  BY <1>2 DEF vars, BaseInv, TypeOK, RowTypes, SlotTypes, LeaseCoherent, HolderNamed,
              HeldByHolder, Holds
<1>. QED BY <1>1, <1>2

LEMMA BaseInvHolds == Spec => []BaseInv
  BY BaseInvInit, BaseInvStep, PTL DEF Spec

\* The queue's rows and the slots' states stay well formed, whatever shares an
\* owner string and whatever commits inside a claim.
THEOREM TypeCorrect == Spec => []TypeOK
  BY BaseInvHolds, PTL DEF BaseInv

\* A row has an owner exactly while it is leased: no queue operation leaves a row
\* that the sweeper cannot see or that nobody owns.
THEOREM LeasesAreCoherent == Spec => []LeaseCoherent
  BY BaseInvHolds, PTL DEF BaseInv

-----------------------------------------------------------------------------
\* The attempt budget of the tasks that are taken in turn.

LEMMA HoldsIsHolder ==
  ASSUME BaseInv, NEW s \in Slots, Holds(s)
  PROVE  /\ work[s] \in Tasks
         /\ row[work[s]] \in Row
         /\ row[work[s]].attempts \in Nat
         /\ work[s] \notin crossed => holder[work[s]] = s
  BY DEF BaseInv, HeldByHolder, TypeOK, RowTypes, SlotTypes, Holds, Row

LEMMA BudgetInit == Init => BudgetInv
  BY MaxAttemptsAssumption
  DEF Init, BudgetInv, AttemptsWithinBudget, NewRow, Holds, Executing

\* What BudgetInv says of one row and of one slot.
Within(r) ==
  /\ r.attempts <= MaxAttempts
  /\ r.status \in Claimable => r.attempts < MaxAttempts
Spare(s) == pc[s] \in Executing \cup {"to_retry"}
SlotWithin(s) ==
  Holds(s) /\ work[s] \notin crossed /\ Spare(s) => row[work[s]].attempts < MaxAttempts

LEMMA BudgetUnfolded ==
  BudgetInv <=> /\ \A t \in Tasks \ crossed : Within(row[t])
                /\ \A s \in Slots : SlotWithin(s)
  BY DEF BudgetInv, AttemptsWithinBudget, Within, Spare, SlotWithin

LEMMA BudgetFolded ==
  ASSUME \A t \in Tasks \ crossed' : Within(row'[t]),
         \A s \in Slots : SlotWithin(s)'
  PROVE  BudgetInv'
  BY DEF BudgetInv, AttemptsWithinBudget, Within, Spare, SlotWithin

\* A step that changes no attempts and no owners and moves no slot except s,
\* within its execution or out of it.
LEMMA BudgetFrame ==
  ASSUME BaseInv, BudgetInv, NEW s \in Slots,
         row' \in [Tasks -> Row],
         \A t \in Tasks : /\ row'[t].attempts = row[t].attempts
                          /\ row'[t].owner \in {row[t].owner, NoOwner},
         \A t \in Tasks \ crossed : Within(row'[t]),
         \/ UNCHANGED slotVars
         \/ MoveTo(s, "idle")
         \/ Spare(s) /\ MoveTo(s, "calling")
  PROVE  BudgetInv'
<1>1. \A u \in Slots : work'[u] # NoTask => work'[u] = work[u] /\ work[u] \in Tasks
  BY SlotAssumption DEF MoveTo, slotVars, BaseInv, TypeOK, SlotTypes
<1>2. \A u \in Slots : Spare(u)' => Spare(u)
  BY DEF MoveTo, slotVars, BaseInv, TypeOK, SlotTypes, Spare, Executing
<1>3. \A u \in Slots : Holds(u)' => Holds(u)
  BY <1>1, SlotAssumption, NoOwnerAssumption DEF Holds, OwnedBy
<1>4. crossed' = crossed
  BY DEF MoveTo, slotVars
<1>5. \A u \in Slots : SlotWithin(u)'
  BY <1>1, <1>2, <1>3, <1>4, BudgetUnfolded DEF SlotWithin, Holds
<1>. QED BY <1>4, <1>5, BudgetFolded

\* A slot persists an attempt in a row it holds.
LEMMA BudgetAttempt ==
  ASSUME BaseInv, BudgetInv, NEW s \in Slots, Holds(s), Spare(s),
         row[work[s]].status \in LeaseHeld,
         row' = [row EXCEPT ![work[s]].attempts = row[work[s]].attempts + 1],
         NEW phase \in Reporting, MoveTo(s, phase),
         phase = "to_retry" => row[work[s]].attempts + 1 < MaxAttempts
  PROVE  BudgetInv'
<1>. DEFINE t == work[s]
<1>1. /\ t \in Tasks
      /\ row[t] \in Row
      /\ row[t].attempts \in Nat
      /\ MaxAttempts \in Nat
      /\ t \notin crossed => holder[t] = s /\ row[t].attempts < MaxAttempts
  BY HoldsIsHolder, BudgetUnfolded, MaxAttemptsAssumption DEF SlotWithin
<1>2. /\ row'[t].attempts = row[t].attempts + 1
      /\ row'[t].status = row[t].status
      /\ row'[t].owner = row[t].owner
      /\ \A u \in Tasks : u # t => row'[u] = row[u]
  BY <1>1 DEF BaseInv, TypeOK, RowTypes, Row
<1>3. /\ pc' = [pc EXCEPT ![s] = phase]
      /\ work' = work
      /\ crossed' = crossed
      /\ pc \in [Slots -> Phase]
      /\ work \in [Slots -> Tasks \cup {NoTask}]
  BY DEF MoveTo, Reporting, BaseInv, TypeOK, SlotTypes
<1>4. ASSUME NEW u \in Tasks \ crossed'
      PROVE  Within(row'[u])
  BY <1>1, <1>2, <1>3, BudgetUnfolded DEF Within, Claimable, LeaseHeld
<1>5. ASSUME NEW u \in Slots
      PROVE  SlotWithin(u)'
  <2>1. CASE u = s
    BY <1>1, <1>2, <1>3, <2>1 DEF SlotWithin, Spare, Executing, Reporting
  <2>2. CASE u # s /\ work[u] = t /\ t \notin crossed
    <3>1. ~Holds(u)
      BY <1>1, <2>2, HoldsIsHolder
    <3>2. ~Holds(u)'
      BY <1>1, <1>2, <1>3, <2>2, <3>1 DEF Holds, OwnedBy
    <3>. QED BY <3>2 DEF SlotWithin
  <2>3. CASE u # s /\ work[u] = t /\ t \in crossed
    BY <1>3, <2>3 DEF SlotWithin
  <2>4. CASE u # s /\ work[u] # t
    BY <1>2, <1>3, <2>4, BudgetUnfolded, SlotAssumption DEF SlotWithin, Holds, OwnedBy, Spare
  <2>. QED BY <2>1, <2>2, <2>3, <2>4
<1>. QED BY <1>4, <1>5, BudgetFolded

\* A slot leases a row: in turn, one that waits and that no other slot holds.
LEMMA BudgetLease ==
  ASSUME BaseInv, BudgetInv, NEW s \in Slots, NEW t \in Tasks, TakeLease(s, t)
  PROVE  BudgetInv'
<1>1. row[t] \in Row /\ OwnerOf[s] \in Owners
  BY SlotAssumption DEF BaseInv, TypeOK, RowTypes
<1>2. /\ row'[t].attempts = row[t].attempts
      /\ row'[t].status = "leased"
      /\ row'[t].owner = OwnerOf[s]
      /\ \A u \in Tasks : u # t => row'[u] = row[u]
  BY <1>1, LeaseRow DEF TakeLease, BaseInv, TypeOK, RowTypes
<1>3. crossed \subseteq crossed' /\ (t \notin crossed' => InTurn(s, t) /\ t \notin crossed)
  BY DEF TakeLease
<1>4. t \notin crossed' => row[t].attempts < MaxAttempts
  BY <1>3, BudgetUnfolded DEF InTurn, Within
<1>5. ASSUME NEW u \in Tasks \ crossed'
      PROVE  Within(row'[u])
  <2>1. CASE u = t
    BY <1>1, <1>2, <1>4, <2>1, MaxAttemptsAssumption DEF Within, Claimable, Row
  <2>2. CASE u # t
    BY <1>2, <1>3, <2>2, BudgetUnfolded
  <2>. QED BY <2>1, <2>2
<1>6. /\ pc' = [pc EXCEPT ![s] = "claimed"]
      /\ work' = [work EXCEPT ![s] = t]
      /\ pc \in [Slots -> Phase]
      /\ work \in [Slots -> Tasks \cup {NoTask}]
  BY DEF TakeLease, BaseInv, TypeOK, SlotTypes
<1>7. ASSUME NEW u \in Slots
      PROVE  SlotWithin(u)'
  <2>1. CASE u = s
    BY <1>2, <1>4, <1>6, <2>1 DEF SlotWithin
  <2>2. CASE u # s /\ work[u] = t
    <3>1. t \notin crossed' => OwnerOf[u] # OwnerOf[s]
      BY <1>3, <2>2 DEF InTurn
    <3>2. work'[u] = t
      BY <1>6, <2>2
    <3>. QED BY <1>2, <3>1, <3>2 DEF SlotWithin, Holds, OwnedBy
  <2>3. CASE u # s /\ work[u] # t
    <3>1. work'[u] = work[u] /\ pc'[u] = pc[u]
      BY <1>6, <2>3
    <3>2. work[u] \in Tasks => row'[work[u]] = row[work[u]]
      BY <1>2, <2>3
    <3>3. Holds(u)' => work[u] \in Tasks
      BY <1>6, <3>1 DEF Holds
    <3>. QED BY <1>3, <3>1, <3>2, <3>3, BudgetUnfolded DEF SlotWithin, Holds, OwnedBy, Spare
  <2>. QED BY <2>1, <2>2, <2>3
<1>. QED BY <1>5, <1>7, BudgetFolded

\* A slot lets its row go.
LEMMA BudgetRelease ==
  ASSUME BaseInv, BudgetInv, BaseInv', NEW s \in Slots, NEW q,
         Release(s, q), MoveTo(s, "idle"),
         work[s] \in Tasks => /\ q.attempts = row[work[s]].attempts
                              /\ q.owner = NoOwner
                              /\ Holds(s) /\ work[s] \notin crossed => Within(q)
  PROVE  BudgetInv'
<1>1. row' \in [Tasks -> Row]
  BY DEF BaseInv, TypeOK, RowTypes
<1>2. ASSUME NEW t \in Tasks
      PROVE  /\ row'[t].attempts = row[t].attempts
             /\ row'[t].owner \in {row[t].owner, NoOwner}
             /\ t \notin crossed => Within(row'[t])
  BY BudgetUnfolded DEF Release, BaseInv, TypeOK, RowTypes
<1>. QED BY <1>1, <1>2, BudgetFrame

LEMMA BudgetStep ==
  ASSUME BaseInv, BudgetInv, Next, BaseInv'
  PROVE  BudgetInv'
<1>1. /\ row \in [Tasks -> Row]
      /\ row' \in [Tasks -> Row]
      /\ \A t \in Tasks : row[t] \in Row
      /\ \A t \in Tasks \ crossed : Within(row[t])
      /\ \A s \in Slots : SlotWithin(s)
  BY BudgetUnfolded DEF BaseInv, TypeOK, RowTypes
<1>2. ASSUME NEW s \in Slots, ClaimLock(s)
      PROVE  BudgetInv'
  <2>1. PICK t \in seen[s] : TakeLease(s, t)
    BY <1>2 DEF ClaimLock
  <2>. QED BY <2>1, BudgetLease DEF BaseInv, TypeOK, SlotTypes
<1>3. ASSUME NEW s \in Slots, MarkRunning(s)
      PROVE  BudgetInv'
  <2>1. /\ Spare(s)
        /\ MoveTo(s, "idle") \/ MoveTo(s, "calling")
    BY <1>3 DEF MarkRunning, Spare, Executing
  <2>2. ASSUME NEW t \in Tasks
        PROVE  /\ row'[t].attempts = row[t].attempts
               /\ row'[t].owner \in {row[t].owner, NoOwner}
               /\ t \notin crossed => Within(row'[t])
    BY <1>1, <1>3, BeginRow DEF MarkRunning, Within, Claimable
  <2>. QED BY <1>1, <2>1, <2>2, BudgetFrame
<1>4. ASSUME NEW s \in Slots, Heartbeat(s)
      PROVE  BudgetInv'
  <2>1. ASSUME NEW t \in Tasks
        PROVE  /\ row'[t].attempts = row[t].attempts
               /\ row'[t].owner \in {row[t].owner, NoOwner}
               /\ t \notin crossed => Within(row'[t])
    BY <1>1, <1>4, ExtendRow DEF Heartbeat, Within
  <2>. QED BY <1>1, <1>4, <2>1, BudgetFrame DEF Heartbeat
<1>5. ASSUME NEW s \in Slots, RecordAttempt(s)
      PROVE  BudgetInv'
  <2>1. CASE Holds(s) /\ row[work[s]].status = "running"
    <3>1. /\ Spare(s)
          /\ row[work[s]].status \in LeaseHeld
          /\ row' = [row EXCEPT ![work[s]].attempts = row[work[s]].attempts + 1]
      BY <1>5, <2>1 DEF RecordAttempt, Spare, Executing, LeaseHeld
    <3>2. PICK phase \in Reporting :
            /\ MoveTo(s, phase)
            /\ phase = "to_retry" => row[work[s]].attempts + 1 < MaxAttempts
      BY <1>5, <2>1 DEF RecordAttempt, Reporting
    <3>. QED BY <2>1, <3>1, <3>2, BudgetAttempt
  <2>2. CASE ~(Holds(s) /\ row[work[s]].status = "running")
    BY <1>1, <1>5, <2>2, BudgetFrame DEF RecordAttempt
  <2>. QED BY <2>1, <2>2
<1>6. ASSUME NEW s \in Slots, RejectTask(s)
      PROVE  BudgetInv'
  <2>1. /\ Spare(s)
        /\ Holds(s)
        /\ row[work[s]].status \in LeaseHeld
        /\ row' = [row EXCEPT ![work[s]].attempts = row[work[s]].attempts + 1]
        /\ MoveTo(s, "to_fail")
        /\ "to_fail" \in Reporting
    BY <1>6 DEF RejectTask, Spare, Executing, LeaseHeld, Reporting
  <2>. QED BY <2>1, BudgetAttempt
<1>7. ASSUME NEW s \in Slots, Succeed(s) \/ Fail(s)
      PROVE  BudgetInv'
  <2>1. MoveTo(s, "idle")
    BY <1>7 DEF Succeed, Fail
  <2>2. PICK outcome \in Terminal : Release(s, Finalize(row[work[s]], outcome))
    BY <1>7 DEF Succeed, Fail, Terminal
  <2>3. work[s] \in Tasks => LET q == Finalize(row[work[s]], outcome)
                             IN /\ q.attempts = row[work[s]].attempts
                                /\ q.owner = NoOwner
                                /\ q.status \in Terminal
    BY <1>1, FinalizeRow
  <2>4. work[s] \in Tasks \ crossed => Within(Finalize(row[work[s]], outcome))
    BY <1>1, <2>3 DEF Within, Terminal, Claimable
  <2>. QED BY <2>1, <2>2, <2>3, <2>4, BudgetRelease
<1>8. ASSUME NEW s \in Slots, Retry(s) \/ ParkCapacityWait(s)
      PROVE  BudgetInv'
  <2>1. MoveTo(s, "idle") /\ Spare(s)
    BY <1>8 DEF Retry, ParkCapacityWait, Spare, Executing
  <2>2. PICK wait \in Claimable, isDue \in BOOLEAN :
          Release(s, Postpone(row[work[s]], wait, isDue))
    BY <1>8 DEF Retry, ParkCapacityWait, Claimable
  <2>3. work[s] \in Tasks => LET q == Postpone(row[work[s]], wait, isDue)
                             IN /\ q.attempts = row[work[s]].attempts
                                /\ q.owner = NoOwner
    BY <1>1, PostponeRow
  <2>4. Holds(s) /\ work[s] \in Tasks \ crossed
          => Within(Postpone(row[work[s]], wait, isDue))
    BY <1>1, <2>1, <2>3 DEF Within, SlotWithin
  <2>. QED BY <2>1, <2>2, <2>3, <2>4, BudgetRelease
<1>9. ASSUME UNCHANGED slotVars,
             \A t \in Tasks : /\ row'[t].attempts = row[t].attempts
                              /\ row'[t].owner \in {row[t].owner, NoOwner}
                              /\ t \notin crossed => Within(row'[t])
      PROVE  BudgetInv'
  <2>1. CASE Slots = {}
    BY <1>9, <2>1, BudgetFolded DEF slotVars
  <2>2. CASE Slots # {}
    BY <1>1, <1>9, <2>2, BudgetFrame
  <2>. QED BY <2>1, <2>2
<1>10. ASSUME NEW t \in Tasks, RowStep(t)
       PROVE  BudgetInv'
  <2>1. ASSUME NEW u \in Tasks
        PROVE  /\ row'[u].attempts = row[u].attempts
               /\ row'[u].owner \in {row[u].owner, NoOwner}
               /\ u \notin crossed => Within(row'[u])
    <3>1. CASE Cancel(t)
      <4>1. LET q == Finalize(row[t], "cancelled")
            IN q.attempts = row[t].attempts /\ q.owner = NoOwner /\ q.status = "cancelled"
        BY <1>1, FinalizeRow DEF Terminal
      <4>. QED BY <1>1, <3>1, <4>1 DEF Cancel, Within, Claimable
    <3>2. CASE LeaseLapses(t) \/ BecomesDue(t)
      BY <1>1, <3>2 DEF LeaseLapses, BecomesDue, Within, Row
    <3>. QED BY <1>10, <3>1, <3>2 DEF RowStep
  <2>2. UNCHANGED slotVars
    BY <1>10 DEF RowStep, Cancel, LeaseLapses, BecomesDue
  <2>. QED BY <1>9, <2>1, <2>2
<1>11. ASSUME ReleaseExpired
       PROVE  BudgetInv'
  <2>1. ASSUME NEW t \in Tasks
        PROVE  /\ row'[t].attempts = row[t].attempts
               /\ row'[t].owner \in {row[t].owner, NoOwner}
               /\ t \notin crossed => Within(row'[t])
    <3>1. LET q == Reclaim(row[t])
          IN /\ q.attempts = row[t].attempts
             /\ q.owner = NoOwner
             /\ q.status = IF row[t].attempts < MaxAttempts
                             THEN "retry_wait" ELSE "failed"
      BY <1>1, ReclaimRow
    <3>2. row'[t] = Reclaim(row[t]) \/ row'[t] = row[t]
      BY <1>11 DEF ReleaseExpired
    <3>. QED BY <1>1, <3>1, <3>2 DEF Within, Claimable
  <2>2. UNCHANGED slotVars
    BY <1>11 DEF ReleaseExpired
  <2>. QED BY <1>9, <2>1, <2>2
<1>12. CASE \/ \E s \in Slots : ClaimSnapshot(s) \/ ClaimNothing(s)
            \/ \E o \in Owners : Crash(o)
  <2>1. UNCHANGED <<row, crossed>>
    BY <1>12 DEF ClaimSnapshot, ClaimNothing, Crash
  <2>2. ASSUME NEW s \in Slots
        PROVE  SlotWithin(s)'
    <3>1. /\ Holds(s)' => work'[s] = work[s]
          /\ Holds(s)' /\ Spare(s)' => pc'[s] = pc[s]
      BY <1>12
      DEF ClaimSnapshot, ClaimNothing, Crash, Holds, Spare, Executing,
          BaseInv, TypeOK, SlotTypes
    <3>. QED BY <1>1, <2>1, <3>1 DEF SlotWithin, Holds, OwnedBy, Spare
  <2>. QED BY <1>1, <2>1, <2>2, BudgetFolded
<1>. QED
  BY <1>2, <1>3, <1>4, <1>5, <1>6, <1>7, <1>8, <1>10, <1>11, <1>12 DEF Next, SlotStep

-----------------------------------------------------------------------------
\* What follows for the tasks that are taken in turn.

LEMMA QueueInvHolds == Spec => [](BaseInv /\ BudgetInv)
<1>1. Init => BaseInv /\ BudgetInv
  BY BaseInvInit, BudgetInit
<1>2. BaseInv /\ BudgetInv /\ [Next]_vars => (BaseInv /\ BudgetInv)'
  <2>. SUFFICES ASSUME BaseInv, BudgetInv, [Next]_vars
                PROVE  (BaseInv /\ BudgetInv)'
    OBVIOUS
  <2>1. BaseInv'
    BY BaseInvStep
  <2>2. CASE Next
    BY <2>1, <2>2, BudgetStep
  <2>3. CASE UNCHANGED vars
    BY <2>1, <2>3 DEF vars, BudgetInv, AttemptsWithinBudget, Holds
  <2>. QED BY <2>1, <2>2, <2>3
<1>. QED BY <1>1, <1>2, PTL DEF Spec

\* No task is attempted more often than its frozen max_attempts, and a row that
\* can be claimed has an attempt left, as long as no claim took it out of turn.
THEOREM BudgetHolds == Spec => []AttemptsWithinBudget
  BY QueueInvHolds, PTL DEF BudgetInv

\* How a step looks to the protocol, at a task it does not take out of turn.
LEMMA StepRefines ==
  ASSUME BaseInv, BudgetInv, Next, BaseInv', NEW t \in Tasks, t \notin crossed'
  PROVE  Lifecycle!TaskStep(t)
<1>0. /\ row \in [Tasks -> Row]
      /\ holder \in [Tasks -> Slots \cup {Nobody}]
      /\ \A u \in Tasks : row[u] \in Row
      /\ Nobody \notin Slots
  BY SlotAssumption DEF BaseInv, TypeOK, RowTypes
<1>1. t \notin crossed /\ MaxAttempts \in Nat /\ row[t].attempts \in Nat
  BY <1>0, StepKeepsCrossed, MaxAttemptsAssumption DEF BaseInv, Row
<1>2. \A s \in Slots :
        Holds(s) /\ work[s] = t => /\ holder[t] = s
                                   /\ Spare(s) => row[t].attempts < MaxAttempts
  BY <1>1, HoldsIsHolder, BudgetUnfolded DEF SlotWithin
<1>3. ASSUME holder'[t] = holder[t],
             row'[t].status = row[t].status,
             row'[t].attempts = row[t].attempts
      PROVE  Lifecycle!TaskStep(t)
  BY <1>3 DEF Lifecycle!TaskStep, Lifecycle!Keeps
<1>4. ASSUME NEW s \in Slots, ClaimLock(s)
      PROVE  Lifecycle!TaskStep(t)
  <2>1. PICK u \in seen[s] : TakeLease(s, u)
    BY <1>4 DEF ClaimLock
  <2>2. CASE u = t
    <3>1. InTurn(s, t)
      BY <2>1, <2>2 DEF TakeLease
    <3>2. /\ row[t].status \in Claimable
          /\ row'[t].status = "leased"
          /\ row'[t].attempts = row[t].attempts
          /\ holder'[t] = s
      BY <1>0, <2>1, <2>2, <3>1, LeaseRow, SlotAssumption DEF TakeLease, InTurn
    <3>3. Lifecycle!Claim(t)
      BY <3>2 DEF Lifecycle!Claim, Lifecycle!Waiting, Claimable
    <3>. QED BY <3>3 DEF Lifecycle!TaskStep
  <2>3. CASE u # t
    BY <1>0, <1>3, <2>1, <2>3 DEF TakeLease
  <2>. QED BY <2>2, <2>3
<1>5. ASSUME NEW s \in Slots, MarkRunning(s)
      PROVE  Lifecycle!TaskStep(t)
  <2>1. CASE row'[t] = row[t]
    BY <1>3, <1>5, <2>1 DEF MarkRunning
  <2>2. CASE Holds(s) /\ row[t].status = "leased" /\ row'[t] = Begin(row[t])
    <3>1. row'[t].status = "running" /\ row'[t].attempts = row[t].attempts
      BY <1>0, <2>2, BeginRow
    <3>2. Lifecycle!Start(t)
      BY <1>5, <2>2, <3>1 DEF Lifecycle!Start, MarkRunning
    <3>. QED BY <3>2 DEF Lifecycle!TaskStep
  <2>. QED BY <1>0, <1>5, <2>1, <2>2 DEF MarkRunning
<1>6. ASSUME NEW s \in Slots, Heartbeat(s)
      PROVE  Lifecycle!TaskStep(t)
  BY <1>0, <1>3, <1>6, ExtendRow DEF Heartbeat
<1>7. ASSUME NEW s \in Slots, RecordAttempt(s) \/ RejectTask(s)
      PROVE  Lifecycle!TaskStep(t)
  <2>1. CASE row'[t] = row[t]
    BY <1>3, <1>7, <2>1 DEF RecordAttempt, RejectTask
  <2>2. CASE Holds(s) /\ work[s] = t
             /\ row'[t] = [row[t] EXCEPT !.attempts = row[t].attempts + 1]
    <3>1. Spare(s) /\ holder' = holder
      BY <1>7 DEF RecordAttempt, RejectTask, Spare, Executing
    <3>2. /\ row'[t].status = row[t].status
          /\ row'[t].attempts = row[t].attempts + 1
      BY <1>0, <2>2 DEF Row
    <3>3. Lifecycle!Attempt(t)
      BY <1>2, <2>2, <3>1, <3>2 DEF Lifecycle!Attempt
    <3>. QED BY <3>3 DEF Lifecycle!TaskStep
  <2>. QED BY <1>0, <1>7, <2>1, <2>2 DEF RecordAttempt, RejectTask
<1>8. ASSUME NEW s \in Slots, Succeed(s) \/ Fail(s)
      PROVE  Lifecycle!TaskStep(t)
  <2>1. PICK outcome \in {"succeeded", "failed"} :
          Release(s, Finalize(row[work[s]], outcome))
    BY <1>8 DEF Succeed, Fail
  <2>2. CASE Holds(s) /\ work[s] = t
    <3>1. outcome \in Terminal
      BY DEF Terminal
    <3>2. /\ row'[t].status = outcome
          /\ row'[t].attempts = row[t].attempts
          /\ holder'[t] = Nobody
      BY <1>0, <2>1, <2>2, <3>1, FinalizeRow DEF Release
    <3>3. Lifecycle!Complete(t)
      BY <1>2, <2>2, <3>2 DEF Lifecycle!Complete
    <3>. QED BY <3>3 DEF Lifecycle!TaskStep
  <2>3. CASE ~(Holds(s) /\ work[s] = t)
    BY <1>0, <1>3, <2>1, <2>3 DEF Release
  <2>. QED BY <2>2, <2>3
<1>9. ASSUME NEW s \in Slots, Retry(s) \/ ParkCapacityWait(s)
      PROVE  Lifecycle!TaskStep(t)
  <2>1. PICK wait \in {"retry_wait", "capacity_wait"}, isDue \in BOOLEAN :
          Release(s, Postpone(row[work[s]], wait, isDue))
    BY <1>9 DEF Retry, ParkCapacityWait
  <2>2. CASE Holds(s) /\ work[s] = t
    <3>1. wait \in Claimable /\ Spare(s)
      BY <1>9 DEF Claimable, Retry, ParkCapacityWait, Spare, Executing
    <3>2. /\ row'[t].status = wait
          /\ row'[t].attempts = row[t].attempts
          /\ holder'[t] = Nobody
      BY <1>0, <2>1, <2>2, <3>1, PostponeRow DEF Release
    <3>3. Lifecycle!GiveBack(t)
      BY <1>2, <2>2, <3>1, <3>2 DEF Lifecycle!GiveBack
    <3>. QED BY <3>3 DEF Lifecycle!TaskStep
  <2>3. CASE ~(Holds(s) /\ work[s] = t)
    BY <1>0, <1>3, <2>1, <2>3 DEF Release
  <2>. QED BY <2>2, <2>3
<1>10. ASSUME NEW u \in Tasks, Cancel(u)
       PROVE  Lifecycle!TaskStep(t)
  <2>1. CASE u = t
    <3>1. /\ row[t].status \notin Terminal
          /\ row'[t].status = "cancelled"
          /\ row'[t].attempts = row[t].attempts
          /\ holder'[t] = Nobody
      BY <1>0, <1>10, <2>1, FinalizeRow DEF Cancel, Terminal
    <3>2. Lifecycle!Cancel(t)
      BY <3>1 DEF Lifecycle!Cancel, Lifecycle!Finished, Terminal
    <3>. QED BY <3>2 DEF Lifecycle!TaskStep
  <2>2. CASE u # t
    BY <1>0, <1>3, <1>10, <2>2 DEF Cancel
  <2>. QED BY <2>1, <2>2
<1>11. ASSUME NEW u \in Tasks, LeaseLapses(u) \/ BecomesDue(u)
       PROVE  Lifecycle!TaskStep(t)
  BY <1>0, <1>3, <1>11 DEF LeaseLapses, BecomesDue, Row
<1>12. ASSUME ReleaseExpired
       PROVE  Lifecycle!TaskStep(t)
  <2>1. CASE row'[t] = row[t] /\ holder'[t] = holder[t]
    BY <1>3, <2>1
  <2>2. CASE Expired(row[t]) /\ row'[t] = Reclaim(row[t]) /\ holder'[t] = Nobody
    <3>1. /\ row'[t].status = IF row[t].attempts < MaxAttempts
                                THEN "retry_wait" ELSE "failed"
          /\ row'[t].attempts = row[t].attempts
          /\ row[t].status \in LeaseHeld
      BY <1>0, <2>2, ReclaimRow DEF Expired
    <3>2. Lifecycle!TakeBack(t)
      BY <2>2, <3>1 DEF Lifecycle!TakeBack, Lifecycle!Held, LeaseHeld
    <3>. QED BY <3>2 DEF Lifecycle!TaskStep
  <2>. QED BY <1>12, <2>1, <2>2 DEF ReleaseExpired
<1>13. CASE UNCHANGED <<row, holder>>
  BY <1>3, <1>13
<1>. QED
  BY <1>4, <1>5, <1>6, <1>7, <1>8, <1>9, <1>10, <1>11, <1>12, <1>13
  DEF Next, SlotStep, RowStep, ClaimSnapshot, ClaimNothing, Crash

\* The PostgreSQL queue implements the TaskQueue protocol for every task that is
\* claimed in turn: one executor at a time, only it decides, never beyond the
\* budget, and terminal tasks stay.
THEOREM QueueRefinesLifecycle == Spec => RefinesLifecycle
<1>1. Init => Lifecycle!Init
  BY DEF Init, Lifecycle!Init, NewRow
<1>2. BaseInv /\ BudgetInv /\ (BaseInv /\ BudgetInv)' /\ [Next]_vars
        => [Lifecycle!Next]_(Lifecycle!vars)
  <2>1. ASSUME UNCHANGED vars
        PROVE  UNCHANGED Lifecycle!vars
    BY <2>1 DEF vars, Lifecycle!vars
  <2>2. ASSUME BaseInv, BudgetInv, BaseInv', Next
        PROVE  Lifecycle!Next
    <3>1. \A t \in Tasks \ crossed' : Lifecycle!TaskStep(t)
      BY <2>2, StepRefines
    <3>2. crossed \subseteq crossed'
      BY <2>2, StepKeepsCrossed DEF BaseInv
    <3>. QED BY <3>1, <3>2 DEF Lifecycle!Next
  <2>. QED BY <2>1, <2>2
<1>. QED BY <1>1, <1>2, QueueInvHolds, PTL DEF Spec, Lifecycle!Spec, RefinesLifecycle

-----------------------------------------------------------------------------
\* Terminal rows: in turn, no operation reaches a row that has no owner and does
\* not wait.

LEMMA TerminalStep ==
  ASSUME BaseInv, Next, NEW t \in Tasks, t \notin crossed', row[t].status \in Terminal
  PROVE  row'[t] = row[t]
<1>1. /\ row[t].owner = NoOwner
      /\ row[t].status \notin LeaseHeld
      /\ row[t].status \notin Claimable
  BY DEF BaseInv, LeaseCoherent, Terminal, LeaseHeld, Claimable
<1>2. \A s \in Slots : Holds(s) => work[s] # t
  BY <1>1, SlotAssumption, NoOwnerAssumption DEF Holds, OwnedBy
<1>3. row \in [Tasks -> Row]
  BY DEF BaseInv, TypeOK, RowTypes
<1>4. ASSUME NEW s \in Slots, SlotStep(s)
      PROVE  row'[t] = row[t]
  <2>1. CASE ClaimLock(s)
    <3>1. PICK u \in seen[s] : TakeLease(s, u)
      BY <2>1 DEF ClaimLock
    <3>2. u # t
      BY <1>1, <3>1 DEF TakeLease, InTurn
    <3>. QED BY <1>3, <3>1, <3>2 DEF TakeLease
  <2>2. CASE ClaimSnapshot(s) \/ ClaimNothing(s)
    BY <2>2 DEF ClaimSnapshot, ClaimNothing
  <2>3. CASE MarkRunning(s) \/ Heartbeat(s) \/ RecordAttempt(s) \/ RejectTask(s)
    BY <1>2, <1>3, <2>3 DEF MarkRunning, Heartbeat, RecordAttempt, RejectTask
  <2>4. CASE Succeed(s) \/ Fail(s) \/ Retry(s) \/ ParkCapacityWait(s)
    BY <1>2, <1>3, <2>4 DEF Succeed, Fail, Retry, ParkCapacityWait, Release
  <2>. QED BY <1>4, <2>1, <2>2, <2>3, <2>4 DEF SlotStep
<1>5. ASSUME NEW u \in Tasks, RowStep(u)
      PROVE  row'[t] = row[t]
  BY <1>1, <1>3, <1>5 DEF RowStep, Cancel, LeaseLapses, BecomesDue
<1>6. CASE ReleaseExpired
  BY <1>1, <1>6 DEF ReleaseExpired, Expired
<1>7. CASE row' = row
  BY <1>7
<1>. QED BY <1>4, <1>5, <1>6, <1>7 DEF Next, Crash

\* A terminal row is written by nothing but a claim that takes it out of turn, even
\* where slots share an owner string.
THEOREM TerminalHolds == Spec => TerminalIsFinal
<1>1. BaseInv /\ [Next]_vars
        => [\A t \in Tasks \ crossed' :
              row[t].status \in Terminal => row'[t] = row[t]]_vars
  BY TerminalStep
<1>. QED BY <1>1, BaseInvHolds, PTL DEF Spec, TerminalIsFinal

LEMMA HolderStep ==
  ASSUME BaseInv, NEW s \in Slots, NEW t \in Tasks, t \notin crossed',
         crossed \subseteq crossed', SlotStep(s), row'[t] # row[t]
  PROVE  holder[t] = s \/ (holder[t] = Nobody /\ holder'[t] = s)
<1>1. row \in [Tasks -> Row] /\ holder \in [Tasks -> Slots \cup {Nobody}]
  BY DEF BaseInv, TypeOK, RowTypes
<1>2. Holds(s) /\ work[s] = t => holder[t] = s
  BY HoldsIsHolder
<1>3. CASE ClaimLock(s)
  <2>1. PICK u \in seen[s] : TakeLease(s, u)
    BY <1>3 DEF ClaimLock
  <2>2. u = t
    BY <1>1, <2>1 DEF TakeLease
  <2>3. row[t].status \in Claimable
    BY <2>1, <2>2 DEF TakeLease, InTurn
  <2>4. row[t].owner = NoOwner
    BY <2>3 DEF BaseInv, LeaseCoherent, Claimable, LeaseHeld
  <2>5. holder[t] = Nobody
    BY <1>1, <2>4, SlotAssumption, NoOwnerAssumption DEF BaseInv, HolderNamed
  <2>. QED BY <1>1, <2>1, <2>2, <2>5 DEF TakeLease
<1>4. CASE ClaimSnapshot(s) \/ ClaimNothing(s)
  BY <1>4 DEF ClaimSnapshot, ClaimNothing
<1>5. CASE MarkRunning(s) \/ Heartbeat(s) \/ RecordAttempt(s) \/ RejectTask(s)
  BY <1>1, <1>2, <1>5 DEF MarkRunning, Heartbeat, RecordAttempt, RejectTask
<1>6. CASE Succeed(s) \/ Fail(s) \/ Retry(s) \/ ParkCapacityWait(s)
  BY <1>1, <1>2, <1>6 DEF Succeed, Fail, Retry, ParkCapacityWait, Release
<1>. QED BY <1>3, <1>4, <1>5, <1>6 DEF SlotStep

\* A slot that lost its lease never writes the row: the owner check of
\* _owned_task suffices for every task that is claimed in turn.
THEOREM OnlyHolderWritesHolds == Spec => OnlyTheHolderWrites
<1>1. BaseInv /\ [Next]_vars
        => [\A s \in Slots, t \in Tasks \ crossed' :
              SlotStep(s) /\ row'[t] # row[t] =>
                \/ holder[t] = s
                \/ holder[t] = Nobody /\ holder'[t] = s]_vars
  <2>. SUFFICES ASSUME BaseInv, Next, NEW s \in Slots, NEW t \in Tasks,
                       t \notin crossed', SlotStep(s), row'[t] # row[t]
                PROVE  holder[t] = s \/ (holder[t] = Nobody /\ holder'[t] = s)
    OBVIOUS
  <2>1. crossed \subseteq crossed'
    BY StepKeepsCrossed DEF BaseInv
  <2>. QED BY <2>1, HolderStep
<1>. QED BY <1>1, BaseInvHolds, PTL DEF Spec, OnlyTheHolderWrites

-----------------------------------------------------------------------------
\* Turns: FairClaim for any tasks, tenants, workers and batch sizes.  Its program
\* counter is turnPc here, its tasks are those of the queue.
CONSTANTS Workspaces, Claimers, WorkspaceOf, BaseRank, TurnRank, Limits, NoOne
VARIABLES eligible, cursor, turnPc, now, picked, turnLock, passed, bypass

Turns == INSTANCE FairClaim WITH pc <- turnPc

Workers == Cardinality(Claimers)

\* The types, that a claim reads the clock once, and that it does not pass by a
\* workspace it serves.
TurnTypes ==
  /\ eligible \subseteq Tasks
  /\ cursor \in [Workspaces -> Nat]
  /\ turnPc \in [Claimers -> Turns!Phase]
  /\ now \in [Claimers -> Nat]
  /\ picked \in [Claimers -> SUBSET Tasks]
  /\ passed \in [Claimers -> SUBSET Workspaces]
  /\ bypass \in [Workspaces -> [Workspaces -> Nat]]
  /\ \A c \in Claimers :
       /\ turnPc[c] = "idle" => now[c] = 0
       /\ turnPc[c] \in {"ready", "turning"} => now[c] # 0
       /\ passed[c] \cap Turns!Served(picked[c]) = {}

\* The claims whose clock reading is no later than a workspace's last turn, and
\* those under way that served v and passed w by.
Early(w) == {c \in Claimers : now[c] # 0 /\ now[c] <= cursor[w]}
Overtaking(w, v) ==
  {c \in Claimers : w \in passed[c] /\ v \in Turns!Served(picked[c])}

\* As long as v's turn was no later than w's, each service of v before w uses up a
\* claim that read the clock before w's last turn, except for the one that moves
\* v's turn past w's.  From then on there are those that were under way.
Counted(w, v) ==
  /\ cursor[v] <= cursor[w] =>
       bypass[w][v] + Cardinality(Early(w)) <= Workers - 1
  /\ cursor[v] > cursor[w] =>
       bypass[w][v] + Cardinality(Overtaking(w, v)) <= 2 * Workers - 1

TurnInv == TurnTypes /\ \A v, w \in Workspaces : Counted(w, v)

\* An instance counts with operators of its own.
LEMMA SameFinite == \A S : Turns!IsFiniteSet(S) <=> IsFiniteSet(S)
  BY DEF Turns!IsFiniteSet, IsFiniteSet

LEMMA SameCardinality == \A S : Turns!Cardinality(S) = Cardinality(S)
  BY DEF Turns!Cardinality, Cardinality

LEMMA TurnParameters ==
  ASSUME Turns!Configured
  PROVE  /\ IsFiniteSet(Tasks) /\ IsFiniteSet(Workspaces)
         /\ IsFiniteSet(Claimers) /\ Claimers # {} /\ NoOne \notin Claimers
         /\ WorkspaceOf \in [Tasks -> Workspaces] /\ BaseRank \in [Tasks -> Nat]
         /\ Limits \subseteq Nat \ {0}
  BY SameFinite DEF Turns!Configured

\* Counting claimers.
LEMMA ClaimerCounts ==
  ASSUME Turns!Configured
  PROVE  /\ Workers \in Nat /\ Workers >= 1
         /\ \A S \in SUBSET Claimers : /\ IsFiniteSet(S)
                                       /\ Cardinality(S) \in Nat
                                       /\ Cardinality(S) <= Workers
<1>1. IsFiniteSet(Claimers) /\ Claimers # {}
  BY TurnParameters
<1>2. Workers \in Nat /\ Workers # 0
  BY <1>1, FS_CardinalityType, FS_EmptySet DEF Workers
<1>3. ASSUME NEW S \in SUBSET Claimers
      PROVE  IsFiniteSet(S) /\ Cardinality(S) \in Nat /\ Cardinality(S) <= Workers
  BY <1>1, <1>3, FS_Subset, FS_CardinalityType DEF Workers
<1>. QED BY <1>2, <1>3

LEMMA SmallerSet ==
  ASSUME Turns!Configured, NEW S \in SUBSET Claimers, NEW T \in SUBSET S
  PROVE  Cardinality(T) <= Cardinality(S)
  BY ClaimerCounts, FS_Subset

LEMMA OneLess ==
  ASSUME Turns!Configured, NEW S \in SUBSET Claimers, NEW c \in S,
         NEW T \in SUBSET (S \ {c})
  PROVE  Cardinality(T) + 1 <= Cardinality(S)
<1>1. IsFiniteSet(S) /\ Cardinality(S) \in Nat
  BY ClaimerCounts
<1>2. Cardinality(S \ {c}) = Cardinality(S) - 1
  BY <1>1, FS_RemoveElement
<1>3. S \ {c} \in SUBSET Claimers
  OBVIOUS
<1>4. Cardinality(T) <= Cardinality(S \ {c})
  BY <1>3, SmallerSet
<1>5. Cardinality(T) \in Nat
  BY ClaimerCounts
<1>. QED BY <1>1, <1>2, <1>4, <1>5

\* What is left without one claimer.
LEMMA OthersCount ==
  ASSUME Turns!Configured, NEW c \in Claimers, NEW T \in SUBSET (Claimers \ {c})
  PROVE  Cardinality(T) \in Nat /\ Cardinality(T) <= Workers - 1
  BY OneLess, ClaimerCounts DEF Workers

\* A claim takes the first row of a workspace before anything of one that was
\* served later: who is served although w waits was served no later than w.
LEMMA LaterTurnsWait ==
  ASSUME Turns!Configured, TurnTypes, NEW limit \in Nat,
         NEW v \in Turns!Served(Turns!Chosen(limit)),
         NEW w \in Workspaces, Turns!Waits(w),
         w \notin Turns!Served(Turns!Chosen(limit))
  PROVE  cursor[v] <= cursor[w]
<1>1. PICK t \in Turns!Chosen(limit) : WorkspaceOf[t] = v
  BY DEF Turns!Served
<1>2. PICK r \in Turns!FreeRows : WorkspaceOf[r] = w /\ Turns!Position(r) = 1
  BY DEF Turns!Waits
<1>3. r \notin Turns!Chosen(limit)
  BY <1>2 DEF Turns!Served
<1>. DEFINE Before(x) == {u \in Turns!FreeRows : Turns!Precedes(u, x)}
<1>4. t \in Turns!FreeRows /\ Cardinality(Before(t)) < limit
  BY <1>1, SameCardinality DEF Turns!Chosen
<1>5. ~(Cardinality(Before(r)) < limit)
  BY <1>2, <1>3, SameCardinality DEF Turns!Chosen
<1>6. Turns!FreeRows \subseteq Tasks /\ IsFiniteSet(Turns!FreeRows)
  <2>1. Turns!FreeRows \in SUBSET Tasks /\ IsFiniteSet(Tasks)
    BY TurnParameters DEF Turns!FreeRows, TurnTypes
  <2>. QED BY <2>1, FS_Subset
<1>7. ASSUME NEW u \in Turns!FreeRows
      PROVE  Turns!Position(u) \in Nat /\ Turns!Position(u) >= 1
  <2>. DEFINE S == {x \in eligible : /\ WorkspaceOf[x] = WorkspaceOf[u]
                                     /\ BaseRank[x] <= BaseRank[u]}
  <2>1. u \in S
    BY <1>6, <1>7, TurnParameters DEF Turns!FreeRows
  <2>2. S \in SUBSET Tasks /\ IsFiniteSet(Tasks)
    BY TurnParameters DEF TurnTypes
  <2>3. Turns!Position(u) = Cardinality(S)
    BY SameCardinality DEF Turns!Position
  <2>. HIDE DEF S
  <2>4. IsFiniteSet(S) /\ Cardinality(S) \in Nat
    BY <2>2, FS_Subset, FS_CardinalityType
  <2>5. Cardinality(S) # 0
    BY <2>1, <2>4, FS_EmptySet
  <2>. QED BY <2>3, <2>4, <2>5
<1>8. /\ v \in Workspaces /\ cursor[v] \in Nat /\ cursor[w] \in Nat
      /\ \A u \in Turns!FreeRows : WorkspaceOf[u] \in Workspaces /\ cursor[WorkspaceOf[u]] \in Nat
  BY <1>1, <1>4, <1>6, TurnParameters DEF TurnTypes
<1>. SUFFICES ASSUME cursor[w] < cursor[v] PROVE FALSE
  BY <1>8
<1>9. Before(r) \subseteq Before(t)
  <2>. SUFFICES ASSUME NEW u \in Turns!FreeRows, Turns!Precedes(u, r)
                PROVE  Turns!Precedes(u, t)
    OBVIOUS
  <2>1. Turns!Position(u) = 1 /\ cursor[WorkspaceOf[u]] <= cursor[w]
    BY <1>2, <1>7, <1>8 DEF Turns!Precedes
  <2>. QED BY <1>1, <1>4, <1>7, <1>8, <2>1 DEF Turns!Precedes
<1>10. Before(t) \in SUBSET Turns!FreeRows /\ Before(r) \in SUBSET Turns!FreeRows
  OBVIOUS
<1>. HIDE DEF Before
<1>11. IsFiniteSet(Before(t))
  BY <1>6, <1>10, FS_Subset
<1>12. Cardinality(Before(r)) <= Cardinality(Before(t))
  BY <1>9, <1>11, FS_Subset
<1>13. Cardinality(Before(r)) \in Nat /\ Cardinality(Before(t)) \in Nat
  BY <1>6, <1>10, FS_Subset, FS_CardinalityType
<1>. QED BY <1>4, <1>5, <1>12, <1>13

\* Renumbering keeps the order of the timestamps, and zero for none.
LEMMA StampsFinite ==
  ASSUME Turns!Configured, TurnTypes
  PROVE  Turns!Stamps \subseteq Nat \ {0} /\ IsFiniteSet(Turns!Stamps)
<1>1. IsFiniteSet({cursor[w] : w \in Workspaces})
  <2>1. cursor \in Surjection(Workspaces, {cursor[w] : w \in Workspaces})
    BY DEF TurnTypes, Surjection
  <2>. QED BY <2>1, TurnParameters, FS_Surjection
<1>2. IsFiniteSet({now[c] : c \in Claimers})
  <2>1. now \in Surjection(Claimers, {now[c] : c \in Claimers})
    BY DEF TurnTypes, Surjection
  <2>. QED BY <2>1, TurnParameters, FS_Surjection
<1>. DEFINE All == {cursor[w] : w \in Workspaces} \cup {now[c] : c \in Claimers}
<1>3. IsFiniteSet(All)
  BY <1>1, <1>2, FS_Union
<1>4. All \subseteq Nat
  BY DEF TurnTypes
<1>5. Turns!Stamps = All \ {0}
  BY DEF Turns!Stamps
<1>. HIDE DEF All
<1>6. IsFiniteSet(Turns!Stamps)
  BY <1>3, <1>5, FS_RemoveElement
<1>. QED BY <1>4, <1>5, <1>6

Upto(x) == {y \in Turns!Stamps : y <= x}

LEMMA RenumberedCount ==
  ASSUME Turns!Configured, TurnTypes, NEW x
  PROVE  /\ Turns!Renumbered(x) = Cardinality(Upto(x))
         /\ IsFiniteSet(Upto(x))
         /\ Turns!Renumbered(x) \in Nat
         /\ Turns!Renumbered(x) <= Cardinality(Turns!Stamps)
         /\ Cardinality(Turns!Stamps) \in Nat
<1>1. Turns!Renumbered(x) = Cardinality(Upto(x))
  BY SameCardinality DEF Turns!Renumbered, Upto
<1>2. Upto(x) \in SUBSET Turns!Stamps
  BY DEF Upto
<1>3. IsFiniteSet(Turns!Stamps)
  BY StampsFinite
<1>4. IsFiniteSet(Upto(x)) /\ Cardinality(Upto(x)) <= Cardinality(Turns!Stamps)
  BY <1>2, <1>3, FS_Subset
<1>. QED BY <1>1, <1>3, <1>4, FS_CardinalityType

LEMMA RenumberedOrder ==
  ASSUME Turns!Configured, TurnTypes,
         NEW x \in Turns!Stamps \cup {0}, NEW y \in Turns!Stamps \cup {0}
  PROVE  Turns!Renumbered(x) <= Turns!Renumbered(y) <=> x <= y
<1>0. Turns!Stamps \subseteq Nat \ {0} /\ x \in Nat /\ y \in Nat
  BY StampsFinite
<1>1. ASSUME NEW a \in Turns!Stamps \cup {0}, NEW b \in Turns!Stamps \cup {0}, a <= b
      PROVE  Turns!Renumbered(a) <= Turns!Renumbered(b)
  <2>0. \A z \in Turns!Stamps : z <= a => z <= b
    <3>. SUFFICES ASSUME NEW z \in Turns!Stamps, z <= a PROVE z <= b
      OBVIOUS
    <3>1. z \in Nat /\ a \in Nat /\ b \in Nat
      BY <1>0
    <3>. QED BY <1>1, <3>1
  <2>1. Upto(a) \subseteq Upto(b)
    BY <2>0 DEF Upto
  <2>2. IsFiniteSet(Upto(b)) /\ Upto(a) \in SUBSET Upto(b)
    BY <2>1, RenumberedCount
  <2>3. Cardinality(Upto(a)) <= Cardinality(Upto(b))
    BY <2>2, FS_Subset
  <2>. QED BY <2>3, RenumberedCount
<1>2. ASSUME NEW a \in Turns!Stamps \cup {0}, NEW b \in Turns!Stamps \cup {0}, a < b
      PROVE  Turns!Renumbered(a) < Turns!Renumbered(b)
  <2>0. a \in Nat /\ b \in Nat /\ b \in Turns!Stamps /\ b <= b /\ ~(b <= a)
    BY <1>0, <1>2
  <2>5. \A z \in Turns!Stamps : z <= a => z <= b
    <3>. SUFFICES ASSUME NEW z \in Turns!Stamps, z <= a PROVE z <= b
      OBVIOUS
    <3>1. z \in Nat
      BY <1>0
    <3>. QED BY <1>2, <2>0, <3>1
  <2>1. Upto(a) \subseteq Upto(b) /\ b \in Upto(b) /\ b \notin Upto(a)
    BY <2>0, <2>5 DEF Upto
  <2>2. IsFiniteSet(Upto(b)) /\ Upto(a) \in SUBSET Upto(b)
    BY <2>1, RenumberedCount
  <2>3. /\ Cardinality(Upto(a)) <= Cardinality(Upto(b))
        /\ Cardinality(Upto(a)) # Cardinality(Upto(b))
    BY <2>1, <2>2, FS_Subset
  <2>4. /\ Turns!Renumbered(a) = Cardinality(Upto(a)) /\ Turns!Renumbered(a) \in Nat
        /\ Turns!Renumbered(b) = Cardinality(Upto(b)) /\ Turns!Renumbered(b) \in Nat
    BY RenumberedCount
  <2>. QED BY <2>3, <2>4
<1>3. Turns!Renumbered(x) \in Nat /\ Turns!Renumbered(y) \in Nat
  BY RenumberedCount
<1>. QED BY <1>0, <1>1, <1>2, <1>3

LEMMA RenumberedZero ==
  ASSUME Turns!Configured, TurnTypes, NEW x \in Turns!Stamps \cup {0}
  PROVE  Turns!Renumbered(x) = 0 <=> x = 0
<1>1. Turns!Stamps \subseteq Nat \ {0}
  BY StampsFinite
<1>2. CASE x = 0
  <2>1. \A z \in Turns!Stamps : ~(z <= x)
    BY <1>1, <1>2
  <2>2. Upto(x) = {}
    BY <2>1 DEF Upto
  <2>. QED BY <1>2, <2>2, RenumberedCount, FS_EmptySet
<1>3. CASE x # 0
  <2>1. x \in Turns!Stamps /\ x <= x
    BY <1>1, <1>3
  <2>2. x \in Upto(x)
    BY <2>1 DEF Upto
  <2>. QED BY <1>3, <2>2, RenumberedCount, FS_EmptySet
<1>. QED BY <1>2, <1>3

-----------------------------------------------------------------------------
\* A step keeps the types.
LEMMA EndClaimTypes ==
  ASSUME TurnTypes, NEW c \in Claimers, NEW p \in {"idle", "dead"}, Turns!EndClaim(c, p)
  PROVE  /\ turnPc' \in [Claimers -> Turns!Phase]
         /\ now' \in [Claimers -> Nat]
         /\ picked' \in [Claimers -> SUBSET Tasks]
         /\ passed' \in [Claimers -> SUBSET Workspaces]
         /\ \A d \in Claimers :
              /\ turnPc'[d] = "idle" => now'[d] = 0
              /\ turnPc'[d] \in {"ready", "turning"} => now'[d] # 0
              /\ passed'[d] \cap Turns!Served(picked'[d]) = {}
         /\ now'[c] = 0 /\ passed'[c] = {}
         /\ \A d \in Claimers \ {c} : /\ now'[d] = now[d] /\ passed'[d] = passed[d]
                                      /\ picked'[d] = picked[d]
  BY DEF TurnTypes, Turns!EndClaim, Turns!Phase

LEMMA ReadClockTypes ==
  ASSUME Turns!Configured, TurnTypes, NEW c \in Claimers, Turns!ReadClock(c)
  PROVE  TurnTypes'
<1>1. \A x : Turns!Renumbered(x) \in Nat
  BY RenumberedCount
<1>2. Turns!Cardinality(Turns!Stamps) + 1 \in Nat
  BY SameCardinality, RenumberedCount
<1>3. now' \in [Claimers -> Nat] /\ cursor' \in [Workspaces -> Nat]
  BY <1>1, <1>2 DEF Turns!ReadClock
<1>4. /\ turnPc' \in [Claimers -> Turns!Phase]
      /\ turnPc'[c] = "ready"
      /\ \A d \in Claimers : d # c => turnPc'[d] = turnPc[d]
  BY DEF TurnTypes, Turns!ReadClock, Turns!Phase
<1>5. ASSUME NEW d \in Claimers, turnPc'[d] = "idle"
      PROVE  now'[d] = 0
  <2>1. now[d] = 0 /\ now'[d] = Turns!Renumbered(now[d])
    BY <1>4, <1>5 DEF TurnTypes, Turns!ReadClock
  <2>. QED BY <2>1, RenumberedZero
<1>7. ASSUME NEW d \in Claimers, turnPc'[d] \in {"ready", "turning"}
      PROVE  now'[d] # 0
  <2>1. CASE d = c
    <3>1. now'[d] = Turns!Cardinality(Turns!Stamps) + 1
      BY <2>1 DEF Turns!ReadClock
    <3>2. Turns!Cardinality(Turns!Stamps) \in Nat
      BY SameCardinality, RenumberedCount
    <3>. QED BY <3>1, <3>2
  <2>2. CASE d # c
    <3>1. now[d] # 0 /\ now'[d] = Turns!Renumbered(now[d])
      BY <1>4, <1>7, <2>2 DEF TurnTypes, Turns!ReadClock
    <3>2. now[d] \in Turns!Stamps
      BY <3>1 DEF Turns!Stamps
    <3>. QED BY <3>1, <3>2, RenumberedZero
  <2>. QED BY <2>1, <2>2
<1>6. UNCHANGED <<eligible, picked, passed, bypass>>
  BY DEF Turns!ReadClock, Turns!history
<1>. QED BY <1>3, <1>4, <1>5, <1>6, <1>7 DEF TurnTypes, Turns!Served

LEMMA TakeRowsTypes ==
  ASSUME TurnTypes, NEW c \in Claimers, Turns!TakeRows(c)
  PROVE  TurnTypes'
<1>1. PICK limit \in Limits :
        /\ picked' = [picked EXCEPT ![c] = Turns!Chosen(limit)]
        /\ passed' = [passed EXCEPT ![c] =
                        {w \in Workspaces : Turns!Waits(w)}
                          \ Turns!Served(Turns!Chosen(limit))]
  BY DEF Turns!TakeRows
<1>2. Turns!Chosen(limit) \subseteq Tasks
  BY DEF Turns!Chosen, Turns!FreeRows, TurnTypes
<1>3. /\ turnPc' \in [Claimers -> Turns!Phase]
      /\ \A d \in Claimers :
           /\ turnPc'[d] = "idle" => turnPc[d] = "idle"
           /\ turnPc'[d] \in {"ready", "turning"} => turnPc[d] \in {"ready", "turning"}
  BY DEF TurnTypes, Turns!TakeRows, Turns!Phase
<1>4. picked' \in [Claimers -> SUBSET Tasks] /\ passed' \in [Claimers -> SUBSET Workspaces]
  BY <1>1, <1>2 DEF TurnTypes
<1>5. ASSUME NEW d \in Claimers
      PROVE  passed'[d] \cap Turns!Served(picked'[d]) = {}
  BY <1>1 DEF TurnTypes
<1>6. UNCHANGED <<eligible, cursor, now, bypass>>
  BY DEF Turns!TakeRows
<1>. QED BY <1>3, <1>4, <1>5, <1>6 DEF TurnTypes, Turns!Served

LEMMA CommitTypes ==
  ASSUME Turns!Configured, TurnTypes, NEW c \in Claimers, Turns!Commit(c)
  PROVE  TurnTypes'
<1>1. Turns!EndClaim(c, "idle") /\ eligible' \subseteq Tasks
  BY DEF Turns!Commit, TurnTypes
<1>2. cursor' \in [Workspaces -> Nat]
  BY DEF Turns!Commit, Turns!Turn, TurnTypes
<1>3. bypass' \in [Workspaces -> [Workspaces -> Nat]]
  BY DEF Turns!Commit, Turns!Bypassed, TurnTypes
<1>. QED BY <1>1, <1>2, <1>3, EndClaimTypes DEF TurnTypes, Turns!Served

LEMMA TurnTypesStep ==
  ASSUME Turns!Configured, TurnTypes, [Turns!Next]_(Turns!vars)
  PROVE  TurnTypes'
<1>1. ASSUME NEW c \in Claimers, Turns!Die(c)
      PROVE  TurnTypes'
  BY <1>1, EndClaimTypes DEF Turns!Die, TurnTypes, Turns!Served
<1>2. ASSUME UNCHANGED <<cursor, turnPc, now, picked, passed, bypass>>,
             eligible' \subseteq Tasks
      PROVE  TurnTypes'
  BY <1>2 DEF TurnTypes, Turns!Served
<1>3. ASSUME NEW c \in Claimers, Turns!TakeTurn(c)
      PROVE  TurnTypes'
  BY <1>2, <1>3 DEF Turns!TakeTurn, Turns!history, TurnTypes
<1>4. ASSUME NEW t \in Tasks, Turns!BecomeEligible(t) \/ Turns!Withdraw(t)
      PROVE  TurnTypes'
  BY <1>2, <1>4
  DEF Turns!BecomeEligible, Turns!Withdraw, Turns!claimVars, Turns!history, TurnTypes
<1>5. CASE UNCHANGED Turns!vars
  BY <1>2, <1>5 DEF Turns!vars, Turns!claimVars, Turns!history, TurnTypes
<1>. QED
  BY <1>1, <1>3, <1>4, <1>5, ReadClockTypes, TakeRowsTypes, CommitTypes
  DEF Turns!Next, Turns!ClaimStep

-----------------------------------------------------------------------------
\* A step that moves no turn and no count, and after which at most as many claims
\* are early or overtaking, keeps the count.
LEMMA CountedKept ==
  ASSUME Turns!Configured, TurnTypes, NEW v \in Workspaces, NEW w \in Workspaces,
         Counted(w, v), bypass'[w][v] = bypass[w][v],
         cursor'[v] <= cursor'[w] <=> cursor[v] <= cursor[w],
         cursor'[v] \in Nat, cursor'[w] \in Nat,
         Early(w)' \subseteq Early(w),
         cursor[v] > cursor[w] => Overtaking(w, v)' \subseteq Overtaking(w, v)
  PROVE  Counted(w, v)'
<1>1. Early(w) \in SUBSET Claimers /\ Overtaking(w, v) \in SUBSET Claimers
  BY DEF Early, Overtaking
<1>2. /\ Cardinality(Early(w)) \in Nat /\ Cardinality(Overtaking(w, v)) \in Nat
      /\ Workers \in Nat
  BY <1>1, ClaimerCounts
<1>3. /\ Early(w)' \in SUBSET Claimers
      /\ cursor[v] > cursor[w] => Overtaking(w, v)' \in SUBSET Claimers
  BY <1>1
<1>. DEFINE E == Early(w)'  O == Overtaking(w, v)'
<1>. HIDE DEF E, O
<1>4. Cardinality(E) \in Nat /\ Cardinality(E) <= Cardinality(Early(w))
  BY <1>1, <1>3, ClaimerCounts, SmallerSet DEF E
<1>5. cursor[v] > cursor[w] =>
        Cardinality(O) \in Nat /\ Cardinality(O) <= Cardinality(Overtaking(w, v))
  BY <1>1, <1>3, ClaimerCounts, SmallerSet DEF O
<1>6. bypass[w][v] \in Nat /\ cursor[v] \in Nat /\ cursor[w] \in Nat
  BY DEF TurnTypes
<1>7. Workers' = Workers /\ Cardinality(E) = Cardinality(Early(w))'
      /\ Cardinality(O) = Cardinality(Overtaking(w, v))'
  BY DEF Workers, E, O
<1>. QED BY <1>2, <1>4, <1>5, <1>6, <1>7 DEF Counted

LEMMA ReadClockCounts ==
  ASSUME Turns!Configured, TurnTypes, NEW c \in Claimers, Turns!ReadClock(c),
         NEW v \in Workspaces, NEW w \in Workspaces, Counted(w, v)
  PROVE  Counted(w, v)'
<1>1. /\ cursor'[v] = Turns!Renumbered(cursor[v])
      /\ cursor'[w] = Turns!Renumbered(cursor[w])
  BY DEF Turns!ReadClock
<1>2. /\ cursor[v] \in Turns!Stamps \cup {0} /\ cursor[w] \in Turns!Stamps \cup {0}
      /\ \A d \in Claimers : now[d] \in Turns!Stamps \cup {0}
  BY DEF Turns!Stamps
<1>3. cursor'[v] <= cursor'[w] <=> cursor[v] <= cursor[w]
  BY <1>1, <1>2, RenumberedOrder
<1>4. cursor'[v] \in Nat /\ cursor'[w] \in Nat
  BY <1>1, RenumberedCount
<1>5. ASSUME NEW d \in Claimers, d \in Early(w)'
      PROVE  d \in Early(w)
  <2>1. now'[d] # 0 /\ now'[d] <= cursor'[w]
    BY <1>5 DEF Early
  <2>2. d # c
    <3>1. now'[c] = Turns!Cardinality(Turns!Stamps) + 1
      BY DEF Turns!ReadClock
    <3>2. /\ cursor'[w] <= Cardinality(Turns!Stamps)
          /\ Cardinality(Turns!Stamps) \in Nat
      BY <1>1, RenumberedCount
    <3>. QED BY <2>1, <3>1, <3>2, <1>4, SameCardinality
  <2>3. now'[d] = Turns!Renumbered(now[d])
    BY <2>2 DEF Turns!ReadClock
  <2>4. now[d] # 0 /\ now[d] <= cursor[w]
    BY <1>1, <1>2, <2>1, <2>3, RenumberedZero, RenumberedOrder
  <2>. QED BY <2>4 DEF Early
<1>6. Early(w)' \subseteq Early(w)
  BY <1>5 DEF Early
<1>7. UNCHANGED <<picked, passed, bypass>>
  BY DEF Turns!ReadClock, Turns!history
<1>8. Overtaking(w, v)' = Overtaking(w, v)
  BY <1>7 DEF Overtaking, Turns!Served
<1>. QED BY <1>3, <1>4, <1>6, <1>7, <1>8, CountedKept

LEMMA TakeRowsCounts ==
  ASSUME Turns!Configured, TurnTypes, NEW c \in Claimers, Turns!TakeRows(c),
         NEW v \in Workspaces, NEW w \in Workspaces, Counted(w, v)
  PROVE  Counted(w, v)'
<1>1. PICK limit \in Limits :
        /\ picked' = [picked EXCEPT ![c] = Turns!Chosen(limit)]
        /\ passed' = [passed EXCEPT ![c] =
                        {x \in Workspaces : Turns!Waits(x)}
                          \ Turns!Served(Turns!Chosen(limit))]
  BY DEF Turns!TakeRows
<1>2. limit \in Nat
  BY TurnParameters
<1>3. UNCHANGED <<cursor, now, bypass>>
  BY DEF Turns!TakeRows
<1>4. ASSUME cursor[v] > cursor[w], NEW d \in Claimers, d \in Overtaking(w, v)'
      PROVE  d \in Overtaking(w, v)
  <2>1. w \in passed'[d] /\ v \in Turns!Served(picked'[d])
    BY <1>4 DEF Overtaking, Turns!Served
  <2>2. CASE d = c
    <3>1. /\ Turns!Waits(w) /\ w \notin Turns!Served(Turns!Chosen(limit))
          /\ v \in Turns!Served(Turns!Chosen(limit))
      BY <1>1, <2>1, <2>2 DEF TurnTypes
    <3>2. cursor[v] <= cursor[w]
      BY <1>2, <3>1, LaterTurnsWait
    <3>3. cursor[v] \in Nat /\ cursor[w] \in Nat
      BY DEF TurnTypes
    <3>. QED BY <1>4, <3>2, <3>3
  <2>3. CASE d # c
    <3>1. passed'[d] = passed[d] /\ picked'[d] = picked[d]
      BY <1>1, <2>3 DEF TurnTypes
    <3>. QED BY <2>1, <3>1 DEF Overtaking
  <2>. QED BY <2>2, <2>3
<1>5. cursor[v] > cursor[w] => Overtaking(w, v)' \subseteq Overtaking(w, v)
  BY <1>4 DEF Overtaking
<1>6. Early(w)' = Early(w)
  BY <1>3 DEF Early
<1>7. cursor[v] \in Nat /\ cursor[w] \in Nat
  BY DEF TurnTypes
<1>. QED BY <1>3, <1>5, <1>6, <1>7, CountedKept

LEMMA DieCounts ==
  ASSUME Turns!Configured, TurnTypes, NEW c \in Claimers, Turns!Die(c),
         NEW v \in Workspaces, NEW w \in Workspaces, Counted(w, v)
  PROVE  Counted(w, v)'
<1>1. UNCHANGED <<cursor, bypass>>
  BY DEF Turns!Die
<1>2. /\ now'[c] = 0 /\ passed'[c] = {}
      /\ \A d \in Claimers \ {c} : /\ now'[d] = now[d] /\ passed'[d] = passed[d]
                                   /\ picked'[d] = picked[d]
  BY EndClaimTypes DEF Turns!Die
<1>3. Early(w)' \subseteq Early(w)
  BY <1>1, <1>2 DEF Early
<1>4. Overtaking(w, v)' \subseteq Overtaking(w, v)
  BY <1>2 DEF Overtaking, Turns!Served
<1>5. cursor[v] \in Nat /\ cursor[w] \in Nat
  BY DEF TurnTypes
<1>. QED BY <1>1, <1>3, <1>4, <1>5, CountedKept

\* What a commit counts.
LEMMA CommitBypass ==
  ASSUME TurnTypes, NEW c \in Claimers, Turns!Commit(c),
         NEW v \in Workspaces, NEW w \in Workspaces, bypass'[w][v] # 0
  PROVE  /\ w \in passed[c]
         /\ \/ bypass'[w][v] = bypass[w][v]
            \/ v \in Turns!Served(picked[c]) /\ bypass'[w][v] = bypass[w][v] + 1
<1>1. bypass' = Turns!Bypassed(c)
  BY DEF Turns!Commit
<1>2. bypass'[w][v] =
        IF w \notin passed[c] \/ ~Turns!Waits(w) THEN 0
        ELSE IF v \in Turns!Served(picked[c]) /\ bypass[w][v] < Turns!BypassBound
               THEN bypass[w][v] + 1 ELSE bypass[w][v]
  BY <1>1 DEF Turns!Bypassed
<1>. QED BY <1>2

LEMMA CommitCounts ==
  ASSUME Turns!Configured, TurnTypes, NEW c \in Claimers, Turns!Commit(c),
         NEW v \in Workspaces, NEW w \in Workspaces, Counted(w, v)
  PROVE  Counted(w, v)'
<1>. DEFINE E == Early(w)'  O == Overtaking(w, v)'
<1>1. /\ now'[c] = 0 /\ passed'[c] = {}
      /\ \A d \in Claimers \ {c} : /\ now'[d] = now[d] /\ passed'[d] = passed[d]
                                   /\ picked'[d] = picked[d]
  BY EndClaimTypes DEF Turns!Commit
<1>2. /\ E \in SUBSET (Claimers \ {c}) /\ O \in SUBSET (Claimers \ {c})
      /\ O \subseteq Overtaking(w, v)
  BY <1>1 DEF Early, Overtaking, Turns!Served
<1>3. cursor'[w] = cursor[w] => E \subseteq Early(w)
  BY <1>1 DEF Early
<1>4. /\ Workers' = Workers /\ Cardinality(Early(w))' = Cardinality(E)
      /\ Cardinality(Overtaking(w, v))' = Cardinality(O)
  BY DEF Workers
<1>. HIDE DEF E, O
<1>5. /\ Cardinality(E) \in Nat /\ Cardinality(E) <= Workers - 1
      /\ Cardinality(O) \in Nat /\ Cardinality(O) <= Workers - 1
      /\ Workers \in Nat /\ Workers >= 1
  BY <1>2, OthersCount, ClaimerCounts
<1>6. /\ cursor[v] \in Nat /\ cursor[w] \in Nat /\ now[c] \in Nat
      /\ cursor'[v] \in Nat /\ cursor'[w] \in Nat
      /\ bypass[w][v] \in Nat /\ bypass'[w][v] \in Nat
  <2>1. TurnTypes'
    BY CommitTypes
  <2>. QED BY <2>1 DEF TurnTypes
<1>7. Early(w) \in SUBSET Claimers /\ Overtaking(w, v) \in SUBSET Claimers
  BY DEF Early, Overtaking
<1>8. /\ Cardinality(Early(w)) \in Nat /\ Cardinality(Overtaking(w, v)) \in Nat
      /\ E \subseteq Early(w) => Cardinality(E) <= Cardinality(Early(w))
      /\ Cardinality(O) <= Cardinality(Overtaking(w, v))
  BY <1>2, <1>7, ClaimerCounts, SmallerSet
<1>9. now[c] # 0
  BY DEF Turns!Commit, TurnTypes
<1>10. CASE bypass'[w][v] = 0
  BY <1>4, <1>5, <1>6, <1>10 DEF Counted
<1>11. CASE bypass'[w][v] # 0
  <2>1. /\ w \in passed[c]
        /\ \/ bypass'[w][v] = bypass[w][v]
           \/ v \in Turns!Served(picked[c]) /\ bypass'[w][v] = bypass[w][v] + 1
    BY <1>11, CommitBypass
  <2>2. w \notin Turns!Served(picked[c])
    BY <2>1 DEF TurnTypes
  <2>3. cursor'[w] = cursor[w]
    BY <2>2 DEF Turns!Commit
  <2>4. CASE v \notin Turns!Served(picked[c])
    <3>1. cursor'[v] = cursor[v]
      BY <2>4 DEF Turns!Commit
    <3>. QED BY <1>3, <1>4, <1>5, <1>6, <1>8, <2>1, <2>3, <2>4, <3>1 DEF Counted
  <2>5. CASE v \in Turns!Served(picked[c])
    <3>1. cursor'[v] >= cursor[v] /\ cursor'[v] >= now[c]
      <4>1. cursor'[v] = IF cursor[v] > now[c] THEN cursor[v] ELSE now[c]
        BY <2>5 DEF Turns!Commit, Turns!Turn
      <4>. QED BY <4>1, <1>6
    <3>2. CASE cursor'[v] <= cursor'[w]
      <4>1. now[c] <= cursor[w] /\ cursor[v] <= cursor[w]
        BY <1>6, <2>3, <3>1, <3>2
      <4>2. c \in Early(w)
        BY <1>9, <4>1 DEF Early
      <4>3. E \in SUBSET (Early(w) \ {c})
        BY <1>2, <1>3, <2>3
      <4>4. Cardinality(E) + 1 <= Cardinality(Early(w))
        BY <1>7, <4>2, <4>3, OneLess
      <4>. QED BY <1>4, <1>5, <1>6, <1>8, <2>1, <3>2, <4>1, <4>4 DEF Counted
    <3>3. CASE cursor'[v] > cursor'[w] /\ cursor[v] <= cursor[w]
      BY <1>4, <1>5, <1>6, <1>8, <2>1, <3>3 DEF Counted
    <3>4. CASE cursor'[v] > cursor'[w] /\ cursor[v] > cursor[w]
      <4>1. c \in Overtaking(w, v)
        BY <2>1, <2>5 DEF Overtaking
      <4>2. O \in SUBSET (Overtaking(w, v) \ {c})
        BY <1>2
      <4>3. Cardinality(O) + 1 <= Cardinality(Overtaking(w, v))
        BY <1>7, <4>1, <4>2, OneLess
      <4>. QED BY <1>4, <1>5, <1>6, <1>8, <2>1, <3>4, <4>3 DEF Counted
    <3>. QED BY <1>6, <3>2, <3>3, <3>4
  <2>. QED BY <2>4, <2>5
<1>. QED BY <1>10, <1>11

\* Every step keeps the count.
LEMMA CountedStep ==
  ASSUME Turns!Configured, TurnTypes, [Turns!Next]_(Turns!vars),
         NEW v \in Workspaces, NEW w \in Workspaces, Counted(w, v)
  PROVE  Counted(w, v)'
<1>1. ASSUME UNCHANGED <<cursor, now, picked, passed, bypass>>
      PROVE  Counted(w, v)'
  BY <1>1 DEF Counted, Early, Overtaking, Workers, Turns!Served
<1>2. ASSUME NEW c \in Claimers, Turns!TakeTurn(c)
      PROVE  Counted(w, v)'
  BY <1>1, <1>2 DEF Turns!TakeTurn, Turns!history
<1>3. ASSUME NEW t \in Tasks, Turns!BecomeEligible(t) \/ Turns!Withdraw(t)
      PROVE  Counted(w, v)'
  BY <1>1, <1>3 DEF Turns!BecomeEligible, Turns!Withdraw, Turns!claimVars, Turns!history
<1>4. CASE UNCHANGED Turns!vars
  BY <1>1, <1>4 DEF Turns!vars, Turns!claimVars, Turns!history
<1>. QED
  BY <1>2, <1>3, <1>4, ReadClockCounts, TakeRowsCounts, CommitCounts, DieCounts
  DEF Turns!Next, Turns!ClaimStep

\* Initially nobody is passed by; the count implies the bound.
LEMMA TurnInvInit ==
  ASSUME Turns!Configured, Turns!Init
  PROVE  TurnInv
<1>1. TurnTypes
  BY DEF Turns!Init, TurnTypes, Turns!Served, Turns!Phase
<1>2. ASSUME NEW v \in Workspaces, NEW w \in Workspaces
      PROVE  Counted(w, v)
  <2>1. cursor[v] = 0 /\ cursor[w] = 0 /\ bypass[w][v] = 0 /\ Early(w) = {}
    BY DEF Turns!Init, Early
  <2>2. Cardinality(Early(w)) = 0
    BY <2>1, FS_EmptySet
  <2>. QED BY <2>1, <2>2, ClaimerCounts DEF Counted
<1>. QED BY <1>1, <1>2 DEF TurnInv

LEMMA TurnInvBound ==
  ASSUME Turns!Configured, TurnInv
  PROVE  Turns!BoundedBypass
<1>. SUFFICES ASSUME NEW v \in Workspaces, NEW w \in Workspaces
              PROVE  bypass[w][v] < 2 * Workers
  BY SameCardinality DEF Turns!BoundedBypass, Workers
<1>1. Early(w) \in SUBSET Claimers /\ Overtaking(w, v) \in SUBSET Claimers
  BY DEF Early, Overtaking
<1>2. /\ Cardinality(Early(w)) \in Nat /\ Cardinality(Overtaking(w, v)) \in Nat
      /\ Workers \in Nat /\ Workers >= 1
  BY <1>1, ClaimerCounts
<1>3. Counted(w, v) /\ cursor[v] \in Nat /\ cursor[w] \in Nat /\ bypass[w][v] \in Nat
  BY DEF TurnInv, TurnTypes
<1>. QED BY <1>2, <1>3 DEF Counted

\* A claim takes the least recently served tenants first (postgres_task_queue.claim),
\* so one whose first task is there to be taken sees no other one served before it
\* two times per worker, however the claims overlap and whatever rows each of them
\* finds locked.
THEOREM BoundedBypassHolds ==
  ASSUME Turns!Configured
  PROVE  Turns!Spec => []Turns!BoundedBypass
<1>1. Turns!Init => TurnInv
  BY TurnInvInit
<1>2. TurnInv /\ [Turns!Next]_(Turns!vars) => TurnInv'
  BY TurnTypesStep, CountedStep DEF TurnInv
<1>3. TurnInv => Turns!BoundedBypass
  BY TurnInvBound
<1>. QED BY <1>1, <1>2, <1>3, PTL DEF Turns!Spec
=============================================================================
