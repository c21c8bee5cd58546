----------------------- MODULE ImportProjectionProofs -----------------------
(***************************************************************************)
(* TLAPS proofs about ImportProjection, for any connections, kinds, windows *)
(* and pages, any number of workers of either queue and any bounds.        *)
(***************************************************************************)
EXTENDS ImportProjection, FiniteSetTheorems, TLAPS

-----------------------------------------------------------------------------
\* Sequences and functions

\* Induction up to a bound.
LEMMA IntervalInduction ==
  ASSUME NEW n \in Nat, NEW P \in SUBSET (0 .. n), 0 \in P,
         \A i \in 1 .. n : i - 1 \in P => i \in P
  PROVE  P = 0 .. n
<1> DEFINE S == 0 .. n
           Bad == S \ P
           B == {0 .. i : i \in Bad}
<1> SUFFICES ASSUME Bad # {}
             PROVE  FALSE
  OBVIOUS
<1>1. PICK T \in B : \A U \in B : ~ (<<U, T>> \in StrictSubsetOrdering(S))
  <2>1. B \in SUBSET SUBSET S /\ B # {}
    OBVIOUS
  <2>2. IsFiniteSet(S)
    BY FS_Interval
  <2>. HIDE DEF B, S
  <2>3. FiniteSubsetsOf(S) = SUBSET S
    BY <2>2, FS_FiniteSubsetsOfFinite
  <2>4. IsWellFoundedOn(StrictSubsetOrdering(S), FiniteSubsetsOf(S))
    BY <2>2, FS_StrictSubsetOrderingWellFounded
  <2>. QED BY <2>1, <2>3, <2>4, WFMin
<1>2. PICK i \in Bad : T = 0 .. i
  BY <1>1
<1>3. i \in 1 .. n /\ i - 1 \in Bad
  BY <1>2
<1>4. 0 .. (i - 1) \in B /\ 0 .. (i - 1) \subseteq T /\ 0 .. (i - 1) # T
  BY <1>2, <1>3
<1>5. <<0 .. (i - 1), T>> \in StrictSubsetOrdering(S)
  BY <1>2, <1>3, <1>4 DEF StrictSubsetOrdering
<1>. QED BY <1>1, <1>4, <1>5

\* The recurrence of Without up to the n-th element.
KeptSoFar(h, s, S, n) ==
  h = [i \in 0 .. n |->
         IF i = 0 THEN <<>>
         ELSE IF s[i] \in S THEN h[i - 1] ELSE Append(h[i - 1], s[i])]

LEMMA KeptSoFarExists ==
  ASSUME NEW s, NEW S, NEW n \in Nat
  PROVE  \E h : KeptSoFar(h, s, S, n)
<1> DEFINE P == {k \in 0 .. n : \E h : KeptSoFar(h, s, S, k)}
<1>1. 0 \in P
  <2> DEFINE h == [i \in 0 .. 0 |-> <<>>]
  <2>1. KeptSoFar(h, s, S, 0)
    BY DEF KeptSoFar
  <2>. QED BY <2>1
<1>2. ASSUME NEW k \in 1 .. n, k - 1 \in P
      PROVE  k \in P
  <2>1. PICK h : KeptSoFar(h, s, S, k - 1)
    BY <1>2
  <2> DEFINE e == [i \in 0 .. k |->
                     IF i = 0 THEN <<>>
                     ELSE IF s[i] \in S THEN h[i - 1] ELSE Append(h[i - 1], s[i])]
  <2>2. ASSUME NEW i \in 0 .. (k - 1)
        PROVE  e[i] = h[i]
    <3>1. h[i] = IF i = 0 THEN <<>>
                 ELSE IF s[i] \in S THEN h[i - 1] ELSE Append(h[i - 1], s[i])
      BY <2>1 DEF KeptSoFar
    <3>2. i \in 0 .. k
      OBVIOUS
    <3>. QED BY <3>1, <3>2
  <2>3. \A i \in 0 .. k : i # 0 => e[i - 1] = h[i - 1]
    <3>1. \A i \in 0 .. k : i # 0 => i - 1 \in 0 .. (k - 1)
      OBVIOUS
    <3>. HIDE DEF e
    <3>. QED BY <2>2, <3>1
  <2>4. e = [i \in 0 .. k |->
               IF i = 0 THEN <<>>
               ELSE IF s[i] \in S THEN e[i - 1] ELSE Append(e[i - 1], s[i])]
    BY <2>3
  <2>5. KeptSoFar(e, s, S, k)
    BY <2>4 DEF KeptSoFar
  <2>. QED BY <2>5
<1>3. P = 0 .. n
  <2>1. P \in SUBSET (0 .. n)
    OBVIOUS
  <2>. HIDE DEF P
  <2>. QED BY <1>1, <1>2, <2>1, IntervalInduction
<1>. QED BY <1>3

\* What the recurrence says of one element.
KeepsUpTo(h, s, S, n) ==
  /\ h[0] = <<>>
  /\ \A i \in 1 .. n : /\ s[i] \in S => h[i] = h[i - 1]
                       /\ s[i] \notin S => h[i] = Append(h[i - 1], s[i])

LEMMA KeptSoFarAt ==
  ASSUME NEW h, NEW s, NEW S, NEW n \in Nat, KeptSoFar(h, s, S, n)
  PROVE  KeepsUpTo(h, s, S, n)
<1>1. \A i \in 0 .. n :
        h[i] = IF i = 0 THEN <<>>
               ELSE IF s[i] \in S THEN h[i - 1] ELSE Append(h[i - 1], s[i])
  BY ZenonT(20) DEF KeptSoFar
<1>2. 0 \in 0 .. n /\ \A i \in 1 .. n : i \in 0 .. n /\ i # 0
  OBVIOUS
<1>. QED BY <1>1, <1>2 DEF KeepsUpTo

LEMMA WithoutSteps ==
  ASSUME NEW T, NEW s \in Seq(T), NEW S
  PROVE  \E h : /\ KeepsUpTo(h, s, S, Len(s))
                /\ Without(s, S) = h[Len(s)]
<1>0. Len(s) \in Nat
  OBVIOUS
<1>1. \E h : KeptSoFar(h, s, S, Len(s))
  <2>1. ASSUME NEW n \in Nat PROVE \E h : KeptSoFar(h, s, S, n)
    BY KeptSoFarExists
  <2>. QED BY <1>0, <2>1
<1> DEFINE h == CHOOSE h : KeptSoFar(h, s, S, Len(s))
<1>2. Without(s, S) = h[Len(s)]
  BY DEF Without, KeptSoFar
<1>3. KeptSoFar(h, s, S, Len(s))
  BY <1>1
<1>. HIDE DEF h
<1>. QED BY <1>0, <1>2, <1>3, KeptSoFarAt

\* What is left of a sequence is a sequence of the other elements.
LEMMA WithoutType ==
  ASSUME NEW T, NEW s \in Seq(T), NEW S
  PROVE  Without(s, S) \in Seq(T \ S)
<1>1. PICK h : KeepsUpTo(h, s, S, Len(s)) /\ Without(s, S) = h[Len(s)]
  BY WithoutSteps
<1> DEFINE n == Len(s)
           P == {k \in 0 .. n : h[k] \in Seq(T \ S)}
<1>2. n \in Nat /\ \A i \in 1 .. n : s[i] \in T
  OBVIOUS
<1>5. 0 \in P
  <2>1. h[0] = <<>>
    BY <1>1 DEF KeepsUpTo
  <2>2. h[0] \in Seq(T \ S)
    BY <2>1
  <2>. QED BY <1>2, <2>2
<1>6. ASSUME NEW i \in 1 .. n, i - 1 \in P
      PROVE  i \in P
  <2>1. h[i - 1] \in Seq(T \ S) /\ s[i] \in T
    BY <1>2, <1>6
  <2>2. s[i] \notin S => Append(h[i - 1], s[i]) \in Seq(T \ S)
    BY <2>1
  <2>3. /\ s[i] \in S => h[i] = h[i - 1]
        /\ s[i] \notin S => h[i] = Append(h[i - 1], s[i])
    BY <1>1 DEF KeepsUpTo
  <2>4. h[i] \in Seq(T \ S)
    BY <2>1, <2>2, <2>3
  <2>5. i \in 0 .. n
    BY <1>2
  <2>. QED BY <2>4, <2>5
<1>7. P = 0 .. n
  <2>1. P \in SUBSET (0 .. n)
    OBVIOUS
  <2>. HIDE DEF P, n
  <2>. QED BY <1>2, <1>5, <1>6, <2>1, IntervalInduction
<1>. QED BY <1>1, <1>2, <1>7

\* A new key is inserted.
LEMMA WithoutOne ==
  ASSUME NEW k, NEW S, k \notin S
  PROVE  Without(<<k>>, S) = <<k>>
<1>1. <<k>> \in Seq({k}) /\ Len(<<k>>) = 1 /\ <<k>>[1] = k
  OBVIOUS
<1>2. PICK h : KeepsUpTo(h, <<k>>, S, 1) /\ Without(<<k>>, S) = h[1]
  BY <1>1, WithoutSteps
<1>3. h[0] = <<>> /\ h[1] = Append(h[0], k)
  BY <1>1, <1>2 DEF KeepsUpTo
<1>. QED BY <1>2, <1>3

-----------------------------------------------------------------------------
\* Keys

AnalyticsKeys == {k \in Key : QueueOf(k) = "analytics"}

LEMMA KeyQueues ==
  /\ \A r \in Run : SyncKey(r) \in Key /\ QueueOf(SyncKey(r)) = "sync"
  /\ \A r \in Run, p \in ReferralPages :
       IngestKey(r, p) \in AnalyticsKeys /\ ClassifyKey(r, p) \in AnalyticsKeys
  /\ \A c \in Chains, r \in Run : RefreshKey(c, r) \in AnalyticsKeys
<1>1. \A r \in Run : SyncKey(r) \in Key /\ QueueOf(SyncKey(r)) = "sync"
  BY DEF Key, QueueOf, SyncKey
<1>2. ASSUME NEW r \in Run, NEW p \in ReferralPages
      PROVE  IngestKey(r, p) \in AnalyticsKeys /\ ClassifyKey(r, p) \in AnalyticsKeys
  <2>1. IngestKey(r, p) \in Key /\ ClassifyKey(r, p) \in Key
    BY DEF Key
  <2>2. IngestKey(r, p)[1] # "sync" /\ ClassifyKey(r, p)[1] # "sync"
    BY DEF IngestKey, ClassifyKey
  <2>. QED BY <2>1, <2>2 DEF AnalyticsKeys, QueueOf
<1>3. ASSUME NEW c \in Chains, NEW r \in Run
      PROVE  RefreshKey(c, r) \in AnalyticsKeys
  <2>1. RefreshKey(c, r) \in Key
    BY DEF Key
  <2>2. RefreshKey(c, r)[1] # "sync"
    BY DEF RefreshKey, Chains
  <2>. QED BY <2>1, <2>2 DEF AnalyticsKeys, QueueOf
<1>. QED BY <1>1, <1>2, <1>3

\* A key of the sync queue names its run, one of the other queue its task.
LEMMA KeyShapes ==
  ASSUME NEW k \in Key
  PROVE  /\ QueueOf(k) = "sync" => \E r \in Run : k = SyncKey(r) /\ k[2] = r
         /\ QueueOf(k) = "analytics" =>
              \/ \E r \in Run, p \in ReferralPages :
                   /\ k = IngestKey(r, p) \/ k = ClassifyKey(r, p)
                   /\ k[2] = r /\ k[3] = p
              \/ \E c \in Chains, r \in Run : k = RefreshKey(c, r)
         /\ QueueOf(k) \in Queues
<1>1. CASE \E r \in Run : k = SyncKey(r)
  BY <1>1 DEF QueueOf, SyncKey, Queues
<1>2. CASE \E r \in Run, p \in ReferralPages : k = IngestKey(r, p) \/ k = ClassifyKey(r, p)
  BY <1>2 DEF QueueOf, IngestKey, ClassifyKey, Queues
<1>3. CASE \E c \in Chains, r \in Run : k = RefreshKey(c, r)
  BY <1>3, KeyQueues DEF QueueOf, RefreshKey, Chains, Queues
<1>. QED BY <1>1, <1>2, <1>3 DEF Key

LEMMA SyncKeyInjective ==
  \A r, k : SyncKey(r) = SyncKey(k) => r = k
  BY DEF SyncKey

\* What a finished sync enqueues.
LEMMA ProjectionKeys ==
  ASSUME NEW r \in Run
  PROVE  Projections(r) \in Seq(AnalyticsKeys)
<1> DEFINE referral == Without(Pages, AllPages \ ReferralPages)
           ingests == [n \in DOMAIN referral |-> IngestKey(r, referral[n])]
           refresh == IF TrafficPages # {} THEN <<RefreshKey("traffic", r)>> ELSE <<>>
<1>1. Pages \in Seq(AllPages)
  BY PagesAssumption DEF AllPages, Range
<1>2. referral \in Seq(AllPages \ (AllPages \ ReferralPages))
  BY <1>1, WithoutType
<1>. HIDE DEF referral
<1>3. referral \in Seq(ReferralPages)
  BY <1>2
<1>4. ingests \in Seq(AnalyticsKeys)
  <2>1. /\ DOMAIN referral = 1 .. Len(referral) /\ Len(referral) \in Nat
        /\ \A n \in 1 .. Len(referral) : referral[n] \in ReferralPages
    BY <1>3
  <2>2. \A n \in 1 .. Len(referral) : IngestKey(r, referral[n]) \in AnalyticsKeys
    BY <2>1, KeyQueues
  <2>. QED BY <2>1, <2>2
<1>5. refresh \in Seq(AnalyticsKeys)
  <2>1. RefreshKey("traffic", r) \in AnalyticsKeys
    BY KeyQueues DEF Chains
  <2>. QED BY <2>1
<1>6. Projections(r) = ingests \o refresh
  BY DEF Projections, referral
<1>. HIDE DEF ingests, refresh
<1>. QED BY <1>4, <1>5, <1>6

-----------------------------------------------------------------------------
\* What every state satisfies

SyncStages == {"start", "fetch", "write", "derive"}
ProjectStages == {"start", "ingest", "classify", "chain", "read", "upsert", "finish"}
Stages == {"idle"} \cup SyncStages \cup ProjectStages
StagesOf(w) == IF w \in Syncers THEN SyncStages ELSE ProjectStages

KeysOf(q) == {k \in DOMAIN jobs : QueueOf(k) = q}

JobTypes ==
  /\ DOMAIN jobs \subseteq Key
  /\ jobs \in [DOMAIN jobs -> Row]

\* A row has an owner exactly while it is leased.
LeaseCoherent ==
  \A k \in DOMAIN jobs : jobs[k].status \in LeaseHeld <=> jobs[k].owner # NoOwner

LineTypes ==
  /\ line \in [Queues -> Seq(Key)]
  /\ \A q \in Queues : line[q] \in Seq(KeysOf(q))

\* A worker that is not idle is in a stage of its queue, with a row of it.
WorkerTypes ==
  /\ pc \in [Workers -> Stages]
  /\ job \in [Workers -> Key \cup {Free}]
  /\ page \in [Syncers -> {NoPage} \cup [page : AllPages, revision : Nat]]
  /\ \A w \in Workers : pc[w] # "idle" =>
       pc[w] \in StagesOf(w) /\ job[w] \in KeysOf(QueueServed(w))
  /\ \A w \in Workers : pc[w] = "ingest" => job[w][1] = "ingest"
  /\ \A w \in Workers : pc[w] \in {"classify", "chain"} => job[w][1] = "classify"

\* The runs of a group are numbered without a gap behind the last.
RunsNumbered ==
  /\ IsFiniteSet(Runs)
  /\ \A r \in Runs : r.seq < Cardinality(Group(r.connection, r.kind, r.window))

BaseInv ==
  /\ version \in Nat
  /\ JobTypes
  /\ RunsNumbered
  /\ LeaseCoherent
  /\ LineTypes
  /\ WorkerTypes

LEMMA BaseInvInit == Init => BaseInv
<1>. SUFFICES ASSUME Init PROVE BaseInv
  OBVIOUS
<1>1. DOMAIN jobs = {} /\ jobs \in [{} -> Row]
  BY DEF Init
<1>2. LineTypes
  BY DEF Init, LineTypes
<1>3. WorkerTypes
  BY DEF Init, WorkerTypes, Stages
<1>4. RunsNumbered
  <2>1. Runs = {}
    BY <1>1 DEF Runs
  <2>. QED BY <2>1, FS_EmptySet DEF RunsNumbered
<1>. QED BY <1>1, <1>2, <1>3, <1>4 DEF Init, BaseInv, JobTypes, LeaseCoherent

\* The workers and their keys.
LEMMA WorkerFacts ==
  /\ \A w \in Workers : w \in Owners /\ w # NoOwner /\ w # Gone
  /\ \A w \in Projectors : w \notin Syncers /\ QueueServed(w) = "analytics"
  /\ \A w \in Syncers : QueueServed(w) = "sync"
  /\ \A w \in Workers : QueueServed(w) \in Queues
  /\ Gone \in Owners /\ Gone # NoOwner
  BY OwnersAssumption, NoOwnerAssumption DEF Workers, QueueServed, Queues

LEMMA SyncerJob ==
  ASSUME BaseInv, NEW w \in Syncers, pc[w] # "idle"
  PROVE  \E r \in Run : /\ job[w] = SyncKey(r) /\ RunOf(w) = r
                        /\ job[w] \in DOMAIN jobs /\ QueueOf(job[w]) = "sync"
<1>1. job[w] \in DOMAIN jobs /\ QueueOf(job[w]) = "sync"
  BY WorkerFacts DEF BaseInv, WorkerTypes, KeysOf, Workers
<1>2. job[w] \in Key
  BY <1>1 DEF BaseInv, JobTypes
<1>. QED BY <1>1, <1>2, KeyShapes DEF RunOf

LEMMA ProjectorJob ==
  ASSUME BaseInv, NEW w \in Projectors, pc[w] # "idle"
  PROVE  /\ job[w] \in AnalyticsKeys /\ job[w] \in DOMAIN jobs
         /\ QueueOf(job[w]) = "analytics"
<1>1. job[w] \in DOMAIN jobs /\ QueueOf(job[w]) = "analytics"
  BY WorkerFacts DEF BaseInv, WorkerTypes, KeysOf, Workers
<1>. QED BY <1>1 DEF BaseInv, JobTypes, AnalyticsKeys

-----------------------------------------------------------------------------
\* How the rows and the lines of a queue move

RowMoves(k) ==
  \/ jobs'[k] = jobs[k]
  \/ \E w \in Workers : /\ Claim(w) /\ k = Head(line[QueueServed(w)])
                        /\ jobs'[k] = Lease(jobs[k], w)
  \/ /\ jobs'[k].status = jobs[k].status /\ jobs'[k].owner = jobs[k].owner
     /\ ~Due(k)
  \/ \E w \in Workers : /\ Start(w) /\ k = job[w]
                        /\ jobs[k].owner = w /\ jobs[k].status = "leased"
                        /\ jobs'[k].owner = w /\ jobs'[k].status = "running"
  \/ /\ jobs[k].owner # NoOwner /\ jobs'[k].owner = Gone
     /\ jobs'[k].status = jobs[k].status
  \/ /\ jobs[k].owner # NoOwner /\ jobs'[k].owner = NoOwner
     /\ \/ jobs'[k].status \in Claimable \cup {"failed"}
        \/ jobs'[k].status = "succeeded" /\ QueueOf(k) = "analytics"
        \/ /\ jobs'[k].status = "succeeded"
           /\ \E w \in Syncers : Derive(w) /\ StillRuns(w) /\ k = job[w]

JobsMove ==
  /\ DOMAIN jobs \subseteq DOMAIN jobs'
  /\ DOMAIN jobs' \subseteq Key
  /\ jobs' \in [DOMAIN jobs' -> Row]
  /\ \A k \in DOMAIN jobs : RowMoves(k)
  /\ \A k \in DOMAIN jobs' \ DOMAIN jobs : jobs'[k] = NewRow

LinesMove ==
  /\ line' \in [Queues -> Seq(Key)]
  /\ \A q \in Queues : line'[q] \in Seq(KeysOf(q)')
  /\ \/ line'["sync"] = line["sync"]
     \/ \E w \in Syncers : Claim(w)
     \/ \E k \in KeysOf("sync")' :
          /\ Due(k)' /\ ~Due(k)
          /\ line'["sync"] = Append(line["sync"], k)

QueuesMove == JobsMove /\ LinesMove

LEMMA NewRowFacts ==
  /\ NewRow \in Row /\ NewRow.status = "queued" /\ NewRow.owner = NoOwner
  /\ Eligible(NewRow)
  BY DEF NewRow, Row, Status, Claimable, Eligible

LEMMA QueuesKept ==
  ASSUME BaseInv, UNCHANGED queues
  PROVE  QueuesMove
<1>1. jobs' = jobs /\ line' = line
  BY DEF queues
<1>2. JobsMove
  BY <1>1 DEF JobsMove, RowMoves, BaseInv, JobTypes
<1>3. LinesMove
  BY <1>1 DEF LinesMove, BaseInv, LineTypes, KeysOf
<1>. QED BY <1>2, <1>3 DEF QueuesMove

\* One row is rewritten, and goes to its line if it is claimable from now on.
LEMMA PutMoves ==
  ASSUME BaseInv, NEW k \in DOMAIN jobs, NEW q \in Row, Put(k, q),
         jobs'[k] = q => RowMoves(k), ~Due(k)
  PROVE  QueuesMove
<1>0. /\ jobs \in [DOMAIN jobs -> Row] /\ DOMAIN jobs \subseteq Key
      /\ line \in [Queues -> Seq(Key)] /\ k \in Key
      /\ \A p \in Queues : line[p] \in Seq(KeysOf(p))
  BY DEF BaseInv, JobTypes, LineTypes
<1>1. jobs' = [jobs EXCEPT ![k] = q]
  BY DEF Put
<1>2. /\ DOMAIN jobs' = DOMAIN jobs /\ jobs' \in [DOMAIN jobs -> Row]
      /\ jobs'[k] = q /\ \A j \in DOMAIN jobs \ {k} : jobs'[j] = jobs[j]
  BY <1>0, <1>1
<1>3. JobsMove
  BY <1>0, <1>2 DEF JobsMove, RowMoves
<1>4. \A p : KeysOf(p)' = KeysOf(p)
  BY <1>2 DEF KeysOf
<1>5. CASE line' = line
  BY <1>0, <1>3, <1>4, <1>5 DEF LinesMove, QueuesMove
<1>6. CASE Eligible(q) /\ line' = [line EXCEPT ![QueueOf(k)] = Append(line[QueueOf(k)], k)]
  <2> DEFINE p == QueueOf(k)
  <2>1. p \in Queues /\ k \in KeysOf(p)
    BY <1>0, KeyShapes DEF KeysOf
  <2>. HIDE DEF p
  <2>2. /\ line' = [line EXCEPT ![p] = Append(line[p], k)]
        /\ line[p] \in Seq(KeysOf(p)) /\ line[p] \in Seq(Key)
    BY <1>0, <1>6, <2>1 DEF p
  <2>3. Append(line[p], k) \in Seq(KeysOf(p)) /\ Append(line[p], k) \in Seq(Key)
    BY <1>0, <2>1, <2>2
  <2>4. /\ line' \in [Queues -> Seq(Key)]
        /\ line'[p] = Append(line[p], k)
        /\ \A u \in Queues \ {p} : line'[u] = line[u]
    BY <1>0, <2>1, <2>2, <2>3
  <2>5. \A u \in Queues : line'[u] \in Seq(KeysOf(u)')
    BY <1>0, <1>4, <2>3, <2>4
  <2>6. Due(k)'
    BY <1>2, <1>6 DEF Due, Eligible
  <2>7. \/ line'["sync"] = line["sync"]
        \/ k \in KeysOf("sync")' /\ line'["sync"] = Append(line["sync"], k)
    BY <1>4, <2>1, <2>4 DEF Queues
  <2>. QED BY <1>3, <2>4, <2>5, <2>6, <2>7 DEF LinesMove, QueuesMove
<1>. QED BY <1>5, <1>6 DEF Put

LEMMA SeqGrows ==
  ASSUME NEW S, NEW T, S \subseteq T, NEW s \in Seq(S)
  PROVE  s \in Seq(T)
  OBVIOUS

\* New keys are inserted behind the rows that are known.
LEMMA EnqueueMoves ==
  ASSUME BaseInv, NEW known \in [DOMAIN jobs -> Row],
         NEW queue \in Queues, NEW keys \in Seq({k \in Key : QueueOf(k) = queue}),
         Enqueue(known, queue, keys),
         \A k \in DOMAIN jobs : jobs'[k] = known[k] => RowMoves(k),
         queue = "sync" => \E k : keys = <<k>> /\ k \notin DOMAIN jobs
  PROVE  /\ QueuesMove
         /\ DOMAIN jobs' = DOMAIN jobs \cup Range(keys)
         /\ \A k \in DOMAIN jobs : jobs'[k] = known[k]
<1>0. /\ jobs \in [DOMAIN jobs -> Row] /\ DOMAIN jobs \subseteq Key
      /\ line \in [Queues -> Seq(Key)] /\ DOMAIN known = DOMAIN jobs
      /\ \A p \in Queues : line[p] \in Seq(KeysOf(p))
  BY DEF BaseInv, JobTypes, LineTypes
<1>1. Range(keys) \subseteq {k \in Key : QueueOf(k) = queue}
  BY DEF Range
<1> DEFINE fresh == [k \in Range(keys) |-> NewRow]
<1>2. jobs' = With(known, fresh) /\ DOMAIN fresh = Range(keys)
  BY DEF Enqueue
<1>3. /\ DOMAIN jobs' = DOMAIN jobs \cup Range(keys)
      /\ \A k \in DOMAIN jobs : jobs'[k] = known[k]
      /\ \A k \in DOMAIN jobs' \ DOMAIN jobs : jobs'[k] = NewRow
      /\ jobs' = [k \in DOMAIN jobs' |-> jobs'[k]]
  BY <1>0, <1>2 DEF With
<1>4. \A k \in DOMAIN jobs' : jobs'[k] \in Row
  BY <1>0, <1>3, NewRowFacts
<1>5. JobsMove
  BY <1>0, <1>1, <1>3, <1>4 DEF JobsMove
<1> DEFINE new == Without(keys, DOMAIN known)
<1>6. new \in Seq({k \in Key : QueueOf(k) = queue} \ DOMAIN known)
  BY WithoutType
<1>7. new \in Seq(KeysOf(queue)') /\ new \in Seq(Key)
  <2>1. new \in Seq(Range(keys))
    <3>1. keys \in Seq(Range(keys))
      BY DEF Range
    <3>2. new \in Seq(Range(keys) \ DOMAIN known)
      BY <3>1, WithoutType
    <3>. HIDE DEF new
    <3>. QED BY <3>2
  <2>2. Range(keys) \subseteq KeysOf(queue)' /\ Range(keys) \subseteq Key
    BY <1>1, <1>3 DEF KeysOf
  <2>. HIDE DEF new
  <2>. QED BY <2>1, <2>2, SeqGrows
<1>8. line' = [line EXCEPT ![queue] = line[queue] \o new]
  BY DEF Enqueue
<1>. HIDE DEF new
<1>9. \A p \in Queues : line[p] \in Seq(KeysOf(p)')
  <2>1. \A p \in Queues : KeysOf(p) \subseteq KeysOf(p)'
    BY <1>3 DEF KeysOf
  <2>. QED BY <1>0, <2>1, SeqGrows
<1>10. /\ line[queue] \o new \in Seq(KeysOf(queue)')
       /\ line[queue] \o new \in Seq(Key)
  BY <1>0, <1>7, <1>9
<1>11. /\ line' \in [Queues -> Seq(Key)]
       /\ line'[queue] = line[queue] \o new
       /\ \A u \in Queues \ {queue} : line'[u] = line[u]
  BY <1>0, <1>8, <1>10
<1>12. \A q \in Queues : line'[q] \in Seq(KeysOf(q)')
  BY <1>9, <1>10, <1>11
<1>13. CASE queue # "sync"
  <2>1. line'["sync"] = line["sync"]
    BY <1>11, <1>13 DEF Queues
  <2>. QED BY <1>3, <1>5, <1>11, <1>12, <2>1 DEF LinesMove, QueuesMove
<1>14. CASE queue = "sync"
  <2>1. PICK k : keys = <<k>> /\ k \notin DOMAIN jobs
    BY <1>14
  <2>2. new = <<k>>
    BY <1>0, <2>1, WithoutOne DEF new
  <2>3. k \in Range(keys)
    BY <2>1 DEF Range
  <2>4. k \in KeysOf("sync")' /\ Due(k)' /\ ~Due(k)
    BY <1>1, <1>3, <1>14, <2>1, <2>3, NewRowFacts DEF KeysOf, Due, Eligible
  <2>5. line'["sync"] = Append(line["sync"], k)
    BY <1>0, <1>11, <1>14, <2>2
  <2>. QED BY <1>3, <1>5, <1>11, <1>12, <2>4, <2>5 DEF LinesMove, QueuesMove
<1>. QED BY <1>13, <1>14

\* The runs are the ones that have a row.
LEMMA RunKeys ==
  ASSUME JobTypes
  PROVE  \A r : r \in Runs <=> r \in Run /\ SyncKey(r) \in DOMAIN jobs
<1>1. ASSUME NEW r \in Runs
      PROVE  r \in Run /\ SyncKey(r) \in DOMAIN jobs
  <2>1. PICK k \in DOMAIN jobs : k[1] = "sync" /\ r = k[2]
    BY DEF Runs
  <2>2. k \in Key /\ QueueOf(k) = "sync"
    BY <2>1 DEF JobTypes, QueueOf
  <2>. QED BY <2>1, <2>2, KeyShapes
<1>2. ASSUME NEW r \in Run, SyncKey(r) \in DOMAIN jobs
      PROVE  r \in Runs
  BY <1>2 DEF Runs, SyncKey
<1>. QED BY <1>1, <1>2

LEMMA GroupFinite ==
  ASSUME BaseInv, NEW c, NEW kind, NEW w
  PROVE  /\ IsFiniteSet(Group(c, kind, w)) /\ Cardinality(Group(c, kind, w)) \in Nat
         /\ Cardinality(Runs) \in Nat
         /\ Cardinality(Group(c, kind, w)) <= Cardinality(Runs)
<1>1. Group(c, kind, w) \subseteq Runs /\ IsFiniteSet(Runs)
  BY DEF Group, BaseInv, RunsNumbered
<1>. HIDE DEF Group
<1>2. /\ IsFiniteSet(Group(c, kind, w))
      /\ Cardinality(Group(c, kind, w)) <= Cardinality(Runs)
  BY <1>1, FS_Subset
<1>. QED BY <1>1, <1>2, FS_CardinalityType

\* The next revision of a group is a run that does not exist yet.
LEMMA NextRevisionIsNew ==
  ASSUME BaseInv, NEW c \in Connections, NEW kind \in Kinds, NEW w \in Windows,
         Cardinality(Runs) < MaxRuns
  PROVE  /\ NextRevision(c, kind, w) \in Run
         /\ NextRevision(c, kind, w) \notin Runs
         /\ SyncKey(NextRevision(c, kind, w)) \notin DOMAIN jobs
         /\ SyncKey(NextRevision(c, kind, w)) \in {k \in Key : QueueOf(k) = "sync"}
<1> DEFINE n == Cardinality(Group(c, kind, w))
           r == NextRevision(c, kind, w)
<1>1. n \in Nat /\ Cardinality(Runs) \in Nat /\ n <= Cardinality(Runs) /\ MaxRuns \in Nat
  BY GroupFinite, BoundAssumption
<1>2. n \in 0 .. MaxRuns - 1
  BY <1>1
<1>3. r \in Run /\ r.connection = c /\ r.kind = kind /\ r.window = w /\ r.seq = n
  BY <1>2 DEF NextRevision, Run
<1>. HIDE DEF r
<1>4. r \notin Runs
  <2>. SUFFICES ASSUME r \in Runs PROVE FALSE
    OBVIOUS
  <2>1. r.seq < n
    BY <1>3 DEF BaseInv, RunsNumbered
  <2>. QED BY <1>1, <1>3, <2>1
<1>5. SyncKey(r) \notin DOMAIN jobs
  BY <1>3, <1>4, RunKeys DEF BaseInv
<1>. QED BY <1>3, <1>4, <1>5, KeyQueues DEF r

LEMMA EnqueueSyncMoves ==
  ASSUME BaseInv, NEW c \in Connections, NEW kind \in Kinds, NEW w \in Windows,
         EnqueueSync(c, kind, w)
  PROVE  /\ QueuesMove
         /\ DOMAIN jobs' = DOMAIN jobs \cup {SyncKey(NextRevision(c, kind, w))}
         /\ \A k \in DOMAIN jobs : jobs'[k] = jobs[k]
<1> DEFINE k == SyncKey(NextRevision(c, kind, w))
<1>1. k \notin DOMAIN jobs /\ k \in {j \in Key : QueueOf(j) = "sync"}
  BY NextRevisionIsNew DEF EnqueueSync
<1>2. Enqueue(jobs, "sync", <<k>>)
  BY DEF EnqueueSync
<1>. HIDE DEF k
<1>3. <<k>> \in Seq({j \in Key : QueueOf(j) = "sync"}) /\ Range(<<k>>) = {k}
  BY <1>1 DEF Range
<1>4. jobs \in [DOMAIN jobs -> Row] /\ "sync" \in Queues
  BY DEF BaseInv, JobTypes, Queues
<1>5. \A j \in DOMAIN jobs : jobs'[j] = jobs[j] => RowMoves(j)
  BY DEF RowMoves
<1>. QED BY <1>1, <1>2, <1>3, <1>4, <1>5, EnqueueMoves DEF k

LEMMA ClaimMoves ==
  ASSUME BaseInv, NEW w \in Workers, Claim(w)
  PROVE  /\ QueuesMove
         /\ DOMAIN jobs' = DOMAIN jobs
         /\ Head(line[QueueServed(w)]) \in KeysOf(QueueServed(w))
<1> DEFINE q == QueueServed(w)
           k == Head(line[q])
<1>0. /\ q \in Queues /\ jobs \in [DOMAIN jobs -> Row] /\ DOMAIN jobs \subseteq Key
      /\ line \in [Queues -> Seq(Key)] /\ line[q] \in Seq(KeysOf(q))
  BY WorkerFacts DEF BaseInv, JobTypes, LineTypes
<1>1. /\ line[q] # <<>> /\ jobs' = [jobs EXCEPT ![k] = Lease(jobs[k], w)]
      /\ line' = [line EXCEPT ![q] = Tail(line[q])]
  BY DEF Claim
<1>. HIDE DEF q
<1>2. k \in KeysOf(q) /\ Tail(line[q]) \in Seq(KeysOf(q)) /\ Tail(line[q]) \in Seq(Key)
  BY <1>0, <1>1
<1>. HIDE DEF k
<1>3. k \in DOMAIN jobs
  BY <1>2 DEF KeysOf
<1>4. Lease(jobs[k], w) \in Row
  BY <1>0, <1>3, WorkerFacts DEF Row, Lease, Status, LeaseHeld
<1>5. /\ DOMAIN jobs' = DOMAIN jobs /\ jobs' \in [DOMAIN jobs -> Row]
      /\ jobs'[k] = Lease(jobs[k], w) /\ \A j \in DOMAIN jobs \ {k} : jobs'[j] = jobs[j]
  BY <1>0, <1>1, <1>3, <1>4
<1>6. RowMoves(k)
  BY <1>5 DEF RowMoves, k, q
<1>7. JobsMove
  BY <1>0, <1>5, <1>6 DEF JobsMove, RowMoves
<1>8. \A p : KeysOf(p)' = KeysOf(p)
  BY <1>5 DEF KeysOf
<1>9. /\ line' \in [Queues -> Seq(Key)] /\ line'[q] = Tail(line[q])
      /\ \A u \in Queues \ {q} : line'[u] = line[u]
  BY <1>0, <1>1, <1>2
<1>10. \A u \in Queues : line'[u] \in Seq(KeysOf(u)')
  BY <1>2, <1>8, <1>9 DEF BaseInv, LineTypes
<1>11. \/ line'["sync"] = line["sync"]
       \/ \E v \in Syncers : Claim(v)
  BY <1>9, WorkerFacts DEF Queues, Workers, q
<1>. QED BY <1>2, <1>5, <1>7, <1>9, <1>10, <1>11 DEF LinesMove, QueuesMove, k, q

LEMMA DieMoves ==
  ASSUME BaseInv, NEW w \in Workers, Die(w)
  PROVE  QueuesMove /\ DOMAIN jobs' = DOMAIN jobs
<1> DEFINE k == job[w]
<1>0. /\ jobs \in [DOMAIN jobs -> Row] /\ DOMAIN jobs \subseteq Key
      /\ line \in [Queues -> Seq(Key)]
      /\ \A p \in Queues : line[p] \in Seq(KeysOf(p))
  BY DEF BaseInv, JobTypes, LineTypes
<1>1. k \in DOMAIN jobs
  BY DEF Die, BaseInv, WorkerTypes, KeysOf
<1>2. /\ jobs' = [jobs EXCEPT ![k].owner = IF jobs[k].owner = w THEN Gone ELSE jobs[k].owner]
      /\ line' = line
  BY DEF Die
<1>. HIDE DEF k
<1>3. /\ DOMAIN jobs' = DOMAIN jobs
      /\ \A j \in DOMAIN jobs \ {k} : jobs'[j] = jobs[j]
      /\ jobs' = [j \in DOMAIN jobs |-> jobs'[j]]
      /\ jobs'[k] = [jobs[k] EXCEPT !.owner = IF jobs[k].owner = w THEN Gone ELSE jobs[k].owner]
  BY <1>0, <1>1, <1>2
<1>4. jobs[k] \in Row
  BY <1>0, <1>1
<1>5. jobs'[k] \in Row /\ RowMoves(k)
  <2>1. CASE jobs[k].owner = w
    <3>1. jobs'[k] = [jobs[k] EXCEPT !.owner = Gone]
      BY <1>3, <2>1
    <3>2. /\ jobs'[k] \in Row /\ jobs'[k].owner = Gone
          /\ jobs'[k].status = jobs[k].status
      BY <1>4, <3>1, WorkerFacts DEF Row
    <3>. QED BY <2>1, <3>2, WorkerFacts DEF RowMoves
  <2>2. CASE jobs[k].owner # w
    <3>1. jobs'[k] = jobs[k]
      BY <1>3, <1>4, <2>2 DEF Row
    <3>. QED BY <1>4, <3>1 DEF RowMoves
  <2>. QED BY <2>1, <2>2
<1>6. JobsMove
  BY <1>0, <1>3, <1>5 DEF JobsMove, RowMoves
<1>7. \A p : KeysOf(p)' = KeysOf(p)
  BY <1>3 DEF KeysOf
<1>. QED BY <1>0, <1>2, <1>3, <1>6, <1>7 DEF LinesMove, QueuesMove

\* A row that was owned is given up, for a retry or for good.
LEMMA EndedRow ==
  ASSUME NEW r \in Row, NEW s \in Status
  PROVE  /\ Finalize(r, s) \in Row /\ Finalize(r, s).owner = NoOwner
         /\ Finalize(r, s).status = s
<1>1. Unleased(r) \in Row /\ Unleased(r).owner = NoOwner
  BY DEF Unleased, Row
<1>. QED BY <1>1 DEF Finalize, Row

LEMMA WaitingRow ==
  ASSUME NEW r \in Row, NEW due \in BOOLEAN
  PROVE  /\ Postpone(r, "retry_wait", due) \in Row
         /\ Postpone(r, "retry_wait", due).owner = NoOwner
         /\ Postpone(r, "retry_wait", due).status \in Claimable
<1>1. Unleased(r) \in Row /\ Unleased(r).owner = NoOwner
  BY DEF Unleased, Row
<1>. QED BY <1>1 DEF Postpone, Row, Status, Claimable

LEMMA CountedRow ==
  ASSUME NEW r \in Row
  PROVE  Counted(r) \in Row /\ Counted(r).owner = r.owner /\ Counted(r).status = r.status
  BY DEF Row, Counted

LEMMA OwnedIsHeld ==
  ASSUME BaseInv, NEW k \in DOMAIN jobs, jobs[k].owner # NoOwner
  PROVE  jobs[k].status \in LeaseHeld /\ ~Due(k) /\ jobs[k] \in Row
<1>1. jobs[k].status \in LeaseHeld /\ jobs[k] \in Row
  BY DEF BaseInv, LeaseCoherent, JobTypes
<1>. QED BY <1>1 DEF LeaseHeld, Claimable, Due

LEMMA SweepMoves ==
  ASSUME BaseInv, NEW w \in Workers, Sweep(w)
  PROVE  QueuesMove /\ DOMAIN jobs' = DOMAIN jobs
<1>1. PICK k \in DOMAIN jobs : Expired(jobs[k]) /\ Put(k, Reclaim(jobs[k]))
  BY DEF Sweep
<1>2. jobs[k].owner # NoOwner /\ ~Due(k) /\ jobs[k] \in Row
  BY <1>1, OwnedIsHeld DEF Expired
<1>3. /\ Reclaim(jobs[k]) \in Row /\ Reclaim(jobs[k]).owner = NoOwner
      /\ Reclaim(jobs[k]).status \in Claimable \cup {"failed"}
  <2>1. CASE jobs[k].attempts >= MaxAttempts
    <3>1. Reclaim(jobs[k]) = Finalize(jobs[k], "failed")
      BY <2>1 DEF Reclaim
    <3>2. "failed" \in Status
      BY DEF Status, Terminal
    <3>. QED BY <1>2, <3>1, <3>2, EndedRow
  <2>2. CASE ~(jobs[k].attempts >= MaxAttempts)
    <3>1. Reclaim(jobs[k]) = Postpone(jobs[k], "retry_wait", TRUE)
      BY <2>2 DEF Reclaim
    <3>. QED BY <1>2, <3>1, WaitingRow
  <2>. QED BY <2>1, <2>2
<1>4. jobs'[k] = Reclaim(jobs[k]) => RowMoves(k)
  BY <1>2, <1>3 DEF RowMoves
<1>5. QueuesMove
  BY <1>1, <1>2, <1>3, <1>4, PutMoves
<1>. QED BY <1>1, <1>5 DEF Put

LEMMA StartMoves ==
  ASSUME BaseInv, NEW w \in Workers, Start(w)
  PROVE  /\ QueuesMove /\ DOMAIN jobs' = DOMAIN jobs
         /\ \/ pc' = [pc EXCEPT ![w] = "idle"] /\ job' = [job EXCEPT ![w] = Free]
            \/ /\ pc' = [pc EXCEPT ![w] = Entry(job[w])]
               /\ job' = [job EXCEPT ![w] = IF Entry(job[w]) = "idle" THEN Free ELSE @]
<1> DEFINE k == job[w]
           row == jobs[k]
<1>1. CASE OwnedBy(row, w) /\ row.status = "leased"
  <2> DEFINE q == [Begin(row) EXCEPT !.attempts = IF w \in Syncers THEN @ + 1 ELSE @]
  <2>1. Put(k, q) /\ GoTo(w, Entry(k))
    BY <1>1 DEF Start
  <2>2. k \in DOMAIN jobs /\ row.owner = w /\ w # NoOwner
    BY <1>1, WorkerFacts DEF BaseInv, WorkerTypes, KeysOf, OwnedBy, Start
  <2>3. row \in Row /\ ~Due(k)
    BY <2>2, OwnedIsHeld
  <2>4. q \in Row /\ q.owner = w /\ q.status = "running"
    <3>1. Begin(row) \in Row /\ Begin(row).owner = w /\ Begin(row).status = "running"
      BY <2>2, <2>3 DEF Begin, Row, Status, LeaseHeld
    <3>2. q = [Begin(row) EXCEPT !.attempts =
                 IF w \in Syncers THEN Begin(row).attempts + 1 ELSE Begin(row).attempts]
      OBVIOUS
    <3>3. (IF w \in Syncers THEN Begin(row).attempts + 1 ELSE Begin(row).attempts) \in Nat
      BY <3>1 DEF Row
    <3>. QED BY <3>1, <3>2, <3>3 DEF Row
  <2>. HIDE DEF q
  <2>5. jobs'[k] = q => RowMoves(k)
    BY <1>1, <2>2, <2>4 DEF RowMoves
  <2>. HIDE DEF k
  <2>6. QueuesMove
    BY <2>1, <2>2, <2>3, <2>4, <2>5, PutMoves
  <2>. QED BY <2>1, <2>6 DEF Put, GoTo, k
<1>2. CASE ~(OwnedBy(row, w) /\ row.status = "leased")
  <2>1. UNCHANGED queues /\ GoTo(w, "idle")
    BY <1>2 DEF Start
  <2>. QED BY <2>1, QueuesKept DEF GoTo, queues
<1>. QED BY <1>1, <1>2

LEMMA StallMoves ==
  ASSUME BaseInv, NEW k \in DOMAIN jobs, Stall(k)
  PROVE  QueuesMove /\ DOMAIN jobs' = DOMAIN jobs
<1> DEFINE q == [jobs[k] EXCEPT !.lapsed = TRUE]
<1>1. jobs[k].status \in LeaseHeld /\ Put(k, q)
  BY DEF Stall
<1>2. jobs[k] \in Row /\ ~Due(k)
  BY <1>1 DEF BaseInv, JobTypes, LeaseHeld, Claimable, Due
<1>3. q \in Row /\ q.status = jobs[k].status /\ q.owner = jobs[k].owner
  BY <1>2 DEF Row
<1>. HIDE DEF q
<1>4. jobs'[k] = q => RowMoves(k)
  BY <1>2, <1>3 DEF RowMoves
<1>5. QueuesMove
  BY <1>1, <1>2, <1>3, <1>4, PutMoves
<1>. QED BY <1>1, <1>5 DEF Put

LEMMA LapseMoves ==
  ASSUME BaseInv, DeadLeaseLapses
  PROVE  QueuesMove /\ DOMAIN jobs' = DOMAIN jobs
<1>1. PICK k \in DOMAIN jobs : jobs[k].owner = Gone /\ Put(k, [jobs[k] EXCEPT !.lapsed = TRUE])
  BY DEF DeadLeaseLapses
<1> DEFINE q == [jobs[k] EXCEPT !.lapsed = TRUE]
<1>2. jobs[k] \in Row /\ ~Due(k)
  BY <1>1, OwnedIsHeld, WorkerFacts
<1>3. q \in Row /\ q.status = jobs[k].status /\ q.owner = jobs[k].owner /\ Put(k, q)
  BY <1>1, <1>2 DEF Row
<1>. HIDE DEF q
<1>4. jobs'[k] = q => RowMoves(k)
  BY <1>2, <1>3 DEF RowMoves
<1>5. QueuesMove
  BY <1>2, <1>3, <1>4, PutMoves
<1>. QED BY <1>3, <1>5 DEF Put

LEMMA DueMoves ==
  ASSUME BaseInv, BecomeDue
  PROVE  QueuesMove /\ DOMAIN jobs' = DOMAIN jobs
<1>1. PICK k \in DOMAIN jobs : ~jobs[k].due /\ Put(k, [jobs[k] EXCEPT !.due = TRUE])
  BY DEF BecomeDue
<1> DEFINE q == [jobs[k] EXCEPT !.due = TRUE]
<1>2. jobs[k] \in Row /\ ~Due(k)
  BY <1>1 DEF BaseInv, JobTypes, Due
<1>3. q \in Row /\ q.status = jobs[k].status /\ q.owner = jobs[k].owner /\ Put(k, q)
  BY <1>1, <1>2 DEF Row
<1>. HIDE DEF q
<1>4. jobs'[k] = q => RowMoves(k)
  BY <1>2, <1>3 DEF RowMoves
<1>5. QueuesMove
  BY <1>2, <1>3, <1>4, PutMoves
<1>. QED BY <1>3, <1>5 DEF Put

LEMMA SyncFailsMoves ==
  ASSUME BaseInv, NEW w \in Syncers, SyncFails(w)
  PROVE  QueuesMove /\ DOMAIN jobs' = DOMAIN jobs
<1> DEFINE k == job[w]
           row == jobs[k]
<1>1. CASE OwnedBy(row, w)
  <2>1. PICK q : /\ q \in {Finalize(row, "failed"), Postpone(row, "retry_wait", FALSE)}
                 /\ Put(k, q)
    BY <1>1 DEF SyncFails
  <2>2. w \in Workers /\ pc[w] # "idle" /\ row.owner = w
    BY <1>1 DEF SyncFails, OwnedBy, Workers
  <2>3. k \in DOMAIN jobs /\ row.owner # NoOwner
    BY <2>2, WorkerFacts DEF BaseInv, WorkerTypes, KeysOf
  <2>4. row \in Row /\ ~Due(k)
    BY <2>3, OwnedIsHeld
  <2>5. /\ q \in Row /\ q.owner = NoOwner
        /\ q.status \in Claimable \cup {"failed"}
    <3>1. "failed" \in Status
      BY DEF Status, Terminal
    <3>. QED BY <2>1, <2>4, <3>1, EndedRow, WaitingRow
  <2>6. jobs'[k] = q => RowMoves(k)
    BY <2>3, <2>5 DEF RowMoves
  <2>. HIDE DEF k
  <2>7. QueuesMove
    BY <2>1, <2>3, <2>4, <2>5, <2>6, PutMoves
  <2>. QED BY <2>1, <2>7 DEF Put
<1>2. CASE ~OwnedBy(row, w)
  <2>1. UNCHANGED queues
    BY <1>2 DEF SyncFails
  <2>. QED BY <2>1, QueuesKept DEF queues
<1>. QED BY <1>1, <1>2

\* A projector ends its row only while it owns it.
LEMMA ProjectorEnds ==
  ASSUME BaseInv, NEW w \in Projectors, pc[w] # "idle", MayFinish(w),
         NEW q \in {Finalize(Counted(jobs[job[w]]), "succeeded"),
                    Finalize(Counted(jobs[job[w]]), "failed"),
                    Postpone(Counted(jobs[job[w]]), "retry_wait", FALSE)},
         Put(job[w], q)
  PROVE  QueuesMove /\ DOMAIN jobs' = DOMAIN jobs
<1> DEFINE k == job[w]
           row == jobs[k]
<1>1. k \in DOMAIN jobs /\ QueueOf(k) = "analytics"
  BY ProjectorJob
<1>2. row.owner # NoOwner
  BY WorkerFacts DEF MayFinish, OwnedBy, Workers
<1>3. row \in Row /\ ~Due(k)
  BY <1>1, <1>2, OwnedIsHeld
<1>4. /\ q \in Row /\ q.owner = NoOwner
      /\ q.status \in Claimable \cup {"failed", "succeeded"}
  <2>1. Counted(row) \in Row
    BY <1>3, CountedRow
  <2>2. "failed" \in Status /\ "succeeded" \in Status
    BY DEF Status, Terminal
  <2> DEFINE c == Counted(row)
  <2>3. q = Finalize(c, "succeeded") \/ q = Finalize(c, "failed") \/ q = Postpone(c, "retry_wait", FALSE)
    OBVIOUS
  <2>4. c \in Row
    BY <2>1
  <2>. HIDE DEF c
  <2>5. CASE q = Finalize(c, "succeeded")
    BY <2>2, <2>4, <2>5, EndedRow
  <2>6. CASE q = Finalize(c, "failed")
    BY <2>2, <2>4, <2>6, EndedRow
  <2>7. CASE q = Postpone(c, "retry_wait", FALSE)
    BY <2>4, <2>7, WaitingRow
  <2>. QED BY <2>3, <2>5, <2>6, <2>7
<1>5. jobs'[k] = q => RowMoves(k)
  BY <1>1, <1>2, <1>4 DEF RowMoves
<1>. HIDE DEF k
<1>6. QueuesMove
  BY <1>1, <1>3, <1>4, <1>5, PutMoves DEF k
<1>. QED BY <1>6 DEF Put

LEMMA FinishMoves ==
  ASSUME BaseInv, NEW w \in Projectors, Finish(w)
  PROVE  QueuesMove /\ DOMAIN jobs' = DOMAIN jobs
<1>1. CASE MayFinish(w)
  <2>1. pc[w] # "idle" /\ Put(job[w], Finalize(Counted(jobs[job[w]]), "succeeded"))
    BY <1>1 DEF Finish
  <2>. QED BY <1>1, <2>1, ProjectorEnds
<1>2. CASE ~MayFinish(w)
  <2>1. UNCHANGED queues
    BY <1>2 DEF Finish
  <2>. QED BY <2>1, QueuesKept DEF queues
<1>. QED BY <1>1, <1>2

LEMMA RaiseMoves ==
  ASSUME BaseInv, NEW w \in Projectors, ExecutorRaises(w)
  PROVE  QueuesMove /\ DOMAIN jobs' = DOMAIN jobs
<1> DEFINE row == Counted(jobs[job[w]])
           q == IF row.attempts < MaxAttempts THEN Postpone(row, "retry_wait", FALSE)
                ELSE Finalize(row, "failed")
<1>1. CASE MayFinish(w)
  <2>1. pc[w] # "idle" /\ Put(job[w], q)
    BY <1>1 DEF ExecutorRaises
  <2>2. q \in {Finalize(row, "failed"), Postpone(row, "retry_wait", FALSE)}
    OBVIOUS
  <2>. HIDE DEF q
  <2>. QED BY <1>1, <2>1, <2>2, ProjectorEnds
<1>2. CASE ~MayFinish(w)
  <2>1. UNCHANGED queues
    BY <1>2 DEF ExecutorRaises
  <2>. QED BY <2>1, QueuesKept DEF queues
<1>. QED BY <1>1, <1>2

LEMMA ReferralTask ==
  ASSUME NEW k \in Key, k[1] \in {"ingest", "classify"}
  PROVE  k[2] \in Run /\ k[3] \in ReferralPages
<1>1. ASSUME NEW r \in Run, k = SyncKey(r)
      PROVE  FALSE
  BY <1>1 DEF SyncKey
<1>2. ASSUME NEW c \in Chains, NEW r \in Run, k = RefreshKey(c, r)
      PROVE  FALSE
  BY <1>2 DEF RefreshKey, Chains
<1>3. PICK r \in Run, p \in ReferralPages : k = IngestKey(r, p) \/ k = ClassifyKey(r, p)
  BY <1>1, <1>2 DEF Key
<1>. QED BY <1>3 DEF IngestKey, ClassifyKey

\* An analytics task enqueues the task that follows it.
LEMMA FollowUpMoves ==
  ASSUME BaseInv, NEW k \in AnalyticsKeys, Enqueue(jobs, "analytics", <<k>>)
  PROVE  QueuesMove /\ DOMAIN jobs' = DOMAIN jobs \cup {k}
<1>1. <<k>> \in Seq({j \in Key : QueueOf(j) = "analytics"}) /\ Range(<<k>>) = {k}
  BY DEF AnalyticsKeys, Range
<1>2. jobs \in [DOMAIN jobs -> Row] /\ "analytics" \in Queues /\ "analytics" # "sync"
  BY DEF BaseInv, JobTypes, Queues
<1>3. \A j \in DOMAIN jobs : jobs'[j] = jobs[j] => RowMoves(j)
  BY DEF RowMoves
<1>. QED BY <1>1, <1>2, <1>3, EnqueueMoves

LEMMA IngestMoves ==
  ASSUME BaseInv, NEW w \in Projectors, Ingest(w)
  PROVE  /\ QueuesMove
         /\ DOMAIN jobs' \subseteq DOMAIN jobs \cup AnalyticsKeys
<1>1. job[w][1] = "ingest" /\ job[w] \in Key /\ Enqueue(jobs, "analytics", <<ClassifyKey(RunOf(w), PageOf(w))>>)
  BY ProjectorJob DEF Ingest, BaseInv, WorkerTypes, AnalyticsKeys, Workers
<1>2. RunOf(w) \in Run /\ PageOf(w) \in ReferralPages
  BY <1>1, ReferralTask DEF RunOf, PageOf
<1>3. ClassifyKey(RunOf(w), PageOf(w)) \in AnalyticsKeys
  BY <1>2, KeyQueues
<1>. QED BY <1>1, <1>3, FollowUpMoves

LEMMA ChainMoves ==
  ASSUME BaseInv, NEW w \in Projectors, Chain(w)
  PROVE  /\ QueuesMove
         /\ DOMAIN jobs' \subseteq DOMAIN jobs \cup AnalyticsKeys
<1>1. job[w][1] = "classify" /\ job[w] \in Key /\ Enqueue(jobs, "analytics", <<RefreshKey("analytics", RunOf(w))>>)
  BY ProjectorJob DEF Chain, BaseInv, WorkerTypes, AnalyticsKeys, Workers
<1>2. RunOf(w) \in Run
  BY <1>1, ReferralTask DEF RunOf
<1>3. RefreshKey("analytics", RunOf(w)) \in AnalyticsKeys
  BY <1>2, KeyQueues DEF Chains
<1>. QED BY <1>1, <1>3, FollowUpMoves

\* A run ends well with everything that follows from it in the queue.
LEMMA DeriveMoves ==
  ASSUME BaseInv, NEW w \in Syncers, Derive(w)
  PROVE  /\ QueuesMove
         /\ DOMAIN jobs' \subseteq DOMAIN jobs \cup AnalyticsKeys
         /\ StillRuns(w) => Range(Projections(RunOf(w))) \subseteq DOMAIN jobs'
<1>1. CASE StillRuns(w)
  <2> DEFINE k == job[w]
             q == Finalize(jobs[k], "succeeded")
             known == [jobs EXCEPT ![k] = q]
             keys == Projections(RunOf(w))
  <2>1. w \in Workers /\ pc[w] # "idle" /\ Enqueue(known, "analytics", keys)
    BY <1>1 DEF Derive, Workers
  <2>2. k \in DOMAIN jobs /\ RunOf(w) \in Run /\ jobs[k].owner # NoOwner
    BY <1>1, <2>1, SyncerJob, WorkerFacts DEF StillRuns, OwnedBy
  <2>3. q \in Row /\ q.owner = NoOwner /\ q.status = "succeeded"
    <3>1. "succeeded" \in Status
      BY DEF Status, Terminal
    <3>. QED BY <2>2, <3>1, EndedRow DEF BaseInv, JobTypes
  <2>. HIDE DEF q
  <2>4. /\ known \in [DOMAIN jobs -> Row] /\ known[k] = q
        /\ \A j \in DOMAIN jobs \ {k} : known[j] = jobs[j]
    BY <2>2, <2>3 DEF BaseInv, JobTypes
  <2>5. keys \in Seq({j \in Key : QueueOf(j) = "analytics"})
    BY <2>2, ProjectionKeys DEF AnalyticsKeys
  <2>6. ASSUME NEW j \in DOMAIN jobs, jobs'[j] = known[j]
        PROVE  RowMoves(j)
    <3>1. CASE j = k
      BY <1>1, <2>2, <2>3, <2>4, <2>6, <3>1 DEF RowMoves
    <3>2. CASE j # k
      BY <2>4, <2>6, <3>2 DEF RowMoves
    <3>. QED BY <3>1, <3>2
  <2>. HIDE DEF known, keys, k
  <2>7. QueuesMove /\ DOMAIN jobs' = DOMAIN jobs \cup Range(keys)
    <3>1. "analytics" \in Queues /\ "analytics" # "sync"
      BY DEF Queues
    <3>. QED BY <2>1, <2>4, <2>5, <2>6, <3>1, EnqueueMoves
  <2>8. Range(keys) \subseteq AnalyticsKeys
    BY <2>5 DEF Range, AnalyticsKeys
  <2>. QED BY <2>7, <2>8 DEF keys
<1>2. CASE ~StillRuns(w)
  <2>1. UNCHANGED queues
    BY <1>2 DEF Derive, queues
  <2>. QED BY <1>2, <2>1, QueuesKept DEF queues
<1>. QED BY <1>1, <1>2

\* Every step moves the queues, and only EnqueueSync inserts a run.
LEMMA StepMoves ==
  ASSUME BaseInv, [Next]_vars
  PROVE  /\ QueuesMove
         /\ \/ DOMAIN jobs' \subseteq DOMAIN jobs \cup AnalyticsKeys
            \/ \E c \in Connections, kind \in Kinds, w \in Windows :
                 /\ EnqueueSync(c, kind, w)
                 /\ DOMAIN jobs' = DOMAIN jobs \cup {SyncKey(NextRevision(c, kind, w))}
                 /\ \A k \in DOMAIN jobs : jobs'[k] = jobs[k]
<1>1. ASSUME NEW c \in Connections, NEW kind \in Kinds, NEW w \in Windows,
             EnqueueSync(c, kind, w)
      PROVE  /\ QueuesMove
             /\ \E a \in Connections, b \in Kinds, d \in Windows :
                  /\ EnqueueSync(a, b, d)
                  /\ DOMAIN jobs' = DOMAIN jobs \cup {SyncKey(NextRevision(a, b, d))}
                  /\ \A k \in DOMAIN jobs : jobs'[k] = jobs[k]
  <2>1. /\ QueuesMove
        /\ DOMAIN jobs' = DOMAIN jobs \cup {SyncKey(NextRevision(c, kind, w))}
        /\ \A k \in DOMAIN jobs : jobs'[k] = jobs[k]
    BY <1>1, EnqueueSyncMoves
  <2>. QED BY <1>1, <2>1
<1>2. ASSUME UNCHANGED queues
      PROVE  QueuesMove /\ DOMAIN jobs' = DOMAIN jobs
  BY <1>2, QueuesKept DEF queues
<1>3. ASSUME NEW w \in Workers, Sweep(w) \/ Claim(w) \/ Start(w) \/ Die(w)
      PROVE  QueuesMove /\ DOMAIN jobs' = DOMAIN jobs
  <2>1. CASE Sweep(w)
    BY <2>1, SweepMoves
  <2>2. CASE Claim(w)
    BY <2>2, ClaimMoves
  <2>3. CASE Start(w)
    BY <2>3, StartMoves
  <2>4. CASE Die(w)
    BY <2>4, DieMoves
  <2>. QED BY <1>3, <2>1, <2>2, <2>3, <2>4
<1>4. ASSUME NEW w \in Syncers, SyncStep(w) \/ SyncFails(w)
      PROVE  QueuesMove /\ DOMAIN jobs' \subseteq DOMAIN jobs \cup AnalyticsKeys
  <2>1. CASE Fetch(w) \/ Write(w)
    BY <1>2, <2>1 DEF Fetch, Write
  <2>2. CASE Derive(w)
    BY <2>2, DeriveMoves
  <2>3. CASE SyncFails(w)
    BY <2>3, SyncFailsMoves
  <2>4. CASE Sweep(w) \/ Claim(w) \/ Start(w)
    BY <1>3, <2>4 DEF Workers
  <2>. QED BY <1>4, <2>1, <2>2, <2>3, <2>4 DEF SyncStep
<1>5. ASSUME NEW w \in Projectors, ProjectStep(w) \/ ExecutorRaises(w)
      PROVE  QueuesMove /\ DOMAIN jobs' \subseteq DOMAIN jobs \cup AnalyticsKeys
  <2>1. CASE Classify(w)
    BY <1>2, <2>1 DEF Classify
  <2>2. CASE Read(w)
    BY <1>2, <2>2 DEF Read
  <2>3. CASE Upsert(w)
    BY <1>2, <2>3 DEF Upsert
  <2>4. CASE Ingest(w)
    BY <2>4, IngestMoves
  <2>5. CASE Chain(w)
    BY <2>5, ChainMoves
  <2>6. CASE Finish(w)
    BY <2>6, FinishMoves
  <2>7. CASE ExecutorRaises(w)
    BY <2>7, RaiseMoves
  <2>8. CASE Sweep(w) \/ Claim(w) \/ Start(w)
    BY <1>3, <2>8 DEF Workers
  <2>. QED BY <1>5, <2>1, <2>2, <2>3, <2>4, <2>5, <2>6, <2>7, <2>8 DEF ProjectStep
<1>6. CASE Revise
  BY <1>2, <1>6 DEF Revise
<1>7. CASE UNCHANGED vars
  BY <1>2, <1>7 DEF vars
<1>8. CASE DeadLeaseLapses
  BY <1>8, LapseMoves
<1>9. CASE BecomeDue
  BY <1>9, DueMoves
<1>10. CASE \E k \in DOMAIN jobs : Stall(k)
  BY <1>10, StallMoves
<1>11. CASE \E w \in Workers : Die(w)
  BY <1>3, <1>11
<1>12. CASE \E c \in Connections, kind \in Kinds, w \in Windows : EnqueueSync(c, kind, w)
  BY <1>1, <1>12
<1>13. CASE \E w \in Syncers : SyncStep(w) \/ SyncFails(w)
  BY <1>4, <1>13
<1>14. CASE \E w \in Projectors : ProjectStep(w) \/ ExecutorRaises(w)
  BY <1>5, <1>14
<1>. QED BY <1>6, <1>7, <1>8, <1>9, <1>10, <1>11, <1>12, <1>13, <1>14 DEF Next

-----------------------------------------------------------------------------
\* How the workers move

PageType == {NoPage} \cup [page : AllPages, revision : Nat]

StayedAt(w) ==
  /\ pc'[w] = pc[w] /\ job'[w] = job[w]
  /\ w \in Syncers => page'[w] = page[w]

\* What a step makes of a sync worker.
SyncerMoves(w) ==
  \/ StayedAt(w)
  \/ pc'[w] \in {"idle", "start", "fetch"}
  \/ /\ Fetch(w) /\ StillRuns(w) /\ job'[w] = job[w]
     /\ pc'[w] = "derive" /\ Missing(RunOf(w)) = {}
  \/ /\ Fetch(w) /\ StillRuns(w) /\ job'[w] = job[w] /\ pc'[w] = "write"
     /\ page'[w].revision = version /\ page'[w].page \in AllPages
     /\ <<RunOf(w), page'[w].page>> \notin DOMAIN artifact

WorkersMove == WorkerTypes' /\ \A v \in Syncers : SyncerMoves(v)

LEMMA KeysGrow ==
  ASSUME QueuesMove
  PROVE  \A q : KeysOf(q) \subseteq KeysOf(q)'
  BY DEF QueuesMove, JobsMove, KeysOf

LEMMA WorkersKept ==
  ASSUME BaseInv, QueuesMove, UNCHANGED <<pc, job, page>>
  PROVE  WorkersMove
<1>1. \A q : KeysOf(q) \subseteq KeysOf(q)'
  BY KeysGrow
<1>2. WorkerTypes'
  BY <1>1 DEF BaseInv, WorkerTypes
<1>. QED BY <1>2 DEF WorkersMove, SyncerMoves, StayedAt

\* One worker goes on to a stage of its queue or is done with its row.
LEMMA GoToMoves ==
  ASSUME BaseInv, QueuesMove, NEW w \in Workers, NEW s, GoTo(w, s),
         pc[w] # "idle",
         s = "idle" \/ s \in StagesOf(w),
         s = "ingest" => job[w][1] = "ingest",
         s \in {"classify", "chain"} => job[w][1] = "classify",
         page' \in [Syncers -> PageType],
         \A v \in Syncers \ {w} : page'[v] = page[v]
  PROVE  /\ WorkerTypes' /\ pc'[w] = s
         /\ s # "idle" => job'[w] = job[w]
         /\ \A v \in Workers \ {w} : StayedAt(v)
<1>0. /\ pc \in [Workers -> Stages] /\ job \in [Workers -> Key \cup {Free}]
      /\ job[w] \in KeysOf(QueueServed(w)) /\ s \in Stages
  BY DEF BaseInv, WorkerTypes, Stages, StagesOf
<1>1. /\ pc' \in [Workers -> Stages] /\ pc'[w] = s
      /\ \A v \in Workers \ {w} : pc'[v] = pc[v]
  BY <1>0 DEF GoTo
<1>2. /\ job' \in [Workers -> Key \cup {Free}]
      /\ s # "idle" => job'[w] = job[w]
      /\ \A v \in Workers \ {w} : job'[v] = job[v]
  BY <1>0 DEF GoTo
<1>3. \A q : KeysOf(q) \subseteq KeysOf(q)'
  BY KeysGrow
<1>4. ASSUME NEW v \in Workers, pc'[v] # "idle"
      PROVE  /\ pc'[v] \in StagesOf(v) /\ job'[v] \in KeysOf(QueueServed(v))'
             /\ pc'[v] = "ingest" => job'[v][1] = "ingest"
             /\ pc'[v] \in {"classify", "chain"} => job'[v][1] = "classify"
  <2>1. CASE v = w
    BY <1>0, <1>1, <1>2, <1>3, <1>4, <2>1
  <2>2. CASE v # w
    <3>1. pc'[v] = pc[v] /\ job'[v] = job[v]
      BY <1>1, <1>2, <2>2
    <3>. QED BY <1>3, <1>4, <3>1 DEF BaseInv, WorkerTypes
  <2>. QED BY <2>1, <2>2
<1>5. WorkerTypes'
  <2>1. \A v \in Workers : /\ pc'[v] = "ingest" => pc'[v] # "idle"
                           /\ pc'[v] \in {"classify", "chain"} => pc'[v] # "idle"
    OBVIOUS
  <2>2. \A v \in Workers : StagesOf(v)' = StagesOf(v) /\ QueueServed(v)' = QueueServed(v)
    BY DEF StagesOf, QueueServed
  <2>. QED BY <1>1, <1>2, <1>4, <2>1, <2>2 DEF WorkerTypes, PageType
<1>6. \A v \in Workers \ {w} : v \in Syncers => page'[v] = page[v]
  OBVIOUS
<1>. QED BY <1>1, <1>2, <1>5, <1>6 DEF StayedAt

LEMMA DoneMoves ==
  ASSUME BaseInv, QueuesMove, NEW w \in Workers, GoTo(w, "idle"), pc[w] # "idle",
         page' \in [Syncers -> PageType],
         \A v \in Syncers \ {w} : page'[v] = page[v]
  PROVE  WorkersMove
<1>1. /\ WorkerTypes' /\ pc'[w] = "idle"
      /\ \A v \in Workers \ {w} : StayedAt(v)
  BY GoToMoves
<1>. QED BY <1>1 DEF WorkersMove, SyncerMoves, Workers

LEMMA PageKept ==
  ASSUME BaseInv
  PROVE  /\ page' = page => page' \in [Syncers -> PageType]
         /\ \A w \in Syncers :
              page' = [page EXCEPT ![w] = NoPage] =>
                /\ page' \in [Syncers -> PageType]
                /\ \A v \in Syncers \ {w} : page'[v] = page[v]
<1>1. page \in [Syncers -> PageType]
  BY DEF BaseInv, WorkerTypes, PageType
<1>2. NoPage \in PageType
  BY DEF PageType
<1>. QED BY <1>1, <1>2

LEMMA DieKeepsWorkers ==
  ASSUME BaseInv, QueuesMove, NEW w \in Workers, Die(w)
  PROVE  WorkersMove
<1>1. page' \in [Syncers -> PageType] /\ \A v \in Syncers \ {w} : page'[v] = page[v]
  <2>1. CASE w \in Syncers
    BY <2>1, PageKept DEF Die
  <2>2. CASE w \notin Syncers
    BY <2>2, PageKept DEF Die
  <2>. QED BY <2>1, <2>2
<1>. QED BY <1>1, DoneMoves DEF Die

LEMMA ClaimKeepsWorkers ==
  ASSUME BaseInv, QueuesMove, NEW w \in Workers, Claim(w)
  PROVE  WorkersMove
<1>0. pc \in [Workers -> Stages] /\ job \in [Workers -> Key \cup {Free}]
  BY DEF BaseInv, WorkerTypes
<1> DEFINE k == Head(line[QueueServed(w)])
<1>1. k \in KeysOf(QueueServed(w)) /\ k \in Key
  <2>1. k \in KeysOf(QueueServed(w))
    BY ClaimMoves
  <2>. QED BY <2>1 DEF KeysOf, BaseInv, JobTypes
<1>2. /\ pc' = [pc EXCEPT ![w] = "start"] /\ job' = [job EXCEPT ![w] = k]
      /\ page' = page
  BY DEF Claim
<1>. HIDE DEF k
<1>3. /\ pc' \in [Workers -> Stages] /\ pc'[w] = "start"
      /\ job' \in [Workers -> Key \cup {Free}] /\ job'[w] = k
      /\ \A v \in Workers \ {w} : pc'[v] = pc[v] /\ job'[v] = job[v]
  BY <1>0, <1>1, <1>2 DEF Stages, SyncStages
<1>4. \A q : KeysOf(q) \subseteq KeysOf(q)'
  BY KeysGrow
<1>5. "start" \in StagesOf(w)
  BY DEF StagesOf, SyncStages, ProjectStages
<1>6. ASSUME NEW v \in Workers, pc'[v] # "idle"
      PROVE  /\ pc'[v] \in StagesOf(v) /\ job'[v] \in KeysOf(QueueServed(v))'
             /\ pc'[v] = "ingest" => job'[v][1] = "ingest"
             /\ pc'[v] \in {"classify", "chain"} => job'[v][1] = "classify"
  <2>1. CASE v = w
    BY <1>1, <1>3, <1>4, <1>5, <2>1
  <2>2. CASE v # w
    <3>1. pc'[v] = pc[v] /\ job'[v] = job[v]
      BY <1>3, <2>2
    <3>. QED BY <1>4, <1>6, <3>1 DEF BaseInv, WorkerTypes
  <2>. QED BY <2>1, <2>2
<1>7. WorkerTypes'
  <2>1. \A v \in Workers : /\ pc'[v] = "ingest" => pc'[v] # "idle"
                           /\ pc'[v] \in {"classify", "chain"} => pc'[v] # "idle"
    OBVIOUS
  <2>2. \A v \in Workers : StagesOf(v)' = StagesOf(v) /\ QueueServed(v)' = QueueServed(v)
    BY DEF StagesOf, QueueServed
  <2>3. page' \in [Syncers -> {NoPage} \cup [page : AllPages, revision : Nat]]
    BY <1>2 DEF BaseInv, WorkerTypes
  <2>. QED BY <1>3, <1>6, <2>1, <2>2, <2>3 DEF WorkerTypes
<1>8. \A v \in Syncers : SyncerMoves(v)
  BY <1>2, <1>3 DEF SyncerMoves, StayedAt, Workers
<1>. QED BY <1>7, <1>8 DEF WorkersMove

\* The executor of a key's kind.
LEMMA EntryStages ==
  ASSUME NEW k \in Key
  PROVE  /\ QueueOf(k) = "sync" => Entry(k) = "fetch"
         /\ QueueOf(k) = "analytics" =>
              /\ Entry(k) \in {"ingest", "classify", "read"}
              /\ Entry(k) = "ingest" => k[1] = "ingest"
              /\ Entry(k) = "classify" => k[1] = "classify"
<1>1. CASE \E r \in Run : k = SyncKey(r)
  <2>1. k[1] = "sync"
    BY <1>1 DEF SyncKey
  <2>2. Entry(k) = "fetch" /\ QueueOf(k) = "sync"
    BY <2>1 DEF Entry, QueueOf, Chains
  <2>. QED BY <2>2
<1>2. CASE \E r \in Run, p \in ReferralPages : k = IngestKey(r, p)
  <2>1. k[1] = "ingest"
    BY <1>2 DEF IngestKey
  <2>2. Entry(k) = "ingest" /\ QueueOf(k) = "analytics"
    BY <2>1 DEF Entry, QueueOf, Chains
  <2>. QED BY <2>1, <2>2
<1>3. CASE \E r \in Run, p \in ReferralPages : k = ClassifyKey(r, p)
  <2>1. k[1] = "classify"
    BY <1>3 DEF ClassifyKey
  <2>2. Entry(k) = "classify" /\ QueueOf(k) = "analytics"
    BY <2>1 DEF Entry, QueueOf, Chains
  <2>. QED BY <2>1, <2>2
<1>4. CASE \E c \in Chains, r \in Run : k = RefreshKey(c, r)
  <2>1. k[1] \in {"traffic", "analytics"}
    BY <1>4 DEF RefreshKey, Chains
  <2>2. Entry(k) = "read" /\ QueueOf(k) = "analytics"
    BY <2>1 DEF Entry, QueueOf, Chains
  <2>. QED BY <2>1, <2>2
<1>. QED BY <1>1, <1>2, <1>3, <1>4 DEF Key

LEMMA StartKeepsWorkers ==
  ASSUME BaseInv, QueuesMove, NEW w \in Workers, Start(w)
  PROVE  WorkersMove
<1>1. pc[w] = "start" /\ page' = page
  BY DEF Start
<1>2. page' \in [Syncers -> PageType]
  BY <1>1, PageKept
<1>3. job[w] \in Key /\ QueueOf(job[w]) = QueueServed(w)
  BY <1>1 DEF BaseInv, WorkerTypes, JobTypes, KeysOf
<1>4. CASE GoTo(w, "idle")
  BY <1>1, <1>2, <1>4, DoneMoves
<1>5. CASE GoTo(w, Entry(job[w]))
  <2>1. CASE w \in Syncers
    <3>1. Entry(job[w]) = "fetch"
      BY <1>3, <2>1, EntryStages, WorkerFacts
    <3>2. "fetch" \in StagesOf(w)
      BY <2>1 DEF StagesOf, SyncStages
    <3>3. WorkerTypes' /\ pc'[w] = "fetch" /\ \A v \in Workers \ {w} : StayedAt(v)
      BY <1>1, <1>2, <1>5, <3>1, <3>2, GoToMoves
    <3>. QED BY <3>3 DEF WorkersMove, SyncerMoves, Workers
  <2>2. CASE w \in Projectors
    <3> DEFINE s == Entry(job[w])
    <3>1. /\ s \in {"ingest", "classify", "read"}
          /\ s = "ingest" => job[w][1] = "ingest"
          /\ s = "classify" => job[w][1] = "classify"
      BY <1>3, <2>2, EntryStages, WorkerFacts
    <3>2. s \in StagesOf(w) /\ w \notin Syncers
      BY <2>2, <3>1, WorkerFacts DEF StagesOf, ProjectStages
    <3>. HIDE DEF s
    <3>3. WorkerTypes' /\ \A v \in Workers \ {w} : StayedAt(v)
      BY <1>1, <1>2, <1>5, <3>1, <3>2, GoToMoves DEF s
    <3>. QED BY <3>2, <3>3 DEF WorkersMove, SyncerMoves, Workers
  <2>. QED BY <2>1, <2>2 DEF Workers
<1>. QED BY <1>4, <1>5 DEF Start

\* The first page of a run that is missing.
NextPage(w) ==
  Pages[CHOOSE i \in Missing(RunOf(w)) : \A n \in Missing(RunOf(w)) : i <= n]

\* A set of naturals that is not empty has a least element.
LEMMA LeastNat ==
  ASSUME NEW S \in SUBSET Nat, S # {}
  PROVE  \E i \in S : \A n \in S : i <= n
<1>1. PICK m \in S : TRUE
  OBVIOUS
<1>2. m \in Nat
  OBVIOUS
<1> DEFINE P == {i \in 0 .. m : \A n \in S : i <= n}
<1>3. CASE P = 0 .. m
  <2>1. m \in P
    BY <1>2, <1>3
  <2>. QED BY <1>1, <2>1
<1>4. CASE P # 0 .. m
  <2>1. P \in SUBSET (0 .. m) /\ 0 \in P
    BY <1>2
  <2>2. ~ \A i \in 1 .. m : i - 1 \in P => i \in P
    <3>. HIDE DEF P
    <3>. QED BY <1>2, <1>4, <2>1, IntervalInduction
  <2>3. PICK i \in 1 .. m : i - 1 \in P /\ i \notin P
    BY <2>2
  <2>4. PICK n \in S : ~(i <= n)
    BY <1>2, <2>3
  <2>5. i - 1 <= n /\ n \in Nat /\ i \in Nat
    BY <1>2, <2>3, <2>4
  <2>6. n = i - 1
    BY <2>4, <2>5
  <2>. QED BY <2>3, <2>4, <2>6
<1>. QED BY <1>3, <1>4

LEMMA NextPageIsMissing ==
  ASSUME NEW w, Missing(RunOf(w)) # {}
  PROVE  NextPage(w) \in AllPages /\ <<RunOf(w), NextPage(w)>> \notin DOMAIN artifact
<1>1. Missing(RunOf(w)) \in SUBSET DOMAIN Pages
  BY DEF Missing
<1>2. DOMAIN Pages \subseteq Nat
  BY PagesAssumption
<1>3. \E i \in Missing(RunOf(w)) : \A n \in Missing(RunOf(w)) : i <= n
  BY <1>1, <1>2, LeastNat
<1>4. \E i \in Missing(RunOf(w)) : NextPage(w) = Pages[i]
  BY <1>3 DEF NextPage
<1>. QED BY <1>4 DEF Missing, AllPages

LEMMA FetchKeepsWorkers ==
  ASSUME BaseInv, QueuesMove, NEW w \in Syncers, Fetch(w)
  PROVE  WorkersMove
<1>1. pc[w] = "fetch" /\ w \in Workers
  BY DEF Fetch, Workers
<1>2. {"derive", "write"} \subseteq StagesOf(w)
  BY DEF StagesOf, SyncStages
<1>3. CASE ~StillRuns(w)
  <2>1. GoTo(w, "idle") /\ page' = page
    BY <1>3 DEF Fetch
  <2>. QED BY <1>1, <2>1, PageKept, DoneMoves
<1>4. CASE StillRuns(w) /\ Missing(RunOf(w)) = {}
  <2>1. GoTo(w, "derive") /\ page' = page
    BY <1>4 DEF Fetch
  <2>2. /\ WorkerTypes' /\ pc'[w] = "derive" /\ job'[w] = job[w]
        /\ \A v \in Workers \ {w} : StayedAt(v)
    BY <1>1, <1>2, <2>1, PageKept, GoToMoves
  <2>. QED BY <1>1, <1>4, <2>2 DEF WorkersMove, SyncerMoves, Workers
<1>5. CASE StillRuns(w) /\ Missing(RunOf(w)) # {}
  <2> DEFINE p == [page |-> NextPage(w), revision |-> version]
  <2>1. GoTo(w, "write") /\ page' = [page EXCEPT ![w] = p]
    BY <1>5 DEF Fetch, NextPage
  <2>2. NextPage(w) \in AllPages /\ <<RunOf(w), NextPage(w)>> \notin DOMAIN artifact
    BY <1>5, NextPageIsMissing
  <2>3. p \in PageType
    BY <2>2 DEF PageType, BaseInv
  <2>4. p.page = NextPage(w) /\ p.revision = version
    OBVIOUS
  <2>. HIDE DEF p
  <2>5. /\ page' \in [Syncers -> PageType] /\ page'[w] = p
        /\ \A v \in Syncers \ {w} : page'[v] = page[v]
    BY <2>1, <2>3 DEF BaseInv, WorkerTypes, PageType
  <2>6. /\ WorkerTypes' /\ pc'[w] = "write" /\ job'[w] = job[w]
        /\ \A v \in Workers \ {w} : StayedAt(v)
    BY <1>1, <1>2, <2>1, <2>5, GoToMoves
  <2>. QED BY <1>1, <1>5, <2>2, <2>4, <2>5, <2>6 DEF WorkersMove, SyncerMoves, Workers
<1>. QED BY <1>3, <1>4, <1>5

LEMMA WriteKeepsWorkers ==
  ASSUME BaseInv, QueuesMove, NEW w \in Syncers, Write(w)
  PROVE  WorkersMove
<1>1. pc[w] = "write" /\ w \in Workers /\ page' = [page EXCEPT ![w] = NoPage]
  BY DEF Write, Workers
<1>2. "fetch" \in StagesOf(w)
  BY DEF StagesOf, SyncStages
<1>3. page' \in [Syncers -> PageType] /\ \A v \in Syncers \ {w} : page'[v] = page[v]
  BY <1>1, PageKept
<1>4. CASE GoTo(w, "idle")
  BY <1>1, <1>3, <1>4, DoneMoves
<1>5. CASE GoTo(w, "fetch")
  <2>1. /\ WorkerTypes' /\ pc'[w] = "fetch"
        /\ \A v \in Workers \ {w} : StayedAt(v)
    BY <1>1, <1>2, <1>3, <1>5, GoToMoves
  <2>. QED BY <2>1 DEF WorkersMove, SyncerMoves, Workers
<1>. QED BY <1>4, <1>5 DEF Write

LEMMA EndsKeepWorkers ==
  ASSUME BaseInv, QueuesMove
  PROVE  /\ \A w \in Syncers : Derive(w) \/ SyncFails(w) => WorkersMove
         /\ \A w \in Projectors : Finish(w) \/ ExecutorRaises(w) => WorkersMove
<1>1. ASSUME NEW w \in Syncers, Derive(w)
      PROVE  WorkersMove
  <2>1. w \in Workers /\ pc[w] # "idle" /\ GoTo(w, "idle") /\ page' = page
    BY <1>1 DEF Derive, Workers
  <2>. QED BY <2>1, PageKept, DoneMoves
<1>2. ASSUME NEW w \in Syncers, SyncFails(w)
      PROVE  WorkersMove
  <2>1. /\ w \in Workers /\ pc[w] # "idle" /\ GoTo(w, "idle")
        /\ page' = [page EXCEPT ![w] = NoPage]
    BY <1>2 DEF SyncFails, Workers
  <2>. QED BY <2>1, PageKept, DoneMoves
<1>3. ASSUME NEW w \in Projectors, Finish(w) \/ ExecutorRaises(w)
      PROVE  WorkersMove
  <2>1. w \in Workers /\ pc[w] # "idle" /\ GoTo(w, "idle") /\ page' = page
    BY <1>3 DEF Finish, ExecutorRaises, Workers
  <2>. QED BY <2>1, PageKept, DoneMoves
<1>. QED BY <1>1, <1>2, <1>3

\* An analytics worker goes on.
LEMMA ProjectorGoesOn ==
  ASSUME BaseInv, QueuesMove, NEW w \in Projectors, NEW s, GoTo(w, s),
         pc[w] # "idle", page' = page, s \in {"finish", "upsert", "chain"},
         s = "chain" => pc[w] = "classify"
  PROVE  WorkersMove
<1>1. w \in Workers /\ s \in StagesOf(w) /\ w \notin Syncers
  BY WorkerFacts DEF Workers, StagesOf, ProjectStages
<1>2. s = "chain" => job[w][1] = "classify"
  BY <1>1 DEF BaseInv, WorkerTypes
<1>3. WorkerTypes' /\ \A v \in Workers \ {w} : StayedAt(v)
  BY <1>1, <1>2, PageKept, GoToMoves
<1>. QED BY <1>1, <1>3 DEF WorkersMove, SyncerMoves, Workers

LEMMA ProjectorsKeepWorkers ==
  ASSUME BaseInv, QueuesMove, NEW w \in Projectors,
         Ingest(w) \/ Classify(w) \/ Chain(w) \/ Read(w) \/ Upsert(w)
  PROVE  WorkersMove
<1>1. CASE Ingest(w)
  <2>1. pc[w] # "idle" /\ GoTo(w, "finish") /\ page' = page
    BY <1>1 DEF Ingest
  <2>. QED BY <2>1, ProjectorGoesOn
<1>2. CASE Chain(w)
  <2>1. pc[w] # "idle" /\ GoTo(w, "finish") /\ page' = page
    BY <1>2 DEF Chain
  <2>. QED BY <2>1, ProjectorGoesOn
<1>3. CASE Upsert(w)
  <2>1. pc[w] # "idle" /\ GoTo(w, "finish") /\ page' = page
    BY <1>3 DEF Upsert
  <2>. QED BY <2>1, ProjectorGoesOn
<1>4. CASE Classify(w)
  <2>1. pc[w] = "classify" /\ (GoTo(w, "finish") \/ GoTo(w, "chain")) /\ page' = page
    BY <1>4 DEF Classify
  <2>. QED BY <2>1, ProjectorGoesOn
<1>5. CASE Read(w)
  <2>1. pc[w] = "read" /\ (GoTo(w, "finish") \/ GoTo(w, "upsert")) /\ page' = page
    BY <1>5 DEF Read
  <2>. QED BY <2>1, ProjectorGoesOn
<1>. QED BY <1>1, <1>2, <1>3, <1>4, <1>5

LEMMA StepMovesWorkers ==
  ASSUME BaseInv, [Next]_vars, QueuesMove
  PROVE  WorkersMove
<1>1. ASSUME NEW w \in Workers, Sweep(w) \/ Claim(w) \/ Start(w) \/ Die(w)
      PROVE  WorkersMove
  <2>1. CASE Sweep(w)
    BY <2>1, WorkersKept DEF Sweep
  <2>2. CASE Claim(w)
    BY <2>2, ClaimKeepsWorkers
  <2>3. CASE Start(w)
    BY <2>3, StartKeepsWorkers
  <2>4. CASE Die(w)
    BY <2>4, DieKeepsWorkers
  <2>. QED BY <1>1, <2>1, <2>2, <2>3, <2>4
<1>2. ASSUME NEW w \in Syncers, SyncStep(w) \/ SyncFails(w)
      PROVE  WorkersMove
  <2>1. CASE Fetch(w)
    BY <2>1, FetchKeepsWorkers
  <2>2. CASE Write(w)
    BY <2>2, WriteKeepsWorkers
  <2>3. CASE Derive(w) \/ SyncFails(w)
    BY <2>3, EndsKeepWorkers
  <2>4. CASE Sweep(w) \/ Claim(w) \/ Start(w)
    BY <1>1, <2>4 DEF Workers
  <2>. QED BY <1>2, <2>1, <2>2, <2>3, <2>4 DEF SyncStep
<1>3. ASSUME NEW w \in Projectors, ProjectStep(w) \/ ExecutorRaises(w)
      PROVE  WorkersMove
  <2>1. CASE Ingest(w) \/ Classify(w) \/ Chain(w) \/ Read(w) \/ Upsert(w)
    BY <2>1, ProjectorsKeepWorkers
  <2>2. CASE Finish(w) \/ ExecutorRaises(w)
    BY <2>2, EndsKeepWorkers
  <2>3. CASE Sweep(w) \/ Claim(w) \/ Start(w)
    BY <1>1, <2>3 DEF Workers
  <2>. QED BY <1>3, <2>1, <2>2, <2>3 DEF ProjectStep
<1>4. ASSUME NEW c \in Connections, NEW kind \in Kinds, NEW w \in Windows,
             EnqueueSync(c, kind, w)
      PROVE  WorkersMove
  BY <1>4, WorkersKept DEF EnqueueSync
<1>5. CASE Revise
  BY <1>5, WorkersKept DEF Revise
<1>6. CASE UNCHANGED vars
  BY <1>6, WorkersKept DEF vars
<1>7. CASE DeadLeaseLapses
  BY <1>7, WorkersKept DEF DeadLeaseLapses
<1>8. CASE BecomeDue
  BY <1>8, WorkersKept DEF BecomeDue
<1>9. ASSUME NEW k \in DOMAIN jobs, Stall(k)
      PROVE  WorkersMove
  BY <1>9, WorkersKept DEF Stall
<1>. QED BY <1>1, <1>2, <1>3, <1>4, <1>5, <1>6, <1>7, <1>8, <1>9 DEF Next

-----------------------------------------------------------------------------
\* BaseInv is inductive

LEMMA RunsOfKeys ==
  ASSUME NEW D \in SUBSET Key
  PROVE  {k[2] : k \in {j \in D : j[1] = "sync"}} = {r \in Run : SyncKey(r) \in D}
<1>1. ASSUME NEW k \in D, k[1] = "sync"
      PROVE  k[2] \in Run /\ SyncKey(k[2]) \in D
  <2>1. k \in Key /\ QueueOf(k) = "sync"
    BY <1>1 DEF QueueOf
  <2>. QED BY <2>1, KeyShapes
<1>2. ASSUME NEW r \in Run, SyncKey(r) \in D
      PROVE  r \in {k[2] : k \in {j \in D : j[1] = "sync"}}
  BY <1>2 DEF SyncKey
<1>. QED BY <1>1, <1>2

\* The runs are inserted one by one, and none is lost.
RunsMove ==
  \/ Runs' = Runs
  \/ \E c \in Connections, kind \in Kinds, w \in Windows :
       /\ EnqueueSync(c, kind, w)
       /\ NextRevision(c, kind, w) \notin Runs /\ NextRevision(c, kind, w) \in Run
       /\ Runs' = Runs \cup {NextRevision(c, kind, w)}
       /\ \A k \in DOMAIN jobs : jobs'[k] = jobs[k]

LEMMA StepMovesRuns ==
  ASSUME BaseInv, [Next]_vars
  PROVE  /\ RunsMove
         /\ Runs' = {r \in Run : SyncKey(r) \in DOMAIN jobs'}
         /\ Runs = {r \in Run : SyncKey(r) \in DOMAIN jobs}
<1>1. QueuesMove
  BY StepMoves
<1>2. /\ Runs' = {r \in Run : SyncKey(r) \in DOMAIN jobs'}
      /\ Runs = {r \in Run : SyncKey(r) \in DOMAIN jobs}
  <2>1. DOMAIN jobs' \in SUBSET Key /\ DOMAIN jobs \in SUBSET Key
    BY <1>1 DEF QueuesMove, JobsMove, BaseInv, JobTypes
  <2>2. /\ Runs' = {k[2] : k \in {j \in DOMAIN jobs' : j[1] = "sync"}}
        /\ Runs = {k[2] : k \in {j \in DOMAIN jobs : j[1] = "sync"}}
    BY DEF Runs
  <2>. QED BY <2>1, <2>2, RunsOfKeys
<1>3. CASE DOMAIN jobs' \subseteq DOMAIN jobs \cup AnalyticsKeys
  <2>1. DOMAIN jobs \subseteq DOMAIN jobs'
    BY <1>1 DEF QueuesMove, JobsMove
  <2>2. \A r \in Run : SyncKey(r) \notin AnalyticsKeys
    BY KeyQueues DEF AnalyticsKeys
  <2>. QED BY <1>2, <1>3, <2>1, <2>2 DEF RunsMove
<1>4. ASSUME NEW c \in Connections, NEW kind \in Kinds, NEW w \in Windows,
             EnqueueSync(c, kind, w),
             DOMAIN jobs' = DOMAIN jobs \cup {SyncKey(NextRevision(c, kind, w))},
             \A k \in DOMAIN jobs : jobs'[k] = jobs[k]
      PROVE  RunsMove
  <2>1. NextRevision(c, kind, w) \notin Runs /\ NextRevision(c, kind, w) \in Run
    BY <1>4, NextRevisionIsNew DEF EnqueueSync
  <2>2. Runs' = Runs \cup {NextRevision(c, kind, w)}
    BY <1>2, <1>4, <2>1, SyncKeyInjective
  <2>. QED BY <1>4, <2>1, <2>2 DEF RunsMove
<1>. QED BY <1>2, <1>3, <1>4, StepMoves

LEMMA StepNumbersRuns ==
  ASSUME BaseInv, [Next]_vars
  PROVE  RunsNumbered'
<1>1. RunsNumbered /\ RunsMove
  BY StepMovesRuns DEF BaseInv
<1>2. CASE Runs' = Runs
  <2>1. \A c, kind, w : Group(c, kind, w)' = Group(c, kind, w)
    BY <1>2 DEF Group
  <2>. QED BY <1>1, <1>2, <2>1 DEF RunsNumbered
<1>3. ASSUME NEW c \in Connections, NEW kind \in Kinds, NEW w \in Windows,
             NextRevision(c, kind, w) \notin Runs,
             Runs' = Runs \cup {NextRevision(c, kind, w)}
      PROVE  RunsNumbered'
  <2> DEFINE n == NextRevision(c, kind, w)
             G == Group(c, kind, w)
  <2>1. /\ n.connection = c /\ n.kind = kind /\ n.window = w
        /\ n.seq = Cardinality(G)
    BY DEF NextRevision
  <2>2. IsFiniteSet(G) /\ Cardinality(G) \in Nat
    BY GroupFinite
  <2>3. n \notin G
    BY <1>3 DEF Group
  <2>. HIDE DEF n
  <2>4. Group(c, kind, w)' = G \cup {n}
    BY <1>3, <2>1 DEF Group, n
  <2>5. \A a, b, d : ~(a = c /\ b = kind /\ d = w) => Group(a, b, d)' = Group(a, b, d)
    BY <1>3, <2>1 DEF Group, n
  <2>. HIDE DEF G
  <2>6. Cardinality(Group(c, kind, w)') = Cardinality(G) + 1
    BY <2>2, <2>3, <2>4, FS_AddElement
  <2>7. IsFiniteSet(Runs')
    BY <1>1, <1>3, FS_AddElement DEF RunsNumbered
  <2>8. ASSUME NEW r \in Runs'
        PROVE  r.seq < Cardinality(Group(r.connection, r.kind, r.window)')
    <3>1. CASE r = n
      BY <2>1, <2>2, <2>6, <3>1
    <3>2. CASE r \in Runs
      <4>1. r.seq < Cardinality(Group(r.connection, r.kind, r.window))
        BY <1>1, <3>2 DEF RunsNumbered
      <4>2. CASE r.connection = c /\ r.kind = kind /\ r.window = w
        <5>1. r.seq \in Nat
          <6>1. r \in Run
            BY <3>2, StepMovesRuns
          <6>. QED BY <6>1, BoundAssumption DEF Run
        <5>. QED BY <2>2, <2>6, <4>1, <4>2, <5>1 DEF G
      <4>3. CASE ~(r.connection = c /\ r.kind = kind /\ r.window = w)
        BY <2>5, <4>1, <4>3
      <4>. QED BY <4>2, <4>3
    <3>. QED BY <1>3, <3>1, <3>2 DEF n
  <2>. QED BY <2>7, <2>8 DEF RunsNumbered
<1>. QED BY <1>1, <1>2, <1>3 DEF RunsMove

LEMMA StepKeepsLeases ==
  ASSUME BaseInv, [Next]_vars
  PROVE  LeaseCoherent'
<1>1. JobsMove
  BY StepMoves DEF QueuesMove
<1>2. ASSUME NEW k \in DOMAIN jobs'
      PROVE  jobs'[k].status \in LeaseHeld <=> jobs'[k].owner # NoOwner
  <2>1. CASE k \notin DOMAIN jobs
    <3>1. jobs'[k] = NewRow
      BY <1>1, <2>1 DEF JobsMove
    <3>. QED BY <3>1, NewRowFacts DEF LeaseHeld
  <2>2. CASE k \in DOMAIN jobs
    <3>1. RowMoves(k) /\ (jobs[k].status \in LeaseHeld <=> jobs[k].owner # NoOwner)
      BY <1>1, <2>2 DEF JobsMove, BaseInv, LeaseCoherent
    <3>2. CASE jobs'[k] = jobs[k]
      BY <3>1, <3>2
    <3>3. ASSUME NEW w \in Workers, jobs'[k] = Lease(jobs[k], w)
          PROVE  jobs'[k].status \in LeaseHeld /\ jobs'[k].owner # NoOwner
      <4>1. jobs[k] \in Row /\ w # NoOwner
        BY <2>2, WorkerFacts DEF BaseInv, JobTypes
      <4>. QED BY <3>3, <4>1 DEF Lease, LeaseHeld, Row
    <3>4. CASE jobs'[k].status = jobs[k].status /\ jobs'[k].owner = jobs[k].owner
      BY <3>1, <3>4
    <3>5. ASSUME NEW w \in Workers, jobs'[k].owner = w, jobs'[k].status = "running"
          PROVE  jobs'[k].status \in LeaseHeld /\ jobs'[k].owner # NoOwner
      BY <3>5, WorkerFacts DEF LeaseHeld
    <3>6. CASE /\ jobs[k].owner # NoOwner /\ jobs'[k].owner = Gone
               /\ jobs'[k].status = jobs[k].status
      BY <3>1, <3>6, WorkerFacts
    <3>7. CASE /\ jobs'[k].owner = NoOwner
               /\ jobs'[k].status \in Claimable \cup {"failed", "succeeded"}
      BY <3>7 DEF Claimable, LeaseHeld
    <3>. QED BY <3>1, <3>2, <3>3, <3>4, <3>5, <3>6, <3>7 DEF RowMoves
  <2>. QED BY <2>1, <2>2
<1>. QED BY <1>2 DEF LeaseCoherent

\* The provider's revisions go up.
LEMMA StepMovesVersion ==
  ASSUME BaseInv, [Next]_vars
  PROVE  version' \in Nat /\ version \in Nat /\ version <= version'
<1>1. version \in Nat
  BY DEF BaseInv
<1>2. CASE Revise
  BY <1>1, <1>2 DEF Revise
<1>3. CASE version' = version
  BY <1>1, <1>3
<1>4. Revise \/ version' = version
  <2>1. ASSUME NEW w \in Workers, Sweep(w) \/ Claim(w) \/ Start(w) \/ Die(w)
        PROVE  version' = version
    BY <2>1 DEF Sweep, Claim, Start, Die
  <2>2. ASSUME NEW w \in Syncers, SyncStep(w) \/ SyncFails(w)
        PROVE  version' = version
    BY <2>1, <2>2 DEF SyncStep, SyncFails, Fetch, Write, Derive, Workers
  <2>3. ASSUME NEW w \in Projectors, ProjectStep(w) \/ ExecutorRaises(w)
        PROVE  version' = version
    BY <2>1, <2>3 DEF ProjectStep, ExecutorRaises, Ingest, Classify, Chain, Read, Upsert,
                      Finish, Workers
  <2>4. CASE UNCHANGED vars
    BY <2>4 DEF vars
  <2>. QED BY <2>1, <2>2, <2>3, <2>4
           DEF Next, EnqueueSync, DeadLeaseLapses, BecomeDue, Stall
<1>. QED BY <1>2, <1>3, <1>4

LEMMA BaseInvStep ==
  ASSUME BaseInv, [Next]_vars
  PROVE  BaseInv'
<1>1. QueuesMove /\ WorkersMove
  BY StepMoves, StepMovesWorkers
<1>2. JobTypes' /\ LineTypes'
  BY <1>1 DEF QueuesMove, JobsMove, LinesMove, JobTypes, LineTypes
<1>. QED BY <1>1, <1>2, StepNumbersRuns, StepKeepsLeases, StepMovesVersion
         DEF BaseInv, WorkersMove

LEMMA BaseInvHolds == Spec => []BaseInv
  BY BaseInvInit, BaseInvStep, PTL DEF Spec

-----------------------------------------------------------------------------
\* What an import leaves behind

\* Artifacts and metric rows are written by the owner of a running run only.
EvidenceMoves ==
  /\ \/ artifact' = artifact
     \/ \E w \in Syncers : /\ Write(w) /\ StillRuns(w) /\ pc'[w] = "fetch"
                           /\ artifact' = Stored(w)
  /\ \/ rows' = rows
     \/ \E w \in Syncers : /\ Derive(w) /\ StillRuns(w)
                           /\ rows' = With(rows, Derived(RunOf(w)))

LEMMA StepMovesEvidence ==
  ASSUME BaseInv, [Next]_vars
  PROVE  EvidenceMoves
<1>1. CASE UNCHANGED evidence
  BY <1>1 DEF evidence, EvidenceMoves
<1>2. ASSUME NEW w \in Syncers, Write(w)
      PROVE  EvidenceMoves
  <2>1. CASE StillRuns(w)
    <3>1. artifact' = Stored(w) /\ GoTo(w, "fetch") /\ rows' = rows
      BY <1>2, <2>1 DEF Write
    <3>2. pc'[w] = "fetch"
      BY <3>1 DEF GoTo, BaseInv, WorkerTypes, Workers
    <3>. QED BY <1>2, <2>1, <3>1, <3>2 DEF EvidenceMoves
  <2>2. CASE ~StillRuns(w)
    BY <1>2, <2>2 DEF Write, EvidenceMoves
  <2>. QED BY <2>1, <2>2
<1>3. ASSUME NEW w \in Syncers, Derive(w)
      PROVE  EvidenceMoves
  <2>1. CASE StillRuns(w)
    BY <1>3, <2>1 DEF Derive, EvidenceMoves
  <2>2. CASE ~StillRuns(w)
    BY <1>3, <2>2 DEF Derive, EvidenceMoves
  <2>. QED BY <2>1, <2>2
<1>4. ASSUME NEW w \in Workers, Sweep(w) \/ Claim(w) \/ Start(w) \/ Die(w)
      PROVE  UNCHANGED evidence
  BY <1>4 DEF Sweep, Claim, Start, Die
<1>5. ASSUME NEW w \in Syncers, SyncStep(w) \/ SyncFails(w)
      PROVE  EvidenceMoves
  <2>1. CASE Fetch(w) \/ SyncFails(w)
    BY <1>1, <2>1 DEF Fetch, SyncFails
  <2>2. CASE Sweep(w) \/ Claim(w) \/ Start(w)
    BY <1>1, <1>4, <2>2 DEF Workers
  <2>. QED BY <1>2, <1>3, <1>5, <2>1, <2>2 DEF SyncStep
<1>6. ASSUME NEW w \in Projectors, ProjectStep(w) \/ ExecutorRaises(w)
      PROVE  UNCHANGED evidence
  <2>1. CASE Sweep(w) \/ Claim(w) \/ Start(w)
    BY <1>4, <2>1 DEF Workers
  <2>2. CASE Ingest(w) \/ Classify(w) \/ Chain(w) \/ Finish(w) \/ ExecutorRaises(w)
    BY <2>2 DEF Ingest, Classify, Chain, Finish, ExecutorRaises
  <2>3. CASE Read(w) \/ Upsert(w)
    BY <2>3 DEF Read, Upsert
  <2>. QED BY <1>6, <2>1, <2>2, <2>3 DEF ProjectStep
<1>7. CASE UNCHANGED vars
  BY <1>1, <1>7 DEF vars
<1>. QED BY <1>1, <1>4, <1>5, <1>6, <1>7
         DEF Next, EnqueueSync, Revise, Stall, DeadLeaseLapses, BecomeDue

\* A worker at work still runs its row only if it did before the step.
LEMMA RunningBefore ==
  ASSUME BaseInv, QueuesMove, NEW w \in Syncers,
         pc[w] \in {"fetch", "write", "derive"}, job'[w] = job[w], StillRuns(w)'
  PROVE  StillRuns(w)
<1> DEFINE k == job[w]
<1>1. k \in DOMAIN jobs /\ w \in Workers
  BY SyncerJob DEF Workers
<1>2. RowMoves(k)
  BY <1>1 DEF QueuesMove, JobsMove
<1>3. jobs'[k].owner = w /\ jobs'[k].status = "running"
  BY DEF StillRuns, OwnedBy
<1>4. \A v \in Workers : jobs'[k] # Lease(jobs[k], v)
  <2>1. jobs[k] \in Row
    BY <1>1 DEF BaseInv, JobTypes
  <2>2. \A v \in Workers : Lease(jobs[k], v).status = "leased"
    BY <2>1 DEF Lease, Row
  <2>. QED BY <1>3, <2>2
<1>5. \A v \in Workers : Start(v) => pc[v] = "start"
  BY DEF Start
<1>6. w # Gone /\ w # NoOwner
  BY <1>1, WorkerFacts
<1>. QED BY <1>2, <1>3, <1>4, <1>5, <1>6 DEF RowMoves, StillRuns, OwnedBy

\* Two workers do not run the same run.
LEMMA OneRuns ==
  ASSUME BaseInv, NEW v \in Syncers, NEW w \in Syncers, v # w,
         pc[v] # "idle", pc[w] # "idle", StillRuns(v), StillRuns(w)
  PROVE  RunOf(v) # RunOf(w)
<1>1. job[v] # job[w]
  BY DEF StillRuns, OwnedBy
<1>2. PICK r \in Run : job[v] = SyncKey(r) /\ RunOf(v) = r
  BY SyncerJob
<1>3. PICK k \in Run : job[w] = SyncKey(k) /\ RunOf(w) = k
  BY SyncerJob
<1>. QED BY <1>1, <1>2, <1>3

LEMMA SyncerRun ==
  ASSUME BaseInv, NEW w \in Syncers, pc[w] # "idle"
  PROVE  /\ RunOf(w) \in Runs /\ RunOf(w) \in Run
         /\ job[w] = SyncKey(RunOf(w)) /\ job[w] \in DOMAIN jobs
<1>1. PICK r \in Run : job[w] = SyncKey(r) /\ RunOf(w) = r /\ job[w] \in DOMAIN jobs
  BY SyncerJob
<1>2. r \in Runs
  BY <1>1, RunKeys DEF BaseInv
<1>. QED BY <1>1, <1>2

\* The page in hand is not imported yet, if its run is still the worker's.
InHand ==
  \A w \in Syncers : pc[w] = "write" =>
    /\ page[w].page \in AllPages /\ page[w].revision \in Nat
    /\ page[w].revision <= version
    /\ StillRuns(w) => <<RunOf(w), page[w].page>> \notin DOMAIN artifact

\* An artifact is of a page of a run, and is one answer of the provider.
Imported ==
  /\ DOMAIN artifact \subseteq Runs \X AllPages
  /\ \A a \in DOMAIN artifact :
       \E v \in Nat : v <= version /\ artifact[a] = <<v>>

ImportInv == BaseInv /\ InHand /\ Imported

\* The one artifact a step may add.
LEMMA StepAddsArtifact ==
  ASSUME ImportInv, [Next]_vars
  PROVE  \/ artifact' = artifact
         \/ \E w \in Syncers :
              /\ pc[w] = "write" /\ StillRuns(w) /\ pc'[w] = "fetch"
              /\ <<RunOf(w), page[w].page>> \notin DOMAIN artifact
              /\ DOMAIN artifact' = DOMAIN artifact \cup {<<RunOf(w), page[w].page>>}
              /\ artifact'[<<RunOf(w), page[w].page>>] = <<page[w].revision>>
              /\ \A a \in DOMAIN artifact : artifact'[a] = artifact[a]
<1>1. ASSUME NEW w \in Syncers, Write(w), StillRuns(w), pc'[w] = "fetch",
             artifact' = Stored(w)
      PROVE  /\ pc[w] = "write"
             /\ <<RunOf(w), page[w].page>> \notin DOMAIN artifact
             /\ DOMAIN artifact' = DOMAIN artifact \cup {<<RunOf(w), page[w].page>>}
             /\ artifact'[<<RunOf(w), page[w].page>>] = <<page[w].revision>>
             /\ \A a \in DOMAIN artifact : artifact'[a] = artifact[a]
  <2> DEFINE key == <<RunOf(w), page[w].page>>
  <2>1. pc[w] = "write" /\ key \notin DOMAIN artifact
    BY <1>1 DEF Write, ImportInv, InHand
  <2>. HIDE DEF key
  <2>2. artifact' = [a \in DOMAIN artifact \cup {key} |->
                       IF a = key THEN Append(<<>>, page[w].revision) ELSE artifact[a]]
    BY <1>1, <2>1 DEF Stored, key
  <2>3. Append(<<>>, page[w].revision) = <<page[w].revision>>
    OBVIOUS
  <2>. QED BY <2>1, <2>2, <2>3 DEF key
<1>. QED BY <1>1, StepMovesEvidence DEF EvidenceMoves, ImportInv

LEMMA ImportInvInit == Init => ImportInv
<1>. SUFFICES ASSUME Init PROVE InHand /\ Imported
  BY BaseInvInit DEF ImportInv
<1>1. DOMAIN artifact = {}
  BY DEF Init
<1>2. \A w \in Syncers : pc[w] = "idle"
  BY DEF Init, Workers
<1>. QED BY <1>1, <1>2 DEF InHand, Imported

LEMMA RunsGrow ==
  ASSUME BaseInv, [Next]_vars
  PROVE  Runs \subseteq Runs'
  BY StepMovesRuns DEF RunsMove

LEMMA ImportInvStep ==
  ASSUME ImportInv, [Next]_vars
  PROVE  ImportInv'
<1>0. BaseInv /\ BaseInv' /\ QueuesMove /\ WorkersMove /\ Runs \subseteq Runs'
  BY BaseInvStep, StepMoves, StepMovesWorkers, RunsGrow DEF ImportInv
<1>1. version \in Nat /\ version' \in Nat /\ version <= version'
  BY <1>0, StepMovesVersion
<1>2. Imported'
  <2>1. CASE artifact' = artifact
    <3>1. \A v \in Nat : v <= version => v <= version'
      BY <1>1
    <3>. QED BY <1>0, <2>1, <3>1 DEF ImportInv, Imported
  <2>2. ASSUME NEW w \in Syncers,
               pc[w] = "write",
               DOMAIN artifact' = DOMAIN artifact \cup {<<RunOf(w), page[w].page>>},
               artifact'[<<RunOf(w), page[w].page>>] = <<page[w].revision>>,
               \A a \in DOMAIN artifact : artifact'[a] = artifact[a]
        PROVE  Imported'
    <3>1. /\ RunOf(w) \in Runs' /\ page[w].page \in AllPages
          /\ page[w].revision \in Nat /\ page[w].revision <= version'
      BY <1>0, <1>1, <2>2, SyncerRun DEF ImportInv, InHand
    <3>2. DOMAIN artifact' \subseteq Runs' \X AllPages
      BY <1>0, <2>2, <3>1 DEF ImportInv, Imported
    <3>3. \A v \in Nat : v <= version => v <= version'
      BY <1>1
    <3>4. \A a \in DOMAIN artifact' :
            \E v \in Nat : v <= version' /\ artifact'[a] = <<v>>
      BY <2>2, <3>1, <3>3 DEF ImportInv, Imported
    <3>. QED BY <3>2, <3>4 DEF Imported
  <2>. QED BY <2>1, <2>2, StepAddsArtifact
<1>3. ASSUME NEW w \in Syncers, pc'[w] = "write"
      PROVE  /\ page'[w].page \in AllPages /\ page'[w].revision \in Nat
             /\ page'[w].revision <= version'
             /\ StillRuns(w)' => <<RunOf(w)', page'[w].page>> \notin DOMAIN artifact'
  <2>1. CASE StayedAt(w)
    <3>1. pc[w] = "write" /\ job'[w] = job[w] /\ page'[w] = page[w] /\ RunOf(w)' = RunOf(w)
      BY <1>3, <2>1 DEF StayedAt, RunOf
    <3>2. /\ page[w].page \in AllPages /\ page[w].revision \in Nat
          /\ page[w].revision <= version'
      <4>1. /\ page[w].page \in AllPages /\ page[w].revision \in Nat
            /\ page[w].revision <= version
        BY <3>1 DEF ImportInv, InHand
      <4>. QED BY <1>1, <4>1
    <3>3. ASSUME StillRuns(w)'
          PROVE  <<RunOf(w), page[w].page>> \notin DOMAIN artifact'
      <4>1. StillRuns(w)
        BY <1>0, <3>1, <3>3, RunningBefore
      <4>2. <<RunOf(w), page[w].page>> \notin DOMAIN artifact
        BY <3>1, <4>1 DEF ImportInv, InHand
      <4>3. ASSUME NEW v \in Syncers, pc[v] = "write", StillRuns(v), pc'[v] = "fetch",
                   DOMAIN artifact' = DOMAIN artifact \cup {<<RunOf(v), page[v].page>>}
            PROVE  <<RunOf(w), page[w].page>> \notin DOMAIN artifact'
        <5>1. v # w
          BY <1>3, <4>3
        <5>2. RunOf(v) # RunOf(w)
          BY <1>0, <3>1, <4>1, <4>3, <5>1, OneRuns
        <5>. QED BY <4>2, <4>3, <5>2
      <4>. QED BY <4>2, <4>3, StepAddsArtifact
    <3>. QED BY <3>1, <3>2, <3>3
  <2>2. CASE /\ Fetch(w) /\ StillRuns(w) /\ job'[w] = job[w] /\ pc'[w] = "write"
             /\ page'[w].revision = version /\ page'[w].page \in AllPages
             /\ <<RunOf(w), page'[w].page>> \notin DOMAIN artifact
    <3>1. RunOf(w)' = RunOf(w) /\ artifact' = artifact
      BY <2>2 DEF RunOf, Fetch, evidence
    <3>. QED BY <1>1, <2>2, <3>1
  <2>. QED BY <1>0, <1>3, <2>1, <2>2 DEF WorkersMove, SyncerMoves
<1>4. InHand'
  BY <1>3 DEF InHand
<1>. QED BY <1>0, <1>2, <1>4 DEF ImportInv

LEMMA ImportInvHolds == Spec => []ImportInv
  BY ImportInvInit, ImportInvStep, PTL DEF Spec

\* A page of a run is imported at most once, whoever fetched it again after a
\* lost lease, a retry or a restart.
THEOREM PagesImportedOnceHolds == Spec => []PagesImportedOnce
<1>1. ImportInv => PagesImportedOnce
  <2>1. \A v \in Nat : Len(<<v>>) = 1
    OBVIOUS
  <2>. QED BY <2>1 DEF ImportInv, Imported, PagesImportedOnce
<1>. QED BY <1>1, ImportInvHolds, PTL

-----------------------------------------------------------------------------
\* A run that succeeded is complete

\* A run is derived when none of its pages is missing.
Fetched == \A w \in Syncers : pc[w] = "derive" => Missing(RunOf(w)) = {}

CompleteInv == ImportInv /\ Fetched /\ SucceededIsComplete

LEMMA EvidenceGrows ==
  ASSUME ImportInv, [Next]_vars
  PROVE  DOMAIN artifact \subseteq DOMAIN artifact' /\ DOMAIN rows \subseteq DOMAIN rows'
<1>1. DOMAIN artifact \subseteq DOMAIN artifact'
  BY StepAddsArtifact
<1>2. \A g : DOMAIN rows \subseteq DOMAIN With(rows, g)
  BY DEF With
<1>. QED BY <1>1, <1>2, StepMovesEvidence DEF EvidenceMoves, ImportInv

LEMMA MissingShrinks ==
  ASSUME ImportInv, [Next]_vars
  PROVE  \A r : Missing(r)' \subseteq Missing(r)
  BY EvidenceGrows DEF Missing

LEMMA CompleteInvInit == Init => CompleteInv
<1>. SUFFICES ASSUME Init PROVE Fetched /\ SucceededIsComplete
  BY ImportInvInit DEF CompleteInv
<1>1. \A w \in Syncers : pc[w] = "idle"
  BY DEF Init, Workers
<1>2. Runs = {}
  BY DEF Init, Runs
<1>. QED BY <1>1, <1>2 DEF Fetched, SucceededIsComplete

FactOf(r, p, d) == [connection |-> r.connection, page |-> p, day |-> d, seq |-> r.seq]

\* What a finished run leaves.
LEMMA DeriveCompletes ==
  ASSUME CompleteInv, [Next]_vars, NEW w \in Syncers, Derive(w), StillRuns(w)
  PROVE  /\ \A p \in AllPages :
              /\ <<RunOf(w), p>> \in DOMAIN artifact'
              /\ \A d \in DaysOf[RunOf(w).window] : FactOf(RunOf(w), p, d) \in DOMAIN rows'
         /\ Range(Projections(RunOf(w))) \subseteq DOMAIN jobs'
<1> DEFINE r == RunOf(w)
<1>0. BaseInv /\ ImportInv
  BY DEF CompleteInv, ImportInv
<1>1. Missing(r) = {}
  BY DEF CompleteInv, Fetched, Derive
<1>2. \A p \in AllPages : <<r, p>> \in DOMAIN artifact
  BY <1>1 DEF Missing, AllPages
<1>3. rows' = With(rows, Derived(r))
  BY DEF Derive
<1>. HIDE DEF r
<1>4. ASSUME NEW p \in AllPages, NEW d \in DaysOf[r.window]
      PROVE  FactOf(r, p, d) \in DOMAIN rows'
  <2>1. p \in {n \in AllPages : <<r, n>> \in DOMAIN artifact}
    BY <1>2
  <2>2. FactOf(r, p, d) \in DOMAIN Derived(r)
    BY <2>1 DEF Derived, FactOf
  <2>. QED BY <1>3, <2>2 DEF With
<1>5. \A p \in AllPages : <<r, p>> \in DOMAIN artifact'
  BY <1>0, <1>2, EvidenceGrows
<1>6. Range(Projections(r)) \subseteq DOMAIN jobs'
  BY <1>0, DeriveMoves DEF r
<1>. QED BY <1>4, <1>5, <1>6 DEF r

\* A row ends well in no other way.
LEMMA SucceedsByDerive ==
  ASSUME BaseInv, QueuesMove, NEW k \in DOMAIN jobs, QueueOf(k) = "sync",
         jobs'[k].status = "succeeded"
  PROVE  \/ jobs[k].status = "succeeded"
         \/ \E w \in Syncers : Derive(w) /\ StillRuns(w) /\ k = job[w]
<1>1. RowMoves(k) /\ jobs[k] \in Row
  BY DEF QueuesMove, JobsMove, BaseInv, JobTypes
<1>2. \A v \in Workers : Lease(jobs[k], v).status = "leased"
  BY <1>1 DEF Lease, Row
<1>. QED BY <1>1, <1>2 DEF RowMoves, Claimable

LEMMA CompleteInvStep ==
  ASSUME CompleteInv, [Next]_vars
  PROVE  CompleteInv'
<1>0. /\ ImportInv /\ ImportInv' /\ BaseInv /\ QueuesMove /\ WorkersMove
      /\ DOMAIN jobs \subseteq DOMAIN jobs'
  BY ImportInvStep, StepMoves, StepMovesWorkers DEF CompleteInv, ImportInv, QueuesMove, JobsMove
<1>1. Fetched'
  <2>1. ASSUME NEW w \in Syncers, pc'[w] = "derive"
        PROVE  Missing(RunOf(w))' = {}
    <3>1. RunOf(w)' = RunOf(w) /\ Missing(RunOf(w)) = {}
      <4>1. CASE StayedAt(w)
        BY <2>1, <4>1 DEF StayedAt, RunOf, CompleteInv, Fetched
      <4>2. CASE job'[w] = job[w] /\ Missing(RunOf(w)) = {}
        BY <4>2 DEF RunOf
      <4>. QED BY <1>0, <2>1, <4>1, <4>2 DEF WorkersMove, SyncerMoves
    <3>2. Missing(RunOf(w))' = {i \in DOMAIN Pages : <<RunOf(w)', Pages[i]>> \notin DOMAIN artifact'}
      BY DEF Missing
    <3>3. \A i \in DOMAIN Pages : <<RunOf(w), Pages[i]>> \in DOMAIN artifact'
      BY <1>0, <3>1, EvidenceGrows DEF Missing
    <3>. QED BY <3>1, <3>2, <3>3
  <2>. QED BY <2>1 DEF Fetched
<1>2. ASSUME NEW r \in Runs', jobs'[SyncKey(r)].status = "succeeded"
      PROVE  /\ \A p \in AllPages :
                  /\ <<r, p>> \in DOMAIN artifact'
                  /\ \A d \in DaysOf[r.window] : FactOf(r, p, d) \in DOMAIN rows'
             /\ Range(Projections(r)) \subseteq DOMAIN jobs'
  <2> DEFINE k == SyncKey(r)
  <2>1. r \in Run /\ k \in DOMAIN jobs' /\ QueueOf(k) = "sync"
    BY <1>0, <1>2, StepMovesRuns, KeyQueues
  <2>2. k \in DOMAIN jobs
    <3>. SUFFICES ASSUME k \notin DOMAIN jobs PROVE FALSE
      OBVIOUS
    <3>1. jobs'[k] = NewRow
      BY <1>0, <2>1 DEF QueuesMove, JobsMove
    <3>. QED BY <1>2, <3>1, NewRowFacts
  <2>3. CASE jobs[k].status = "succeeded"
    <3>1. r \in Runs
      BY <1>0, <2>1, <2>2, StepMovesRuns
    <3>2. /\ \A p \in AllPages :
               /\ <<r, p>> \in DOMAIN artifact
               /\ \A d \in DaysOf[r.window] : FactOf(r, p, d) \in DOMAIN rows
          /\ Range(Projections(r)) \subseteq DOMAIN jobs
      BY <2>3, <3>1 DEF CompleteInv, SucceededIsComplete, FactOf
    <3>. QED BY <1>0, <3>2, EvidenceGrows
  <2>4. ASSUME NEW w \in Syncers, Derive(w), StillRuns(w), k = job[w]
        PROVE  r = RunOf(w)
    <3>1. job[w] = SyncKey(RunOf(w))
      BY <1>0, <2>4, SyncerRun DEF Derive
    <3>. QED BY <2>4, <3>1, SyncKeyInjective
  <2>5. ASSUME NEW w \in Syncers, Derive(w), StillRuns(w), k = job[w]
        PROVE  /\ \A p \in AllPages :
                    /\ <<r, p>> \in DOMAIN artifact'
                    /\ \A d \in DaysOf[r.window] : FactOf(r, p, d) \in DOMAIN rows'
               /\ Range(Projections(r)) \subseteq DOMAIN jobs'
    <3>1. r = RunOf(w)
      BY <2>4, <2>5
    <3>. QED BY <2>5, <3>1, DeriveCompletes
  <2>. QED BY <1>0, <1>2, <2>1, <2>2, <2>3, <2>5, SucceedsByDerive
<1>3. SucceededIsComplete'
  <2>1. \A r : Projections(r)' = Projections(r) /\ SyncKey(r)' = SyncKey(r)
    BY DEF Projections, SyncKey
  <2>. QED BY <1>2, <2>1 DEF SucceededIsComplete, FactOf
<1>. QED BY <1>0, <1>1, <1>3 DEF CompleteInv

\* A run that succeeded has an artifact for every page it was to fetch, each
\* fact of its window at its revision, and its projections queued.
THEOREM SucceededIsCompleteHolds == Spec => []SucceededIsComplete
<1>1. CompleteInv => SucceededIsComplete
  BY DEF CompleteInv
<1>. QED BY <1>1, CompleteInvInit, CompleteInvStep, PTL DEF Spec

-----------------------------------------------------------------------------
\* A run that ended stays ended

\* The runs in line are due, each once.
SyncLine ==
  /\ \A i \in DOMAIN line["sync"] : Due(line["sync"][i])
  /\ \A i, j \in DOMAIN line["sync"] : line["sync"][i] = line["sync"][j] => i = j

LEMMA LineFacts ==
  ASSUME BaseInv
  PROVE  /\ line["sync"] \in Seq(KeysOf("sync"))
         /\ \A i \in DOMAIN line["sync"] :
              line["sync"][i] \in DOMAIN jobs /\ QueueOf(line["sync"][i]) = "sync"
<1>1. line["sync"] \in Seq(KeysOf("sync"))
  BY DEF BaseInv, LineTypes, Queues
<1>2. \A i \in DOMAIN line["sync"] : line["sync"][i] \in KeysOf("sync")
  BY <1>1
<1>. QED BY <1>1, <1>2 DEF KeysOf

\* Who claims a row of the sync queue is a sync worker and takes the first.
LEMMA SyncClaim ==
  ASSUME BaseInv, NEW w \in Workers, Claim(w),
         QueueOf(Head(line[QueueServed(w)])) = "sync"
  PROVE  /\ QueueServed(w) = "sync" /\ line["sync"] # <<>>
         /\ line'["sync"] = Tail(line["sync"])
<1>1. Head(line[QueueServed(w)]) \in KeysOf(QueueServed(w))
  BY ClaimMoves
<1>2. QueueServed(w) = "sync"
  BY <1>1 DEF KeysOf
<1>. QED BY <1>2 DEF Claim, BaseInv, LineTypes, Queues

DueNext(k) == k \in DOMAIN jobs' /\ jobs'[k].status \in Claimable /\ jobs'[k].due

\* A row that is due stays so until it is claimed.
LEMMA DueUntilClaimed ==
  ASSUME BaseInv, QueuesMove, NEW k \in DOMAIN jobs, Due(k)
  PROVE  \/ DueNext(k)
         \/ \E w \in Workers : Claim(w) /\ k = Head(line[QueueServed(w)])
<1>1. RowMoves(k) /\ k \in DOMAIN jobs'
  BY DEF QueuesMove, JobsMove
<1>2. jobs[k].owner = NoOwner /\ jobs[k].status \in Claimable /\ jobs[k].status # "leased"
  BY OwnedIsHeld DEF Due, Claimable
<1>. QED BY <1>1, <1>2 DEF RowMoves, Due, DueNext

LEMMA SyncLineStep ==
  ASSUME BaseInv, SyncLine, QueuesMove
  PROVE  SyncLine'
<1> DEFINE s == line["sync"]
           t == line'["sync"]
<1>1. /\ s \in Seq(KeysOf("sync"))
      /\ \A i \in DOMAIN s : s[i] \in DOMAIN jobs /\ QueueOf(s[i]) = "sync" /\ Due(s[i])
      /\ \A i, j \in DOMAIN s : s[i] = s[j] => i = j
  BY LineFacts DEF SyncLine
<1>2. ASSUME NEW i \in DOMAIN s, ~DueNext(s[i])
      PROVE  /\ s # <<>> /\ t = Tail(s) /\ s[i] = Head(s)
  <2>1. PICK w \in Workers : Claim(w) /\ s[i] = Head(line[QueueServed(w)])
    BY <1>1, <1>2, DueUntilClaimed
  <2>2. QueueOf(Head(line[QueueServed(w)])) = "sync"
    BY <1>1, <2>1
  <2>. QED BY <2>1, <2>2, SyncClaim
<1>3. CASE t = s
  <2>1. ASSUME s # <<>>
        PROVE  Tail(s) # s
    <3>1. Len(Tail(s)) = Len(s) - 1 /\ Len(s) \in Nat
      BY <1>1, <2>1
    <3>2. Len(Tail(s)) # Len(s)
      BY <3>1
    <3>. QED BY <3>2
  <2>2. \A i \in DOMAIN s : DueNext(s[i])
    BY <1>2, <1>3, <2>1
  <2>. QED BY <1>1, <1>3, <2>2 DEF SyncLine, Due, DueNext
<1>4. CASE \E w \in Syncers : Claim(w)
  <2>1. s # <<>> /\ t = Tail(s)
    <3>1. PICK w \in Syncers : Claim(w)
      BY <1>4
    <3>2. QueueServed(w) = "sync"
      BY WorkerFacts
    <3>. QED BY <3>1, <3>2 DEF Claim, BaseInv, LineTypes, Queues
  <2>. HIDE DEF s, t
  <2>2. /\ DOMAIN t = 1 .. Len(s) - 1 /\ DOMAIN s = 1 .. Len(s) /\ Len(s) \in Nat
        /\ \A i \in DOMAIN t : t[i] = s[i + 1]
        /\ Head(s) = s[1]
    BY <1>1, <2>1
  <2>3. \A i \in DOMAIN t : i + 1 \in DOMAIN s /\ i + 1 # 1 /\ 1 \in DOMAIN s /\ i \in Nat
    BY <2>2
  <2>4. ASSUME NEW i \in DOMAIN t
        PROVE  DueNext(t[i])
    <3>1. s[i + 1] # Head(s)
      BY <1>1, <2>2, <2>3
    <3>2. DueNext(s[i + 1])
      BY <1>2, <2>3, <3>1
    <3>. QED BY <2>2, <3>2
  <2>5. ASSUME NEW i \in DOMAIN t, NEW j \in DOMAIN t, t[i] = t[j]
        PROVE  i = j
    <3>1. s[i + 1] = s[j + 1]
      BY <2>2, <2>5
    <3>2. i + 1 = j + 1
      BY <1>1, <2>3, <3>1
    <3>. QED BY <2>3, <3>2
  <2>. QED BY <2>4, <2>5 DEF SyncLine, t, Due, DueNext
<1>5. ASSUME NEW k, Due(k)', ~Due(k), t = Append(s, k)
      PROVE  SyncLine'
  <2>1. \A i \in DOMAIN s : DueNext(s[i])
    <3>1. s # <<>> => Append(s, k) # Tail(s)
      <4>1. ASSUME s # <<>>
            PROVE  Len(Tail(s)) = Len(s) - 1 /\ Len(Append(s, k)) = Len(s) + 1 /\ Len(s) \in Nat
        BY <1>1, <4>1
      <4>. QED BY <4>1
    <3>. QED BY <1>2, <1>5, <3>1
  <2>2. \A i \in DOMAIN s : s[i] # k
    BY <1>1, <1>5
  <2>. HIDE DEF s, t
  <2>3. /\ DOMAIN s = 1 .. Len(s) /\ Len(s) \in Nat
        /\ DOMAIN t = 1 .. Len(s) + 1
        /\ \A i \in DOMAIN s : t[i] = s[i]
        /\ t[Len(s) + 1] = k
    BY <1>1, <1>5
  <2>4. \A i \in DOMAIN t : i \in DOMAIN s \/ i = Len(s) + 1
    BY <2>3
  <2>5. \A i \in DOMAIN t : DueNext(t[i])
    <3>1. DueNext(k)
      BY <1>5 DEF Due, DueNext
    <3>. QED BY <2>1, <2>3, <2>4, <3>1
  <2>6. \A i, j \in DOMAIN t : t[i] = t[j] => i = j
    BY <1>1, <2>2, <2>3, <2>4
  <2>. QED BY <2>5, <2>6 DEF SyncLine, t, Due, DueNext
<1>. QED BY <1>3, <1>4, <1>5 DEF QueuesMove, LinesMove

LEMMA EndedStaysEnded ==
  ASSUME BaseInv, SyncLine, QueuesMove, NEW k \in DOMAIN jobs, QueueOf(k) = "sync",
         jobs[k].status \in Terminal
  PROVE  jobs'[k].status \in Terminal
<1>1. RowMoves(k) /\ jobs[k].owner = NoOwner /\ ~Due(k) /\ jobs[k].status # "leased"
  BY OwnedIsHeld DEF QueuesMove, JobsMove, Due, Terminal, Claimable, LeaseHeld
<1>2. ASSUME NEW w \in Workers, Claim(w), k = Head(line[QueueServed(w)])
      PROVE  FALSE
  <2>1. QueueServed(w) = "sync" /\ line["sync"] # <<>>
    BY <1>2, SyncClaim
  <2>2. Head(line["sync"]) = line["sync"][1] /\ 1 \in DOMAIN line["sync"]
    BY <2>1, LineFacts
  <2>. QED BY <1>1, <1>2, <2>1, <2>2 DEF SyncLine
<1>. QED BY <1>1, <1>2 DEF RowMoves

-----------------------------------------------------------------------------
\* The latest revision is the newest data

\* Two runs of one connection, kind and window, the first with the lower revision.
Below(r, k) ==
  /\ r.connection = k.connection /\ r.kind = k.kind /\ r.window = k.window
  /\ r.seq < k.seq

\* When a window has a further run, the earlier ones have ended.
EarlierEnded ==
  \A r, k \in Runs : Below(r, k) => jobs[SyncKey(r)].status \in Terminal

\* A later run was not fetched before an earlier one ...
ArtifactsNewer ==
  \A a, b \in DOMAIN artifact :
    Below(a[1], b[1]) => artifact[a][1] <= artifact[b][1]

\* ... nor is what a worker has in hand.
HandsNewer ==
  \A w \in Syncers : pc[w] = "write" =>
    \A a \in DOMAIN artifact :
      Below(a[1], RunOf(w)) => artifact[a][1] <= page[w].revision

\* A metric row names its run, and the page it is derived from is imported.
Derivation ==
  /\ DOMAIN rows \subseteq Identity
  /\ \A i \in DOMAIN rows :
       /\ rows[i] \in Runs
       /\ rows[i].connection = i.connection /\ rows[i].seq = i.seq
       /\ <<rows[i], i.page>> \in DOMAIN artifact

RevisionInv ==
  /\ ImportInv
  /\ SyncLine
  /\ EarlierEnded
  /\ ArtifactsNewer
  /\ HandsNewer
  /\ Derivation

LEMMA RevisionInvInit == Init => RevisionInv
<1>. SUFFICES ASSUME Init PROVE RevisionInv
  OBVIOUS
<1>1. \A w \in Syncers : pc[w] = "idle"
  BY DEF Init, Workers
<1>2. Runs = {} /\ DOMAIN artifact = {} /\ DOMAIN rows = {}
  BY DEF Init, Runs
<1>3. line["sync"] = <<>>
  BY DEF Init, Queues
<1>. QED BY <1>1, <1>2, <1>3, ImportInvInit
         DEF RevisionInv, SyncLine, EarlierEnded, ArtifactsNewer, HandsNewer, Derivation

LEMMA EarlierEndedStep ==
  ASSUME BaseInv, SyncLine, EarlierEnded, [Next]_vars
  PROVE  EarlierEnded'
<1>0. QueuesMove
  BY StepMoves
<1>1. \A r \in Runs : r \in Run /\ SyncKey(r) \in DOMAIN jobs /\ QueueOf(SyncKey(r)) = "sync"
  BY StepMovesRuns, KeyQueues
<1>2. ASSUME NEW r \in Runs, NEW k \in Runs, Below(r, k)
      PROVE  jobs'[SyncKey(r)].status \in Terminal
  BY <1>0, <1>1, <1>2, EndedStaysEnded DEF EarlierEnded
<1>3. ASSUME NEW c \in Connections, NEW kind \in Kinds, NEW w \in Windows,
             EnqueueSync(c, kind, w),
             Runs' = Runs \cup {NextRevision(c, kind, w)},
             \A k \in DOMAIN jobs : jobs'[k] = jobs[k],
             NEW r \in Runs', NEW k \in Runs', Below(r, k)
      PROVE  jobs'[SyncKey(r)].status \in Terminal
  <2> DEFINE n == NextRevision(c, kind, w)
             G == Group(c, kind, w)
  <2>1. /\ n.connection = c /\ n.kind = kind /\ n.window = w
        /\ n.seq = Cardinality(G)
    BY DEF NextRevision
  <2>. HIDE DEF n
  <2>2. CASE r \in Runs /\ k = n
    <3>1. r \in G
      BY <1>3, <2>1, <2>2 DEF Below, Group
    <3>2. jobs[SyncKey(r)].status \in Terminal
      BY <1>3, <3>1 DEF EnqueueSync, WindowIsFree
    <3>. QED BY <1>1, <1>3, <2>2, <3>2
  <2>3. CASE r = n /\ k \in Runs
    <3>1. k.seq < Cardinality(Group(k.connection, k.kind, k.window))
      BY <2>3 DEF BaseInv, RunsNumbered
    <3>2. k.seq < Cardinality(G) /\ Cardinality(G) < k.seq
      BY <1>3, <2>1, <2>3, <3>1 DEF Below
    <3>3. Cardinality(G) \in Nat /\ k.seq \in Nat
      <4>1. k \in Run
        BY <1>1, <2>3
      <4>. QED BY <4>1, GroupFinite, BoundAssumption DEF Run
    <3>. HIDE DEF G
    <3>. QED BY <3>2, <3>3
  <2>4. CASE r = n /\ k = n
    <3>1. n.seq < n.seq /\ n.seq \in Nat
      BY <1>3, <2>1, <2>4, GroupFinite DEF Below
    <3>. QED BY <3>1
  <2>. QED BY <1>2, <1>3, <2>2, <2>3, <2>4 DEF n
<1>4. \A r, k \in Runs' : Below(r, k) => jobs'[SyncKey(r)].status \in Terminal
  BY <1>2, <1>3, StepMovesRuns DEF RunsMove
<1>5. \A r, k : Below(r, k)' = Below(r, k) /\ SyncKey(r)' = SyncKey(r)
  BY DEF Below, SyncKey
<1>. QED BY <1>4, <1>5 DEF EarlierEnded

\* The runs of artifacts and of workers.
LEMMA RunningIsLast ==
  ASSUME BaseInv, EarlierEnded, NEW w \in Syncers, pc[w] # "idle", StillRuns(w)
  PROVE  \A k \in Runs : ~Below(RunOf(w), k)
<1>1. RunOf(w) \in Runs /\ job[w] = SyncKey(RunOf(w))
  BY SyncerRun
<1>2. jobs[SyncKey(RunOf(w))].status = "running"
  BY <1>1 DEF StillRuns
<1>3. "running" \notin Terminal
  BY DEF Terminal
<1>. QED BY <1>1, <1>2, <1>3 DEF EarlierEnded

LEMMA NewerStep ==
  ASSUME RevisionInv, [Next]_vars
  PROVE  ArtifactsNewer' /\ HandsNewer'
<1>0. /\ ImportInv /\ BaseInv /\ EarlierEnded /\ QueuesMove /\ WorkersMove
      /\ \A a \in DOMAIN artifact : a[1] \in Runs
      /\ \A a \in DOMAIN artifact :
           \E v \in Nat : v <= version /\ artifact[a] = <<v>>
      /\ version \in Nat
  BY StepMoves, StepMovesWorkers DEF RevisionInv, ImportInv, Imported, BaseInv
<1>1. \A a \in DOMAIN artifact : artifact[a][1] \in Nat /\ artifact[a][1] <= version
  BY <1>0
<1>2. ASSUME NEW v \in Syncers, pc[v] = "write", StillRuns(v), pc'[v] = "fetch",
             DOMAIN artifact' = DOMAIN artifact \cup {<<RunOf(v), page[v].page>>},
             artifact'[<<RunOf(v), page[v].page>>] = <<page[v].revision>>,
             \A a \in DOMAIN artifact : artifact'[a] = artifact[a]
      PROVE  /\ ArtifactsNewer'
             /\ \A w \in Syncers : pc[w] = "write" =>
                  \A a \in DOMAIN artifact' :
                    Below(a[1], RunOf(w)) => artifact'[a][1] <= page[w].revision
  <2> DEFINE new == <<RunOf(v), page[v].page>>
  <2>1. /\ new[1] = RunOf(v) /\ artifact'[new][1] = page[v].revision
        /\ DOMAIN artifact' = DOMAIN artifact \cup {new}
    BY <1>2
  <2>2. RunOf(v) \in Runs /\ \A k \in Runs : ~Below(RunOf(v), k)
    BY <1>0, <1>2, SyncerRun, RunningIsLast
  <2>. HIDE DEF new
  <2>3. ASSUME NEW a \in DOMAIN artifact', NEW b \in DOMAIN artifact', Below(a[1], b[1])
        PROVE  artifact'[a][1] <= artifact'[b][1]
    <3>1. a # new
      <4>1. b[1] \in Runs
        BY <1>0, <2>1, <2>2
      <4>. QED BY <2>1, <2>2, <2>3, <4>1
    <3>2. CASE b = new
      <4>1. artifact'[a][1] = artifact[a][1]
        BY <1>2, <2>1, <3>1
      <4>. QED BY <1>2, <2>1, <2>3, <3>1, <3>2, <4>1 DEF RevisionInv, HandsNewer
    <3>3. CASE b # new
      <4>1. /\ a \in DOMAIN artifact /\ b \in DOMAIN artifact
            /\ artifact'[a] = artifact[a] /\ artifact'[b] = artifact[b]
        BY <1>2, <2>1, <3>1, <3>3
      <4>. QED BY <2>3, <4>1 DEF RevisionInv, ArtifactsNewer
    <3>. QED BY <3>2, <3>3
  <2>4. ASSUME NEW w \in Syncers, pc[w] = "write",
               NEW a \in DOMAIN artifact', Below(a[1], RunOf(w))
        PROVE  artifact'[a][1] <= page[w].revision
    <3>1. RunOf(w) \in Runs
      BY <1>0, <2>4, SyncerRun
    <3>2. a # new
      BY <2>1, <2>2, <2>4, <3>1
    <3>3. a \in DOMAIN artifact /\ artifact'[a] = artifact[a]
      BY <1>2, <2>1, <3>2
    <3>. QED BY <2>4, <3>3 DEF RevisionInv, HandsNewer
  <2>5. ArtifactsNewer'
    BY <2>3 DEF ArtifactsNewer, Below
  <2>. QED BY <2>4, <2>5
<1>3. ArtifactsNewer'
  <2>1. CASE artifact' = artifact
    BY <2>1 DEF RevisionInv, ArtifactsNewer, Below
  <2>. QED BY <1>0, <1>2, <2>1, StepAddsArtifact
<1>4. ASSUME NEW w \in Syncers, pc[w] = "write", NEW a \in DOMAIN artifact',
             Below(a[1], RunOf(w))
      PROVE  artifact'[a][1] <= page[w].revision
  <2>1. CASE artifact' = artifact
    BY <1>4, <2>1 DEF RevisionInv, HandsNewer
  <2>. QED BY <1>0, <1>2, <1>4, <2>1, StepAddsArtifact
<1>5. ASSUME NEW w \in Syncers, pc'[w] = "write", NEW a \in DOMAIN artifact',
             Below(a[1], RunOf(w)')
      PROVE  artifact'[a][1] <= page'[w].revision
  <2>1. CASE StayedAt(w)
    <3>1. pc[w] = "write" /\ RunOf(w)' = RunOf(w) /\ page'[w] = page[w]
      BY <1>5, <2>1 DEF StayedAt, RunOf
    <3>. QED BY <1>4, <1>5, <3>1
  <2>2. CASE Fetch(w) /\ page'[w].revision = version
    <3>1. artifact' = artifact
      BY <2>2 DEF Fetch, evidence
    <3>. QED BY <1>1, <1>5, <2>2, <3>1
  <2>. QED BY <1>0, <1>5, <2>1, <2>2 DEF WorkersMove, SyncerMoves
<1>6. HandsNewer'
  BY <1>5 DEF HandsNewer, Below
<1>. QED BY <1>3, <1>6

LEMMA DerivationStep ==
  ASSUME RevisionInv, [Next]_vars
  PROVE  Derivation'
<1>0. /\ ImportInv /\ BaseInv /\ Derivation
      /\ Runs \subseteq Runs' /\ DOMAIN artifact \subseteq DOMAIN artifact'
  BY EvidenceGrows, RunsGrow DEF RevisionInv, ImportInv
<1>1. CASE rows' = rows
  BY <1>0, <1>1 DEF Derivation
<1>2. ASSUME NEW w \in Syncers, Derive(w), rows' = With(rows, Derived(RunOf(w)))
      PROVE  Derivation'
  <2> DEFINE r == RunOf(w)
             f == {p \in AllPages : <<r, p>> \in DOMAIN artifact}
             I == [connection : {r.connection}, page : f, day : DaysOf[r.window], seq : {r.seq}]
  <2>1. r \in Runs /\ r \in Run
    BY <1>0, <1>2, SyncerRun DEF Derive
  <2>2. Derived(r) = [i \in I |-> r]
    BY DEF Derived
  <2>. HIDE DEF r
  <2>3. /\ DOMAIN rows' = DOMAIN rows \cup I
        /\ \A i \in DOMAIN rows : rows'[i] = rows[i]
        /\ \A i \in I \ DOMAIN rows : rows'[i] = r
    BY <1>2, <2>2 DEF With, r
  <2>4. \A i \in I : /\ i \in Identity
                     /\ i.connection = r.connection /\ i.seq = r.seq
                     /\ <<r, i.page>> \in DOMAIN artifact
    <3>1. DaysOf[r.window] \subseteq Days /\ r.connection \in Connections /\ r.seq \in 0 .. MaxRuns - 1
      BY <2>1 DEF Run, Days
    <3>. QED BY <3>1 DEF Identity
  <2>. HIDE DEF I
  <2>5. DOMAIN rows' \subseteq Identity
    BY <1>0, <2>3, <2>4 DEF Derivation
  <2>6. ASSUME NEW i \in DOMAIN rows'
        PROVE  /\ rows'[i] \in Runs'
               /\ rows'[i].connection = i.connection /\ rows'[i].seq = i.seq
               /\ <<rows'[i], i.page>> \in DOMAIN artifact'
    <3>1. CASE i \in DOMAIN rows
      BY <1>0, <2>3, <3>1 DEF Derivation
    <3>2. CASE i \notin DOMAIN rows
      BY <1>0, <2>1, <2>3, <2>4, <3>2
    <3>. QED BY <3>1, <3>2
  <2>7. Identity' = Identity
    BY DEF Identity, AllPages, Days
  <2>. QED BY <2>5, <2>6, <2>7 DEF Derivation
<1>. QED BY <1>0, <1>1, <1>2, StepMovesEvidence DEF EvidenceMoves

LEMMA RevisionInvStep ==
  ASSUME RevisionInv, [Next]_vars
  PROVE  RevisionInv'
<1>1. ImportInv /\ BaseInv /\ SyncLine /\ EarlierEnded /\ QueuesMove
  BY StepMoves DEF RevisionInv, ImportInv
<1>. QED BY <1>1, ImportInvStep, SyncLineStep, EarlierEndedStep, NewerStep, DerivationStep
         DEF RevisionInv

LEMMA RevisionOrder ==
  ASSUME RevisionInv
  PROVE  HigherRevisionIsNewer
<1>. SUFFICES ASSUME NEW i \in DOMAIN rows, NEW k \in DOMAIN rows, Supersedes(k, i),
                     rows[i].kind = rows[k].kind, rows[i].window = rows[k].window
              PROVE  RevisionOf(i) <= RevisionOf(k)
  BY DEF HigherRevisionIsNewer
<1>1. /\ i \in Identity /\ k \in Identity
      /\ rows[i] \in Run /\ rows[k] \in Run
      /\ rows[i].connection = i.connection /\ rows[k].connection = k.connection
      /\ rows[i].seq = i.seq /\ rows[k].seq = k.seq
      /\ <<rows[i], i.page>> \in DOMAIN artifact /\ <<rows[k], k.page>> \in DOMAIN artifact
  <2>1. \A r \in Runs : r \in Run
    BY RunKeys DEF RevisionInv, ImportInv, BaseInv
  <2>. QED BY <2>1 DEF RevisionInv, Derivation
<1>2. i.connection = k.connection /\ i.page = k.page
  <2>1. [i EXCEPT !.seq = 0] = [k EXCEPT !.seq = 0]
    BY DEF Supersedes, SameFact
  <2>2. /\ [i EXCEPT !.seq = 0].connection = i.connection
        /\ [k EXCEPT !.seq = 0].connection = k.connection
        /\ [i EXCEPT !.seq = 0].page = i.page
        /\ [k EXCEPT !.seq = 0].page = k.page
    BY <1>1 DEF Identity
  <2>. QED BY <2>1, <2>2
<1>3. i.seq \in Nat /\ k.seq \in Nat /\ i.seq <= k.seq
  BY <1>1, BoundAssumption DEF Identity, Supersedes
<1>4. CASE i.seq < k.seq
  <2>1. Below(rows[i], rows[k])
    BY <1>1, <1>2, <1>4 DEF Below
  <2> DEFINE a == <<rows[i], i.page>>
             b == <<rows[k], k.page>>
  <2>2. a[1] = rows[i] /\ b[1] = rows[k]
    OBVIOUS
  <2>. HIDE DEF a, b
  <2>3. artifact[a][1] <= artifact[b][1]
    BY <1>1, <2>1, <2>2 DEF RevisionInv, ArtifactsNewer, a, b
  <2>. QED BY <2>3 DEF RevisionOf, a, b
<1>5. CASE i.seq = k.seq
  <2>1. rows[i] = rows[k]
    BY <1>1, <1>2, <1>5 DEF Run
  <2>2. \E v \in Nat : artifact[<<rows[i], i.page>>] = <<v>>
    BY <1>1 DEF RevisionInv, ImportInv, Imported
  <2>3. RevisionOf(i) = RevisionOf(k)
    BY <1>2, <2>1 DEF RevisionOf
  <2>4. PICK v \in Nat : artifact[<<rows[i], i.page>>] = <<v>>
    BY <2>2
  <2>5. RevisionOf(i) = v
    <3> DEFINE a == <<rows[i], i.page>>
    <3>1. artifact[a] = <<v>> /\ <<v>>[1] = v
      BY <2>4
    <3>. HIDE DEF a
    <3>2. artifact[a][1] = v
      BY <3>1
    <3>. QED BY <3>2 DEF RevisionOf, a
  <2>. QED BY <2>3, <2>4, <2>5
<1>. QED BY <1>3, <1>4, <1>5

\* Within the runs of one connection, kind and window, a higher resync_seq was
\* never fetched before a lower one: the latest revision is the newest data.
THEOREM HigherRevisionIsNewerHolds == Spec => []HigherRevisionIsNewer
  BY RevisionInvInit, RevisionInvStep, RevisionOrder, PTL DEF Spec
=============================================================================
