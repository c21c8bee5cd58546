------------------------------ MODULE FairClaim ------------------------------
(***************************************************************************)
(* Whose task a claim takes: PostgresTaskQueue.claim                        *)
(* (src/backend/app/orchestration/postgres_task_queue.py) among tenants.    *)
(*                                                                         *)
(* A claim reads the clock, runs one statement that ranks the eligible rows *)
(* of every workspace, skips the locked ones and locks what it takes, moves *)
(* the workspaces' turn cursors one row after the other, and commits.  The  *)
(* claims of several workers overlap.  What happens to a claimed task is    *)
(* TaskQueue's subject; here it is away until it may be claimed again.      *)
(*                                                                         *)
(* Timestamps matter by their order only: whenever a claim reads the clock  *)
(* they are renumbered, keeping the order, so that time never ends.  No two *)
(* claims read the same instant.                                           *)
(***************************************************************************)
EXTENDS Naturals, FiniteSets

CONSTANTS
  Tasks,
  Workspaces,
  Claimers,      \* polling workers of one queue
  WorkspaceOf,   \* [Tasks -> Workspaces]
  BaseRank,      \* [Tasks -> Nat]: the queue's claim order, smaller first
  TurnRank,      \* [Workspaces -> Nat]: sorted(..., key=str)
  Limits,        \* the values of claim(limit = ...)
  NoOne

\* What holds of the parameters.  A theorem about an instance of this module has it
\* as a hypothesis.
Configured ==
  /\ IsFiniteSet(Tasks) /\ IsFiniteSet(Workspaces)
  /\ IsFiniteSet(Claimers) /\ Claimers # {} /\ NoOne \notin Claimers
  /\ WorkspaceOf \in [Tasks -> Workspaces]
  /\ BaseRank \in [Tasks -> Nat]
  /\ \A t, u \in Tasks : BaseRank[t] = BaseRank[u] => t = u
  /\ TurnRank \in [Workspaces -> Nat]
  /\ \A v, w \in Workspaces : TurnRank[v] = TurnRank[w] => v = w
  /\ Limits \subseteq Nat \ {0}

ASSUME ClaimAssumption == Configured

VARIABLES
  eligible,   \* SUBSET Tasks: committed rows a claim may take
  cursor,     \* [Workspaces -> Nat]: last_claimed_at, 0 for NULL
  pc,         \* [Claimers -> Phase]
  now,        \* [Claimers -> Nat]: the claim's clock reading, 0 outside one
  picked,     \* [Claimers -> SUBSET Tasks]: the rows it locked
  turnLock,   \* [Workspaces -> Claimers \cup {NoOne}]: the cursor row's lock
  passed,     \* history, [Claimers -> SUBSET Workspaces]: whom it took nothing
              \* from although their first row was free
  bypass      \* history, [Workspaces -> [Workspaces -> Nat]]: how often the
              \* second was served since the first waits

claimVars == <<pc, now, picked, turnLock>>
history == <<passed, bypass>>
vars == <<eligible, cursor, claimVars, history>>

Phase == {"idle", "ready", "turning", "dead"}

\* Bound of the model: bypasses are not counted beyond this.
BypassBound == 2 * Cardinality(Claimers)

TypeOK ==
  /\ eligible \subseteq Tasks
  /\ cursor \in [Workspaces -> Nat]
  /\ pc \in [Claimers -> Phase]
  /\ now \in [Claimers -> Nat]
  /\ picked \in [Claimers -> SUBSET Tasks]
  /\ turnLock \in [Workspaces -> Claimers \cup {NoOne}]
  /\ passed \in [Claimers -> SUBSET Workspaces]
  /\ bypass \in [Workspaces -> [Workspaces -> 0 .. BypassBound]]
  /\ \A c \in Claimers :
       /\ picked[c] # {} => pc[c] = "turning"
       /\ pc[c] = "idle" => now[c] = 0
       /\ picked[c] \subseteq eligible
       /\ \A d \in Claimers \ {c} : picked[c] \cap picked[d] = {}

Init ==
  /\ eligible \in SUBSET Tasks
  /\ cursor = [w \in Workspaces |-> 0]
  /\ pc = [c \in Claimers |-> "idle"]
  /\ now = [c \in Claimers |-> 0]
  /\ picked = [c \in Claimers |-> {}]
  /\ turnLock = [w \in Workspaces |-> NoOne]
  /\ passed = [c \in Claimers |-> {}]
  /\ bypass = [w \in Workspaces |-> [v \in Workspaces |-> 0]]

-----------------------------------------------------------------------------
\* The order of a claim

LockedRows == UNION {picked[c] : c \in Claimers}

\* row_number() over the workspace, among the eligible rows, locked or not.
Position(t) ==
  Cardinality({u \in eligible : WorkspaceOf[u] = WorkspaceOf[t]
                                /\ BaseRank[u] <= BaseRank[t]})

\* Mutation: the queue's own order alone, as before the turns.
PrecedesByBaseOrder(t, u) == BaseRank[t] < BaseRank[u]

\* Lexicographic: position in the workspace, the workspace's turn (never served
\* first), the queue's own order.
Precedes(t, u) ==
  LET ct == cursor[WorkspaceOf[t]]
      cu == cursor[WorkspaceOf[u]]
  IN \/ Position(t) < Position(u)
     \/ /\ Position(t) = Position(u)
        /\ \/ ct < cu
           \/ ct = cu /\ BaseRank[t] < BaseRank[u]

\* FOR UPDATE SKIP LOCKED and LIMIT: the first rows nobody else locked.
FreeRows == eligible \ LockedRows
Chosen(limit) ==
  {t \in FreeRows :
     Cardinality({u \in FreeRows : Precedes(u, t)}) < limit}

\* The workspace's turn could come: its first row is there to be taken.
Waits(w) ==
  \E t \in FreeRows : WorkspaceOf[t] = w /\ Position(t) = 1

Served(tasks) == {WorkspaceOf[t] : t \in tasks}

\* History, when claim c commits: it served some and passed some by.
Bypassed(c) ==
  [w \in Workspaces |-> [v \in Workspaces |->
     IF w \notin passed[c] \/ ~Waits(w) THEN 0
     ELSE IF v \in Served(picked[c]) /\ bypass[w][v] < BypassBound
            THEN bypass[w][v] + 1
            ELSE bypass[w][v]]]

-----------------------------------------------------------------------------
\* One claim

Stamps == ({cursor[w] : w \in Workspaces} \cup {now[c] : c \in Claimers}) \ {0}
Renumbered(x) == Cardinality({y \in Stamps : y <= x})

ReadClock(c) ==
  /\ pc[c] = "idle"
  /\ pc' = [pc EXCEPT ![c] = "ready"]
  /\ now' = [d \in Claimers |->
               IF d = c THEN Cardinality(Stamps) + 1 ELSE Renumbered(now[d])]
  /\ cursor' = [w \in Workspaces |-> Renumbered(cursor[w])]
  /\ UNCHANGED <<eligible, picked, turnLock, history>>

TakeRows(c) ==
  /\ pc[c] = "ready"
  /\ \E limit \in Limits :
       /\ picked' = [picked EXCEPT ![c] = Chosen(limit)]
       /\ passed' = [passed EXCEPT ![c] =
                       {w \in Workspaces : Waits(w)} \ Served(Chosen(limit))]
  /\ pc' = [pc EXCEPT ![c] = "turning"]
  /\ UNCHANGED <<eligible, cursor, now, turnLock, bypass>>

TurnsLeft(c) == {w \in Served(picked[c]) : turnLock[w] # c}

\* Mutation: the cursor rows in any order.
AnyTurn(c) == TurnsLeft(c)

\* The upsert goes through its rows in the order of the sorted ids.
NextTurn(c) ==
  {w \in TurnsLeft(c) : \A v \in TurnsLeft(c) : TurnRank[w] <= TurnRank[v]}

\* Locks the cursor row, new or old, until the commit.
TakeTurn(c) ==
  /\ pc[c] = "turning"
  /\ \E w \in NextTurn(c) :
       /\ turnLock[w] = NoOne
       /\ turnLock' = [turnLock EXCEPT ![w] = c]
  /\ UNCHANGED <<eligible, cursor, pc, now, picked, history>>

EndClaim(c, phase) ==
  /\ pc' = [pc EXCEPT ![c] = phase]
  /\ now' = [now EXCEPT ![c] = 0]
  /\ picked' = [picked EXCEPT ![c] = {}]
  /\ turnLock' = [w \in Workspaces |->
                    IF turnLock[w] = c THEN NoOne ELSE turnLock[w]]
  /\ passed' = [passed EXCEPT ![c] = {}]

\* Mutation: the turn is not moved.
TurnForgotten(c, w) == cursor[w]

\* greatest(last_claimed_at, now)
Turn(c, w) == IF cursor[w] > now[c] THEN cursor[w] ELSE now[c]

Commit(c) ==
  /\ pc[c] = "turning"
  /\ TurnsLeft(c) = {}
  /\ eligible' = eligible \ picked[c]
  /\ cursor' = [w \in Workspaces |->
                  IF w \in Served(picked[c]) THEN Turn(c, w) ELSE cursor[w]]
  /\ bypass' = Bypassed(c)
  /\ EndClaim(c, "idle")

-----------------------------------------------------------------------------
\* The environment

\* A claimer dies; another one polls on.  What it did not commit is undone.
Die(c) ==
  /\ pc[c] # "dead"
  /\ \E d \in Claimers \ {c} : pc[d] # "dead"
  /\ EndClaim(c, "dead")
  /\ UNCHANGED <<eligible, cursor, bypass>>

\* A task is planned, becomes due, is retried or swept.
BecomeEligible(t) ==
  /\ t \notin eligible
  /\ eligible' = eligible \cup {t}
  /\ UNCHANGED <<cursor, claimVars, history>>

\* A waiting task is cancelled: cancel() locks the row first.
Withdraw(t) ==
  /\ t \in FreeRows
  /\ eligible' = eligible \ {t}
  /\ UNCHANGED <<cursor, claimVars, history>>

ClaimStep(c) == ReadClock(c) \/ TakeRows(c) \/ TakeTurn(c) \/ Commit(c)

Next ==
  \/ \E c \in Claimers : ClaimStep(c) \/ Die(c)
  \/ \E t \in Tasks : BecomeEligible(t) \/ Withdraw(t)

Spec == Init /\ [][Next]_vars

\* A live worker polls and a lock that is waited for is granted in the order
\* of arrival.
Fairness ==
  \A c \in Claimers :
    WF_vars(ReadClock(c) \/ TakeRows(c) \/ Commit(c)) /\ SF_vars(TakeTurn(c))

FairSpec == Spec /\ Fairness

-----------------------------------------------------------------------------
\* Properties

\* While a workspace's first task is there to be taken, another workspace is
\* served before it fewer than two times per worker: a claim takes the least
\* recently served first, and what another may get ahead is what claims in
\* flight took before its turn was moved, and what claims that read their clock
\* before the workspace's last turn moved it to.
BoundedBypass ==
  \A v, w \in Workspaces : bypass[w][v] < 2 * Cardinality(Claimers)

\* No claim is under way for good: they never wait for each other in a circle,
\* whatever workspaces their batches share ("the cursor upsert below is conflict-safe").
ClaimsEnd ==
  \A c \in Claimers : []<>(pc[c] # "turning")

\* No tenant starves: a workspace that has tasks again and again is claimed from
\* again and again, however much the others have queued and with what priority.
WorkspacesServed ==
  \A w \in Workspaces :
    (<>[](\E t \in eligible : WorkspaceOf[t] = w)) =>
      []<><<\E c \in Claimers : Commit(c) /\ w \in Served(picked[c])>>_vars
=============================================================================
