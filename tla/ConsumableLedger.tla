-------------------------- MODULE ConsumableLedger --------------------------
(***************************************************************************)
(* The ledger of prepaid credits: reserve, bill, release                   *)
(* (src/backend/app/domain/entitlements/ledger.py) and the transactions     *)
(* that call it, from the audit planner and the audit worker.              *)
(*                                                                         *)
(* Rows are only ever appended; what the code reads are sums of them, so    *)
(* the state is those sums.  Every operation first reads and then appends,  *)
(* at READ COMMITTED: what keeps two of them apart is a row lock of the     *)
(* caller, never one of the ledger.  A settlement is therefore two actions, *)
(* and MaySettle says which locks the callers hold.  A reservation waits    *)
(* for the locks of the account's grants.                                  *)
(*                                                                         *)
(* One account and one capability; a task has one reservation.  A planner's *)
(* transaction reserves one task here: the tasks of one audit are reserved  *)
(* under the same locks.                                                   *)
(***************************************************************************)
EXTENDS Integers, Sequences, FiniteSets, Functions

CONSTANTS
  Tasks,
  Planners,
  Grants,
  DrawOrder,     \* Seq(Grants): ordered_consumable_grants
  Value,         \* [Grants -> Nat]
  MaxAttempts,   \* the units a task reserves
  Free, NoTask, NoTx

ASSUME GrantAssumption ==
  /\ IsFiniteSet(Tasks)
  /\ DrawOrder \in Seq(Grants)
  /\ \A g \in Grants : \E i \in DOMAIN DrawOrder : DrawOrder[i] = g
  /\ Value \in [Grants -> Nat]
  /\ MaxAttempts \in Nat \ {0}
  /\ Free \notin Planners /\ NoTask \notin Tasks
  /\ NoTx \notin [Grants -> Int]

VARIABLES
  active,     \* SUBSET Grants: not expired and not revoked
  status,     \* [Tasks -> Status]
  reserved,   \* [Tasks -> [Grants -> Nat]]: sums of the reservation rows,
  released,   \* ... of the release rows
  debited,    \* ... and of the debit rows
  keys,       \* [Tasks -> SUBSET (Triggers \X Grants)]: idempotency keys in use
  lock,       \* [Grants -> Planners \cup {Free}]: FOR UPDATE on the grant row
  planning,   \* [Planners -> Tasks \cup {NoTask}]
  seenBalance,\* [Planners -> [Grants -> Int]]: read once the locks are held
  tx,         \* [Tasks -> [Settlers -> [Grants -> Int] \cup {NoTx}]]: the
              \* outstanding units a settlement has read and not yet settled
  overlapped  \* history: tasks a boundary and a janitor settled at the same time

sums == <<reserved, released, debited, keys>>
planVars == <<lock, planning, seenBalance>>
vars == <<active, status, sums, planVars, tx, overlapped>>

\* "ended" is a terminal queue row; a task that is "byok" or "refused" has
\* nothing reserved.
Status == {"planned", "open", "ended", "byok", "refused"}

\* Who settles a task: its executor's persisted attempt (under the task's row
\* lock), a slot at its boundary (under the audit's: it does not look whether the
\* task is still its own, or over), a cancel request (under both), and the crash or
\* sweep release of a terminal task (under none).
Settlers == {"executor", "boundary", "canceller", "janitor"}
Trigger == [x \in Settlers |->
  CASE x = "executor" \/ x = "boundary" -> "unused"
    [] x = "canceller" -> "cancel"
    [] OTHER -> "janitor"]
Triggers == {"unused", "cancel", "janitor"}

Nothing == [g \in Grants |-> 0]
Amounts == [Grants -> Nat]

TypeOK ==
  /\ active \in SUBSET Grants
  /\ status \in [Tasks -> Status]
  /\ reserved \in [Tasks -> Amounts]
  /\ released \in [Tasks -> Amounts]
  /\ debited \in [Tasks -> Amounts]
  /\ keys \in [Tasks -> SUBSET (Triggers \X Grants)]
  /\ lock \in [Grants -> Planners \cup {Free}]
  /\ planning \in [Planners -> Tasks \cup {NoTask}]
  /\ seenBalance \in [Planners -> [Grants -> Int]]
  /\ tx \in [Tasks -> [Settlers -> [Grants -> Int] \cup {NoTx}]]
  /\ overlapped \in SUBSET Tasks

Init ==
  /\ active = Grants
  /\ status = [t \in Tasks |-> "planned"]
  /\ reserved = [t \in Tasks |-> Nothing]
  /\ released = [t \in Tasks |-> Nothing]
  /\ debited = [t \in Tasks |-> Nothing]
  /\ keys = [t \in Tasks |-> {}]
  /\ lock = [g \in Grants |-> Free]
  /\ planning = [p \in Planners |-> NoTask]
  /\ seenBalance = [p \in Planners |-> Nothing]
  /\ tx = [t \in Tasks |-> [x \in Settlers |-> NoTx]]
  /\ overlapped = {}

Total(m, g) == SumFunction([t \in Tasks |-> m[t][g]])
UnitsOf(a) == SumFunction(a)

\* _grant_balances
Balance(g) == Value[g] - Total(reserved, g) + Total(released, g) - Total(debited, g)

\* _reservation_state
Outstanding(t) == [g \in Grants |-> reserved[t][g] - released[t][g]]

SmallerOf(a, b) == IF a <= b THEN a ELSE b
LargerOf(a, b) == IF a >= b THEN a ELSE b

-----------------------------------------------------------------------------
\* reserve_funded_task

\* Mutation: the grants are read without their row locks.
BeginReserveUnlocked(p, t) ==
  /\ planning[p] = NoTask
  /\ status[t] = "planned"
  /\ \A q \in Planners : planning[q] # t
  /\ lock' = [g \in Grants |-> IF g \in active THEN p ELSE lock[g]]
  /\ planning' = [planning EXCEPT ![p] = t]
  /\ seenBalance' = [seenBalance EXCEPT ![p] =
       [g \in Grants |-> IF g \in active THEN Balance(g) ELSE 0]]
  /\ UNCHANGED <<active, status, sums, tx, overlapped>>

\* _active_grants_in_draw_order and _grant_balances: every active grant is
\* locked before the balances are read.
BeginReserve(p, t) ==
  /\ planning[p] = NoTask
  /\ status[t] = "planned"
  /\ \A q \in Planners : planning[q] # t
  /\ \A g \in active : lock[g] = Free
  /\ lock' = [g \in Grants |-> IF g \in active THEN p ELSE lock[g]]
  /\ planning' = [planning EXCEPT ![p] = t]
  /\ seenBalance' = [seenBalance EXCEPT ![p] =
       [g \in Grants |-> IF g \in active THEN Balance(g) ELSE 0]]
  /\ UNCHANGED <<active, status, sums, tx, overlapped>>

\* The units drawn from each grant, in draw order, until MaxAttempts are found.
Draw(balance) ==
  LET before[i \in 0 .. Len(DrawOrder)] ==
        IF i = 0 THEN 0
        ELSE SmallerOf(MaxAttempts,
                       before[i - 1] + LargerOf(0, balance[DrawOrder[i]]))
  IN [g \in Grants |->
       LET i == CHOOSE i \in DOMAIN DrawOrder : DrawOrder[i] = g
       IN before[i] - before[i - 1]]

\* Commit: refused and rolled back, funded, or released in the same transaction
\* because the tenant's own key serves the task.
CommitReserve(p) ==
  LET t == planning[p]
      drawn == Draw(seenBalance[p])
  IN /\ t # NoTask
     /\ IF UnitsOf(drawn) < MaxAttempts
          THEN /\ status' = [status EXCEPT ![t] = "refused"]
               /\ UNCHANGED <<reserved, released>>
          ELSE /\ reserved' = [reserved EXCEPT ![t] = drawn]
               /\ \/ /\ status' = [status EXCEPT ![t] = "open"]
                     /\ UNCHANGED released
                  \/ /\ status' = [status EXCEPT ![t] = "byok"]
                     /\ released' = [released EXCEPT ![t] = drawn]
     /\ lock' = [g \in Grants |-> IF lock[g] = p THEN Free ELSE lock[g]]
     /\ planning' = [planning EXCEPT ![p] = NoTask]
     /\ seenBalance' = [seenBalance EXCEPT ![p] = Nothing]
     /\ UNCHANGED <<active, debited, keys, tx, overlapped>>

-----------------------------------------------------------------------------
\* Settlements: record_billable_attempt, release_unused_reservation

Idle(t, x) == tx[t][x] = NoTx

\* Mutation: the cancel request does not wait for the executor's row lock.
MaySettleUnlocked(t, x) ==
  IF x = "janitor" THEN status[t] = "ended" ELSE status[t] = "open"

\* The callers' locks.  An executor holds the task's row, a boundary the audit's,
\* and each needs the other's for the foreign keys of the rows it appends: one of
\* the two is rolled back as a deadlock victim before both can commit.
MaySettle(t, x) ==
  CASE x = "executor" ->
         status[t] = "open" /\ Idle(t, "canceller") /\ Idle(t, "boundary")
    [] x = "boundary" ->
         /\ status[t] \in {"open", "ended"}
         /\ Idle(t, "canceller") /\ Idle(t, "executor")
    [] x = "canceller" ->
         status[t] = "open" /\ Idle(t, "executor") /\ Idle(t, "boundary")
    [] x = "janitor" -> status[t] = "ended"

BeginSettle(t, x) ==
  /\ Idle(t, x)
  /\ MaySettle(t, x)
  /\ tx' = [tx EXCEPT ![t][x] = Outstanding(t)]
  /\ overlapped' =
       IF {x} \cup {y \in Settlers : ~Idle(t, y)} = {"boundary", "janitor"}
         THEN overlapped \cup {t} ELSE overlapped
  /\ UNCHANGED <<active, status, sums, planVars>>

EndTx(t, x) == tx' = [tx EXCEPT ![t][x] = NoTx]

\* release_terminal_funded_task appends one row per grant with outstanding
\* units, each under the caller's key: a key in use fails the transaction.
ReleaseRows(units) == {g \in Grants : units[g] > 0}
KeysFor(x, units) == {<<Trigger[x], g>> : g \in ReleaseRows(units)}
KeysFree(t, x, units) == KeysFor(x, units) \cap keys[t] = {}

SettleRelease(t, x) ==
  /\ x # "executor"
  /\ ~Idle(t, x)
  /\ x = "janitor" => Idle(t, "boundary")    \* its rows wait for the audit row
  /\ KeysFree(t, x, tx[t][x])
  /\ released' = [released EXCEPT ![t] =
       [g \in Grants |-> @[g] + LargerOf(0, tx[t][x][g])]]
  /\ keys' = [keys EXCEPT ![t] = @ \cup KeysFor(x, tx[t][x])]
  /\ status' = IF x = "canceller" THEN [status EXCEPT ![t] = "ended"] ELSE status
  /\ EndTx(t, x)
  /\ UNCHANGED <<active, reserved, debited, planVars, overlapped>>

\* One unit moves from reserved to consumed, on the first grant in draw order
\* that has one; a terminal attempt then reads again and releases the rest, in
\* the same transaction.
SettleBill(t) ==
  LET units == tx[t]["executor"]
  IN /\ ~Idle(t, "executor")
     /\ \E i \in DOMAIN DrawOrder :
          LET g == DrawOrder[i]
              rest == [Outstanding(t) EXCEPT ![g] = @ - 1]
          IN /\ units[g] >= 1
             /\ \A j \in 1 .. i - 1 : units[DrawOrder[j]] < 1
             /\ debited' = [debited EXCEPT ![t][g] = @ + 1]
             /\ \/ /\ released' = [released EXCEPT ![t][g] = @ + 1]
                   /\ UNCHANGED keys
                \/ /\ KeysFree(t, "executor", rest)
                   /\ released' = [released EXCEPT ![t] =
                        [h \in Grants |-> @[h] + LargerOf(0, rest[h])
                                          + (IF h = g THEN 1 ELSE 0)]]
                   /\ keys' = [keys EXCEPT ![t] =
                        @ \cup KeysFor("executor", rest)]
     /\ EndTx(t, "executor")
     /\ UNCHANGED <<active, status, reserved, planVars, overlapped>>

\* Nothing outstanding to bill, a key in use, a crash: the transaction rolls back.
RollBack(t, x) ==
  /\ ~Idle(t, x)
  /\ EndTx(t, x)
  /\ UNCHANGED <<active, status, sums, planVars, overlapped>>

-----------------------------------------------------------------------------
\* The queue makes the row terminal; it needs the task's row lock, which a slot at
\* its boundary does not hold.
End(t) ==
  /\ status[t] = "open"
  /\ Idle(t, "executor") /\ Idle(t, "canceller")
  /\ status' = [status EXCEPT ![t] = "ended"]
  /\ UNCHANGED <<active, sums, planVars, tx, overlapped>>

Expire(g) ==
  /\ g \in active
  /\ active' = active \ {g}
  /\ UNCHANGED <<status, sums, planVars, tx, overlapped>>

Next ==
  \/ \E p \in Planners, t \in Tasks : BeginReserve(p, t)
  \/ \E p \in Planners : CommitReserve(p)
  \/ \E t \in Tasks, x \in Settlers :
       BeginSettle(t, x) \/ SettleRelease(t, x) \/ RollBack(t, x)
  \/ \E t \in Tasks : SettleBill(t) \/ End(t)
  \/ \E g \in Grants : Expire(g)

Spec == Init /\ [][Next]_vars

-----------------------------------------------------------------------------
\* Properties

\* What the locks of the settlers are good for: a unit is returned a second time only
\* when a boundary and the janitor settled the task at the same time, both having
\* found it reserved, and then once more and no further.
ReleasesAccounted ==
  \A t \in Tasks, g \in Grants :
    released[t][g] > reserved[t][g] =>
      /\ t \in overlapped
      /\ {<<"unused", g>>, <<"janitor", g>>} \subseteq keys[t]
      /\ released[t][g] <= 2 * reserved[t][g]

\* Whichever planners reserve, settle and expire at the same time, no reservation
\* takes more than the rows say is left, a settlement only ever turns units a task
\* had reserved on the same grant into consumed or free ones, and a grant none of
\* whose units was returned twice never has more of it consumed than it has.  (Units
\* that were, planners draw again: the balance they read holds them.)
NoOverdraft ==
  \A g \in Grants :
    /\ Balance(g) >= 0
    /\ \A t \in Tasks : debited[t][g] <= released[t][g]
    /\ (\A t \in Tasks : released[t][g] <= reserved[t][g])
         => Total(debited, g) <= Value[g]

-----------------------------------------------------------------------------
\* What the repository says of the releases and the code refutes

\* "exactly the still-reserved units are ever released": no two settlements of a
\* task return the same unit.
ReleasedOnce ==
  \A t \in Tasks, g \in Grants : released[t][g] <= reserved[t][g]

-----------------------------------------------------------------------------
\* Strengthening of ReleasesAccounted.  One settlement of a task is under way, or a
\* boundary's and the janitor's.  What it has read is what is outstanding, except that
\* the janitor may have read, of an overlapped task, what the boundary then returned.
Returned(t, g) ==
  /\ t \in overlapped
  /\ <<"unused", g>> \in keys[t]
  /\ released[t][g] = reserved[t][g]
  /\ tx[t]["janitor"][g] \in 0 .. reserved[t][g]

SettlementInv ==
  \A t \in Tasks :
    /\ \A x \in Settlers \ {"janitor"} : ~Idle(t, x) => tx[t][x] = Outstanding(t)
    /\ ~Idle(t, "janitor") =>
         \A g \in Grants :
           tx[t]["janitor"][g] = Outstanding(t)[g] \/ Returned(t, g)
    /\ \A x, y \in Settlers \ {"janitor"} : ~Idle(t, x) /\ ~Idle(t, y) => x = y
    /\ ~Idle(t, "janitor") => status[t] = "ended"
    /\ ~Idle(t, "boundary") => status[t] \in {"open", "ended"}
    /\ ~Idle(t, "boundary") /\ ~Idle(t, "janitor") => t \in overlapped
    /\ \A x \in {"executor", "canceller"} : ~Idle(t, x) => status[t] = "open"
    /\ status[t] = "planned" =>
         reserved[t] = Nothing /\ released[t] = Nothing
    /\ \A p \in Planners : planning[p] = t => status[t] = "planned"
    /\ \A g \in Grants : released[t][g] > reserved[t][g] => status[t] = "ended"
=============================================================================
