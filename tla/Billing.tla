------------------------------- MODULE Billing -------------------------------
(***************************************************************************)
(* The purchases of one billing account: the idempotent intent that opens a *)
(* hosted checkout (src/backend/app/domain/billing/idempotency.py), the      *)
(* activation that turns a payment into grants (activations.py), and the two *)
(* authorities that call it, provider webhooks (webhooks.py) and the manual  *)
(* reconciliation sweep (reconciliation.py).                                 *)
(*                                                                         *)
(* A purchase is one Idempotency-Key.  A request, a delivered event and a    *)
(* sweep are sequences of transactions with provider calls between them, and *)
(* each may die there.  The provider is external: it numbers the states of   *)
(* what was bought, sends an event for each, in any order, more than once or *)
(* never, and answers with the latest when it is asked.  What it says and     *)
(* what was stored may come to disagree: the checks of identity, revision,    *)
(* price and amount then refuse a payment.  Every pending row is old enough    *)
(* for the sweep.  Scheduled cancellation, add-ons and signatures are left out. *)
(***************************************************************************)
EXTENDS Naturals, FiniteSets

CONSTANTS
  Purchases,
  BasePlans,      \* the purchases of a base subscription; the rest are top-ups
  Requests,
  PurchaseOf,     \* [Requests -> Purchases]: two requests may retry one key
  Handlers,       \* concurrent deliveries
  Casts,          \* the sets of requests and deliveries there may be
  BatchSize,      \* reconciliation_batch_size
  LastState,      \* bound: the states of a base subscription before its end
  Course,         \* [1 .. LastState -> Standing]
  MaxEvents       \* bound: uncertain or refused calls, failed reads, disagreements,
                  \* deaths

ASSUME PurchaseAssumption ==
  /\ IsFiniteSet(Purchases) /\ BasePlans \subseteq Purchases
  /\ PurchaseOf \in [Requests -> Purchases]
ASSUME ActorAssumption ==
  Requests \cap Handlers = {} /\ Casts \subseteq SUBSET (Requests \cup Handlers)
\* What RAZORPAY_STATUS_MAP makes of the states of a subscription that go on.
Standing == {"active", "past_due", "unpaid"}
ASSUME BoundAssumption ==
  /\ BatchSize \in Nat \ {0} /\ MaxEvents \in Nat
  /\ LastState \in Nat \ {0} /\ Course \in [1 .. LastState -> Standing]

VARIABLES
  intent,        \* [Purchases -> Intent]: the PendingActivation
  keyed,         \* the purchases whose IdempotencyRecord exists
  refused,       \* the purchases of which record and stored intent disagree
  claimed,       \* the purchases whose activation record exists
  subscription,  \* [BasePlans -> Subscription]
  bundles,       \* the issued grant bundles, a subset of Bundle
  revoked,       \* the revoked ones
  settlements,   \* history: [Purchases -> Nat], activations that were committed
  calls,         \* provider: [Purchases -> Nat], checkouts it was asked for
  remote,        \* provider: [Purchases -> Nat], the state of what was bought
  sent,          \* provider: the events of the states it went through
  recorded,      \* the events whose replay-protection row is committed
  pc, job,       \* the requests and handlers, and the event a handler has
  copy,          \* [Handlers -> Subscription]: the row as the handler loaded it
  batch, answer, \* the sweep: its claims, and the record it fetched
  events

intents == <<intent, keyed, refused>>
grants == <<claimed, subscription, bundles, revoked, settlements>>
provider == <<calls, remote, sent>>
handlers == <<recorded, job, copy>>
sweep == <<batch, answer>>
vars == <<intents, grants, provider, handlers, sweep, pc, events>>

TopUps == Purchases \ BasePlans
Actors == Requests \cup Handlers

\* 0: not paid.  1 .. LastState: as the course says.  Ended: failed or ended at once.
Ended == LastState + 1
Periods == {n \in 1 .. LastState : Course[n] = "active"}
\* The states that pay for a period.
Paid(p) == IF p \in BasePlans THEN Periods ELSE {1}

Event == [of : Purchases, state : 1 .. Ended]
NoEvent == [of |-> "none", state |-> 0]
Bundle == [of : Purchases, period : 1 .. LastState]
TheBundle(p, state) == [of |-> p, period |-> IF p \in BasePlans THEN state ELSE 1]

Claim == [of : Purchases, age : Nat, ref : BOOLEAN]
NoAnswer == 0

\* age orders the rows by created_at; 0 is no row.
Intent == [status : {"none", "pending", "activated", "failed", "abandoned"},
           age : 0 .. Cardinality(Purchases), ref : BOOLEAN]
NoIntent == [status |-> "none", age |-> 0, ref |-> FALSE]

\* version is provider_state_version, 0 where there is no row.
Subscription == [version : 0 .. Ended, live : BOOLEAN, current : BOOLEAN]
NoSubscription == [version |-> 0, live |-> FALSE, current |-> FALSE]

TypeOK ==
  /\ intent \in [Purchases -> Intent]
  /\ keyed = {p \in Purchases : intent[p].status # "none"}
  /\ claimed \subseteq keyed /\ refused \subseteq keyed
  /\ subscription \in [BasePlans -> Subscription]
  /\ bundles \subseteq Bundle /\ revoked \subseteq bundles
  /\ settlements \in [Purchases -> Nat]
  /\ calls \in [Purchases -> Nat] /\ remote \in [Purchases -> 0 .. Ended]
  /\ sent \subseteq Event /\ recorded \subseteq sent
  /\ pc \in [Actors -> {"absent", "idle", "insert", "call", "complete",
                        "refused", "dispatch", "activate", "apply"}]
  /\ job \in [Handlers -> Event \cup {NoEvent}]
  /\ copy \in [Handlers -> Subscription]
  /\ batch \subseteq Claim
  /\ answer \in 0 .. Ended /\ events \in 0 .. MaxEvents

Init ==
  /\ intent = [p \in Purchases |-> NoIntent] /\ keyed = {} /\ refused = {}
  /\ claimed = {} /\ bundles = {} /\ revoked = {}
  /\ subscription = [b \in BasePlans |-> NoSubscription]
  /\ settlements = [p \in Purchases |-> 0]
  /\ calls = [p \in Purchases |-> 0] /\ remote = [p \in Purchases |-> 0]
  /\ sent = {} /\ recorded = {}
  /\ job = [h \in Handlers |-> NoEvent]
  /\ copy = [h \in Handlers |-> NoSubscription]
  /\ \E cast \in Casts : pc = [a \in Actors |-> IF a \in cast THEN "idle" ELSE "absent"]
  /\ batch = {} /\ answer = NoAnswer /\ events = 0

-----------------------------------------------------------------------------
\* Helpers

Occurs == events < MaxEvents /\ events' = events + 1

GoTo(a, stage) == pc' = [pc EXCEPT ![a] = stage]

Pending(p) == intent[p].status = "pending"

SetStatus(p, status) == intent' = [intent EXCEPT ![p].status = status]

Current == {b \in BasePlans : subscription[b].current}

\* live_base_subscription
HasLiveBase == \E b \in Current : subscription[b].live

-----------------------------------------------------------------------------
\* The intent

\* The route's own guard: one base subscription, bought or being bought; a
\* top-up needs a live one.
MayBuy(p) ==
  IF p \in BasePlans THEN Current = {} /\ \A b \in BasePlans : ~Pending(b)
  ELSE HasLiveBase

\* A new key passes the checks; replay_intent answers a known one before them.  A client
\* may send a request that has ended again.
Check(r) ==
  /\ pc[r] = "idle" /\ PurchaseOf[r] \notin keyed /\ MayBuy(PurchaseOf[r])
  /\ GoTo(r, "insert")
  /\ UNCHANGED <<intents, grants, provider, handlers, sweep, events>>

\* The unique key, and the one pending slot of the base plans.
SlotTaken(p) ==
  \/ p \in keyed
  \/ p \in BasePlans /\ \E b \in BasePlans : Pending(b)

\* Mutation: the loser of the insert race calls the provider as well.
InsertsOrCalls(r) ==
  LET p == PurchaseOf[r]
  IN /\ pc[r] = "insert"
     /\ IF SlotTaken(p) THEN UNCHANGED intents
        ELSE /\ keyed' = keyed \cup {p}
             /\ intent' = [intent EXCEPT ![p] =
                  [status |-> "pending", age |-> Cardinality(keyed) + 1,
                   ref |-> FALSE]]
     /\ GoTo(r, "call")
     /\ UNCHANGED <<refused, grants, provider, handlers, sweep, events>>

\* _insert_intent commits the record and the pending row, or loses to the
\* transaction that holds the key or the slot.
Inserts(r) ==
  LET p == PurchaseOf[r]
  IN /\ pc[r] = "insert"
     /\ IF SlotTaken(p) THEN GoTo(r, "idle") /\ UNCHANGED intents
        ELSE /\ keyed' = keyed \cup {p}
             /\ intent' = [intent EXCEPT ![p] =
                  [status |-> "pending", age |-> Cardinality(keyed) + 1,
                   ref |-> FALSE]]
             /\ GoTo(r, "call")
     /\ UNCHANGED <<refused, grants, provider, handlers, sweep, events>>

\* The provider opens a checkout, refuses, or leaves the outcome uncertain.
Calls(r) ==
  /\ pc[r] = "call"
  /\ calls' = [calls EXCEPT ![PurchaseOf[r]] = @ + 1]
  /\ \/ GoTo(r, "complete") /\ UNCHANGED events
     \/ Occurs /\ \E stage \in {"refused", "idle"} : GoTo(r, stage)
  /\ UNCHANGED <<intents, grants, remote, sent, handlers, sweep>>

\* _complete stores the hosted reference, or the authoritative refusal.
Completes(r) ==
  /\ pc[r] \in {"complete", "refused"}
  /\ IF pc[r] = "complete"
     THEN intent' = [intent EXCEPT ![PurchaseOf[r]].ref = TRUE]
     ELSE SetStatus(PurchaseOf[r], "failed")
  /\ GoTo(r, "idle")
  /\ UNCHANGED <<keyed, refused, grants, provider, handlers, sweep, events>>

RequestDies(r) ==
  /\ pc[r] \in {"call", "complete", "refused"} /\ Occurs
  /\ GoTo(r, "idle")
  /\ UNCHANGED <<intents, grants, provider, handlers, sweep>>

-----------------------------------------------------------------------------
\* The shared activation

\* Mutation: any record of the provider authorizes.
AuthorizesAny(p, state) == TRUE

\* _verify_identity, _verify_payment, _verify_subscription: the record is of this
\* intent, and says it is paid.
Authorizes(p, state) == state \in Paid(p) /\ p \notin refused

\* Mutation: a second activation is not recognised.
ClaimsAgain(p) == TRUE

\* _claim_activation: the activation record is created once.
ClaimsActivation(p) == p \notin claimed

\* A base subscription is opened or projected, a top-up needs a live one; a
\* row the account cannot hold aborts the transaction.
MaySettle(p) == IF p \in BasePlans THEN Current \subseteq {p} ELSE HasLiveBase

\* The tail of activate_pending, once the caller believes the row is pending:
\* the record is claimed, the subscription written and its bundle issued.
Settles(p, state) ==
  /\ claimed' = claimed \cup {p}
  /\ settlements' = [settlements EXCEPT ![p] = @ + 1]
  /\ IF p \in BasePlans
     THEN subscription' = [subscription EXCEPT ![p] =
            [version |-> state, live |-> TRUE, current |-> TRUE]]
     ELSE UNCHANGED subscription
  /\ bundles' = bundles \cup {TheBundle(p, state)}
  /\ SetStatus(p, "activated")
  /\ UNCHANGED <<keyed, refused, revoked>>

\* An error other than a rejection: nothing catches it.
Aborts(p) ==
  /\ Pending(p) /\ Authorizes(p, answer)
  /\ ClaimsActivation(p) /\ ~MaySettle(p)

\* activate_pending of a row that was read as pending.
Activates(p, state) ==
  IF Authorizes(p, state) /\ ClaimsActivation(p) /\ MaySettle(p)
  THEN Settles(p, state) ELSE UNCHANGED <<intents, grants>>

-----------------------------------------------------------------------------
\* Webhooks

\* The replay-protection row is committed before anything is done: a repeated
\* delivery stops here, whatever became of the first.
Receives(h, e) ==
  /\ pc[h] = "idle" /\ e \in sent \ recorded
  /\ recorded' = recorded \cup {e}
  /\ job' = [job EXCEPT ![h] = e]
  /\ GoTo(h, "dispatch")
  /\ UNCHANGED <<intents, grants, provider, copy, sweep, events>>

HasSubscription(p) == p \in BasePlans /\ subscription[p].version # 0

Ends(h) ==
  /\ GoTo(h, "idle")
  /\ job' = [job EXCEPT ![h] = NoEvent]
  /\ copy' = [copy EXCEPT ![h] = NoSubscription]

\* An event goes to the subscription it names, else to a pending row with that
\* reference; a match of neither is recorded and does nothing.
Dispatches(h) ==
  LET p == job[h].of
  IN /\ pc[h] = "dispatch"
     /\ \/ /\ HasSubscription(p)
           /\ copy' = [copy EXCEPT ![h] = subscription[p]]
           /\ GoTo(h, "apply") /\ UNCHANGED job
        \/ /\ ~HasSubscription(p) /\ Pending(p) /\ intent[p].ref
           /\ GoTo(h, "activate") /\ UNCHANGED <<job, copy>>
        \/ /\ ~HasSubscription(p) /\ ~(Pending(p) /\ intent[p].ref)
           /\ Ends(h)
     /\ UNCHANGED <<intents, grants, provider, recorded, sweep, events>>

\* The locked read returns the row this session loaded, status included: of an
\* activation that happened meanwhile only the claim tells.
HandlerActivates(h) ==
  /\ pc[h] = "activate"
  /\ Activates(job[h].of, job[h].state)
  /\ Ends(h)
  /\ UNCHANGED <<provider, recorded, sweep, events>>

\* The states of LIVE_SUBSCRIPTION_STATUSES.
LiveStates == {n \in 1 .. LastState : Course[n] # "unpaid"}

\* accept_subscription_event on the row as it was loaded; an update writes the
\* attributes that differ from it.
Projected(row, loaded, state) ==
  LET ended == state = Ended
      wanted == [version |-> IF state > loaded.version THEN state ELSE loaded.version,
                 live |-> state \in LiveStates,
                 current |-> loaded.current /\ ~ended]
  IN [field \in DOMAIN row |->
        IF wanted[field] = loaded[field] THEN row[field] ELSE wanted[field]]

\* apply_subscription_state: a stale event changes nothing, a paid period gets
\* its bundle once, an ended subscription has its bundles revoked.
HandlerApplies(h) ==
  LET p == job[h].of
      state == job[h].state
  IN /\ pc[h] = "apply"
     /\ IF state < copy[h].version THEN UNCHANGED grants
        ELSE /\ subscription' = [subscription EXCEPT ![p] = Projected(@, copy[h], state)]
             /\ bundles' = bundles \cup
                  (IF state \in Periods THEN {TheBundle(p, state)} ELSE {})
             /\ revoked' = revoked \cup
                  (IF state = Ended THEN {b \in bundles : b.of = p} ELSE {})
             /\ UNCHANGED <<claimed, settlements>>
     /\ Ends(h)
     /\ UNCHANGED <<intents, provider, recorded, sweep, events>>

HandlerDies(h) ==
  /\ pc[h] \in {"dispatch", "activate", "apply"} /\ Occurs
  /\ Ends(h)
  /\ UNCHANGED <<intents, grants, provider, recorded, sweep>>

-----------------------------------------------------------------------------
\* The reconciliation sweep

\* The pending rows that are claimed before a purchase's.
Ahead(p) == {q \in Purchases : Pending(q) /\ intent[q].age < intent[p].age}

\* Mutation: a claim does not carry the provider's reference.
ClaimsWithoutReference ==
  /\ batch = {} /\ \E p \in Purchases : Pending(p)
  /\ batch' = {[of |-> p, age |-> intent[p].age, ref |-> FALSE] :
                 p \in {q \in Purchases : Pending(q) /\ Cardinality(Ahead(q)) < BatchSize}}
  /\ UNCHANGED <<intents, grants, provider, handlers, answer, pc, events>>

\* _claim_batch reads the oldest pending rows, as many as fit, and commits.
Claims ==
  /\ batch = {} /\ \E p \in Purchases : Pending(p)
  /\ batch' = {[of |-> p, age |-> intent[p].age, ref |-> intent[p].ref] :
                 p \in {q \in Purchases : Pending(q) /\ Cardinality(Ahead(q)) < BatchSize}}
  /\ UNCHANGED <<intents, grants, provider, handlers, answer, pc, events>>

\* The claim at hand: the oldest.
Head == CHOOSE c \in batch : \A d \in batch : c.age <= d.age

\* No request still has the purchase in hand: the abandon window is longer.
Unattended(p) ==
  \A r \in Requests : PurchaseOf[r] = p => pc[r] \notin {"call", "complete", "refused"}

\* _mark_terminal, under the row's lock.
MarksTerminal(p, status) ==
  IF Pending(p) THEN SetStatus(p, status) ELSE UNCHANGED intent

\* Without a reference there is nothing to ask, and a read may be refused for
\* good: the row is abandoned in time.
FindsNothing ==
  /\ batch # {} /\ answer = NoAnswer
  /\ IF Head.ref THEN Occurs ELSE UNCHANGED events
  /\ batch' = batch \ {Head}
  /\ \/ /\ Unattended(Head.of) /\ intent[Head.of].ref = Head.ref
        /\ MarksTerminal(Head.of, "abandoned")
     \/ UNCHANGED intent
  /\ UNCHANGED <<keyed, refused, grants, provider, handlers, answer, pc>>

\* What the provider says neither settles the purchase nor ends it: it is not paid yet,
\* or its subscription is past due or unpaid.
Undecided(p) == remote[p] \notin Paid(p) \cup {Ended}

\* The read fails, or decides nothing.
StillPending ==
  /\ batch # {} /\ Head.ref /\ answer = NoAnswer
  /\ \/ Undecided(Head.of) /\ UNCHANGED events
     \/ Occurs
  /\ batch' = batch \ {Head}
  /\ UNCHANGED <<intents, grants, provider, handlers, answer, pc>>

Fetches ==
  /\ batch # {} /\ Head.ref /\ answer = NoAnswer
  /\ ~Undecided(Head.of)
  /\ answer' = remote[Head.of]
  /\ UNCHANGED <<intents, grants, provider, handlers, batch, pc, events>>

\* A payment that is refused leaves the row pending; a conflict is not caught: it takes
\* the rest of the batch with it.
Reconciles ==
  LET p == Head.of
  IN /\ answer # NoAnswer
     /\ \/ answer = Ended /\ MarksTerminal(p, "failed") /\ UNCHANGED <<keyed, refused, grants>>
        \/ answer # Ended /\ Pending(p) /\ Activates(p, answer)
        \/ answer # Ended /\ ~Pending(p) /\ UNCHANGED <<intents, grants>>
     /\ batch' = IF Aborts(p) THEN {} ELSE batch \ {Head}
     /\ answer' = NoAnswer
     /\ UNCHANGED <<provider, handlers, pc, events>>

SweepDies ==
  /\ batch # {} /\ Occurs
  /\ batch' = {} /\ answer' = NoAnswer
  /\ UNCHANGED <<intents, grants, provider, handlers, pc>>

-----------------------------------------------------------------------------
\* The provider, and the specification

\* A checkout that was handed out is paid, fails, is renewed, falls due, or ends.
Advances(p) ==
  /\ intent[p].ref /\ remote[p] # Ended
  /\ \E state \in {remote[p] + 1, Ended} :
       /\ p \in TopUps => remote[p] = 0 /\ state \in Paid(p) \cup {Ended}
       /\ remote' = [remote EXCEPT ![p] = state]
       /\ sent' = sent \cup {[of |-> p, state |-> state]}
  /\ UNCHANGED <<intents, grants, calls, handlers, sweep, pc, events>>

\* The catalog is revised, or the record names another intent, account, price or amount.
Disagrees(p) ==
  /\ Pending(p) /\ p \notin refused /\ Occurs
  /\ refused' = refused \cup {p}
  /\ UNCHANGED <<intent, keyed, grants, provider, handlers, sweep, pc>>

RequestStep(r) == Inserts(r) \/ Calls(r) \/ Completes(r)
HandlerStep(h) == Dispatches(h) \/ HandlerActivates(h) \/ HandlerApplies(h)
SweepStep == Claims \/ FindsNothing \/ StillPending \/ Fetches \/ Reconciles

Next ==
  \/ \E r \in Requests : Check(r) \/ RequestStep(r) \/ RequestDies(r)
  \/ \E h \in Handlers :
       (\E e \in Event : Receives(h, e)) \/ HandlerStep(h) \/ HandlerDies(h)
  \/ SweepStep \/ SweepDies
  \/ \E p \in Purchases : Advances(p) \/ Disagrees(p)

Spec == Init /\ [][Next]_vars

\* The operator runs the sweep again and again.  Nobody has to pay, no event has to be
\* delivered, and no request or delivery has to end.
FairSpec == Spec /\ WF_vars(SweepStep)
-----------------------------------------------------------------------------
\* Properties

\* Webhooks and sweeps that meet on one purchase settle it once: one activation
\* record, one subscription, one bundle.
OneSettlement == \A p \in Purchases : settlements[p] <= 1

\* Every bundle was paid for: the provider went through the state that buys it.
GrantsRestOnPayment ==
  \A b \in bundles :
    \E e \in sent : /\ e.of = b.of /\ e.state \in Paid(b.of)
                    /\ TheBundle(e.of, e.state) = b

\* However often a key is retried, and whoever dies, the provider is asked for
\* its checkout once.
ProviderCalledOnce == \A p \in Purchases : calls[p] <= 1

\* A paid purchase whose settlement aborts the sweep.
Aborting(p) ==
  Pending(p) /\ remote[p] \in Paid(p) /\ p \notin refused /\ ~MaySettle(p)

\* The sweeps do not get as far as a purchase: others fill the batch, or abort it.
OutOfReach(p) ==
  \/ Cardinality(Ahead(p)) >= BatchSize
  \/ \E q \in Ahead(p) \cup {p} : Aborting(q)

\* A purchase the provider decided, and whose payment is not refused, is settled or
\* closed by the sweeps even if no webhook ever arrives, unless they do not get as far
\* as it; only a read the provider refuses for good abandons it.
PaidIsSettled ==
  []<>(\A p \in Purchases :
         (/\ Pending(p) /\ intent[p].ref /\ ~Undecided(p)
          /\ p \in refused => remote[p] = Ended)
         => OutOfReach(p))

\* domain/billing/reconciliation.py:3-4: "Without this, ONE missed webhook leaves
\* a paying customer with no grants and no recovery path".  Violated: the sweeps leave
\* a paid purchase pending that the checks refuse, whose subscription has fallen due
\* since, that is behind a full batch of such purchases, or behind one that aborts it.
PaidIsRecovered ==
  \A p \in Purchases :
    (Pending(p) /\ \E e \in sent : e.of = p /\ e.state \in Paid(p)) ~> ~Pending(p)

\* domain/billing/service.py:173-174: provider_state_version "rejects stale events
\* for this subscription".  Violated: two concurrent deliveries each compare
\* with the version their session loaded before the lock.
StaleEventsRejected ==
  [][\A b \in BasePlans :
       subscription'[b].version >= subscription[b].version]_vars

\* domain/billing/service.py:290: immediate loss revokes the grants.  Violated:
\* the older event issues its period's bundle after the end was applied.
EndedGrantsAreRevoked ==
  \A b \in BasePlans :
    subscription[b].version # 0 /\ ~subscription[b].current =>
      {u \in bundles : u.of = b} \subseteq revoked

\* A delivered end is applied.  Violated: it arrives while the activation is
\* being committed, matches neither a subscription nor a pending row, and the
\* recorded delivery is never repeated.
EndIsApplied ==
  \A b \in BasePlans :
    (/\ [of |-> b, state |-> Ended] \in recorded
     /\ \A h \in Handlers : pc[h] \in {"absent", "idle"}
     /\ subscription[b].version # 0) => ~subscription[b].current

\* domain/billing/service.py:842-847: a pending row "blocks a second base
\* purchase".  Violated: the second request checked before the first began, and
\* inserted after it had been paid.
OneBasePurchase ==
  Cardinality({b \in BasePlans : Pending(b) \/ subscription[b].current}) <= 1
=============================================================================
