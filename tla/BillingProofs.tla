---------------------------- MODULE BillingProofs ----------------------------
(***************************************************************************)
(* TLAPS proofs about Billing, for any number of purchases, requests and    *)
(* deliveries, any course of the subscriptions, any batch size and any        *)
(* number of failures.                                                     *)
(***************************************************************************)
EXTENDS Billing, FiniteSetTheorems, TLAPS

\* Every nonempty family of subsets of a finite set has a minimal member.
LEMMA SmallestSet ==
  ASSUME NEW S, IsFiniteSet(S), NEW B \in SUBSET SUBSET S, B # {}
  PROVE  \E T \in B : \A U \in B : U \subseteq T => U = T
<1>1. FiniteSubsetsOf(S) = SUBSET S
  BY FS_FiniteSubsetsOfFinite
<1>2. IsWellFoundedOn(StrictSubsetOrdering(S), FiniteSubsetsOf(S))
  BY FS_StrictSubsetOrderingWellFounded
<1>3. PICK T \in B : \A U \in B : ~ (<<U, T>> \in StrictSubsetOrdering(S))
  BY <1>1, <1>2, WFMin
<1>. QED BY <1>3 DEF StrictSubsetOrdering

\* A nonempty batch has an oldest claim, and Head is one.
LEMMA HeadIsOldest ==
  ASSUME IsFiniteSet(batch), batch \subseteq Claim, batch # {}
  PROVE  Head \in batch /\ \A d \in batch : Head.age <= d.age
<1> DEFINE UpTo(c) == {d \in batch : d.age <= c.age}
           B == {UpTo(c) : c \in batch}
<1>1. \A c \in batch : c.age \in Nat
  BY DEF Claim
<1>2. PICK T \in B : \A U \in B : U \subseteq T => U = T
  <2>1. B \in SUBSET SUBSET batch /\ B # {}
    OBVIOUS
  <2>. HIDE DEF B
  <2>. QED BY <2>1, SmallestSet
<1>3. PICK c \in batch : T = UpTo(c)
  BY <1>2
<1>4. \A d \in batch : c.age <= d.age
  <2> SUFFICES ASSUME NEW d \in batch, ~(c.age <= d.age)
               PROVE  FALSE
    OBVIOUS
  <2>1. UpTo(d) \subseteq UpTo(c)
    BY <1>1
  <2>2. c \in UpTo(c) /\ c \notin UpTo(d)
    BY <1>1
  <2>. QED BY <1>2, <1>3, <2>1, <2>2
<1>. QED BY <1>4 DEF Head

-----------------------------------------------------------------------------
\* What is needed besides the types.  A request that may still call the provider,
\* or write down its answer, has its key.  A handler between its transactions has an
\* event that was sent, of a purchase that can be activated, or of a base plan
\* whose subscription can be projected.  The sweep has an answer only about the
\* head of its batch, which is finite and so has one.

KeysHeld ==
  \A r \in Requests :
    pc[r] \in {"call", "complete", "refused"} => PurchaseOf[r] \in keyed

JobsHeld ==
  \A h \in Handlers :
    /\ pc[h] \in {"dispatch", "activate", "apply"} => job[h] \in sent
    /\ pc[h] = "activate" => job[h].of \in keyed
    /\ pc[h] = "apply" => job[h].of \in BasePlans

BatchHeld == IsFiniteSet(batch) /\ (answer # NoAnswer => batch # {})

BaseInv == TypeOK /\ KeysHeld /\ JobsHeld /\ BatchHeld

LEMMA Bounds ==
  /\ MaxEvents \in Nat /\ LastState \in Nat \ {0}
  /\ Ended = LastState + 1 /\ Ended \in Nat
  BY BoundAssumption DEF Ended

LEMMA PaidStates ==
  ASSUME NEW p, NEW state \in Paid(p)
  PROVE  state \in Nat /\ state \in 1 .. LastState /\ state \in 1 .. Ended /\ state # Ended
  BY Bounds DEF Paid, Periods, Ended

LEMMA BundleOf ==
  ASSUME NEW p \in Purchases, NEW state \in 1 .. LastState
  PROVE  TheBundle(p, state) \in Bundle
  BY Bounds DEF TheBundle, Bundle

\* The row of one purchase is written; the keys are those whose row exists.
LEMMA StatusTyped ==
  ASSUME TypeOK, NEW p \in keyed,
         NEW status \in {"activated", "failed", "abandoned"}, SetStatus(p, status)
  PROVE  /\ intent' \in [Purchases -> Intent]
         /\ keyed = {q \in Purchases : intent'[q].status # "none"}
         /\ \A q \in Purchases : intent'[q].age = intent[q].age
  BY DEF TypeOK, Intent, SetStatus

LEMMA ActivatesTyped ==
  ASSUME TypeOK, NEW p \in Purchases, Pending(p) \/ p \in keyed,
         NEW state \in 0 .. Ended, Activates(p, state)
  PROVE  /\ intent' \in [Purchases -> Intent] /\ keyed' = keyed /\ refused' = refused
         /\ keyed = {q \in Purchases : intent'[q].status # "none"}
         /\ claimed' \subseteq keyed
         /\ subscription' \in [BasePlans -> Subscription]
         /\ bundles' \subseteq Bundle /\ revoked' \subseteq bundles'
         /\ settlements' \in [Purchases -> Nat]
<1>1. p \in keyed
  BY DEF TypeOK, Pending
<1>2. CASE UNCHANGED <<intents, grants>>
  BY <1>2 DEF intents, grants, TypeOK
<1>3. CASE Authorizes(p, state) /\ Settles(p, state)
  <2>1. state \in 1 .. LastState
    BY <1>3, PaidStates DEF Authorizes
  <2>2. TheBundle(p, state) \in Bundle
    BY <2>1, BundleOf
  <2>3. [version |-> state, live |-> TRUE, current |-> TRUE] \in Subscription
    BY DEF Subscription
  <2>4. subscription' \in [BasePlans -> Subscription]
    BY <1>3, <2>3 DEF Settles, TypeOK
  <2>5. /\ intent' \in [Purchases -> Intent]
        /\ keyed = {q \in Purchases : intent'[q].status # "none"}
    BY <1>1, <1>3, StatusTyped DEF Settles
  <2>6. bundles' \subseteq Bundle /\ revoked' \subseteq bundles'
    BY <1>3, <2>2 DEF Settles, TypeOK
  <2>7. settlements' \in [Purchases -> Nat]
    BY <1>3 DEF Settles, TypeOK
  <2>8. keyed' = keyed /\ refused' = refused /\ claimed' \subseteq keyed
    BY <1>1, <1>3 DEF Settles, TypeOK
  <2>. QED BY <2>4, <2>5, <2>6, <2>7, <2>8
<1>. QED BY <1>2, <1>3 DEF Activates

LEMMA ProjectedTyped ==
  ASSUME NEW row \in Subscription, NEW loaded \in Subscription, NEW state \in 0 .. Ended
  PROVE  Projected(row, loaded, state) \in Subscription
<1>1. DOMAIN row = {"version", "live", "current"}
  BY DEF Subscription
<1> DEFINE wanted == [version |-> IF state > loaded.version THEN state ELSE loaded.version,
                      live |-> state \in LiveStates,
                      current |-> loaded.current /\ state # Ended]
<1>2. wanted \in Subscription
  BY DEF Subscription
<1>3. Projected(row, loaded, state) =
        [field \in {"version", "live", "current"} |->
           IF wanted[field] = loaded[field] THEN row[field] ELSE wanted[field]]
  BY <1>1 DEF Projected
<1>. HIDE DEF wanted
<1>. QED BY <1>2, <1>3 DEF Subscription

LEMMA EventState ==
  ASSUME TypeOK, NEW h \in Handlers
  PROVE  job[h].state \in 0 .. Ended /\ (job[h] \in Event => job[h].of \in Purchases)
  BY Bounds DEF TypeOK, Event, NoEvent, Ended

LEMMA BatchClaims ==
  ASSUME BaseInv, batch # {}
  PROVE  Head \in batch /\ Head \in Claim /\ Head.of \in Purchases
  BY HeadIsOldest DEF BaseInv, TypeOK, BatchHeld, Claim

\* The rows a sweep claims are as many as the purchases at most.
LEMMA ClaimsFinite ==
  ASSUME BaseInv, Claims
  PROVE  IsFiniteSet(batch') /\ batch' \subseteq Claim
<1> DEFINE P == {q \in Purchases : Pending(q) /\ Cardinality(Ahead(q)) < BatchSize}
           c == [p \in P |-> [of |-> p, age |-> intent[p].age, ref |-> intent[p].ref]]
<1>1. IsFiniteSet(P)
  BY PurchaseAssumption, FS_Subset
<1>2. batch' = {[of |-> p, age |-> intent[p].age, ref |-> intent[p].ref] : p \in P}
  BY DEF Claims
<1>3. c \in Surjection(P, batch')
  BY <1>2 DEF Surjection
<1>4. IsFiniteSet(batch')
  BY <1>1, <1>3, FS_Surjection
<1>5. \A p \in P : intent[p].age \in Nat /\ intent[p].ref \in BOOLEAN
  <2>1. Cardinality(Purchases) \in Nat
    BY PurchaseAssumption, FS_CardinalityType
  <2>. QED BY <2>1 DEF BaseInv, TypeOK, Intent
<1>6. batch' \subseteq Claim
  BY <1>2, <1>5 DEF Claim
<1>. QED BY <1>4, <1>6

\* A new row is younger than all others, and there are no more ages than purchases.
LEMMA NewIntentTyped ==
  ASSUME TypeOK, NEW p \in Purchases, p \notin keyed,
         intent' = [intent EXCEPT ![p] =
           [status |-> "pending", age |-> Cardinality(keyed) + 1, ref |-> FALSE]]
  PROVE  /\ intent' \in [Purchases -> Intent]
         /\ keyed \cup {p} = {q \in Purchases : intent'[q].status # "none"}
<1>1. IsFiniteSet(Purchases) /\ Cardinality(Purchases) \in Nat
  BY PurchaseAssumption, FS_CardinalityType
<1>2. keyed \in SUBSET Purchases /\ keyed \cup {p} \in SUBSET Purchases
  BY DEF TypeOK
<1>3. IsFiniteSet(keyed) /\ Cardinality(keyed) \in Nat
  BY <1>1, <1>2, FS_Subset, FS_CardinalityType
<1>4. Cardinality(keyed \cup {p}) = Cardinality(keyed) + 1
  BY <1>3, FS_AddElement
<1>5. Cardinality(keyed \cup {p}) <= Cardinality(Purchases)
  BY <1>1, <1>2, FS_Subset
<1>6. Cardinality(keyed) + 1 \in 0 .. Cardinality(Purchases)
  BY <1>1, <1>3, <1>4, <1>5
<1>7. [status |-> "pending", age |-> Cardinality(keyed) + 1, ref |-> FALSE] \in Intent
  BY <1>6 DEF Intent
<1>. QED BY <1>7 DEF TypeOK

LEMMA BaseInit == Init => BaseInv
<1> SUFFICES ASSUME Init
             PROVE  BaseInv
  OBVIOUS
<1>1. Cardinality(Purchases) \in Nat
  BY PurchaseAssumption, FS_CardinalityType
<1>2. NoIntent \in Intent /\ NoIntent.status = "none"
  BY <1>1 DEF NoIntent, Intent
<1>3. NoSubscription \in Subscription
  BY Bounds DEF NoSubscription, Subscription, Ended
<1>4. TypeOK
  BY <1>2, <1>3, Bounds DEF Init, TypeOK, Ended, NoAnswer
<1>5. KeysHeld /\ JobsHeld
  BY DEF Init, KeysHeld, JobsHeld, Actors
<1>6. BatchHeld
  BY FS_EmptySet DEF Init, BatchHeld
<1>. QED BY <1>4, <1>5, <1>6 DEF BaseInv

\* A handler that ends has no event any more, the others keep theirs.
LEMMA EndsTyped ==
  ASSUME TypeOK, NEW h \in Handlers, Ends(h)
  PROVE  /\ pc' \in [Actors -> {"absent", "idle", "insert", "call", "complete",
                                "refused", "dispatch", "activate", "apply"}]
         /\ job' \in [Handlers -> Event \cup {NoEvent}]
         /\ copy' \in [Handlers -> Subscription]
         /\ pc'[h] = "idle"
         /\ \A a \in Actors : a # h => pc'[a] = pc[a]
         /\ \A k \in Handlers : k # h => job'[k] = job[k]
<1>1. NoSubscription \in Subscription
  BY Bounds DEF NoSubscription, Subscription, Ended
<1>. QED BY <1>1 DEF Ends, GoTo, TypeOK, Actors

LEMMA RequestBase ==
  ASSUME BaseInv, NEW r \in Requests, Check(r) \/ RequestStep(r) \/ RequestDies(r)
  PROVE  BaseInv'
<1> USE DEF BaseInv
<1>1. PurchaseOf[r] \in Purchases /\ r \in Actors /\ r \notin Handlers
  BY PurchaseAssumption, ActorAssumption DEF Actors
<1>2. /\ \A h \in Handlers : pc'[h] = pc[h]
      /\ pc' \in [Actors -> {"absent", "idle", "insert", "call", "complete",
                             "refused", "dispatch", "activate", "apply"}]
  BY <1>1 DEF Check, RequestStep, Inserts, Calls, Completes, RequestDies, GoTo,
              TypeOK, Actors
<1>3. UNCHANGED <<refused, grants, remote, sent, handlers, sweep>>
  BY DEF Check, RequestStep, Inserts, Calls, Completes, RequestDies, provider, intents
<1>4. calls' \in [Purchases -> Nat] /\ events' \in 0 .. MaxEvents
  BY <1>1, Bounds
  DEF Check, RequestStep, Inserts, Calls, Completes, RequestDies, provider, Occurs, TypeOK
<1>5. /\ intent' \in [Purchases -> Intent] /\ keyed \subseteq keyed'
      /\ keyed' = {p \in Purchases : intent'[p].status # "none"}
  <2>1. CASE UNCHANGED intents
    BY <2>1 DEF intents, TypeOK
  <2>2. CASE Inserts(r) /\ ~SlotTaken(PurchaseOf[r])
    <3>1. PurchaseOf[r] \notin keyed
      BY <2>2 DEF SlotTaken
    <3>. QED BY <1>1, <2>2, <3>1, NewIntentTyped DEF Inserts
  <2>3. CASE Completes(r) /\ pc[r] = "complete"
    <3>1. /\ intent' = [intent EXCEPT ![PurchaseOf[r]].ref = TRUE]
          /\ keyed' = keyed
      BY <2>3 DEF Completes
    <3>2. ASSUME NEW q \in Purchases
          PROVE  intent'[q] \in Intent /\ intent'[q].status = intent[q].status
      <4>1. intent \in [Purchases -> Intent] /\ intent[q] \in Intent
        BY DEF TypeOK
      <4>2. intent'[q] = intent[q] \/ intent'[q] = [intent[q] EXCEPT !.ref = TRUE]
        BY <1>1, <3>1, <4>1
      <4>. QED BY <4>1, <4>2 DEF Intent
    <3>3. intent' \in [Purchases -> Intent]
      BY <3>1, <3>2 DEF TypeOK
    <3>. QED BY <3>1, <3>2, <3>3 DEF TypeOK
  <2>4. CASE Completes(r) /\ pc[r] = "refused"
    <3>1. /\ SetStatus(PurchaseOf[r], "failed") /\ keyed' = keyed
          /\ PurchaseOf[r] \in keyed
      BY <2>4 DEF Completes, KeysHeld
    <3>. QED BY <3>1, StatusTyped
  <2>. QED BY <2>1, <2>2, <2>3, <2>4
           DEF Check, RequestStep, Inserts, Calls, Completes, RequestDies, intents
<1>6. TypeOK'
  BY <1>2, <1>3, <1>4, <1>5 DEF TypeOK, grants, handlers, sweep
<1>7. JobsHeld'
  BY <1>2, <1>3, <1>5 DEF JobsHeld, handlers
<1>8. BatchHeld'
  BY <1>3 DEF BatchHeld, sweep
<1>9. KeysHeld'
  <2>1. pc'[r] \in {"call", "complete", "refused"} => PurchaseOf[r] \in keyed'
    BY <1>1, <1>5
    DEF Check, RequestStep, Inserts, Calls, Completes, RequestDies, GoTo, KeysHeld,
        TypeOK, SlotTaken, Actors
  <2>2. \A q \in Requests : q # r => pc'[q] = pc[q]
    BY DEF Check, RequestStep, Inserts, Calls, Completes, RequestDies, GoTo, TypeOK, Actors
  <2>. QED BY <1>5, <2>1, <2>2 DEF KeysHeld
<1>. QED BY <1>6, <1>7, <1>8, <1>9

LEMMA HandlerBase ==
  ASSUME BaseInv, NEW h \in Handlers,
         (\E e \in Event : Receives(h, e)) \/ HandlerStep(h) \/ HandlerDies(h)
  PROVE  BaseInv'
<1> USE DEF BaseInv
<1>1. h \in Actors /\ \A r \in Requests : r # h /\ r \in Actors
  BY ActorAssumption DEF Actors
<1>2. ASSUME NEW e \in Event, Receives(h, e)
      PROVE  BaseInv'
  <2>1. TypeOK'
    BY <1>1, <1>2
    DEF Receives, TypeOK, GoTo, intents, grants, provider, sweep
  <2>2. KeysHeld' /\ JobsHeld' /\ BatchHeld'
    BY <1>1, <1>2
    DEF Receives, GoTo, KeysHeld, JobsHeld, BatchHeld, TypeOK, Actors,
        intents, grants, provider, sweep
  <2>. QED BY <2>1, <2>2
<1>3. CASE Dispatches(h) /\ ~Ends(h)
  <2>1. TypeOK'
    BY <1>1, <1>3
    DEF Dispatches, HasSubscription, TypeOK, GoTo, intents, grants, provider, sweep
  <2>2. job[h] \in Event /\ (Pending(job[h].of) => job[h].of \in keyed)
    BY <1>3 DEF Dispatches, JobsHeld, TypeOK, Pending, Event
  <2>3. KeysHeld' /\ JobsHeld' /\ BatchHeld'
    BY <1>1, <1>3, <2>2
    DEF Dispatches, HasSubscription, GoTo, KeysHeld, JobsHeld, BatchHeld, TypeOK, Actors,
        intents, grants, provider, sweep
  <2>. QED BY <2>1, <2>3
<1>4. CASE Ends(h) /\ UNCHANGED <<intents, grants, provider, recorded, sweep>>
           /\ (Occurs \/ UNCHANGED events)
  <2>1. events' \in 0 .. MaxEvents
    BY <1>4, Bounds DEF Occurs, TypeOK
  <2>2. TypeOK'
    BY <1>4, <2>1, EndsTyped DEF TypeOK, intents, grants, provider, sweep
  <2>3. KeysHeld' /\ JobsHeld' /\ BatchHeld'
    BY <1>1, <1>4, EndsTyped
    DEF KeysHeld, JobsHeld, BatchHeld, intents, grants, provider, sweep, Actors
  <2>. QED BY <2>2, <2>3
<1>5. CASE HandlerActivates(h)
  <2>1. /\ job[h] \in Event /\ job[h].of \in keyed
        /\ job[h].of \in Purchases /\ job[h].state \in 0 .. Ended
    BY <1>5, EventState DEF HandlerActivates, JobsHeld, TypeOK
  <2>2. /\ intent' \in [Purchases -> Intent] /\ keyed' = keyed /\ refused' = refused
        /\ keyed = {q \in Purchases : intent'[q].status # "none"}
        /\ claimed' \subseteq keyed
        /\ subscription' \in [BasePlans -> Subscription]
        /\ bundles' \subseteq Bundle /\ revoked' \subseteq bundles'
        /\ settlements' \in [Purchases -> Nat]
    BY <1>5, <2>1, ActivatesTyped DEF HandlerActivates
  <2>3. Ends(h) /\ UNCHANGED <<provider, recorded, sweep, events>>
    BY <1>5 DEF HandlerActivates
  <2>4. TypeOK'
    BY <2>2, <2>3, EndsTyped DEF TypeOK, provider, sweep
  <2>5. KeysHeld' /\ JobsHeld' /\ BatchHeld'
    BY <1>1, <2>2, <2>3, EndsTyped
    DEF KeysHeld, JobsHeld, BatchHeld, provider, sweep, Actors
  <2>. QED BY <2>4, <2>5
<1>6. CASE HandlerApplies(h)
  <2>1. /\ job[h] \in Event /\ job[h].of \in BasePlans
        /\ job[h].of \in Purchases /\ job[h].state \in 0 .. Ended
    BY <1>6, EventState DEF HandlerApplies, JobsHeld, TypeOK
  <2>2. subscription' \in [BasePlans -> Subscription]
    <3>1. Projected(subscription[job[h].of], copy[h], job[h].state) \in Subscription
      BY <2>1, ProjectedTyped DEF TypeOK
    <3>. QED BY <1>6, <2>1, <3>1 DEF HandlerApplies, grants, TypeOK
  <2>3. bundles' \subseteq Bundle /\ revoked' \subseteq bundles'
    <3>1. job[h].state \in Periods => TheBundle(job[h].of, job[h].state) \in Bundle
      BY <2>1, BundleOf DEF Periods
    <3>. QED BY <1>6, <3>1 DEF HandlerApplies, grants, TypeOK
  <2>4. /\ Ends(h) /\ UNCHANGED <<intents, provider, recorded, sweep, events>>
        /\ UNCHANGED <<claimed, settlements>>
    BY <1>6 DEF HandlerApplies, grants
  <2>5. TypeOK'
    BY <2>2, <2>3, <2>4, EndsTyped DEF TypeOK, intents, provider, sweep
  <2>6. KeysHeld' /\ JobsHeld' /\ BatchHeld'
    BY <1>1, <2>4, EndsTyped
    DEF KeysHeld, JobsHeld, BatchHeld, intents, provider, sweep, Actors
  <2>. QED BY <2>5, <2>6
<1>7. Dispatches(h) => UNCHANGED <<intents, grants, provider, recorded, sweep, events>>
  BY DEF Dispatches
<1>8. HandlerDies(h) => /\ Ends(h) /\ Occurs
                       /\ UNCHANGED <<intents, grants, provider, recorded, sweep>>
  BY DEF HandlerDies
<1>. QED BY <1>2, <1>3, <1>4, <1>5, <1>6, <1>7, <1>8 DEF HandlerStep

LEMMA SweepBase ==
  ASSUME BaseInv, SweepStep \/ SweepDies
  PROVE  BaseInv'
<1> USE DEF BaseInv
<1>1. UNCHANGED <<provider, handlers, pc>>
  BY DEF SweepStep, Claims, FindsNothing, StillPending, Fetches, Reconciles, SweepDies
<1>2. events' \in 0 .. MaxEvents
  BY Bounds
  DEF SweepStep, Claims, FindsNothing, StillPending, Fetches, Reconciles, SweepDies,
      Occurs, TypeOK
<1>3. batch # {} => IsFiniteSet(batch \ {Head}) /\ batch \ {Head} \subseteq Claim
  BY FS_RemoveElement DEF BatchHeld, TypeOK
<1>4. /\ batch' \subseteq Claim /\ IsFiniteSet(batch')
      /\ answer' \in 0 .. Ended /\ (answer' # NoAnswer => batch' # {})
  <2>1. CASE Claims
    BY <2>1, ClaimsFinite DEF Claims, BatchHeld, TypeOK
  <2>2. CASE FindsNothing \/ StillPending
    BY <1>3, <2>2 DEF FindsNothing, StillPending, TypeOK
  <2>3. CASE Fetches
    <3>1. remote[Head.of] \in 0 .. Ended
      BY <2>3, BatchClaims DEF Fetches, TypeOK
    <3>. QED BY <2>3, <3>1 DEF Fetches, BatchHeld, TypeOK
  <2>4. CASE Reconciles \/ SweepDies
    <3>1. answer' = NoAnswer /\ batch' \in {{}, batch \ {Head}} /\ batch # {}
      BY <2>4 DEF Reconciles, SweepDies, BatchHeld
    <3>. QED BY <1>3, <3>1, FS_EmptySet, Bounds DEF NoAnswer, Ended
  <2>. QED BY <2>1, <2>2, <2>3, <2>4 DEF SweepStep
<1> DEFINE Rows ==
  /\ intent' \in [Purchases -> Intent] /\ keyed' = keyed /\ refused' = refused
  /\ keyed = {q \in Purchases : intent'[q].status # "none"}
  /\ claimed' \subseteq keyed
  /\ subscription' \in [BasePlans -> Subscription]
  /\ bundles' \subseteq Bundle /\ revoked' \subseteq bundles'
  /\ settlements' \in [Purchases -> Nat]
<1>5. Rows
  <2>1. CASE UNCHANGED <<intents, grants>>
    BY <2>1 DEF intents, grants, TypeOK
  <2>2. ASSUME NEW status \in {"failed", "abandoned"}, batch # {},
               MarksTerminal(Head.of, status), UNCHANGED <<keyed, refused, grants>>
        PROVE  Rows
    <3>1. CASE Pending(Head.of)
      <4>1. Head.of \in keyed /\ SetStatus(Head.of, status)
        BY <2>2, <3>1, BatchClaims DEF MarksTerminal, Pending, TypeOK
      <4>. QED BY <2>2, <4>1, StatusTyped DEF grants, TypeOK
    <3>2. CASE ~Pending(Head.of)
      BY <2>1, <2>2, <3>2 DEF MarksTerminal, intents
    <3>. QED BY <3>1, <3>2
  <2>3. CASE /\ batch # {} /\ Pending(Head.of) /\ Activates(Head.of, answer)
    <3>1. Head.of \in Purchases
      BY <2>3, BatchClaims
    <3>2. answer \in 0 .. Ended
      BY DEF TypeOK
    <3>. QED BY <2>3, <3>1, <3>2, ActivatesTyped
  <2>4. CASE FindsNothing
    BY <2>1, <2>2, <2>4 DEF FindsNothing, intents
  <2>5. CASE Reconciles
    BY <2>1, <2>2, <2>3, <2>5 DEF Reconciles, BatchHeld
  <2>. QED BY <2>1, <2>4, <2>5
           DEF SweepStep, Claims, StillPending, Fetches, SweepDies
<1>6. TypeOK'
  BY <1>1, <1>2, <1>4, <1>5 DEF TypeOK, provider, handlers
<1>7. KeysHeld' /\ JobsHeld'
  BY <1>1, <1>5 DEF KeysHeld, JobsHeld, provider, handlers
<1>8. BatchHeld'
  BY <1>4 DEF BatchHeld
<1>. QED BY <1>6, <1>7, <1>8

LEMMA ProviderBase ==
  ASSUME BaseInv, NEW p \in Purchases, Advances(p)
  PROVE  BaseInv'
<1> USE DEF BaseInv
<1>1. PICK state \in {remote[p] + 1, Ended} :
        /\ p \in TopUps => state \in Paid(p) \cup {Ended}
        /\ remote' = [remote EXCEPT ![p] = state]
        /\ sent' = sent \cup {[of |-> p, state |-> state]}
  BY DEF Advances
<1>2. state \in 1 .. Ended
  <2>1. remote[p] \in 0 .. Ended /\ remote[p] # Ended
    BY DEF Advances, TypeOK
  <2>. QED BY <1>1, <2>1, Bounds DEF Ended
<1>3. /\ remote' \in [Purchases -> 0 .. Ended]
      /\ sent' \subseteq Event /\ sent \subseteq sent'
  BY <1>1, <1>2 DEF TypeOK, Event
<1>4. UNCHANGED <<intents, grants, calls, handlers, sweep, pc, events>>
  BY DEF Advances
<1>5. TypeOK'
  BY <1>3, <1>4 DEF TypeOK, intents, grants, handlers, sweep
<1>6. KeysHeld' /\ JobsHeld' /\ BatchHeld'
  BY <1>3, <1>4 DEF KeysHeld, JobsHeld, BatchHeld, intents, handlers, sweep
<1>. QED BY <1>5, <1>6

LEMMA DisagreesBase ==
  ASSUME BaseInv, NEW p \in Purchases, Disagrees(p)
  PROVE  BaseInv'
<1> USE DEF BaseInv
<1>1. p \in keyed
  BY DEF Disagrees, Pending, TypeOK
<1>2. /\ refused' = refused \cup {p} /\ events' \in 0 .. MaxEvents
      /\ UNCHANGED <<intent, keyed, grants, provider, handlers, sweep, pc>>
  BY Bounds DEF Disagrees, Occurs, TypeOK
<1>3. TypeOK'
  BY <1>1, <1>2 DEF TypeOK, grants, provider, handlers, sweep
<1>4. KeysHeld' /\ JobsHeld' /\ BatchHeld'
  BY <1>2 DEF KeysHeld, JobsHeld, BatchHeld, provider, handlers, sweep
<1>. QED BY <1>3, <1>4

LEMMA BaseStep ==
  ASSUME BaseInv, [Next]_vars
  PROVE  BaseInv'
<1>1. CASE UNCHANGED vars
  BY <1>1 DEF vars, BaseInv, TypeOK, KeysHeld, JobsHeld, BatchHeld,
              intents, grants, provider, handlers, sweep
<1>. QED BY <1>1, RequestBase, HandlerBase, SweepBase, ProviderBase, DisagreesBase
         DEF Next

\* The rows, the provider's record, the requests, the deliveries and the sweep keep
\* their types.
THEOREM TypeCorrect == Spec => []TypeOK
<1>1. BaseInv => TypeOK
  BY DEF BaseInv
<1>. QED BY <1>1, BaseInit, BaseStep, PTL DEF Spec

LEMMA BaseInvHolds == Spec => []BaseInv
  BY BaseInit, BaseStep, PTL DEF Spec

-----------------------------------------------------------------------------
\* One settlement: the activation record is claimed by whoever settles.

SettledInv == \A p \in Purchases :
  settlements[p] <= 1 /\ (p \notin claimed => settlements[p] = 0)

\* Only Activates writes the grants of a purchase that was not activated yet.
LEMMA SettledStep ==
  ASSUME BaseInv, SettledInv, [Next]_vars
  PROVE  SettledInv'
<1>1. CASE UNCHANGED <<claimed, settlements>>
  BY <1>1 DEF SettledInv
<1>2. ASSUME NEW p \in Purchases, NEW state, Activates(p, state)
      PROVE  SettledInv'
  BY <1>1, <1>2 DEF Activates, Settles, ClaimsActivation, SettledInv, grants, BaseInv, TypeOK
<1>3. ASSUME NEW r \in Requests, Check(r) \/ RequestStep(r) \/ RequestDies(r)
      PROVE  UNCHANGED <<claimed, settlements>>
  BY <1>3 DEF Check, RequestStep, Inserts, Calls, Completes, RequestDies, grants
<1>4. ASSUME NEW h \in Handlers, HandlerActivates(h)
      PROVE  SettledInv'
  <2>1. job[h].of \in Purchases
    BY <1>4 DEF HandlerActivates, BaseInv, JobsHeld, TypeOK, Event
  <2>. QED BY <1>2, <1>4, <2>1 DEF HandlerActivates
<1>5. ASSUME NEW h \in Handlers,
             (\E e \in Event : Receives(h, e)) \/ Dispatches(h)
               \/ HandlerApplies(h) \/ HandlerDies(h)
      PROVE  UNCHANGED <<claimed, settlements>>
  BY <1>5 DEF Receives, Dispatches, HandlerApplies, HandlerDies, grants
<1>6. CASE Reconciles
  <2>1. Head.of \in Purchases
    BY <1>6, BatchClaims DEF Reconciles, BaseInv, BatchHeld
  <2>. QED BY <1>1, <1>2, <1>6, <2>1 DEF Reconciles, grants
<1>7. CASE Claims \/ FindsNothing \/ StillPending \/ Fetches \/ SweepDies
           \/ (\E p \in Purchases : Advances(p) \/ Disagrees(p)) \/ UNCHANGED vars
  BY <1>1, <1>7
  DEF Claims, FindsNothing, StillPending, Fetches, SweepDies, Advances, Disagrees,
      vars, grants
<1>. QED BY <1>1, <1>3, <1>4, <1>5, <1>6, <1>7 DEF Next, HandlerStep, SweepStep

\* However many webhooks and sweeps meet on a purchase, it is settled once.
THEOREM OneSettlementHolds == Spec => []OneSettlement
<1>1. Init => SettledInv
  BY DEF Init, SettledInv
<1>2. SettledInv => OneSettlement
  BY DEF SettledInv, OneSettlement
<1>. QED BY <1>1, <1>2, BaseInvHolds, SettledStep, PTL DEF Spec

-----------------------------------------------------------------------------
\* One checkout: the insert that wins the key is the only way to the provider.

CalledInv ==
  /\ \A p \in Purchases : calls[p] <= 1 /\ (p \notin keyed => calls[p] = 0)
  /\ \A r \in Requests : pc[r] = "call" => calls[PurchaseOf[r]] = 0
  /\ \A r, q \in Requests :
       pc[r] = "call" /\ pc[q] = "call" /\ PurchaseOf[r] = PurchaseOf[q] => r = q

LEMMA CalledStep ==
  ASSUME BaseInv, CalledInv, [Next]_vars
  PROVE  CalledInv'
<1>1. \A r \in Requests : PurchaseOf[r] \in Purchases /\ r \in Actors /\ r \notin Handlers
  BY PurchaseAssumption, ActorAssumption DEF Actors
<1>2. pc = [a \in Actors |-> pc[a]] /\ calls \in [Purchases -> Nat]
  BY DEF BaseInv, TypeOK
<1>3. CASE calls' = calls /\ keyed' = keyed
           /\ \A r \in Requests : pc'[r] = "call" => pc[r] = "call"
  BY <1>3 DEF CalledInv
<1>4. ASSUME NEW r \in Requests, Check(r) \/ Completes(r) \/ RequestDies(r)
      PROVE  calls' = calls /\ keyed' = keyed
             /\ \A q \in Requests : pc'[q] = "call" => pc[q] = "call"
  BY <1>1, <1>2, <1>4 DEF Check, Completes, RequestDies, GoTo, intents, provider
<1>5. ASSUME NEW r \in Requests, Inserts(r)
      PROVE  CalledInv'
  <2>1. CASE SlotTaken(PurchaseOf[r])
    <3>1. calls' = calls /\ keyed' = keyed
          /\ \A q \in Requests : pc'[q] = "call" => pc[q] = "call"
      BY <1>1, <1>2, <1>5, <2>1 DEF Inserts, GoTo, intents, provider
    <3>. QED BY <1>3, <3>1
  <2>2. CASE ~SlotTaken(PurchaseOf[r])
    <3>1. PurchaseOf[r] \notin keyed /\ calls[PurchaseOf[r]] = 0
      BY <1>1, <2>2 DEF SlotTaken, CalledInv
    <3>2. /\ calls' = calls /\ keyed' = keyed \cup {PurchaseOf[r]}
          /\ pc' = [pc EXCEPT ![r] = "call"]
      BY <1>5, <2>2 DEF Inserts, GoTo, provider
    <3>3. \A q \in Requests : pc[q] = "call" => PurchaseOf[q] # PurchaseOf[r]
      BY <3>1 DEF BaseInv, KeysHeld
    <3>. QED BY <1>1, <1>2, <3>1, <3>2, <3>3 DEF CalledInv
  <2>. QED BY <2>1, <2>2
<1>6. ASSUME NEW r \in Requests, Calls(r)
      PROVE  CalledInv'
  <2>1. /\ calls' = [calls EXCEPT ![PurchaseOf[r]] = @ + 1] /\ keyed' = keyed
        /\ pc[r] = "call" /\ PurchaseOf[r] \in keyed
        /\ pc'[r] # "call" /\ \A q \in Requests : q # r => pc'[q] = pc[q]
    BY <1>1, <1>2, <1>6 DEF Calls, GoTo, intents, BaseInv, KeysHeld
  <2>2. calls[PurchaseOf[r]] = 0
    BY <2>1 DEF CalledInv
  <2>. QED BY <1>1, <1>2, <2>1, <2>2 DEF CalledInv
<1>7. ASSUME NEW h \in Handlers,
             (\E e \in Event : Receives(h, e)) \/ HandlerStep(h) \/ HandlerDies(h)
      PROVE  calls' = calls /\ keyed' = keyed
             /\ \A q \in Requests : pc'[q] = "call" => pc[q] = "call"
  BY <1>1, <1>2, <1>7
  DEF Receives, HandlerStep, Dispatches, HandlerActivates, HandlerApplies, HandlerDies,
      Ends, GoTo, Activates, Settles, intents, provider
<1>8. CASE \/ SweepStep \/ SweepDies
           \/ (\E p \in Purchases : Advances(p) \/ Disagrees(p)) \/ UNCHANGED vars
  <2>1. calls' = calls /\ keyed' = keyed /\ pc' = pc
    BY <1>8
    DEF SweepStep, Claims, FindsNothing, StillPending, Fetches, Reconciles, SweepDies,
        Activates, Settles, Advances, Disagrees, vars, intents, provider
  <2>. QED BY <1>3, <2>1
<1>. QED BY <1>3, <1>4, <1>5, <1>6, <1>7, <1>8 DEF Next, RequestStep

\* However often a key is retried, and whoever dies, one checkout is asked for.
THEOREM ProviderCalledOnceHolds == Spec => []ProviderCalledOnce
<1>1. Init => CalledInv
  BY DEF Init, CalledInv, Actors
<1>2. CalledInv => ProviderCalledOnce
  BY DEF CalledInv, ProviderCalledOnce
<1>. QED BY <1>1, <1>2, BaseInvHolds, CalledStep, PTL DEF Spec

-----------------------------------------------------------------------------
\* Grants rest on payments: whatever a handler or the sweep holds was said by
\* the provider.

Said(p, state) == [of |-> p, state |-> state] \in sent

PaidInv ==
  /\ \A p \in Purchases : remote[p] # 0 => Said(p, remote[p])
  /\ answer # NoAnswer => Said(Head.of, answer)
  /\ GrantsRestOnPayment

\* A bundle issued for a state the provider went through keeps the property.
LEMMA BundleIsPaid ==
  ASSUME GrantsRestOnPayment, NEW p, NEW state \in Paid(p), Said(p, state),
         sent \subseteq sent', bundles' \subseteq bundles \cup {TheBundle(p, state)}
  PROVE  GrantsRestOnPayment'
<1>1. [of |-> p, state |-> state].of = p /\ [of |-> p, state |-> state].state = state
  OBVIOUS
<1>2. TheBundle(p, state).of = p
  BY DEF TheBundle
<1>3. ASSUME NEW b \in bundles', b \in bundles
      PROVE  \E e \in sent' : /\ e.of = b.of /\ e.state \in Paid(b.of)
                              /\ TheBundle(e.of, e.state) = b
  BY <1>3 DEF GrantsRestOnPayment
<1>4. ASSUME NEW b \in bundles', b = TheBundle(p, state)
      PROVE  \E e \in sent' : /\ e.of = b.of /\ e.state \in Paid(b.of)
                              /\ TheBundle(e.of, e.state) = b
  BY <1>1, <1>2, <1>4 DEF Said
<1>. QED BY <1>3, <1>4 DEF GrantsRestOnPayment, Paid, TheBundle

LEMMA PaidStep ==
  ASSUME BaseInv, PaidInv, [Next]_vars
  PROVE  PaidInv'
<1>1. sent \subseteq sent'
  BY DEF Next, RequestStep, Check, Inserts, Calls, Completes, RequestDies,
         HandlerStep, Receives, Dispatches, HandlerActivates, HandlerApplies, HandlerDies,
         SweepStep, Claims, FindsNothing, StillPending, Fetches, Reconciles, SweepDies,
         Advances, Disagrees, vars, provider
<1>2. bundles' = bundles => GrantsRestOnPayment'
  BY <1>1 DEF PaidInv, GrantsRestOnPayment
<1>3. ASSUME NEW p, NEW state, Said(p, state), Activates(p, state)
      PROVE  GrantsRestOnPayment'
  BY <1>1, <1>2, <1>3, BundleIsPaid DEF Activates, Settles, Authorizes, grants, PaidInv
<1>4. \A h \in Handlers : pc[h] \in {"dispatch", "activate", "apply"}
                            => Said(job[h].of, job[h].state)
  <2> SUFFICES ASSUME NEW h \in Handlers, pc[h] \in {"dispatch", "activate", "apply"}
               PROVE  Said(job[h].of, job[h].state)
    OBVIOUS
  <2>1. job[h] \in sent /\ job[h] \in Event
    BY DEF BaseInv, JobsHeld, TypeOK
  <2>2. job[h] = [of |-> job[h].of, state |-> job[h].state]
    BY <2>1 DEF Event
  <2>. QED BY <2>1, <2>2 DEF Said
<1>5. ASSUME NEW r \in Requests, Check(r) \/ RequestStep(r) \/ RequestDies(r)
      PROVE  UNCHANGED <<bundles, remote, batch, answer>>
  BY <1>5 DEF Check, RequestStep, Inserts, Calls, Completes, RequestDies,
              grants, provider, sweep
<1>6. ASSUME NEW h \in Handlers,
             (\E e \in Event : Receives(h, e)) \/ HandlerStep(h) \/ HandlerDies(h)
      PROVE  UNCHANGED <<remote, batch, answer>> /\ GrantsRestOnPayment'
  <2>1. UNCHANGED <<remote, batch, answer>>
    BY <1>6
    DEF HandlerStep, Receives, Dispatches, HandlerActivates, HandlerApplies, HandlerDies,
        provider, sweep
  <2>2. CASE (\E e \in Event : Receives(h, e)) \/ Dispatches(h) \/ HandlerDies(h)
    BY <1>2, <2>1, <2>2 DEF Receives, Dispatches, HandlerDies, grants
  <2>3. CASE HandlerActivates(h)
    BY <1>3, <1>4, <2>1, <2>3 DEF HandlerActivates
  <2>4. CASE HandlerApplies(h)
    <3> DEFINE p == job[h].of
               state == job[h].state
    <3>1. Said(p, state) /\ p \in BasePlans
      BY <1>4, <2>4 DEF HandlerApplies, BaseInv, JobsHeld
    <3>2. CASE bundles' = bundles
      BY <1>2, <2>1, <3>2
    <3>3. CASE state \in Periods /\ bundles' = bundles \cup {TheBundle(p, state)}
      <4>1. state \in Paid(p)
        BY <3>1, <3>3 DEF Paid
      <4>. QED BY <1>1, <2>1, <3>1, <3>3, <4>1, BundleIsPaid DEF PaidInv
    <3>. QED BY <2>4, <3>2, <3>3 DEF HandlerApplies, grants
  <2>. QED BY <1>6, <2>1, <2>2, <2>3, <2>4 DEF HandlerStep
<1>7. CASE Claims \/ FindsNothing \/ StillPending \/ SweepDies
  <2>1. UNCHANGED <<bundles, remote>> /\ answer' = NoAnswer
    BY <1>7 DEF Claims, FindsNothing, StillPending, SweepDies, grants, provider, BaseInv, BatchHeld
  <2>. QED BY <1>1, <1>2, <2>1 DEF PaidInv, Said
<1>8. CASE Fetches
  <2>1. /\ remote[Head.of] # 0 /\ answer' = remote[Head.of]
        /\ UNCHANGED <<bundles, remote, sent, batch>> /\ batch # {}
    <3>1. remote[Head.of] \in Paid(Head.of) \cup {Ended}
      BY <1>8 DEF Fetches, Undecided
    <3>2. remote[Head.of] # 0
      BY <3>1, PaidStates, Bounds DEF Ended
    <3>. QED BY <1>8, <3>2 DEF Fetches, grants, provider
  <2>2. Said(Head.of, remote[Head.of])
    BY <2>1, BatchClaims DEF PaidInv
  <2>3. Head' = Head
    BY <2>1 DEF Head
  <2>. QED BY <1>2, <2>1, <2>2, <2>3 DEF PaidInv, Said
<1>9. CASE Reconciles
  <2>1. UNCHANGED remote /\ answer' = NoAnswer
    BY <1>9 DEF Reconciles, provider
  <2>2. GrantsRestOnPayment'
    BY <1>2, <1>3, <1>9 DEF Reconciles, PaidInv, grants
  <2>. QED BY <1>1, <2>1, <2>2 DEF PaidInv, Said
<1>10. ASSUME NEW p \in Purchases, Advances(p)
       PROVE  PaidInv'
  <2>1. PICK state : /\ remote' = [remote EXCEPT ![p] = state]
                     /\ sent' = sent \cup {[of |-> p, state |-> state]}
    BY <1>10 DEF Advances
  <2>2. UNCHANGED <<bundles, batch, answer>>
    BY <1>10 DEF Advances, grants, sweep
  <2>3. Head' = Head
    BY <2>2 DEF Head
  <2>4. remote \in [Purchases -> 0 .. Ended]
    BY DEF BaseInv, TypeOK
  <2>. QED BY <1>1, <1>2, <2>1, <2>2, <2>3, <2>4 DEF PaidInv, Said
<1>11. ASSUME NEW p \in Purchases, Disagrees(p)
       PROVE  UNCHANGED <<bundles, remote, batch, answer>>
  BY <1>11 DEF Disagrees, grants, provider, sweep
<1>12. CASE UNCHANGED <<bundles, remote, batch, answer>>
  <2>1. Head' = Head
    BY <1>12 DEF Head
  <2>. QED BY <1>1, <1>2, <1>12, <2>1 DEF PaidInv, Said
<1>13. CASE UNCHANGED <<remote, batch, answer>> /\ GrantsRestOnPayment'
  <2>1. Head' = Head
    BY <1>13 DEF Head
  <2>. QED BY <1>1, <1>13, <2>1 DEF PaidInv, Said
<1>. QED
  BY <1>5, <1>6, <1>7, <1>8, <1>9, <1>10, <1>11, <1>12, <1>13
  DEF Next, SweepStep, vars, grants, provider, sweep

\* No grant without a payment, whatever the order of webhooks and sweeps.
THEOREM GrantsRestOnPaymentHolds == Spec => []GrantsRestOnPayment
<1>1. Init => PaidInv
  BY DEF Init, PaidInv, GrantsRestOnPayment
<1>2. PaidInv => GrantsRestOnPayment
  BY DEF PaidInv
<1>. QED BY <1>1, <1>2, BaseInvHolds, PaidStep, PTL DEF Spec
=============================================================================
