------------------------ MODULE IntegrationGrantProofs -----------------------
(***************************************************************************)
(* TLAPS proofs about IntegrationGrant, for any connections, any numbers of *)
(* workers and of requests of each kind, and any bounds.                   *)
(***************************************************************************)
EXTENDS IntegrationGrant, TLAPS

\* The tokens a row or an answer may hold: the provider has issued them.
Tokens == 0 .. issued
RowTypes == {g \in Grant : /\ g.refresh \in Tokens /\ g.access \in Tokens
                           /\ g.refresh = 0 <=> g.access = 0}
AnswerTypes == {b \in Bundle : b.refresh \in Tokens /\ b.access \in Tokens}

GrantTypes ==
  /\ TypeOK
  /\ grant \in RowTypes
  /\ copy \in [Actors -> RowTypes]
  /\ bundle \in [Actors -> AnswerTypes]

\* The roles of the actors.
LEMMA Roles ==
  /\ Refreshers \subseteq Actors /\ Revokers \subseteq Actors
  /\ Requests \subseteq Actors
  /\ Nobody \notin Actors /\ Nobody \notin Refreshers
  /\ Refreshers \cap Revokers = {}
  /\ Refreshers \cap Callbacks = {} /\ Revokers \cap Callbacks = {}
  /\ Dispatcher \in Actors \ (Requests \cup Workers)
  /\ Workers \cap Requests = {}
  BY GrantAssumption DEF Refreshers, Revokers, Requests, Actors

\* What a call leaves of its actor's session, and what it leaves of the others'.
LEMMA SessionMoves ==
  ASSUME GrantTypes, NEW a \in Actors, NEW s \in Stage,
         NEW g, NEW b, Session(a, s, g, b)
  PROVE  /\ pc' \in [Actors -> Stage]
         /\ pc'[a] = s
         /\ copy'[a] = IF s = Resting(a) THEN NoGrant ELSE g
         /\ bundle'[a] = IF s = Resting(a) THEN Failure ELSE b
         /\ \A o \in Actors \ {a} :
              pc'[o] = pc[o] /\ copy'[o] = copy[o] /\ bundle'[o] = bundle[o]
         /\ DOMAIN copy' = Actors /\ DOMAIN bundle' = Actors
  BY DEF GrantTypes, TypeOK, Session

LEMMA TokenFacts ==
  ASSUME GrantTypes
  PROVE  /\ issued \in Nat /\ dead \in 0 .. issued /\ valid \subseteq 1 .. issued
         /\ grant \in RowTypes
         /\ \A a \in Actors : copy[a] \in RowTypes /\ bundle[a] \in AnswerTypes
         /\ \A g \in RowTypes : /\ g.refresh \in 0 .. issued /\ g.access \in 0 .. issued
                                /\ g.refresh = 0 <=> g.access = 0
         /\ \A b \in AnswerTypes : b.refresh \in 0 .. issued /\ b.access \in 0 .. issued
  BY DEF GrantTypes, TypeOK, RowTypes, AnswerTypes, Tokens

LEMMA EmptySession ==
  ASSUME issued \in Nat
  PROVE  /\ NoGrant \in RowTypes /\ NoGrant.refresh = 0
         /\ Failure \in AnswerTypes /\ Failure.refresh = 0 /\ ~Failure.ok
         /\ Done \in AnswerTypes /\ Done.refresh = 0
  BY DEF NoGrant, Failure, Done, RowTypes, AnswerTypes, Tokens, NoToken,
         Grant, Bundle

\* No token is taken back: what was one is one after the provider issued more.
LEMMA TokensGrow ==
  ASSUME issued \in Nat, issued' \in Nat, issued' >= issued
  PROVE  RowTypes \subseteq RowTypes' /\ AnswerTypes \subseteq AnswerTypes'
<1>1. Tokens \subseteq Tokens'
  BY DEF Tokens
<1>2. RowTypes' = {g \in Grant : /\ g.refresh \in Tokens' /\ g.access \in Tokens'
                                 /\ g.refresh = 0 <=> g.access = 0}
  BY DEF RowTypes, Grant
<1>3. AnswerTypes' = {b \in Bundle : b.refresh \in Tokens' /\ b.access \in Tokens'}
  BY DEF AnswerTypes, Bundle
<1>. QED BY <1>1, <1>2, <1>3 DEF RowTypes, AnswerTypes

\* The provider's credentials and the bounds stay what they are.
ProviderTypes ==
  /\ issued \in Nat /\ valid \subseteq 1 .. issued /\ dead \in 0 .. issued
  /\ spoiled \in BOOLEAN /\ runs \in 0 .. MaxRuns /\ events \in 0 .. MaxEvents

\* The lock goes with the call of its holder.
LockMoves(a, s) ==
  /\ \/ lock' = lock /\ (lock = a => s \in {"exchange", "store"})
     \/ lock \in {a, Nobody} /\ lock' = Nobody
     \/ lock = Nobody /\ lock' = a /\ s \in {"exchange", "store"}
  /\ a \in Refreshers /\ s \in {"exchange", "store"} => lock' = a

LEMMA SessionTypes ==
  ASSUME GrantTypes, NEW a \in Actors, NEW s \in Stage,
         NEW g, NEW b, Session(a, s, g, b),
         ProviderTypes', issued' >= issued, g \in RowTypes', b \in AnswerTypes', grant' \in RowTypes',
         connections' \subseteq Connections, LockMoves(a, s),
         lock' = a => a \in Refreshers
  PROVE  GrantTypes'
<1>1. issued \in Nat /\ issued' \in Nat
  BY DEF GrantTypes, TypeOK, ProviderTypes
<1>2. /\ RowTypes \subseteq RowTypes' /\ AnswerTypes \subseteq AnswerTypes'
      /\ NoGrant \in RowTypes' /\ Failure \in AnswerTypes'
  BY <1>1, TokensGrow, EmptySession
<1>3. copy' \in [Actors -> RowTypes'] /\ bundle' \in [Actors -> AnswerTypes']
  <2>1. copy \in [Actors -> RowTypes'] /\ bundle \in [Actors -> AnswerTypes']
    BY <1>2 DEF GrantTypes
  <2>. QED BY <1>2, <2>1 DEF Session
<1>4. RowTypes' \subseteq Grant /\ AnswerTypes' \subseteq Bundle
  BY DEF RowTypes, AnswerTypes, Grant, Bundle
<1>5. /\ pc' \in [Actors -> Stage]
      /\ pc'[a] = s
      /\ \A o \in Actors \ {a} : pc'[o] = pc[o]
  BY SessionMoves
<1>6. /\ lock \in Refreshers \cup {Nobody}
      /\ lock # Nobody => pc[lock] \in {"exchange", "store"}
      /\ \A o \in Refreshers : pc[o] \in {"exchange", "store"} => lock = o
  BY DEF GrantTypes, TypeOK
<1>7. Nobody \notin Refreshers /\ Refreshers \subseteq Actors
  BY Roles
<1>8. /\ lock' \in Refreshers \cup {Nobody}
      /\ lock' # Nobody => pc'[lock'] \in {"exchange", "store"}
      /\ \A o \in Refreshers : pc'[o] \in {"exchange", "store"} => lock' = o
  BY <1>5, <1>6, <1>7 DEF LockMoves
<1>9. TypeOK'
  <2>1. copy' \in [Actors -> Grant] /\ bundle' \in [Actors -> Bundle]
        /\ grant' \in Grant
    BY <1>3, <1>4
  <2>2. /\ valid' \subseteq 1 .. issued' /\ dead' \in 0 .. issued' /\ spoiled' \in BOOLEAN
        /\ runs' \in 0 .. MaxRuns /\ events' \in 0 .. MaxEvents
    BY DEF ProviderTypes
  <2>. QED BY <1>1, <1>5, <1>8, <2>1, <2>2 DEF TypeOK
<1>. QED BY <1>3, <1>9 DEF GrantTypes

\* What a session may hold at a stage of its actor's call, and the row meanwhile: a
\* worker's call is for the credential in the row, and that is near expiry.
SessionSafe(a, s, g, b, row) ==
  /\ s = "exchange" => g.refresh # 0
  /\ s \in {"store", "connect"} => b.refresh # 0 /\ b.access # 0
  /\ a = Dispatcher /\ s \in {"revoke", "settle"} => g.status = "pending_revocation"
  /\ a \in Removers /\ s = "settle" /\ b.ok => g.refresh # 0
  /\ a \in Workers /\ s \in {"exchange", "store"} => ~row.fresh /\ row.refresh = g.refresh

SessionsSafe ==
  \A a \in Actors : SessionSafe(a, pc[a], copy[a], bundle[a], grant)

\* Nobody else knows the refresh token of a consent that is not stored yet.
ConsentsApart ==
  \A k \in Callbacks : pc[k] = "connect" =>
    /\ grant.refresh # bundle[k].refresh
    /\ \A a \in Actors :
         copy[a].refresh # bundle[k].refresh /\ (a # k => bundle[a].refresh # bundle[k].refresh)

ConsentsWork ==
  \A k \in Callbacks : pc[k] = "connect" =>
    bundle[k].refresh \in valid \/ bundle[k].refresh <= dead

\* A disconnect whose revocation succeeded, and that will drop the tokens.
Withdrawn == \E d \in Removers : pc[d] = "settle" /\ bundle[d].ok

StoredWorks ==
  /\ \A a \in Refreshers : pc[a] # "store"
  /\ grant.status = "connected" /\ grant.refresh # 0
  => grant.refresh \in valid \/ Withdrawn

RotatedWorks ==
  \A a \in Refreshers : pc[a] = "store" /\ grant.status = "connected" =>
    bundle[a].refresh \in valid \/ Withdrawn

GrantInv ==
  /\ GrantTypes
  /\ SessionsSafe
  /\ ConsentsApart
  /\ ~spoiled => ConsentsWork /\ StoredWorks /\ RotatedWorks

\* A call that brings no token into play but its own and the provider's next keeps the
\* consents apart, and holds what its stage allows.
Brings(a, s, g, b) ==
  /\ SessionSafe(a, s, g, b, grant')
  /\ lock \in {a, Nobody} \/ (grant'.refresh = grant.refresh /\ grant'.fresh = grant.fresh)
  /\ g.refresh \in {0, grant.refresh, copy[a].refresh}
  /\ b.refresh \in {0, bundle[a].refresh, copy[a].refresh, issued + 1}
  /\ grant'.refresh \in {0, grant.refresh, bundle[a].refresh}
  /\ s = "connect" => /\ b.refresh = issued + 1 /\ b.refresh \in valid'
                      /\ g.refresh = copy[a].refresh /\ grant'.refresh = grant.refresh
  /\ dead' >= dead
  /\ spoiled => spoiled'
  /\ spoiled' \/ valid \ {copy[a].refresh} \subseteq valid' \/ dead' = issued

LEMMA BringsKeeps ==
  ASSUME GrantInv, GrantTypes', NEW a \in Actors, NEW s \in Stage,
         NEW g, NEW b, Session(a, s, g, b), Brings(a, s, g, b)
  PROVE  SessionsSafe' /\ ConsentsApart' /\ (~spoiled' => ConsentsWork')
<1>. GrantTypes
  BY DEF GrantInv
<1>1. /\ pc' \in [Actors -> Stage]
      /\ pc'[a] = s
      /\ copy'[a] = IF s = Resting(a) THEN NoGrant ELSE g
      /\ bundle'[a] = IF s = Resting(a) THEN Failure ELSE b
      /\ \A o \in Actors \ {a} :
           pc'[o] = pc[o] /\ copy'[o] = copy[o] /\ bundle'[o] = bundle[o]
  BY SessionMoves
<1>2. Resting(a) \in {"done", "idle"}
  BY DEF Resting
<1>3. /\ issued \in Nat /\ dead \in Nat /\ dead' \in Nat /\ grant.refresh \in 0 .. issued
      /\ \A o \in Actors : copy[o].refresh \in 0 .. issued /\ bundle[o].refresh \in 0 .. issued
  <2>1. dead' \in Nat
    BY DEF GrantTypes, TypeOK
  <2>. QED BY <2>1, TokenFacts
<1>4. /\ copy'[a].refresh \in {0, grant.refresh, copy[a].refresh}
      /\ bundle'[a].refresh \in {0, bundle[a].refresh, copy[a].refresh, issued + 1}
      /\ s = "connect" => /\ bundle'[a].refresh = issued + 1 /\ bundle'[a].refresh \in valid'
                          /\ copy'[a].refresh = copy[a].refresh /\ grant'.refresh = grant.refresh
  BY <1>1, <1>2, <1>3, EmptySession DEF Brings
<1>5. SessionsSafe'
  <2>. SUFFICES ASSUME NEW o \in Actors
                PROVE  SessionSafe(o, pc'[o], copy'[o], bundle'[o], grant')
    BY DEF SessionsSafe, SessionSafe
  <2>1. CASE o = a
    <3>1. CASE s = Resting(a)
      BY <1>1, <1>2, <2>1, <3>1 DEF SessionSafe
    <3>2. CASE s # Resting(a)
      BY <1>1, <2>1, <3>2 DEF Brings
    <3>. QED BY <3>1, <3>2
  <2>2. CASE o # a
    <3>1. SessionSafe(o, pc'[o], copy'[o], bundle'[o], grant)
      BY <1>1, <2>2 DEF GrantInv, SessionsSafe
    <3>2. o \in Workers /\ pc[o] \in {"exchange", "store"} => lock = o /\ lock # Nobody
      BY Roles DEF GrantTypes, TypeOK, Refreshers
    <3>. QED BY <1>1, <2>2, <3>1, <3>2 DEF Brings, SessionSafe
  <2>. QED BY <2>1, <2>2
<1>6. ConsentsApart'
  <2>. SUFFICES ASSUME NEW k \in Callbacks, pc'[k] = "connect", NEW o \in Actors
                PROVE  /\ grant'.refresh # bundle'[k].refresh
                       /\ copy'[o].refresh # bundle'[k].refresh
                       /\ o # k => bundle'[o].refresh # bundle'[k].refresh
    <3>1. Actors # {}
      BY Roles
    <3>. QED BY <3>1 DEF ConsentsApart
  <2>0. k \in Actors
    BY DEF Actors, Requests
  <2>1. CASE k = a
    BY <1>1, <1>3, <1>4, <2>0, <2>1
  <2>2. CASE k # a
    <3>1. /\ grant.refresh # bundle[k].refresh /\ bundle'[k] = bundle[k]
          /\ \A p \in Actors :
               copy[p].refresh # bundle[k].refresh /\ (p # k => bundle[p].refresh # bundle[k].refresh)
      BY <1>1, <2>0, <2>2 DEF GrantInv, ConsentsApart
    <3>2. bundle[k].refresh # 0 /\ bundle[k].refresh # issued + 1
      <4>1. bundle[k].refresh # 0
        BY <1>1, <2>0, <2>2 DEF GrantInv, SessionsSafe, SessionSafe
      <4>. QED BY <1>3, <2>0, <4>1
    <3>. QED BY <1>1, <1>4, <2>2, <3>1, <3>2 DEF Brings
  <2>. QED BY <2>1, <2>2
<1>7. ASSUME ~spoiled' PROVE ConsentsWork'
  <2>. SUFFICES ASSUME NEW k \in Callbacks, pc'[k] = "connect"
                PROVE  bundle'[k].refresh \in valid' \/ bundle'[k].refresh <= dead'
    BY DEF ConsentsWork
  <2>0. k \in Actors
    BY DEF Actors, Requests
  <2>1. CASE k = a
    BY <1>1, <1>4, <2>1
  <2>2. CASE k # a
    <3>1. /\ bundle'[k] = bundle[k] /\ copy[a].refresh # bundle[k].refresh
          /\ bundle[k].refresh \in valid \/ bundle[k].refresh <= dead
      BY <1>1, <1>7, <2>0, <2>2 DEF GrantInv, ConsentsApart, ConsentsWork, Brings
    <3>2. bundle[k].refresh \in 0 .. issued
      BY <1>3, <2>0
    <3>. QED BY <1>3, <1>7, <3>1, <3>2 DEF Brings
  <2>. QED BY <2>1, <2>2
<1>. QED BY <1>5, <1>6, <1>7

\* A call that is not a refresh being stored nor a disconnect that ends, and that takes
\* no credential back, leaves the row's credential as good as it was.
Harmless(a, s) ==
  \/ spoiled'
  \/ /\ pc[a] # "store" /\ s # "store"
     /\ ~(a \in Removers /\ pc[a] = "settle" /\ bundle[a].ok)
     /\ valid \subseteq valid'
     /\ grant'.status = "connected" =>
          grant.status = "connected" /\ grant'.refresh = grant.refresh

LEMMA HarmlessKeeps ==
  ASSUME GrantInv, GrantTypes', NEW a \in Actors, NEW s \in Stage,
         NEW g, NEW b, Session(a, s, g, b), Brings(a, s, g, b), Harmless(a, s)
  PROVE  GrantInv'
<1>. GrantTypes
  BY DEF GrantInv
<1>1. /\ pc'[a] = s
      /\ \A o \in Actors \ {a} :
           pc'[o] = pc[o] /\ copy'[o] = copy[o] /\ bundle'[o] = bundle[o]
  BY SessionMoves
<1>2. SessionsSafe' /\ ConsentsApart' /\ (~spoiled' => ConsentsWork')
  BY BringsKeeps
<1>3. ASSUME ~spoiled'
      PROVE  StoredWorks' /\ RotatedWorks'
  <2>1. /\ pc[a] # "store" /\ s # "store"
        /\ ~(a \in Removers /\ pc[a] = "settle" /\ bundle[a].ok)
        /\ valid \subseteq valid'
        /\ grant'.status = "connected" =>
             grant.status = "connected" /\ grant'.refresh = grant.refresh
        /\ StoredWorks /\ RotatedWorks
    BY <1>3 DEF Harmless, GrantInv, Brings
  <2>2. Refreshers \subseteq Actors /\ Removers \subseteq Actors
    BY Roles DEF Revokers
  <2>3. Withdrawn => Withdrawn'
    BY <1>1, <2>1, <2>2 DEF Withdrawn
  <2>4. \A o \in Refreshers : /\ pc'[o] = "store" <=> pc[o] = "store"
                              /\ pc[o] = "store" => bundle'[o] = bundle[o]
    BY <1>1, <2>1, <2>2
  <2>. QED BY <2>1, <2>3, <2>4 DEF StoredWorks, RotatedWorks
<1>. QED BY <1>2, <1>3 DEF GrantInv

\* One call of an actor, and all that is to be shown of it.
LEMMA CallKeeps ==
  ASSUME GrantInv, NEW a \in Actors, NEW s \in Stage,
         NEW g, NEW b, Session(a, s, g, b),
         ProviderTypes', issued' >= issued, g \in RowTypes', b \in AnswerTypes', grant' \in RowTypes',
         connections' \subseteq Connections, LockMoves(a, s), lock' = a => a \in Refreshers,
         Brings(a, s, g, b), Harmless(a, s)
  PROVE  GrantInv'
<1>1. GrantTypes'
  BY SessionTypes DEF GrantInv
<1>. QED BY <1>1, HarmlessKeeps

LEMMA CallStages ==
  /\ {"idle", "lock", "exchange", "store", "sync", "reauth", "delete", "delete_last", "revoke",
      "settle", "code", "connect", "done"} \subseteq Stage
  /\ \A a : Resting(a) \in {"idle", "done"} /\ Resting(a) \in Stage
  BY DEF Stage, Resting

\* The facts that every step starts from.
LEMMA Before ==
  ASSUME GrantInv
  PROVE  /\ GrantTypes /\ ProviderTypes /\ connections \subseteq Connections
         /\ issued \in Nat /\ dead \in 0 .. issued /\ valid \subseteq 1 .. issued
         /\ grant \in RowTypes
         /\ lock \in Refreshers \cup {Nobody} /\ Nobody \notin Refreshers
         /\ \A a \in Actors :
              /\ copy[a] \in RowTypes /\ bundle[a] \in AnswerTypes
              /\ SessionSafe(a, pc[a], copy[a], bundle[a], grant)
         /\ \A a \in Refreshers : pc[a] \in {"exchange", "store"} => lock = a
         /\ lock # Nobody => pc[lock] \in {"exchange", "store"}
<1>1. GrantTypes
  BY DEF GrantInv
<1>. QED BY <1>1, TokenFacts, Roles DEF GrantInv, GrantTypes, TypeOK, ProviderTypes, SessionsSafe

\* The provider and the row stay as they are.  Connections may go.
Still == UNCHANGED <<valid, issued, dead, grant>> /\ connections' \subseteq Connections

\* A step that changes neither the provider nor the row: all that is to be shown is of
\* the actor's own session.
LEMMA StillKeeps ==
  ASSUME GrantInv, NEW a \in Actors, NEW s \in Stage,
         NEW g \in RowTypes, NEW b \in AnswerTypes, Session(a, s, g, b), Still,
         runs' \in 0 .. MaxRuns, events' \in 0 .. MaxEvents, spoiled' \in BOOLEAN,
         spoiled => spoiled',
         LockMoves(a, s), lock' = a => a \in Refreshers,
         s \notin {"connect", "store"}, SessionSafe(a, s, g, b, grant),
         g.refresh \in {0, grant.refresh, copy[a].refresh},
         b.refresh \in {0, bundle[a].refresh},
         pc[a] = "store" => spoiled',
         ~(a \in Removers /\ pc[a] = "settle")
  PROVE  GrantInv'
<1>1. /\ ProviderTypes /\ issued \in Nat /\ dead \in 0 .. issued /\ grant \in RowTypes
  BY Before
<1>2. RowTypes' = RowTypes /\ AnswerTypes' = AnswerTypes
  BY DEF Still, RowTypes, AnswerTypes, Tokens, Grant, Bundle
<1>3. ProviderTypes' /\ issued' >= issued /\ g \in RowTypes' /\ b \in AnswerTypes'
      /\ grant' \in RowTypes' /\ connections' \subseteq Connections
  BY <1>1, <1>2 DEF Still, ProviderTypes
<1>4. Brings(a, s, g, b)
  BY <1>1 DEF Brings, Still
<1>5. Harmless(a, s)
  BY DEF Harmless, Still
<1>. QED BY <1>3, <1>4, <1>5, CallKeeps

\* What every step under StillKeeps leaves alone.
Bounds == /\ runs' \in 0 .. MaxRuns /\ events' \in 0 .. MaxEvents
          /\ spoiled' \in BOOLEAN /\ (spoiled => spoiled')

LEMMA BoundsKept ==
  ASSUME GrantInv,
         runs' = runs \/ (runs < MaxRuns /\ runs' = runs + 1),
         events' = events \/ Occurs,
         spoiled' = spoiled \/ spoiled' = TRUE
  PROVE  Bounds
<1>1. ProviderTypes
  BY Before
<1>2. MaxRuns \in Nat /\ MaxEvents \in Nat
  BY GrantAssumption
<1>3. runs' \in 0 .. MaxRuns /\ events' \in 0 .. MaxEvents
  <2>1. runs \in 0 .. MaxRuns /\ events \in 0 .. MaxEvents
    BY <1>1 DEF ProviderTypes
  <2>. QED BY <1>2, <2>1 DEF Occurs
<1>4. spoiled' \in BOOLEAN /\ (spoiled => spoiled')
  BY <1>1 DEF ProviderTypes
<1>. QED BY <1>3, <1>4 DEF Bounds

LEMMA ExchangeEnds ==
  ASSUME GrantInv, NEW a \in Refreshers,
         ExchangeRefused(a) \/ ExchangeFails(a)
  PROVE  GrantInv'
<1>0. a \in Actors /\ a \notin Removers /\ a # Dispatcher
  BY Roles DEF Revokers
<1>1. PICK s \in {Resting(a), "reauth"} :
        /\ GivesUp(a, s)
        /\ pc[a] = "exchange"
        /\ Still /\ Bounds
  <2>1. connections \subseteq Connections
    BY Before
  <2>2. CASE ExchangeRefused(a)
    <3>1. Bounds
      BY <2>2, BoundsKept DEF ExchangeRefused, faults
    <3>. QED BY <2>1, <2>2, <3>1 DEF ExchangeRefused, Still, provider
  <2>3. CASE ExchangeFails(a)
    <3>1. Bounds
      BY <2>3, BoundsKept DEF ExchangeFails
    <3>. QED BY <2>1, <2>3, <3>1 DEF ExchangeFails, Still, provider
  <2>. QED BY <2>2, <2>3
<1>2. lock = a /\ Nobody # a
  BY <1>1, Before
<1>3. s \in {"idle", "done", "reauth"} /\ s \in Stage
  BY CallStages
<1>4. /\ NoGrant \in RowTypes /\ NoGrant.refresh = 0
      /\ Failure \in AnswerTypes /\ Failure.refresh = 0
  BY Before, EmptySession
<1>5. LockMoves(a, s) /\ lock' # a
  BY <1>1, <1>2, <1>3 DEF LockMoves, GivesUp
<1>6. SessionSafe(a, s, NoGrant, Failure, grant)
  BY <1>0, <1>3 DEF SessionSafe
<1>7. Session(a, s, NoGrant, Failure)
  BY <1>1 DEF GivesUp
<1>. QED BY <1>0, <1>1, <1>3, <1>4, <1>5, <1>6, <1>7, StillKeeps DEF Bounds

\* The provider replaced the credential and nobody here knows the new one.
LEMMA RotationLostKeeps ==
  ASSUME GrantInv, NEW a \in Refreshers, RotationLost(a)
  PROVE  GrantInv'
<1>0. a \in Actors /\ a \notin Removers /\ a # Dispatcher
  BY Roles DEF Revokers
<1> DEFINE s == Resting(a)
<1>1. s \in {"idle", "done"} /\ s \in Stage
  BY CallStages
<1>. HIDE DEF s
<1>2. /\ issued' = issued + 1 /\ valid' = (valid \ {copy[a].refresh}) \cup {issued + 1}
      /\ UNCHANGED <<grant, connections, dead>> /\ spoiled' = TRUE
      /\ Session(a, s, NoGrant, Failure) /\ lock' = Nobody
      /\ pc[a] = "exchange"
  BY DEF RotationLost, GivesUp, s
<1>3. /\ issued \in Nat /\ dead \in 0 .. issued /\ valid \subseteq 1 .. issued /\ grant \in RowTypes
      /\ connections \subseteq Connections /\ lock = a /\ Nobody # a
  BY <1>2, Before
<1>4. Bounds
  BY <1>2, BoundsKept DEF RotationLost
<1>5. ProviderTypes' /\ issued' >= issued /\ issued' \in Nat
  <2>1. issued' \in Nat /\ issued' >= issued /\ dead' \in 0 .. issued'
    BY <1>2, <1>3
  <2>2. valid' \subseteq 1 .. issued'
    <3>1. 1 .. issued \subseteq 1 .. issued' /\ issued + 1 \in 1 .. issued'
      BY <1>2, <1>3
    <3>. QED BY <1>2, <1>3, <3>1
  <2>. QED BY <1>4, <2>1, <2>2 DEF ProviderTypes, Bounds
<1>6. RowTypes \subseteq RowTypes' /\ AnswerTypes \subseteq AnswerTypes'
  BY <1>3, <1>5, TokensGrow
<1>7. /\ NoGrant \in RowTypes' /\ NoGrant.refresh = 0
      /\ Failure \in AnswerTypes' /\ Failure.refresh = 0 /\ grant' \in RowTypes'
  BY <1>2, <1>3, <1>6, EmptySession
<1>8. LockMoves(a, s) /\ lock' # a
  BY <1>1, <1>2, <1>3 DEF LockMoves
<1>9. Brings(a, s, NoGrant, Failure)
  <2>1. SessionSafe(a, s, NoGrant, Failure, grant')
    BY <1>0, <1>1 DEF SessionSafe
  <2>. QED BY <1>1, <1>2, <1>3, <1>7, <2>1 DEF Brings
<1>10. Harmless(a, s)
  BY <1>2 DEF Harmless
<1>11. connections' \subseteq Connections
  BY <1>2, <1>3
<1>. QED BY <1>0, <1>1, <1>2, <1>5, <1>7, <1>8, <1>9, <1>10, <1>11, CallKeeps

\* A stored access token that is used as it is.
LEMMA StoredAnswer ==
  ASSUME issued \in Nat, NEW x \in Tokens
  PROVE  LET b == [Done EXCEPT !.access = x]
         IN b \in AnswerTypes /\ b.refresh = 0
<1> DEFINE b == [Done EXCEPT !.access = x]
<1>1. Done \in Bundle /\ Done.refresh = 0
  BY DEF Done, Bundle, NoToken
<1>2. x \in Nat /\ 0 \in Tokens
  BY DEF Tokens
<1>3. b \in Bundle /\ b.refresh = 0 /\ b.access = x
  BY <1>1, <1>2 DEF Bundle
<1>. HIDE DEF b
<1>4. b \in AnswerTypes /\ b.refresh = 0
  BY <1>2, <1>3 DEF AnswerTypes
<1>. QED BY <1>4 DEF b

\* A worker's run: it begins, takes the stored token or the lock, syncs, or dies.
LEMMA WorkerKeeps ==
  ASSUME GrantInv, NEW w \in Workers,
         Begin(w) \/ WorkerLocks(w) \/ Sync(w) \/ WorkerDies(w)
  PROVE  GrantInv'
<1>0. /\ w \in Actors /\ w \in Refreshers /\ w \notin Removers /\ w # Dispatcher
      /\ w # Nobody
  BY Roles DEF Revokers, Refreshers
<1>1. /\ GrantTypes /\ issued \in Nat /\ grant \in RowTypes /\ copy[w] \in RowTypes
      /\ bundle[w] \in AnswerTypes /\ connections \subseteq Connections
      /\ lock \in Refreshers \cup {Nobody}
      /\ pc[w] \in {"exchange", "store"} => lock = w
      /\ lock # Nobody => pc[lock] \in {"exchange", "store"}
  BY <1>0, Before
<1>2. /\ NoGrant \in RowTypes /\ NoGrant.refresh = 0
      /\ Failure \in AnswerTypes /\ Failure.refresh = 0
  BY <1>1, EmptySession
<1>3. /\ Still
      /\ pc[w] = "store" => spoiled'
      /\ runs' = runs \/ (runs < MaxRuns /\ runs' = runs + 1)
      /\ events' = events \/ Occurs
      /\ spoiled' = spoiled \/ spoiled' = TRUE
  <2>1. CASE Begin(w)
    BY <1>1, <2>1 DEF Still, Begin, provider
  <2>2. CASE WorkerLocks(w)
    BY <1>1, <2>2 DEF Still, WorkerLocks, provider, faults
  <2>3. CASE Sync(w)
    BY <1>1, <2>3 DEF Still, Sync, provider, faults
  <2>4. CASE WorkerDies(w)
    <3>1. CASE pc[w] = "store"
      <4>1. spoiled' = TRUE
        BY <2>4, <3>1 DEF WorkerDies
      <4>. QED BY <1>1, <2>4, <4>1 DEF Still, WorkerDies, provider
    <3>2. CASE pc[w] # "store"
      <4>1. spoiled' = spoiled
        <5>1. spoiled \in BOOLEAN
          BY Before DEF ProviderTypes
        <5>. QED BY <2>4, <3>2, <5>1 DEF WorkerDies
      <4>. QED BY <1>1, <2>4, <3>2, <4>1 DEF Still, WorkerDies, provider
    <3>. QED BY <3>1, <3>2
  <2>. QED BY <2>1, <2>2, <2>3, <2>4
<1>4. Bounds
  BY <1>3, BoundsKept
<1>5. CASE Begin(w)
  <2>1. Session(w, "lock", copy[w], bundle[w]) /\ lock' = lock /\ pc[w] = "idle"
    BY <1>5 DEF Begin, GoTo
  <2>2. LockMoves(w, "lock") /\ (lock' = w => w \in Refreshers) /\ "lock" \in Stage
    BY <1>0, <1>1, <2>1, CallStages DEF LockMoves
  <2>3. SessionSafe(w, "lock", copy[w], bundle[w], grant)
    BY <1>0 DEF SessionSafe
  <2>. QED BY <1>0, <1>1, <1>3, <1>4, <2>1, <2>2, <2>3, StillKeeps DEF Bounds
<1>6. CASE WorkerLocks(w)
  <2>1. pc[w] = "lock" /\ lock = Nobody
    BY <1>6 DEF WorkerLocks
  <2>2. CASE UsesStored(w) /\ lock' = lock
    <3> DEFINE b == [Done EXCEPT !.access = grant.access]
    <3>1. b \in AnswerTypes /\ b.refresh = 0
      <4>1. grant.access \in Tokens
        BY <1>1, TokenFacts DEF Tokens
      <4>. QED BY <1>1, <4>1, StoredAnswer
    <3>2. Session(w, "sync", NoGrant, b)
      BY <2>2 DEF UsesStored
    <3>. HIDE DEF b
    <3>3. LockMoves(w, "sync") /\ (lock' = w => w \in Refreshers) /\ "sync" \in Stage
      BY <1>0, <2>1, <2>2, CallStages DEF LockMoves
    <3>4. SessionSafe(w, "sync", NoGrant, b, grant)
      BY <1>0 DEF SessionSafe
    <3>. QED BY <1>0, <1>1, <1>2, <1>3, <1>4, <2>1, <3>1, <3>2, <3>3, <3>4, StillKeeps DEF Bounds
  <2>3. CASE Session(w, "reauth", NoGrant, Failure) /\ lock' = lock
    <3>1. LockMoves(w, "reauth") /\ (lock' = w => w \in Refreshers) /\ "reauth" \in Stage
      BY <1>0, <2>1, <2>3, CallStages DEF LockMoves
    <3>2. SessionSafe(w, "reauth", NoGrant, Failure, grant)
      BY <1>0 DEF SessionSafe
    <3>. QED BY <1>0, <1>1, <1>2, <1>3, <1>4, <2>1, <2>3, <3>1, <3>2, StillKeeps DEF Bounds
  <2>4. CASE ~grant.fresh /\ grant.refresh # 0 /\ Load(w, "exchange") /\ lock' = w
    <3>1. LockMoves(w, "exchange") /\ "exchange" \in Stage
      BY <1>0, <2>1, <2>4, CallStages DEF LockMoves
    <3>2. SessionSafe(w, "exchange", grant, bundle[w], grant)
      BY <1>0, <2>4 DEF SessionSafe
    <3>3. Session(w, "exchange", grant, bundle[w])
      BY <2>4 DEF Load
    <3>. QED BY <1>0, <1>1, <1>3, <1>4, <2>1, <3>1, <3>2, <3>3, StillKeeps DEF Bounds
  <2>. QED BY <1>6, <2>2, <2>3, <2>4 DEF WorkerLocks, NoToken
<1>7. CASE Sync(w)
  <2>1. PICK s \in {"idle", "reauth"} : Session(w, s, NoGrant, Failure)
    BY <1>7 DEF Sync
  <2>2. lock' = lock /\ pc[w] = "sync"
    BY <1>7 DEF Sync
  <2>3. LockMoves(w, s) /\ (lock' = w => w \in Refreshers) /\ s \in Stage
    BY <1>0, <1>1, <2>2, CallStages DEF LockMoves
  <2>4. SessionSafe(w, s, NoGrant, Failure, grant)
    BY <1>0 DEF SessionSafe
  <2>. QED BY <1>0, <1>1, <1>2, <1>3, <1>4, <2>1, <2>2, <2>3, <2>4, StillKeeps DEF Bounds
<1>8. CASE WorkerDies(w)
  <2>1. Session(w, "idle", copy[w], bundle[w]) /\ lock' = IF lock = w THEN Nobody ELSE lock
    BY <1>8 DEF WorkerDies, GoTo
  <2>2. LockMoves(w, "idle") /\ (lock' = w => w \in Refreshers) /\ "idle" \in Stage
    BY <1>0, <1>1, <2>1, CallStages DEF LockMoves
  <2>3. SessionSafe(w, "idle", copy[w], bundle[w], grant)
    BY <1>0 DEF SessionSafe
  <2>. QED BY <1>0, <1>1, <1>3, <1>4, <2>1, <2>2, <2>3, StillKeeps DEF Bounds
<1>. QED BY <1>5, <1>6, <1>7, <1>8

\* A caller presents what it loaded before it had the lock.
LEMMA CallerKeeps ==
  ASSUME GrantInv, NEW c \in Callers, CallerReads(c) \/ CallerLocks(c)
  PROVE  GrantInv'
<1>0. /\ c \in Actors /\ c \in Refreshers /\ c \notin Removers /\ c # Dispatcher
      /\ c # Nobody /\ c \notin Workers
  BY Roles DEF Revokers, Refreshers, Requests
<1>1. /\ GrantTypes /\ issued \in Nat /\ grant \in RowTypes /\ copy[c] \in RowTypes
      /\ bundle[c] \in AnswerTypes /\ connections \subseteq Connections
      /\ lock \in Refreshers \cup {Nobody}
      /\ lock # Nobody => pc[lock] \in {"exchange", "store"}
  BY <1>0, Before
<1>2. /\ Still /\ pc[c] \in {"idle", "lock"}
      /\ runs' = runs /\ events' = events /\ spoiled' = spoiled
  BY <1>1 DEF Still, CallerReads, CallerLocks, provider, faults
<1>3. Bounds
  BY <1>2, BoundsKept
<1>4. CASE CallerReads(c)
  <2>1. Session(c, "lock", grant, bundle[c]) /\ lock' = lock
    BY <1>4 DEF CallerReads, Load
  <2>2. LockMoves(c, "lock") /\ (lock' = c => c \in Refreshers) /\ "lock" \in Stage
    BY <1>0, <1>1, <1>2, <2>1, CallStages DEF LockMoves
  <2>3. SessionSafe(c, "lock", grant, bundle[c], grant)
    BY <1>0 DEF SessionSafe
  <2>. QED BY <1>0, <1>1, <1>2, <1>3, <2>1, <2>2, <2>3, StillKeeps DEF Bounds
<1>5. CASE CallerLocks(c)
  <2>1. PICK s \in {"done", "exchange"} :
          /\ Session(c, s, copy[c], bundle[c])
          /\ s = "exchange" => copy[c].refresh # 0 /\ lock' = c
          /\ s = "done" => lock' = lock
          /\ lock = Nobody
    BY <1>5 DEF CallerLocks, GoTo, NoToken
  <2>2. LockMoves(c, s) /\ (lock' = c => c \in Refreshers) /\ s \in Stage
    BY <1>0, <1>1, <2>1, CallStages DEF LockMoves
  <2>3. SessionSafe(c, s, copy[c], bundle[c], grant)
    BY <1>0, <2>1 DEF SessionSafe
  <2>. QED BY <1>0, <1>1, <1>2, <1>3, <2>1, <2>2, <2>3, StillKeeps DEF Bounds
<1>. QED BY <1>4, <1>5

LEMMA RequestRoles ==
  /\ \A k \in Callbacks : /\ k \in Actors /\ k \notin Removers /\ k # Dispatcher
                          /\ k \notin Refreshers /\ k \notin Workers
                          /\ Resting(k) = "done"
  /\ \A d \in Removers : /\ d \in Actors /\ d # Dispatcher /\ d \notin Callbacks
                         /\ d \notin Refreshers /\ d \notin Workers
                         /\ Resting(d) = "done"
  /\ Dispatcher \in Actors /\ Dispatcher \notin Removers
  /\ Dispatcher \notin Refreshers /\ Dispatcher \notin Workers
  /\ Resting(Dispatcher) = "idle"
  BY GrantAssumption DEF Refreshers, Requests, Actors, Resting

\* A step of an actor that refreshes nothing leaves the lock alone.
LEMMA LockStays ==
  ASSUME GrantInv, NEW a \in Actors, a \notin Refreshers,
         lock' = lock, NEW s
  PROVE  LockMoves(a, s) /\ (lock' = a => a \in Refreshers)
<1>1. lock \in Refreshers \cup {Nobody} /\ a # Nobody
  BY Before, Roles
<1>. QED BY <1>1 DEF LockMoves

\* While nobody holds the lock no rotated bundle waits to be stored.
LEMMA NothingToStore ==
  ASSUME GrantInv, lock = Nobody
  PROVE  \A a \in Refreshers : pc[a] \notin {"exchange", "store"}
  BY Before

\* A consent's state is consumed; its code buys a credential nobody else has.
LEMMA CallbackKeeps ==
  ASSUME GrantInv, NEW k \in Callbacks,
         ConsumesState(k) \/ ExchangesCode(k)
  PROVE  GrantInv'
<1>0. /\ k \in Actors /\ k \notin Removers /\ k # Dispatcher /\ k \notin Refreshers
      /\ k \notin Workers /\ Resting(k) = "done"
  BY RequestRoles
<1>1. /\ GrantTypes /\ issued \in Nat /\ dead \in 0 .. issued /\ valid \subseteq 1 .. issued
      /\ grant \in RowTypes /\ copy[k] \in RowTypes /\ bundle[k] \in AnswerTypes
      /\ connections \subseteq Connections
  BY <1>0, Before
<1>2. lock' = lock /\ runs' = runs /\ spoiled' = spoiled /\ UNCHANGED <<grant, connections>>
  BY DEF ConsumesState, ExchangesCode, faults
<1>3. Bounds
  <2>1. events' = events \/ Occurs
    BY DEF ConsumesState, ExchangesCode, faults
  <2>. QED BY <1>2, <2>1, BoundsKept
<1>4. CASE \E s \in {"code", "done"} : /\ Session(k, s, copy[k], bundle[k])
                                       /\ UNCHANGED provider /\ pc[k] \in {"idle", "code"}
  <2>1. PICK s \in {"code", "done"} : /\ Session(k, s, copy[k], bundle[k])
                                      /\ UNCHANGED provider /\ pc[k] \in {"idle", "code"}
    BY <1>4
  <2>2. s \in Stage /\ SessionSafe(k, s, copy[k], bundle[k], grant)
    BY <1>0, CallStages DEF SessionSafe
  <2>3. LockMoves(k, s) /\ (lock' = k => k \in Refreshers)
    BY <1>0, <1>2, LockStays
  <2>4. Still
    BY <1>1, <1>2, <2>1 DEF Still, provider
  <2>. QED BY <1>0, <1>1, <1>3, <2>1, <2>2, <2>3, <2>4, StillKeeps DEF Bounds
<1>5. CASE /\ pc[k] = "code" /\ issued' = issued + 1 /\ valid' = valid \cup {issued + 1}
           /\ dead' = dead
           /\ Session(k, "connect", copy[k],
                            [ok |-> TRUE, refresh |-> issued + 1, access |-> issued + 1])
  <2> DEFINE b == [ok |-> TRUE, refresh |-> issued + 1, access |-> issued + 1]
  <2>1. /\ b \in AnswerTypes' /\ b.refresh = issued + 1 /\ b.access = issued + 1
        /\ RowTypes \subseteq RowTypes'
    <3>1. issued' \in Nat /\ issued' >= issued /\ issued + 1 \in 0 .. issued' /\ issued + 1 \in Nat
      BY <1>1, <1>5
    <3>2. b \in Bundle /\ b.refresh = issued + 1 /\ b.access = issued + 1
      BY <3>1 DEF Bundle
    <3>3. AnswerTypes' = {x \in Bundle : x.refresh \in 0 .. issued' /\ x.access \in 0 .. issued'}
      BY DEF AnswerTypes, Bundle, Tokens
    <3>. HIDE DEF b
    <3>. QED BY <1>1, <3>1, <3>2, <3>3, TokensGrow
  <2>. HIDE DEF b
  <2>2. Session(k, "connect", copy[k], b)
    BY <1>5 DEF b
  <2>3. ProviderTypes' /\ issued' >= issued
    <3>1. issued' \in Nat /\ issued' >= issued /\ dead' \in 0 .. issued'
      BY <1>1, <1>5
    <3>2. valid' \subseteq 1 .. issued'
      <4>1. 1 .. issued \subseteq 1 .. issued' /\ issued + 1 \in 1 .. issued'
        BY <1>1, <1>5
      <4>. QED BY <1>1, <1>5, <4>1
    <3>. QED BY <1>3, <3>1, <3>2 DEF ProviderTypes, Bounds
  <2>4. LockMoves(k, "connect") /\ (lock' = k => k \in Refreshers)
    BY <1>0, <1>2, LockStays
  <2>5. SessionSafe(k, "connect", copy[k], b, grant')
    BY <1>0, <1>1, <2>1 DEF SessionSafe
  <2>6. Brings(k, "connect", copy[k], b)
    BY <1>1, <1>2, <1>5, <2>1, <2>5 DEF Brings
  <2>7. Harmless(k, "connect")
    BY <1>0, <1>2, <1>5 DEF Harmless
  <2>8. "connect" \in Stage /\ grant' \in RowTypes' /\ copy[k] \in RowTypes'
        /\ connections' \subseteq Connections
    BY <1>1, <1>2, <2>1, CallStages
  <2>. QED BY <1>0, <2>1, <2>2, <2>3, <2>4, <2>6, <2>7, <2>8, CallKeeps
<1>. QED
  BY <1>4, <1>5 DEF ConsumesState, ExchangesCode, GoTo, Answer

\* A revoked row holds no token.
LEMMA RevokedRow ==
  ASSUME issued \in Nat, NEW g \in RowTypes
  PROVE  /\ Revoked(g) \in RowTypes /\ Revoked(g).status = "revoked"
         /\ Revoked(g).refresh = 0 /\ Revoked(g).access = 0
         /\ Revoked(g).fresh = FALSE
<1> DEFINE r == Revoked(g)
<1>1. g \in Grant /\ 0 \in Tokens
  BY DEF RowTypes, Tokens
<1>2. /\ r.status = "revoked" /\ r.refresh = 0 /\ r.access = 0 /\ r.fresh = FALSE
      /\ r \in Grant
  BY <1>1 DEF Revoked, Grant, NoToken
<1>. HIDE DEF r
<1>3. r \in RowTypes
  BY <1>1, <1>2 DEF RowTypes
<1>. QED BY <1>2, <1>3 DEF r

\* A disconnect up to its revocation, and the revocations that fail.
LEMMA RemoverKeeps ==
  ASSUME GrantInv, NEW d \in Removers,
         RemoverReads(d) \/ Deletes(d)
  PROVE  GrantInv'
<1>0. /\ d \in Actors /\ d # Dispatcher /\ d \notin Callbacks /\ d \notin Refreshers
      /\ d \notin Workers /\ Resting(d) = "done"
  BY RequestRoles
<1>1. /\ GrantTypes /\ grant \in RowTypes /\ copy[d] \in RowTypes /\ bundle[d] \in AnswerTypes
      /\ connections \subseteq Connections
  BY <1>0, Before
<1>2. PICK s \in {"delete", "delete_last", "done", "revoke"}, g \in {grant, copy[d]} :
        /\ Session(d, s, g, bundle[d])
        /\ Still /\ lock' = lock /\ pc[d] \in {"idle", "delete", "delete_last"}
  <2>1. CASE RemoverReads(d)
    BY <1>1, <2>1 DEF RemoverReads, Load, Still, provider
  <2>2. CASE Deletes(d)
    BY <1>1, <2>2 DEF Deletes, GoTo, Still, provider
  <2>. QED BY <2>1, <2>2
<1>3. Bounds
  <2>1. runs' = runs /\ events' = events /\ spoiled' = spoiled
    BY DEF RemoverReads, Deletes, faults
  <2>. QED BY <2>1, BoundsKept
<1>4. s \in Stage /\ SessionSafe(d, s, g, bundle[d], grant)
  BY <1>0, CallStages DEF SessionSafe
<1>5. LockMoves(d, s) /\ (lock' = d => d \in Refreshers)
  BY <1>0, <1>2, LockStays
<1>. QED BY <1>0, <1>1, <1>2, <1>3, <1>4, <1>5, StillKeeps DEF Bounds

LEMMA RevokerRoles ==
  ASSUME NEW a \in Revokers
  PROVE  a \in Actors /\ a \notin Refreshers /\ a \notin Workers /\ a \notin Callbacks
  BY RequestRoles, Roles DEF Revokers

LEMMA RevokeFailsKeeps ==
  ASSUME GrantInv, NEW a \in Revokers, RevokeFails(a)
  PROVE  GrantInv'
<1>1. a \in Actors /\ a \notin Refreshers /\ a \notin Workers
  BY RevokerRoles
<1>2. /\ GrantTypes /\ issued \in Nat /\ copy[a] \in RowTypes /\ bundle[a] \in AnswerTypes
      /\ connections \subseteq Connections
      /\ SessionSafe(a, pc[a], copy[a], bundle[a], grant)
  BY <1>1, Before
<1>3. /\ Session(a, "settle", copy[a], Failure) /\ pc[a] = "revoke" /\ lock' = lock
      /\ Still
  BY <1>2 DEF RevokeFails, Answer, Still, provider
<1>4. Failure \in AnswerTypes /\ Failure.refresh = 0 /\ ~Failure.ok
  BY <1>2, EmptySession
<1>5. Bounds
  <2>1. runs' = runs /\ spoiled' = spoiled
    BY DEF RevokeFails
  <2>2. events' = events \/ Occurs
    BY DEF RevokeFails
  <2>. QED BY <2>1, <2>2, BoundsKept
<1>6. "settle" \in Stage /\ SessionSafe(a, "settle", copy[a], Failure, grant)
  BY <1>1, <1>2, <1>3, <1>4, CallStages DEF SessionSafe
<1>7. LockMoves(a, "settle") /\ (lock' = a => a \in Refreshers)
  BY <1>1, <1>3, LockStays
<1>. QED BY <1>1, <1>2, <1>3, <1>4, <1>5, <1>6, <1>7, StillKeeps DEF Bounds

\* The provider took every credential back.
TakenBack == valid' = {} /\ dead' = issued /\ issued' = issued

LEMMA TakenBackTypes ==
  ASSUME GrantInv, TakenBack, Bounds
  PROVE  /\ ProviderTypes' /\ issued' >= issued /\ dead' >= dead
         /\ RowTypes' = RowTypes /\ AnswerTypes' = AnswerTypes
<1>1. issued \in Nat /\ dead \in 0 .. issued
  BY Before
<1>2. ProviderTypes' /\ issued' >= issued /\ dead' >= dead
  <2>1. issued' \in Nat /\ valid' \subseteq 1 .. issued' /\ dead' \in 0 .. issued' /\ dead' >= dead
        /\ issued' >= issued
    BY <1>1 DEF TakenBack
  <2>. QED BY <2>1 DEF ProviderTypes, Bounds
<1>3. RowTypes' = RowTypes /\ AnswerTypes' = AnswerTypes
  BY DEF TakenBack, RowTypes, AnswerTypes, Tokens, Grant, Bundle
<1>. QED BY <1>2, <1>3

LEMMA RevocationLostKeeps ==
  ASSUME GrantInv, NEW a \in Revokers, RevocationLost(a)
  PROVE  GrantInv'
<1>1. a \in Actors /\ a \notin Refreshers /\ a \notin Workers
  BY RevokerRoles
<1>2. /\ GrantTypes /\ issued \in Nat /\ copy[a] \in RowTypes /\ grant \in RowTypes
      /\ connections \subseteq Connections
      /\ SessionSafe(a, pc[a], copy[a], bundle[a], grant)
  BY <1>1, Before
<1>3. /\ Session(a, "settle", copy[a], Failure) /\ pc[a] = "revoke" /\ lock' = lock
      /\ TakenBack /\ spoiled' = TRUE /\ UNCHANGED <<grant, connections, runs>> /\ Occurs
  BY DEF RevocationLost, Answer, TakenBack
<1>4. Failure \in AnswerTypes /\ Failure.refresh = 0 /\ ~Failure.ok
  BY <1>2, EmptySession
<1>5. /\ ProviderTypes' /\ issued' >= issued /\ dead' >= dead
      /\ RowTypes' = RowTypes /\ AnswerTypes' = AnswerTypes
  <2>1. Bounds
    BY <1>3, BoundsKept
  <2>. QED BY <1>3, <2>1, TakenBackTypes
<1>6. "settle" \in Stage /\ SessionSafe(a, "settle", copy[a], Failure, grant')
  BY <1>1, <1>2, <1>3, <1>4, CallStages DEF SessionSafe
<1>7. LockMoves(a, "settle") /\ (lock' = a => a \in Refreshers)
  BY <1>1, <1>3, LockStays
<1>8. Brings(a, "settle", copy[a], Failure)
  BY <1>3, <1>4, <1>5, <1>6 DEF Brings, TakenBack
<1>9. Harmless(a, "settle")
  BY <1>3 DEF Harmless
<1>10. grant' \in RowTypes' /\ copy[a] \in RowTypes' /\ Failure \in AnswerTypes'
       /\ connections' \subseteq Connections
  BY <1>2, <1>3, <1>4, <1>5
<1>. QED BY <1>1, <1>3, <1>5, <1>6, <1>7, <1>8, <1>9, <1>10, CallKeeps

\* The retry loads a row that is pending, and applies its outcome only to such a row.
LEMMA DispatcherKeeps ==
  ASSUME GrantInv, DispatcherReads \/ DispatcherSettles
  PROVE  GrantInv'
<1>0. /\ Dispatcher \in Actors /\ Dispatcher \notin Removers
      /\ Dispatcher \notin Refreshers /\ Dispatcher \notin Workers
      /\ Resting(Dispatcher) = "idle"
  BY RequestRoles
<1>1. /\ GrantTypes /\ ProviderTypes /\ issued \in Nat /\ dead \in 0 .. issued
      /\ grant \in RowTypes /\ copy[Dispatcher] \in RowTypes
      /\ bundle[Dispatcher] \in AnswerTypes /\ connections \subseteq Connections
  BY <1>0, Before
<1>2. /\ UNCHANGED <<connections, lock, valid, issued, dead, runs, events, spoiled>>
  BY DEF DispatcherReads, DispatcherSettles, provider, faults
<1>3. Bounds
  BY <1>2, BoundsKept
<1>4. CASE DispatcherReads
  <2>1. /\ pc[Dispatcher] = "idle" /\ grant.status = "pending_revocation" /\ Still
    BY <1>1, <1>2, <1>4 DEF DispatcherReads, Still
  <2>2. PICK s \in {"settle", "revoke"}, b \in {Done, bundle[Dispatcher]} :
          Session(Dispatcher, s, grant, b)
    BY <1>4 DEF DispatcherReads, Load
  <2>3. b \in AnswerTypes /\ b.refresh \in {0, bundle[Dispatcher].refresh}
    BY <1>1, EmptySession
  <2>4. s \in Stage /\ SessionSafe(Dispatcher, s, grant, b, grant)
    BY <1>0, <2>1, CallStages DEF SessionSafe
  <2>5. LockMoves(Dispatcher, s) /\ (lock' = Dispatcher => Dispatcher \in Refreshers)
    BY <1>0, <1>2, LockStays
  <2>. QED BY <1>0, <1>1, <1>3, <2>1, <2>2, <2>3, <2>4, <2>5, StillKeeps DEF Bounds
<1>5. CASE DispatcherSettles
  <2>1. /\ pc[Dispatcher] = "settle" /\ lock = Nobody
        /\ Session(Dispatcher, "idle", copy[Dispatcher], bundle[Dispatcher])
        /\ grant' = RetryOutcome(grant, bundle[Dispatcher].ok)
    BY <1>5 DEF DispatcherSettles, GoTo
  <2>2. RowTypes' = RowTypes /\ AnswerTypes' = AnswerTypes
    BY <1>2 DEF RowTypes, AnswerTypes, Tokens, Grant, Bundle
  <2>3. grant' = grant \/ (/\ grant' \in RowTypes /\ grant'.status = "revoked" /\ grant'.refresh = 0)
    <3>1. Revoked(grant) \in RowTypes /\ Revoked(grant).status = "revoked"
          /\ Revoked(grant).refresh = 0
      BY <1>1, RevokedRow
    <3>. QED BY <2>1, <3>1 DEF RetryOutcome
  <2>4. SessionSafe(Dispatcher, "idle", copy[Dispatcher], bundle[Dispatcher], grant')
    BY <1>0 DEF SessionSafe
  <2>5. Brings(Dispatcher, "idle", copy[Dispatcher], bundle[Dispatcher])
    BY <1>1, <1>2, <2>1, <2>3, <2>4 DEF Brings
  <2>6. Harmless(Dispatcher, "idle")
    BY <1>0, <1>2, <2>1, <2>3 DEF Harmless
  <2>7. ProviderTypes' /\ issued' >= issued /\ grant' \in RowTypes' /\ connections' \subseteq Connections
        /\ copy[Dispatcher] \in RowTypes' /\ bundle[Dispatcher] \in AnswerTypes' /\ "idle" \in Stage
    BY <1>1, <1>2, <2>2, <2>3, CallStages DEF ProviderTypes
  <2>8. LockMoves(Dispatcher, "idle") /\ (lock' = Dispatcher => Dispatcher \in Refreshers)
    BY <1>0, <1>2, LockStays
  <2>. QED BY <1>0, <2>1, <2>5, <2>6, <2>7, <2>8, CallKeeps
<1>. QED BY <1>4, <1>5

\* A refusal marks a connected row, and time wears its access token out.
LEMMA MarkReauthKeeps ==
  ASSUME GrantInv, NEW w \in Workers, MarkReauth(w)
  PROVE  GrantInv'
<1>0. w \in Actors /\ w \in Refreshers /\ w \notin Removers /\ w # Dispatcher /\ w # Nobody
  BY Roles DEF Revokers, Refreshers
<1>1. /\ ProviderTypes /\ issued \in Nat /\ grant \in RowTypes /\ copy[w] \in RowTypes
      /\ dead \in 0 .. issued
      /\ bundle[w] \in AnswerTypes /\ connections \subseteq Connections
  BY <1>0, Before
<1>2. /\ pc[w] = "reauth" /\ lock = Nobody /\ lock' = lock
      /\ Session(w, "idle", copy[w], bundle[w])
      /\ grant' = IF grant.status = "connected" THEN [grant EXCEPT !.status = "needs_reauth"] ELSE grant
      /\ UNCHANGED <<connections, valid, issued, dead, runs, events, spoiled>>
  BY DEF MarkReauth, GoTo, provider, faults
<1>3. /\ grant' \in RowTypes /\ grant'.status # "connected"
      /\ grant'.refresh = grant.refresh /\ grant'.fresh = grant.fresh
  <2>1. CASE grant.status = "connected"
    <3> DEFINE r == [grant EXCEPT !.status = "needs_reauth"]
    <3>1. /\ r \in Grant /\ r.status = "needs_reauth" /\ r.refresh = grant.refresh
          /\ r.access = grant.access /\ r.fresh = grant.fresh
      BY <1>1 DEF RowTypes, Grant
    <3>. HIDE DEF r
    <3>2. r \in RowTypes
      BY <1>1, <3>1 DEF RowTypes
    <3>3. grant' = r
      BY <1>2, <2>1 DEF r
    <3>. QED BY <3>1, <3>2, <3>3
  <2>2. CASE grant.status # "connected"
    BY <1>1, <1>2, <2>2
  <2>. QED BY <2>1, <2>2
<1>4. RowTypes' = RowTypes /\ AnswerTypes' = AnswerTypes
  BY <1>2 DEF RowTypes, AnswerTypes, Tokens, Grant, Bundle
<1>5. SessionSafe(w, "idle", copy[w], bundle[w], grant')
  BY <1>0 DEF SessionSafe
<1>6. Brings(w, "idle", copy[w], bundle[w])
  BY <1>1, <1>2, <1>3, <1>5 DEF Brings
<1>7. Harmless(w, "idle")
  BY <1>0, <1>2, <1>3 DEF Harmless
<1>8. LockMoves(w, "idle") /\ lock' # w
  BY <1>0, <1>2 DEF LockMoves
<1>9. ProviderTypes' /\ issued' >= issued /\ grant' \in RowTypes' /\ connections' \subseteq Connections
      /\ copy[w] \in RowTypes' /\ bundle[w] \in AnswerTypes' /\ "idle" \in Stage
  BY <1>1, <1>2, <1>3, <1>4, CallStages DEF ProviderTypes
<1>. QED BY <1>0, <1>2, <1>6, <1>7, <1>8, <1>9, CallKeeps

LEMMA ExpireKeeps ==
  ASSUME GrantInv, Expire
  PROVE  GrantInv'
<1>1. /\ GrantTypes /\ ProviderTypes /\ issued \in Nat /\ grant \in RowTypes
  BY Before
<1>2. /\ grant.fresh /\ grant' = [grant EXCEPT !.fresh = FALSE]
      /\ UNCHANGED <<connections, lock, valid, issued, dead, pc, copy, bundle, spoiled, runs>>
  BY DEF Expire, provider, sessions
<1>3. Bounds
  <2>1. events' = events \/ Occurs
    BY DEF Expire
  <2>. QED BY <1>2, <2>1, BoundsKept
<1>4. /\ grant' \in Grant /\ grant'.status = grant.status /\ grant'.refresh = grant.refresh
      /\ grant'.access = grant.access
  BY <1>1, <1>2 DEF RowTypes, Grant
<1>5. grant' \in RowTypes /\ RowTypes' = RowTypes /\ AnswerTypes' = AnswerTypes
  <2>1. grant' \in RowTypes
    BY <1>1, <1>4 DEF RowTypes
  <2>2. RowTypes' = RowTypes /\ AnswerTypes' = AnswerTypes
    BY <1>2 DEF RowTypes, AnswerTypes, Tokens, Grant, Bundle
  <2>. QED BY <2>1, <2>2
<1>6. GrantTypes'
  <2>1. TypeOK'
    BY <1>1, <1>2, <1>3, <1>4 DEF GrantTypes, TypeOK, Bounds
  <2>. QED BY <1>1, <1>2, <1>5, <2>1 DEF GrantTypes
<1>7. SessionsSafe'
  BY <1>2 DEF GrantInv, SessionsSafe, SessionSafe
<1>8. ConsentsApart'
  BY <1>2, <1>4 DEF GrantInv, ConsentsApart
<1>9. ~spoiled' => ConsentsWork' /\ StoredWorks' /\ RotatedWorks'
  BY <1>2, <1>4 DEF GrantInv, ConsentsWork, StoredWorks, RotatedWorks, Withdrawn
<1>. QED BY <1>6, <1>7, <1>8, <1>9 DEF GrantInv

\* The provider's answer to a refresh goes to the holder of the lock, who stores it.
LEMMA ExchangeKeeps ==
  ASSUME GrantInv, NEW a \in Refreshers, ExchangeSucceeds(a)
  PROVE  GrantInv'
<1>0. /\ a \in Actors /\ a \notin Removers /\ a # Dispatcher /\ a \notin Callbacks /\ a # Nobody
  BY Roles DEF Revokers
<1>1. /\ GrantTypes /\ ProviderTypes /\ issued \in Nat /\ dead \in 0 .. issued
      /\ valid \subseteq 1 .. issued /\ grant \in RowTypes /\ copy[a] \in RowTypes
      /\ connections \subseteq Connections
      /\ SessionSafe(a, pc[a], copy[a], bundle[a], grant)
      /\ copy[a].refresh \in 0 .. issued
  BY <1>0, Before, TokenFacts
<1>2. /\ pc[a] = "exchange" /\ copy[a].refresh \in valid
      /\ UNCHANGED <<grant, connections, lock, runs, events, spoiled, dead>>
      /\ issued' = issued + 1
  BY DEF ExchangeSucceeds, Issues, faults
<1>3. PICK kept \in {copy[a].refresh, issued + 1} :
        /\ Session(a, "store", copy[a],
                         [ok |-> TRUE, refresh |-> kept, access |-> issued + 1])
        /\ IF kept = copy[a].refresh THEN valid' = valid
           ELSE valid' \in {valid \cup {issued + 1},
                            (valid \ {copy[a].refresh}) \cup {issued + 1}}
  BY DEF ExchangeSucceeds, Issues, Answer
<1> DEFINE b == [ok |-> TRUE, refresh |-> kept, access |-> issued + 1]
<1>4. /\ kept \in valid' /\ kept # 0 /\ valid \ {copy[a].refresh} \subseteq valid'
      /\ valid' \subseteq valid \cup {issued + 1}
  BY <1>1, <1>2, <1>3
<1>5. ProviderTypes' /\ issued' >= issued /\ issued' \in Nat
  <2>1. issued' \in Nat /\ issued' >= issued /\ dead' \in 0 .. issued'
    BY <1>1, <1>2
  <2>2. valid' \subseteq 1 .. issued'
    <3>1. 1 .. issued \subseteq 1 .. issued' /\ issued + 1 \in 1 .. issued'
      BY <1>1, <1>2
    <3>. QED BY <1>1, <1>4, <3>1
  <2>. QED BY <1>1, <1>2, <2>1, <2>2 DEF ProviderTypes
<1>6. b \in AnswerTypes' /\ b.refresh = kept /\ b.access = issued + 1 /\ RowTypes \subseteq RowTypes'
  <2>1. kept \in 0 .. issued' /\ kept \in Nat /\ issued + 1 \in 0 .. issued' /\ issued + 1 \in Nat
    BY <1>1, <1>2, <1>3
  <2>2. b \in Bundle /\ b.refresh = kept /\ b.access = issued + 1
    BY <2>1 DEF Bundle
  <2>3. AnswerTypes' = {x \in Bundle : x.refresh \in 0 .. issued' /\ x.access \in 0 .. issued'}
    BY DEF AnswerTypes, Bundle, Tokens
  <2>. HIDE DEF b
  <2>. QED BY <1>1, <1>5, <2>1, <2>2, <2>3, TokensGrow
<1>7. Session(a, "store", copy[a], b)
  BY <1>3
<1>. HIDE DEF b
<1>8. lock = a /\ \A o \in Refreshers \ {a} : pc[o] # "store"
  BY <1>2, Before
<1>9. Brings(a, "store", copy[a], b)
  <2>1. SessionSafe(a, "store", copy[a], b, grant')
    BY <1>0, <1>1, <1>2, <1>4, <1>6 DEF SessionSafe
  <2>. QED BY <1>1, <1>2, <1>3, <1>4, <1>6, <2>1 DEF Brings
<1>10. GrantTypes'
  <2>1. LockMoves(a, "store") /\ "store" \in Stage
    BY <1>2, <1>8, CallStages DEF LockMoves
  <2>. QED BY <1>0, <1>1, <1>2, <1>5, <1>6, <1>7, <2>1, SessionTypes
<1>11. SessionsSafe' /\ ConsentsApart' /\ (~spoiled' => ConsentsWork')
  BY <1>0, <1>7, <1>9, <1>10, BringsKeeps, CallStages
<1>12. /\ pc'[a] = "store" /\ bundle'[a] = b
       /\ \A o \in Actors \ {a} : pc'[o] = pc[o]
  <2>1. Resting(a) # "store" /\ "store" \in Stage
    BY CallStages
  <2>. QED BY <1>0, <1>1, <1>7, <2>1, SessionMoves
<1>13. StoredWorks'
  BY <1>12 DEF StoredWorks
<1>14. RotatedWorks'
  <2>1. Refreshers \subseteq Actors
    BY Roles
  <2>. QED BY <1>4, <1>6, <1>8, <1>12, <2>1 DEF RotatedWorks
<1>. QED BY <1>10, <1>11, <1>13, <1>14 DEF GrantInv

\* A row that takes over an answer's tokens.
LEMMA RotatedRow ==
  ASSUME issued \in Nat, NEW g \in RowTypes, NEW b \in AnswerTypes, b.refresh # 0, b.access # 0
  PROVE  LET r == Rotated(g, b)
             c == [Rotated(g, b) EXCEPT !.status = "connected"]
         IN /\ r \in RowTypes /\ r.status = g.status /\ r.refresh = b.refresh
            /\ c \in RowTypes /\ c.refresh = b.refresh
<1> DEFINE r == Rotated(g, b)
           c == [r EXCEPT !.status = "connected"]
<1>1. g \in Grant /\ b \in Bundle /\ b.refresh \in Tokens /\ b.access \in Tokens
  BY DEF RowTypes, AnswerTypes
<1>2. /\ r \in Grant /\ r.status = g.status /\ r.refresh = b.refresh /\ r.access = b.access
  BY <1>1 DEF Rotated, Grant, Bundle
<1>. HIDE DEF r
<1>3. c \in Grant /\ c.refresh = b.refresh /\ c.access = b.access
  BY <1>2 DEF Grant
<1>. HIDE DEF c
<1>4. r \in RowTypes /\ c \in RowTypes
  BY <1>1, <1>2, <1>3 DEF RowTypes
<1>. QED BY <1>2, <1>3, <1>4 DEF r, c

\* The bundle that is stored is the one its refresher was waiting with.
LEMMA StoreKeeps ==
  ASSUME GrantInv, NEW a \in Refreshers, Store(a)
  PROVE  GrantInv'
<1>0. /\ a \in Actors /\ a \notin Removers /\ a # Dispatcher /\ a \notin Callbacks /\ a # Nobody
  BY Roles DEF Revokers
<1>1. /\ GrantTypes /\ ProviderTypes /\ issued \in Nat /\ dead \in 0 .. issued
      /\ grant \in RowTypes /\ bundle[a] \in AnswerTypes /\ connections \subseteq Connections
      /\ SessionSafe(a, pc[a], copy[a], bundle[a], grant)
  BY <1>0, Before
<1>2. /\ pc[a] = "store" /\ grant' = Rotated(grant, bundle[a]) /\ lock' = Nobody
      /\ UNCHANGED <<connections, valid, issued, dead, runs, events, spoiled>>
  BY DEF Store, provider, faults
<1> DEFINE b == [bundle[a] EXCEPT !.refresh = NoToken]
<1>3. PICK s \in {"sync", "done"} : Session(a, s, NoGrant, b)
  BY DEF Store
<1>4. b \in AnswerTypes /\ b.refresh = 0
  <2>1. bundle[a] \in Bundle /\ bundle[a].access \in Tokens /\ 0 \in Tokens
    BY <1>1 DEF AnswerTypes, Tokens
  <2>2. b \in Bundle /\ b.refresh = 0 /\ b.access = bundle[a].access
    BY <2>1 DEF Bundle, NoToken
  <2>. HIDE DEF b
  <2>. QED BY <2>1, <2>2 DEF AnswerTypes
<1>. HIDE DEF b
<1>5. /\ grant' \in RowTypes /\ grant'.status = grant.status /\ grant'.refresh = bundle[a].refresh
  <2>1. bundle[a].refresh # 0 /\ bundle[a].access # 0
    BY <1>1, <1>2 DEF SessionSafe
  <2>. QED BY <1>1, <1>2, <2>1, RotatedRow
<1>6. lock = a /\ \A o \in Refreshers \ {a} : pc[o] # "store"
  BY <1>2, Before
<1>7. RowTypes' = RowTypes /\ AnswerTypes' = AnswerTypes
  BY <1>2 DEF RowTypes, AnswerTypes, Tokens, Grant, Bundle
<1>8. NoGrant \in RowTypes /\ NoGrant.refresh = 0 /\ s \in Stage
  BY <1>1, EmptySession, CallStages
<1>9. Brings(a, s, NoGrant, b)
  <2>1. SessionSafe(a, s, NoGrant, b, grant')
    BY <1>0 DEF SessionSafe
  <2>. QED BY <1>1, <1>2, <1>4, <1>5, <1>6, <1>8, <2>1 DEF Brings
<1>10. GrantTypes'
  <2>1. LockMoves(a, s) /\ lock' # a
    BY <1>0, <1>2, <1>6 DEF LockMoves
  <2>2. ProviderTypes' /\ issued' >= issued
    BY <1>1, <1>2 DEF ProviderTypes
  <2>. QED BY <1>0, <1>1, <1>2, <1>3, <1>4, <1>5, <1>7, <1>8, <2>1, <2>2, SessionTypes
<1>11. SessionsSafe' /\ ConsentsApart' /\ (~spoiled' => ConsentsWork')
  BY <1>0, <1>3, <1>8, <1>9, <1>10, BringsKeeps
<1>12. /\ pc'[a] = s
       /\ \A o \in Actors \ {a} : pc'[o] = pc[o] /\ bundle'[o] = bundle[o]
  BY <1>0, <1>1, <1>3, <1>8, SessionMoves
<1>13. Withdrawn => Withdrawn'
  <2>1. Removers \subseteq Actors
    BY RequestRoles
  <2>. QED BY <1>0, <1>12, <2>1 DEF Withdrawn
<1>14. ~spoiled' => StoredWorks'
  BY <1>2, <1>5, <1>13 DEF GrantInv, StoredWorks, RotatedWorks
<1>15. RotatedWorks'
  <2>1. \A o \in Refreshers : pc'[o] # "store"
    BY <1>6, <1>12, Roles
  <2>. QED BY <2>1 DEF RotatedWorks
<1>. QED BY <1>10, <1>11, <1>14, <1>15 DEF GrantInv

\* A consent is stored while nobody refreshes.
LEMMA ConnectsKeeps ==
  ASSUME GrantInv, NEW k \in Callbacks, Connects(k)
  PROVE  GrantInv'
<1>0. /\ k \in Actors /\ k \notin Removers /\ k # Dispatcher /\ k \notin Refreshers
      /\ k \notin Workers /\ Resting(k) = "done"
  BY RequestRoles
<1>1. /\ GrantTypes /\ ProviderTypes /\ issued \in Nat /\ dead \in 0 .. issued
      /\ grant \in RowTypes /\ copy[k] \in RowTypes /\ bundle[k] \in AnswerTypes
      /\ SessionSafe(k, pc[k], copy[k], bundle[k], grant)
      /\ bundle[k].refresh \in 0 .. issued
  BY <1>0, Before, TokenFacts
<1>2. /\ pc[k] = "connect" /\ lock = Nobody /\ lock' = lock
      /\ grant' = [Rotated(grant, bundle[k]) EXCEPT !.status = "connected"]
      /\ connections' = Connections
      /\ spoiled' = (spoiled \/ bundle[k].refresh <= dead)
      /\ Session(k, "done", copy[k], bundle[k])
      /\ UNCHANGED <<valid, issued, dead, runs, events>>
  BY DEF Connects, GoTo, provider
<1>3. grant' \in RowTypes /\ grant'.refresh = bundle[k].refresh
  <2>1. bundle[k].refresh # 0 /\ bundle[k].access # 0
    BY <1>1, <1>2 DEF SessionSafe
  <2>. QED BY <1>1, <1>2, <2>1, RotatedRow
<1>4. RowTypes' = RowTypes /\ AnswerTypes' = AnswerTypes
  BY <1>2 DEF RowTypes, AnswerTypes, Tokens, Grant, Bundle
<1>5. (spoiled => spoiled') /\ spoiled' \in BOOLEAN
  BY <1>1, <1>2 DEF ProviderTypes
<1>6. Brings(k, "done", copy[k], bundle[k])
  <2>1. SessionSafe(k, "done", copy[k], bundle[k], grant')
    BY <1>0 DEF SessionSafe
  <2>. QED BY <1>1, <1>2, <1>3, <1>5, <2>1 DEF Brings
<1>7. GrantTypes'
  <2>1. LockMoves(k, "done") /\ (lock' = k => k \in Refreshers)
    BY <1>0, <1>2, LockStays
  <2>2. ProviderTypes' /\ issued' >= issued
    BY <1>1, <1>2, <1>5 DEF ProviderTypes
  <2>. QED BY <1>0, <1>1, <1>2, <1>3, <1>4, <2>1, <2>2, SessionTypes, CallStages
<1>8. SessionsSafe' /\ ConsentsApart' /\ (~spoiled' => ConsentsWork')
  BY <1>0, <1>2, <1>6, <1>7, BringsKeeps, CallStages
<1>9. ~spoiled' => StoredWorks'
  <2>1. ~spoiled' => bundle[k].refresh \in valid
    BY <1>1, <1>2 DEF GrantInv, ConsentsWork
  <2>. QED BY <1>2, <1>3, <2>1 DEF StoredWorks
<1>10. RotatedWorks'
  <2>1. \A o \in Actors \ {k} : pc'[o] = pc[o]
    BY <1>0, <1>1, <1>2, SessionMoves, CallStages
  <2>2. \A o \in Refreshers : pc'[o] # "store"
    BY <1>0, <1>2, <2>1, NothingToStore, Roles
  <2>. QED BY <2>2 DEF RotatedWorks
<1>. QED BY <1>7, <1>8, <1>9, <1>10 DEF GrantInv

\* A credential that the provider accepts is one, and so the row it was loaded from held a
\* refresh token.
LEMMA AcceptedIsToken ==
  ASSUME issued \in Nat, dead \in 0 .. issued, valid \subseteq 1 .. issued, NEW g \in RowTypes,
         Accepted(CredentialOf(g))
  PROVE  g.refresh # 0
<1>. SUFFICES ASSUME g.refresh = 0
              PROVE  FALSE
  OBVIOUS
<1>1. g.access = 0
  BY DEF RowTypes
<1>. QED BY <1>1 DEF Accepted, CredentialOf, NoToken

\* A revocation of a connected row leaves its disconnect to drop the tokens.
LEMMA RevokeSucceedsKeeps ==
  ASSUME GrantInv, NEW a \in Revokers, RevokeSucceeds(a)
  PROVE  GrantInv'
<1>0. a \in Actors /\ a \notin Refreshers /\ a \notin Workers /\ a \notin Callbacks
  BY RevokerRoles
<1>1. /\ GrantTypes /\ ProviderTypes /\ issued \in Nat /\ dead \in 0 .. issued
      /\ valid \subseteq 1 .. issued /\ grant \in RowTypes
      /\ copy[a] \in RowTypes /\ connections \subseteq Connections
      /\ SessionSafe(a, pc[a], copy[a], bundle[a], grant)
  BY <1>0, Before
<1>2. /\ Session(a, "settle", copy[a], Done) /\ pc[a] = "revoke" /\ lock' = lock
      /\ TakenBack /\ UNCHANGED <<grant, connections, runs, events>>
      /\ spoiled' = (spoiled \/ grant.status # copy[a].status
                             \/ CredentialOf(grant) # CredentialOf(copy[a]))
      /\ Accepted(CredentialOf(copy[a]))
  BY DEF RevokeSucceeds, RevokedRemotely, Answer, TakenBack
<1>3. Done \in AnswerTypes /\ Done.refresh = 0 /\ Done.ok
  BY <1>1, EmptySession DEF Done
<1>4. copy[a].refresh # 0
  BY <1>1, <1>2, AcceptedIsToken
<1>5. spoiled' \in BOOLEAN /\ (spoiled => spoiled')
  BY <1>1, <1>2 DEF ProviderTypes
<1>6. /\ ProviderTypes' /\ issued' >= issued /\ dead' >= dead
      /\ RowTypes' = RowTypes /\ AnswerTypes' = AnswerTypes
  <2>1. Bounds
    BY <1>1, <1>2, <1>5 DEF Bounds, ProviderTypes
  <2>. QED BY <1>2, <2>1, TakenBackTypes
<1>7. "settle" \in Stage /\ SessionSafe(a, "settle", copy[a], Done, grant')
  BY <1>0, <1>1, <1>2, <1>4, CallStages DEF SessionSafe
<1>8. Brings(a, "settle", copy[a], Done)
  BY <1>2, <1>3, <1>5, <1>6, <1>7 DEF Brings, TakenBack
<1>9. GrantTypes'
  <2>1. LockMoves(a, "settle") /\ (lock' = a => a \in Refreshers)
    BY <1>0, <1>2, LockStays
  <2>. QED BY <1>0, <1>1, <1>2, <1>3, <1>6, <1>7, <2>1, SessionTypes
<1>10. SessionsSafe' /\ ConsentsApart' /\ (~spoiled' => ConsentsWork')
  BY <1>0, <1>2, <1>7, <1>8, <1>9, BringsKeeps
<1>11. ASSUME ~spoiled'
       PROVE  grant'.status = "connected" => Withdrawn'
  <2>1. grant.status = copy[a].status
    BY <1>2, <1>11
  <2>2. CASE a = Dispatcher
    BY <1>1, <1>2, <2>1, <2>2 DEF SessionSafe
  <2>3. CASE a \in Removers
    <3>1. pc'[a] = "settle" /\ bundle'[a] = Done
      <4>1. Resting(a) # "settle"
        BY CallStages
      <4>. QED BY <1>0, <1>1, <1>2, <1>7, <4>1, SessionMoves
    <3>. QED BY <1>3, <2>3, <3>1 DEF Withdrawn
  <2>. QED BY <2>2, <2>3 DEF Revokers
<1>12. ~spoiled' => StoredWorks' /\ RotatedWorks'
  BY <1>11 DEF StoredWorks, RotatedWorks
<1>. QED BY <1>9, <1>10, <1>12 DEF GrantInv

\* The outcome of a disconnect over whatever row there is: the tokens go with a revocation
\* that succeeded, and stay with one that failed.
LEMMA SettledRow ==
  ASSUME issued \in Nat, NEW g \in RowTypes, NEW l \in RowTypes, NEW ok \in BOOLEAN,
         ok => l.refresh # 0
  PROVE  LET r == Overwrite(g, l, DisconnectOutcome(l, ok))
         IN /\ r \in RowTypes
            /\ ok => r.refresh = 0
            /\ ~ok => /\ r.refresh = g.refresh
                      /\ r.status = "connected" => g.status = "connected"
<1> DEFINE wanted == DisconnectOutcome(l, ok)
           r == Overwrite(g, l, wanted)
<1>1. /\ g \in Grant /\ l \in Grant
      /\ g.refresh \in Tokens /\ g.access \in Tokens /\ (g.refresh = 0 <=> g.access = 0)
      /\ l.refresh = 0 <=> l.access = 0
      /\ 0 \in Tokens
  BY DEF RowTypes, Tokens
<1>2. /\ wanted \in Grant
      /\ ok => wanted.refresh = 0 /\ wanted.access = 0
      /\ ~ok => wanted.refresh = l.refresh /\ wanted.access = l.access
      /\ ~ok => wanted.status = "pending_revocation"
  <2>1. CASE ok
    <3>1. wanted = Revoked(l)
      BY <2>1 DEF DisconnectOutcome
    <3>2. Revoked(l) \in RowTypes /\ Revoked(l).refresh = 0 /\ Revoked(l).access = 0
      BY RevokedRow
    <3>. QED BY <2>1, <3>1, <3>2 DEF RowTypes
  <2>2. CASE ~ok
    <3>1. wanted = [l EXCEPT !.status = "pending_revocation"]
      BY <2>2 DEF DisconnectOutcome
    <3>. HIDE DEF wanted
    <3>. QED BY <1>1, <2>2, <3>1 DEF Grant
  <2>. QED BY <2>1, <2>2
<1>. HIDE DEF wanted
<1>3. /\ r \in Grant
      /\ r.status = IF wanted.status = l.status THEN g.status ELSE wanted.status
      /\ r.refresh = IF wanted.refresh = l.refresh THEN g.refresh ELSE wanted.refresh
      /\ r.access = IF wanted.access = l.access THEN g.access ELSE wanted.access
  BY <1>1, <1>2 DEF Overwrite, Grant
<1>. HIDE DEF r
<1>4. CASE ok
  BY <1>1, <1>2, <1>3, <1>4 DEF RowTypes, r, wanted
<1>5. CASE ~ok
  BY <1>1, <1>2, <1>3, <1>5 DEF RowTypes, r, wanted
<1>. QED BY <1>4, <1>5

\* The outcome of a disconnect is written whatever became of the row: what remains with
\* a revocation that succeeded is no credential, and one that failed leaves what there is.
LEMMA SettlesDisconnectKeeps ==
  ASSUME GrantInv, NEW d \in Removers, SettlesDisconnect(d)
  PROVE  GrantInv'
<1>0. /\ d \in Actors /\ d # Dispatcher /\ d \notin Callbacks /\ d \notin Refreshers
      /\ d \notin Workers /\ Resting(d) = "done"
  BY RequestRoles
<1>1. /\ GrantTypes /\ ProviderTypes /\ issued \in Nat /\ dead \in 0 .. issued
      /\ grant \in RowTypes /\ copy[d] \in RowTypes /\ bundle[d] \in AnswerTypes
      /\ connections \subseteq Connections
      /\ SessionSafe(d, pc[d], copy[d], bundle[d], grant)
  BY <1>0, Before
<1> DEFINE ok == bundle[d].ok
<1>2. /\ pc[d] = "settle" /\ lock = Nobody /\ lock' = lock
      /\ Session(d, "done", copy[d], bundle[d])
      /\ grant' = Overwrite(grant, copy[d], DisconnectOutcome(copy[d], ok))
      /\ UNCHANGED <<connections, valid, issued, dead, runs, events, spoiled>>
  BY DEF SettlesDisconnect, GoTo, provider, faults
<1>3. ok \in BOOLEAN /\ (ok => copy[d].refresh # 0)
  BY <1>1, <1>2 DEF AnswerTypes, Bundle, SessionSafe
<1>. HIDE DEF ok
<1>4. /\ grant' \in RowTypes
      /\ ok => grant'.refresh = 0
      /\ ~ok => /\ grant'.refresh = grant.refresh
                /\ grant'.status = "connected" => grant.status = "connected"
  BY <1>1, <1>2, <1>3, SettledRow
<1>5. RowTypes' = RowTypes /\ AnswerTypes' = AnswerTypes
  BY <1>2 DEF RowTypes, AnswerTypes, Tokens, Grant, Bundle
<1>6. Brings(d, "done", copy[d], bundle[d])
  <2>1. SessionSafe(d, "done", copy[d], bundle[d], grant')
    BY <1>0 DEF SessionSafe
  <2>. QED BY <1>1, <1>2, <1>3, <1>4, <2>1 DEF Brings
<1>7. GrantTypes'
  <2>1. LockMoves(d, "done") /\ (lock' = d => d \in Refreshers)
    BY <1>0, <1>2, LockStays
  <2>2. ProviderTypes' /\ issued' >= issued
    BY <1>1, <1>2 DEF ProviderTypes
  <2>. QED BY <1>0, <1>1, <1>2, <1>4, <1>5, <2>1, <2>2, SessionTypes, CallStages
<1>8. SessionsSafe' /\ ConsentsApart' /\ (~spoiled' => ConsentsWork')
  BY <1>0, <1>2, <1>6, <1>7, BringsKeeps, CallStages
<1>9. \A o \in Actors \ {d} : pc'[o] = pc[o] /\ bundle'[o] = bundle[o]
  BY <1>0, <1>1, <1>2, SessionMoves, CallStages
<1>10. \A o \in Refreshers : pc[o] # "store" /\ pc'[o] # "store"
  BY <1>0, <1>2, <1>9, NothingToStore, Roles
<1>11. ~spoiled' => StoredWorks'
  <2>1. CASE ok
    BY <1>4, <2>1 DEF StoredWorks
  <2>2. CASE ~ok
    <3>1. Withdrawn => Withdrawn'
      <4>1. Removers \subseteq Actors
        BY RequestRoles
      <4>. QED BY <1>9, <2>2, <4>1 DEF Withdrawn, ok
    <3>. QED BY <1>2, <1>4, <1>10, <2>2, <3>1 DEF GrantInv, StoredWorks
  <2>. QED BY <2>1, <2>2
<1>12. RotatedWorks'
  BY <1>10 DEF RotatedWorks
<1>. QED BY <1>7, <1>8, <1>11, <1>12 DEF GrantInv

LEMMA GrantInvInit ==
  ASSUME Init
  PROVE  GrantInv
<1>1. /\ grant \in Grant /\ grant.refresh = 1 /\ grant.access = 1
      /\ issued = 1 /\ dead = 0 /\ valid = {1} /\ lock = Nobody
      /\ connections \subseteq Connections /\ spoiled = FALSE /\ runs = 0 /\ events = 0
      /\ pc = [a \in Actors |-> "idle"]
      /\ copy = [a \in Actors |-> NoGrant]
      /\ bundle = [a \in Actors |-> Failure]
  BY DEF Init, Grant
<1>2. NoGrant \in RowTypes /\ Failure \in AnswerTypes /\ grant \in RowTypes
  BY <1>1, EmptySession DEF RowTypes, Tokens
<1>3. Nobody \notin Refreshers /\ Refreshers \subseteq Actors
      /\ Callbacks \subseteq Actors
  BY Roles, RequestRoles
<1>4. TypeOK
  <2>1. /\ issued \in Nat /\ valid \subseteq 1 .. issued /\ dead \in 0 .. issued
        /\ runs \in 0 .. MaxRuns /\ events \in 0 .. MaxEvents
    BY <1>1, GrantAssumption
  <2>2. copy \in [Actors -> Grant] /\ bundle \in [Actors -> Bundle]
    BY <1>1, <1>2 DEF RowTypes, AnswerTypes
  <2>. QED BY <1>1, <1>3, <2>1, <2>2, CallStages DEF TypeOK
<1>5. GrantTypes
  BY <1>1, <1>2, <1>4 DEF GrantTypes
<1>6. SessionsSafe /\ ConsentsApart
  BY <1>1, <1>3 DEF SessionsSafe, SessionSafe, ConsentsApart
<1>7. ConsentsWork /\ StoredWorks /\ RotatedWorks
  BY <1>1, <1>3 DEF ConsentsWork, StoredWorks, RotatedWorks
<1>. QED BY <1>5, <1>6, <1>7 DEF GrantInv

LEMMA ExchangesKeep ==
  ASSUME GrantInv, NEW a \in Refreshers, Exchanges(a)
  PROVE  GrantInv'
  BY ExchangeKeeps, ExchangeEnds, RotationLostKeeps DEF Exchanges

LEMMA RevocationKeeps ==
  ASSUME GrantInv, NEW a \in Revokers, Revocation(a)
  PROVE  GrantInv'
  BY RevokeSucceedsKeeps, RevokeFailsKeeps, RevocationLostKeeps DEF Revocation

LEMMA GrantInvStep ==
  ASSUME GrantInv, [Next]_vars
  PROVE  GrantInv'
<1>1. ASSUME NEW w \in Workers, Begin(w) \/ WorkerStep(w) \/ WorkerDies(w)
      PROVE  GrantInv'
  <2>. w \in Refreshers
    BY DEF Refreshers
  <2>1. CASE Begin(w) \/ WorkerLocks(w) \/ Sync(w) \/ WorkerDies(w)
    BY <2>1, WorkerKeeps
  <2>2. CASE Exchanges(w)
    BY <2>2, ExchangesKeep
  <2>3. CASE Store(w)
    BY <2>3, StoreKeeps
  <2>4. CASE MarkReauth(w)
    BY <2>4, MarkReauthKeeps
  <2>. QED BY <1>1, <2>1, <2>2, <2>3, <2>4 DEF WorkerStep
<1>2. ASSUME NEW c \in Callers, CallerReads(c) \/ CallerStep(c)
      PROVE  GrantInv'
  <2>. c \in Refreshers
    BY DEF Refreshers
  <2>1. CASE CallerReads(c) \/ CallerLocks(c)
    BY <2>1, CallerKeeps
  <2>2. CASE Exchanges(c)
    BY <2>2, ExchangesKeep
  <2>3. CASE Store(c)
    BY <2>3, StoreKeeps
  <2>. QED BY <1>2, <2>1, <2>2, <2>3 DEF CallerStep
<1>3. ASSUME NEW d \in Removers, RemoverReads(d) \/ RemoverStep(d)
      PROVE  GrantInv'
  <2>. d \in Revokers
    BY DEF Revokers
  <2>1. CASE RemoverReads(d) \/ Deletes(d)
    BY <2>1, RemoverKeeps
  <2>2. CASE Revocation(d)
    BY <2>2, RevocationKeeps
  <2>3. CASE SettlesDisconnect(d)
    BY <2>3, SettlesDisconnectKeeps
  <2>. QED BY <1>3, <2>1, <2>2, <2>3 DEF RemoverStep
<1>4. ASSUME NEW k \in Callbacks, ConsumesState(k) \/ CallbackStep(k)
      PROVE  GrantInv'
  BY <1>4, CallbackKeeps, ConnectsKeeps DEF CallbackStep
<1>5. CASE DispatcherStep
  <2>. Dispatcher \in Revokers
    BY DEF Revokers
  <2>. QED BY <1>5, DispatcherKeeps, RevocationKeeps DEF DispatcherStep
<1>6. CASE Expire
  BY <1>6, ExpireKeeps
<1>7. CASE UNCHANGED vars
  <2>1. UNCHANGED <<grant, connections, lock, valid, issued, dead, pc, copy, bundle,
                    spoiled, runs, events>>
    BY <1>7 DEF vars, provider, sessions, faults
  <2>2. RowTypes' = RowTypes /\ AnswerTypes' = AnswerTypes
    BY <2>1 DEF RowTypes, AnswerTypes, Tokens, Grant, Bundle
  <2>3. GrantTypes'
    BY <2>1, <2>2 DEF GrantInv, GrantTypes, TypeOK
  <2>4. SessionsSafe' /\ ConsentsApart'
    BY <2>1 DEF GrantInv, SessionsSafe, SessionSafe, ConsentsApart
  <2>5. ~spoiled' => ConsentsWork' /\ StoredWorks' /\ RotatedWorks'
    BY <2>1 DEF GrantInv, ConsentsWork, StoredWorks, RotatedWorks, Withdrawn
  <2>. QED BY <2>3, <2>4, <2>5 DEF GrantInv
<1>. QED BY <1>1, <1>2, <1>3, <1>4, <1>5, <1>6, <1>7 DEF Next

LEMMA GrantInvHolds ==
  Spec => []GrantInv
<1>1. Init => GrantInv
  BY GrantInvInit
<1>2. GrantInv /\ [Next]_vars => GrantInv'
  BY GrantInvStep
<1>. QED BY <1>1, <1>2, PTL DEF Spec

\* Every reachable state is well typed, and in particular the row's lock
\* is held by nobody but the refresher whose call it covers (tokens.py:47).
THEOREM TypeCorrect == Spec => []TypeOK
<1>1. GrantInv => TypeOK
  BY DEF GrantInv, GrantTypes
<1>. QED BY <1>1, GrantInvHolds, PTL

\* However refreshes, disconnects, reconnects and retries interleave, the
\* refresh token of a connected grant is one the provider accepts, unless a rotated one or
\* the outcome of a revocation is on its way to the row, or the provider withdrew it unheard.
THEOREM StoredTokenWorksHolds == Spec => []StoredTokenWorks
<1>1. GrantInv => StoredTokenWorks
  BY DEF GrantInv, StoredWorks, Withdrawn, StoredTokenWorks, Revokers, NoToken
<1>. QED BY <1>1, GrantInvHolds, PTL

\* A worker's call moves in no step but its own and those that leave its session.
LEMMA WorkersStores ==
  ASSUME GrantInv, [Next]_vars, NEW w \in Workers, pc[w] = "store"
  PROVE  ~grant.fresh /\ grant.refresh = copy[w].refresh
<1>1. w \in Actors
  BY DEF Actors
<1>. QED BY <1>1 DEF GrantInv, SessionsSafe, SessionSafe

\* A worker stores a rotated bundle only over the credential it presented,
\* and only while that was near expiry: of two workers one refreshes, and neither undoes a
\* reconnect.
THEOREM RotationReplacesItselfHolds == Spec => RotationReplacesItself
<1>1. GrantInv /\ [Next]_vars =>
        [\A w \in Workers : pc[w] = "store" /\ pc'[w] = "sync" =>
           ~grant.fresh /\ grant.refresh = copy[w].refresh]_vars
  BY WorkersStores
<1>2. Spec => [][Next]_vars
  BY PTL DEF Spec
<1>. QED BY <1>1, <1>2, GrantInvHolds, PTL DEF RotationReplacesItself
=============================================================================
