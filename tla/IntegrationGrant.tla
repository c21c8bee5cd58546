-------------------------- MODULE IntegrationGrant --------------------------
(***************************************************************************)
(* One OAuth grant and the connections that share it: the refresh of its    *)
(* tokens by sync workers (src/backend/app/workers/integration_worker.py)   *)
(* and by requests (domain/integrations/tokens.py), the disconnects and      *)
(* reconnects of its user (domain/integrations/service.py), and the          *)
(* dispatcher that retries revocations (workers/integration_dispatcher.py).  *)
(*                                                                         *)
(* The transport is Google's: refreshable, revocable, two connections per    *)
(* grant.  A provider call is an action of its own, so everything may happen *)
(* between a read, the call and the write of what came of it.  A worker's    *)
(* run is a row of TaskQueue: only what it does to the grant is kept.        *)
(*                                                                         *)
(* The provider is external.  It numbers what it issues; a refresh may carry *)
(* the refresh token over or rotate it, and revoking one credential revokes  *)
(* them all.                                                                *)
(***************************************************************************)
EXTENDS Naturals, FiniteSets

CONSTANTS
  Connections,   \* the connections one consent attaches
  Workers,       \* slots of the sync workers
  Callers,       \* requests that list a connection's properties
  Removers,      \* requests that disconnect
  Target,        \* [Removers -> Connections]: what they disconnect
  Callbacks,     \* OAuth callbacks, each with a state of its own
  Dispatcher,
  Nobody,
  MaxRuns,       \* bound: sync runs the workers begin
  MaxEvents      \* bound: expiries, failed calls, lost replies, deaths

VARIABLES
  grant,         \* the row: status, refresh and access token, not near expiry
  connections,   \* the connections that exist
  lock,          \* who holds the grant's row lock across a call
  valid,         \* the refresh tokens the provider accepts
  issued,        \* the number of the provider's last credential
  dead,          \* the provider revoked every credential up to this number
  pc,
  copy,          \* [Actors -> Grant]: the row as the actor loaded it
  bundle,        \* [Actors -> Bundle]: the provider's answer
  spoiled,       \* history: the row may hold a credential withdrawn elsewhere
  runs, events

provider == <<valid, issued, dead>>
faults == <<spoiled, runs, events>>
sessions == <<pc, copy, bundle>>
vars == <<grant, connections, lock, provider, sessions, faults>>

Refreshers == Workers \cup Callers
Requests == Callers \cup Removers \cup Callbacks
Actors == Workers \cup Requests \cup {Dispatcher}

ASSUME GrantAssumption ==
  /\ Target \in [Removers -> Connections]
  /\ Workers \cap Requests = {} /\ Dispatcher \notin Workers \cup Requests
  /\ Callers \cap Removers = {} /\ Callbacks \cap (Callers \cup Removers) = {}
  /\ Nobody \notin Actors
  /\ {MaxRuns, MaxEvents} \subseteq Nat

NoToken == 0
Grant == [status : {"connected", "needs_reauth", "pending_revocation", "revoked"},
          refresh : Nat, access : Nat, fresh : BOOLEAN]
Bundle == [ok : BOOLEAN, refresh : Nat, access : Nat]
Failure == [ok |-> FALSE, refresh |-> NoToken, access |-> NoToken]
Done == [ok |-> TRUE, refresh |-> NoToken, access |-> NoToken]
NoGrant == [status |-> "revoked", refresh |-> NoToken, access |-> NoToken,
            fresh |-> FALSE]

Stage == {"idle", "lock", "exchange", "store", "sync", "reauth",
          "delete", "delete_last", "revoke", "settle", "code", "connect", "done"}

TypeOK ==
  /\ grant \in Grant
  /\ connections \subseteq Connections
  /\ lock \in Refreshers \cup {Nobody}
  /\ issued \in Nat /\ valid \subseteq 1 .. issued /\ dead \in 0 .. issued
  /\ pc \in [Actors -> Stage]
  /\ copy \in [Actors -> Grant] /\ bundle \in [Actors -> Bundle]
  /\ spoiled \in BOOLEAN
  /\ runs \in 0 .. MaxRuns /\ events \in 0 .. MaxEvents
  /\ lock # Nobody => pc[lock] \in {"exchange", "store"}
  /\ \A a \in Refreshers : pc[a] \in {"exchange", "store"} => lock = a

\* A consent is stored, its access token may already be near expiry, and some
\* of the connections it attached may be gone.
Init ==
  /\ grant \in [status : {"connected"}, refresh : {1}, access : {1},
                fresh : BOOLEAN]
  /\ connections \in SUBSET Connections \ {{}}
  /\ lock = Nobody
  /\ valid = {1} /\ issued = 1 /\ dead = 0
  /\ pc = [a \in Actors |-> "idle"]
  /\ copy = [a \in Actors |-> NoGrant]
  /\ bundle = [a \in Actors |-> Failure]
  /\ spoiled = FALSE /\ runs = 0 /\ events = 0

-----------------------------------------------------------------------------
\* Helpers

Occurs == events < MaxEvents /\ events' = events + 1

\* Where an actor that is through with its call rests, its session closed.
Resting(a) == IF a \in Requests THEN "done" ELSE "idle"

Session(a, stage, loaded, answer) ==
  /\ pc' = [pc EXCEPT ![a] = stage]
  /\ copy' = [copy EXCEPT ![a] = IF stage = Resting(a) THEN NoGrant ELSE loaded]
  /\ bundle' = [bundle EXCEPT ![a] = IF stage = Resting(a) THEN Failure ELSE answer]

GoTo(a, stage) == Session(a, stage, copy[a], bundle[a])
Load(a, stage) == Session(a, stage, grant, bundle[a])
Answer(a, stage, b) == Session(a, stage, copy[a], b)

\* Mutation: only the access token of a refresh is stored.
RotatedAccess(g, b) == [g EXCEPT !.access = b.access, !.fresh = TRUE]

\* _store_rotated_bundle: a carried-over refresh token is stored again.
Rotated(g, b) ==
  [g EXCEPT !.refresh = b.refresh, !.access = b.access, !.fresh = TRUE]

\* The long-lived credential, or the access token where there is none.
CredentialOf(g) == IF g.refresh # NoToken THEN g.refresh ELSE g.access

Accepted(token) == token \in valid \/ token > dead

Revoked(g) ==
  [g EXCEPT !.status = "revoked", !.refresh = NoToken, !.access = NoToken,
            !.fresh = FALSE]

-----------------------------------------------------------------------------
\* The refresh of a near-expired access token

\* The provider answers a refresh: with a credential that carries the refresh
\* token over, or with a new one that may or may not replace the old one.
Issues(a) ==
  LET old == copy[a].refresh
      new == issued + 1
  IN \E kept \in {old, new} :
       /\ Answer(a, "store", [ok |-> TRUE, refresh |-> kept, access |-> new])
       /\ IF kept = old THEN valid' = valid
          ELSE valid' \in {valid \cup {new}, (valid \ {old}) \cup {new}}
       /\ issued' = new /\ UNCHANGED dead

\* Mutation: the row stays locked when a request's exchange fails.
GivesUpHolding(a, stage) ==
  /\ lock' = IF a \in Callers THEN lock ELSE Nobody
  /\ GoTo(a, stage)

\* Every failed exchange rolls back, which releases the row.
GivesUp(a, stage) ==
  /\ lock' = Nobody
  /\ Session(a, stage, NoGrant, Failure)

ExchangeSucceeds(a) ==
  /\ pc[a] = "exchange" /\ copy[a].refresh \in valid
  /\ Issues(a)
  /\ UNCHANGED <<grant, connections, lock, faults>>

\* A refusal as 401 or 403 is an authentication failure, any other is final.
ExchangeRefused(a) ==
  /\ pc[a] = "exchange" /\ copy[a].refresh \notin valid
  /\ \E stage \in {Resting(a)} \cup (IF a \in Workers THEN {"reauth"} ELSE {}) :
       GivesUp(a, stage)
  /\ UNCHANGED <<grant, connections, provider, faults>>

ExchangeFails(a) ==
  /\ pc[a] = "exchange" /\ Occurs
  /\ GivesUp(a, Resting(a))
  /\ UNCHANGED <<grant, connections, provider, spoiled, runs>>

\* The provider rotated the token and its answer did not arrive.
RotationLost(a) ==
  /\ pc[a] = "exchange" /\ copy[a].refresh \in valid /\ Occurs
  /\ issued' = issued + 1
  /\ valid' = (valid \ {copy[a].refresh}) \cup {issued + 1}
  /\ spoiled' = TRUE
  /\ GivesUp(a, Resting(a))
  /\ UNCHANGED <<grant, connections, dead, runs>>

\* Mutation: the row stays locked after a rotation is stored.
StoreHolding(a) ==
  /\ pc[a] = "store"
  /\ grant' = Rotated(grant, bundle[a])
  /\ Session(a, IF a \in Workers THEN "sync" ELSE "done", NoGrant,
             [bundle[a] EXCEPT !.refresh = NoToken])
  /\ UNCHANGED <<connections, lock, provider, faults>>

Store(a) ==
  /\ pc[a] = "store"
  /\ grant' = Rotated(grant, bundle[a])
  /\ lock' = Nobody
  /\ Session(a, IF a \in Workers THEN "sync" ELSE "done", NoGrant,
             [bundle[a] EXCEPT !.refresh = NoToken])
  /\ UNCHANGED <<connections, provider, faults>>

-----------------------------------------------------------------------------
\* IntegrationWorker

\* _begin_attempt: the run's connection exists and the grant was connected.
Begin(w) ==
  /\ pc[w] = "idle" /\ runs < MaxRuns
  /\ connections # {} /\ grant.status = "connected"
  /\ runs' = runs + 1
  /\ GoTo(w, "lock")
  /\ UNCHANGED <<grant, connections, lock, provider, spoiled, events>>

\* The stored access token is good; the row is released before it is used.
UsesStored(w) ==
  Session(w, "sync", NoGrant, [Done EXCEPT !.access = grant.access])

\* Mutation: the read of the row is committed before the call.
WorkerLocksAndCommits(w) ==
  /\ pc[w] = "lock" /\ lock = Nobody
  /\ IF grant.fresh THEN UsesStored(w) ELSE Load(w, "exchange")
  /\ UNCHANGED <<grant, connections, lock, provider, faults>>

\* _fresh_access_token loads the row under its lock, in a session of its own.
WorkerLocks(w) ==
  /\ pc[w] = "lock" /\ lock = Nobody
  /\ \/ grant.fresh /\ UsesStored(w) /\ UNCHANGED lock
     \/ /\ ~grant.fresh /\ grant.refresh = NoToken
        /\ Session(w, "reauth", NoGrant, Failure) /\ UNCHANGED lock
     \/ /\ ~grant.fresh /\ grant.refresh # NoToken
        /\ Load(w, "exchange") /\ lock' = w
  /\ UNCHANGED <<grant, connections, provider, faults>>

\* The run pages the provider with the token it resolved.
Sync(w) ==
  /\ pc[w] = "sync"
  /\ Session(w, IF bundle[w].access > dead THEN "idle" ELSE "reauth",
             NoGrant, Failure)
  /\ UNCHANGED <<grant, connections, lock, provider, faults>>

\* _mark_grant_needs_reauth
MarkReauth(w) ==
  /\ pc[w] = "reauth" /\ lock = Nobody
  /\ grant' = IF grant.status = "connected"
              THEN [grant EXCEPT !.status = "needs_reauth"] ELSE grant
  /\ GoTo(w, "idle")
  /\ UNCHANGED <<connections, lock, provider, faults>>

\* The process dies and starts again; an answer it held is gone.
WorkerDies(w) ==
  /\ pc[w] # "idle" /\ Occurs
  /\ spoiled' = (spoiled \/ pc[w] = "store")
  /\ lock' = IF lock = w THEN Nobody ELSE lock
  /\ GoTo(w, "idle")
  /\ UNCHANGED <<grant, connections, provider, runs>>

-----------------------------------------------------------------------------
\* Requests

\* list_available_properties loads the connection and its grant.
CallerReads(c) ==
  /\ pc[c] = "idle" /\ connections # {}
  /\ Load(c, "lock")
  /\ UNCHANGED <<grant, connections, lock, provider, faults>>

\* fresh_access_token locks the row, but its session already holds the grant:
\* what it checks and presents is the copy loaded before.
CallerLocks(c) ==
  /\ pc[c] = "lock" /\ lock = Nobody
  /\ IF copy[c].fresh \/ copy[c].refresh = NoToken
     THEN GoTo(c, "done") /\ UNCHANGED lock
     ELSE GoTo(c, "exchange") /\ lock' = c
  /\ UNCHANGED <<grant, connections, provider, faults>>

\* complete_connect consumes the state, commits, and exchanges the code.
ConsumesState(k) ==
  /\ pc[k] = "idle"
  /\ GoTo(k, "code")
  /\ UNCHANGED <<grant, connections, lock, provider, faults>>

ExchangesCode(k) ==
  /\ pc[k] = "code"
  /\ \/ /\ issued' = issued + 1
        /\ valid' = valid \cup {issued + 1}
        /\ Answer(k, "connect",
                  [ok |-> TRUE, refresh |-> issued + 1, access |-> issued + 1])
        /\ UNCHANGED <<dead, events>>
     \/ /\ Occurs /\ GoTo(k, "done") /\ UNCHANGED provider
  /\ UNCHANGED <<grant, connections, lock, spoiled, runs>>

\* _find_or_create_grant locks the row; _attach_connections restores the rows.
Connects(k) ==
  /\ pc[k] = "connect" /\ lock = Nobody
  /\ grant' = [Rotated(grant, bundle[k]) EXCEPT !.status = "connected"]
  /\ connections' = Connections
  /\ spoiled' = (spoiled \/ bundle[k].refresh <= dead)
  /\ GoTo(k, "done")
  /\ UNCHANGED <<lock, provider, runs, events>>

\* delete_connection reads the connection, the grant and the siblings ...
RemoverReads(d) ==
  /\ pc[d] = "idle" /\ Target[d] \in connections
  /\ Load(d, IF connections = {Target[d]} THEN "delete_last" ELSE "delete")
  /\ UNCHANGED <<grant, connections, lock, provider, faults>>

\* ... and commits the deletion; only the last one goes on to the provider.
Deletes(d) ==
  /\ pc[d] \in {"delete", "delete_last"}
  /\ connections' = connections \ {Target[d]}
  /\ GoTo(d, IF pc[d] = "delete" THEN "done" ELSE "revoke")
  /\ UNCHANGED <<grant, lock, provider, faults>>

-----------------------------------------------------------------------------
\* Revocation, by the last disconnect or by the dispatcher's retry

Revokers == Removers \cup {Dispatcher}

\* The provider withdraws everything; if the row is no longer as it was loaded,
\* the credential of a later consent may have gone with it.
RevokedRemotely(loaded) ==
  /\ valid' = {} /\ dead' = issued
  /\ spoiled' = (spoiled \/ grant.status # loaded.status
                         \/ CredentialOf(grant) # CredentialOf(loaded))
  /\ UNCHANGED issued

RevokeSucceeds(a) ==
  /\ pc[a] = "revoke" /\ Accepted(CredentialOf(copy[a]))
  /\ RevokedRemotely(copy[a])
  /\ Answer(a, "settle", Done)
  /\ UNCHANGED <<grant, connections, lock, runs, events>>

RevokeFails(a) ==
  /\ pc[a] = "revoke"
  /\ Answer(a, "settle", Failure)
  /\ Accepted(CredentialOf(copy[a])) => Occurs
  /\ ~Accepted(CredentialOf(copy[a])) => UNCHANGED events
  /\ UNCHANGED <<grant, connections, lock, provider, spoiled, runs>>

\* The provider revoked, and its answer did not arrive.
RevocationLost(a) ==
  /\ pc[a] = "revoke" /\ Accepted(CredentialOf(copy[a])) /\ Occurs
  /\ valid' = {} /\ dead' = issued /\ spoiled' = TRUE
  /\ Answer(a, "settle", Failure)
  /\ UNCHANGED <<grant, connections, lock, issued, runs>>

\* An update writes the attributes that differ from the copy it was loaded
\* with, whatever the row holds by then; it only waits for the row's lock.
Overwrite(g, loaded, wanted) ==
  [field \in DOMAIN g |->
     IF wanted[field] = loaded[field] THEN g[field] ELSE wanted[field]]

DisconnectOutcome(loaded, ok) ==
  IF ok THEN Revoked(loaded) ELSE [loaded EXCEPT !.status = "pending_revocation"]

SettlesDisconnect(d) ==
  /\ pc[d] = "settle" /\ lock = Nobody
  /\ grant' = Overwrite(grant, copy[d], DisconnectOutcome(copy[d], bundle[d].ok))
  /\ GoTo(d, "done")
  /\ UNCHANGED <<connections, lock, provider, faults>>

\* _retry_revoke reads the retained credential; without one it resolves locally.
DispatcherReads ==
  /\ pc[Dispatcher] = "idle" /\ grant.status = "pending_revocation"
  /\ IF CredentialOf(grant) = NoToken
     THEN Session(Dispatcher, "settle", grant, Done)
     ELSE Load(Dispatcher, "revoke")
  /\ UNCHANGED <<grant, connections, lock, provider, faults>>

\* Mutation: a revoked grant loses its tokens and keeps its status.
RetryOutcomeKeepingStatus(g, ok) ==
  IF ok /\ g.status = "pending_revocation"
  THEN [Revoked(g) EXCEPT !.status = g.status, !.refresh = g.refresh] ELSE g

RetryOutcome(g, ok) ==
  IF ok /\ g.status = "pending_revocation" THEN Revoked(g) ELSE g

\* The outcome is applied under the row's lock, if the grant is still pending.
DispatcherSettles ==
  /\ pc[Dispatcher] = "settle" /\ lock = Nobody
  /\ grant' = RetryOutcome(grant, bundle[Dispatcher].ok)
  /\ GoTo(Dispatcher, "idle")
  /\ UNCHANGED <<connections, lock, provider, faults>>

-----------------------------------------------------------------------------
\* Time, and the specification

Expire ==
  /\ grant.fresh /\ Occurs
  /\ grant' = [grant EXCEPT !.fresh = FALSE]
  /\ UNCHANGED <<connections, lock, provider, sessions, spoiled, runs>>

Exchanges(a) ==
  ExchangeSucceeds(a) \/ ExchangeRefused(a) \/ ExchangeFails(a) \/ RotationLost(a)

Revocation(a) == RevokeSucceeds(a) \/ RevokeFails(a) \/ RevocationLost(a)

WorkerStep(w) ==
  WorkerLocks(w) \/ Exchanges(w) \/ Store(w) \/ Sync(w) \/ MarkReauth(w)

CallerStep(c) == CallerLocks(c) \/ Exchanges(c) \/ Store(c)
RemoverStep(d) == Deletes(d) \/ Revocation(d) \/ SettlesDisconnect(d)
CallbackStep(k) == ExchangesCode(k) \/ Connects(k)
DispatcherStep == DispatcherReads \/ Revocation(Dispatcher) \/ DispatcherSettles

Next ==
  \/ \E w \in Workers : Begin(w) \/ WorkerStep(w) \/ WorkerDies(w)
  \/ \E c \in Callers : CallerReads(c) \/ CallerStep(c)
  \/ \E d \in Removers : RemoverReads(d) \/ RemoverStep(d)
  \/ \E k \in Callbacks : ConsumesState(k) \/ CallbackStep(k)
  \/ DispatcherStep
  \/ Expire

Spec == Init /\ [][Next]_vars

\* Whoever is in a call goes on, the row's lock is granted to who keeps waiting
\* for it, and the dispatcher ticks.  Nobody has to send a request.
FairSpec ==
  /\ Spec
  /\ \A w \in Workers : WF_vars(WorkerStep(w))
  /\ \A c \in Callers : WF_vars(CallerStep(c))
  /\ \A d \in Removers : WF_vars(RemoverStep(d))
  /\ \A k \in Callbacks : WF_vars(CallbackStep(k))
  /\ WF_vars(DispatcherStep)

-----------------------------------------------------------------------------
\* Properties

\* The refresh token of a connected grant is one the provider accepts, unless a
\* rotated one is on its way to the row, the revocation that withdrew it is, or
\* the provider withdrew a credential the program never heard of: no refresh
\* costs a healthy grant its credential, whoever else was refreshing.  (A connected
\* grant may be left without any: see RevocationIsRecorded.)
StoredTokenWorks ==
  grant.status = "connected" /\ grant.refresh # NoToken /\ ~spoiled =>
    \/ grant.refresh \in valid
    \/ \E a \in Refreshers : pc[a] = "store"
    \/ \E a \in Revokers : pc[a] = "settle" /\ bundle[a].ok

\* A worker stores a rotated bundle only over the credential it presented, and
\* only while that was near expiry: of two workers that share a grant one calls
\* the provider, and neither undoes a reconnect.
RotationReplacesItself ==
  [][\A w \in Workers : (pc[w] = "store" /\ pc'[w] = "sync") =>
       ~grant.fresh /\ grant.refresh = copy[w].refresh]_vars

\* A grant whose revocation is pending is resolved by the retries, unless the
\* provider withdrew its credential without the program learning it.
PendingResolves ==
  []<>(grant.status # "pending_revocation" \/ spoiled)

\* Every request that began is answered, and stays so: no failed exchange leaves
\* the grant's row locked behind it.
RequestsEnd == <>[](\A a \in Requests : pc[a] \in {"idle", "done"})

\* domain/integrations/tokens.py:47-49: "two concurrent requests on one grant
\* perform at most one remote refresh".  Violated: the locked read returns the
\* grant the session had already loaded, expiry included.
SingleRefresh ==
  [][\A c \in Callers : (pc[c] = "lock" /\ pc'[c] = "exchange") => ~grant.fresh]_vars

Quiet(actors) == \A a \in actors : pc[a] \in {"idle", "done"}

\* domain/integrations/service.py:633: the grant is revoked "when it was the
\* LAST one".  Violated: two requests that each saw the other's connection.
LastDisconnectRevokes ==
  connections = {} /\ Quiet(Removers) =>
    grant.status \in {"revoked", "pending_revocation"}

\* domain/integrations/service.py:638-639: "a failed remote revoke can never
\* orphan a live remote grant".  Violated: a reconnect completes between the
\* revocation and the unlocked write of its outcome, which forgets its tokens.
NoLiveGrantForgotten ==
  grant.status = "revoked" /\ Quiet(Callbacks) => valid = {}

\* domain/integrations/service.py:641: "remote-revoke SUCCESS -> grant revoked +
\* encrypted tokens dropped".  Violated: a refresh gave a revoked grant tokens again,
\* a disconnect loaded it so, and a reconnect came before the outcome: the tokens
\* are dropped, but the status, which that disconnect need not change, stays.
RevocationIsRecorded ==
  [][\A d \in Removers : pc[d] = "settle" /\ bundle[d].ok /\ pc'[d] = "done" =>
       grant'.status = "revoked" /\ grant'.refresh = NoToken]_vars

\* The grant is marked for re-authentication only while the provider refuses
\* what it holds.  Violated: a refusal of an old token arrives after a reconnect.
ReauthIsWarranted ==
  [][(grant.status = "connected" /\ grant'.status = "needs_reauth") =>
       grant.refresh \notin valid]_vars

\* domain/integrations/service.py:642-643: "a background retry ... can finish
\* the job".  Violated: the answer of the revocation that succeeded was lost, and
\* the provider refuses every later one.
RetryFinishes ==
  grant.status = "pending_revocation" ~> grant.status # "pending_revocation"
=============================================================================
