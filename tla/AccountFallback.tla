--------------------------- MODULE AccountFallback ---------------------------
(***************************************************************************)
(* Requests that fall back over the accounts of a provider                 *)
(* (handleAccountFallback and tryForwardWithConnection of                  *)
(* internal/handlers/chat/fallback.go), running concurrently over one      *)
(* shared table of connections, with the OAuth refresh they call           *)
(* (gemini_handler.go) and the in-flight counters they keep                *)
(* (usagetracker).                                                         *)
(*                                                                         *)
(* A step is one SQL statement or one upstream exchange together with the  *)
(* local code around it, so other requests interleave wherever the code    *)
(* can be overtaken.  A request slot is used again after it returns.       *)
(***************************************************************************)
EXTENDS ConnectionStore

CONSTANTS
    Reqs,        \* request slots
    Accounts,    \* [Models -> SUBSET Conns]: the accounts of the model's provider
    Priority,    \* [Conns -> Nat]: the order accounts are tried in
    Keyless,     \* connections with neither API key nor access token
    OAuth,       \* connections with a refresh token and a refresher
    NoAuth,      \* models whose provider serves without a connection
    Failures,    \* what upstream failures look like: [status, phrases]
    TokenLife,   \* lifetime of a refreshed token
    MaxTime,     \* bound: the clock stops here
    MaxTokens,   \* bound: so many refreshes succeed
    Default, None, NoError

\* The failures of tryForward that never reached an upstream have status 0.
ASSUME FallbackAssumption ==
    /\ IsFiniteSet(Reqs)
    /\ Accounts \in [Models -> SUBSET Conns]
    /\ Keyless \subseteq Conns
    /\ OAuth \subseteq Conns
    /\ Priority \in [Conns -> Nat]
    /\ NoAuth \subseteq Models
    /\ TokenLife \in Nat /\ MaxTime \in Nat /\ MaxTokens \in Nat
    /\ Failures \subseteq [status : Nat, phrases : SUBSET Phrases]
    /\ Default \notin Conns /\ None \notin Conns /\ None # Default /\ None \notin Row
    /\ NoError \notin Failures

VARIABLES
    now,      \* the clock
    row,      \* the table
    issued,   \* tokens the authorization server has issued
    pending,  \* usagetracker: requests in flight per connection and model
    pc,       \* per request: where it is
    model,    \*   the model asked for
    pin,      \*   the one connection it must use, or None
    todo,     \*   connections its loop has not looked at yet
    cur,      \*   the connection in use
    key,      \*   the token it holds in memory
    blob,     \*   the row its refresh has read
    again,    \*   TRUE after the forward that followed a 401
    level,    \*   the backoff level it has read
    lastErr,  \*   the last failure
    result,   \*   how the slot's last request ended
    tried     \*   (history) connections this request forwarded to

store  == <<row, issued, pending>>
locals == <<model, pin, todo, cur, key, blob, again, level, lastErr, result, tried>>
vars   == <<now, store, pc, locals>>

Mine(r) == Accounts[model[r]]
Usable(r) == Mine(r) \ Keyless
Places == Conns \cup {Default}

\* GetProviderConnections: by priority; updatedAt, which every lock and unlock moves,
\* decides between equals, so equals come in any order.
First(cs) == {c \in cs : \A d \in cs : Priority[c] <= Priority[d]}

\* An UPDATE of a row that does not exist changes nothing.
Update(c, new) == row' = IF c \in Conns THEN [row EXCEPT ![c] = new] ELSE row

Goto(r, l) == pc' = [pc EXCEPT ![r] = l]

Return(r, how) == /\ Goto(r, "done")
                  /\ result' = [result EXCEPT ![r] = how]

Init ==
    /\ now = 0
    /\ row = [c \in Conns |-> NewRow(TokenLife)]
    /\ issued = 0
    /\ pending = [c \in Places |-> [m \in Models |-> 0]]
    /\ pc = [r \in Reqs |-> "idle"]
    /\ model = [r \in Reqs |-> None]
    /\ pin = [r \in Reqs |-> None]
    /\ todo = [r \in Reqs |-> {}]
    /\ cur = [r \in Reqs |-> None]
    /\ key = [r \in Reqs |-> 0]
    /\ blob = [r \in Reqs |-> None]
    /\ again = [r \in Reqs |-> FALSE]
    /\ level = [r \in Reqs |-> 0]
    /\ lastErr = [r \in Reqs |-> NoError]
    /\ result = [r \in Reqs |-> "none"]
    /\ tried = [r \in Reqs |-> {}]

-----------------------------------------------------------------------------
(* handleAccountFallback                                                     *)

\* A request arrives, with or without a pinned connection; a pinned one goes straight
\* to its connection: neither health check nor loop.
Arrive(r) ==
    /\ pc[r] = "idle"
    /\ \E m \in Models : \E p \in Accounts[m] \cup {None} :
          /\ model' = [model EXCEPT ![r] = m]
          /\ pin' = [pin EXCEPT ![r] = p]
          /\ todo' = [todo EXCEPT ![r] = IF p = None THEN Accounts[m] ELSE {p}]
          /\ Goto(r, IF p = None THEN "check" ELSE "fetch")
    /\ UNCHANGED <<now, store, cur, key, blob, again, level, lastErr, result, tried>>

\* IsProviderAvailable reads one row per step and stops at the first one not locked.
SkipLocked(r) ==
    /\ pc[r] = "check"
    /\ \E c \in First(todo[r]) :
          /\ IsConnectionModelLocked(row[c], model[r], now)
          /\ todo' = [todo EXCEPT ![r] = @ \ {c}]
    /\ UNCHANGED <<now, store, pc, model, pin, cur, key, blob, again, level, lastErr, result, tried>>

\* A provider with no connection at all counts as healthy.
Healthy(r) ==
    /\ pc[r] = "check"
    /\ \/ \E c \in First(todo[r]) : ~IsConnectionModelLocked(row[c], model[r], now)
       \/ Mine(r) = {}
    /\ Goto(r, "list")
    /\ UNCHANGED <<now, store, locals>>

Unhealthy(r) ==
    /\ pc[r] = "check"
    /\ todo[r] = {} /\ Mine(r) # {}
    /\ Return(r, "unhealthy")
    /\ UNCHANGED <<now, store, model, pin, todo, cur, key, blob, again, level, lastErr, tried>>

\* (a slip: only the accounts that are not locked at that moment)
ListUnlocked(r) ==
    /\ pc[r] = "list"
    /\ Mine(r) # {}
    /\ todo' = [todo EXCEPT ![r] = {c \in Mine(r) : ~IsConnectionModelLocked(row[c], model[r], now)}]
    /\ Goto(r, "fetch")
    /\ UNCHANGED <<now, store, model, pin, cur, key, blob, again, level, lastErr, result, tried>>

\* The list of accounts the loop will walk, read once.
ListConnections(r) ==
    /\ pc[r] = "list"
    /\ Mine(r) # {}
    /\ todo' = [todo EXCEPT ![r] = Mine(r)]
    /\ Goto(r, "fetch")
    /\ UNCHANGED <<now, store, model, pin, cur, key, blob, again, level, lastErr, result, tried>>

\* Without accounts a provider that needs no key is asked once, as connection "default".
UseDefault(r) ==
    /\ pc[r] = "list"
    /\ Mine(r) = {} /\ model[r] \in NoAuth
    /\ pin' = [pin EXCEPT ![r] = Default]
    /\ cur' = [cur EXCEPT ![r] = Default]
    /\ Goto(r, "refresh")
    /\ UNCHANGED <<now, store, model, todo, key, blob, again, level, lastErr, result, tried>>

NoConnections(r) ==
    /\ pc[r] = "list"
    /\ Mine(r) = {} /\ model[r] \notin NoAuth
    /\ Return(r, "noconn")
    /\ UNCHANGED <<now, store, model, pin, todo, cur, key, blob, again, level, lastErr, tried>>

\* (a slip: break instead of continue)
StopAtKeyless(r) ==
    /\ pc[r] = "fetch"
    /\ First(todo[r]) \cap Keyless # {}
    /\ todo' = [todo EXCEPT ![r] = {}]
    /\ UNCHANGED <<now, store, pc, model, pin, cur, key, blob, again, level, lastErr, result, tried>>

\* An account without a key is passed over.
SkipKeyless(r) ==
    /\ pc[r] = "fetch"
    /\ \E c \in First(todo[r]) \cap Keyless : todo' = [todo EXCEPT ![r] = @ \ {c}]
    /\ UNCHANGED <<now, store, pc, model, pin, cur, key, blob, again, level, lastErr, result, tried>>

\* (a slip: the account taken stays on the list)
FetchAgain(r) ==
    /\ pc[r] = "fetch"
    /\ \E c \in First(todo[r]) \ Keyless :
          /\ cur' = [cur EXCEPT ![r] = c]
          /\ key' = [key EXCEPT ![r] = row[c].token]
    /\ Goto(r, "refresh")
    /\ UNCHANGED <<now, store, model, pin, todo, blob, again, level, lastErr, result, tried>>

\* The loop fetches the next account by its id, whether or not it is locked.
Fetch(r) ==
    /\ pc[r] = "fetch"
    /\ \E c \in First(todo[r]) \ Keyless :
          /\ todo' = [todo EXCEPT ![r] = @ \ {c}]
          /\ cur' = [cur EXCEPT ![r] = c]
          /\ key' = [key EXCEPT ![r] = row[c].token]
    /\ Goto(r, "refresh")
    /\ UNCHANGED <<now, store, model, pin, blob, again, level, lastErr, result, tried>>

\* The end of the loop: the last failure, or that no account was usable.
Exhausted(r) ==
    /\ pc[r] = "fetch"
    /\ todo[r] = {}
    /\ Return(r, IF lastErr[r] # NoError \/ pin[r] # None THEN "failed" ELSE "noconn")
    /\ UNCHANGED <<now, store, model, pin, todo, cur, key, blob, again, level, lastErr, tried>>

-----------------------------------------------------------------------------
(* tryForwardWithConnection                                                  *)

\* (a slip: the counter is left up after a retry)
FinishLeaks(r) ==
    /\ pending' = IF again[r] THEN pending
                  ELSE [pending EXCEPT ![cur[r]][model[r]] = AtLeast(@ - 1, 0)]
    /\ key' = [key EXCEPT ![r] = 0]
    /\ again' = [again EXCEPT ![r] = FALSE]

\* TrackPending(started), and the request is on its way to the upstream.
Forward(r) ==
    /\ pending' = [pending EXCEPT ![cur[r]][model[r]] = @ + 1]
    /\ tried' = [tried EXCEPT ![r] = @ \cup {cur[r]}]
    /\ Goto(r, "await")

\* tryForwardWithConnection returns: the deferred TrackPending(finished) takes the
\* counter down, never below zero, and the key it held is gone.
Finish(r) ==
    /\ pending' = [pending EXCEPT ![cur[r]][model[r]] = AtLeast(@ - 1, 0)]
    /\ key' = [key EXCEPT ![r] = 0]
    /\ again' = [again EXCEPT ![r] = FALSE]

NeedsRefresh(c) == c \in OAuth /\ IsExpired(row[c], now)

\* refreshOAuthTokenIfExpired reads the row.  A token that is still good ends it there,
\* and the request goes on with the key it already had.
TokenStillGood(r) ==
    /\ pc[r] = "refresh" /\ ~NeedsRefresh(cur[r])
    /\ Forward(r)
    /\ UNCHANGED <<now, row, issued, model, pin, todo, cur, key, blob, again, level, lastErr, result>>

TokenExpired(r) ==
    /\ pc[r] = "refresh" /\ NeedsRefresh(cur[r])
    /\ blob' = [blob EXCEPT ![r] = row[cur[r]]]
    /\ Goto(r, "renew")
    /\ UNCHANGED <<now, store, model, pin, todo, cur, key, again, level, lastErr, result, tried>>

\* The authorization server answers with a new token and the whole blob goes back.
Renew(r) ==
    /\ issued < MaxTokens
    /\ issued' = issued + 1
    /\ Update(cur[r], MergeToken(blob[r], issued + 1, now + TokenLife))
    /\ key' = [key EXCEPT ![r] = issued + 1]
    /\ blob' = [blob EXCEPT ![r] = None]

Refreshed(r) ==
    /\ pc[r] = "renew"
    /\ Renew(r)
    /\ Forward(r)
    /\ UNCHANGED <<now, model, pin, todo, cur, again, level, lastErr, result>>

\* A refresh that fails is only logged: the request goes out with the old key.
RefreshFailed(r) ==
    /\ pc[r] = "renew"
    /\ blob' = [blob EXCEPT ![r] = None]
    /\ Forward(r)
    /\ UNCHANGED <<now, row, issued, model, pin, todo, cur, key, again, level, lastErr, result>>

\* Success lifts the lock of this model and the backoff of the connection.
Succeed(r) ==
    /\ pc[r] = "await"
    /\ Update(cur[r], IF cur[r] \in Conns THEN UnlockConnectionModel(row[cur[r]], model[r])
                      ELSE None)
    /\ Finish(r)
    /\ Return(r, "ok")
    /\ UNCHANGED <<now, issued, model, pin, todo, cur, blob, level, lastErr, tried>>

\* The first 401 of a forward makes forceRefreshOAuthToken read the row.
Unauthorized(r) ==
    /\ pc[r] = "await" /\ ~again[r] /\ cur[r] \in OAuth
    /\ \E e \in Failures : e.status = 401
    /\ blob' = [blob EXCEPT ![r] = row[cur[r]]]
    /\ Goto(r, "renew401")
    /\ UNCHANGED <<now, store, model, pin, todo, cur, key, again, level, lastErr, result, tried>>

\* A new key is worth one more forward, on the same connection.
ForceRefreshed(r) ==
    /\ pc[r] = "renew401"
    /\ Renew(r)
    /\ again' = [again EXCEPT ![r] = TRUE]
    /\ Goto(r, "await")
    /\ UNCHANGED <<now, pending, model, pin, todo, cur, level, lastErr, result, tried>>

\* How the attempt ends when it failed with e: a pinned request and a failure that is
\* not retryable return at once.
Failed(r, e) ==
    /\ lastErr' = [lastErr EXCEPT ![r] = e]
    /\ Finish(r)
    /\ IF pin[r] = None /\ e.status \in RetryableStatusCodes
       THEN Goto(r, "level") /\ UNCHANGED result
       ELSE Return(r, "failed")
    /\ UNCHANGED <<now, row, issued, model, pin, todo, cur, level, tried>>

Fail(r) ==
    /\ pc[r] = "await"
    /\ \E e \in Failures :
          /\ e.status = 401 => again[r] \/ cur[r] \notin OAuth
          /\ Failed(r, e)
    /\ UNCHANGED blob

\* The forced refresh failed: the 401 stands.
ForceRefreshFailed(r) ==
    /\ pc[r] = "renew401"
    /\ \E e \in Failures : e.status = 401 /\ Failed(r, e)
    /\ blob' = [blob EXCEPT ![r] = None]

-----------------------------------------------------------------------------
(* The loop's reaction to a retryable failure: two statements.               *)

ReadLevel(r) ==
    /\ pc[r] = "level"
    /\ level' = [level EXCEPT ![r] = row[cur[r]].level]
    /\ Goto(r, "lock")
    /\ UNCHANGED <<now, store, model, pin, todo, cur, key, blob, again, lastErr, result, tried>>

LockFailed(r) ==
    /\ pc[r] = "lock"
    /\ LET v == ClassifyError(lastErr[r].status, lastErr[r].phrases, level[r])
       IN  Update(cur[r], LockConnectionModel(row[cur[r]], model[r],
                                              now + CooldownSec(v.ms), v.level))
    /\ cur' = [cur EXCEPT ![r] = None]
    /\ level' = [level EXCEPT ![r] = 0]
    /\ Goto(r, "fetch")
    /\ UNCHANGED <<now, issued, pending, model, pin, todo, key, blob, again, lastErr, result, tried>>

\* The handler has returned; what it held in memory is gone.
Leave(r) ==
    /\ pc[r] = "done"
    /\ Goto(r, "idle")
    /\ model' = [model EXCEPT ![r] = None]
    /\ pin' = [pin EXCEPT ![r] = None]
    /\ todo' = [todo EXCEPT ![r] = {}]
    /\ cur' = [cur EXCEPT ![r] = None]
    /\ lastErr' = [lastErr EXCEPT ![r] = NoError]
    /\ result' = [result EXCEPT ![r] = "none"]
    /\ tried' = [tried EXCEPT ![r] = {}]
    /\ UNCHANGED <<now, store, key, blob, again, level>>

Tick == /\ now < MaxTime
        /\ now' = now + 1
        /\ UNCHANGED <<store, pc, locals>>

-----------------------------------------------------------------------------
\* Everything a request does once it has arrived.
Step(r) ==
    \/ SkipLocked(r) \/ Healthy(r) \/ Unhealthy(r)
    \/ ListConnections(r) \/ UseDefault(r) \/ NoConnections(r)
    \/ SkipKeyless(r) \/ Fetch(r) \/ Exhausted(r)
    \/ TokenStillGood(r) \/ TokenExpired(r) \/ Refreshed(r) \/ RefreshFailed(r)
    \/ Succeed(r) \/ Unauthorized(r) \/ ForceRefreshed(r) \/ Fail(r)
    \/ ForceRefreshFailed(r) \/ ReadLevel(r) \/ LockFailed(r)

Next == Tick \/ \E r \in Reqs : Arrive(r) \/ Step(r) \/ Leave(r)

Spec == Init /\ [][Next]_vars

\* Every statement, refresh and upstream exchange comes to an end (a stalled stream is
\* cut by the stall reader), so a request that can go on does.
Fairness == \A r \in Reqs : WF_vars(Step(r))

FairSpec == Spec /\ Fairness

-----------------------------------------------------------------------------
PCs == {"idle", "check", "list", "fetch", "refresh", "renew", "await", "renew401",
        "level", "lock", "done"}

\* The rows and the requests' locals stay in their types: in particular no interleaving
\* takes a backoff level past MaxLevel or a counter of requests in flight below zero.
TypeOK ==
    /\ now \in 0 .. MaxTime
    /\ row \in [Conns -> Row]
    /\ issued \in 0 .. MaxTokens
    /\ pending \in [Places -> [Models -> Nat]]
    /\ pc \in [Reqs -> PCs]
    /\ model \in [Reqs -> Models \cup {None}]
    /\ pin \in [Reqs -> Places \cup {None}]
    /\ todo \in [Reqs -> SUBSET Conns]
    /\ cur \in [Reqs -> Places \cup {None}]
    /\ key \in [Reqs -> Nat]
    /\ blob \in [Reqs -> Row \cup {None}]
    /\ again \in [Reqs -> BOOLEAN]
    /\ level \in [Reqs -> 0 .. MaxLevel]
    /\ lastErr \in [Reqs -> Failures \cup {NoError}]
    /\ result \in [Reqs -> {"none", "ok", "failed", "unhealthy", "noconn"}]
    /\ tried \in [Reqs -> SUBSET Places]

InFlight(c, m) ==
    {r \in Reqs : pc[r] \in {"await", "renew401"} /\ cur[r] = c /\ model[r] = m}

\* The counters the dashboard shows are exactly the requests on their way to an upstream,
\* whatever path they leave by: success, failure, a 401 that is retried (fallback.go:154).
PendingExact ==
    \A c \in Places, m \in Models : pending[c][m] = Cardinality(InFlight(c, m))

\* Falling back never gives up early: a request that is not pinned and comes back with a
\* retryable failure, or saying that no account is available, has forwarded to every
\* account that has a key; only a failure that is not retryable ends the loop sooner.
FallbackComplete ==
    \A r \in Reqs :
        pc[r] = "done" /\ pin[r] = None /\ result[r] \in {"failed", "noconn"}
          => \/ tried[r] = Usable(r)
             \/ lastErr[r] # NoError /\ lastErr[r].status \notin RetryableStatusCodes

\* No account is parked for good: a lock never reaches further than the longest cooldown
\* from now, even when a refresh that read the row long ago writes an old lock back.
LocksExpire ==
    \A c \in Conns, m \in Models :
        row[c].lock[m] # NoLock => row[c].lock[m] <= now + MaxCooldown

\* A backoff level above zero always stands beside the lock that raised it, so a level
\* never outlives its cause: a success on any model clears both, an old blob restores both.
BackoffHasLock ==
    \A c \in Conns : row[c].level > 0 => \E m \in Models : row[c].lock[m] # NoLock

\* Every request that arrives returns.
Returns == \A r \in Reqs : pc[r] # "idle" ~> pc[r] = "done"

-----------------------------------------------------------------------------
\* combo.go:762 says of locking that the backoff persists across requests: an active lock
\* is lifted only by a success of the same model on the same connection.
LockPersists ==
    [][\A c \in Conns, m \in Models :
          /\ IsConnectionModelLocked(row[c], m, now)
          /\ row'[c].lock[m] = NoLock
          => \E r \in Reqs : pc[r] = "await" /\ cur[r] = c /\ model[r] = m /\ result'[r] = "ok"]_vars
=============================================================================
