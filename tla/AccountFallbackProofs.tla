------------------------ MODULE AccountFallbackProofs ------------------------
(***************************************************************************)
(* What holds of AccountFallback for every set of accounts, models and     *)
(* requests.                                                               *)
(***************************************************************************)
EXTENDS AccountFallback, ConnectionStoreProofs, FiniteSetTheorems

-----------------------------------------------------------------------------
(* The inductive invariant, conjunct by conjunct.                            *)

\* Where a request stands determines which of its locals are in use.
LocalOK(r) ==
    /\ pc[r] = "idle" => cur[r] = None
    /\ pc[r] # "idle" => model[r] \in Models
    /\ pc[r] \in {"refresh", "renew", "await", "renew401"} => cur[r] \in Places
    /\ pc[r] \in {"level", "lock"} => cur[r] \in Conns /\ lastErr[r] \in Failures
    /\ pc[r] \in {"renew", "renew401"} => cur[r] \in Conns /\ blob[r] \in Row
    /\ pin[r] = None => cur[r] # Default

LocalsOK == \A r \in Reqs : LocalOK(r)

TypeInv == TypeOK /\ LocalsOK

\* What is true of every row in the table, and of every row a refresh has read and may
\* still write back: without the second half the first is not inductive.
RowGood(x, t) ==
    /\ \A m \in Models : x.lock[m] # NoLock => x.lock[m] <= t + MaxCooldown
    /\ x.level > 0 => \E m \in Models : x.lock[m] # NoLock

StoreInv ==
    /\ \A c \in Conns : RowGood(row[c], now)
    /\ \A r \in Reqs : blob[r] # None => RowGood(blob[r], now)

\* At every point of the loop the usable accounts are those already tried, those still to
\* come and the one in hand.
LoopOK(r) ==
    /\ pc[r] = "idle" => tried[r] = {}
    /\ pin[r] = None =>
         /\ tried[r] \subseteq Usable(r)
         /\ pc[r] \notin {"idle", "done"} => todo[r] \subseteq Mine(r)
         /\ pc[r] = "fetch" => Usable(r) \subseteq tried[r] \cup todo[r]
         /\ pc[r] \in {"refresh", "renew"} =>
               cur[r] \in Usable(r) /\ Usable(r) \subseteq tried[r] \cup todo[r] \cup {cur[r]}
         /\ pc[r] \in {"await", "renew401", "level", "lock"} =>
               Usable(r) \subseteq tried[r] \cup todo[r]
         /\ pc[r] = "done" /\ result[r] \in {"failed", "noconn"} =>
               \/ tried[r] = Usable(r)
               \/ lastErr[r] # NoError /\ lastErr[r].status \notin RetryableStatusCodes

LoopInv == \A r \in Reqs : LoopOK(r)

-----------------------------------------------------------------------------
LEMMA InitTypeInv == Init => TypeInv
  BY FallbackAssumption, DurationAssumption, StoreAssumption, SMTT(30)
  DEF Init, TypeInv, TypeOK, LocalsOK, LocalOK, NewRow, Row, PCs, Places

LEMMA StepTypeInv == TypeInv /\ [Next]_vars => TypeInv'
  <1> SUFFICES ASSUME TypeInv, [Next]_vars PROVE TypeInv'
    OBVIOUS
  <1> USE FallbackAssumption
      DEF TypeInv, TypeOK, LocalsOK, LocalOK, PCs, Places, Goto, Return, store, locals
  <1>1. CASE UNCHANGED vars
    BY <1>1 DEF vars
  <1>2. CASE Tick
    BY <1>2 DEF Tick
  <1>3. ASSUME NEW r \in Reqs, Arrive(r) PROVE TypeInv'
    <2>1. PICK m \in Models, p \in Conns \cup {None} :
              /\ model' = [model EXCEPT ![r] = m]
              /\ pin' = [pin EXCEPT ![r] = p]
              /\ todo' = [todo EXCEPT ![r] = IF p = None THEN Accounts[m] ELSE {p}]
              /\ pc' = [pc EXCEPT ![r] = IF p = None THEN "check" ELSE "fetch"]
      BY <1>3 DEF Arrive
    <2>2. CASE p = None
      BY <1>3, <2>1, <2>2 DEF Arrive
    <2>3. CASE p # None
      BY <1>3, <2>1, <2>3 DEF Arrive
    <2> QED
      BY <2>2, <2>3
  <1>4. ASSUME NEW r \in Reqs, SkipLocked(r) PROVE TypeInv'
    BY <1>4 DEF SkipLocked
  <1>5. ASSUME NEW r \in Reqs, Healthy(r) PROVE TypeInv'
    BY <1>5 DEF Healthy
  <1>6. ASSUME NEW r \in Reqs, Unhealthy(r) PROVE TypeInv'
    BY <1>6 DEF Unhealthy
  <1>7. ASSUME NEW r \in Reqs, ListConnections(r) PROVE TypeInv'
    BY <1>7 DEF ListConnections, Mine
  <1>8. ASSUME NEW r \in Reqs, UseDefault(r) PROVE TypeInv'
    BY <1>8 DEF UseDefault
  <1>9. ASSUME NEW r \in Reqs, NoConnections(r) PROVE TypeInv'
    BY <1>9 DEF NoConnections
  <1>10. ASSUME NEW r \in Reqs, SkipKeyless(r) PROVE TypeInv'
    BY <1>10 DEF SkipKeyless
  <1>11. ASSUME NEW r \in Reqs, Fetch(r) PROVE TypeInv'
    <2>1. PICK c \in First(todo[r]) :
              /\ todo' = [todo EXCEPT ![r] = @ \ {c}]
              /\ cur' = [cur EXCEPT ![r] = c]
              /\ key' = [key EXCEPT ![r] = row[c].token]
      BY <1>11 DEF Fetch
    <2>2. c \in Conns /\ row[c].token \in Nat
      BY DEF First, Row
    <2> QED
      BY <1>11, <2>1, <2>2 DEF Fetch
  <1>12. ASSUME NEW r \in Reqs, Exhausted(r) PROVE TypeInv'
    BY <1>12 DEF Exhausted
  <1>13. ASSUME NEW r \in Reqs, TokenStillGood(r) PROVE TypeInv'
    BY <1>13 DEF TokenStillGood, Forward
  <1>14. ASSUME NEW r \in Reqs, TokenExpired(r) PROVE TypeInv'
    BY <1>14 DEF TokenExpired, NeedsRefresh
  <1>15. ASSUME NEW r \in Reqs, Refreshed(r) PROVE TypeInv'
    <2>1. cur[r] \in Conns /\ blob[r] \in Row /\ issued + 1 \in 0 .. MaxTokens
      BY <1>15 DEF Refreshed, Renew
    <2>2. row' \in [Conns -> Row]
      BY <1>15, <2>1, MergeRow DEF Refreshed, Renew, Update
    <2> QED
      BY <1>15, <2>1, <2>2 DEF Refreshed, Renew, Forward
  <1>16. ASSUME NEW r \in Reqs, RefreshFailed(r) PROVE TypeInv'
    BY <1>16 DEF RefreshFailed, Forward
  <1>17. ASSUME NEW r \in Reqs, Succeed(r) PROVE TypeInv'
    <2>1. row' \in [Conns -> Row]
      BY <1>17, UnlockRow DEF Succeed, Update
    <2> QED
      BY <1>17, <2>1 DEF Succeed, Finish, AtLeast
  <1>18. ASSUME NEW r \in Reqs, Unauthorized(r) PROVE TypeInv'
    BY <1>18 DEF Unauthorized
  <1>19. ASSUME NEW r \in Reqs, ForceRefreshed(r) PROVE TypeInv'
    <2>1. cur[r] \in Conns /\ blob[r] \in Row /\ issued + 1 \in 0 .. MaxTokens
      BY <1>19 DEF ForceRefreshed, Renew
    <2>2. row' \in [Conns -> Row]
      BY <1>19, <2>1, MergeRow DEF ForceRefreshed, Renew, Update
    <2> QED
      BY <1>19, <2>1, <2>2 DEF ForceRefreshed, Renew
  <1>20. ASSUME NEW r \in Reqs, NEW e \in Failures, Failed(r, e), pc[r] \in {"await", "renew401"},
                blob' = blob \/ blob' = [blob EXCEPT ![r] = None]
         PROVE  TypeInv'
    <2>1. /\ lastErr' = [lastErr EXCEPT ![r] = e] /\ lastErr' \in [Reqs -> Failures \cup {NoError}]
          /\ pending' \in [Places -> [Models -> Nat]]
          /\ key' = [key EXCEPT ![r] = 0] /\ again' = [again EXCEPT ![r] = FALSE]
      BY <1>20 DEF Failed, Finish, AtLeast
    <2>2. CASE pin[r] = None /\ e.status \in RetryableStatusCodes
      <3>1. cur[r] \in Conns /\ pc' = [pc EXCEPT ![r] = "level"] /\ UNCHANGED result
        BY <1>20, <2>2 DEF Failed
      <3> QED
        BY <1>20, <2>1, <3>1 DEF Failed
    <2>3. CASE ~(pin[r] = None /\ e.status \in RetryableStatusCodes)
      <3>1. pc' = [pc EXCEPT ![r] = "done"] /\ result' = [result EXCEPT ![r] = "failed"]
        BY <1>20, <2>3 DEF Failed
      <3> QED
        BY <1>20, <2>1, <3>1 DEF Failed
    <2> QED
      BY <2>2, <2>3
  <1>21. ASSUME NEW r \in Reqs, Fail(r) PROVE TypeInv'
    <2>1. PICK e \in Failures : Failed(r, e)
      BY <1>21 DEF Fail
    <2>2. pc[r] = "await" /\ blob' = blob
      BY <1>21 DEF Fail
    <2> QED
      BY <1>20, <2>1, <2>2
  <1>22. ASSUME NEW r \in Reqs, ForceRefreshFailed(r) PROVE TypeInv'
    <2>1. PICK e \in Failures : Failed(r, e)
      BY <1>22 DEF ForceRefreshFailed
    <2>2. pc[r] = "renew401" /\ blob' = [blob EXCEPT ![r] = None]
      BY <1>22 DEF ForceRefreshFailed
    <2> QED
      BY <1>20, <2>1, <2>2
  <1>23. ASSUME NEW r \in Reqs, ReadLevel(r) PROVE TypeInv'
    BY <1>23 DEF ReadLevel, Row
  <1>24. ASSUME NEW r \in Reqs, LockFailed(r) PROVE TypeInv'
    <2> DEFINE v == ClassifyError(lastErr[r].status, lastErr[r].phrases, level[r])
               u == now + CooldownSec(v.ms)
    <2>1. v.level \in 0 .. MaxLevel /\ CooldownSec(v.ms) \in Int
      BY ClassifyErrorBound, CooldownSecBound
    <2>2. cur[r] \in Conns /\ model[r] \in Models /\ u \in Int
      BY <1>24, <2>1 DEF LockFailed
    <2>3. row' = [row EXCEPT ![cur[r]] =
                     LockConnectionModel(row[cur[r]], model[r], u, v.level)]
      BY <1>24, <2>2 DEF LockFailed, Update
    <2>4. cur' = [cur EXCEPT ![r] = None] /\ level' = [level EXCEPT ![r] = 0]
      BY <1>24 DEF LockFailed
    <2> HIDE DEF v, u
    <2>5. row' \in [Conns -> Row]
      BY <2>1, <2>2, <2>3, LockRow
    <2> QED
      BY <1>24, <2>4, <2>5, DurationAssumption DEF LockFailed
  <1>25. ASSUME NEW r \in Reqs, Leave(r) PROVE TypeInv'
    BY <1>25 DEF Leave
  <1> QED
    BY <1>1, <1>2, <1>3, <1>4, <1>5, <1>6, <1>7, <1>8, <1>9, <1>10, <1>11, <1>12, <1>13,
       <1>14, <1>15, <1>16, <1>17, <1>18, <1>19, <1>21, <1>22, <1>23, <1>24, <1>25
    DEF Next, Step

-----------------------------------------------------------------------------
\* The rows stay in their types and the requests' locals in theirs, however requests,
\* refreshes and the clock interleave.
THEOREM TypeCorrect == Spec => []TypeOK
  <1>1. TypeInv => TypeOK
    BY DEF TypeInv
  <1> QED
    BY <1>1, InitTypeInv, StepTypeInv, PTL DEF Spec

LEMMA TypeInvariant == Spec => []TypeInv
  BY InitTypeInv, StepTypeInv, PTL DEF Spec

-----------------------------------------------------------------------------
(* Locks and backoff.                                                        *)

LEMMA InitStoreInv == Init => StoreInv
  <1> SUFFICES ASSUME Init PROVE StoreInv
    OBVIOUS
  <1>1. ASSUME NEW c \in Conns PROVE RowGood(row[c], now)
    BY StoreAssumption DEF Init, NewRow, RowGood
  <1> QED
    BY <1>1 DEF Init, StoreInv

\* A new lock lies within the longest cooldown.
LEMMA LockGood ==
    ASSUME NEW x \in Row, NEW m \in Models, NEW t \in Int, NEW u \in Int,
           NEW l \in 0 .. MaxLevel, RowGood(x, t), u <= t + MaxCooldown
    PROVE  RowGood(LockConnectionModel(x, m, u, l), t)
  <1> DEFINE y == LockConnectionModel(x, m, u, l)
  <1>1. y.lock = [x.lock EXCEPT ![m] = u] /\ x.lock \in [Models -> Int \cup {NoLock}]
    BY LockRow DEF Row
  <1> HIDE DEF y
  <1>2. y.lock[m] = u /\ \A n \in Models \ {m} : y.lock[n] = x.lock[n]
    BY <1>1
  <1>3. y.lock[m] # NoLock
    BY <1>2, StoreAssumption
  <1>4. RowGood(y, t)
    BY <1>2, <1>3 DEF RowGood
  <1> QED
    BY <1>4 DEF y

LEMMA UnlockGood ==
    ASSUME NEW x \in Row, NEW m \in Models, NEW t \in Int, RowGood(x, t)
    PROVE  RowGood(UnlockConnectionModel(x, m), t)
  <1> DEFINE y == UnlockConnectionModel(x, m)
  <1>1. y.lock = [x.lock EXCEPT ![m] = NoLock] /\ y.level = 0
        /\ x.lock \in [Models -> Int \cup {NoLock}]
    BY UnlockRow DEF Row
  <1> HIDE DEF y
  <1>2. y.lock[m] = NoLock /\ \A n \in Models \ {m} : y.lock[n] = x.lock[n]
    BY <1>1
  <1>3. RowGood(y, t)
    BY <1>1, <1>2 DEF RowGood
  <1> QED
    BY <1>3 DEF y

LEMMA MergeGood ==
    ASSUME NEW x \in Row, NEW k \in Nat, NEW e \in Int, NEW t, RowGood(x, t)
    PROVE  RowGood(MergeToken(x, k, e), t)
  BY MergeRow DEF RowGood

LEMMA MaxCooldownInt == MaxCooldown \in Int
  BY DurationAssumption DEF MaxCooldown, LongestMs, AtLeast, CooldownSec

LEMMA StepStoreInv == TypeInv /\ StoreInv /\ [Next]_vars => StoreInv'
  <1> SUFFICES ASSUME TypeInv, StoreInv, [Next]_vars PROVE StoreInv'
    OBVIOUS
  <1> USE DEF store, locals
  \* Most steps leave the table alone and at most take a copy of a row or drop one.
  <1>1. ASSUME UNCHANGED <<row, now>>, NEW r \in Reqs,
               \/ blob' = blob
               \/ blob' = [blob EXCEPT ![r] = None]
               \/ cur[r] \in Conns /\ blob' = [blob EXCEPT ![r] = row[cur[r]]]
        PROVE  StoreInv'
    BY <1>1 DEF StoreInv, TypeInv, TypeOK
  <1>2. CASE UNCHANGED vars
    BY <1>2 DEF vars, StoreInv
  <1>3. CASE Tick
    <2>1. now' = now + 1 /\ row' = row /\ blob' = blob /\ now \in Int
      BY <1>3 DEF Tick, TypeInv, TypeOK
    <2>3. ASSUME NEW x \in Row, RowGood(x, now) PROVE RowGood(x, now')
      BY <2>1, <2>3, MaxCooldownInt DEF RowGood, Row
    <2> QED
      BY <2>1, <2>3 DEF StoreInv, TypeInv, TypeOK
  <1>4. ASSUME NEW r \in Reqs, Renew(r), pc[r] \in {"renew", "renew401"}, now' = now
        PROVE  StoreInv'
    <2> DEFINE new == MergeToken(blob[r], issued + 1, now + TokenLife)
    <2>1. cur[r] \in Conns /\ blob[r] \in Row /\ blob[r] # None
      BY <1>4, FallbackAssumption DEF TypeInv, LocalsOK, LocalOK
    <2>2. issued + 1 \in Nat /\ now + TokenLife \in Int
      BY FallbackAssumption DEF TypeInv, TypeOK
    <2>3. RowGood(new, now)
      BY <2>1, <2>2, MergeGood DEF StoreInv
    <2>4. row' = [row EXCEPT ![cur[r]] = new] /\ blob' = [blob EXCEPT ![r] = None]
      BY <1>4, <2>1 DEF Renew, Update
    <2> HIDE DEF new
    <2> QED
      BY <1>4, <2>1, <2>3, <2>4 DEF StoreInv, TypeInv, TypeOK
  <1>5. ASSUME NEW r \in Reqs, Succeed(r) PROVE StoreInv'
    <2>1. CASE cur[r] \in Conns
      <3>1. row' = [row EXCEPT ![cur[r]] = UnlockConnectionModel(row[cur[r]], model[r])]
            /\ now' = now /\ blob' = blob
        BY <1>5, <2>1 DEF Succeed, Update
      <3>2. model[r] \in Models /\ now \in Int
        BY <1>5 DEF Succeed, TypeInv, TypeOK, LocalsOK, LocalOK
      <3>3. RowGood(UnlockConnectionModel(row[cur[r]], model[r]), now)
        BY <2>1, <3>2, UnlockGood DEF StoreInv, TypeInv, TypeOK
      <3> QED
        BY <2>1, <3>1, <3>3 DEF StoreInv, TypeInv, TypeOK
    <2>2. CASE cur[r] \notin Conns
      BY <1>5, <2>2, <1>1 DEF Succeed, Update
    <2> QED
      BY <2>1, <2>2
  <1>6. ASSUME NEW r \in Reqs, LockFailed(r) PROVE StoreInv'
    <2> DEFINE v == ClassifyError(lastErr[r].status, lastErr[r].phrases, level[r])
               u == now + CooldownSec(v.ms)
    <2>1. /\ v.level \in 0 .. MaxLevel
          /\ CooldownSec(v.ms) \in Int /\ CooldownSec(v.ms) <= MaxCooldown
      <3>1. level[r] \in 0 .. MaxLevel
        BY DEF TypeInv, TypeOK
      <3>2. v.level \in 0 .. MaxLevel /\ v.ms \in Int /\ v.ms <= LongestMs
        BY <3>1, ClassifyErrorBound
      <3> HIDE DEF v
      <3> QED
        BY <3>2, CooldownSecBound DEF MaxCooldown
    <2>2. cur[r] \in Conns /\ model[r] \in Models /\ u \in Int /\ now \in Int
      BY <1>6, <2>1 DEF LockFailed, TypeInv, TypeOK, LocalsOK, LocalOK
    <2>3. u <= now + MaxCooldown
      BY <2>1, <2>2, MaxCooldownInt
    <2>4. row' = [row EXCEPT ![cur[r]] =
                     LockConnectionModel(row[cur[r]], model[r], u, v.level)]
          /\ now' = now /\ blob' = blob
      BY <1>6, <2>2 DEF LockFailed, Update
    <2> HIDE DEF v, u
    <2>5. RowGood(LockConnectionModel(row[cur[r]], model[r], u, v.level), now)
      BY <2>1, <2>2, <2>3, LockGood DEF StoreInv, TypeInv, TypeOK
    <2> QED
      BY <2>2, <2>4, <2>5 DEF StoreInv, TypeInv, TypeOK
  <1>7. ASSUME NEW r \in Reqs, Arrive(r) \/ SkipLocked(r) \/ Healthy(r) \/ Unhealthy(r)
                  \/ ListConnections(r) \/ UseDefault(r) \/ NoConnections(r)
                  \/ SkipKeyless(r) \/ Fetch(r) \/ Exhausted(r) \/ TokenStillGood(r)
        PROVE  UNCHANGED <<row, now, blob>>
    BY <1>7 DEF Arrive, SkipLocked, Healthy, Unhealthy, ListConnections, UseDefault,
                NoConnections, SkipKeyless, Fetch, Exhausted, TokenStillGood
  <1>8. ASSUME NEW r \in Reqs, RefreshFailed(r) \/ ReadLevel(r) \/ Leave(r)
                  \/ Fail(r) \/ ForceRefreshFailed(r)
        PROVE  /\ UNCHANGED <<row, now>>
               /\ blob' = blob \/ blob' = [blob EXCEPT ![r] = None]
    BY <1>8 DEF RefreshFailed, ReadLevel, Leave, Fail, ForceRefreshFailed, Failed
  <1>9. ASSUME NEW r \in Reqs, TokenExpired(r) \/ Unauthorized(r)
        PROVE  /\ UNCHANGED <<row, now>>
               /\ cur[r] \in Conns /\ blob' = [blob EXCEPT ![r] = row[cur[r]]]
    BY <1>9, FallbackAssumption DEF TokenExpired, Unauthorized, NeedsRefresh
  <1>10. ASSUME NEW r \in Reqs, Refreshed(r) \/ ForceRefreshed(r) PROVE StoreInv'
    BY <1>4, <1>10 DEF Refreshed, ForceRefreshed
  <1> QED
    BY <1>1, <1>2, <1>3, <1>5, <1>6, <1>7, <1>8, <1>9, <1>10 DEF Next, Step

\* No account is parked for good: whatever an old blob brings back, no lock reaches
\* further than the longest cooldown from now.
THEOREM LocksAlwaysExpire == Spec => []LocksExpire
  <1>1. StoreInv => LocksExpire
    BY DEF StoreInv, RowGood, LocksExpire
  <1> QED
    BY <1>1, InitStoreInv, StepStoreInv, TypeInvariant, PTL DEF Spec

\* A backoff level above zero never outlives the locks of its connection.
THEOREM BackoffKeepsLock == Spec => []BackoffHasLock
  <1>1. StoreInv => BackoffHasLock
    BY DEF StoreInv, RowGood, BackoffHasLock
  <1> QED
    BY <1>1, InitStoreInv, StepStoreInv, TypeInvariant, PTL DEF Spec

-----------------------------------------------------------------------------
(* The loop leaves no account out.                                           *)

LEMMA InitLoopInv == Init => LoopInv
  BY DEF Init, LoopInv, LoopOK

\* A step of r touches no local of another request.
LEMMA OthersKeep ==
    ASSUME TypeInv, NEW r \in Reqs, Arrive(r) \/ Step(r) \/ Leave(r), NEW q \in Reqs \ {r}
    PROVE  /\ pc'[q] = pc[q] /\ pin'[q] = pin[q] /\ todo'[q] = todo[q] /\ cur'[q] = cur[q]
           /\ tried'[q] = tried[q] /\ result'[q] = result[q] /\ lastErr'[q] = lastErr[q]
           /\ model'[q] = model[q]
  <1> USE DEF TypeInv, TypeOK, store, locals, Goto, Return
  <1>1. CASE Arrive(r)
    <2>1. PICK m \in Models, p \in Conns \cup {None} :
              /\ pin' = [pin EXCEPT ![r] = p]
              /\ todo' = [todo EXCEPT ![r] = IF p = None THEN Accounts[m] ELSE {p}]
              /\ pc' = [pc EXCEPT ![r] = IF p = None THEN "check" ELSE "fetch"]
      BY <1>1, FallbackAssumption DEF Arrive
    <2> QED
      BY <1>1, <2>1 DEF Arrive
  <1>2. CASE SkipLocked(r) \/ Healthy(r) \/ Unhealthy(r) \/ ListConnections(r)
             \/ UseDefault(r) \/ NoConnections(r) \/ SkipKeyless(r) \/ Fetch(r) \/ Exhausted(r)
    BY <1>2 DEF SkipLocked, Healthy, Unhealthy, ListConnections, UseDefault, NoConnections,
                SkipKeyless, Fetch, Exhausted
  <1>3. CASE TokenStillGood(r) \/ TokenExpired(r) \/ Refreshed(r) \/ RefreshFailed(r)
             \/ Succeed(r) \/ Unauthorized(r) \/ ForceRefreshed(r)
    BY <1>3 DEF TokenStillGood, TokenExpired, Refreshed, RefreshFailed, Succeed,
                Unauthorized, ForceRefreshed, Forward
  <1>4. CASE Fail(r) \/ ForceRefreshFailed(r)
    <2>1. PICK e \in Failures : Failed(r, e)
      BY <1>4 DEF Fail, ForceRefreshFailed
    <2>2. UNCHANGED <<pin, todo, cur, tried, model>> /\ lastErr' = [lastErr EXCEPT ![r] = e]
      BY <2>1 DEF Failed
    <2>3. pc'[q] = pc[q] /\ result'[q] = result[q]
      BY <2>1 DEF Failed
    <2> QED
      BY <2>2, <2>3
  <1>5. CASE ReadLevel(r) \/ LockFailed(r) \/ Leave(r)
    BY <1>5 DEF ReadLevel, LockFailed, Leave
  <1> QED
    BY <1>1, <1>2, <1>3, <1>4, <1>5 DEF Step

LEMMA StepLoopInv == TypeInv /\ LoopInv /\ [Next]_vars => LoopInv'
  <1> SUFFICES ASSUME TypeInv, LoopInv, [Next]_vars PROVE LoopInv'
    OBVIOUS
  <1>1. CASE UNCHANGED vars \/ Tick
    BY <1>1 DEF vars, store, locals, Tick, LoopInv, LoopOK, Usable, Mine
  <1>2. ASSUME NEW r \in Reqs, Arrive(r) \/ Step(r) \/ Leave(r) PROVE LoopOK(r)'
    <2> USE DEF store, locals, Goto, Return, Usable, Mine
    <2>0. LoopOK(r) /\ LocalOK(r) /\ cur[r] \in Places \cup {None} /\ todo[r] \subseteq Conns
      BY DEF LoopInv, TypeInv, TypeOK, LocalsOK
    <2>1. CASE Arrive(r)
      <3>1. PICK m \in Models, p \in Conns \cup {None} :
                /\ pin' = [pin EXCEPT ![r] = p]
                /\ pc' = [pc EXCEPT ![r] = IF p = None THEN "check" ELSE "fetch"]
                /\ model' = [model EXCEPT ![r] = m]
                /\ todo' = [todo EXCEPT ![r] = IF p = None THEN Accounts[m] ELSE {p}]
        BY <2>1, FallbackAssumption DEF Arrive
      <3>2. tried'[r] = {} /\ pin'[r] = p
        BY <2>0, <2>1, <3>1 DEF Arrive, LoopOK, TypeInv, TypeOK
      <3>3. pc'[r] \in {"check", "fetch"} /\ (p = None => pc'[r] = "check")
        BY <3>1 DEF TypeInv, TypeOK
      <3>4. p = None => todo'[r] = Accounts[model'[r]]
        BY <3>1 DEF TypeInv, TypeOK
      <3> QED
        BY <3>2, <3>3, <3>4 DEF LoopOK
    <2>2. CASE SkipLocked(r) \/ Healthy(r) \/ Unhealthy(r)
      BY <2>0, <2>2 DEF SkipLocked, Healthy, Unhealthy, LoopOK, TypeInv, TypeOK
    <2>3. CASE ListConnections(r)
      BY <2>0, <2>3 DEF ListConnections, LoopOK, TypeInv, TypeOK, Usable, Mine
    <2>4. CASE UseDefault(r)
      <3>1. pin'[r] # None /\ pc'[r] = "refresh"
        BY <2>4, FallbackAssumption DEF UseDefault, TypeInv, TypeOK
      <3> QED
        BY <3>1 DEF LoopOK
    <2>5. CASE NoConnections(r)
      BY <2>0, <2>5 DEF NoConnections, LoopOK, TypeInv, TypeOK, Usable, Mine
    <2>6. CASE SkipKeyless(r)
      BY <2>0, <2>6 DEF SkipKeyless, LoopOK, TypeInv, TypeOK, Usable, Mine
    <2>7. CASE Fetch(r)
      <3>1. PICK c \in todo[r] \ Keyless :
                todo'[r] = todo[r] \ {c} /\ cur'[r] = c
        BY <2>7 DEF Fetch, First, TypeInv, TypeOK
      <3>2. pc[r] = "fetch" /\ pc'[r] = "refresh" /\ UNCHANGED <<pin, tried, model>>
        BY <2>7 DEF Fetch, TypeInv, TypeOK
      <3>3. CASE pin[r] = None
        <4>1. todo[r] \subseteq Mine(r)
          BY <2>0, <3>2, <3>3 DEF LoopOK
        <4> QED
          BY <2>0, <3>1, <3>2, <3>3, <4>1 DEF LoopOK
      <3>4. CASE pin[r] # None
        BY <3>2, <3>4 DEF LoopOK
      <3> QED
        BY <3>3, <3>4
    <2>8. CASE Exhausted(r)
      BY <2>0, <2>8 DEF Exhausted, LoopOK, TypeInv, TypeOK, Usable, Mine
    <2>9. CASE TokenStillGood(r) \/ Refreshed(r) \/ RefreshFailed(r)
      <3>1. /\ pc[r] \in {"refresh", "renew"} /\ pc'[r] = "await"
            /\ tried'[r] = tried[r] \cup {cur[r]} /\ UNCHANGED <<pin, todo, model>>
        BY <2>9 DEF TokenStillGood, Refreshed, RefreshFailed, Forward, TypeInv, TypeOK
      <3> QED
        BY <2>0, <3>1 DEF LoopOK
    <2>10. CASE TokenExpired(r) \/ Unauthorized(r) \/ ForceRefreshed(r) \/ ReadLevel(r)
      <3>1. /\ UNCHANGED <<pin, todo, cur, tried, model>>
            /\ \/ pc[r] = "refresh" /\ pc'[r] = "renew"
               \/ pc[r] \in {"await", "renew401", "level"}
                  /\ pc'[r] \in {"await", "renew401", "lock"}
        BY <2>10 DEF TokenExpired, Unauthorized, ForceRefreshed, ReadLevel, TypeInv, TypeOK
      <3> QED
        BY <2>0, <3>1 DEF LoopOK
    <2>11. CASE Succeed(r)
      <3>1. UNCHANGED <<pin, tried, model>> /\ pc'[r] = "done" /\ result'[r] = "ok"
        BY <2>11 DEF Succeed, TypeInv, TypeOK
      <3> QED
        BY <2>0, <3>1 DEF LoopOK
    <2>12. CASE Fail(r) \/ ForceRefreshFailed(r)
      <3>1. PICK e \in Failures : Failed(r, e)
        BY <2>12 DEF Fail, ForceRefreshFailed
      <3>2. pc[r] \in {"await", "renew401"}
        BY <2>12 DEF Fail, ForceRefreshFailed
      <3>3. UNCHANGED <<pin, todo, tried, model>> /\ lastErr'[r] = e
        BY <3>1 DEF Failed, TypeInv, TypeOK
      <3>4. CASE pin[r] = None /\ e.status \in RetryableStatusCodes
        <4>1. pc'[r] = "level"
          BY <3>1, <3>4 DEF Failed, TypeInv, TypeOK
        <4> QED
          BY <2>0, <3>2, <3>3, <4>1 DEF LoopOK
      <3>5. CASE pin[r] = None /\ e.status \notin RetryableStatusCodes
        <4>1. pc'[r] = "done" /\ lastErr'[r] # NoError
          BY <3>1, <3>3, <3>5, FallbackAssumption DEF Failed, TypeInv, TypeOK
        <4> QED
          BY <2>0, <3>3, <3>5, <4>1 DEF LoopOK
      <3>6. CASE pin[r] # None
        <4>1. pc'[r] = "done"
          BY <3>1, <3>6 DEF Failed, TypeInv, TypeOK
        <4> QED
          BY <3>3, <3>6, <4>1 DEF LoopOK
      <3> QED
        BY <3>4, <3>5, <3>6
    <2>13. CASE LockFailed(r)
      <3>1. pc[r] = "lock" /\ pc'[r] = "fetch" /\ UNCHANGED <<pin, todo, tried, model>>
        BY <2>13 DEF LockFailed, TypeInv, TypeOK
      <3> QED
        BY <2>0, <3>1 DEF LoopOK
    <2>14. CASE Leave(r)
      <3>1. tried'[r] = {} /\ pc'[r] = "idle"
        BY <2>14 DEF Leave, TypeInv, TypeOK
      <3> QED
        BY <3>1 DEF LoopOK
    <2> QED
      BY <1>2, <2>1, <2>2, <2>3, <2>4, <2>5, <2>6, <2>7, <2>8, <2>9, <2>10, <2>11, <2>12,
         <2>13, <2>14 DEF Step
  <1> QED
    BY <1>1, <1>2, OthersKeep DEF Next, LoopInv, LoopOK, Usable, Mine

\* Falling back never gives up early: a request that comes back with a retryable failure
\* has forwarded to every account that has a key.
THEOREM FallbackIsComplete == Spec => []FallbackComplete
  <1>1. LoopInv => FallbackComplete
    BY DEF LoopInv, LoopOK, FallbackComplete
  <1> QED
    BY <1>1, InitLoopInv, StepLoopInv, TypeInvariant, PTL DEF Spec

-----------------------------------------------------------------------------
(* The counters of requests in flight.                                       *)

Flying == {"await", "renew401"}

\* What a request in flight is counted under.
CountedAt(r, c, m) == pc[r] \in Flying /\ cur[r] = c /\ model[r] = m

LEMMA InFlightSets ==
    ASSUME NEW c, NEW m
    PROVE  /\ InFlight(c, m) = {r \in Reqs : CountedAt(r, c, m)}
           /\ InFlight(c, m) \in SUBSET Reqs /\ IsFiniteSet(InFlight(c, m))
           /\ Cardinality(InFlight(c, m)) \in Nat
  <1>1. InFlight(c, m) = {r \in Reqs : CountedAt(r, c, m)}
    BY DEF InFlight, CountedAt, Flying
  <1>2. InFlight(c, m) \in SUBSET Reqs
    BY <1>1
  <1>3. IsFiniteSet(InFlight(c, m))
    BY <1>2, FS_Subset, FallbackAssumption
  <1> QED
    BY <1>1, <1>2, <1>3, FS_CardinalityType

LEMMA PendingInit == Init => PendingExact
  <1> SUFFICES ASSUME Init, NEW c \in Places, NEW m \in Models
               PROVE  pending[c][m] = Cardinality(InFlight(c, m))
    BY DEF PendingExact
  <1>1. InFlight(c, m) = {} /\ pending[c][m] = 0
    BY DEF Init, InFlight
  <1> QED
    BY <1>1, FS_EmptySet

\* Nobody joins or leaves and the counters stand still.
LEMMA PendingStays ==
    ASSUME PendingExact, pending' = pending,
           \A q \in Reqs, c \in Places, m \in Models : CountedAt(q, c, m)' <=> CountedAt(q, c, m)
    PROVE  PendingExact'
  <1> SUFFICES ASSUME NEW c \in Places, NEW m \in Models
               PROVE  pending'[c][m] = Cardinality(InFlight(c, m)')
    BY DEF PendingExact
  <1>1. InFlight(c, m)' = InFlight(c, m)
    BY DEF InFlight, CountedAt, Flying
  <1> QED
    BY <1>1 DEF PendingExact

\* One request goes out, and the counter it is counted under goes up.
LEMMA PendingRises ==
    ASSUME TypeOK, PendingExact, NEW r \in Reqs, cur[r] \in Places, model[r] \in Models,
           pc[r] \notin Flying, pc'[r] \in Flying, cur'[r] = cur[r], model'[r] = model[r],
           \A q \in Reqs \ {r}, c \in Places, m \in Models : CountedAt(q, c, m)' <=> CountedAt(q, c, m),
           pending' = [pending EXCEPT ![cur[r]][model[r]] = @ + 1]
    PROVE  PendingExact'
  <1> SUFFICES ASSUME NEW c \in Places, NEW m \in Models
               PROVE  pending'[c][m] = Cardinality(InFlight(c, m)')
    BY DEF PendingExact
  <1>1. pending[c][m] = Cardinality(InFlight(c, m)) /\ pending[c][m] \in Nat
    BY DEF PendingExact, TypeOK
  <1>2. CASE c = cur[r] /\ m = model[r]
    <2>1. InFlight(c, m)' = InFlight(c, m) \cup {r} /\ r \notin InFlight(c, m)
      BY <1>2 DEF InFlight, CountedAt, Flying
    <2>2. pending'[c][m] = pending[c][m] + 1
      BY <1>2 DEF TypeOK
    <2>3. IsFiniteSet(InFlight(c, m))
      BY InFlightSets
    <2>4. Cardinality(InFlight(c, m) \cup {r}) = Cardinality(InFlight(c, m)) + 1
      BY <2>1, <2>3, FS_AddElement
    <2> QED
      BY <1>1, <2>1, <2>2, <2>4
  <1>3. CASE ~(c = cur[r] /\ m = model[r])
    <2>1. InFlight(c, m)' = InFlight(c, m)
      BY <1>3 DEF InFlight, CountedAt, Flying
    <2>2. pending'[c][m] = pending[c][m]
      BY <1>3 DEF TypeOK
    <2> QED
      BY <1>1, <2>1, <2>2
  <1> QED
    BY <1>2, <1>3

\* One request comes back, and the counter, which was not zero, goes down.
LEMMA PendingFalls ==
    ASSUME TypeOK, PendingExact, NEW r \in Reqs, cur[r] \in Places, model[r] \in Models,
           pc[r] \in Flying, pc'[r] \notin Flying,
           \A q \in Reqs \ {r}, c \in Places, m \in Models : CountedAt(q, c, m)' <=> CountedAt(q, c, m),
           pending' = [pending EXCEPT ![cur[r]][model[r]] = AtLeast(@ - 1, 0)]
    PROVE  PendingExact'
  <1> SUFFICES ASSUME NEW c \in Places, NEW m \in Models
               PROVE  pending'[c][m] = Cardinality(InFlight(c, m)')
    BY DEF PendingExact
  <1>1. pending[c][m] = Cardinality(InFlight(c, m)) /\ pending[c][m] \in Nat
    BY DEF PendingExact, TypeOK
  <1>2. CASE c = cur[r] /\ m = model[r]
    <2>1. InFlight(c, m)' = InFlight(c, m) \ {r} /\ r \in InFlight(c, m)
      BY <1>2 DEF InFlight, CountedAt, Flying
    <2>2. pending'[c][m] = AtLeast(pending[c][m] - 1, 0)
      BY <1>2 DEF TypeOK
    <2>3. IsFiniteSet(InFlight(c, m))
      BY InFlightSets
    <2>4. /\ Cardinality(InFlight(c, m) \ {r}) = Cardinality(InFlight(c, m)) - 1
          /\ Cardinality(InFlight(c, m) \ {r}) \in Nat
      BY <2>1, <2>3, FS_RemoveElement, FS_CardinalityType
    <2> QED
      BY <1>1, <2>1, <2>2, <2>4 DEF AtLeast
  <1>3. CASE ~(c = cur[r] /\ m = model[r])
    <2>1. InFlight(c, m)' = InFlight(c, m)
      BY <1>3 DEF InFlight, CountedAt, Flying
    <2>2. pending'[c][m] = pending[c][m]
      BY <1>3 DEF TypeOK
    <2> QED
      BY <1>1, <2>1, <2>2
  <1> QED
    BY <1>2, <1>3

LEMMA StepPending == TypeInv /\ PendingExact /\ [Next]_vars => PendingExact'
  <1> SUFFICES ASSUME TypeInv, PendingExact, [Next]_vars PROVE PendingExact'
    OBVIOUS
  <1> USE DEF store, locals, Goto, Return
  <1>1. CASE UNCHANGED vars \/ Tick
    BY <1>1, PendingStays DEF vars, Tick, CountedAt
  <1>2. ASSUME NEW r \in Reqs, Arrive(r) \/ Step(r) \/ Leave(r) PROVE PendingExact'
    <2>1. \A q \in Reqs \ {r}, c \in Places, m \in Models : CountedAt(q, c, m)' <=> CountedAt(q, c, m)
      BY <1>2, OthersKeep DEF CountedAt
    <2>2. TypeOK /\ LocalOK(r) /\ DOMAIN pc = Reqs
      BY DEF TypeInv, TypeOK, LocalsOK
    <2>3. ASSUME pending' = pending, pc[r] \notin Flying, pc'[r] \notin Flying
          PROVE  PendingExact'
      BY <2>1, <2>3, PendingStays DEF CountedAt
    <2>4. CASE Arrive(r)
      <3>1. PICK p : pc' = [pc EXCEPT ![r] = IF p = None THEN "check" ELSE "fetch"]
        BY <2>4 DEF Arrive
      <3> QED
        BY <2>2, <2>3, <2>4, <3>1 DEF Arrive, Flying
    <2>5. CASE SkipLocked(r) \/ Healthy(r) \/ Unhealthy(r) \/ ListConnections(r) \/ UseDefault(r)
               \/ NoConnections(r) \/ SkipKeyless(r) \/ Fetch(r) \/ Exhausted(r) \/ TokenExpired(r)
               \/ ReadLevel(r) \/ LockFailed(r) \/ Leave(r)
      BY <2>2, <2>3, <2>5 DEF SkipLocked, Healthy, Unhealthy, ListConnections, UseDefault, NoConnections,
              SkipKeyless, Fetch, Exhausted, TokenExpired, ReadLevel, LockFailed, Leave, Flying
    <2>6. CASE TokenStillGood(r) \/ Refreshed(r) \/ RefreshFailed(r)
      <3>1. /\ pc[r] \in {"refresh", "renew"} /\ pc' = [pc EXCEPT ![r] = "await"]
            /\ pending' = [pending EXCEPT ![cur[r]][model[r]] = @ + 1]
            /\ cur' = cur /\ model' = model
        BY <2>6 DEF TokenStillGood, Refreshed, RefreshFailed, Forward, Renew
      <3>2. cur[r] \in Places /\ model[r] \in Models
        BY <2>2, <3>1 DEF LocalOK
      <3> QED
        BY <2>1, <2>2, <3>1, <3>2, PendingRises DEF CountedAt, Flying
    <2>7. CASE Unauthorized(r) \/ ForceRefreshed(r)
      <3>1. /\ pc[r] \in Flying /\ pc'[r] \in Flying
            /\ pending' = pending /\ cur' = cur /\ model' = model
        BY <2>2, <2>7 DEF Unauthorized, ForceRefreshed, Renew, Flying
      <3> QED
        BY <2>1, <3>1, PendingStays DEF CountedAt
    <2>8. ASSUME pc[r] \in Flying, Finish(r), pc'[r] \notin Flying
          PROVE  PendingExact'
      <3>1. cur[r] \in Places /\ model[r] \in Models
        BY <2>2, <2>8 DEF LocalOK, Flying
      <3> QED
        BY <2>1, <2>2, <2>8, <3>1, PendingFalls DEF Finish
    <2>9. CASE Succeed(r)
      BY <2>2, <2>8, <2>9 DEF Succeed, Flying
    <2>10. CASE Fail(r) \/ ForceRefreshFailed(r)
      <3>1. PICK e \in Failures : Failed(r, e)
        BY <2>10 DEF Fail, ForceRefreshFailed
      <3>2. pc[r] \in Flying /\ pc'[r] \in {"level", "done"}
        BY <2>2, <2>10, <3>1 DEF Fail, ForceRefreshFailed, Failed, Flying
      <3> QED
        BY <2>8, <3>1, <3>2 DEF Failed, Flying
    <2> QED
      BY <1>2, <2>4, <2>5, <2>6, <2>7, <2>9, <2>10 DEF Step
  <1> QED
    BY <1>1, <1>2 DEF Next

\* The counters of requests in flight are exact whichever way a request leaves
\* tryForwardWithConnection: success, failure, or the retry that follows a 401.
THEOREM PendingStaysExact == Spec => []PendingExact
  BY PendingInit, StepPending, TypeInvariant, PTL DEF Spec
=============================================================================
