---------------------------- MODULE HealthReset -----------------------------
(***************************************************************************)
(* Resetting the health of the connections (POST /admin/health/reset):     *)
(* Repo.ResetProviderHealth of internal/db/accounts.go runs a query over   *)
(* the rows and, with the query still open, updates one row after the      *)
(* other from the copy the query returned, while requests go on locking    *)
(* and unlocking models.  The query holds one connection of the pool       *)
(* (internal/db/client.go) and every update needs another one.  A model    *)
(* lock is known by the number of the call that set it.                    *)
(***************************************************************************)
EXTENDS Naturals, FiniteSets, FiniteSetsExt

CONSTANTS
    Resets,
    Rows,     \* the rows of providerConnections, numbered from 1 in the order of the query
    Models,
    Dotted,   \* the models with a dot in their name
    Pool,     \* SetMaxOpenConns
    MaxLocks, \* bound: locks set
    None

Locks == 1 .. MaxLocks
Unlocked == 0

VARIABLES
    locks,   \* per row and model: the lock in modelLock_<model>, or Unlocked
    level,   \* per row: whether its backoffLevel is above 0
    issued,  \* locks set so far
    expired, \* the locks whose time is over
    step,    \* per reset: the step it is at
    model,   \* per reset: the model it is for, or None for all of them
    copy,    \* per reset: the locks as its query saw them
    row      \* per reset: the row it is at

vars == <<locks, level, issued, expired, step, model, copy, row>>

NoLocks == [c \in Rows |-> [m \in Models |-> Unlocked]]

Init ==
    /\ locks = NoLocks /\ level = [c \in Rows |-> FALSE] /\ issued = 0 /\ expired = {}
    /\ step = [r \in Resets |-> "idle"] /\ model = [r \in Resets |-> None]
    /\ copy = [r \in Resets |-> NoLocks] /\ row = [r \in Resets |-> 1]

(***************************************************************************)
(* A plausible slip: the updates are queries whose rows nobody closes.     *)
(***************************************************************************)
NeverClosed(r) == IF step[r] = "rows" THEN row[r] ELSE 0

\* The connections reset r holds.
Held(r) == IF step[r] = "rows" THEN 1 ELSE 0

ConnectionFree == MapThenSumSet(Held, Resets) < Pool

Go(r, s) == step' = [step EXCEPT ![r] = s]

Query(r) ==
    /\ step[r] = "idle" /\ ConnectionFree
    /\ \E m \in Models \cup {None} : model' = [model EXCEPT ![r] = m]
    /\ copy' = [copy EXCEPT ![r] = locks] /\ Go(r, "rows")
    /\ UNCHANGED <<locks, level, issued, expired, row>>

\* The keys an update is about: a lock the copy shows as active, or every key of the copy.
Fields(r) ==
    LET seen == copy[r][row[r]] IN
    {m \in Models : /\ seen[m] # Unlocked
                    /\ model[r] # None => m = model[r] /\ seen[m] \notin expired}

AtRow(r) == step[r] = "rows" /\ row[r] \in Rows

RowAfter(r) == row[r] + 1

Advance(r) == row' = [row EXCEPT ![r] = RowAfter(r)]

Skip(r) ==
    /\ AtRow(r) /\ Fields(r) = {}
    /\ Advance(r)
    /\ UNCHANGED <<locks, level, issued, expired, step, model, copy>>

\* The paths of these updates are not quoted: "$.modelLock_gpt-4.1" is the key "1" of a
\* nested object, and the lock stays.
Named(fields) == fields \ Dotted

ClearRow(r) ==
    /\ AtRow(r) /\ Fields(r) # {} /\ ConnectionFree
    /\ locks' = [locks EXCEPT ![row[r]] =
                    [m \in Models |-> IF m \in Named(Fields(r)) THEN Unlocked ELSE @[m]]]
    /\ level' = [level EXCEPT ![row[r]] = FALSE]
    /\ Advance(r)
    /\ UNCHANGED <<issued, expired, step, model, copy>>

\* An update fails, and with it the reset; the rows before it are cleared.
RowFails(r) ==
    /\ AtRow(r) /\ Fields(r) # {} /\ ConnectionFree
    /\ Go(r, "failed")
    /\ UNCHANGED <<locks, level, issued, expired, model, copy, row>>

Finish(r) ==
    /\ step[r] = "rows" /\ row[r] \notin Rows
    /\ Go(r, "done")
    /\ UNCHANGED <<locks, level, issued, expired, model, copy, row>>

\* LockConnectionModel and UnlockConnectionModel, of a request: they quote the path.
Lock(c, m) ==
    /\ issued < MaxLocks /\ ConnectionFree
    /\ issued' = issued + 1
    /\ locks' = [locks EXCEPT ![c][m] = issued']
    /\ level' = [level EXCEPT ![c] = TRUE]
    /\ UNCHANGED <<expired, step, model, copy, row>>

Unlock(c, m) ==
    /\ ConnectionFree
    /\ locks' = [locks EXCEPT ![c][m] = Unlocked]
    /\ level' = [level EXCEPT ![c] = FALSE]
    /\ UNCHANGED <<issued, expired, step, model, copy, row>>

Expire(l) ==
    /\ l <= issued /\ l \notin expired
    /\ expired' = expired \cup {l}
    /\ UNCHANGED <<locks, level, issued, step, model, copy, row>>

Reset(r) == Skip(r) \/ ClearRow(r) \/ RowFails(r) \/ Finish(r)

Next ==
    \/ \E r \in Resets : Query(r) \/ Skip(r) \/ ClearRow(r) \/ RowFails(r) \/ Finish(r)
    \/ \E c \in Rows, m \in Models : Lock(c, m) \/ Unlock(c, m)
    \/ \E l \in Locks : Expire(l)

\* A reset goes on as long as a connection stays free for it.
Fairness == \A r \in Resets : WF_vars(Reset(r))

Spec == Init /\ [][Next]_vars /\ Fairness

TypeOK ==
    /\ locks \in [Rows -> [Models -> Locks \cup {Unlocked}]] /\ level \in [Rows -> BOOLEAN]
    /\ issued \in 0 .. MaxLocks /\ expired \subseteq Locks
    /\ step \in [Resets -> {"idle", "rows", "done", "failed"}]
    /\ model \in [Resets -> Models \cup {None}]
    /\ copy \in [Resets -> [Rows -> [Models -> Locks \cup {Unlocked}]]]
    /\ row \in [Resets -> 1 .. Cardinality(Rows) + 1]

(***************************************************************************)
(* "ResetProviderHealth clears modelLock_* fields on connections"          *)
(* (accounts.go:128): a reset that reported success leaves none of the     *)
(* active locks its query found, whatever was locked and unlocked          *)
(* meanwhile.                                                              *)
(***************************************************************************)
ResetClears == \A r \in Resets, c \in Rows, m \in Models :
    step[r] = "done" /\ model[r] \in {m, None} /\ copy[r][c][m] # Unlocked =>
        locks[c][m] # copy[r][c][m] \/ copy[r][c][m] \in expired

(***************************************************************************)
(* A reset that has begun ends, as long as fewer resets run than the pool  *)
(* has connections: each waits for a connection with another in hand.      *)
(***************************************************************************)
ResetsEnd == \A r \in Resets : step[r] = "rows" ~> step[r] # "rows"
=============================================================================
