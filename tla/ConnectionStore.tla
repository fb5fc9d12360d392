--------------------------- MODULE ConnectionStore ---------------------------
(***************************************************************************)
(* The rows of providerConnections as the proxy reads and writes them      *)
(* (internal/db/accounts.go): one JSON blob per connection that holds the  *)
(* per-model locks (modelLock_<model>), one backoff level shared by all    *)
(* models, and the OAuth token with its expiry.  Every operator here is    *)
(* one SQL statement: what it does to, or reads from, a row.               *)
(*                                                                         *)
(* Time is counted in seconds.  A lock holds the second until which it is  *)
(* active; NoLock stands for a key that is absent, null or no timestamp,   *)
(* which the code treats alike.                                            *)
(***************************************************************************)
EXTENDS ErrorClassify, FiniteSets

CONSTANTS Conns,       \* the active connections of the provider
          Models,      \* the models requests ask for
          RefreshAhead,\* a token counts as expired this long before it is
          NoLock

\* What ErrorClassify needs of its constants.
ASSUME DurationAssumption ==
    /\ MaxLevel \in Nat
    /\ BaseMs \in Nat \ {0}
    /\ MaxMs \in Nat \ {0}
    /\ CooldownLong \in Nat \ {0}
    /\ CooldownShort \in Nat \ {0}
    /\ TransientMs \in Nat \ {0}

ASSUME StoreAssumption == RefreshAhead \in Nat /\ NoLock \notin Int

Row == [lock    : [Models -> Int \cup {NoLock}],
        level   : 0 .. MaxLevel,
        token   : Nat,
        expires : Int]

\* CreateProviderConnection: neither lock nor backoff; the token is token 0.
NewRow(expires) == [lock    |-> [m \in Models |-> NoLock],
                    level   |-> 0,
                    token   |-> 0,
                    expires |-> expires]

\* (slips: a second lock is added to the first; unlocking leaves the backoff)
LockExtended(r, m, until, newLevel) ==
    [r EXCEPT !.lock[m] = IF @ = NoLock THEN until ELSE @ + 1, !.level = newLevel]
BackoffKept(r, m) == [r EXCEPT !.lock[m] = NoLock]

\* LockConnectionModel: json_set of the lock and of the level, nothing else.
LockConnectionModel(r, m, until, newLevel) ==
    [r EXCEPT !.lock[m] = until, !.level = newLevel]

\* UnlockConnectionModel: this model's lock, but the backoff of the whole connection.
UnlockConnectionModel(r, m) ==
    [r EXCEPT !.lock[m] = NoLock, !.level = 0]

\* IsConnectionModelLocked at second t.
IsConnectionModelLocked(r, m, t) == r.lock[m] # NoLock /\ t < r.lock[m]

\* OAuthConnectionData.IsExpired at second t.
IsExpired(r, t) == t > r.expires - RefreshAhead

\* What a refresh writes back: the blob it read, with the new token merged in.
MergeToken(blob, token, expires) ==
    [blob EXCEPT !.token = token, !.expires = expires]

\* No lock is set for longer than this many seconds.
MaxCooldown == CooldownSec(LongestMs)
=============================================================================
