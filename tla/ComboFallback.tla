---------------------------- MODULE ComboFallback ----------------------------
(***************************************************************************)
(* A request for a combo walks a list of models                            *)
(* (handleComboFallback of internal/handlers/chat/combo.go;                *)
(* handleMessagesComboFallback is the same loop for the Claude endpoint):  *)
(* for each entry it resolves the model, asks whether the provider is      *)
(* available, tries accounts one after the other, and after a pass in      *)
(* which everything failed waits once and walks the list again.            *)
(* Answers go through a writer that remembers whether the client has       *)
(* already been sent something (response_writer.go).                       *)
(*                                                                         *)
(* Accounts hold API keys here: the OAuth refresh inside                   *)
(* tryForwardWithConnection is in AccountFallback.  A step is one SQL      *)
(* statement or one upstream exchange.                                     *)
(***************************************************************************)
EXTENDS ConnectionStore, Sequences

CONSTANTS
    Reqs,         \* request slots
    Impatient,    \* the ones whose client may close the connection
    Reused,       \* the ones that serve another request after the first
    Entries,      \* the models, in the order the rotation left them in
    Priority,     \* [Conns -> Nat]: the order accounts are tried in
    Failures,     \* upstream failures: [status, phrases, after]; after is the number of
                  \* seconds until the Retry-After they name, or None
    MaxAttempts,  \* accounts tried for one entry (10)
    RetryWaitCap, \* comboRetryWaitCap
    MaxTime,      \* bound: the clock stops here
    None, NoConn

\* An entry names a provider with a list of accounts, a custom node (which resolving pins
\* to one account), a provider that needs none, or nothing that can be resolved.
Kinds == {"list", "node", "noauth", "unknown"}

ASSUME ComboAssumption ==
    /\ Entries \in Seq([model : Models, conns : SUBSET Conns, kind : Kinds])
    /\ Priority \in [Conns -> Nat]
    /\ Failures \subseteq [status : Nat, phrases : SUBSET Phrases, after : Nat \cup {None}]
    /\ Impatient \subseteq Reqs /\ Reused \subseteq Reqs
    /\ MaxAttempts \in Nat /\ RetryWaitCap \in Nat /\ MaxTime \in Nat
    /\ None \notin Conns /\ NoConn \notin Conns /\ None # NoConn /\ None \notin Nat

VARIABLES
    now, row,
    pc,        \* per request: where it is
    pass,      \*   the pass over the list, 1 or 2
    at,        \*   the entry of that pass
    pin,       \*   the account the entry is pinned to, or None
    scan,      \*   accounts the query in hand has not looked at yet
    attempts,  \*   accounts tried for this entry
    cur,       \*   the account in hand
    excluded,  \*   excludeIDs
    level,     \*   the backoff level read
    lastErr,   \*   status of the last failure, or None
    failure,   \*   the failure being recorded, or None
    retryAt,   \*   earliestRetryAfter
    wake,      \*   when the wait between the passes ends
    committed, \*   the client has been sent something
    answer,    \*   the status the request ended with, or None
    gone,      \*   the client has closed the connection
    burnt,     \*   (history) <<account, model>> locked by this request in this pass
    seen       \*   (history) statuses upstreams have answered with

entryVars == <<pin, scan, attempts, cur>>  \* declared in the body of the loop
lockVars  == <<level, failure>>                 \* local to comboLockRetryable
passVars  == <<pass, at, excluded, lastErr, retryAt, wake, burnt, seen>>
ansVars   == <<committed, answer>>
vars      == <<now, row, pc, gone, entryVars, lockVars, passVars, ansVars>>

First(cs) == {c \in cs : \A d \in cs : Priority[c] <= Priority[d]}

Entry(r) == Entries[at[r]]
Locked(r, c) == IsConnectionModelLocked(row[c], Entry(r).model, now)

Goto(r, l) == pc' = [pc EXCEPT ![r] = l]
Scan(r) == scan' = [scan EXCEPT ![r] = Entry(r).conns]
Scanned(r) == scan' = [scan EXCEPT ![r] = {}]

\* What an entry leaves behind when the loop moves on.
Forget(r) == /\ pin' = [pin EXCEPT ![r] = None]
             /\ scan' = [scan EXCEPT ![r] = {}]
             /\ attempts' = [attempts EXCEPT ![r] = 0]
             /\ cur' = [cur EXCEPT ![r] = None]

NextEntry(r) == at' = [at EXCEPT ![r] = @ + 1] /\ Forget(r) /\ Goto(r, "entry")
Finish(r) == at' = at /\ Forget(r) /\ Goto(r, "done")

Init ==
    /\ now = 0
    /\ row = [c \in Conns |-> NewRow(0)]
    /\ pc = [r \in Reqs |-> "idle"]
    /\ gone = [r \in Reqs |-> FALSE]
    /\ pass = [r \in Reqs |-> 1]
    /\ at = [r \in Reqs |-> 1]
    /\ pin = [r \in Reqs |-> None]
    /\ scan = [r \in Reqs |-> {}]
    /\ attempts = [r \in Reqs |-> 0]
    /\ cur = [r \in Reqs |-> None]
    /\ excluded = [r \in Reqs |-> {}]
    /\ level = [r \in Reqs |-> 0]
    /\ lastErr = [r \in Reqs |-> None]
    /\ failure = [r \in Reqs |-> None]
    /\ retryAt = [r \in Reqs |-> None]
    /\ wake = [r \in Reqs |-> 0]
    /\ committed = [r \in Reqs |-> FALSE]
    /\ answer = [r \in Reqs |-> None]
    /\ burnt = [r \in Reqs |-> {}]
    /\ seen = [r \in Reqs |-> {}]

\* What follows an entry whose attempts are over: a cancelled request just ends.
EntryOver(r) == IF gone[r] THEN Finish(r) ELSE NextEntry(r)

Arrive(r) == /\ pc[r] = "idle"
             /\ Goto(r, "entry")
             /\ UNCHANGED <<now, row, gone, entryVars, lockVars, passVars, ansVars>>

\* The client closes its connection: the context of the request is cancelled.
Disconnect(r) == /\ r \in Impatient /\ pc[r] \notin {"idle", "done"} /\ ~gone[r]
                 /\ gone' = [gone EXCEPT ![r] = TRUE]
                 /\ UNCHANGED <<now, row, pc, entryVars, lockVars, passVars, ansVars>>

-----------------------------------------------------------------------------
(* An entry: resolveModelEntry, then IsProviderAvailable.                    *)

Unresolved(r) ==
    /\ pc[r] = "entry" /\ at[r] <= Len(Entries)
    /\ Entry(r).kind = "unknown"
    /\ NextEntry(r)
    /\ UNCHANGED <<now, row, gone, pass, excluded, lastErr, retryAt, wake, burnt, seen,
                   lockVars, ansVars>>

Resolve(r) ==
    /\ pc[r] = "entry" /\ at[r] <= Len(Entries)
    /\ Entry(r).kind # "unknown"
    /\ Scan(r)
    /\ Goto(r, IF Entry(r).kind = "node" THEN "resolve" ELSE "avail")
    /\ UNCHANGED <<now, row, gone, pin, attempts, cur, lockVars, passVars, ansVars>>

\* All three walks over accounts read one row per step and pass over the locked ones; the
\* choice of an account passes over the excluded ones too.
SkipRow(r) ==
    /\ pc[r] \in {"resolve", "avail", "pick"}
    /\ \E c \in First(scan[r]) :
          /\ Locked(r, c) \/ (pc[r] = "pick" /\ c \in excluded[r])
          /\ scan' = [scan EXCEPT ![r] = @ \ {c}]
    /\ UNCHANGED <<now, row, pc, gone, pin, attempts, cur, lockVars, passVars, ansVars>>

\* resolvePrefixProvider: the node's first account that is not locked, excluded or not.
Pin(r) ==
    /\ pc[r] = "resolve"
    /\ \E c \in First(scan[r]) : ~Locked(r, c) /\ pin' = [pin EXCEPT ![r] = c]
    /\ Scan(r)
    /\ Goto(r, "avail")
    /\ UNCHANGED <<now, row, gone, attempts, cur, lockVars, passVars, ansVars>>

\* The node's name then stands for a provider nobody has accounts for: such a provider
\* counts as available, and its first attempt finds no account.
NotPinned(r) ==
    /\ pc[r] = "resolve" /\ scan[r] = {}
    /\ EntryOver(r)
    /\ UNCHANGED <<now, row, gone, pass, excluded, lastErr, retryAt, wake, burnt, seen,
                   lockVars, ansVars>>

Available(r) ==
    /\ pc[r] = "avail"
    /\ Entry(r).conns = {} \/ \E c \in First(scan[r]) : ~Locked(r, c)
    /\ Scanned(r)
    /\ Goto(r, "attempt")
    /\ UNCHANGED <<now, row, gone, pin, attempts, cur, lockVars, passVars, ansVars>>

\* (a slip: the status of an earlier failure is overwritten)
UnavailableWins(r) ==
    /\ pc[r] = "avail"
    /\ scan[r] = {} /\ Entry(r).conns # {}
    /\ lastErr' = [lastErr EXCEPT ![r] = 429]
    /\ NextEntry(r)
    /\ UNCHANGED <<now, row, gone, pass, excluded, retryAt, wake, burnt, seen, lockVars, ansVars>>

\* A provider whose accounts are all locked counts as a rate limit, unless something
\* worse is known already.
Unavailable(r) ==
    /\ pc[r] = "avail"
    /\ scan[r] = {} /\ Entry(r).conns # {}
    /\ lastErr' = [lastErr EXCEPT ![r] = IF @ = None THEN 429 ELSE @]
    /\ NextEntry(r)
    /\ UNCHANGED <<now, row, gone, pass, excluded, retryAt, wake, burnt, seen, lockVars, ansVars>>

-----------------------------------------------------------------------------
(* One attempt.                                                              *)

\* (a slip: the attempt is not counted)
AttemptUncounted(r) ==
    /\ cur' = [cur EXCEPT ![r] = None]
    /\ Goto(r, "attempt")
    /\ UNCHANGED <<pin, scan, attempts, at>>

NextAttempt(r) ==
    /\ attempts' = [attempts EXCEPT ![r] = @ + 1]
    /\ cur' = [cur EXCEPT ![r] = None]
    /\ Goto(r, "attempt")
    /\ UNCHANGED <<pin, scan, at>>

Attempt(r) ==
    /\ pc[r] = "attempt" /\ attempts[r] < MaxAttempts
    /\ \/ /\ Entry(r).kind = "noauth"
          /\ cur' = [cur EXCEPT ![r] = NoConn]
          /\ Goto(r, "forward")
          /\ UNCHANGED scan
       \/ /\ Entry(r).kind # "noauth" /\ pin[r] # None
          /\ cur' = [cur EXCEPT ![r] = pin[r]]
          /\ Goto(r, "check")
          /\ UNCHANGED scan
       \/ /\ Entry(r).kind # "noauth" /\ pin[r] = None
          /\ Scan(r)
          /\ Goto(r, "pick")
          /\ UNCHANGED cur
    /\ UNCHANGED <<now, row, gone, pin, attempts, lockVars, passVars, ansVars>>

AttemptsOver(r) ==
    /\ \/ pc[r] = "attempt" /\ attempts[r] = MaxAttempts
       \/ pc[r] = "pick" /\ scan[r] = {}
    /\ EntryOver(r)
    /\ UNCHANGED <<now, row, gone, pass, excluded, lastErr, retryAt, wake, burnt, seen,
                   lockVars, ansVars>>

Pick(r) ==
    /\ pc[r] = "pick"
    /\ \E c \in First(scan[r]) \ excluded[r] :
          ~Locked(r, c) /\ cur' = [cur EXCEPT ![r] = c]
    /\ Scanned(r)
    /\ Goto(r, "check")
    /\ UNCHANGED <<now, row, gone, pin, attempts, lockVars, passVars, ansVars>>

\* A second look at the lock: a pinned account, or one another request has locked since.
SkipLocked(r) ==
    /\ pc[r] = "check" /\ Locked(r, cur[r])
    /\ excluded' = [excluded EXCEPT ![r] = @ \cup {cur[r]}]
    /\ NextAttempt(r)
    /\ UNCHANGED <<now, row, gone, pass, lastErr, retryAt, wake, burnt, seen, lockVars, ansVars>>

\* tryForwardWithConnection starts.
Forward(r) ==
    /\ \/ pc[r] = "forward"
       \/ pc[r] = "check" /\ ~Locked(r, cur[r])
    /\ Goto(r, "await")
    /\ UNCHANGED <<now, row, gone, pin, scan, attempts, cur, lockVars, passVars, ansVars>>

Succeed(r) ==
    /\ pc[r] = "await"
    /\ row' = IF cur[r] = NoConn THEN row
              ELSE [row EXCEPT ![cur[r]] = UnlockConnectionModel(@, Entry(r).model)]
    /\ committed' = [committed EXCEPT ![r] = TRUE]
    /\ answer' = [answer EXCEPT ![r] = 200]
    /\ Finish(r)
    /\ UNCHANGED <<now, gone, pass, excluded, lastErr, retryAt, wake, burnt, seen, lockVars>>

\* Any failure of a cancelled request ends it; nothing is written, nothing is locked.
FailGone(r) ==
    /\ pc[r] = "await" /\ gone[r]
    /\ lastErr' = [lastErr EXCEPT ![r] = 499]
    /\ Finish(r)
    /\ UNCHANGED <<now, row, gone, pass, excluded, retryAt, wake, burnt, seen, lockVars, ansVars>>

AfterFailure(r) == IF cur[r] = NoConn THEN EntryOver(r) ELSE NextAttempt(r)

\* The upstream answers with an error status.  A retryable one goes through
\* comboLockRetryable first; the earliest Retry-After is kept.
Fail(r) ==
    /\ pc[r] = "await" /\ ~gone[r]
    /\ \E e \in Failures :
          /\ lastErr' = [lastErr EXCEPT ![r] = e.status]
          /\ seen' = [seen EXCEPT ![r] = @ \cup {e.status}]
          /\ retryAt' = [retryAt EXCEPT ![r] =
                IF e.after = None THEN @
                ELSE IF @ = None THEN now + e.after ELSE AtMost(@, now + e.after)]
          /\ IF e.status \in RetryableStatusCodes /\ cur[r] # NoConn
             THEN /\ failure' = [failure EXCEPT ![r] = e]
                  /\ Goto(r, "level")
                  /\ UNCHANGED <<entryVars, at>>
             ELSE AfterFailure(r) /\ UNCHANGED failure
    /\ UNCHANGED <<now, row, gone, pass, excluded, wake, burnt, level, ansVars>>

\* A failure without a status: the connection broke, possibly in the middle of a stream
\* whose beginning the client already has.
Break(r) ==
    /\ pc[r] = "await" /\ ~gone[r]
    /\ lastErr' = [lastErr EXCEPT ![r] = 502]
    /\ \E sent \in BOOLEAN : committed' = [committed EXCEPT ![r] = @ \/ sent]
    /\ AfterFailure(r)
    /\ UNCHANGED <<now, row, gone, pass, excluded, retryAt, wake, burnt, seen, lockVars, answer>>

\* comboLockRetryable: the level is read in one statement and written in the next.
ReadLevel(r) ==
    /\ pc[r] = "level"
    /\ level' = [level EXCEPT ![r] = row[cur[r]].level]
    /\ Goto(r, "lock")
    /\ UNCHANGED <<now, row, gone, failure, entryVars, passVars, ansVars>>

Lock(r) ==
    LET v == ClassifyError(failure[r].status, failure[r].phrases, level[r])
    IN  row' = [row EXCEPT ![cur[r]] =
                   LockConnectionModel(@, Entry(r).model, now + CooldownSec(v.ms), v.level)]

\* (a slip: the account is locked for the model but not excluded for the other models)
LockOnly(r) ==
    /\ pc[r] = "lock"
    /\ Lock(r)
    /\ burnt' = [burnt EXCEPT ![r] = @ \cup {<<cur[r], Entry(r).model>>}]
    /\ failure' = [failure EXCEPT ![r] = None]
    /\ level' = [level EXCEPT ![r] = 0]
    /\ NextAttempt(r)
    /\ UNCHANGED <<now, gone, pass, excluded, lastErr, retryAt, wake, seen, ansVars>>

\* No cooldown is ever zero (EveryFailureCools), so the account is always locked.
LockRetryable(r) ==
    /\ pc[r] = "lock"
    /\ Lock(r)
    /\ excluded' = [excluded EXCEPT ![r] = @ \cup {cur[r]}]
    /\ burnt' = [burnt EXCEPT ![r] = @ \cup {<<cur[r], Entry(r).model>>}]
    /\ failure' = [failure EXCEPT ![r] = None]
    /\ level' = [level EXCEPT ![r] = 0]
    /\ NextAttempt(r)
    /\ UNCHANGED <<now, gone, pass, lastErr, retryAt, wake, seen, ansVars>>

-----------------------------------------------------------------------------
(* The end of a pass.                                                        *)

\* comboRetryAfter: zero when no Retry-After is known or it is too far away.
RetryWait(r) ==
    IF retryAt[r] = None \/ AtLeast(retryAt[r] - now, 1) > RetryWaitCap THEN 0
    ELSE AtLeast(retryAt[r] - now, 1)

WorthRetrying(r) == lastErr[r] # None /\ ~gone[r] /\ pass[r] = 1 /\ RetryWait(r) > 0

Wait(r) ==
    /\ pc[r] = "entry" /\ at[r] > Len(Entries)
    /\ WorthRetrying(r)
    /\ wake' = [wake EXCEPT ![r] = now + RetryWait(r)]
    /\ Goto(r, "wait")
    /\ UNCHANGED <<now, row, gone, pass, at, excluded, lastErr, retryAt, burnt, seen,
                   entryVars, lockVars, ansVars>>

\* The timer fires and a fresh pass begins.  (The bounded clock stands still at MaxTime;
\* there the timer may fire at any moment.)
SecondPass(r) ==
    /\ pc[r] = "wait" /\ (now >= wake[r] \/ now = MaxTime)
    /\ pass' = [pass EXCEPT ![r] = 2]
    /\ at' = [at EXCEPT ![r] = 1]
    /\ wake' = [wake EXCEPT ![r] = 0]
    /\ lastErr' = [lastErr EXCEPT ![r] = None]
    /\ retryAt' = [retryAt EXCEPT ![r] = None]
    /\ excluded' = [excluded EXCEPT ![r] = {}]
    /\ burnt' = [burnt EXCEPT ![r] = {}]
    /\ Goto(r, "entry")
    /\ UNCHANGED <<now, row, gone, seen, entryVars, lockVars, ansVars>>

\* (a slip: whatever ends the wait ends the request)
WaitEndsRequest(r) ==
    /\ pc[r] = "wait" /\ (gone[r] \/ now >= wake[r])
    /\ Goto(r, "done")
    /\ UNCHANGED <<now, row, gone, entryVars, lockVars, passVars, ansVars>>

CancelledInWait(r) ==
    /\ pc[r] = "wait" /\ gone[r]
    /\ Goto(r, "done")
    /\ UNCHANGED <<now, row, gone, entryVars, lockVars, passVars, ansVars>>

\* The last failure is the answer, or 502 when no entry was of any use; a client that has
\* been sent something already gets no second header.
Answer(r) ==
    /\ pc[r] = "entry" /\ at[r] > Len(Entries)
    /\ ~WorthRetrying(r)
    /\ committed' = [committed EXCEPT ![r] = TRUE]
    /\ answer' = [answer EXCEPT ![r] = IF committed[r] THEN @
                                       ELSE IF lastErr[r] = None THEN 502 ELSE lastErr[r]]
    /\ Goto(r, "done")
    /\ UNCHANGED <<now, row, gone, entryVars, lockVars, passVars>>

\* The handler has returned; its slot serves another request.
Leave(r) ==
    /\ r \in Reused /\ pc[r] = "done"
    /\ Goto(r, "idle")
    /\ gone' = [gone EXCEPT ![r] = FALSE]
    /\ pass' = [pass EXCEPT ![r] = 1]
    /\ at' = [at EXCEPT ![r] = 1]
    /\ excluded' = [excluded EXCEPT ![r] = {}]
    /\ lastErr' = [lastErr EXCEPT ![r] = None]
    /\ retryAt' = [retryAt EXCEPT ![r] = None]
    /\ wake' = [wake EXCEPT ![r] = 0]
    /\ committed' = [committed EXCEPT ![r] = FALSE]
    /\ answer' = [answer EXCEPT ![r] = None]
    /\ burnt' = [burnt EXCEPT ![r] = {}]
    /\ seen' = [seen EXCEPT ![r] = {}]
    /\ UNCHANGED <<now, row, entryVars, lockVars>>

Tick == /\ now < MaxTime
        /\ now' = now + 1
        /\ UNCHANGED <<row, pc, gone, entryVars, lockVars, passVars, ansVars>>

-----------------------------------------------------------------------------
Step(r) ==
    \/ Unresolved(r) \/ Resolve(r) \/ SkipRow(r) \/ Pin(r) \/ NotPinned(r)
    \/ Available(r) \/ Unavailable(r)
    \/ Attempt(r) \/ AttemptsOver(r) \/ Pick(r) \/ SkipLocked(r) \/ Forward(r)
    \/ Succeed(r) \/ FailGone(r) \/ Fail(r) \/ Break(r) \/ ReadLevel(r) \/ LockRetryable(r)
    \/ Wait(r) \/ SecondPass(r) \/ CancelledInWait(r) \/ Answer(r)

Next == Tick \/ \E r \in Reqs : Arrive(r) \/ Disconnect(r) \/ Step(r) \/ Leave(r)

Spec == Init /\ [][Next]_vars

\* Statements and upstream exchanges end, and time passes.
FairSpec == Spec /\ WF_vars(Tick) /\ \A r \in Reqs : WF_vars(Step(r))

-----------------------------------------------------------------------------
TypeOK ==
    /\ now \in 0 .. MaxTime
    /\ row \in [Conns -> Row]
    /\ pc \in [Reqs -> {"idle", "entry", "resolve", "avail", "attempt", "pick", "check",
                        "forward", "await", "level", "lock", "wait", "done"}]
    /\ gone \in [Reqs -> BOOLEAN]
    /\ pass \in [Reqs -> 1 .. 2]
    /\ at \in [Reqs -> 1 .. Len(Entries) + 1]
    /\ pin \in [Reqs -> Conns \cup {None}]
    /\ scan \in [Reqs -> SUBSET Conns]
    /\ attempts \in [Reqs -> 0 .. MaxAttempts]
    /\ cur \in [Reqs -> Conns \cup {NoConn, None}]
    /\ excluded \in [Reqs -> SUBSET Conns]
    /\ level \in [Reqs -> 0 .. MaxLevel]
    /\ lastErr \in [Reqs -> Nat \cup {None}]
    /\ failure \in [Reqs -> Failures \cup {None}]
    /\ retryAt \in [Reqs -> Nat \cup {None}]
    /\ wake \in [Reqs -> Nat]
    /\ committed \in [Reqs -> BOOLEAN]
    /\ answer \in [Reqs -> Nat \cup {None}]
    /\ burnt \in [Reqs -> SUBSET (Conns \X Models)]
    /\ seen \in [Reqs -> SUBSET Nat]

\* Every client that is still there gets an answer, whatever combination of unusable
\* entries, locked accounts and failures the request ran into.
Answered == \A r \in Reqs : pc[r] = "done" /\ ~gone[r] => committed[r]

Burnt(r) == {b[1] : b \in burnt[r]}

\* combo.go:340: an account that failed with a retryable status is not selected again for
\* the remaining models of the pass, in entries whose accounts are chosen from a list.
ExcludedStays ==
    [][\A r \in Reqs : pc[r] # "await" /\ pc'[r] = "await" /\ pin[r] = None
          => cur[r] \notin Burnt(r)]_vars

\* A rate limit is reported only to a client whose request really met one: an upstream
\* said so, or no upstream was reached because every account was locked.  (Of a request
\* that walked the list once: the second pass forgets the failures of the first.)
HonestRateLimit ==
    \A r \in Reqs : answer[r] = 429 /\ pass[r] = 1 => 429 \in seen[r] \/ seen[r] = {}

\* Every request ends.
Returns == \A r \in Reqs : pc[r] # "idle" ~> pc[r] = "done"

-----------------------------------------------------------------------------
\* ARCHITECTURE.md:333: retries are aborted once streaming to the client has started.
NoRetryAfterCommit ==
    [][\A r \in Reqs : pc[r] # "await" /\ pc'[r] = "await" => ~committed[r]]_vars
=============================================================================
