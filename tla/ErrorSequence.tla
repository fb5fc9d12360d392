---------------------------- MODULE ErrorSequence ----------------------------
(***************************************************************************)
(* The errors and successes one connection sees, each classified with the  *)
(* backoff level the previous one left behind: what the callers of         *)
(* ClassifyError do with it.  A success resets the level                   *)
(* (UnlockConnectionModel).                                                *)
(***************************************************************************)
EXTENDS ErrorClassify

CONSTANTS Statuses,     \* the status codes upstreams answer with
          Texts         \* the sets of phrases an error text contains

VARIABLES level,        \* the backoffLevel stored on the connection
          verdict,      \* the last classification
          seen          \* the last [status, phrases], or the success

vars == <<level, verdict, seen>>

Success == [status |-> 200, phrases |-> {}]

Init == /\ level = 0
        /\ verdict = Verdict(0, 0)
        /\ seen = Success

Fail(status, phrases) ==
    /\ verdict' = ClassifyError(status, phrases, level)
    /\ level' = verdict'.level
    /\ seen' = [status |-> status, phrases |-> phrases]

Succeed ==
    /\ level' = 0
    /\ verdict' = Verdict(0, 0)
    /\ seen' = Success

Next == Succeed \/ \E s \in Statuses, p \in Texts : Fail(s, p)

Spec == Init /\ [][Next]_vars

-----------------------------------------------------------------------------
\* The level and the cooldown stay in the ranges the store and the timers accept.
TypeOK == /\ level \in 0 .. MaxLevel
          /\ verdict \in [ms : 0 .. LongestMs,
                      level : 0 .. MaxLevel]
          /\ seen.status \in Statuses \cup {200}

\* The level counts quota errors: one whose text speaks only of a quota or of load raises it
\* by one whatever its status (a 401 or 403 that says so is not parked like the status alone)
\* and waits for as long as the new level says; nothing but a success lowers it, a failure of
\* another kind in between does not (errorclassify.go:82, accounts.go:72).
QuotaTexts == {"rate limit", "too many requests", "quota exceeded", "capacity", "overloaded"}
LevelFollowsQuota ==
    [][/\ level' < level => seen' = Success
       /\ seen'.phrases # {} /\ seen'.phrases \subseteq QuotaTexts =>
             verdict' = Verdict(GetQuotaCooldown(level'), AtMost(level + 1, MaxLevel))]_vars
=============================================================================
