----------------------------- MODULE DailyUsage -----------------------------
(***************************************************************************)
(* The usage log of the router (internal/handlers/chat/usage.go and        *)
(* internal/db/usage.go).  A finished request is written to usageHistory,  *)
(* then to requestDetails under an id made of the millisecond and the      *)
(* model, then merged into the row of the day: under a lock of the process *)
(* the row is read, its counts raised by one under every heading the       *)
(* request falls under, and the row replaced.  What is said of a count of  *)
(* requests holds of the tokens and the costs beside it.                   *)
(***************************************************************************)
EXTENDS Naturals, FiniteSets, Bags

CONSTANTS
    Requests,
    Shapes,  \* what a request was for: [provider, model, key, endpoint, account]
    MaxTime, \* bound: milliseconds
    DayLen,  \* bound: milliseconds of a day
    None

Time == 0 .. MaxTime
Day(t) == t \div DayLen
Days == 0 .. Day(MaxTime)

VARIABLES
    now,
    step,    \* per request: the step it is at
    shape,   \* per request: what it was for
    history, \* the requests in usageHistory
    details, \* requestDetails: per id, the request it is about
    holder,  \* the request that holds dailyUsageMu, or None
    key,     \* per request: the date key it took under the lock, or None
    read,    \* per request: the row it read
    daily,   \* usageDaily: per day, the counts of its row
    counted, \* (history) per day: the requests written to its row
    wiped    \* (history) per day: those a failed read of the row threw away

vars == <<now, step, shape, history, details, holder, key, read, daily, counted, wiped>>
ledger == <<daily, counted, wiped>>

Init ==
    /\ now = 0
    /\ step = [r \in Requests |-> "served"] /\ shape \in [Requests -> Shapes]
    /\ history = {} /\ details = <<>>
    /\ holder = None /\ key = [r \in Requests |-> None] /\ read = [r \in Requests |-> EmptyBag]
    /\ daily = [d \in Days |-> EmptyBag]
    /\ counted = [d \in Days |-> {}] /\ wiped = [d \in Days |-> {}]

Go(r, s) == step' = [step EXCEPT ![r] = s]

\* The headings a request is counted under; a request without a connection has no account.
Headings(s) ==
    {<<"requests">>, <<"byProvider", s.provider>>, <<"byModel", s.model, s.provider>>,
     <<"byApiKey", s.key, s.model, s.provider>>, <<"byEndpoint", s.endpoint, s.model, s.provider>>,
     <<"providers", s.provider>>, <<"providers", s.provider, s.model>>}
    \cup (IF s.account = None THEN {} ELSE {<<"byAccount", s.account>>})

\* Every merge raises the requests and the totalRequests of the row alike.
Merge(row, r) == row (+) SetToBag(Headings(shape[r]))

InsertHistory(r) ==
    /\ step[r] = "served"
    /\ history' \in {history, history \cup {r}}  \* a failed insert is logged
    /\ Go(r, "detail")
    /\ UNCHANGED <<now, shape, details, holder, key, read, ledger>>

\* INSERT OR IGNORE: of two requests for a model in one millisecond the first stays.
InsertOrIgnore(id, r) ==
    [i \in DOMAIN details \cup {id} |-> IF i \in DOMAIN details THEN details[i] ELSE r]

InsertDetail(r) ==
    /\ step[r] = "detail"
    /\ details' \in {details, InsertOrIgnore(<<now, shape[r].model>>, r)}
    /\ Go(r, "daily")
    /\ UNCHANGED <<now, shape, history, holder, key, read, ledger>>

(***************************************************************************)
(* A plausible slip: the row is merged without the lock.                   *)
(***************************************************************************)
AlwaysFree == TRUE

LockFree == holder = None

LockDay(r) ==
    /\ step[r] = "daily" /\ LockFree
    /\ holder' = r /\ key' = [key EXCEPT ![r] = Day(now)]
    /\ Go(r, "read")
    /\ UNCHANGED <<now, shape, history, details, read, ledger>>

ReadDay(r) ==
    /\ step[r] = "read"
    /\ read' = [read EXCEPT ![r] = daily[key[r]]] /\ Go(r, "write")
    /\ UNCHANGED <<now, shape, history, details, holder, key, ledger>>

\* The error of a read is dropped, a row that does not parse is empty: the day starts anew.
ReadFails(r) ==
    /\ step[r] = "read"
    /\ read' = [read EXCEPT ![r] = EmptyBag] /\ Go(r, "overwrite")
    /\ UNCHANGED <<now, shape, history, details, holder, key, ledger>>

WriteDay(r) ==
    /\ step[r] \in {"write", "overwrite"}
    /\ daily' = [daily EXCEPT ![key[r]] = Merge(read[r], r)]
    /\ counted' = [counted EXCEPT ![key[r]] = @ \cup {r}]
    /\ wiped' = IF step[r] = "write" THEN wiped ELSE [wiped EXCEPT ![key[r]] = counted[key[r]]]
    /\ Go(r, "written")
    /\ UNCHANGED <<now, shape, history, details, holder, key, read>>

WriteFails(r) ==
    /\ step[r] \in {"write", "overwrite"}
    /\ Go(r, "written")
    /\ UNCHANGED <<now, shape, history, details, holder, key, read, ledger>>

UnlockDay(r) ==
    /\ step[r] = "written"
    /\ holder' = None /\ Go(r, "logged")
    /\ UNCHANGED <<now, shape, history, details, key, read, ledger>>

\* The router is killed and started again: the requests under way are not logged.
Crash ==
    /\ \E r \in Requests : step[r] \notin {"served", "logged", "lost"}
    /\ step' = [r \in Requests |-> IF step[r] \in {"served", "logged"} THEN step[r] ELSE "lost"]
    /\ holder' = None
    /\ UNCHANGED <<now, shape, history, details, key, read, ledger>>

Tick ==
    /\ now < MaxTime /\ now' = now + 1
    /\ UNCHANGED <<step, shape, history, details, holder, key, read, ledger>>

Next ==
    \/ \E r \in Requests :
        \/ InsertHistory(r) \/ InsertDetail(r) \/ LockDay(r) \/ ReadDay(r) \/ ReadFails(r)
        \/ WriteDay(r) \/ WriteFails(r) \/ UnlockDay(r)
    \/ Crash \/ Tick

Spec == Init /\ [][Next]_vars

Steps == {"served", "detail", "daily", "read", "write", "overwrite", "written", "logged", "lost"}

TypeOK ==
    /\ now \in Time /\ step \in [Requests -> Steps] /\ shape \in [Requests -> Shapes]
    /\ history \subseteq Requests /\ holder \in Requests \cup {None}
    /\ DOMAIN details \subseteq Time \X {s.model : s \in Shapes}
    /\ \A i \in DOMAIN details : details[i] \in Requests
    /\ key \in [Requests -> Days \cup {None}]
    /\ counted \in [Days -> SUBSET Requests] /\ wiped \in [Days -> SUBSET Requests]
    /\ DOMAIN read = Requests /\ \A r \in Requests : IsABag(read[r])
    /\ DOMAIN daily = Days /\ \A d \in Days : IsABag(daily[d])

CountsOf(requests) == [h \in UNION {Headings(shape[r]) : r \in requests} |->
                           Cardinality({r \in requests : h \in Headings(shape[r])})]

(***************************************************************************)
(* The row of a day counts each request that was merged into it once under *)
(* every heading it falls under, whatever requests finished together, at   *)
(* midnight or when the router was killed; only a read of the row that     *)
(* failed makes it forget the requests counted before.  It rests on        *)
(* dailyUsageMu.                                                           *)
(***************************************************************************)
DaysCountEverything == \A d \in Days : daily[d] = CountsOf(counted[d] \ wiped[d])
=============================================================================
