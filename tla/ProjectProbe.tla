---------------------------- MODULE ProjectProbe ----------------------------
(***************************************************************************)
(* How a request of an antigravity or gemini-cli connection comes by the   *)
(* Google Cloud project it is sent with (handleGeminiRequest of            *)
(* internal/handlers/chat/gemini_handler.go, antigravity_project.go): from *)
(* the connection, from the onboarding calls when it has none, or made up. *)
(* That Google knows of no project is remembered for a while.  Requests of *)
(* one connection run side by side; the token refresh on the way rewrites  *)
(* the connection's row from the copy it read.                             *)
(***************************************************************************)
EXTENDS Naturals, FiniteSets

CONSTANTS
    Requests,
    TTL,      \* projectNoCacheTTL, in steps of the clock
    Attempts, \* calls of onboardUser a probe makes at most (3)
    MaxTime,  \* bound: the clock stops here
    None

Providers == {"antigravity", "gemini-cli"}
Times == 0 .. MaxTime

VARIABLES
    provider,    \* of the connection
    now,
    provisioned, \* Google has a project for this account
    row,         \* the row of the connection: [project |-> BOOLEAN, fresh |-> BOOLEAN]
    verdict,     \* projectNoCache: when the entry of the connection expires, or None
    step,        \* per request: the step it is at
    copy,        \* per request: the row as it read it
    project,     \* per request: the project it has is Google's
    attempt,     \* per request: calls of onboardUser made
    storing,     \* requests whose goroutine has yet to store the project
    sentAs,      \* per request: what it was sent with, or None
    saidNo,      \* (history) when a probe last came to "no project", or None
    skipped      \* (history) per request: when it went on without asking, or None

vars == <<provider, now, provisioned, row, verdict, step, copy, project, attempt, storing, sentAs,
          saidNo, skipped>>
world == <<provider, now, provisioned>>
notes == <<saidNo, skipped>>

NoRow == [project |-> FALSE, fresh |-> FALSE]
Rows == [project : BOOLEAN, fresh : BOOLEAN]

Init ==
    /\ provider \in Providers /\ now = 0 /\ provisioned \in BOOLEAN
    /\ row \in {r \in Rows : r.project => provisioned}
    /\ verdict = None
    /\ step = [r \in Requests |-> "new"] /\ copy = [r \in Requests |-> NoRow]
    /\ project = [r \in Requests |-> FALSE] /\ attempt = [r \in Requests |-> 0]
    /\ storing = {} /\ sentAs = [r \in Requests |-> None]
    /\ saidNo = None /\ skipped = [r \in Requests |-> None]

At(r, s) == step[r] = s
Go(r, s) == step' = [step EXCEPT ![r] = s]
Has(r, p) == project' = [project EXCEPT ![r] = p]

\* refreshOAuthTokenIfExpired reads the row; a token that has not expired is used with the project
\* beside it.
ReadRow(r) ==
    /\ At(r, "new")
    /\ copy' = [copy EXCEPT ![r] = row]
    /\ IF row.fresh THEN Go(r, "decide") /\ Has(r, row.project) ELSE Go(r, "refresh") /\ UNCHANGED project
    /\ UNCHANGED <<world, row, verdict, attempt, storing, sentAs, notes>>

\* The refresher knows no project, and none is what is returned; the row is rewritten from the copy.
Refresh(r) ==
    /\ At(r, "refresh")
    /\ \/ row' = [copy[r] EXCEPT !.fresh = TRUE]
       \/ UNCHANGED row  \* the refresh failed, and with it goes the project
    /\ Go(r, "decide") /\ UNCHANGED <<world, verdict, copy, project, attempt, storing, sentAs, notes>>

(***************************************************************************)
(* A plausible slip: an entry of projectNoCache is a verdict, whatever its *)
(* time.                                                                   *)
(***************************************************************************)
CachedForever == verdict # None

projectProbeCached == verdict # None /\ now < verdict

Decide(r) ==
    /\ At(r, "decide")
    /\ Go(r, IF project[r] \/ projectProbeCached THEN "send" ELSE "load")
    /\ skipped' = [skipped EXCEPT ![r] = IF ~project[r] /\ projectProbeCached THEN now ELSE None]
    /\ UNCHANGED <<world, row, verdict, copy, project, attempt, storing, sentAs, saidNo>>

\* A project was found: store it in the background, and go on with it.
Found(r) ==
    /\ provisioned
    /\ Has(r, TRUE) /\ storing' = storing \cup {r} /\ Go(r, "send")
    /\ UNCHANGED <<verdict, attempt, notes>>

Transient(r) == Go(r, "send") /\ UNCHANGED <<project, storing, verdict, attempt, notes>>
AuthFailed(r) == Go(r, "force") /\ UNCHANGED <<project, storing, verdict, attempt, notes>>

\* cacheProjectMissing: an entry that is there stays as it is, expired or not.
cacheProjectMissing == verdict' = IF verdict = None THEN now + TTL ELSE verdict

NoProject(r) ==
    /\ cacheProjectMissing /\ saidNo' = now /\ Go(r, "send")
    /\ UNCHANGED <<project, storing, attempt, skipped>>

\* fetchAntigravityProjectID: loadCodeAssist names the project, maps nothing, or fails.
LoadCodeAssist(r) ==
    /\ At(r, "load")
    /\ \/ Found(r) \/ Transient(r) \/ AuthFailed(r)
       \/ /\ ~provisioned /\ Go(r, "onboard")
          /\ UNCHANGED <<project, storing, verdict, attempt, notes>>
    /\ UNCHANGED <<world, row, copy, sentAs>>

\* onboardAntigravityUser asks again after a while; not done, or an error, counts as an attempt.
OnboardUser(r) ==
    /\ At(r, "onboard") /\ attempt[r] < Attempts
    /\ \/ Found(r) \/ AuthFailed(r)
       \/ ~provisioned /\ NoProject(r)
       \/ attempt' = [attempt EXCEPT ![r] = @ + 1] /\ UNCHANGED <<step, project, storing, verdict, notes>>
    /\ UNCHANGED <<world, row, copy, sentAs>>

\* After the last attempt what loadCodeAssist said is the verdict.
OnboardGivesUp(r) ==
    /\ At(r, "onboard") /\ attempt[r] = Attempts
    /\ NoProject(r) /\ UNCHANGED <<world, row, copy, sentAs>>

\* forceRefreshOAuthToken, and one more probe whose "no project" is not kept.
ForceRefresh(r) ==
    /\ At(r, "force")
    /\ \/ Go(r, "reload") /\ row' = [row EXCEPT !.fresh = TRUE]
       \/ Go(r, "send") /\ UNCHANGED row
    /\ UNCHANGED <<world, verdict, copy, project, attempt, storing, sentAs, notes>>

Reload(r) ==
    /\ At(r, "reload")
    /\ Found(r) \/ Transient(r)
    /\ UNCHANGED <<world, row, copy, sentAs>>

\* Without a project antigravity is sent with a made-up one, gemini-cli as an OpenAI request.
Send(r) ==
    /\ At(r, "send")
    /\ sentAs' = [sentAs EXCEPT ![r] = CASE project[r] -> "project"
                                          [] ~project[r] /\ provider = "antigravity" -> "made up"
                                          [] OTHER -> "openai"]
    /\ Go(r, "done") /\ Has(r, FALSE)
    /\ copy' = [copy EXCEPT ![r] = NoRow] /\ attempt' = [attempt EXCEPT ![r] = 0]
    /\ UNCHANGED <<world, row, verdict, storing, notes>>

\* storeAntigravityProjectID: json_set touches nothing else of the row.
Store(r) ==
    /\ r \in storing
    /\ row' = [row EXCEPT !.project = TRUE] /\ storing' = storing \ {r}
    /\ UNCHANGED <<world, verdict, step, copy, project, attempt, sentAs, notes>>

Again(r) ==
    /\ At(r, "done")
    /\ Go(r, "new")
    /\ sentAs' = [sentAs EXCEPT ![r] = None] /\ skipped' = [skipped EXCEPT ![r] = None]
    /\ UNCHANGED <<world, row, verdict, copy, project, attempt, storing, saidNo>>

\* Time passes, a token expires, the owner of the account gets a project.
Tick ==
    /\ now < MaxTime /\ now' = now + 1
    /\ row' \in {row, [row EXCEPT !.fresh = FALSE]}
    /\ provisioned' \in {provisioned, TRUE}
    /\ UNCHANGED <<provider, verdict, step, copy, project, attempt, storing, sentAs, notes>>

Next ==
    \/ \E r \in Requests :
        \/ ReadRow(r) \/ Refresh(r) \/ Decide(r) \/ LoadCodeAssist(r) \/ OnboardUser(r)
        \/ OnboardGivesUp(r) \/ ForceRefresh(r) \/ Reload(r) \/ Send(r) \/ Store(r) \/ Again(r)
    \/ Tick

Spec == Init /\ [][Next]_vars

TypeOK ==
    /\ provider \in Providers /\ now \in Times /\ provisioned \in BOOLEAN /\ row \in Rows
    /\ verdict \in TTL .. MaxTime + TTL \cup {None}
    /\ step \in [Requests -> {"new", "refresh", "decide", "load", "onboard", "force", "reload",
                              "send", "done"}]
    /\ copy \in [Requests -> Rows] /\ project \in [Requests -> BOOLEAN]
    /\ attempt \in [Requests -> 0 .. Attempts]
    /\ storing \subseteq Requests /\ sentAs \in [Requests -> {None, "project", "made up", "openai"}]
    /\ saidNo \in Times \cup {None} /\ skipped \in [Requests -> Times \cup {None}]

(***************************************************************************)
(* The onboarding calls are skipped only after a probe has come to "no     *)
(* project", and for no longer than the time to live: an account that has  *)
(* been given a project since is found again ("transient (429/5xx): DO NOT   *)
(* cache", antigravity_project.go:109).                                    *)
(***************************************************************************)
SkipsAreFounded == \A r \in Requests :
    skipped[r] # None => saidNo # None /\ skipped[r] < saidNo + TTL
=============================================================================
