--------------------------- MODULE ServiceTokens ----------------------------
(***************************************************************************)
(* Short-lived tokens the router fetches for a service and keeps in        *)
(* memory.  MiMo (internal/handlers/chat/mimofree.go) has one token for    *)
(* everybody, looked up and fetched under one lock; a rejected token is    *)
(* cleared and the request sent once more.  Qoder (exchangePATtoJobToken   *)
(* of internal/proxy/executor/qoder.go) looks and stores under a lock but  *)
(* fetches outside it, and keeps a token for its 30 minutes whatever the   *)
(* service says of it.  Tokens are numbered in the order they are fetched; *)
(* the service may stop accepting one at any time.                         *)
(***************************************************************************)
EXTENDS Naturals, FiniteSets

CONSTANTS
    Requests,
    MaxTokens, \* bound: tokens fetched
    None

ASSUME TokensAssumption == MaxTokens \in Nat /\ None \notin Nat /\ None \notin Requests

Tokens == 1 .. MaxTokens
Services == {"mimo", "qoder"}

VARIABLES
    service,  \* the service the requests are for
    step,     \* per request: the step it is at
    token,    \* per request: the token it holds, or None
    sent,     \* per request: the body of the request has been read
    reply,    \* per request: what came of it, or None
    cached,   \* the token in memory, or None
    expired,  \* the time kept beside it is over
    lock,     \* the request that holds the lock over a bootstrap, or None
    fetched,  \* tokens fetched so far
    refused,  \* tokens the service does not accept any longer
    rejected  \* (history) per request: the token its first call was refused with, or None

vars == <<service, step, token, sent, reply, cached, expired, lock, fetched, refused, rejected>>
memory == <<cached, expired, lock, fetched>>

Mimo == service = "mimo"

Init ==
    /\ service \in Services
    /\ step = [r \in Requests |-> "look"] /\ token = [r \in Requests |-> None]
    /\ sent = [r \in Requests |-> FALSE] /\ reply = [r \in Requests |-> None]
    /\ cached = None /\ expired = FALSE /\ lock = None /\ fetched = 0
    /\ refused = {} /\ rejected = [r \in Requests |-> None]

At(r, s) == step[r] = s
Go(r, s) == step' = [step EXCEPT ![r] = s]
Ends(r, what) == Go(r, "done") /\ reply' = [reply EXCEPT ![r] = what]
Take(r, t) == token' = [token EXCEPT ![r] = t]

\* A token in memory that is still good for its five minutes (MiMo) or not over (Qoder).
UseCached(r) ==
    /\ At(r, "look") /\ lock = None
    /\ cached # None /\ ~expired
    /\ Take(r, cached) /\ Go(r, "send")
    /\ UNCHANGED <<service, sent, reply, memory, refused, rejected>>

(***************************************************************************)
(* A plausible slip: MiMo looks and fetches as Qoder does, without the     *)
(* lock.                                                                   *)
(***************************************************************************)
NeverHeld(r) == None

\* Who holds the lock while r fetches.
HeldBy(r) == IF Mimo THEN r ELSE None

Miss(r) ==
    /\ At(r, "look") /\ lock = None
    /\ cached = None \/ expired
    /\ lock' = HeldBy(r) /\ Go(r, "fetch")
    /\ UNCHANGED <<service, token, sent, reply, cached, expired, fetched, refused, rejected>>

\* The service has made a token; the request has yet to keep it.
Fetch(r) ==
    /\ At(r, "fetch") /\ fetched < MaxTokens
    /\ fetched' = fetched + 1
    /\ Take(r, fetched') /\ Go(r, "keep")
    /\ UNCHANGED <<service, sent, reply, cached, expired, lock, refused, rejected>>

Release(r) == lock' = IF lock = r THEN None ELSE lock

Keep(r) ==
    /\ At(r, "keep")
    /\ cached' = token[r] /\ expired' = FALSE /\ Release(r)
    /\ Go(r, "send")
    /\ UNCHANGED <<service, token, sent, reply, fetched, refused, rejected>>

\* The service has no token to give, or (Qoder) does not know its user.
FetchFails(r) ==
    /\ At(r, "fetch")
    /\ Release(r) /\ Ends(r, "no token")
    /\ UNCHANGED <<service, token, sent, cached, expired, fetched, refused, rejected>>

\* The request goes out; its body is read as it is sent.
Accepted(r) == token[r] \notin refused

Send(r) ==
    /\ At(r, "send") /\ ~sent[r]
    /\ sent' = [sent EXCEPT ![r] = TRUE]
    /\ IF Accepted(r) THEN Ends(r, "answered") /\ UNCHANGED rejected
       ELSE /\ rejected' = [rejected EXCEPT ![r] = token[r]]
            /\ IF Mimo THEN Go(r, "clear") /\ UNCHANGED reply
               ELSE Ends(r, "error")
    /\ UNCHANGED <<service, token, memory, refused>>

\* What is in memory when r has cleared the token that was refused.
Cleared(r) == None

Clear(r) ==
    /\ At(r, "clear") /\ lock = None
    /\ cached' = Cleared(r) /\ Go(r, "look")
    /\ UNCHANGED <<service, token, sent, reply, expired, lock, fetched, refused, rejected>>

\* The retry hands the same http.Request to Do: its body was read by the first call, and the
\* transport refuses a body shorter than its Content-Length.
Retry(r) ==
    /\ At(r, "send") /\ sent[r]
    /\ Ends(r, "short body")
    /\ UNCHANGED <<service, token, sent, memory, refused, rejected>>

\* The 45 minutes (MiMo) or 30 minutes (Qoder) of the token in memory are over.
Expire ==
    /\ cached # None /\ ~expired
    /\ expired' = TRUE
    /\ UNCHANGED <<service, step, token, sent, reply, cached, lock, fetched, refused, rejected>>

\* The service stops accepting a token before its time.
Refuse(t) ==
    /\ t <= fetched /\ t \notin refused
    /\ refused' = refused \cup {t}
    /\ UNCHANGED <<service, step, token, sent, reply, memory, rejected>>

Next ==
    \/ \E r \in Requests :
        UseCached(r) \/ Miss(r) \/ Fetch(r) \/ Keep(r) \/ FetchFails(r) \/ Send(r) \/ Clear(r) \/ Retry(r)
    \/ Expire \/ \E t \in Tokens : Refuse(t)

Spec == Init /\ [][Next]_vars

TypeOK ==
    /\ service \in Services
    /\ step \in [Requests -> {"look", "fetch", "keep", "send", "clear", "done"}]
    /\ token \in [Requests -> Tokens \cup {None}] /\ sent \in [Requests -> BOOLEAN]
    /\ reply \in [Requests -> {None, "answered", "error", "no token", "short body"}]
    /\ cached \in Tokens \cup {None} /\ expired \in BOOLEAN /\ fetched \in 0 .. MaxTokens
    /\ lock \in Requests \cup {None} /\ refused \subseteq Tokens
    /\ rejected \in [Requests -> Tokens \cup {None}]

(***************************************************************************)
(* A MiMo token somebody has cleared because it was refused does not come  *)
(* back: what is in memory, and what the request that cleared it goes on   *)
(* with, was fetched later.  It rests on the lock being held over the      *)
(* bootstrap.                                                              *)
(***************************************************************************)
RejectedTokenIsGone == Mimo => \A r \in Requests :
    rejected[r] # None /\ step[r] # "clear" =>
        /\ cached = None \/ cached > rejected[r]
        /\ step[r] \in {"keep", "send"} => token[r] > rejected[r]
=============================================================================
