----------------------------- MODULE ProxyPools -----------------------------
(***************************************************************************)
(* The proxies of a connection: GetProxyPool keeps the pool a row was      *)
(* first read as for good (internal/db/proxyPools.go), NextURL goes round  *)
(* its URLs, getProviderConfig turns an edge relay into the base URL of    *)
(* the request and getClientForConnection an HTTP proxy into its client    *)
(* (internal/handlers/chat/connections.go).  Requests run side by side;    *)
(* the dashboard edits the row meanwhile.                                  *)
(***************************************************************************)
EXTENDS Naturals, FiniteSets

CONSTANTS
    Requests,
    Size,     \* URLs of the pool, one or more
    None

Urls == 1 .. Size
Types == {"http", "relay"}  \* relay: vercel, cloudflare or deno

VARIABLES
    conn,    \* what the connection has of its own: a relay URL, a proxy URL
    row,     \* the row of the pool: its type, and whether it is active
    pools,   \* the ProxyPool values made from the row, per request that made one
    cache,   \* the request whose ProxyPool is in proxyPoolCache, or None
    step,    \* per request: the step it is at
    holds,   \* per request: the ProxyPool its current call works with, or None
    via,     \* per request: where getProviderConfig sends it, None until it is known
    client   \* per request: the proxy of its client, None until it is known

vars == <<conn, row, pools, cache, step, holds, via, client>>

\* A request goes to its provider directly, over a URL of the pool, or over the connection's own.
Direct == 0
Own == Size + 1
Routes == 0 .. Size + 1

NoPool == [type |-> "http", active |-> FALSE, index |-> 0]

Init ==
    /\ conn \in [relay : BOOLEAN, proxy : BOOLEAN]
    /\ row \in [type : Types, active : BOOLEAN]
    /\ pools = [r \in Requests |-> NoPool] /\ cache = None
    /\ step = [r \in Requests |-> "config"] /\ holds = [r \in Requests |-> None]
    /\ via = [r \in Requests |-> None] /\ client = [r \in Requests |-> None]

At(r, s) == step[r] = s
Go(r, s) == step' = [step EXCEPT ![r] = s]

\* The row is read and parsed before the cache is looked at; what it says is used by the first.  An
\* inactive pool stands for a missing one, and for a connection without a pool, too.
ReadRow(r, at, to) ==
    /\ At(r, at)
    /\ pools' = IF r \in {cache} \cup {holds[q] : q \in Requests} THEN pools
                ELSE [pools EXCEPT ![r] = [type |-> row.type, active |-> row.active, index |-> 0]]
    /\ Go(r, to) /\ UNCHANGED <<conn, row, cache, holds, via, client>>

(***************************************************************************)
(* A plausible slip: a request stores the pool it has read, whoever was    *)
(* first.                                                                  *)
(***************************************************************************)
LastWins(r) == r

\* LoadOrStore.
Winner(r) == IF cache = None THEN r ELSE cache

CachePool(r, at, to) ==
    /\ At(r, at)
    /\ cache' = Winner(r) /\ holds' = [holds EXCEPT ![r] = Winner(r)]
    /\ Go(r, to) /\ UNCHANGED <<conn, row, pools, via, client>>

Pool(r) == pools[holds[r]]

\* NextURL adds one to the index of the pool, and takes the URL it then stands at.
NextIndex(r) == (Pool(r).index + 1) % Size
NextURL(r) == NextIndex(r) + 1
Advance(r) == pools' = [pools EXCEPT ![holds[r]].index = NextIndex(r)]

Relayed(r) == Pool(r).active /\ Pool(r).type = "relay"

\* getProviderConfig: a relay of the pool, or else of the connection, unless noProxy names the
\* provider.
ProviderConfig(r) ==
    /\ At(r, "relay")
    /\ IF Relayed(r) THEN Advance(r) ELSE UNCHANGED pools
    /\ \E bypass \in BOOLEAN :
        via' = [via EXCEPT ![r] = CASE bypass -> Direct
                                    [] ~bypass /\ Relayed(r) -> NextURL(r)
                                    [] ~bypass /\ ~Relayed(r) /\ conn.relay -> Own
                                    [] OTHER -> Direct]
    /\ Go(r, "client") /\ holds' = [holds EXCEPT ![r] = None]
    /\ UNCHANGED <<conn, row, cache, client>>

\* getClientForConnection: a URL of any active pool is taken; only that of an HTTP proxy is used.
ClientForConnection(r) ==
    /\ At(r, "proxy")
    /\ IF Pool(r).active THEN Advance(r) ELSE UNCHANGED pools
    /\ client' = [client EXCEPT ![r] =
         CASE Pool(r).active /\ Pool(r).type = "http" -> NextURL(r)
           [] ~Pool(r).active /\ conn.proxy -> Own
           [] OTHER -> Direct]
    /\ Go(r, "done") /\ holds' = [holds EXCEPT ![r] = None]
    /\ UNCHANGED <<conn, row, cache, via>>

\* The dashboard switches the pool on or off.
Edit ==
    /\ \E r \in Requests : step[r] # "done"
    /\ row' = [row EXCEPT !.active = ~@]
    /\ UNCHANGED <<conn, pools, cache, step, holds, via, client>>

Next ==
    \/ \E r \in Requests :
        \/ ReadRow(r, "config", "cache") \/ CachePool(r, "cache", "relay") \/ ProviderConfig(r)
        \/ ReadRow(r, "client", "cache again") \/ CachePool(r, "cache again", "proxy")
        \/ ClientForConnection(r)
    \/ Edit

Spec == Init /\ [][Next]_vars

TypeOK ==
    /\ conn \in [relay : BOOLEAN, proxy : BOOLEAN] /\ row \in [type : Types, active : BOOLEAN]
    /\ pools \in [Requests -> [type : Types, active : BOOLEAN, index : 0 .. Size - 1]]
    /\ cache \in Requests \cup {None} /\ holds \in [Requests -> Requests \cup {None}]
    /\ step \in [Requests -> {"config", "cache", "relay", "client", "cache again", "proxy", "done"}]
    /\ via \in [Requests -> Routes \cup {None}] /\ client \in [Requests -> Routes \cup {None}]

Over(u) == Cardinality({r \in Requests : client[r] = u})

(***************************************************************************)
(* The URLs of an HTTP pool are used evenly however the requests           *)
(* interleave ("preserve round-robin rotation indices across requests",    *)
(* CHANGELOG.md:214): there is one ProxyPool, whoever read the row first.  *)
(***************************************************************************)
ProxiesTakeTurns == \A u, v \in Urls : Over(u) <= Over(v) + 1
=============================================================================
