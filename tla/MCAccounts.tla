------------------------------ MODULE MCAccounts ------------------------------
(* Small instances of AccountFallback: short cooldowns (a lock of one second  *)
(* for a rate limit, doubling once, and of two for a rejected key) and a      *)
(* clock that lets a lock be set, expire and be set again.                    *)
EXTENDS AccountFallback, TLC

CONSTANTS a, b, c, m1, m2, m3, r1, r2

MCPriority == [x \in Conns |-> IF x = a THEN 1 ELSE 2]

\* A provider with two accounts, one that needs none, and one that has none.
ThreeProviders == m1 :> {a, b} @@ m2 :> {} @@ m3 :> {}

\* Two models of one provider share an account; one of them has another one.
Shared == m1 :> {b, c} @@ m2 :> {c}

RateLimited == [status |-> 429, phrases |-> {}]
Rejected    == [status |-> 401, phrases |-> {}]
Overloaded  == [status |-> 503, phrases |-> {"overloaded"}]
BadRequest  == [status |-> 400, phrases |-> {}]

MCFailures == {RateLimited, Rejected, BadRequest}
MCQuotaFailures == {RateLimited}

Symmetry == Permutations(Reqs)
=============================================================================
