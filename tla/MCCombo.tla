------------------------------- MODULE MCCombo -------------------------------
(* Small instances of ComboFallback: two accounts, two models, two attempts,  *)
(* cooldowns of one and two seconds.                                          *)
EXTENDS ComboFallback, TLC

CONSTANTS a, b, m1, m2, r1, r2

Slots == Permutations({r1, r2})

MCPriority == [x \in Conns |-> IF x = a THEN 1 ELSE 2]

List(m)   == [model |-> m, conns |-> {a, b}, kind |-> "list"]
Node(m)   == [model |-> m, conns |-> {a, b}, kind |-> "node"]
NoAuth(m) == [model |-> m, conns |-> {}, kind |-> "noauth"]
Unknown   == [model |-> m1, conns |-> {}, kind |-> "unknown"]

ListEntries  == <<List(m1), List(m2)>>
MixedEntries == <<Node(m1), Unknown, NoAuth(m2), List(m2)>>

Failed(status, after) == [status |-> status, phrases |-> {}, after |-> after]

MCFailures    == {Failed(429, None), Failed(400, None)}
RetryFailures == {Failed(503, 1), Failed(400, None)}
=============================================================================
