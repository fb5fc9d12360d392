----------------------------- MODULE MCRotation ------------------------------
(* A sticky combo of three models that two conversations share, and a        *)
(* round-robin combo of two and a fallback one, with one conversation each.   *)
EXTENDS ComboRotation

CONSTANTS x, y, z, c1, c2, c3, c4

Three == [k \in Combos |-> CASE k = x -> 3 [] k = y -> 2 [] OTHER -> 2]
Kinds == [k \in Combos |-> CASE k = x -> "sticky" [] k = y -> "round-robin" [] OTHER -> "fallback"]
Twos  == [k \in Combos |-> 2]
Seers == [k \in Combos |-> {1}]
Users == [c \in Convs |-> CASE c \in {c1, c2} -> x [] c = c3 -> y [] OTHER -> z]
=============================================================================
