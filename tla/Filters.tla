------------------------------- MODULE Filters -------------------------------
(* What SelectSeq selects by a set and FlattenSeq puts together, as recursive *)
(* functions that can be reasoned about.                                      *)
EXTENDS Naturals, Sequences

\* The elements of s that are in S, in their order.
Kept(s, S) ==
    LET kept[i \in 0 .. Len(s)] ==
            IF i = 0 THEN <<>>
            ELSE IF s[i] \in S THEN Append(kept[i - 1], s[i]) ELSE kept[i - 1]
    IN  kept[Len(s)]

\* The sequences of ss, one after the other.
Joined(ss) ==
    LET joined[i \in 0 .. Len(ss)] == IF i = 0 THEN <<>> ELSE joined[i - 1] \o ss[i]
    IN  joined[Len(ss)]
=============================================================================
