------------------------------ MODULE MCTracker ------------------------------
(* Two requests, one with an account that succeeds and one without that       *)
(* fails, a dashboard that may leave, and two callbacks that may overlap.      *)
EXTENDS UsageTracker

CONSTANTS m1, a, r1, r2, s1, b1, b2

OneKey == [r \in Reqs |-> m1]
OneAccount == [r \in Reqs |-> IF r = r1 THEN a ELSE NoConn]
=============================================================================
