------------------------------- MODULE MCReset -------------------------------
(* One reset of two connections whose models are gpt-5 and gpt-4.1: the name  *)
(* of the second one has a dot.                                               *)
EXTENDS HealthReset

CONSTANTS r1, gpt5, gpt41

TwoRows == 1 .. 2
=============================================================================
