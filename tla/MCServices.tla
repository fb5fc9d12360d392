------------------------------ MODULE MCServices ------------------------------
(* The instance:                                                               *)
(*  - two requests each for the token of a service, a project, a proxy of two  *)
(*    URLs, a day's usage, the headroom process and a reset;                   *)
(*  - a panel of three with a quorum of one, so that an answer may come after  *)
(*    the quorum and another not at all, a unit of grace, three to the timeout;*)
(*  - three intercepted connections, three enable commands, two streams,       *)
(*    one update, two loggers and one viewer of the console.                   *)
EXTENDS SideServices

Shape(p, a) == [provider |-> p, model |-> "m", key |-> "k", endpoint |-> "e", account |-> a]
Used == {Shape("p", "a"), Shape("q", None)}
=============================================================================
