------------------------------ MODULE ChatStream ------------------------------
(***************************************************************************)
(* What a client may rely on when it reads an OpenAI event stream of the   *)
(* proxy, whichever executor writes it: the promise the executors of       *)
(* internal/proxy/executor are checked against (ExecutorStreams).          *)
(*                                                                         *)
(* The state is what the client knows after each event; beat alternates,   *)
(* so that no event passes for a stutter.                                  *)
(***************************************************************************)
EXTENDS Naturals

CONSTANTS Indices,   \* tool-call indices
          Calls,     \* tool-call ids
          None

VARIABLES
    owner,  \* per tool-call index: the call its fragments belong to, or None
    ended,  \* "no", "finished" (a finish reason), "failed" (an error frame) or "done" ([DONE])
    role,   \* the role has been announced
    last,   \* the last event
    beat

vars == <<owner, ended, role, last, beat>>

Event(kind, index, call) == [kind |-> kind, index |-> index, call |-> call]
Plain(kind) == Event(kind, None, None)

Init ==
    /\ owner = [i \in Indices |-> None]
    /\ ended = "no" /\ role = FALSE /\ last = None /\ beat = 0

Happens(e) == last' = e /\ beat' = 1 - beat

\* Content comes while the answer is open.
Content ==
    /\ ended = "no"
    /\ \E kind \in {"text", "reasoning"} : Happens(Plain(kind))
    /\ UNCHANGED <<owner, ended, role>>

Role ==
    /\ ended = "no" /\ ~role /\ role' = TRUE
    /\ Happens(Plain("role"))
    /\ UNCHANGED <<owner, ended>>

\* An index belongs to one call and a call to one index, for all its fragments.
Fragment(i, c) ==
    /\ ended = "no"
    /\ owner[i] \in {None, c} /\ \A j \in Indices \ {i} : owner[j] # c
    /\ owner' = [owner EXCEPT ![i] = c]
    /\ Happens(Event("fragment", i, c))
    /\ UNCHANGED <<ended, role>>

\* A call that comes in one piece and without an index.
Whole(c) ==
    /\ ended = "no"
    /\ Happens(Event("whole", None, c))
    /\ UNCHANGED <<owner, ended, role>>

\* One finish reason or one error, and after it nothing but [DONE], which is the last.
End(from, to, kind) ==
    /\ ended \in from /\ ended' = to
    /\ Happens(Plain(kind))
    /\ UNCHANGED <<owner, role>>

Finish == End({"no"}, "finished", "finish")
Fail   == End({"no"}, "failed", "error")
Done   == End({"finished", "failed"}, "done", "done")

Next ==
    \/ Content \/ Role
    \/ \E i \in Indices, c \in Calls : Fragment(i, c)
    \/ \E c \in Calls : Whole(c)
    \/ Finish \/ Fail \/ Done

Spec == Init /\ [][Next]_vars
=============================================================================
