----------------------------- MODULE ClaudeStream -----------------------------
(***************************************************************************)
(* What a Claude client may rely on when it reads an event stream of the   *)
(* proxy: the promise the translator is checked against (                  *)
(* StreamTranslation).  A message starts, its content blocks are numbered  *)
(* from zero, opened, filled and closed, all before the message ends.      *)
(* Several tool blocks may be open at once, text and thinking never are.   *)
(***************************************************************************)
EXTENDS Naturals

CONSTANT None

VARIABLES
    phase,  \* "before", "open", "closing" (message_delta), "ended" (message_stop), "done"
    blocks, \* the open blocks
    next,   \* the index of the next block
    last,   \* the last event
    beat    \* alternates, so that no event passes for a stutter

vars == <<phase, blocks, next, last, beat>>

Block(i, kind) == [index |-> i, kind |-> kind]
Event(type, block) == [type |-> type, block |-> block]

Init ==
    /\ phase = "before" /\ blocks = {} /\ next = 0
    /\ last = None /\ beat = 0

Happens(type, b) == last' = Event(type, b) /\ beat' = 1 - beat

Turns(from, to, type) ==
    /\ phase = from /\ phase' = to
    /\ Happens(type, None)
    /\ UNCHANGED <<blocks, next>>

MessageStart == Turns("before", "open", "message_start")
MessageDelta == blocks = {} /\ Turns("open", "closing", "message_delta")
MessageStop  == Turns("closing", "ended", "message_stop")

BlockStart(kind) ==
    /\ phase = "open" /\ \A b \in blocks : b.kind = "tool_use"
    /\ blocks' = blocks \cup {Block(next, kind)} /\ next' = next + 1
    /\ Happens("block_start", Block(next, kind))
    /\ UNCHANGED phase

BlockDelta(b) ==
    /\ phase = "open" /\ b \in blocks
    /\ Happens("block_delta", b)
    /\ UNCHANGED <<phase, blocks, next>>

BlockStop(b) ==
    /\ phase = "open" /\ b \in blocks
    /\ blocks' = blocks \ {b}
    /\ Happens("block_stop", b)
    /\ UNCHANGED <<phase, next>>

\* A stream that is cut short ends with [DONE] too, and nothing follows it.
Done ==
    /\ phase # "done" /\ phase' = "done"
    /\ Happens("done", None)
    /\ UNCHANGED <<blocks, next>>

Next ==
    \/ MessageStart \/ MessageDelta \/ MessageStop \/ Done
    \/ \E kind \in {"text", "thinking", "tool_use"} : BlockStart(kind)
    \/ \E b \in blocks : BlockDelta(b) \/ BlockStop(b)

Spec == Init /\ [][Next]_vars
=============================================================================
