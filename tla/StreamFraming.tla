---------------------------- MODULE StreamFraming ----------------------------
(***************************************************************************)
(* How an upstream's bytes become events.  Four readers of the proxy:      *)
(* wsReadFrames of executor/windsurf.go (a header with a length, then the  *)
(* payload), ReadFrame of providers/eventstream.go (the same, for kiro),   *)
(* ScanStream of proxy/sse_scanner.go (lines, an event ends with a blank   *)
(* one) and the loop of handleCodexStream of executor/stream.go (an event  *)
(* is a line).  A read returns any number of bytes.                        *)
(*                                                                         *)
(* The stream is a sequence of events of given lengths.  In a frame the    *)
(* first Header bytes are its header; the last byte of a codex event is    *)
(* the newline, the last two of an SSE event are the newlines.             *)
(***************************************************************************)
EXTENDS Naturals, Sequences, Filters

CONSTANTS Layouts,  \* sequences of event lengths
          Header,   \* length of a frame's header
          MaxRead   \* bound: bytes one read returns

Readers == {"windsurf", "kiro", "scan", "codex"}

VARIABLES who, layout,
          length,  \* how many bytes the upstream sends before it closes
          pos,     \* bytes read
          held,    \* where the bytes still held begin (pending, the scanner's buffer)
          seen,    \* events handed on
          result,  \* "reading", "ok" or "error"
          cuts     \* (history) where reads ended

vars == <<who, layout, length, pos, held, seen, result, cuts>>

End(k) == LET f[i \in 0 .. Len(layout)] == IF i = 0 THEN 0 ELSE f[i - 1] + layout[i] IN f[k]

Init ==
    /\ who \in Readers /\ layout \in Layouts
    /\ length \in 0 .. End(Len(layout))
    /\ pos = 0 /\ held = 0 /\ seen = <<>> /\ result = "reading" /\ cuts = {}

-----------------------------------------------------------------------------
\* Some of the events, in order.
InOrder(S) == Kept([k \in DOMAIN layout |-> k], S)

\* The events that lie between two positions as a whole, in order.
Whole(from, to) == InOrder({k \in DOMAIN layout : from <= End(k - 1) /\ End(k) <= to})

\* (a slip: what is left of a read is thrown away)
Forgets(from, to) == to

\* wsDrainFrames: what is not a whole frame yet is kept.
Drained(from, to) ==
    LET ends == {End(k) : k \in {j \in DOMAIN layout : from <= End(j - 1) /\ End(j) <= to}}
    IN  IF ends = {} THEN from ELSE CHOOSE e \in ends : \A f \in ends : f <= e

\* ReadFrame and the scanner wait for the rest in the same way.
Frames ==
    /\ who # "codex" /\ result = "reading" /\ pos < length
    /\ \E n \in 1 .. MaxRead :
          /\ pos + n <= length
          /\ pos' = pos + n /\ cuts' = cuts \cup {pos + n}
          /\ seen' = seen \o Whole(held, pos + n)
          /\ held' = Drained(held, pos + n)
    /\ UNCHANGED <<who, layout, length, result>>

\* The codex loop takes every read by itself: leftover is declared, but nothing is put in it.
\* A line is complete without its newline.
Lines ==
    /\ who = "codex" /\ result = "reading" /\ pos < length
    /\ \E n \in 1 .. MaxRead :
          /\ pos + n <= length
          /\ pos' = pos + n /\ cuts' = cuts \cup {pos + n}
          /\ seen' = seen \o InOrder({k \in DOMAIN layout :
                                         pos <= End(k - 1) /\ End(k) - 1 <= pos + n})
          /\ held' = pos + n
    /\ UNCHANGED <<who, layout, length, result>>

\* The event the stream ended in, with the bytes of it that came.
Partial == CHOOSE k \in DOMAIN layout : End(k - 1) <= held /\ held < End(k)

\* The body ends.  The scanner hands on what it has: an event without its blank line is
\* complete, one without the end of its line is not followed here.  A frame cut in its payload is an error
\* for kiro; in its header, and anywhere for windsurf, it is dropped and the stream is fine.
Closes ==
    /\ result = "reading" /\ pos = length
    /\ seen' = IF who = "scan" /\ held < length /\ End(Partial) - 2 <= length
               THEN Append(seen, Partial) ELSE seen
    /\ result' = IF who = "kiro" /\ held + Header <= length /\ held # length THEN "error" ELSE "ok"
    /\ held' = length
    /\ UNCHANGED <<who, layout, length, pos, cuts>>

Next == Frames \/ Lines \/ Closes

Spec == Init /\ [][Next]_vars

-----------------------------------------------------------------------------
TypeOK ==
    /\ who \in Readers /\ layout \in Layouts /\ pos \in 0 .. length /\ held \in 0 .. pos
    /\ result \in {"reading", "ok", "error"}

\* How the reads cut the stream makes no difference: every event the upstream has completed
\* is handed on, once and in order, and after the last byte nothing complete is still held.
\* A codex event is lost when a read ends inside its line.
EventsArrive ==
    LET cut(k)  == \E c \in cuts : End(k - 1) < c /\ c < End(k) - 1
        came(k) == CASE who = "codex" -> End(k) - 1 <= pos /\ ~cut(k)
                     [] who = "scan" /\ result = "ok" -> End(k) - 2 <= pos
                     [] OTHER -> End(k) <= pos
    IN  seen = InOrder({k \in DOMAIN layout : came(k)})
=============================================================================
