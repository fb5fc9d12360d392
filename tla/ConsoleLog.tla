----------------------------- MODULE ConsoleLog -----------------------------
(***************************************************************************)
(* The live console (internal/log/log.go and the handlers of               *)
(* internal/handlers/consolelog.go): a logged line goes into a buffer of   *)
(* the last lines and, after the lock is released, into the channel of     *)
(* each viewer that was subscribed; so does a clearing of the buffer.  A   *)
(* viewer is sent the buffer when it connects and then subscribes.         *)
(***************************************************************************)
EXTENDS Naturals, Sequences, SequencesExt

CONSTANTS
    Loggers,
    Viewers,
    BufLines,  \* consoleMaxLines
    ChanSize,  \* consoleBufSize
    MaxLines,  \* bound: lines logged
    MaxClears  \* bound: clearings of the buffer

\* An event is the number of a line, or Clear.
Lines == 1 .. MaxLines
Clear == 0

VARIABLES
    buffer,  \* consoleLogs
    subs,    \* the viewers in consoleSubs
    chan,    \* per viewer: its channel
    written, \* lines logged so far
    clears,  \* clearings so far
    event,   \* per logger: the event it is handing out
    targets, \* per logger: the viewers it has yet to hand it to
    busy,    \* per logger: it is handing out an event
    at,      \* per viewer: the step of its opening it is at, Live or Left
    shown    \* per viewer: the lines on its screen

vars == <<buffer, subs, chan, written, clears, event, targets, busy, at, shown>>

Init ==
    /\ buffer = <<>> /\ subs = {} /\ chan = [v \in Viewers |-> <<>>]
    /\ written = 0 /\ clears = 0
    /\ event = [l \in Loggers |-> Clear] /\ targets = [l \in Loggers |-> {}]
    /\ busy = [l \in Loggers |-> FALSE]
    /\ at = [v \in Viewers |-> 1] /\ shown = [v \in Viewers |-> <<>>]

\* The part under the lock: the event, and who is to have it.
Announce(l, e) ==
    /\ busy' = [busy EXCEPT ![l] = TRUE]
    /\ event' = [event EXCEPT ![l] = e] /\ targets' = [targets EXCEPT ![l] = subs]

LastLines(lines, n) == SubSeq(lines, IF Len(lines) > n THEN Len(lines) - n + 1 ELSE 1, Len(lines))

CaptureConsole(l) ==
    /\ ~busy[l] /\ written < MaxLines
    /\ written' = written + 1
    /\ buffer' = LastLines(Append(buffer, written'), BufLines)
    /\ Announce(l, written')
    /\ UNCHANGED <<subs, chan, clears, at, shown>>

ClearConsoleLogs(l) ==
    /\ ~busy[l] /\ clears < MaxClears
    /\ clears' = clears + 1 /\ buffer' = <<>>
    /\ Announce(l, Clear)
    /\ UNCHANGED <<subs, chan, written, at, shown>>

Room(v) == Len(chan[v]) < ChanSize

\* A viewer whose channel is full misses the event; one that has left has a channel still.
Send(l, v) ==
    /\ busy[l] /\ v \in targets[l]
    /\ targets' = [targets EXCEPT ![l] = @ \ {v}]
    /\ chan' = IF Room(v) THEN [chan EXCEPT ![v] = Append(@, event[l])] ELSE chan
    /\ UNCHANGED <<buffer, subs, written, clears, event, busy, at, shown>>

Sent(l) ==
    /\ busy[l] /\ targets[l] = {}
    /\ busy' = [busy EXCEPT ![l] = FALSE]
    /\ UNCHANGED <<buffer, subs, chan, written, clears, event, targets, at, shown>>

(***************************************************************************)
(* A plausible slip: a viewer subscribes first, so as to miss nothing.     *)
(***************************************************************************)
SubscribesFirst == <<"subscribe", "buffer">>

\* What the handler of a viewer does before it waits for events.
Opening == <<"buffer", "subscribe">>
Live == Len(Opening) + 1
Left == Live + 1

Opens(v, what) == /\ at[v] \in DOMAIN Opening /\ Opening[at[v]] = what
                  /\ at' = [at EXCEPT ![v] = @ + 1]

\* ConsoleLogs: the viewer is sent the buffer.
SendBuffer(v) ==
    /\ Opens(v, "buffer")
    /\ shown' = [shown EXCEPT ![v] = buffer]
    /\ UNCHANGED <<buffer, subs, chan, written, clears, event, targets, busy>>

SubscribeConsole(v) ==
    /\ Opens(v, "subscribe")
    /\ subs' = subs \cup {v}
    /\ UNCHANGED <<buffer, chan, written, clears, event, targets, busy, shown>>

Receive(v) ==
    /\ at[v] = Live /\ chan[v] # <<>>
    /\ shown' = [shown EXCEPT ![v] = IF Head(chan[v]) = Clear THEN <<>> ELSE Append(@, Head(chan[v]))]
    /\ chan' = [chan EXCEPT ![v] = Tail(@)]
    /\ UNCHANGED <<buffer, subs, written, clears, event, targets, busy, at>>

Leave(v) ==
    /\ at[v] \in 2 .. Live
    /\ at' = [at EXCEPT ![v] = Left] /\ subs' = subs \ {v}
    /\ UNCHANGED <<buffer, chan, written, clears, event, targets, busy, shown>>

Next ==
    \/ \E l \in Loggers :
        \/ CaptureConsole(l) \/ ClearConsoleLogs(l) \/ Sent(l)
        \/ \E v \in Viewers : Send(l, v)
    \/ \E v \in Viewers : SendBuffer(v) \/ SubscribeConsole(v) \/ Receive(v) \/ Leave(v)

Spec == Init /\ [][Next]_vars

TypeOK ==
    /\ buffer \in Seq(Lines) /\ Len(buffer) <= BufLines /\ subs \subseteq Viewers
    /\ written \in 0 .. MaxLines /\ clears \in 0 .. MaxClears
    /\ busy \in [Loggers -> BOOLEAN] /\ event \in [Loggers -> Lines \cup {Clear}]
    /\ targets \in [Loggers -> SUBSET Viewers]
    /\ at \in [Viewers -> 1 .. Left]
    /\ DOMAIN chan = Viewers /\ DOMAIN shown = Viewers
    /\ \A v \in Viewers : /\ chan[v] \in Seq(Lines \cup {Clear}) /\ Len(chan[v]) <= ChanSize
                          /\ shown[v] \in Seq(Lines)

(***************************************************************************)
(* No viewer has a line on its screen twice, although its buffer and its   *)
(* channel are filled by threads that do not wait for each other.          *)
(***************************************************************************)
NoLineTwice == \A v \in Viewers : IsInjective(shown[v])
=============================================================================
