--------------------------- MODULE StreamLifetime ---------------------------
(***************************************************************************)
(* When a stream ends although its upstream does not: the StallReader a    *)
(* handler reads the upstream through (internal/proxy/stall.go) closes the *)
(* body when nothing came for its timeout and when the shutdown of the     *)
(* process begins (internal/shutdown/shutdown.go, runServer of             *)
(* cmd/9router-go/main.go).  Four threads meet here: the handler, the      *)
(* timer, the watcher each stream starts, and main.                        *)
(***************************************************************************)
EXTENDS Naturals

CONSTANTS
    Streams,
    Timeout \* bound: ticks of the stall timeout

VARIABLES
    pc,      \* per stream: where its handler is
    timer,   \* per stream: the stall timer runs
    idle,    \* per stream: ticks since the timer was reset, at most Timeout
    body,    \* per stream: the upstream's body is open
    done,    \* per stream: its done channel is closed
    watcher, \* per stream: the goroutine that waits for the shutdown
    phase    \* where main is

vars == <<pc, timer, idle, body, done, watcher, phase>>

Init ==
    /\ pc = [s \in Streams |-> "start"]
    /\ timer = [s \in Streams |-> FALSE] /\ idle = [s \in Streams |-> 0]
    /\ body = [s \in Streams |-> FALSE] /\ done = [s \in Streams |-> FALSE]
    /\ watcher = [s \in Streams |-> "none"]
    /\ phase = "running"

Over == phase \in {"stopped", "killed"}

Go(s, to) == pc' = [pc EXCEPT ![s] = to]

\* A handler waits for the answer of its upstream, out of reach of the timer and the shutdown.
Call(s) ==
    /\ pc[s] = "start" /\ phase = "running"
    /\ Go(s, "call")
    /\ UNCHANGED <<timer, idle, body, done, watcher, phase>>

CallFails(s) ==
    /\ pc[s] = "call" /\ ~Over
    /\ Go(s, "done")
    /\ UNCHANGED <<timer, idle, body, done, watcher, phase>>

NewStallReader(s) ==
    /\ pc[s] = "call" /\ ~Over
    /\ Go(s, "copy")
    /\ timer' = [timer EXCEPT ![s] = TRUE]
    /\ body' = [body EXCEPT ![s] = TRUE] /\ watcher' = [watcher EXCEPT ![s] = "waits"]
    /\ UNCHANGED <<idle, done, phase>>

\* Read resets the timer, which starts it again on a reader that is closed.
Read(s) ==
    /\ pc[s] = "copy" /\ ~Over
    /\ Go(s, "blocked")
    /\ timer' = [timer EXCEPT ![s] = TRUE] /\ idle' = [idle EXCEPT ![s] = 0]
    /\ UNCHANGED <<body, done, watcher, phase>>

Data(s) ==
    /\ pc[s] = "blocked" /\ body[s] /\ ~Over
    /\ Go(s, "write")
    /\ UNCHANGED <<timer, idle, body, done, watcher, phase>>

ReadFails(s) == Go(s, "close") /\ timer' = [timer EXCEPT ![s] = FALSE]

UpstreamEnds(s) ==
    /\ pc[s] = "blocked" /\ body[s] /\ ~Over
    /\ ReadFails(s)
    /\ UNCHANGED <<idle, body, done, watcher, phase>>

\* Closing the body unblocks the read.
ReadUnblocks(s) ==
    /\ pc[s] = "blocked" /\ ~body[s] /\ ~Over
    /\ ReadFails(s)
    /\ UNCHANGED <<idle, body, done, watcher, phase>>

\* The chunk goes to the client, who may have left.
Write(s) ==
    /\ pc[s] = "write" /\ ~Over
    /\ Go(s, "copy") \/ Go(s, "close")
    /\ UNCHANGED <<timer, idle, body, done, watcher, phase>>

(***************************************************************************)
(* A plausible slip: one sync.Once for the channel and the body, which     *)
(* then stays open.                                                        *)
(***************************************************************************)
StaysOpen(s) == body

BodyClosed(s) == [body EXCEPT ![s] = FALSE]
DoneClosed(s) == [done EXCEPT ![s] = TRUE]

Close(s) ==
    /\ timer' = [timer EXCEPT ![s] = FALSE]
    /\ done' = DoneClosed(s) /\ body' = BodyClosed(s)

\* The deferred Close of the handler, which returns.
HandlerCloses(s) ==
    /\ pc[s] = "close" /\ ~Over
    /\ Close(s) /\ Go(s, "done")
    /\ UNCHANGED <<idle, watcher, phase>>

TimerFires(s) ==
    /\ timer[s] /\ idle[s] = Timeout /\ ~Over
    /\ Close(s)
    /\ UNCHANGED <<pc, idle, watcher, phase>>

WatcherCloses(s) ==
    /\ watcher[s] = "waits" /\ phase = "draining"
    /\ Close(s) /\ watcher' = [watcher EXCEPT ![s] = "gone"]
    /\ UNCHANGED <<pc, idle, phase>>

WatcherLeaves(s) ==
    /\ watcher[s] = "waits" /\ done[s] /\ ~Over
    /\ watcher' = [watcher EXCEPT ![s] = "gone"]
    /\ UNCHANGED <<pc, timer, idle, body, done, phase>>

Main(from, to) ==
    /\ phase = from /\ phase' = to
    /\ UNCHANGED <<pc, timer, idle, body, done, watcher>>

Signal == Main("running", "draining")
SecondSignal == Main("draining", "killed")

\* server.Shutdown returns when no handler is left, or after its 15 seconds.
Drained == (\A s \in Streams : pc[s] \in {"start", "done"}) /\ Main("draining", "stopped")
DrainTimesOut == Main("draining", "stopped")

Tick ==
    /\ ~Over
    /\ idle' = [s \in Streams |-> IF timer[s] /\ idle[s] < Timeout THEN idle[s] + 1 ELSE idle[s]]
    /\ idle' # idle
    /\ UNCHANGED <<pc, timer, body, done, watcher, phase>>

Next ==
    \/ \E s \in Streams :
        \/ Call(s) \/ CallFails(s) \/ NewStallReader(s) \/ Read(s) \/ Data(s) \/ UpstreamEnds(s)
        \/ ReadUnblocks(s) \/ Write(s) \/ HandlerCloses(s) \/ TimerFires(s) \/ WatcherCloses(s)
        \/ WatcherLeaves(s)
    \/ Signal \/ SecondSignal \/ Drained \/ DrainTimesOut \/ Tick

\* The handler's next step that waits for nobody but, in Write, the client.
Proceed(s) == Read(s) \/ ReadUnblocks(s) \/ Write(s) \/ HandlerCloses(s)

\* Threads are scheduled and clients read; upstreams owe nothing and no second signal comes.
Fairness ==
    /\ WF_vars(Tick) /\ WF_vars(Drained)
    /\ \A s \in Streams : /\ WF_vars(Proceed(s)) /\ WF_vars(TimerFires(s))
                          /\ WF_vars(WatcherCloses(s)) /\ WF_vars(WatcherLeaves(s))

Spec == Init /\ [][Next]_vars /\ Fairness

TypeOK ==
    /\ pc \in [Streams -> {"start", "call", "copy", "blocked", "write", "close", "done"}]
    /\ timer \in [Streams -> BOOLEAN] /\ idle \in [Streams -> 0 .. Timeout]
    /\ body \in [Streams -> BOOLEAN] /\ done \in [Streams -> BOOLEAN]
    /\ watcher \in [Streams -> {"none", "waits", "gone"}]
    /\ phase \in {"running", "draining", "stopped", "killed"}

(***************************************************************************)
(* "in-flight SSE streams end promptly instead of holding server.Shutdown  *)
(* until its deadline" (stall.go:33): even if the deadline never came, the *)
(* server would stop after the first signal whatever its streams do, once  *)
(* no handler waits for the answer of an upstream any longer.              *)
(***************************************************************************)
ShutdownIsPrompt == phase = "draining" ~> Over \/ \E s \in Streams : pc[s] = "call"
=============================================================================
