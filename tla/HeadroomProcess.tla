-------------------------- MODULE HeadroomProcess ---------------------------
(***************************************************************************)
(* Starting, stopping and restarting the Headroom proxy from the dashboard *)
(* (internal/headroom/process.go, the handlers of                          *)
(* internal/handlers/media/headroom.go).  The process is detached, so it   *)
(* outlives the router; all that ties the two is a file with its pid.  No  *)
(* lock is held over a request, so requests meet at every step; a wait of  *)
(* the code for a time is a step that may come at any moment.              *)
(***************************************************************************)
EXTENDS Naturals, FiniteSets

CONSTANTS
    Requests, \* requests of the dashboard
    MaxPids,  \* bound: processes spawned
    None

Pids == 1 .. MaxPids
Kinds == {"start", "stop", "restart"}

VARIABLES
    kind,    \* per request: what it asks for, or None before it is made
    step,    \* per request: the step it is at
    pidOf,   \* per request: the process it spawned or found, or None
    reply,   \* per request: what it was answered, or None
    process, \* per pid: not yet spawned ("none"), "up", "terming" after a SIGTERM, or "gone"
    pidFile, \* the pid the file holds, or None
    met      \* (history) two requests met, or the router died in the middle of one

vars == <<kind, step, pidOf, reply, process, pidFile, met>>

Alive(p) == p # None /\ process[p] \in {"up", "terming"}

\* GetManagedPid: the process of the file, if it is alive.
ManagedPid == IF Alive(pidFile) THEN pidFile ELSE None

Working == {r \in Requests : step[r] \notin {"none", "done"}}

Init ==
    /\ kind = [r \in Requests |-> None] /\ step = [r \in Requests |-> "none"]
    /\ pidOf = [r \in Requests |-> None] /\ reply = [r \in Requests |-> None]
    /\ process = [p \in Pids |-> "none"] /\ pidFile = None /\ met = FALSE

At(r, s) == step[r] = s
Go(r, s) == step' = [step EXCEPT ![r] = s] /\ UNCHANGED <<kind, reply, met>>
Reply(r, answer) ==
    /\ step' = [step EXCEPT ![r] = "done"] /\ reply' = [reply EXCEPT ![r] = answer]
    /\ UNCHANGED <<kind, met>>

\* A request arrives; a start of an external proxy is refused (handleHeadroomStart), as is one
\* when the CLI is not installed.
Arrive(r, k) ==
    /\ At(r, "none")
    /\ kind' = [kind EXCEPT ![r] = k]
    /\ \/ step' = [step EXCEPT ![r] = IF k = "start" THEN "look" ELSE "find"] /\ UNCHANGED reply
       \/ k # "stop" /\ step' = [step EXCEPT ![r] = "done"] /\ reply' = [reply EXCEPT ![r] = "refused"]
    /\ met' = (met \/ Working # {})
    /\ UNCHANGED <<pidOf, process, pidFile>>

\* StartHeadroomProxy: a managed process that is alive is what was asked for.
AlreadyRunning(r) ==
    /\ At(r, "look") /\ ManagedPid # None
    /\ pidOf' = [pidOf EXCEPT ![r] = ManagedPid] /\ Reply(r, "already")
    /\ UNCHANGED <<process, pidFile>>

Spawn(r) ==
    /\ At(r, "look") /\ ManagedPid = None
    /\ \E p \in Pids :
        /\ process[p] = "none" /\ \A q \in 1 .. p - 1 : process[q] # "none"
        /\ process' = [process EXCEPT ![p] = "up"]
        /\ pidOf' = [pidOf EXCEPT ![r] = p]
    /\ Go(r, "write") /\ UNCHANGED pidFile

\* The log or the process cannot be opened.
SpawnFails(r) ==
    /\ At(r, "look") /\ ManagedPid = None
    /\ Reply(r, "failed") /\ UNCHANGED <<pidOf, process, pidFile>>

WritePid(r) ==
    /\ At(r, "write")
    /\ \/ pidFile' = pidOf[r] /\ Go(r, "watch") /\ UNCHANGED process
       \/ process' = [process EXCEPT ![pidOf[r]] = "gone"] /\ Reply(r, "failed") /\ UNCHANGED pidFile
    /\ UNCHANGED pidOf

\* The process ended within eight seconds: an error, and the file goes.
EarlyExit(r) ==
    /\ At(r, "watch") /\ ~Alive(pidOf[r])
    /\ pidFile' = None /\ Reply(r, "early exit")
    /\ UNCHANGED <<pidOf, process>>

\* The eight seconds are over.
Started(r) == At(r, "watch") /\ Reply(r, "started") /\ UNCHANGED <<pidOf, process, pidFile>>

\* Stop and restart look for the managed process.
NotRunning(r) ==
    /\ At(r, "find") /\ ManagedPid = None
    /\ IF kind[r] = "stop" THEN Reply(r, "not_running") ELSE Go(r, "look")
    /\ UNCHANGED <<pidOf, process, pidFile>>

Find(r) ==
    /\ At(r, "find") /\ ManagedPid # None
    /\ pidOf' = [pidOf EXCEPT ![r] = ManagedPid] /\ Go(r, "term")
    /\ UNCHANGED <<process, pidFile>>

\* SIGTERM: it may be ignored.  A stop that finds the process gone gives up and clears the file;
\* a restart does not look at the result.
Terminate(r) ==
    /\ At(r, "term")
    /\ IF Alive(pidOf[r])
       THEN /\ process' = [process EXCEPT ![pidOf[r]] = "terming"]
            /\ Go(r, "wait") /\ UNCHANGED pidFile
       ELSE /\ IF kind[r] = "stop" THEN pidFile' = None /\ Reply(r, "failed")
               ELSE Go(r, "wait") /\ UNCHANGED pidFile
            /\ UNCHANGED process
    /\ UNCHANGED pidOf

(***************************************************************************)
(* A plausible slip: a process that ignored the SIGTERM is left alone.     *)
(***************************************************************************)
TermOnly(p) == process[p]

\* What the process is after the wait: a SIGKILL ends one that is still alive.
Killed(p) == IF Alive(p) THEN "gone" ELSE process[p]

Kill(r) ==
    /\ At(r, "wait")
    /\ process' = [process EXCEPT ![pidOf[r]] = Killed(pidOf[r])]
    /\ Go(r, "clear") /\ UNCHANGED <<pidOf, pidFile>>

\* clearPid removes the file, whatever it holds by now.
ClearPid(r) ==
    /\ At(r, "clear")
    /\ pidFile' = None
    /\ IF kind[r] = "stop" THEN Reply(r, "stopped") ELSE Go(r, "look")
    /\ UNCHANGED <<pidOf, process>>

\* A process ends: it cannot bind its port, it crashes, or it obeys the SIGTERM.
Exit(p) ==
    /\ Alive(p)
    /\ process' = [process EXCEPT ![p] = "gone"]
    /\ UNCHANGED <<kind, step, pidOf, reply, pidFile, met>>

\* The router dies: its requests are gone, the process and the file stay.
RouterDies ==
    /\ Working # {}
    /\ step' = [r \in Requests |-> IF r \in Working THEN "done" ELSE step[r]]
    /\ met' = TRUE
    /\ UNCHANGED <<kind, pidOf, reply, process, pidFile>>

Handle(r) ==
    \/ AlreadyRunning(r) \/ Spawn(r) \/ SpawnFails(r) \/ WritePid(r) \/ EarlyExit(r) \/ Started(r)
    \/ NotRunning(r) \/ Find(r) \/ Terminate(r) \/ Kill(r) \/ ClearPid(r)

Next ==
    \/ \E r \in Requests : (\E k \in Kinds : Arrive(r, k)) \/ Handle(r)
    \/ \E p \in Pids : Exit(p)
    \/ RouterDies

Spec == Init /\ [][Next]_vars

TypeOK ==
    /\ kind \in [Requests -> Kinds \cup {None}]
    /\ step \in [Requests -> {"none", "look", "write", "watch", "find", "term", "wait", "clear", "done"}]
    /\ pidOf \in [Requests -> Pids \cup {None}] /\ pidFile \in Pids \cup {None}
    /\ reply \in [Requests -> {None, "refused", "already", "failed", "early exit", "started",
                               "not_running", "stopped"}]
    /\ process \in [Pids -> {"none", "up", "terming", "gone"}] /\ met \in BOOLEAN

(***************************************************************************)
(* As long as requests come one at a time and the router lives through     *)
(* them, a process that runs is the one the pid file names, so that it can *)
(* be stopped; and a stop or restart leaves none of the older ones.        *)
(* Requests that meet break this: of two starts both spawn, and the early  *)
(* exit of the second clears the file of the first.                        *)
(***************************************************************************)
RunningIsManaged == Working = {} /\ ~met => \A p \in Pids : Alive(p) => pidFile = p
=============================================================================
