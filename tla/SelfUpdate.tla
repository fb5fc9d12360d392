----------------------------- MODULE SelfUpdate -----------------------------
(***************************************************************************)
(* Replacing the running binary (internal/updater/updater.go): the         *)
(* background check of the server and the "update" command read the        *)
(* version manifest, download the binary next to the executable, move the  *)
(* executable away and the download in its place, and remove what they     *)
(* moved away; the server then starts the new binary and exits.  A rename  *)
(* can fail, and a process can be killed at any step; somebody starts it   *)
(* again when there is something to start.  A binary is known by its       *)
(* version, in the order of CompareVersions.                               *)
(***************************************************************************)
EXTENDS Naturals

CONSTANTS
    Updaters,  \* the processes that update
    MaxStarts, \* bound: times a process is started again
    None

Versions == 1 .. 2
Torn == 0

VARIABLES
    execPath, oldPath, \* the binary at the executable's path and beside it, or None
    tmp,      \* per process: its temporary file, Torn, a version, or None
    running,  \* per process: the version it runs
    pc,       \* per process: the step it is at
    latest,   \* the version in the manifest
    port,     \* the process that listens, "child", or None
    child,    \* the server the update started: None, "starting", "up" or "dead"
    starts    \* times a process was started again

vars == <<execPath, oldPath, tmp, running, pc, latest, port, child, starts>>
disk == <<execPath, oldPath, tmp>>
service == <<port, child, starts>>

Init ==
    /\ execPath = 1 /\ oldPath = None
    /\ tmp = [u \in Updaters |-> None] /\ running = [u \in Updaters |-> 1]
    /\ pc = [u \in Updaters |-> "check"]
    /\ latest \in Versions
    /\ port \in Updaters /\ child = None /\ starts = 0

At(u, s) == pc[u] = s
Go(u, s) == pc' = [pc EXCEPT ![u] = s]
TmpBecomes(u, f) == tmp' = [tmp EXCEPT ![u] = f]

\* The manifest names a version above the one that runs, which is told from 1.8.4 and the like.
HasUpdate(u) == latest > running[u]

CheckUpdate(u) ==
    /\ At(u, "check")
    /\ IF HasUpdate(u) THEN Go(u, "download") \/ Go(u, "done") ELSE Go(u, "done")
    /\ UNCHANGED <<disk, running, latest, service>>

CreateTemp(u) ==
    /\ At(u, "download")
    /\ TmpBecomes(u, Torn) /\ Go(u, "copy")
    /\ UNCHANGED <<execPath, oldPath, running, latest, service>>

Download(u) ==
    /\ At(u, "copy")
    /\ TmpBecomes(u, latest) /\ Go(u, "clean")
    /\ UNCHANGED <<execPath, oldPath, running, latest, service>>

\* Every error after the temporary file was made removes it.
GiveUp(u) == TmpBecomes(u, None) /\ Go(u, "done")

DownloadFails(u) ==
    /\ At(u, "copy")
    /\ GiveUp(u)
    /\ UNCHANGED <<execPath, oldPath, running, latest, service>>

RemoveOld(u) ==
    /\ pc[u] \in {"clean", "tidy"}
    /\ oldPath' = None
    /\ IF At(u, "clean") THEN Go(u, "backup") /\ UNCHANGED tmp
       ELSE /\ TmpBecomes(u, None)
            /\ IF port = u THEN Go(u, "restart") ELSE Go(u, "done")
    /\ UNCHANGED <<execPath, running, latest, service>>

(***************************************************************************)
(* A plausible slip: the running binary is removed, not moved away.        *)
(***************************************************************************)
RemovesIt == None

Kept == execPath

Backup(u) ==
    /\ At(u, "backup")
    /\ IF execPath = None THEN GiveUp(u) /\ UNCHANGED <<execPath, oldPath>>
       ELSE oldPath' = Kept /\ execPath' = None /\ Go(u, "swap") /\ UNCHANGED tmp
    /\ UNCHANGED <<running, latest, service>>

Swap(u) ==
    /\ At(u, "swap")
    /\ execPath' = tmp[u] /\ TmpBecomes(u, None) /\ Go(u, "tidy")
    /\ UNCHANGED <<oldPath, running, latest, service>>

SwapFails(u) ==
    /\ At(u, "swap")
    /\ IF oldPath = None THEN UNCHANGED <<execPath, oldPath>>
       ELSE execPath' = oldPath /\ oldPath' = None
    /\ GiveUp(u)
    /\ UNCHANGED <<running, latest, service>>

\* restartSelf: the child is started, and only then the process exits and its port is free.
StartChild(u) ==
    /\ At(u, "restart")
    /\ child' = "starting" /\ Go(u, "exit")
    /\ UNCHANGED <<disk, running, latest, port, starts>>

Exit(u) ==
    /\ At(u, "exit")
    /\ port' = None /\ Go(u, "gone")
    /\ UNCHANGED <<disk, running, latest, child, starts>>

ChildListens ==
    /\ child = "starting"
    /\ IF port = None THEN port' = "child" /\ child' = "up" ELSE child' = "dead" /\ UNCHANGED port
    /\ UNCHANGED <<disk, running, pc, latest, starts>>

Killed(u) ==
    /\ pc[u] \notin {"gone", "dead"}
    /\ Go(u, "dead") /\ port' = (IF port = u THEN None ELSE port)
    /\ UNCHANGED <<disk, running, latest, child, starts>>

StartAgain(u) ==
    /\ At(u, "dead") /\ execPath # None /\ starts < MaxStarts
    /\ starts' = starts + 1
    /\ running' = [running EXCEPT ![u] = execPath] /\ Go(u, "check")
    /\ port' = (IF port = None THEN u ELSE port)
    /\ UNCHANGED <<disk, latest, child>>

Next ==
    \/ \E u \in Updaters :
        \/ CheckUpdate(u) \/ CreateTemp(u) \/ Download(u) \/ DownloadFails(u) \/ RemoveOld(u)
        \/ Backup(u) \/ Swap(u) \/ SwapFails(u) \/ StartChild(u) \/ Exit(u) \/ Killed(u)
        \/ StartAgain(u)
    \/ ChildListens

Spec == Init /\ [][Next]_vars

TypeOK ==
    /\ {execPath, oldPath} \subseteq Versions \cup {None}
    /\ tmp \in [Updaters -> Versions \cup {Torn, None}]
    /\ running \in [Updaters -> Versions] /\ latest \in Versions
    /\ pc \in [Updaters -> {"check", "download", "copy", "clean", "backup", "swap", "tidy",
                            "restart", "exit", "done", "gone", "dead"}]
    /\ port \in Updaters \cup {"child", None} /\ child \in {None, "starting", "up", "dead"}
    /\ starts \in 0 .. MaxStarts

(***************************************************************************)
(* "safely replaces the active executable binary" (updater.go:135): with   *)
(* one process updating, there is a whole binary at the executable's path  *)
(* or beside it at any moment it may be killed or a rename fail.           *)
(***************************************************************************)
KeepsABinary == execPath # None \/ oldPath # None
=============================================================================
