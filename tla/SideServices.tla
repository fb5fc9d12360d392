---------------------------- MODULE SideServices ----------------------------
(* What runs beside the requests.  One behaviour is one of the parts below;    *)
(* the others stay at one fixed initial state.                                 *)
EXTENDS ServiceTokens, Sequences

CONSTANTS
    PanelSize, MinPanel, Grace, Hard, ChanCap, PanelTime,  \* FusionPanel
    Conns, MaxLeaves,                                      \* MitmServer
    MaxEnables,                                            \* MitmSetup
    MaxPids,                                               \* HeadroomProcess
    ProbeTTL, Attempts, ProbeTime,                         \* ProjectProbe
    PoolSize,                                              \* ProxyPools
    Shapes, LogTime, DayLen,                               \* DailyUsage
    ConnRows, Models, Dotted, OpenConns, MaxLocks,          \* HealthReset
    Streams, Timeout,                                      \* StreamLifetime
    Updaters, MaxStarts,                                   \* SelfUpdate
    Loggers, Viewers, BufLines, ChanSize, MaxLines, MaxClears \* ConsoleLog

ASSUME PanelAssumption ==
    /\ PanelSize \in Nat /\ MinPanel \in Nat \ {0} \* fusionDefaults: 2
    /\ {Grace, Hard, ChanCap, PanelTime} \subseteq Nat
    /\ None \notin {"text", "blank", "error"}
ASSUME ServerAssumption == IsFiniteSet(Conns) /\ None \notin Conns /\ MaxLeaves \in Nat
ASSUME SetupAssumption == MaxEnables \in Nat
ASSUME HeadroomAssumption == MaxPids \in Nat
ASSUME ProbeAssumption == {ProbeTTL, Attempts, ProbeTime} \subseteq Nat
ASSUME PoolAssumption == PoolSize \in Nat \ {0} /\ IsFiniteSet(Requests)
ASSUME LogAssumption == LogTime \in Nat /\ DayLen \in Nat \ {0}
ASSUME ResetAssumption ==
    IsFiniteSet(ConnRows) /\ ConnRows = 1 .. Cardinality(ConnRows) /\ MaxLocks \in Nat
ASSUME StreamAssumption == Timeout \in Nat
ASSUME UpdateAssumption == MaxStarts \in Nat /\ {"child", None} \cap Updaters = {}
ASSUME ConsoleAssumption == {BufLines, ChanSize, MaxLines, MaxClears} \subseteq Nat

VARIABLES part,
    fuNow, call, held, ch, results, okCount, graceEnd, fuPc, outcome, quorumAt, endedAt,
    up, loop, loopAt, phase, active, closed, count, stop, leafOf, msLock, leaf, serial, known,
    hosts, cert, key, trusted, sePc, pair, listening, enables, says,
    kind, heStep, pidOf, heReply, process, pidFile, met,
    provider, prNow, provisioned, prRow, verdict, prStep, prCopy, project, attempt, storing, sentAs,
    saidNo, skipped,
    conn, poRow, pools, cache, poStep, holds, via, client,
    duNow, duStep, shape, history, details, holder, duKey, read, daily, counted, wiped,
    locks, level, issued, reExpired, reStep, model, reCopy, reRow,
    liPc, timer, idle, body, done, watcher, liPhase,
    execPath, oldPath, tmp, running, upPc, latest, port, child, starts,
    buffer, subs, chan, written, clears, event, targets, busy, at, shown

fuVars == <<fuNow, call, held, ch, results, okCount, graceEnd, fuPc, outcome, quorumAt, endedAt>>
msVars == <<up, loop, loopAt, phase, active, closed, count, stop, leafOf, msLock, leaf, serial, known>>
seVars == <<hosts, cert, key, trusted, sePc, pair, listening, enables, says>>
heVars == <<kind, heStep, pidOf, heReply, process, pidFile, met>>
prVars == <<provider, prNow, provisioned, prRow, verdict, prStep, prCopy, project, attempt, storing, sentAs,
           saidNo, skipped>>
poVars == <<conn, poRow, pools, cache, poStep, holds, via, client>>
duVars == <<duNow, duStep, shape, history, details, holder, duKey, read, daily, counted, wiped>>
reVars == <<locks, level, issued, reExpired, reStep, model, reCopy, reRow>>
liVars == <<liPc, timer, idle, body, done, watcher, liPhase>>
updVars == <<execPath, oldPath, tmp, running, upPc, latest, port, child, starts>>
coVars == <<buffer, subs, chan, written, clears, event, targets, busy, at, shown>>

-----------------------------------------------------------------------------
FU == INSTANCE FusionPanel WITH
        Size <- PanelSize, MaxTime <- PanelTime,
        now <- fuNow, pc <- fuPc
MS == INSTANCE MitmServer WITH lock <- msLock
SE == INSTANCE MitmSetup WITH pc <- sePc
HE == INSTANCE HeadroomProcess WITH step <- heStep, reply <- heReply
PR == INSTANCE ProjectProbe WITH
        TTL <- ProbeTTL, MaxTime <- ProbeTime,
        now <- prNow, row <- prRow, step <- prStep, copy <- prCopy
PO == INSTANCE ProxyPools WITH
        Size <- PoolSize,
        row <- poRow, step <- poStep
DU == INSTANCE DailyUsage WITH
        MaxTime <- LogTime,
        now <- duNow, step <- duStep, key <- duKey
RE == INSTANCE HealthReset WITH
        Resets <- Requests, Rows <- ConnRows, Pool <- OpenConns,
        expired <- reExpired, step <- reStep, copy <- reCopy, row <- reRow
LI == INSTANCE StreamLifetime WITH pc <- liPc, phase <- liPhase
UP == INSTANCE SelfUpdate WITH pc <- upPc
CO == INSTANCE ConsoleLog

Parts == {"tokens", "fusion", "server", "setup", "headroom", "project", "pool", "usage", "reset",
          "lifetime", "update", "console"}

AllInit ==
    /\ part \in Parts
    /\ Init /\ (part # "tokens" => service = "mimo")
    /\ FU!Init
    /\ MS!Init
    /\ SE!Init
    /\ HE!Init
    /\ PR!Init /\ (part # "project" =>
                      provider = "antigravity" /\ ~provisioned /\ ~prRow.project /\ prRow.fresh)
    /\ PO!Init /\ (part # "pool" => ~conn.relay /\ ~conn.proxy /\ poRow.type = "http" /\ poRow.active)
    /\ DU!Init /\ (part # "usage" => shape = [r \in Requests |-> CHOOSE s \in Shapes : TRUE])
    /\ RE!Init
    /\ LI!Init
    /\ UP!Init /\ (part # "update" => latest = 1)
    /\ CO!Init

\* The variables of every part but p stay as they are.
Only(p) ==
    /\ part = p /\ part' = part
    /\ IF p = "tokens" THEN TRUE ELSE UNCHANGED vars
    /\ IF p = "fusion" THEN TRUE ELSE UNCHANGED fuVars
    /\ IF p = "server" THEN TRUE ELSE UNCHANGED msVars
    /\ IF p = "setup" THEN TRUE ELSE UNCHANGED seVars
    /\ IF p = "headroom" THEN TRUE ELSE UNCHANGED heVars
    /\ IF p = "project" THEN TRUE ELSE UNCHANGED prVars
    /\ IF p = "pool" THEN TRUE ELSE UNCHANGED poVars
    /\ IF p = "usage" THEN TRUE ELSE UNCHANGED duVars
    /\ IF p = "reset" THEN TRUE ELSE UNCHANGED reVars
    /\ IF p = "lifetime" THEN TRUE ELSE UNCHANGED liVars
    /\ IF p = "update" THEN TRUE ELSE UNCHANGED updVars
    /\ IF p = "console" THEN TRUE ELSE UNCHANGED coVars

AllNext ==
    \/ Only("tokens") /\ Next
    \/ Only("fusion") /\ FU!Next
    \/ Only("server") /\ MS!Next
    \/ Only("setup") /\ SE!Next
    \/ Only("headroom") /\ HE!Next
    \/ Only("project") /\ PR!Next
    \/ Only("pool") /\ PO!Next
    \/ Only("usage") /\ DU!Next
    \/ Only("reset") /\ RE!Next
    \/ Only("lifetime") /\ LI!Next
    \/ Only("update") /\ UP!Next
    \/ Only("console") /\ CO!Next

AllVars == <<part, vars, fuVars, msVars, seVars, heVars, prVars, poVars, duVars, reVars, liVars,
             updVars, coVars>>

\* What the modules assume of their own actions.
Fairness ==
    /\ WF_fuVars(part = "fusion" /\ FU!Tick) /\ WF_fuVars(part = "fusion" /\ FU!Collect)
    /\ \A p \in FU!Panel :
          /\ WF_fuVars(part = "fusion" /\ FU!HandOver(p))
          /\ WF_fuVars(part = "fusion" /\ \E res \in FU!Results : FU!Finish(p, res))
    /\ WF_msVars(part = "server" /\ MS!Loop) /\ WF_msVars(part = "server" /\ MS!Stopped)
    /\ \A c \in Conns : WF_msVars(part = "server" /\ MS!Handler(c))
    /\ \A r \in Requests : WF_reVars(part = "reset" /\ RE!Reset(r))
    /\ WF_liVars(part = "lifetime" /\ LI!Tick) /\ WF_liVars(part = "lifetime" /\ LI!Drained)
    /\ \A s \in Streams :
          /\ WF_liVars(part = "lifetime" /\ LI!Proceed(s))
          /\ WF_liVars(part = "lifetime" /\ LI!TimerFires(s))
          /\ WF_liVars(part = "lifetime" /\ LI!WatcherCloses(s))
          /\ WF_liVars(part = "lifetime" /\ LI!WatcherLeaves(s))

AllSpec == AllInit /\ [][AllNext]_AllVars /\ Fairness

-----------------------------------------------------------------------------
\* Every part keeps its types.
AllTypesOK ==
    CASE part = "tokens" -> TypeOK
      [] part = "fusion" -> FU!TypeOK
      [] part = "server" -> MS!TypeOK
      [] part = "setup" -> SE!TypeOK
      [] part = "headroom" -> HE!TypeOK
      [] part = "project" -> PR!TypeOK
      [] part = "pool" -> PO!TypeOK
      [] part = "usage" -> DU!TypeOK
      [] part = "reset" -> RE!TypeOK
      [] part = "lifetime" -> LI!TypeOK
      [] part = "update" -> UP!TypeOK
      [] part = "console" -> CO!TypeOK

\* collectPanel ends at the grace period or the hard timeout, neither before nor after.
EndsOnTime == part = "fusion" => FU!EndsOnTime

\* Every call of a panel ends, the ones the collector no longer waits for too.
CallsEnd == \A p \in FU!Panel : (part = "fusion" /\ call[p] # "ended") ~> (call[p] = "ended")

\* Stop of the MITM server returns, whatever the clients it knows of do.
StopReturns == MS!StopReturns

\* The MITM root certificate and its key are of one pair whenever both can be read.
CAPairMatches == part = "setup" => SE!CAPairMatches

\* A headroom process that runs is the one the pid file names, unless requests met.
RunningIsManaged == part = "headroom" => HE!RunningIsManaged

\* Discovery is skipped only after a verdict, and no longer than it stands.
SkipsAreFounded == part = "project" => PR!SkipsAreFounded

\* The URLs of an HTTP pool are used evenly, whichever request read the row first.
ProxiesTakeTurns == part = "pool" => PO!ProxiesTakeTurns

\* The row of a day counts every request merged into it once, whatever finished together.
DaysCountEverything == part = "usage" => DU!DaysCountEverything

\* ResetProviderHealth ends while the pool has a connection left, and when it reports success
\* none of the locks it found active is left.
ResetsComplete == []RE!ResetClears /\ RE!ResetsEnd

\* The server stops soon after the signal, whatever its streams are at.
ShutdownIsPrompt == LI!ShutdownIsPrompt

\* There is a whole binary at the executable's path or beside it at every moment.
KeepsABinary == part = "update" => UP!KeepsABinary

\* No viewer of the console has a line twice.
NoLineTwice == part = "console" => CO!NoLineTwice
=============================================================================
