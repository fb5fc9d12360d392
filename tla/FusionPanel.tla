----------------------------- MODULE FusionPanel -----------------------------
(***************************************************************************)
(* A fusion combo asks all its models at once and lets the first of them   *)
(* judge the answers (handleFusion of internal/handlers/chat/combo.go,     *)
(* collectPanel and makePanelCall of combo_fusion.go).  Every call is a    *)
(* goroutine that hands its result to a buffered channel; the collector    *)
(* reads it until all have settled, until a grace period after a quorum of *)
(* answers is over, or until the hard timeout.  Calls are not cancelled:   *)
(* they go on when the collector has returned or the client has gone.      *)
(*                                                                         *)
(* Time is counted in seconds.  The collector runs as soon as something is *)
(* ready for it, so the clock stands still until it has.                   *)
(***************************************************************************)
EXTENDS Naturals, Sequences, FiniteSets

CONSTANTS
    Size,       \* models in the panel, two or more
    MinPanel,   \* answers that make a quorum (2)
    Grace,      \* StragglerGraceMs
    Hard,       \* PanelHardTimeoutMs
    ChanCap,    \* capacity of the result channel (the size of the panel)
    MaxTime,    \* bound: the clock stops here
    None

Panel == 1 .. Size

\* A call ends with a text, with a completion that holds no text (the model called a tool,
\* say), or with an error.
Results == {"text", "blank", "error"}
Ok(res) == res # "error"

VARIABLES
    now,
    call,     \* per model: its call runs, holds a result nobody has room for, or has ended
    held,     \* per model: the result its call came to, or None
    ch,       \* the channel: positions whose result waits for the collector
    results,  \* per model: the result the collector has taken, or None
    okCount,
    graceEnd, \* when graceTimeout fires, or None while the channel is nil
    pc,       \* "collecting", "weighing" or "done"
    outcome,  \* what handleFusion came to, or None
    quorumAt, \* (history) when the quorum was complete, or None
    endedAt   \* (history) when the collection ended, or None

vars == <<now, call, held, ch, results, okCount, graceEnd, pc, outcome, quorumAt, endedAt>>

Taken(p) == results[p] # None
Settled == Cardinality({p \in Panel : Taken(p)})

Init ==
    /\ now = 0
    /\ call = [p \in Panel |-> "running"] /\ held = [p \in Panel |-> None]
    /\ ch = <<>> /\ results = [p \in Panel |-> None]
    /\ okCount = 0 /\ graceEnd = None
    /\ pc = "collecting" /\ outcome = None
    /\ quorumAt = None /\ endedAt = None

-----------------------------------------------------------------------------
(* Calls *)

\* The call is over: the model did not resolve, had no account, failed, or completed.
Finish(p, res) ==
    /\ call[p] = "running"
    /\ call' = [call EXCEPT ![p] = "handing"]
    /\ held' = [held EXCEPT ![p] = res]
    /\ UNCHANGED <<now, ch, results, okCount, graceEnd, pc, outcome, quorumAt, endedAt>>

\* The channel has no buffer: somebody must be there to take the result.
NoBuffer == pc = "collecting" /\ ch = <<>>

HasRoom == Len(ch) < ChanCap

\* The result goes into the channel and the goroutine ends.
HandOver(p) ==
    /\ call[p] = "handing" /\ HasRoom
    /\ call' = [call EXCEPT ![p] = "ended"]
    /\ ch' = Append(ch, p)
    /\ UNCHANGED <<now, held, results, okCount, graceEnd, pc, outcome, quorumAt, endedAt>>

-----------------------------------------------------------------------------
(* The collector *)

\* Every answer beyond the quorum begins the grace period again.
GraceRestarts(ok) == IF ok >= MinPanel THEN now + Grace ELSE graceEnd

\* The quorum begins the grace period, once.
GraceAfter(ok) == IF ok >= MinPanel /\ graceEnd = None THEN now + Grace ELSE graceEnd

Oks == {p \in Panel : Taken(p) /\ Ok(results[p])}

\* A result counts towards the quorum whatever it is.
EveryResultCounts(res) == 1

\* What a result adds to the quorum.
Counted(res) == IF Ok(res) THEN 1 ELSE 0

Receive ==
    LET p == Head(ch)
        ok == okCount + Counted(held[p])
    IN  /\ pc = "collecting" /\ ch # <<>>
        /\ ch' = Tail(ch)
        /\ results' = [results EXCEPT ![p] = held[p]]
        /\ okCount' = ok
        /\ graceEnd' = IF Ok(held[p]) THEN GraceAfter(ok) ELSE graceEnd
        /\ quorumAt' = IF quorumAt = None /\ Cardinality(Oks \cup {q \in {p} : Ok(held[q])}) >= MinPanel
                       THEN now ELSE quorumAt
        /\ IF Settled + 1 = Size THEN pc' = "weighing" /\ endedAt' = now
           ELSE UNCHANGED <<pc, endedAt>>
        /\ UNCHANGED <<now, call, held, outcome>>

\* A timer that has run out ends the collection, even when a result is ready as well.
GraceOver == graceEnd # None /\ now >= graceEnd
HardOver  == now >= Hard

TimeOut ==
    /\ pc = "collecting" /\ (GraceOver \/ HardOver)
    /\ pc' = "weighing" /\ endedAt' = now
    /\ UNCHANGED <<now, call, held, ch, results, okCount, graceEnd, outcome, quorumAt>>

-----------------------------------------------------------------------------
(* What is made of the answers *)

Answers == {p \in Panel : results[p] = "text"}

\* None: 503.  One: its model answers the client, as a combo of its own.  More: the panel's
\* first model judges, whether or not it answered, and when it does not resolve the answers
\* of the others are of no use.
Weigh ==
    /\ pc = "weighing"
    /\ \/ Answers = {} /\ outcome' = "unavailable"
       \/ Cardinality(Answers) = 1 /\ outcome' = "single"
       \/ Cardinality(Answers) > 1 /\ outcome' \in {"judged", "bad gateway"}
    /\ pc' = "done"
    /\ UNCHANGED <<now, call, held, ch, results, okCount, graceEnd, quorumAt, endedAt>>

\* Something is ready: a result on its way or in the channel, a timer that has run out, or
\* answers to weigh.
Ready ==
    \/ \E p \in Panel : call[p] = "handing" /\ HasRoom
    \/ pc = "collecting" /\ (ch # <<>> \/ GraceOver \/ HardOver)
    \/ pc = "weighing"

Tick ==
    /\ now < MaxTime /\ ~Ready
    /\ now' = now + 1
    /\ UNCHANGED <<call, held, ch, results, okCount, graceEnd, pc, outcome, quorumAt, endedAt>>

-----------------------------------------------------------------------------
Collect == Receive \/ TimeOut \/ Weigh

Next ==
    \/ \E p \in Panel : (\E res \in Results : Finish(p, res)) \/ HandOver(p)
    \/ Collect
    \/ Tick

Spec == Init /\ [][Next]_vars

-----------------------------------------------------------------------------
\* Types; the channel never holds more than its capacity, nor a result twice, and the quorum
\* counts the answers taken.
TypeOK ==
    /\ now \in 0 .. MaxTime
    /\ call \in [Panel -> {"running", "handing", "ended"}]
    /\ held \in [Panel -> Results \cup {None}]
    /\ ch \in Seq(Panel) /\ Len(ch) <= ChanCap
    /\ \A i, j \in DOMAIN ch : i # j => ch[i] # ch[j]
    /\ results \in [Panel -> Results \cup {None}]
    /\ okCount = Cardinality(Oks)
    /\ graceEnd \in Nat \cup {None}
    /\ pc \in {"collecting", "weighing", "done"}
    /\ outcome \in {None, "unavailable", "single", "judged", "bad gateway"}
    /\ {quorumAt, endedAt} \subseteq Nat \cup {None}

\* Unless everybody has settled, the collection ends neither before nor after its time: the
\* grace period after the quorum, or the hard timeout if that is earlier.  Failures do not
\* count towards the quorum and answers that trickle in do not draw the period out
\* (collectPanel: "Returns when all settled, grace fires, or hard timeout reached").
EndsOnTime ==
    LET ends == IF quorumAt # None /\ quorumAt + Grace < Hard THEN quorumAt + Grace ELSE Hard
    IN  /\ endedAt = None => now <= ends
        /\ endedAt # None /\ Settled < Size => endedAt = ends
=============================================================================
