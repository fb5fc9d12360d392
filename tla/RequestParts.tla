---------------------------- MODULE RequestParts ----------------------------
(* Parts of a request's path: the errors its connection sees, the executor    *)
(* that writes its stream, the translator of a stream for a Claude client,    *)
(* a conversation with tool calls, the way from its model's name to its       *)
(* upstreams, the readers that cut bytes into events, and an envelope.  They  *)
(* share no variable.                                                         *)
EXTENDS ComboRotation, FiniteSets

CONSTANTS
    BaseMs, MaxMs, MaxLevel, CooldownLong, CooldownShort, TransientMs,  \* ErrorClassify
    Statuses, Texts,                                                    \* ErrorSequence
    Calls, Fabricated, GeminiCalls,                                     \* ExecutorStreams
    ToolIndices, MaxPieces,                                             \* StreamTranslation
    ToolSets, Native, Signatures, MaxToolTurns, MaxToolCalls, Default,  \* ToolConversation
    Entries, AliasTables, ComboTables, Nodes, Common, ClaudeSide,       \* ChatDispatch
    Layouts, Header, MaxRead,                                           \* StreamFraming
    MaxFrames                                                           \* QoderEnvelope

ASSUME ErrorAssumption ==
    /\ MaxLevel \in Nat
    /\ {BaseMs, MaxMs, CooldownLong, CooldownShort, TransientMs} \subseteq Nat \ {0}

\* An id made up for a fragment is no upstream's id.
ASSUME ExecutorAssumption ==
    /\ IsFiniteSet(Calls) /\ Calls # {} /\ IsFiniteSet(Fabricated)
    /\ Calls \cap Fabricated = {}
    /\ None \notin Nat \cup Calls \cup Fabricated \cup {"gemini"}
    /\ GeminiCalls \in Nat

\* An upstream has so many calls only; neither a call's index nor a block's number is None.
ASSUME TranslationAssumption ==
    /\ IsFiniteSet(ToolIndices) /\ None \notin ToolIndices \cup Nat /\ MaxPieces \in Nat

VARIABLES
    level, verdict, seen,
    who, up, broken, index, count, named, completed, failure, greeted, out, result,
    owner, ended, role, last, beat,
    stUp, called, given, billed, session, pending, old, dropped, stOut, finished, stResult,
    usage, got, phase, blocks, next, stLast, stBeat,
    client, tools, history, offered, made,
    aliases, combos, usable, endpoint, name, synthetic, body, info, todo, calls, answer,
    reader, layout, length, pos, held, handed, frResult, cuts,
    stream, frames, checked, status, qoOut, qoResult

erVars == <<level, verdict, seen>>
esVars == <<who, up, broken, index, count, named, completed, failure, greeted, out, result,
           owner, ended, role, last, beat>>
stVars == <<stUp, called, given, billed, session, pending, old, dropped, stOut, finished, stResult,
           usage, got, phase, blocks, next, stLast, stBeat>>
tcVars == <<client, tools, history, offered, made>>
cdVars == <<aliases, combos, usable, endpoint, name, synthetic, body, info, todo, calls, answer>>
frVars == <<reader, layout, length, pos, held, handed, frResult, cuts>>
qoVars == <<stream, frames, checked, status, qoOut, qoResult>>

ER == INSTANCE ErrorSequence
ES == INSTANCE ExecutorStreams
ST == INSTANCE StreamTranslation WITH
        Indices <- ToolIndices,
        up <- stUp, out <- stOut, result <- stResult, last <- stLast, beat <- stBeat
TC == INSTANCE ToolConversation WITH MaxTurns <- MaxToolTurns, MaxCalls <- MaxToolCalls
CD == INSTANCE ChatDispatch
FR == INSTANCE StreamFraming WITH who <- reader, seen <- handed, result <- frResult
QO == INSTANCE QoderEnvelope WITH out <- qoOut, result <- qoResult

\* A tool's name is a name proper and how often "_ide" follows it; no native one ends with it
\* (AntigravityNativeToolNames).
ASSUME ToolAssumption ==
    /\ \A t \in UNION ToolSets : t = <<t[1], t[2]>> /\ t[2] \in Nat
    /\ \A t \in Native : t[2] = 0
    /\ {MaxToolTurns, MaxToolCalls} \subseteq Nat

\* An event has some content and the ends of two lines; the header of a frame is part of it.
ASSUME FramingAssumption == Layouts \subseteq Seq(Nat \ 0 .. 2) /\ {Header, MaxRead} \subseteq Nat

\* Nothing the executor returns is None.
ASSUME EnvelopeAssumption == MaxFrames \in Nat /\ None \notin {200, "ok", "blocked", "cut"}

\* The entries of the tables are entries, and there are finitely many combos.
ASSUME DispatchAssumption ==
    /\ \A t \in AliasTables : \A e \in DOMAIN t : t[e] \in Entries
    /\ \A t \in ComboTables :
          IsFiniteSet(DOMAIN t) /\ \A c \in DOMAIN t : t[c].models \in Seq(Entries)

\* Neither a state nor an event is None.
ASSUME StatesAssumption == None \notin ST!States({<<>>}) /\ None \notin ST!Chunks

-----------------------------------------------------------------------------
\* The backoff level counts quota errors, whatever their status and whatever comes between, until
\* a success (ClassifyError, UnlockConnectionModel).
LevelFollowsQuota == ER!LevelFollowsQuota

\* codex, kiro, commandcode, windsurf, trae and Gemini: whatever the upstream sends and however
\* it ends, the client reads one chat stream with one end.
PromisesChatStream == ES!PromisesChatStream

\* handleStreamResponse: whatever the upstream sends, the client reads one well-formed Claude
\* stream, its blocks numbered, opened, filled and closed before its one end.
PromisesClaudeStream == ST!PromisesClaudeStream

\* handleStreamResponse: a client that has the end of the message has every piece that was sent,
\* and the usage that came, even after the finish reason, is what the log is given.
NothingLost == ST!NothingLost

\* Cloaked names, thought signatures, made-up ids: what goes upstream is the conversation that
\* took place, each call as the model made it and its result right after it.
HistoryIsKept == TC!CallsReturn /\ TC!ResultsFollowCalls

\* Upstreams get bodies, and clients answers, in the format they speak.
FormatsMeet == CD!FormatsMeet

\* flattenComboModels: a combo within a combo reaches every model it names, whatever goes round
\* in circles.
CoversReachable == CD!CoversReachable

\* However reads cut the stream, every event is handed on once, whole and in order.
EventsArrive == FR!EventsArrive

\* What the service wraps in envelopes reaches the client whole.
AnswerIsWhole == QO!AnswerIsWhole
=============================================================================
