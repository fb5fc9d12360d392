--------------------------- MODULE ExecutorStreams ---------------------------
(***************************************************************************)
(* The executors that read a provider's own stream and write the client an *)
(* OpenAI one: codex, kiro and commandcode (executor/stream.go), windsurf, *)
(* trae, and Gemini (handleGeminiStream of chat/gemini_handler.go with     *)
(* TranslateGeminiChunkToOpenAI of translator/gemini.go).  One behaviour   *)
(* is one request to one of them.                                          *)
(*                                                                         *)
(* An upstream event is handled as a whole; the chunks it leads to are     *)
(* written one by one.  The upstreams keep to their own protocols: no      *)
(* content after the final event, an event of one call names that call.    *)
(* Every executor promises a ChatStream.                                   *)
(***************************************************************************)
EXTENDS Naturals, Sequences, FiniteSets

CONSTANTS
    Calls,        \* the upstream's tool calls
    Fabricated,   \* ids made up for calls that come without one, one per index
    GeminiCalls,  \* bound: function calls in one answer of Gemini
    None

Executors == {"codex", "kiro", "commandcode", "windsurf", "trae", "gemini"}

\* Fragments of calls without an id get an index each, so there are more indices than calls.
Indices == 0 .. Cardinality(Calls) + Cardinality(Fabricated) - 1

VARIABLES
    who,       \* the executor
    up,        \* the upstream: "open", "ended" (its final event is out) or "closed"
    broken,    \* reading it failed
    index,     \* per call: ToolCallIdx, ToolIndexByID, or the frame's index; None before
    count,     \* ToolCallCount, ToolIndex, toolCallIndex
    named,     \* calls commandcode has announced in pieces; ids codex has made up
    completed, \* Completed, Finished
    failure,   \* hadError, errEvent
    greeted,   \* roleEmitted, MessageStartSent, ChunkIndex > 0
    out,       \* chunks still to be written
    result,    \* what the executor returned: "running", "ok" or "error"
    owner, ended, role, last, beat    \* what the client knows (ChatStream)

reader == <<who, up, broken, index, count, named, completed, failure, greeted, result>>
client == <<owner, ended, role, last, beat>>
vars == <<reader, out, client>>

CS == INSTANCE ChatStream WITH Calls <- Calls \cup Fabricated \cup {"gemini"}

Plain(kind) == CS!Plain(kind)
Fragment(i, c) == CS!Event("fragment", i, c)

Begins(w) ==
    /\ who = w /\ up = "open" /\ broken = FALSE
    /\ index = [c \in Calls |-> None] /\ count = 0 /\ named = {}
    /\ completed = FALSE /\ failure = FALSE
    /\ result = "running"
    /\ CS!Init

\* Trae announces the role before it reads anything.
Init ==
    \E w \in Executors :
        /\ Begins(w)
        /\ greeted = (w = "trae")
        /\ out = IF w = "trae" THEN <<Plain("role")>> ELSE <<>>

-----------------------------------------------------------------------------
(* Upstream events *)

Reads(w) == who = w /\ up = "open" /\ result = "running" /\ out = <<>>

\* A piece of text or reasoning.  Windsurf, commandcode and Gemini announce the role with the
\* first chunk they write; codex and kiro never do.
Speaks(w) == IF greeted \/ w \in {"codex", "kiro", "trae"} THEN <<>> ELSE <<Plain("role")>>

Says(w, kinds) ==
    /\ Reads(w)
    /\ \E kind \in kinds : out' = Speaks(w) \o <<Plain(kind)>>
    /\ greeted' = (greeted \/ w \notin {"codex", "kiro"})
    /\ UNCHANGED <<who, up, broken, index, count, named, completed, failure, result, client>>

CodexText    == Says("codex", {"text"})
KiroText     == Says("kiro", {"text", "reasoning"})
CommandText  == Says("commandcode", {"text", "reasoning"})
WindsurfText == Says("windsurf", {"text"})
TraePlanItem == Says("trae", {"text"})
GeminiText   == Says("gemini", {"text", "reasoning"})

\* (a slip: every fragment is a call of its own)
IndexPerFragment(c) == count

\* toolCallIndex: an index on first sight, the same one for all fragments of the call.
IndexOf(c) == IF index[c] = None THEN count ELSE index[c]

Numbers(c) ==
    /\ index' = [index EXCEPT ![c] = IndexOf(c)]
    /\ count' = IF index[c] = None THEN count + 1 ELSE count

\* Codex: argument deltas and the complete arguments, with the call_id ...
CodexArguments(c) ==
    /\ Reads("codex") /\ Numbers(c)
    /\ out' = <<Fragment(IndexOf(c), c)>>
    /\ UNCHANGED <<who, up, broken, named, completed, failure, greeted, result, client>>

\* ... or without one: the id made up for it holds the counter, which the fragment advances,
\* so the next fragment of the same call is taken for another call.
CodexAnonymous(f) ==
    /\ Reads("codex")
    /\ f \notin named /\ named' = named \cup {f}
    /\ count' = count + 1
    /\ out' = <<Fragment(count, f)>>
    /\ UNCHANGED <<who, up, broken, index, completed, failure, greeted, result, client>>

\* Kiro: a frame holds a whole call; the next one gets the next index.
KiroToolUse(c) ==
    /\ Reads("kiro") /\ index[c] = None /\ Numbers(c)
    /\ out' = <<Fragment(count, c)>>
    /\ UNCHANGED <<who, up, broken, named, completed, failure, greeted, result, client>>

\* Commandcode: tool-input-start numbers the call, tool-input-delta of an unknown one is
\* dropped, and tool-call is for calls that were not announced in pieces: it carries no index.
CommandStart(c) ==
    /\ Reads("commandcode") /\ Numbers(c)
    /\ out' = <<Fragment(IndexOf(c), c)>>
    /\ named' = named \cup {c}
    /\ UNCHANGED <<who, up, broken, completed, failure, greeted, result, client>>

CommandDelta(c) ==
    /\ Reads("commandcode") /\ c \in named
    /\ out' = <<Fragment(index[c], c)>>
    /\ UNCHANGED <<who, up, broken, index, count, named, completed, failure, greeted, result, client>>

CommandCall(c) ==
    /\ Reads("commandcode") /\ index[c] = None
    /\ Numbers(c) /\ greeted' = TRUE
    /\ out' = Speaks("commandcode") \o <<CS!Event("whole", None, c)>>
    /\ UNCHANGED <<who, up, broken, named, completed, failure, result, client>>

\* Gemini: a function call is complete and always has index 0 and a fresh id.
GeminiCall ==
    /\ Reads("gemini") /\ count < GeminiCalls
    /\ count' = count + 1 /\ greeted' = TRUE
    /\ out' = Speaks("gemini") \o <<Fragment(0, "gemini")>>
    /\ UNCHANGED <<who, up, broken, index, named, completed, failure, result, client>>

\* The final event.  Commandcode reports an error as text and a finish reason; windsurf and
\* trae only remember it.
EndsWith(w, chunks, failed) ==
    /\ Reads(w) /\ up' = "ended"
    /\ out' = chunks /\ failure' = failed
    /\ UNCHANGED <<who, broken, index, count, named, greeted, result, client>>

CodexCompleted  == EndsWith("codex", <<Plain("finish")>>, FALSE) /\ completed' = TRUE
CommandFinish   == EndsWith("commandcode", <<Plain("finish")>>, FALSE) /\ completed' = TRUE
CommandError    == EndsWith("commandcode", <<Plain("text"), Plain("finish")>>, FALSE) /\ completed' = TRUE
GeminiFinish    == EndsWith("gemini", Speaks("gemini") \o <<Plain("finish")>>, FALSE) /\ completed' = TRUE
WindsurfTrailer == \E failed \in BOOLEAN : EndsWith("windsurf", <<>>, failed) /\ UNCHANGED completed
TraeEnd         == \E failed \in BOOLEAN : EndsWith("trae", <<>>, failed) /\ UNCHANGED completed

\* The body ends, with or without a final event, or reading it fails; trae reads no further
\* than its final event.
Closes ==
    /\ up \in {"open", "ended"} /\ result = "running" /\ out = <<>>
    /\ up' = "closed"
    /\ broken' \in (IF up = "ended" /\ who = "trae" THEN {FALSE} ELSE BOOLEAN)
    /\ UNCHANGED <<who, index, count, named, completed, failure, greeted, out, result, client>>

-----------------------------------------------------------------------------
(* The end of the stream *)

\* (a slip: the finish chunk is written whether or not there was one)
FinishAgain == <<Plain("finish"), Plain("done")>>

\* writeSSEFinish: a finish chunk unless there was one, and [DONE].
WriteSSEFinish == (IF completed THEN <<>> ELSE <<Plain("finish")>>) \o <<Plain("done")>>

\* An error frame instead of a finish reason.  Trae omits [DONE] after an error event.
FramedTail ==
    IF broken \/ (failure /\ who = "windsurf") THEN <<Plain("error"), Plain("done")>>
    ELSE IF failure THEN <<Plain("error")>>
    ELSE <<Plain("finish"), Plain("done")>>

Closing ==
    CASE who \in {"codex", "commandcode"} -> WriteSSEFinish
      [] who = "kiro"                     -> <<Plain("finish"), Plain("done")>>
      [] who \in {"windsurf", "trae"}     -> FramedTail
      [] who = "gemini"                   -> <<>>

\* What the handlers return: kiro, commandcode and Gemini report a failed read although the
\* client has its end, codex, windsurf and trae do not.
Returns ==
    /\ up = "closed" /\ result = "running" /\ out = <<>>
    /\ out' = Closing
    /\ result' = IF broken /\ who \in {"kiro", "commandcode", "gemini"} THEN "error" ELSE "ok"
    /\ UNCHANGED <<who, up, broken, index, count, named, completed, failure, greeted, client>>

\* The next chunk reaches the client.
Deliver ==
    LET e == Head(out)
    IN  /\ out # <<>> /\ out' = Tail(out)
        /\ last' = e /\ beat' = 1 - beat
        /\ owner' = IF e.kind = "fragment" THEN [owner EXCEPT ![e.index] = e.call] ELSE owner
        /\ role' = (role \/ e.kind = "role")
        /\ ended' = CASE e.kind = "finish" -> "finished"
                      [] e.kind = "error"  -> "failed"
                      [] e.kind = "done"   -> "done"
                      [] OTHER             -> ended
        /\ UNCHANGED reader

-----------------------------------------------------------------------------
Next ==
    \/ CodexText \/ KiroText \/ CommandText \/ WindsurfText \/ TraePlanItem \/ GeminiText
    \/ \E c \in Calls : \/ CodexArguments(c) \/ KiroToolUse(c)
                        \/ CommandStart(c) \/ CommandDelta(c) \/ CommandCall(c)
    \/ \E f \in Fabricated : CodexAnonymous(f)
    \/ GeminiCall
    \/ CodexCompleted \/ CommandFinish \/ CommandError
    \/ GeminiFinish \/ WindsurfTrailer \/ TraeEnd
    \/ Closes \/ Returns \/ Deliver

Spec == Init /\ [][Next]_vars

-----------------------------------------------------------------------------
TypeOK ==
    /\ who \in Executors /\ up \in {"open", "ended", "closed"}
    /\ index \in [Calls -> Indices \cup {None}]
    /\ count \in 0 .. (IF who = "gemini" THEN GeminiCalls ELSE Cardinality(Indices))
    /\ named \subseteq Calls \cup Fabricated
    /\ {broken, completed, failure, greeted, role} \subseteq BOOLEAN
    /\ result \in {"running", "ok", "error"}
    /\ ended \in {"no", "finished", "failed", "done"}

\* Whatever the upstream sends and however it ends, the client reads a chat stream: an index
\* never changes hands between calls, nothing follows the end, and there is one end.
PromisesChatStream == CS!Spec
=============================================================================
