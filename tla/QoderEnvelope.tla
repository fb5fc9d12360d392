--------------------------- MODULE QoderEnvelope ----------------------------
(***************************************************************************)
(* Qoder's answers (handleQoderSSE and handleQoderNonStream of             *)
(* internal/proxy/executor/qoder.go).  The service always streams, each    *)
(* chunk of an answer inside an envelope; it says in the first envelope    *)
(* that the account cannot pay.  A stream hands the chunks on as they      *)
(* come, any other answer is put together from their text.                 *)
(***************************************************************************)
EXTENDS Naturals, Sequences, Filters

CONSTANTS
    MaxFrames, \* bound: lines the service sends
    None

\* A line that is no data, data that is no envelope, an envelope with nothing in it, with a
\* piece of text, with a piece of a tool call or of thinking, with the end, or with the block.
Kinds == {"note", "raw", "empty", "text", "part", "end", "block"}

VARIABLES
    stream,  \* the client asked for a stream
    frames,  \* (history) what the service sent
    checked, \* the first envelope was looked at
    status,  \* the status the client was sent, or None
    out,     \* what the client was sent, or the answer is put together from
    result   \* what the executor returned: "ok", "blocked", "cut", or None

vars == <<stream, frames, checked, status, out, result>>

\* The status of a stream is sent before its first frame is read.
Init ==
    /\ stream \in BOOLEAN
    /\ frames = <<>> /\ checked = FALSE /\ out = <<>> /\ result = None
    /\ status = IF stream THEN 200 ELSE None

Envelope(kind) == kind \notin {"note", "raw"}
Ended == \E i \in DOMAIN frames : frames[i] = "end"

(***************************************************************************)
(* A plausible slip: the first envelope is looked at and not handed on.    *)
(***************************************************************************)
OnlyChecked(kind) == checked /\ kind \in {"text", "part"}

\* The envelopes whose body goes on.
Passes(kind) == kind \in {"text", "part"}

\* What a frame adds: the text of an answer, or the line or chunk of a stream.
Adds(kind) ==
    IF stream THEN IF ~Envelope(kind) \/ Passes(kind) \/ kind = "end" THEN <<kind>> ELSE <<>>
    ELSE IF Passes(kind) /\ kind = "text" THEN <<kind>> ELSE <<>>

\* A block that comes later than the first envelope passes for an empty one.
Frame(kind) ==
    /\ result = None /\ Len(frames) < MaxFrames /\ ~Ended
    /\ checked \/ kind # "block"
    /\ frames' = Append(frames, kind)
    /\ out' = out \o Adds(kind)
    /\ checked' = (checked \/ Envelope(kind))
    /\ UNCHANGED <<stream, status, result>>

Blocked ==
    /\ result = None /\ ~checked /\ Len(frames) < MaxFrames
    /\ frames' = Append(frames, "block") /\ checked' = TRUE
    /\ result' = "blocked"
    /\ UNCHANGED <<stream, status, out>>

\* A stream ends with its [DONE]; the text is put together when the service closes, and an
\* error of the read is an error of the stream only.
Finish ==
    /\ result = None
    /\ \/ Ended /\ result' = "ok"
       \/ ~Ended /\ result' \in IF stream THEN {"ok", "cut"} ELSE {"ok"}
    /\ status' = 200
    /\ UNCHANGED <<stream, frames, checked, out>>

Next == Blocked \/ Finish \/ \E kind \in Kinds : Frame(kind)

Spec == Init /\ [][Next]_vars

TypeOK ==
    /\ stream \in BOOLEAN /\ checked \in BOOLEAN
    /\ frames \in Seq(Kinds) /\ Len(frames) <= MaxFrames /\ out \in Seq(Kinds)
    /\ status \in {200, None} /\ result \in {"ok", "blocked", "cut", None}

(***************************************************************************)
(* An answer is all of what the service said, in its order: a stream has   *)
(* every chunk up to the end of the upstream, the first one included, any  *)
(* other answer every piece of text; and an account that cannot pay is     *)
(* found out before anything of the answer was read.                       *)
(***************************************************************************)
AnswerIsWhole ==
    /\ Kept(out, {"text", "part"}) = Kept(frames, IF stream THEN {"text", "part"} ELSE {"text"})
    /\ result = "blocked" => Kept(frames, {"text", "part"}) = <<>>
=============================================================================
