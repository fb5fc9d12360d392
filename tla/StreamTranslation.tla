-------------------------- MODULE StreamTranslation --------------------------
(***************************************************************************)
(* An OpenAI event stream becomes a Claude one:                            *)
(* TranslateOpenAIToClaudeStreamSession of translator/response.go, the     *)
(* session tables of translator/usage.go, and handleStreamResponse of      *)
(* chat/forward.go (sseStream of executor/openai.go is the same), which    *)
(* feeds it the upstream's events and writes what it returns.              *)
(*                                                                         *)
(* One behaviour is one stream.  The upstream keeps to the OpenAI          *)
(* protocol: a call's id comes with its first fragment only, one finish    *)
(* reason, and after it at most usage and [DONE].  An event may arrive in  *)
(* two halves.  Other streams are seen in the size of the session table:   *)
(* when it is large, states older than ten minutes are dropped.            *)
(***************************************************************************)
EXTENDS Naturals, Sequences, FiniteSets

CONSTANTS Indices,   \* the upstream's tool-call indices
          MaxPieces, \* bound: content pieces in the answer
          None

VARIABLES
    up,       \* "open", "finished" (finish reason sent), "done" ([DONE] sent) or "closed"
    called,   \* tool-call indices the upstream has begun
    given,    \* content pieces the upstream has sent
    billed,   \* it has sent its usage
    session,  \* the StreamState of this stream, or None
    pending,  \* pendingJSON: the event whose first half has come, or None
    old,      \* the state is older than ten minutes
    dropped,  \* (history) the table dropped the state of the running stream
    out,      \* events still to be written
    finished, \* handleStreamResponse: [DONE] has been among them
    result,   \* "running", or what handleStreamResponse returned
    usage,    \* the usage it handed to the log
    got,      \* content pieces the client has
    phase, blocks, next, last, beat   \* what the client knows (ClaudeStream)

upstream == <<up, called, given, billed>>
handler == <<finished, result, usage>>
client == <<got, phase, blocks, next, last, beat>>
vars == <<upstream, session, pending, old, dropped, out, handler, client>>

CL == INSTANCE ClaudeStream

Init ==
    /\ up = "open" /\ called = {} /\ given = 0 /\ billed = FALSE
    /\ session = None /\ pending = None /\ old = FALSE /\ dropped = FALSE
    /\ out = <<>> /\ finished = FALSE /\ result = "running" /\ usage = FALSE
    /\ got = 0 /\ CL!Init

-----------------------------------------------------------------------------
(* Upstream events *)

\* What of an event matters here: reasoning, content, a fragment of a call (its index; the
\* first one carries the id; it may carry arguments), a finish reason, usage, choices at all.
NoCall == [index |-> None, first |-> FALSE, args |-> FALSE]

Chunks ==
    [think : BOOLEAN, text : BOOLEAN,
     call : {NoCall} \cup [index : Indices, first : BOOLEAN, args : BOOLEAN],
     finish : BOOLEAN, usage : BOOLEAN, choices : BOOLEAN]

Pieces(c) == Cardinality({k \in {1} : c.think}) + Cardinality({k \in {1} : c.text})
             + Cardinality({k \in {1} : c.call.args})

\* The events a well-behaved upstream may send next.  It sends usage last.
Sendable ==
    {c \in Chunks :
        /\ ~c.choices => c.usage /\ Pieces(c) = 0 /\ c.call = NoCall /\ ~c.finish
        /\ c.choices => up = "open"
        /\ c.usage => ~billed /\ (up = "finished" \/ c.finish)
        /\ given + Pieces(c) <= MaxPieces
        /\ c.call.index # None =>
              /\ c.call.first <=> c.call.index \notin called
              /\ c.call.first \/ c.call.args}

Sends(c) ==
    /\ up' = IF c.finish THEN "finished" ELSE up
    /\ called' = called \cup ({c.call.index} \ {None})
    /\ given' = given + Pieces(c)
    /\ billed' = (billed \/ c.usage)

-----------------------------------------------------------------------------
(* The translator.  A state in the making carries the events it emits. *)

\* The state of a stream, with the text and thinking blocks that are open, the block of each call
\* and how much has been kept for it.
States(events) ==
    [started : BOOLEAN, next : Nat, text : Nat \cup {None}, thinking : Nat \cup {None},
     calls : [Indices -> Nat \cup {None}], args : [Indices -> Nat], usage : BOOLEAN,
     emit : events]

Fresh == [started |-> FALSE, next |-> 0, text |-> None, thinking |-> None,
          calls |-> [i \in Indices |-> None], args |-> [i \in Indices |-> 0],
          usage |-> FALSE, emit |-> <<>>]

BlockEvent(type, i, kind, n) == [type |-> type, block |-> CL!Block(i, kind), pieces |-> n]
MessageEvent(type) == [type |-> type, block |-> None, pieces |-> 0]

Says(s, e) == [s EXCEPT !.emit = Append(@, e)]
OnBlock(s, type, i, kind, n) == Says(s, BlockEvent(type, i, kind, n))
OnMessage(s, type) == Says(s, MessageEvent(type))

Starts(s) == IF s.started THEN s ELSE OnMessage([s EXCEPT !.started = TRUE], "message_start")

StopThinkingBlock(s) ==
    IF s.thinking = None THEN s
    ELSE OnBlock([s EXCEPT !.thinking = None], "block_stop", s.thinking, "thinking", 0)

\* (a slip: a text block stays open when something else begins)
TextStaysOpen(s) == s

StopTextBlock(s) ==
    IF s.text = None THEN s
    ELSE OnBlock([s EXCEPT !.text = None], "block_stop", s.text, "text", 0)

Think(s, c) ==
    LET a == StopTextBlock(s)
        b == IF a.thinking # None THEN a
             ELSE OnBlock([a EXCEPT !.thinking = a.next, !.next = @ + 1],
                          "block_start", a.next, "thinking", 0)
    IN  IF c.think THEN OnBlock(b, "block_delta", b.thinking, "thinking", 1) ELSE s

Text(s, c) ==
    LET a == StopThinkingBlock(s)
        b == IF a.text # None THEN a
             ELSE OnBlock([a EXCEPT !.text = a.next, !.next = @ + 1],
                          "block_start", a.next, "text", 0)
    IN  IF c.text THEN OnBlock(b, "block_delta", b.text, "text", 1) ELSE s

\* (a slip: the arguments are the last fragment's)
LastFragment(s, c) == [s EXCEPT !.args[c.call.index] = 1]

\* The arguments of a call are kept until the answer is finished.
Buffers(s, c) == [s EXCEPT !.args[c.call.index] = @ + 1]

Call(s, c) ==
    LET a == StopTextBlock(StopThinkingBlock(s))
        b == IF ~c.call.first THEN s
             ELSE OnBlock([a EXCEPT !.calls[c.call.index] = a.next, !.next = @ + 1],
                          "block_start", a.next, "tool_use", 0)
    IN  IF c.call.index = None THEN s ELSE IF c.call.args THEN Buffers(b, c) ELSE b

\* The calls' blocks are filled and closed in the order of a Go map, which is any.
Orders(s) ==
    LET open == {i \in Indices : s.calls[i] # None}
    IN  {q \in [1 .. Cardinality(open) -> open] : \A j, k \in DOMAIN q : q[j] = q[k] => j = k}

\* The tool blocks the order names, each filled with what was kept for it and closed.
Fill(s, order) ==
    LET event(k) ==
            LET i == order[(k + 1) \div 2]
            IN  IF k % 2 = 1 THEN BlockEvent("block_delta", s.calls[i], "tool_use", s.args[i])
                ELSE BlockEvent("block_stop", s.calls[i], "tool_use", 0)
    IN  [s EXCEPT !.emit = @ \o [k \in 1 .. 2 * Len(order) |-> event(k)]]

Finishes(s, order) ==
    OnMessage(OnMessage(Fill(StopTextBlock(StopThinkingBlock(s)), order),
                        "message_delta"), "message_stop")

Merge(s, c) == [s EXCEPT !.usage = @ \/ c.usage]

\* pruneStaleStatesLocked, which every call of the translator begins with.
Kept(crowded) == IF crowded /\ old THEN None ELSE session

\* An event without choices does not begin a message.
Translate(c, crowded) ==
    LET kept == Kept(crowded)
        s    == Starts(Merge(IF kept = None THEN Fresh ELSE kept, c))
        body == Call(Text(Think(s, c), c), c)
    IN  IF kept = None /\ ~c.choices THEN session' = None /\ UNCHANGED out
        ELSE \E order \in Orders(body) :
                LET t == IF c.finish THEN Finishes(body, order) ELSE body
                IN  /\ session' = [t EXCEPT !.emit = <<>>]
                    /\ out' = t.emit

-----------------------------------------------------------------------------
(* handleStreamResponse *)

Reads == result = "running" /\ out = <<>> /\ up # "closed"

Translates(c) ==
    \E crowded \in BOOLEAN :
        /\ Translate(c, crowded)
        /\ old' = (IF Kept(crowded) = None THEN FALSE ELSE old)
        /\ dropped' = (dropped \/ (session # None /\ Kept(crowded) = None))

\* An event comes whole,
Whole ==
    /\ Reads /\ pending = None
    /\ \E c \in Sendable : Sends(c) /\ Translates(c)
    /\ UNCHANGED <<pending, handler, client>>

\* or its first half, which is held and leads to nothing,
Half ==
    /\ Reads /\ pending = None
    /\ \E c \in Sendable : Sends(c) /\ pending' = c
    /\ UNCHANGED <<session, old, dropped, out, handler, client>>

\* and then the second one.
Rest ==
    /\ Reads /\ pending # None
    /\ Translates(pending) /\ pending' = None
    /\ UNCHANGED <<upstream, handler, client>>

DoneEvent == MessageEvent("done")

\* The upstream's [DONE] is passed on.
Done ==
    /\ Reads /\ pending = None /\ up = "finished" /\ up' = "done"
    /\ out' = <<DoneEvent>> /\ finished' = TRUE
    /\ UNCHANGED <<called, given, billed, session, pending, old, dropped, result, usage, client>>

\* Ten minutes have passed since the state was made.
Age ==
    /\ session # None /\ ~old /\ old' = TRUE
    /\ UNCHANGED <<upstream, session, pending, dropped, out, handler, client>>

\* (a slip: the terminator is written whether or not the upstream's was)
AlwaysTerminates(fired) == IF fired THEN <<DoneEvent>> ELSE <<>>

\* A stream that is cut by a shutdown gets its [DONE] from the proxy.
Terminator(fired) == IF fired /\ ~finished THEN <<DoneEvent>> ELSE <<>>

\* The body ends, or the stall reader closes it, because of a shutdown or of a stall.  The
\* usage is taken out of the session, which is removed.
Ends ==
    /\ Reads /\ up' = "closed"
    /\ \E fired \in BOOLEAN : out' = Terminator(fired)
    /\ result' = "returned"
    /\ usage' = (session # None /\ session.usage)
    /\ session' = None
    /\ UNCHANGED <<called, given, billed, pending, old, dropped, finished, client>>

\* The next event reaches the client.  What it sees of a stream whose state was dropped is
\* not recorded.
Deliver ==
    LET e == Head(out)
        b == e.block
    IN  /\ out # <<>> /\ out' = Tail(out)
        /\ IF dropped THEN UNCHANGED client
           ELSE /\ got' = got + e.pieces
                /\ last' = CL!Event(e.type, b) /\ beat' = 1 - beat
                /\ phase' = CASE e.type = "message_start" -> "open"
                              [] e.type = "message_delta" -> "closing"
                              [] e.type = "message_stop"  -> "ended"
                              [] e.type = "done"          -> "done"
                              [] OTHER                    -> phase
                /\ blocks' = CASE e.type = "block_start" -> blocks \cup {b}
                               [] e.type = "block_stop"  -> blocks \ {b}
                               [] OTHER                  -> blocks
                /\ next' = IF e.type = "block_start" THEN b.index + 1 ELSE next
        /\ UNCHANGED <<upstream, session, pending, old, dropped, handler>>

-----------------------------------------------------------------------------
Next == Whole \/ Half \/ Rest \/ Done \/ Age \/ Ends \/ Deliver

Spec == Init /\ [][Next]_vars

-----------------------------------------------------------------------------
TypeOK ==
    /\ up \in {"open", "finished", "done", "closed"} /\ called \subseteq Indices
    /\ given \in 0 .. MaxPieces /\ got \in 0 .. given
    /\ pending \in Chunks \cup {None}
    /\ {old, dropped, finished, usage, billed} \subseteq BOOLEAN
    /\ session \in States({<<>>}) \cup {None}
    /\ session # None => \A i \in Indices : session.calls[i] # None => i \in called
    /\ result \in {"running", "returned"}

\* Whatever the upstream sends in whatever order, the client reads a well-formed Claude
\* stream: blocks numbered without a gap, deltas only for open blocks, every block closed
\* before the message ends, the message ended once.
PromisesClaudeStream == CL!Spec

\* A finished answer has lost nothing: when the client has its message_stop, it has every
\* piece of text, of reasoning and of the calls' arguments the upstream sent, however they
\* were split and interleaved; and usage that came, even after the finish reason, is in what
\* the log is given.
NothingLost ==
    /\ phase = "ended" => got = given
    /\ result = "returned" /\ pending = None /\ ~dropped => usage = billed
=============================================================================
