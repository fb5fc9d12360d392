--------------------------- MODULE ToolConversation ---------------------------
(***************************************************************************)
(* A conversation with tool calls between a client and Antigravity.  The   *)
(* proxy keeps nothing between two requests: every request carries the     *)
(* whole conversation, which the proxy translates again - a Claude one to  *)
(* OpenAI messages (translator/request.go), those to Gemini contents       *)
(* (translator/gemini.go), whose tool names it cloaks                      *)
(* (translator/antigravity.go) - and each answer goes the way back         *)
(* (TranslateGeminiResponseToOpenAI, translator/response.go).              *)
(*                                                                         *)
(* A tool name is a pair: the name proper and how often "_ide" follows it. *)
(* The id of a call is what the code builds it from: name, number, tag.    *)
(***************************************************************************)
EXTENDS Naturals, Sequences, FiniteSets, SequencesExt, Filters

CONSTANTS ToolSets,    \* sets of tools a client may declare
          Native,      \* AntigravityNativeToolNames
          Signatures,  \* thought signatures
          MaxTurns,    \* bound: answers in a conversation
          MaxCalls,    \* bound: calls in an answer
          None, Default

VARIABLES client,   \* "claude" or "openai"
          tools,    \* the tools the client declares
          history,  \* the client's messages, in OpenAI's or Claude's format
          offered,  \* the calls the client was given and has not answered
          made      \* (history) the calls as the upstream made them

vars == <<client, tools, history, offered, made>>

Message == [role |-> "user", text |-> FALSE, think |-> FALSE, calls |-> <<>>, results |-> <<>>]
User(text, results) == [Message EXCEPT !.text = text, !.results = results]
Tool(id) == [Message EXCEPT !.role = "tool", !.results = <<id>>]

Init ==
    /\ client \in {"claude", "openai"} /\ tools \in ToolSets
    /\ history = <<>> /\ offered = <<>> /\ made = <<>>

-----------------------------------------------------------------------------
(* Claude to OpenAI *)

Tools(ids) == [k \in DOMAIN ids |-> Tool(ids[k])]

\* Results become messages of their own, before the text; thinking is kept with calls only.
ConvertClaudeMessage(m) ==
    IF m.results # <<>> THEN Tools(m.results) \o (IF m.text THEN <<User(TRUE, <<>>)>> ELSE <<>>)
    ELSE IF m.calls # <<>> THEN <<m>>
    ELSE IF m.text THEN <<[m EXCEPT !.think = FALSE]>>
    ELSE <<>>

\* What an assistant's calls still lack, in their order.
Missing(calls, answered) ==
    LET left == Kept(calls, {c \in ToSet(calls) : c.id \notin answered})
    IN  [k \in DOMAIN left |-> Tool(left[k].id)]

\* The messages done so far; the calls whose answers may come next and those that have come.
Answered(s, m) == [s EXCEPT !.done = Append(@, m), !.answered = @ \cup {m.results[1]}]

\* (a slip: an id counts as answered for good, although a later call may have the same)
AnsweredForGood(s, m) ==
    [done |-> Append(s.done \o Missing(s.calls, s.answered), m), calls |-> m.calls,
     answered |-> s.answered]

Others(s, m) ==
    [done |-> Append(s.done \o Missing(s.calls, s.answered), m), calls |-> m.calls,
     answered |-> {}]

Settled(ms) ==
    LET pass[j \in 0 .. Len(ms)] ==
            IF j = 0 THEN [done |-> <<>>, calls |-> <<>>, answered |-> {}]
            ELSE IF ms[j].role = "tool" THEN Answered(pass[j - 1], ms[j])
            ELSE Others(pass[j - 1], ms[j])
    IN  pass[Len(ms)]

\* After the tool messages that follow a message's calls comes one for each call that has none.
FixMissingToolResponses(ms) ==
    Settled(ms).done \o Missing(Settled(ms).calls, Settled(ms).answered)

\* An OpenAI client has sent such messages itself, one for each result.
OwnMessages(m) ==
    IF m.results = <<>> THEN <<m>>
    ELSE Tools(m.results) \o (IF m.text THEN <<User(TRUE, <<>>)>> ELSE <<>>)

OpenAIMessages ==
    IF client = "claude"
    THEN FixMissingToolResponses(
             Joined([k \in DOMAIN history |-> ConvertClaudeMessage(history[k])]))
    ELSE Joined([k \in DOMAIN history |-> OwnMessages(history[k])])

-----------------------------------------------------------------------------
(* OpenAI to Gemini *)

\* cleanID: the id without its tag.
Clean(id) == [id EXCEPT !.tag = None]

\* tcID2Name holds a name under the whole id and under the cleaned one, the latest call's;
\* the name in the id is the last resort.
NameOf(calls, id) ==
    LET under(i) == Kept(calls, {c \in ToSet(calls) : i \in {c.id, Clean(c.id)}})
    IN  IF under(id) # <<>> THEN Last(under(id)).name
        ELSE IF under(Clean(id)) # <<>> THEN Last(under(Clean(id))).name
        ELSE id.name

Part(kind, name, sig) == [kind |-> kind, name |-> name, sig |-> sig]
OneIf(b, part) == IF b THEN <<part>> ELSE <<>>

\* A call without a signature gets DefaultThinkingSignature.
Signature(id) == IF id.tag = None THEN Default ELSE id.tag

Content(calls, m) ==
    CASE m.role = "user" -> [role |-> "user", parts |-> OneIf(m.text, Part("text", None, None))]
      [] m.role = "tool" -> [role  |-> "user",
                             parts |-> <<Part("result", NameOf(calls, m.results[1]), None)>>]
      [] OTHER ->
            [role  |-> "model",
             parts |-> OneIf(m.think, Part("thought", None, None))
                       \o OneIf(m.text, Part("text", None, None))
                       \o [k \in DOMAIN m.calls |->
                              Part("call", m.calls[k].name, Signature(m.calls[k].id))]]

TranslateOpenAIToGemini(ms) ==
    LET calls    == Joined([k \in DOMAIN ms |-> ms[k].calls])
        contents == [k \in DOMAIN ms |-> Content(calls, ms[k])]
    IN  Kept(contents, {c \in ToSet(contents) : c.parts # <<>>})

-----------------------------------------------------------------------------
(* Cloaking *)

Cloak(name) == IF name \in Native THEN name ELSE <<name[1], name[2] + 1>>

\* (a slip: every "_ide" is taken off)
UncloakAll(name) == <<name[1], 0>>

UncloakToolName(name) == IF name[2] = 0 THEN name ELSE <<name[1], name[2] - 1>>

\* The declarations the upstream sees; the native ones are there as decoys in any case.
Declared == {Cloak(t) : t \in tools} \cup Native

CloakPart(p) == IF p.kind \in {"call", "result"} THEN [p EXCEPT !.name = Cloak(@)] ELSE p
CloakAntigravityRequest(cs) ==
    [k \in DOMAIN cs |->
        [cs[k] EXCEPT !.parts = [j \in DOMAIN cs[k].parts |-> CloakPart(cs[k].parts[j])]]]

\* What the upstream is sent.
Sent == CloakAntigravityRequest(TranslateOpenAIToGemini(OpenAIMessages))

-----------------------------------------------------------------------------
(* The way back *)

\* (a slip: the signature does not become part of the id)
UntaggedId(name, k, sig) == [name |-> name, number |-> k - 1, tag |-> None]

\* call_<name>_<number>, and the signature when there is one.
CallId(name, k, sig) == [name |-> name, number |-> k - 1, tag |-> sig]

\* The upstream's calls as the client is given them.  A Claude client gets the same ids.
TranslateGeminiResponse(calls) ==
    [k \in DOMAIN calls |->
        LET name == UncloakToolName(calls[k].name)
        IN  [id |-> CallId(name, k, calls[k].sig), name |-> name]]

-----------------------------------------------------------------------------
(* The conversation *)

\* The user says something; tool calls that were offered stay unanswered, which only a
\* Claude client may do.
Say ==
    /\ history # <<>> => Last(history).role = "assistant"
    /\ (client = "claude" \/ offered = <<>>)
    /\ history' = Append(history, User(TRUE, <<>>)) /\ offered' = <<>>
    /\ UNCHANGED <<client, tools, made>>

\* The client answers calls, in an order of its own, a Claude one not always all of them.
Respond ==
    /\ offered # <<>>
    /\ \E answers \in (SUBSET ToSet(offered)) \ {{}}, text \in BOOLEAN :
          /\ client = "openai" => answers = ToSet(offered)
          /\ \E order \in SetToSeqs(answers) :
                history' = Append(history, User(text, [k \in DOMAIN order |-> order[k].id]))
    /\ offered' = <<>>
    /\ UNCHANGED <<client, tools, made>>

Answers == UNION {[1 .. n -> [name : {Cloak(t) : t \in tools}, sig : Signatures \cup {None}]] :
                      n \in 0 .. MaxCalls}

\* The upstream answers: thinking or text, and calls of the client's tools by the names it
\* was told.
Answer ==
    /\ history # <<>> /\ Last(history).role = "user"
    /\ Cardinality({k \in DOMAIN history : history[k].role = "assistant"}) < MaxTurns
    /\ \E calls \in Answers, think \in BOOLEAN :
          LET got == TranslateGeminiResponse(calls)
          IN  /\ history' = Append(history, [Message EXCEPT !.role = "assistant", !.think = think,
                                                            !.text = ~think, !.calls = got])
              /\ offered' = got
              /\ made' = made \o calls
    /\ UNCHANGED <<client, tools>>

Next == Say \/ Respond \/ Answer

Spec == Init /\ [][Next]_vars

-----------------------------------------------------------------------------
TypeOK ==
    /\ client \in {"claude", "openai"} /\ tools \in ToolSets
    /\ \A k \in DOMAIN history : history[k].role \in {"user", "assistant"}
    /\ Len(made) <= MaxTurns * MaxCalls

\* A request is under way.
Asked == history # <<>> /\ Last(history).role = "user"

Parts(cs, kind) ==
    Joined([k \in DOMAIN cs |-> Kept(cs[k].parts, {p \in ToSet(cs[k].parts) : p.kind = kind})])

\* The model is shown its own calls: whatever was said since, the calls in the contents are
\* those it made, in order, by the names it knows, each with its own signature when it had
\* one (CHANGELOG.md:250 "thought_signature round-trip"); and the client was never given a
\* call of a tool it had not declared.
CallsReturn ==
    /\ Asked => Parts(Sent, "call") =
                   [k \in DOMAIN made |-> Part("call", made[k].name,
                                               IF made[k].sig = None THEN Default ELSE made[k].sig)]
    /\ \A k \in DOMAIN offered : offered[k].name \in tools

\* Each call is answered where it was made: the contents right after a content with calls
\* hold one result per call, under the calls' names, whichever of them the client left out,
\* and no result is anywhere else (CHANGELOG.md:252 "Tool response name fix").
ResultsFollowCalls ==
    Asked =>
    LET cs         == Sent
        result(j)  == cs[j].parts[1].kind = "result"
        results(k) == {j \in DOMAIN cs : j > k /\ \A l \in k + 1 .. j : result(l)}
        called(k, n) == {p \in DOMAIN cs[k].parts : cs[k].parts[p].kind = "call" /\ cs[k].parts[p].name = n}
    IN  /\ \A k \in DOMAIN cs : cs[k].role = "model" =>
              \A n \in Declared :
                  Cardinality({j \in results(k) : cs[j].parts[1].name = n}) = Cardinality(called(k, n))
        /\ Cardinality({j \in DOMAIN cs : result(j)}) = Len(made)
=============================================================================
