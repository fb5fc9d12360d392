---------------------------- MODULE ChatDispatch ----------------------------
(***************************************************************************)
(* From a request's model name to the upstreams it is sent to              *)
(* (handlers/chat/resolution.go, chat.go, bypass.go): a name is an alias,  *)
(* "provider/model", or a combo, whose entries may be combos again; the    *)
(* provider decides whether the body is translated, and with which format  *)
(* the answer comes back.                                                  *)
(*                                                                         *)
(* An entry is a pair of a provider and a model; the provider of a bare    *)
(* name is "".                                                             *)
(***************************************************************************)
EXTENDS Naturals, Sequences, FiniteSets, SequencesExt

CONSTANTS Entries,     \* entries that requests, aliases and combos name
          AliasTables, \* functions from entries to what they are aliases of
          ComboTables, \* functions from bare entries to their [models, strategy]
          Nodes,       \* prefixes of provider nodes; the other providers are known ones
          Common,      \* those of openai, anthropic and deepseek with a connection, in order
          ClaudeSide,  \* claude and anthropic, which speak Claude's format
          None

Strategies == {"fallback", "fusion"}

VARIABLES aliases, combos, usable,  \* the tables; the nodes with a usable connection
          endpoint,  \* "chat" or "messages"
          name,      \* the model the request names
          synthetic, \* the body is one of Claude Code's synthetic ones (bypass.go)
          body,      \* its format
          info,      \* the resolved model, or None
          todo,      \* entries that may still be tried
          calls,     \* (history) upstream calls: the provider and the body's format
          answer     \* the format the client was answered in, "error", or None

vars == <<aliases, combos, usable, endpoint, name, synthetic, body, info, todo, calls, answer>>
tables == <<aliases, combos, usable, endpoint, name, synthetic>>

Init ==
    /\ aliases \in AliasTables /\ combos \in ComboTables /\ usable \in SUBSET Nodes
    /\ endpoint \in {"chat", "messages"} /\ name \in Entries /\ synthetic \in BOOLEAN
    /\ body = (IF endpoint = "chat" THEN "openai" ELSE "claude")
    /\ info = None /\ todo = {} /\ calls = {} /\ answer = None

-----------------------------------------------------------------------------
(* Resolution *)

Bare(e) == e[1] = ""

\* A node's model is pinned to a connection of the node, if one is usable.
Info(e) == [provider |-> e[1], model |-> e[2], pinned |-> e[1] \in usable,
            models |-> <<>>, strategy |-> ""]

Aliased(e) == e \in DOMAIN aliases /\ ~Bare(aliases[e])
IsCombo(e) == e \in DOMAIN combos

\* The same entry is not put twice in a row.
Put(out, e) == IF out # <<>> /\ Last(out) = e THEN out ELSE Append(out, e)

\* (a slip: of a combo inside a combo only the first model is taken)
FirstOnly(ms) == IF ms = <<>> THEN ms ELSE <<Head(ms)>>

Nested(ms) == ms

\* What an entry that is no combo stands for.
Leaf(e) == IF Bare(e) /\ Aliased(e) THEN aliases[e] ELSE e

\* The loop over ms, with what it puts after out; a combo that is being expanded is skipped
\* where it comes up again, and is seen no longer when its own loop is over.
Walk[seen \in SUBSET DOMAIN combos] ==
    [ms \in Seq(Entries) |-> [out \in Seq(Entries) |->
        LET pass[i \in 0 .. Len(ms)] ==
                IF i = 0 THEN out
                ELSE IF ms[i] \in seen THEN pass[i - 1]
                ELSE IF IsCombo(ms[i])
                THEN Walk[seen \cup {ms[i]}][Nested(combos[ms[i]].models)][pass[i - 1]]
                ELSE Put(pass[i - 1], Leaf(ms[i]))
        IN  pass[Len(ms)]]]

FlattenComboModels(ms) == Walk[{}][ms][<<>>]

\* An entry of a combo: a bare one is nothing, the flattened list has no combo in it.
ResolveModelEntry(e) == IF Bare(e) THEN None ELSE Info(e)

CommonProvider(e) == IF Common = <<>> THEN None ELSE [Info(e) EXCEPT !.provider = Head(Common)]

ResolveModel(e) ==
    IF Aliased(e) THEN Info(aliases[e])
    ELSE IF ~Bare(e) THEN Info(e)
    ELSE IF IsCombo(e) /\ combos[e].models # <<>>
    THEN LET flat  == FlattenComboModels(combos[e].models)
             first == IF Bare(flat[1]) THEN CommonProvider(flat[1]) ELSE Info(flat[1])
         IN  IF flat = <<>> THEN None
             ELSE IF first # None
             THEN [first EXCEPT !.models = flat, !.strategy = combos[e].strategy]
             ELSE CommonProvider(e)
    ELSE CommonProvider(e)

-----------------------------------------------------------------------------
(* The handlers *)

\* HandleChatCompletions answers a synthetic request itself; HandleMessages does not look.
Bypass ==
    /\ info = None /\ answer = None /\ endpoint = "chat" /\ synthetic
    /\ answer' = "openai"
    /\ UNCHANGED <<tables, body, info, todo, calls>>

Resolve ==
    /\ info = None /\ answer = None /\ ~(endpoint = "chat" /\ synthetic)
    /\ info' = ResolveModel(name)
    /\ IF info' = None THEN answer' = "error" /\ UNCHANGED <<body, todo>>
       ELSE /\ todo' = (IF info'.models = <<>> THEN {<<info'.provider, info'.model>>}
                        ELSE ToSet(info'.models))
            /\ body' = IF endpoint = "messages" /\ info'.provider \notin ClaudeSide THEN "openai"
                       ELSE body
            /\ UNCHANGED answer
    /\ UNCHANGED <<tables, calls>>

Speaks(p) == IF p \in ClaudeSide THEN "claude" ELSE "openai"

\* (a slip: the answer is translated whenever the endpoint is Claude's)
ByEndpoint == endpoint = "messages"

\* The handler of a Claude request looks at the provider, which of a combo is the first
\* model's; the loop over a combo's models does not.
TranslateResponse ==
    endpoint = "messages" /\ (info.provider \notin ClaudeSide \/ info.strategy = "fallback")

\* What becomes of an upstream's answer: translated it is Claude's, if it was OpenAI's.
Received(p) == IF ~TranslateResponse THEN Speaks(p)
               ELSE IF Speaks(p) = "openai" THEN "claude" ELSE "garbled"

\* One model: it answers, or its error is the request's.  Of a combo the next one is tried,
\* in an order the strategy decides; a bare entry resolves to nothing and is skipped.
Try ==
    /\ info # None /\ answer = None /\ info.strategy # "fusion"
    /\ \E e \in todo :
          /\ todo' = todo \ {e}
          /\ IF Bare(e) THEN UNCHANGED <<calls, answer>>
             ELSE /\ calls' = calls \cup {<<e[1], body>>}
                  /\ answer' \in {None, Received(e[1])}
    /\ UNCHANGED <<tables, body, info>>

\* All models are asked at once, the answers are read as OpenAI's.  The only one that
\* answered is asked again for the client; of several answers the first model is the judge.
Fuse ==
    /\ info # None /\ answer = None /\ info.strategy = "fusion"
    /\ LET asked == {e \in todo : ~Bare(e)}
           heard == {e \in asked : Speaks(e[1]) = "openai"}
       IN  /\ calls' = calls \cup {<<e[1], body>> : e \in asked}
           /\ \E answered \in SUBSET heard :
                 todo' = IF Cardinality(answered) > 1 THEN {info.models[1]} ELSE answered
    /\ info' = [info EXCEPT !.strategy = "judge"]
    /\ UNCHANGED <<tables, body, answer>>

Fail ==
    /\ info # None /\ answer = None /\ todo = {}
    /\ answer' = "error"
    /\ UNCHANGED <<tables, body, info, todo, calls>>

Next == Bypass \/ Resolve \/ Try \/ Fuse \/ Fail

Spec == Init /\ [][Next]_vars

-----------------------------------------------------------------------------
TypeOK ==
    /\ body \in {"openai", "claude"} /\ \A e \in todo : e \in Entries \/ e[2] = name[2]
    /\ info # None => info.strategy \in Strategies \cup {"judge", ""}
    /\ answer \in {"openai", "claude", "garbled", "error", None}

\* The entries that can be reached from a combo, however combos refer to each other: those
\* in every set of entries that has the combo and the models of the combos it has.
Complete(S) == \A c \in S \cap DOMAIN combos : ToSet(combos[c].models) \subseteq S
Reachable(e) == {d \in Entries : \A S \in SUBSET Entries : e \in S /\ Complete(S) => d \in S}

\* Rotation gets every model a combo can reach and no combo (resolution.go:197 "so rotation
\* covers every reachable model"), an alias inside a combo counts as what it stands for, and
\* none has two slots in a row.
CoversReachable ==
    info # None /\ info.models # <<>> =>
       /\ ToSet(info.models) = {Leaf(e) : e \in Reachable(name) \ DOMAIN combos}
       /\ \A i \in 2 .. Len(info.models) : info.models[i] # info.models[i - 1]

\* What a request may touch: the provider its body is made for, which for a first model that is a
\* bare name need not be one of the models', and those of its models that are no bare names.
Providers == {info.provider} \cup {e[1] : e \in {d \in ToSet(info.models) : ~Bare(d)}}

\* Formats meet: an upstream is sent the format it speaks and the client gets the one of its
\* endpoint.  This covers one model for a Claude client, and every request that meets no
\* Claude upstream; a combo with one on the Claude endpoint, and a Claude model on the
\* other, get bodies or answers of the wrong format.
FormatsMeet ==
    LET covered == \/ info = None
                   \/ Providers \cap ClaudeSide = {}
                   \/ endpoint = "messages" /\ info.models = <<>>
    IN  covered => /\ \A c \in calls : c[2] = Speaks(c[1])
                   /\ answer \in {None, "error", IF endpoint = "chat" THEN "openai" ELSE "claude"}
=============================================================================
