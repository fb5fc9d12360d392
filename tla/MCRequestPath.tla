---------------------------- MODULE MCRequestPath ----------------------------
(* What a request meets between the client and its upstream.  One behaviour   *)
(* is one of the parts below; the others stay at one fixed initial state.     *)
(* The instances:                                                             *)
(*  - the rotations of MCRotation;                                            *)
(*  - the error rules with the durations of the source, every status code the *)
(*    rules name, and texts of up to two phrases;                             *)
(*  - streams of two tool calls and two calls without an id; answers of two   *)
(*    calls and two pieces of text; conversations of two answers;             *)
(*  - reads that may end anywhere in two or three events;                     *)
(*  - schemas of two levels, names that are models, aliases, combos, nodes,   *)
(*    and three lines of an envelope.                                         *)
EXTENDS MCRotation, RequestParts

VARIABLES part, tool, schema

scVars == <<tool, schema>>

-----------------------------------------------------------------------------
Codes == {401, 404, 429, 500, 503}
Said == {"no credentials", "request not allowed", "improperly formed request", "rate limit",
         "too many requests", "quota exceeded", "capacity", "overloaded"}
Errors == {{}} \cup {{s, t} : s \in Said, t \in {"rate limit", "no credentials"}}

Declared == {{<<"a", 0>>, <<"a", 1>>}, {<<"run", 0>>}}
NativeOnes == {<<"run", 0>>}

B(e) == <<"", e>>
Named == {B("c1"), B("c2"), B("al"), <<"claude", "x">>, <<"node", "y">>}
Tables == {<<>>, B("al") :> <<"claude", "x">>, B("al") :> B("c2"),
           B("al") :> <<"node", "y">> @@ B("c2") :> <<"node", "y">>}
Lists == {<<>>} \cup {<<e>> : e \in Named} \cup {<<d, e>> : d, e \in Named}
Groups == {B("c1") :> [models |-> l, strategy |-> s]
           @@ B("c2") :> [models |-> <<B("c1"), B("al")>>, strategy |-> "fallback"]
           : l \in Lists, s \in {"fallback", "fusion"}}
CommonOnes == <<"openai">>

EventLengths == {<<3, 4, 3>>, <<4, 3>>}

SObj(m) == [t |-> "object", m |-> m]
SArr(e) == [t |-> "array", e |-> e]
SStr(s) == [t |-> "string", s |-> s]
SNum(s) == [t |-> "scalar", s |-> s]
Text == SStr("string")
Leaves ==
    {<<>>, [type |-> SArr(<<SStr("null"), Text>>)], [type |-> SStr("object")],
     [enum |-> SArr(<<SNum("1")>>), const |-> Text], [type |-> Text, format |-> Text],
     [anyOf |-> SArr(<<SObj([type |-> SStr("null")]), SObj([const |-> Text, type |-> Text])>>)],
     [oneOf |-> SArr(<<SObj([type |-> SStr("array"), items |-> SObj(<<>>)])>>), minItems |-> SNum("1")],
     [type |-> SStr("object"), properties |-> SObj([q |-> SObj([default |-> Text])]),
      required |-> SArr(<<SStr("q"), SStr("p")>>)]}
Branches ==
    {<<SObj([required |-> SArr(<<SStr("p")>>)])>>,
     <<SObj([type |-> SStr("null")]), SObj([oneOf |-> SArr(<<>>), not |-> SObj(<<>>)])>>}
Parameters == {<<>>} \cup {[properties |-> SObj([p |-> SObj(a)])] : a \in Leaves}
              \cup {[properties |-> SObj([p |-> SObj(a), q |-> SObj(b)])] : a, b \in Leaves}
Declares == {[type |-> SStr("object")], [type |-> SArr(<<SStr("object"), SStr("null")>>)]}
Requires == {<<>>, [required |-> SArr(<<SStr("p"), SStr("r")>>)]}
Options == {<<>>, [additionalProperties |-> SNum("false")]} \cup {[anyOf |-> SArr(b)] : b \in Branches}
Schemas == {a @@ b @@ c @@ d : a \in Parameters, b \in Declares, c \in Requires, d \in Options}

-----------------------------------------------------------------------------
SC == INSTANCE SchemaCleaning WITH Tools <- Schemas

Parts == {"rotation", "errors", "executor", "translation", "conversation", "framing", "schema",
          "dispatch", "qoder"}

AllInit ==
    /\ part \in Parts
    /\ Init /\ ER!Init
    /\ ES!Init /\ (part # "executor" => who = "codex")
    /\ ST!Init
    /\ TC!Init /\ (part # "conversation" => client = "claude" /\ tools = {<<"run", 0>>})
    /\ FR!Init /\ (part # "framing" => reader = "scan" /\ layout = <<4, 3>> /\ length = 0)
    /\ IF part = "schema" THEN SC!Init ELSE tool = <<>> /\ schema = tool
    /\ IF part = "dispatch" THEN CD!Init
       ELSE /\ aliases = <<>> /\ combos = <<>> /\ usable = {} /\ endpoint = "chat"
            /\ name = B("al") /\ synthetic = FALSE /\ body = "openai"
            /\ info = None /\ todo = {} /\ calls = {} /\ answer = None
    /\ QO!Init /\ (part # "qoder" => stream)

\* The variables of every part but p stay as they are.
Only(p) ==
    /\ part = p /\ part' = part
    /\ IF p = "rotation" THEN TRUE ELSE UNCHANGED vars
    /\ IF p = "errors" THEN TRUE ELSE UNCHANGED erVars
    /\ IF p = "executor" THEN TRUE ELSE UNCHANGED esVars
    /\ IF p = "translation" THEN TRUE ELSE UNCHANGED stVars
    /\ IF p = "conversation" THEN TRUE ELSE UNCHANGED tcVars
    /\ IF p = "framing" THEN TRUE ELSE UNCHANGED frVars
    /\ IF p = "schema" THEN TRUE ELSE UNCHANGED scVars
    /\ IF p = "dispatch" THEN TRUE ELSE UNCHANGED cdVars
    /\ IF p = "qoder" THEN TRUE ELSE UNCHANGED qoVars

AllNext ==
    \/ Only("rotation") /\ Next
    \/ Only("errors") /\ ER!Next
    \/ Only("executor") /\ ES!Next
    \/ Only("translation") /\ ST!Next
    \/ Only("conversation") /\ TC!Next
    \/ Only("framing") /\ FR!Next
    \/ Only("schema") /\ SC!Next
    \/ Only("dispatch") /\ CD!Next
    \/ Only("qoder") /\ QO!Next

AllVars == <<part, vars, erVars, esVars, stVars, tcVars, frVars, scVars, cdVars, qoVars>>

AllSpec == AllInit /\ [][AllNext]_AllVars

-----------------------------------------------------------------------------
\* Every part keeps its types.
AllTypesOK ==
    CASE part = "rotation"     -> TypeOK
      [] part = "errors"       -> ER!TypeOK
      [] part = "executor"     -> ES!TypeOK
      [] part = "translation"  -> ST!TypeOK
      [] part = "conversation" -> TC!TypeOK
      [] part = "framing"      -> FR!TypeOK
      [] part = "schema"       -> TRUE
      [] part = "dispatch"     -> CD!TypeOK
      [] part = "qoder"        -> QO!TypeOK

\* A cleaned schema is one that Gemini accepts.
SchemaAccepted == part = "schema" => SC!SchemaAccepted

=============================================================================
