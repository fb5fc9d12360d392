--------------------------- MODULE SchemaCleaning ---------------------------
(***************************************************************************)
(* What becomes of a tool's parameter schema before Gemini or Antigravity  *)
(* sees it (internal/translator/schema.go).  cleanGeminiSchema takes out   *)
(* what Google's parser rejects, and does so at every level; the pass over *)
(* one level is a sequence of rewritings, each of which may undo an        *)
(* earlier one.                                                            *)
(*                                                                         *)
(* A schema is a function from its keywords to tagged values: an object,   *)
(* an array, a string, or a scalar that is no string.                      *)
(***************************************************************************)
EXTENDS Naturals, Sequences, FiniteSets

CONSTANTS Tools  \* the parameter schemas clients declare

Obj(m) == [t |-> "object", m |-> m]
Arr(e) == [t |-> "array", e |-> e]
Str(s) == [t |-> "string", s |-> s]
Scalar(s) == [t |-> "scalar", s |-> s]

VARIABLES tool,   \* the schema as the client declares it
          schema  \* as it goes to the upstream, or the same before it is cleaned

vars == <<tool, schema>>

Init == tool \in Tools /\ schema = tool

-----------------------------------------------------------------------------
\* Keywords rejected by Gemini, and one of the vendor extensions ("x-").
Unsupported ==
    {"minLength", "maxLength", "exclusiveMinimum", "exclusiveMaximum", "minItems", "maxItems",
     "format", "multipleOf", "uniqueItems", "contains", "unevaluatedProperties",
     "unevaluatedItems", "contentSchema", "default", "examples", "$schema", "$defs",
     "definitions", "const", "$ref", "$comment", "deprecated", "readOnly", "writeOnly",
     "additionalProperties", "propertyNames", "patternProperties", "enumDescriptions", "allOf",
     "not", "dependencies", "dependentSchemas", "dependentRequired", "title", "optional", "if",
     "then", "else", "contentMediaType", "contentEncoding", "cornerRadius", "fillColor",
     "fontFamily", "fontSize", "fontWeight", "gap", "padding", "strokeColor",
     "strokeThickness", "textColor", "x-order"}

Has(s, k) == k \in DOMAIN s
Without(s, ks) == [k \in DOMAIN s \ ks |-> s[k]]
Set(s, k, v) == [j \in DOMAIN s \cup {k} |-> IF j = k THEN v ELSE s[j]]
Is(s, k, tag) == Has(s, k) /\ s[k].t = tag

StripUnsupported(s) == Without(s, Unsupported)

\* (a slip: what a branch brings in is not stripped again)
LeavesBranch(s) == s

Restrip(s) == StripUnsupported(s)

Typed(s) == IF Has(s, "properties") /\ ~Has(s, "type") THEN Set(s, "type", Str("object")) ELSE s

EnumStrings(s) ==
    IF ~Is(s, "enum", "array") THEN s
    ELSE LET e == s["enum"].e
             strings == Set(s, "enum", Arr([i \in DOMAIN e |-> Str(e[i].s)]))
         IN  IF Has(s, "type") THEN strings ELSE Set(strings, "type", Str("string"))

\* The first branch that is not just null, merged over the schema.
Flatten(s, key) ==
    LET null(b) == Has(b.m, "type") /\ b.m["type"] = Str("null")
        branches == SelectSeq(s[key].e, LAMBDA b : b.t = "object" /\ ~null(b))
        branch == IF branches = <<>> THEN <<>> ELSE Head(branches).m
        merged == [k \in DOMAIN s \cup DOMAIN branch |->
                      IF k \in DOMAIN branch THEN branch[k] ELSE s[k]]
    IN  IF ~Has(s, key) THEN s
        ELSE IF s[key].t # "array" THEN Without(s, {key}) ELSE Without(merged, {key})

OneType(s) ==
    LET valid == SelectSeq(s["type"].e, LAMBDA v : v.t = "string" /\ v # Str("null"))
    IN  IF ~Is(s, "type", "array") \/ s["type"].e = <<>> THEN s
        ELSE Set(s, "type", IF valid = <<>> THEN Str("string") ELSE Head(valid))

Required(s) ==
    LET listed == IF Is(s, "properties", "object") /\ Is(s, "required", "array")
                  THEN SelectSeq(s["required"].e,
                                 LAMBDA v : v.t = "string" /\ Has(s["properties"].m, v.s))
                  ELSE <<>>
    IN  IF ~Has(s, "required") THEN s
        ELSE IF listed = <<>> THEN Without(s, {"required"}) ELSE Set(s, "required", Arr(listed))

Reason == [k \in {"reason"} |-> Obj([type |-> Str("string"), description |-> Str("text")])]
WithReason(s) == Set(Set(s, "properties", Obj(Reason)), "required", Arr(<<Str("reason")>>))

Placeholder(s) ==
    IF Has(s, "type") /\ s["type"] = Str("object")
       /\ ~(Is(s, "properties", "object") /\ DOMAIN s["properties"].m # {})
    THEN WithReason(s)
    ELSE IF DOMAIN s = {} THEN Set(WithReason(s), "type", Str("object")) ELSE s

\* One level.  The first of the two keys that are flattened may bring in the second.
Level(s) ==
    LET typed == EnumStrings(Typed(StripUnsupported(s)))
        flat  == Restrip(Flatten(Flatten(typed, "anyOf"), "oneOf"))
    IN  Placeholder(Required(OneType(flat)))

\* Then all that it holds, the table of the parameters as if it were a schema itself.
RECURSIVE CleanGeminiSchema(_)
CleanGeminiSchema(s) ==
    LET top == Level(s)
        clean(v) == IF v.t = "object" THEN Obj(CleanGeminiSchema(v.m)) ELSE v
    IN  [k \in DOMAIN top |->
            IF top[k].t = "array" THEN Arr([i \in DOMAIN top[k].e |-> clean(top[k].e[i])])
            ELSE clean(top[k])]

\* CleanParametersSchema, for every tool of a request (SanitizeOpenAITools and the Gemini
\* translation); cleaning what was cleaned is a step too, a request may pass it twice.
CleanParametersSchema == schema' = CleanGeminiSchema(schema) /\ UNCHANGED tool

Next == CleanParametersSchema

Spec == Init /\ [][Next]_vars

-----------------------------------------------------------------------------
\* What Gemini accepts, as the comments of schema.go have it: at no level an unsupported
\* keyword or an alternative, one type, an object has parameters, and "required" names some
\* of them (schema.go:123 "must only contain keys present in properties").
RECURSIVE Accepted(_)
Accepted(s) ==
    /\ DOMAIN s # {} /\ DOMAIN s \cap (Unsupported \cup {"anyOf", "oneOf"}) = {}
    /\ Has(s, "type") => s["type"].t = "string"
    /\ Has(s, "type") /\ s["type"] = Str("object") =>
          Is(s, "properties", "object") /\ DOMAIN s["properties"].m # {}
    /\ Has(s, "required") =>
          \A i \in DOMAIN s["required"].e : Has(s["properties"].m, s["required"].e[i].s)
    /\ Is(s, "properties", "object") =>
          \A p \in DOMAIN s["properties"].m : Accepted(s["properties"].m[p].m)
    /\ Is(s, "items", "object") => Accepted(s["items"].m)

\* Before the cleaning nothing is asked.  The tool keeps its parameters: those it declares
\* itself are those of the cleaned schema, however often it was cleaned.
SchemaAccepted ==
    schema # tool =>
       /\ Accepted(schema)
       /\ Is(tool, "properties", "object") /\ DOMAIN tool["properties"].m # {} =>
             DOMAIN schema["properties"].m = DOMAIN tool["properties"].m
=============================================================================
