---------------------------- MODULE ErrorClassify ----------------------------
(***************************************************************************)
(* How an upstream failure is turned into a cooldown and a backoff level   *)
(* (internal/providers/errorclassify.go).  The durations are constants so  *)
(* that the state machines that use these operators can be checked with    *)
(* short cooldowns; MCRequestPath gives them the values of the source.     *)
(* An error text is abstracted to the set of rule phrases it contains.     *)
(***************************************************************************)
EXTENDS Integers, Sequences

CONSTANTS
    BaseMs,          \* BackoffConfig.BaseMs
    MaxMs,           \* BackoffConfig.MaxMs
    MaxLevel,        \* BackoffConfig.MaxLevel
    CooldownLong,    \* cooldownLong
    CooldownShort,   \* cooldownShort
    TransientMs      \* TransientCooldownMs

TextRule(text, backoff, ms) ==
    [text |-> text, status |-> 0, backoff |-> backoff, ms |-> ms]

StatusRule(status, backoff, ms) ==
    [text |-> "", status |-> status, backoff |-> backoff, ms |-> ms]

\* Checked top to bottom: phrases first, then status codes.
ErrorRules == <<
    TextRule("no credentials",            FALSE, CooldownLong),
    TextRule("request not allowed",       FALSE, CooldownShort),
    TextRule("improperly formed request", FALSE, CooldownLong),
    TextRule("rate limit",                TRUE,  0),
    TextRule("too many requests",         TRUE,  0),
    TextRule("quota exceeded",            TRUE,  0),
    TextRule("capacity",                  TRUE,  0),
    TextRule("overloaded",                TRUE,  0),
    StatusRule(401, FALSE, CooldownLong),
    StatusRule(402, FALSE, CooldownLong),
    StatusRule(403, FALSE, CooldownLong),
    StatusRule(404, FALSE, CooldownLong),
    StatusRule(429, TRUE,  0) >>

Phrases == {ErrorRules[i].text : i \in DOMAIN ErrorRules} \ {""}

\* The status codes that trigger account fallback.
RetryableStatusCodes == {401, 403, 429, 502, 503, 504}

AtMost(a, b) == IF a <= b THEN a ELSE b
AtLeast(a, b) == IF a >= b THEN a ELSE b

GetQuotaCooldown(level) ==
    AtMost(BaseMs * 2 ^ AtLeast(level - 1, 0), MaxMs)

Matches(rule, status, phrases) ==
    \/ rule.text \in phrases
    \/ rule.status # 0 /\ rule.status = status

Verdict(ms, level) == [ms |-> ms, level |-> level]

\* (slips: the last rule that matches decides; the level is not capped)
LastRuleDecides(status, phrases, level) ==
    LET hits == {i \in DOMAIN ErrorRules : Matches(ErrorRules[i], status, phrases)}
        rule == ErrorRules[CHOOSE i \in hits : \A j \in hits : i >= j]
        next == AtMost(level + 1, MaxLevel)
    IN  IF hits = {} THEN Verdict(TransientMs, level)
        ELSE IF rule.backoff THEN Verdict(GetQuotaCooldown(next), next)
        ELSE Verdict(rule.ms, level)

LevelUncapped(status, phrases, level) ==
    IF status = 429 THEN Verdict(GetQuotaCooldown(level + 1), level + 1)
    ELSE Verdict(TransientMs, level)

\* The first rule that matches decides; without one the error is transient.
ClassifyError(status, phrases, level) ==
    LET hits == {i \in DOMAIN ErrorRules : Matches(ErrorRules[i], status, phrases)}
        rule == ErrorRules[CHOOSE i \in hits : \A j \in hits : i <= j]
        next == AtMost(level + 1, MaxLevel)
    IN  IF hits = {} THEN Verdict(TransientMs, level)
        ELSE IF rule.backoff THEN Verdict(GetQuotaCooldown(next), next)
        ELSE Verdict(rule.ms, level)

\* No verdict cools for longer than this.
LongestMs == AtLeast(AtLeast(MaxMs, TransientMs), AtLeast(CooldownLong, CooldownShort))

\* LockConnectionModel takes whole seconds: the callers round the cooldown up.
CooldownSec(ms) == (ms + 999) \div 1000
=============================================================================
