------------------------ MODULE ConnectionStoreProofs ------------------------
(***************************************************************************)
(* The range of ClassifyError and what the updates of a row do, for every  *)
(* choice of the durations.                                                *)
(***************************************************************************)
EXTENDS ConnectionStore, TLAPS, WellFoundedInduction

\* A cooldown of GetQuotaCooldown is a number no larger than the cap.
LEMMA QuotaCooldownBound ==
    ASSUME NEW l \in Int
    PROVE  GetQuotaCooldown(l) \in Int /\ GetQuotaCooldown(l) <= MaxMs
  <1> DEFINE n == AtLeast(l - 1, 0)
             q == BaseMs * 2 ^ n
  <1>1. n \in Nat
    BY SMT DEF AtLeast
  <1>2. 2 ^ n \in Int
    BY <1>1, SMT
  <1>3. q \in Int
    BY <1>2, DurationAssumption, SMT
  <1> HIDE DEF q
  <1>4. AtMost(q, MaxMs) \in Int /\ AtMost(q, MaxMs) <= MaxMs
    BY <1>3, DurationAssumption, SMT DEF AtMost
  <1> QED
    BY <1>4 DEF q, GetQuotaCooldown

\* A nonempty set of naturals has a least element: the first rule that matches exists.
LEMMA LeastExists ==
    ASSUME NEW S \in SUBSET Nat, S # {}
    PROVE  \E i \in S : \A j \in S : i <= j
  <1>1. PICK i \in S : \A j \in S : ~ (<<j, i>> \in OpToRel(<, Nat))
    BY WFMin, NatLessThanWellFounded
  <1>2. \A j \in S : ~ (j < i)
    BY <1>1 DEF OpToRel
  <1> QED
    BY <1>2

\* What the table says of its thirteen rules.
LEMMA RuleCooldowns ==
    /\ DOMAIN ErrorRules = 1 .. 13
    /\ \A i \in 1 .. 13 : ErrorRules[i].ms \in {CooldownLong, CooldownShort, 0}
  <1> USE DEF ErrorRules, TextRule, StatusRule
  <1>1. DOMAIN ErrorRules = 1 .. 13
    BY Z3
  <1>2. ErrorRules[1].ms = CooldownLong   OBVIOUS
  <1>3. ErrorRules[2].ms = CooldownShort  OBVIOUS
  <1>4. ErrorRules[3].ms = CooldownLong   OBVIOUS
  <1>5. ErrorRules[4].ms = 0              OBVIOUS
  <1>6. ErrorRules[5].ms = 0              OBVIOUS
  <1>7. ErrorRules[6].ms = 0              OBVIOUS
  <1>8. ErrorRules[7].ms = 0              OBVIOUS
  <1>9. ErrorRules[8].ms = 0              OBVIOUS
  <1>10. ErrorRules[9].ms = CooldownLong  OBVIOUS
  <1>11. ErrorRules[10].ms = CooldownLong OBVIOUS
  <1>12. ErrorRules[11].ms = CooldownLong OBVIOUS
  <1>13. ErrorRules[12].ms = CooldownLong OBVIOUS
  <1>14. ErrorRules[13].ms = 0            OBVIOUS
  <1> HIDE DEF ErrorRules
  <1> QED
    BY <1>1, <1>2, <1>3, <1>4, <1>5, <1>6, <1>7, <1>8, <1>9, <1>10, <1>11, <1>12,
       <1>13, <1>14

\* A verdict never leaves the range of levels, nor the longest cooldown.
LEMMA ClassifyErrorBound ==
    ASSUME NEW s, NEW p, NEW l \in 0 .. MaxLevel
    PROVE  /\ ClassifyError(s, p, l).level \in 0 .. MaxLevel
           /\ ClassifyError(s, p, l).ms \in Int
           /\ ClassifyError(s, p, l).ms <= LongestMs
  <1> DEFINE hits == {i \in DOMAIN ErrorRules : Matches(ErrorRules[i], s, p)}
             first == CHOOSE i \in hits : \A j \in hits : i <= j
             next == AtMost(l + 1, MaxLevel)
  <1>1. next \in 0 .. MaxLevel
    BY DurationAssumption, SMT DEF AtMost
  <1>2. /\ MaxMs \in Int /\ MaxMs <= LongestMs
        /\ TransientMs \in Int /\ TransientMs <= LongestMs
        /\ CooldownLong \in Int /\ CooldownLong <= LongestMs
        /\ CooldownShort \in Int /\ CooldownShort <= LongestMs
        /\ LongestMs \in Int /\ 0 <= LongestMs
    BY DurationAssumption, SMT DEF LongestMs, AtLeast
  <1>3. GetQuotaCooldown(next) \in Int /\ GetQuotaCooldown(next) <= LongestMs
    BY <1>1, <1>2, QuotaCooldownBound, DurationAssumption, SMT
  <1>4. CASE hits = {}
    BY <1>4, <1>2 DEF ClassifyError, Verdict
  <1>5. CASE hits # {}
    <2>1. hits \in SUBSET Nat /\ \A i \in hits : i \in 1 .. 13
      BY RuleCooldowns
    <2>2. first \in hits
      BY <2>1, <1>5, LeastExists
    <2>3. ErrorRules[first].ms \in {CooldownLong, CooldownShort, 0}
      BY <2>1, <2>2, RuleCooldowns
    <2>4. ClassifyError(s, p, l) = IF ErrorRules[first].backoff
                                   THEN Verdict(GetQuotaCooldown(next), next)
                                   ELSE Verdict(ErrorRules[first].ms, l)
      BY <1>5 DEF ClassifyError
    <2> QED
      BY <2>3, <2>4, <1>1, <1>2, <1>3 DEF Verdict
  <1> QED BY <1>4, <1>5

\* Rounding a cooldown up to seconds keeps it below the longest one rounded up.
LEMMA CooldownSecBound ==
    ASSUME NEW x \in Int, x <= LongestMs
    PROVE  CooldownSec(x) \in Int /\ CooldownSec(x) <= CooldownSec(LongestMs)
  <1>1. LongestMs \in Int
    BY DurationAssumption, SMT DEF LongestMs, AtLeast
  <1> QED
    BY <1>1, SMT DEF CooldownSec

-----------------------------------------------------------------------------
\* The three updates keep a row a row.
LEMMA UnlockRow ==
    ASSUME NEW x \in Row, NEW m \in Models
    PROVE  /\ UnlockConnectionModel(x, m) \in Row
           /\ UnlockConnectionModel(x, m).lock = [x.lock EXCEPT ![m] = NoLock]
           /\ UnlockConnectionModel(x, m).level = 0
  <1>1. 0 \in 0 .. MaxLevel
    BY DurationAssumption
  <1>2. UnlockConnectionModel(x, m) \in Row
    BY <1>1 DEF Row, UnlockConnectionModel
  <1>3. UnlockConnectionModel(x, m).lock = [x.lock EXCEPT ![m] = NoLock]
    BY DEF Row, UnlockConnectionModel
  <1>4. UnlockConnectionModel(x, m).level = 0
    BY DEF Row, UnlockConnectionModel
  <1> QED
    BY <1>2, <1>3, <1>4

LEMMA LockRow ==
    ASSUME NEW x \in Row, NEW m \in Models, NEW u \in Int, NEW l \in 0 .. MaxLevel
    PROVE  /\ LockConnectionModel(x, m, u, l) \in Row
           /\ LockConnectionModel(x, m, u, l).lock = [x.lock EXCEPT ![m] = u]
           /\ LockConnectionModel(x, m, u, l).level = l
  <1>1. LockConnectionModel(x, m, u, l) \in Row
    BY DEF Row, LockConnectionModel
  <1> QED
    BY <1>1 DEF Row, LockConnectionModel

LEMMA MergeRow ==
    ASSUME NEW x \in Row, NEW t \in Nat, NEW e \in Int
    PROVE  /\ MergeToken(x, t, e) \in Row
           /\ MergeToken(x, t, e).lock = x.lock /\ MergeToken(x, t, e).level = x.level
  BY DEF Row, MergeToken
=============================================================================
