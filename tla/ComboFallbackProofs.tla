------------------------- MODULE ComboFallbackProofs -------------------------
(***************************************************************************)
(* What holds of ComboFallback for every list of entries, every set of     *)
(* accounts and any number of requests.                                    *)
(***************************************************************************)
EXTENDS ComboFallback, ConnectionStoreProofs

\* Where a request stands determines which of its locals are in use.
LocalOK(r) ==
    /\ pc[r] \notin {"idle", "entry", "wait", "done"} => at[r] \in 1 .. Len(Entries)
    /\ pc[r] \in {"pick", "check", "forward", "await", "level", "lock"} =>
          attempts[r] < MaxAttempts
    /\ pc[r] = "check" => cur[r] \in Conns
    /\ pc[r] = "forward" => cur[r] = NoConn
    /\ pc[r] = "await" => cur[r] \in Conns \cup {NoConn}
    /\ pc[r] \in {"level", "lock"} => cur[r] \in Conns /\ failure[r] \in Failures

LocalsOK == \A r \in Reqs : LocalOK(r)

TypeInv == TypeOK /\ LocalsOK

\* The accounts this request has locked are among the excluded ones, and an account that
\* was chosen from a list was not excluded when it was chosen; nobody but the request
\* itself excludes accounts, so it still is not when it is forwarded to.
ChoiceOK(r) ==
    /\ Burnt(r) \subseteq excluded[r]
    /\ pc[r] = "check" /\ pin[r] = None => cur[r] \notin excluded[r]

ChoiceInv == \A r \in Reqs : ChoiceOK(r)

AnswerOK(r) == pc[r] = "done" /\ ~gone[r] => committed[r]

-----------------------------------------------------------------------------
(* Types.                                                                    *)

LEMMA EntryOK ==
    ASSUME NEW i \in 1 .. Len(Entries)
    PROVE  /\ Entries[i].model \in Models /\ Entries[i].conns \subseteq Conns
           /\ Entries[i].kind \in Kinds
  <1> DEFINE T == [model : Models, conns : SUBSET Conns, kind : Kinds]
  <1>1. Entries \in Seq(T)
    BY ComboAssumption
  <1> HIDE DEF T
  <1>2. Entries[i] \in T
    BY <1>1
  <1> QED
    BY <1>2 DEF T

LEMMA InitTypeInv == Init => TypeInv
  <1> SUFFICES ASSUME Init PROVE TypeInv
    OBVIOUS
  <1>1. 0 \in 0 .. MaxLevel /\ 0 \in 0 .. MaxTime /\ 0 \in 0 .. MaxAttempts
        /\ 1 \in 1 .. Len(Entries) + 1
    BY DurationAssumption, ComboAssumption
  <1>2. row \in [Conns -> Row]
    BY <1>1 DEF Init, NewRow, Row
  <1> QED
    BY <1>1, <1>2 DEF Init, TypeInv, TypeOK, LocalsOK, LocalOK

LEMMA StepTypeInv == TypeInv /\ [Next]_vars => TypeInv'
  <1> SUFFICES ASSUME TypeInv, [Next]_vars PROVE TypeInv'
    OBVIOUS
  <1> USE ComboAssumption DEF TypeInv, TypeOK, LocalsOK, LocalOK
  <1>0. Len(Entries) \in Nat
    OBVIOUS
  <1> USE <1>0
  <1>1. CASE UNCHANGED vars
    BY <1>1 DEF vars, entryVars, lockVars, passVars, ansVars
  <1>2. CASE Tick
    BY <1>2 DEF Tick, entryVars, lockVars, passVars, ansVars
  <1> USE DEF entryVars, lockVars, passVars, ansVars, Goto
  \* Going on to the next entry or to the next attempt, whatever else the step records.
  <1>a. ASSUME NEW r \in Reqs, at[r] \in 1 .. Len(Entries), NextEntry(r) \/ Finish(r),
               UNCHANGED <<now, gone, pass, excluded, wake, burnt, lockVars>>,
               row' \in [Conns -> Row], lastErr' \in [Reqs -> Nat \cup {None}],
               retryAt' \in [Reqs -> Nat \cup {None}], seen' \in [Reqs -> SUBSET Nat],
               committed' \in [Reqs -> BOOLEAN], answer' \in [Reqs -> Nat \cup {None}]
        PROVE  TypeInv'
    <2>1. CASE NextEntry(r)
      BY <1>a, <2>1, SMTT(30) DEF NextEntry, Forget
    <2>2. CASE Finish(r)
      BY <1>a, <2>2 DEF Finish, Forget
    <2> QED
      BY <1>a, <2>1, <2>2
  <1>b. ASSUME NEW r \in Reqs, at[r] \in 1 .. Len(Entries), attempts[r] < MaxAttempts,
               NextAttempt(r),
               UNCHANGED <<row, now, gone, pass, excluded, wake, burnt, lockVars, answer>>,
               lastErr' \in [Reqs -> Nat \cup {None}],
               retryAt' \in [Reqs -> Nat \cup {None}], seen' \in [Reqs -> SUBSET Nat],
               committed' \in [Reqs -> BOOLEAN]
        PROVE  TypeInv'
    BY <1>b, SMTT(30) DEF NextAttempt
  <1>3. ASSUME NEW r \in Reqs, Arrive(r) PROVE TypeInv'
    BY <1>3 DEF Arrive
  <1>4. ASSUME NEW r \in Reqs, Disconnect(r) PROVE TypeInv'
    BY <1>4 DEF Disconnect
  <1>5. ASSUME NEW r \in Reqs, Unresolved(r) PROVE TypeInv'
    <2>1. at[r] \in 1 .. Len(Entries)
      BY <1>5 DEF Unresolved
    <2> QED
      BY <1>a, <1>5, <2>1 DEF Unresolved
  <1>6. ASSUME NEW r \in Reqs, Resolve(r) PROVE TypeInv'
    BY <1>6, EntryOK DEF Resolve, Scan, Entry
  <1>7. ASSUME NEW r \in Reqs, SkipRow(r) PROVE TypeInv'
    BY <1>7 DEF SkipRow
  <1>8. ASSUME NEW r \in Reqs, Pin(r) PROVE TypeInv'
    <2>1. at[r] \in 1 .. Len(Entries) /\ Entry(r).conns \subseteq Conns
      BY <1>8, EntryOK DEF Pin, Entry
    <2>2. PICK c \in Conns : pin' = [pin EXCEPT ![r] = c]
      BY <1>8 DEF Pin, First
    <2> QED
      BY <1>8, <2>1, <2>2 DEF Pin, Scan
  <1>9. ASSUME NEW r \in Reqs, NotPinned(r) PROVE TypeInv'
    <2>1. at[r] \in 1 .. Len(Entries) /\ (NextEntry(r) \/ Finish(r))
      BY <1>9 DEF NotPinned, EntryOver
    <2> QED
      BY <1>a, <1>9, <2>1 DEF NotPinned
  <1>10. ASSUME NEW r \in Reqs, Available(r) PROVE TypeInv'
    BY <1>10 DEF Available, Scanned
  <1>11. ASSUME NEW r \in Reqs, Unavailable(r) PROVE TypeInv'
    <2>1. at[r] \in 1 .. Len(Entries)
      BY <1>11 DEF Unavailable
    <2>2. lastErr' = [lastErr EXCEPT ![r] = IF @ = None THEN 429 ELSE @]
      BY <1>11 DEF Unavailable
    <2>3. lastErr' \in [Reqs -> Nat \cup {None}]
      BY <2>2
    <2> QED
      BY <1>a, <1>11, <2>1, <2>3 DEF Unavailable
  <1>12. ASSUME NEW r \in Reqs, Attempt(r) PROVE TypeInv'
    <2>1. CASE Entry(r).kind = "noauth"
      <3>1. /\ cur' = [cur EXCEPT ![r] = NoConn] /\ UNCHANGED scan
            /\ pc' = [pc EXCEPT ![r] = "forward"]
        BY <1>12, <2>1 DEF Attempt
      <3> QED
        BY <1>12, <3>1 DEF Attempt
    <2>2. CASE Entry(r).kind # "noauth" /\ pin[r] # None
      <3>1. /\ cur' = [cur EXCEPT ![r] = pin[r]] /\ pin[r] \in Conns
            /\ pc' = [pc EXCEPT ![r] = "check"] /\ UNCHANGED scan
        BY <1>12, <2>2 DEF Attempt
      <3> QED
        BY <1>12, <3>1 DEF Attempt
    <2>3. CASE Entry(r).kind # "noauth" /\ pin[r] = None
      <3>1. Entry(r).conns \subseteq Conns
        BY <1>12, EntryOK DEF Attempt, Entry
      <3>2. /\ scan' = [scan EXCEPT ![r] = Entry(r).conns]
            /\ pc' = [pc EXCEPT ![r] = "pick"] /\ UNCHANGED cur
        BY <1>12, <2>3 DEF Attempt, Scan
      <3> QED
        BY <1>12, <3>1, <3>2 DEF Attempt
    <2> QED
      BY <2>1, <2>2, <2>3
  <1>13. ASSUME NEW r \in Reqs, AttemptsOver(r) PROVE TypeInv'
    <2>1. at[r] \in 1 .. Len(Entries) /\ (NextEntry(r) \/ Finish(r))
      BY <1>13 DEF AttemptsOver, EntryOver
    <2> QED
      BY <1>a, <1>13, <2>1 DEF AttemptsOver
  <1>14. ASSUME NEW r \in Reqs, Pick(r) PROVE TypeInv'
    BY <1>14, SMTT(30) DEF Pick, Scanned, First
  <1>15. ASSUME NEW r \in Reqs, SkipLocked(r) PROVE TypeInv'
    BY <1>15, SMTT(30) DEF SkipLocked, NextAttempt
  <1>16. ASSUME NEW r \in Reqs, Forward(r) PROVE TypeInv'
    BY <1>16 DEF Forward
  <1>17. ASSUME NEW r \in Reqs, Succeed(r) PROVE TypeInv'
    <2>1. row' \in [Conns -> Row]
      BY <1>17, UnlockRow, EntryOK DEF Succeed, Entry
    <2>2. at[r] \in 1 .. Len(Entries) /\ Finish(r)
      BY <1>17 DEF Succeed
    <2>3. committed' \in [Reqs -> BOOLEAN] /\ answer' \in [Reqs -> Nat \cup {None}]
      BY <1>17 DEF Succeed
    <2> QED
      BY <1>a, <1>17, <2>1, <2>2, <2>3 DEF Succeed
  <1>18. ASSUME NEW r \in Reqs, FailGone(r) PROVE TypeInv'
    <2>1. at[r] \in 1 .. Len(Entries)
      BY <1>18 DEF FailGone
    <2>2. lastErr' = [lastErr EXCEPT ![r] = 499]
      BY <1>18 DEF FailGone
    <2>3. lastErr' \in [Reqs -> Nat \cup {None}]
      BY <2>2
    <2> QED
      BY <1>a, <1>18, <2>1, <2>3 DEF FailGone
  <1>19. ASSUME NEW r \in Reqs, Fail(r) PROVE TypeInv'
    <2>1. PICK e \in Failures :
              /\ lastErr' = [lastErr EXCEPT ![r] = e.status]
              /\ seen' = [seen EXCEPT ![r] = @ \cup {e.status}]
              /\ retryAt' = [retryAt EXCEPT ![r] =
                    IF e.after = None THEN @
                    ELSE IF @ = None THEN now + e.after ELSE AtMost(@, now + e.after)]
              /\ IF e.status \in RetryableStatusCodes /\ cur[r] # NoConn
                 THEN /\ failure' = [failure EXCEPT ![r] = e]
                      /\ Goto(r, "level")
                      /\ UNCHANGED <<entryVars, at>>
                 ELSE AfterFailure(r) /\ UNCHANGED failure
      BY <1>19 DEF Fail
    <2>2. e.status \in Nat /\ e.after \in Nat \cup {None}
      OBVIOUS
    <2>3. lastErr' \in [Reqs -> Nat \cup {None}] /\ seen' \in [Reqs -> SUBSET Nat]
      BY <2>1, <2>2
    <2>4. retryAt' \in [Reqs -> Nat \cup {None}]
      BY <2>1, <2>2 DEF AtMost
    <2>5. CASE e.status \in RetryableStatusCodes /\ cur[r] # NoConn
      <3>1. /\ failure' = [failure EXCEPT ![r] = e] /\ pc' = [pc EXCEPT ![r] = "level"]
            /\ UNCHANGED <<entryVars, at>>
        BY <2>1, <2>5
      <3>2. /\ UNCHANGED <<now, row, gone, pass, excluded, wake, burnt, level, ansVars>>
            /\ pc[r] = "await" /\ cur[r] \in Conns /\ at[r] \in 1 .. Len(Entries)
            /\ attempts[r] < MaxAttempts
        BY <1>19, <2>5 DEF Fail
      <3> HIDE <2>1
      <3> QED
        BY <2>3, <2>4, <3>1, <3>2
    <2>6. CASE ~(e.status \in RetryableStatusCodes /\ cur[r] # NoConn)
      <3>1. /\ AfterFailure(r) /\ UNCHANGED failure
            /\ at[r] \in 1 .. Len(Entries) /\ attempts[r] < MaxAttempts
        BY <1>19, <2>1, <2>6 DEF Fail
      <3>2. NextAttempt(r) \/ NextEntry(r) \/ Finish(r)
        BY <3>1 DEF AfterFailure, EntryOver
      <3>3. committed' = committed /\ answer' = answer /\ row' = row
        BY <1>19 DEF Fail
      <3>4. committed' \in [Reqs -> BOOLEAN] /\ answer' \in [Reqs -> Nat \cup {None}]
            /\ row' \in [Conns -> Row]
        BY <3>3
      <3>5. UNCHANGED <<now, gone, pass, excluded, wake, burnt, lockVars>>
        BY <1>19, <3>1 DEF Fail
      <3>6. CASE NextAttempt(r)
        BY <1>b, <2>3, <2>4, <3>1, <3>3, <3>4, <3>5, <3>6
      <3>7. CASE NextEntry(r) \/ Finish(r)
        BY <1>a, <2>3, <2>4, <3>1, <3>4, <3>5, <3>7
      <3> QED
        BY <3>2, <3>6, <3>7
    <2> QED
      BY <2>5, <2>6
  <1>20. ASSUME NEW r \in Reqs, Break(r) PROVE TypeInv'
    <2>1. at[r] \in 1 .. Len(Entries) /\ attempts[r] < MaxAttempts
      BY <1>20 DEF Break
    <2>3. /\ lastErr' = [lastErr EXCEPT ![r] = 502]
          /\ \E sent \in BOOLEAN : committed' = [committed EXCEPT ![r] = @ \/ sent]
      BY <1>20 DEF Break
    <2>4. lastErr' \in [Reqs -> Nat \cup {None}] /\ committed' \in [Reqs -> BOOLEAN]
      BY <2>3
    <2>2. NextAttempt(r) \/ NextEntry(r) \/ Finish(r)
      BY <1>20 DEF Break, AfterFailure, EntryOver
    <2>5. /\ UNCHANGED <<row, now, gone, pass, excluded, retryAt, wake, burnt, seen>>
          /\ UNCHANGED <<lockVars, answer>>
      BY <1>20 DEF Break
    <2>6. CASE NextAttempt(r)
      BY <1>b, <2>1, <2>4, <2>5, <2>6
    <2>7. CASE NextEntry(r) \/ Finish(r)
      BY <1>a, <2>1, <2>4, <2>5, <2>7
    <2> QED
      BY <2>2, <2>6, <2>7
  <1>21. ASSUME NEW r \in Reqs, ReadLevel(r) PROVE TypeInv'
    BY <1>21 DEF ReadLevel, Row
  <1>22. ASSUME NEW r \in Reqs, LockRetryable(r) PROVE TypeInv'
    <2> DEFINE v == ClassifyError(failure[r].status, failure[r].phrases, level[r])
               u == now + CooldownSec(v.ms)
    <2>1. v.level \in 0 .. MaxLevel /\ CooldownSec(v.ms) \in Int
      BY ClassifyErrorBound, CooldownSecBound
    <2>2. cur[r] \in Conns /\ Entry(r).model \in Models /\ u \in Int
      <3>1. cur[r] \in Conns /\ at[r] \in 1 .. Len(Entries)
        BY <1>22 DEF LockRetryable
      <3> QED
        BY <2>1, <3>1, EntryOK DEF Entry
    <2>3. row' = [row EXCEPT ![cur[r]] =
                     LockConnectionModel(row[cur[r]], Entry(r).model, u, v.level)]
      BY <1>22, <2>2 DEF LockRetryable, Lock
    <2>4. /\ burnt' = [burnt EXCEPT ![r] = @ \cup {<<cur[r], Entry(r).model>>}]
          /\ level' = [level EXCEPT ![r] = 0]
          /\ failure' = [failure EXCEPT ![r] = None]
          /\ excluded' = [excluded EXCEPT ![r] = @ \cup {cur[r]}]
          /\ NextAttempt(r) /\ pc[r] = "lock"
          /\ UNCHANGED <<now, gone, pass, lastErr, retryAt, wake, seen, ansVars>>
      BY <1>22 DEF LockRetryable
    <2> HIDE DEF v, u
    <2>5. row' \in [Conns -> Row]
      BY <2>1, <2>2, <2>3, LockRow
    <2>6. burnt' \in [Reqs -> SUBSET (Conns \X Models)]
      BY <2>2, <2>4
    <2> QED
      BY <2>2, <2>4, <2>5, <2>6, DurationAssumption, SMTT(30) DEF NextAttempt
  <1>23. ASSUME NEW r \in Reqs, Wait(r) PROVE TypeInv'
    <2>1. RetryWait(r) \in Nat
      BY DEF RetryWait, AtLeast
    <2> QED
      BY <1>23, <2>1, SMTT(30) DEF Wait
  <1>24. ASSUME NEW r \in Reqs, SecondPass(r) PROVE TypeInv'
    BY <1>24, SMTT(30) DEF SecondPass
  <1>25. ASSUME NEW r \in Reqs, CancelledInWait(r) PROVE TypeInv'
    BY <1>25 DEF CancelledInWait
  <1>26. ASSUME NEW r \in Reqs, Answer(r) PROVE TypeInv'
    BY <1>26, SMTT(30) DEF Answer
  <1>27. ASSUME NEW r \in Reqs, Leave(r) PROVE TypeInv'
    BY <1>27, SMTT(30) DEF Leave
  <1> QED
    BY <1>1, <1>2, <1>3, <1>4, <1>5, <1>6, <1>7, <1>8, <1>9, <1>10, <1>11, <1>12, <1>13,
       <1>14, <1>15, <1>16, <1>17, <1>18, <1>19, <1>20, <1>21, <1>22, <1>23, <1>24, <1>25,
       <1>26, <1>27
    DEF Next, Step

\* Whatever the entries, failures and interleavings, the rows stay rows and the locals of
\* a request stay in their types.
THEOREM ComboTypeCorrect == Spec => []TypeOK
  <1>1. TypeInv => TypeOK
    BY DEF TypeInv
  <1> QED
    BY <1>1, InitTypeInv, StepTypeInv, PTL DEF Spec

LEMMA TypeInvariant == Spec => []TypeInv
  BY InitTypeInv, StepTypeInv, PTL DEF Spec

-----------------------------------------------------------------------------
(* Every request is answered.                                                *)

AnswerInv == \A r \in Reqs : AnswerOK(r)

LEMMA StepAnswerInv == TypeInv /\ AnswerInv /\ [Next]_vars => AnswerInv'
  <1> SUFFICES ASSUME TypeInv, AnswerInv, [Next]_vars PROVE AnswerInv'
    OBVIOUS
  <1> USE DEF TypeInv, TypeOK, AnswerInv, AnswerOK, entryVars, lockVars, passVars, ansVars, Goto
  \* A step that leaves its request unfinished, or cancelled, or answered.
  <1>1. ASSUME NEW r \in Reqs, NEW l \in STRING, pc' = [pc EXCEPT ![r] = l],
               l # "done" \/ gone'[r] \/ committed'[r],
               \A q \in Reqs \ {r} : gone'[q] = gone[q] /\ committed'[q] = committed[q]
        PROVE  AnswerInv'
    BY <1>1
  <1>2. CASE UNCHANGED vars
    BY <1>2 DEF vars
  <1>3. CASE Tick
    BY <1>3 DEF Tick
  <1>4. ASSUME NEW r \in Reqs,
               \/ Arrive(r) \/ Unresolved(r) \/ Resolve(r) \/ Pin(r)
               \/ Available(r) \/ Unavailable(r) \/ Pick(r) \/ SkipLocked(r) \/ Forward(r)
               \/ ReadLevel(r) \/ LockRetryable(r) \/ Wait(r) \/ SecondPass(r)
        PROVE  AnswerInv'
    BY <1>1, <1>4
    DEF Arrive, Unresolved, Resolve, Pin, Available, Unavailable, Pick, SkipLocked,
        Forward, ReadLevel, LockRetryable, Wait, SecondPass, NextEntry, NextAttempt
  <1>5. ASSUME NEW r \in Reqs, SkipRow(r) PROVE AnswerInv'
    BY <1>5 DEF SkipRow
  <1>6. ASSUME NEW r \in Reqs, Disconnect(r) PROVE AnswerInv'
    BY <1>6 DEF Disconnect
  <1>7. ASSUME NEW r \in Reqs, Attempt(r) PROVE AnswerInv'
    BY <1>1, <1>7 DEF Attempt
  \* An entry whose attempts are over ends the request only if it is cancelled.
  <1>8. ASSUME NEW r \in Reqs, EntryOver(r) \/ NextAttempt(r), UNCHANGED gone,
               \A q \in Reqs \ {r} : committed'[q] = committed[q]
        PROVE  AnswerInv'
    BY <1>1, <1>8, ZenonT(40) DEF EntryOver, Finish, NextEntry, NextAttempt
  <1>9. ASSUME NEW r \in Reqs, AttemptsOver(r) \/ NotPinned(r) PROVE AnswerInv'
    BY <1>8, <1>9 DEF AttemptsOver, NotPinned
  <1>10. ASSUME NEW r \in Reqs, Fail(r) PROVE AnswerInv'
    <2>1. UNCHANGED <<gone, committed>>
      BY <1>10 DEF Fail
    <2>2. AfterFailure(r) \/ pc' = [pc EXCEPT ![r] = "level"]
      BY <1>10 DEF Fail
    <2> QED
      BY <1>1, <1>8, <2>1, <2>2 DEF AfterFailure
  <1>11. ASSUME NEW r \in Reqs, Break(r) PROVE AnswerInv'
    <2>1. UNCHANGED gone /\ AfterFailure(r)
          /\ \E sent \in BOOLEAN : committed' = [committed EXCEPT ![r] = @ \/ sent]
      BY <1>11 DEF Break
    <2> QED
      BY <1>8, <2>1 DEF AfterFailure
  <1>12. ASSUME NEW r \in Reqs, Succeed(r) \/ FailGone(r) \/ CancelledInWait(r) \/ Answer(r)
         PROVE  AnswerInv'
    BY <1>1, <1>12 DEF Succeed, FailGone, CancelledInWait, Answer, Finish
  <1>13. ASSUME NEW r \in Reqs, Leave(r) PROVE AnswerInv'
    BY <1>1, <1>13 DEF Leave
  <1> QED
    BY <1>2, <1>3, <1>4, <1>5, <1>6, <1>7, <1>9, <1>10, <1>11, <1>12, <1>13 DEF Next, Step

\* A client that is still there when its request ends has been sent something, through
\* every combination of useless entries, locked accounts, failures and second passes.
THEOREM EveryClientAnswered == Spec => []Answered
  <1>1. Init => AnswerInv
    BY DEF Init, AnswerInv, AnswerOK
  <1>2. AnswerInv => Answered
    BY DEF AnswerInv, AnswerOK, Answered
  <1> QED
    BY <1>1, <1>2, TypeInvariant, StepAnswerInv, PTL DEF Spec

-----------------------------------------------------------------------------
(* The accounts a request has locked are not chosen again.                   *)

LEMMA StepChoiceInv == TypeInv /\ ChoiceInv /\ [Next]_vars => ChoiceInv'
  <1> SUFFICES ASSUME TypeInv, ChoiceInv, [Next]_vars PROVE ChoiceInv'
    OBVIOUS
  <1> USE DEF TypeInv, TypeOK, ChoiceInv, ChoiceOK, Burnt, entryVars, lockVars, passVars,
              ansVars, Goto
  \* Most steps neither choose an account nor touch what is locked and excluded.
  <1>1. ASSUME NEW r \in Reqs, NEW l \in STRING, pc' = [pc EXCEPT ![r] = l], l # "check",
               UNCHANGED <<burnt, excluded>>,
               \A q \in Reqs \ {r} : pin'[q] = pin[q] /\ cur'[q] = cur[q]
        PROVE  ChoiceInv'
    BY <1>1
  <1>2. CASE UNCHANGED vars
    BY <1>2 DEF vars
  <1>3. CASE Tick
    BY <1>3 DEF Tick
  <1>4. ASSUME NEW r \in Reqs, NextEntry(r) \/ Finish(r) \/ NextAttempt(r),
               UNCHANGED <<burnt, excluded>>
        PROVE  ChoiceInv'
    <2>1. PICK l \in {"entry", "done", "attempt"} : pc' = [pc EXCEPT ![r] = l]
      BY <1>4 DEF NextEntry, Finish, NextAttempt
    <2>2. \A q \in Reqs \ {r} : pin'[q] = pin[q] /\ cur'[q] = cur[q]
      BY <1>4 DEF NextEntry, Finish, NextAttempt, Forget
    <2> QED
      BY <1>1, <1>4, <2>1, <2>2
  <1>5. ASSUME NEW r \in Reqs, Unresolved(r) \/ NotPinned(r) \/ Unavailable(r)
                               \/ AttemptsOver(r) \/ Succeed(r) \/ FailGone(r) \/ Break(r)
        PROVE  ChoiceInv'
    BY <1>4, <1>5 DEF Unresolved, NotPinned, Unavailable, AttemptsOver, Succeed, FailGone, Break,
                      AfterFailure, EntryOver
  <1>6. ASSUME NEW r \in Reqs, Arrive(r) \/ Resolve(r) \/ Pin(r) \/ Available(r) \/ Forward(r)
                               \/ ReadLevel(r) \/ Wait(r) \/ CancelledInWait(r) \/ Answer(r)
        PROVE  ChoiceInv'
    <2>1. CASE Resolve(r)
      BY <1>1, <2>1 DEF Resolve
    <2> QED
      BY <1>1, <1>6, <2>1 DEF Arrive, Pin, Available, Forward, ReadLevel, Wait, CancelledInWait,
                              Answer
  <1>7. ASSUME NEW r \in Reqs, Disconnect(r) \/ SkipRow(r) PROVE ChoiceInv'
    BY <1>7 DEF Disconnect, SkipRow
  <1>8. ASSUME NEW r \in Reqs, Attempt(r) PROVE ChoiceInv'
    BY <1>8, ZenonT(40) DEF Attempt
  <1>9. ASSUME NEW r \in Reqs, Pick(r) PROVE ChoiceInv'
    BY <1>9 DEF Pick
  <1>10. ASSUME NEW r \in Reqs, SkipLocked(r) PROVE ChoiceInv'
    BY <1>10 DEF SkipLocked, NextAttempt
  <1>11. ASSUME NEW r \in Reqs, Fail(r) PROVE ChoiceInv'
    <2>1. UNCHANGED <<burnt, excluded>>
      BY <1>11 DEF Fail
    <2>2. \/ NextAttempt(r) \/ NextEntry(r) \/ Finish(r)
          \/ pc' = [pc EXCEPT ![r] = "level"] /\ UNCHANGED entryVars
      BY <1>11 DEF Fail, AfterFailure, EntryOver
    <2> QED
      BY <1>1, <1>4, <2>1, <2>2
  <1>12. ASSUME NEW r \in Reqs, LockRetryable(r) PROVE ChoiceInv'
    <2>1. /\ excluded' = [excluded EXCEPT ![r] = @ \cup {cur[r]}]
          /\ burnt' = [burnt EXCEPT ![r] = @ \cup {<<cur[r], Entry(r).model>>}]
          /\ NextAttempt(r)
      BY <1>12 DEF LockRetryable
    <2> QED
      BY <2>1 DEF NextAttempt
  <1>13. ASSUME NEW r \in Reqs, SecondPass(r) PROVE ChoiceInv'
    BY <1>13 DEF SecondPass
  <1>14. ASSUME NEW r \in Reqs, Leave(r) PROVE ChoiceInv'
    BY <1>14 DEF Leave
  <1> QED
    BY <1>2, <1>3, <1>5, <1>6, <1>7, <1>8, <1>9, <1>10, <1>11, <1>12, <1>13, <1>14
    DEF Next, Step

\* An account this request has locked in the pass is never forwarded to again in an entry
\* that chooses from a list, whichever models the remaining entries name.
THEOREM ExcludedStaysExcluded == Spec => ExcludedStays
  <1>1. Init => ChoiceInv
    BY DEF Init, ChoiceInv, ChoiceOK, Burnt
  <1>2. TypeInv /\ ChoiceInv /\ [Next]_vars =>
            [\A r \in Reqs : pc[r] # "await" /\ pc'[r] = "await" /\ pin[r] = None
                => cur[r] \notin Burnt(r)]_vars
    <2> SUFFICES ASSUME TypeInv, ChoiceInv, Next, NEW q \in Reqs,
                        pc[q] # "await", pc'[q] = "await", pin[q] = None
                 PROVE  cur[q] \notin Burnt(q)
      OBVIOUS
    <2> USE DEF TypeInv, TypeOK, Goto
    <2>1. ASSUME NEW r \in Reqs, NEW l \in STRING, l # "await", pc' = [pc EXCEPT ![r] = l]
          PROVE  FALSE
      BY <2>1
    <2>2. ~Tick
      BY DEF Tick
    <2>3. ASSUME NEW r \in Reqs, Step(r) PROVE Forward(r)
      <3>1. ~(Unresolved(r) \/ Resolve(r) \/ Pin(r) \/ Available(r)
              \/ Unavailable(r) \/ Pick(r) \/ SkipLocked(r))
        <4>1. ~Resolve(r)
          BY <2>1 DEF Resolve
        <4> QED
          BY <2>1, <4>1 DEF Unresolved, Pin, Available, Unavailable, Pick, SkipLocked,
                      NextEntry, NextAttempt
      <3>2. ~(SkipRow(r) \/ Attempt(r) \/ AttemptsOver(r) \/ NotPinned(r))
        BY <2>1 DEF SkipRow, Attempt, AttemptsOver, NotPinned, EntryOver, NextEntry, Finish
      <3>3. ~(Succeed(r) \/ FailGone(r) \/ Break(r) \/ Fail(r))
        BY <2>1 DEF Succeed, FailGone, Break, Fail, AfterFailure, EntryOver, NextEntry, Finish,
                    NextAttempt
      <3>4. ~(ReadLevel(r) \/ LockRetryable(r) \/ Wait(r) \/ SecondPass(r)
              \/ CancelledInWait(r) \/ Answer(r))
        BY <2>1 DEF ReadLevel, LockRetryable, NextAttempt, Wait, SecondPass, CancelledInWait,
                    Answer
      <3> QED
        BY <2>3, <3>1, <3>2, <3>3, <3>4 DEF Step
    <2>4. ASSUME NEW r \in Reqs PROVE ~(Arrive(r) \/ Disconnect(r) \/ Leave(r))
      BY <2>1 DEF Arrive, Disconnect, Leave
    <2>5. PICK r \in Reqs : Forward(r)
      BY <2>2, <2>3, <2>4 DEF Next
    <2>6. r = q /\ (pc[q] = "forward" \/ pc[q] = "check")
      BY <2>5 DEF Forward
    <2>7. Burnt(q) \subseteq Conns
      BY DEF Burnt
    <2>8. CASE pc[q] = "forward"
      BY <2>7, <2>8, ComboAssumption DEF LocalsOK, LocalOK
    <2>9. CASE pc[q] = "check"
      BY <2>9 DEF ChoiceInv, ChoiceOK
    <2> QED
      BY <2>6, <2>8, <2>9
  <1> QED
    BY <1>1, <1>2, TypeInvariant, StepChoiceInv, PTL DEF Spec, ExcludedStays

-----------------------------------------------------------------------------
(* A rate limit is only reported to a request that met one.                  *)

\* In the first pass a failure an upstream answered with is never forgotten, so the rate limit
\* of an unavailable provider is noted only while no upstream has answered; and the status of
\* the answer is written once, when the request ends.
HonestOK(r) ==
    /\ pc[r] # "done" => answer[r] = None
    /\ pass[r] = 1 =>
          /\ seen[r] # {} => lastErr[r] # None
          /\ lastErr[r] = 429 \/ answer[r] = 429 => 429 \in seen[r] \/ seen[r] = {}

HonestInv == \A r \in Reqs : HonestOK(r)

LEMMA StepHonestInv == TypeInv /\ HonestInv /\ [Next]_vars => HonestInv'
  <1> SUFFICES ASSUME TypeInv, HonestInv, [Next]_vars PROVE HonestInv'
    OBVIOUS
  <1> USE DEF entryVars, lockVars, passVars, ansVars, Goto
  <1>0. /\ DOMAIN pc = Reqs /\ DOMAIN lastErr = Reqs /\ DOMAIN seen = Reqs /\ DOMAIN answer = Reqs
        /\ DOMAIN pass = Reqs /\ None \notin Nat
    BY ComboAssumption DEF TypeInv, TypeOK
  \* Most steps neither meet a failure nor answer.
  <1>1. ASSUME NEW r \in Reqs, NEW l, pc' = [pc EXCEPT ![r] = l], pc[r] # "done",
               UNCHANGED <<pass, seen, lastErr, answer>>
        PROVE  HonestInv'
    BY <1>0, <1>1 DEF HonestInv, HonestOK
  <1>2. CASE UNCHANGED <<pc, pass, seen, lastErr, answer>>
    BY <1>2 DEF HonestInv, HonestOK
  <1> DEFINE Moves(r) == \E l : pc' = [pc EXCEPT ![r] = l]
  <1>3. ASSUME NEW r \in Reqs, EntryOver(r) \/ NextEntry(r) \/ NextAttempt(r) \/ Finish(r)
        PROVE  Moves(r)
    BY <1>3 DEF EntryOver, NextEntry, NextAttempt, Finish
  <1>4. ASSUME NEW r \in Reqs,
               \/ Arrive(r) \/ Unresolved(r) \/ NotPinned(r) \/ AttemptsOver(r) \/ SkipLocked(r)
               \/ LockRetryable(r) \/ Pin(r) \/ Available(r) \/ Pick(r) \/ Forward(r) \/ ReadLevel(r)
               \/ Wait(r) \/ CancelledInWait(r)
        PROVE  HonestInv'
    <2>1. pc[r] # "done" /\ UNCHANGED <<pass, seen, lastErr, answer>>
      BY <1>4 DEF Arrive, Unresolved, NotPinned, AttemptsOver, SkipLocked, LockRetryable, Pin,
              Available, Pick, Forward, ReadLevel, Wait, CancelledInWait
    <2>2. Moves(r)
      <3>1. CASE Unresolved(r) \/ NotPinned(r) \/ AttemptsOver(r) \/ SkipLocked(r) \/ LockRetryable(r)
        <4> HIDE DEF Moves
        <4> QED
          BY <1>3, <3>1 DEF Unresolved, NotPinned, AttemptsOver, SkipLocked, LockRetryable
      <3>2. CASE Arrive(r) \/ Pin(r) \/ Available(r) \/ Pick(r) \/ Forward(r) \/ ReadLevel(r)
                 \/ Wait(r) \/ CancelledInWait(r)
        BY <3>2 DEF Arrive, Pin, Available, Pick, Forward, ReadLevel, Wait, CancelledInWait
      <3> QED
        BY <1>4, <3>1, <3>2
    <2> QED
      BY <1>1, <2>1, <2>2
  <1>5. ASSUME NEW r \in Reqs, Resolve(r) \/ Attempt(r)
        PROVE  HonestInv'
    <2>1. pc[r] # "done" /\ UNCHANGED <<pass, seen, lastErr, answer>>
      BY <1>5 DEF Resolve, Attempt
    <2>2. pc' = [pc EXCEPT ![r] = "resolve"] \/ pc' = [pc EXCEPT ![r] = "avail"]
          \/ pc' = [pc EXCEPT ![r] = "forward"] \/ pc' = [pc EXCEPT ![r] = "check"]
          \/ pc' = [pc EXCEPT ![r] = "pick"]
      BY <1>5 DEF Resolve, Attempt
    <2> QED
      BY <1>1, <2>1, <2>2
  <1>6. ASSUME NEW r \in Reqs, Disconnect(r) \/ SkipRow(r)
        PROVE  HonestInv'
    BY <1>2, <1>6 DEF Disconnect, SkipRow
  \* A failure: the status is both the last one and, if an upstream sent it, among the seen.
  <1>7. ASSUME NEW r \in Reqs, NEW l, pc' = [pc EXCEPT ![r] = l], pc[r] # "done",
               NEW s \in Nat, lastErr' = [lastErr EXCEPT ![r] = s],
               seen' = [seen EXCEPT ![r] = seen[r] \cup {s}] \/ (seen' = seen /\ s # 429),
               UNCHANGED <<pass, answer>>
        PROVE  HonestInv'
    <2>1. HonestOK(r) /\ answer[r] # 429
      BY <1>0, <1>7 DEF HonestInv, HonestOK
    <2>2. HonestOK(r)'
      BY <1>0, <1>7, <2>1 DEF HonestOK
    <2> QED
      BY <1>0, <1>7, <2>2 DEF HonestInv, HonestOK
  <1>8. ASSUME NEW r \in Reqs, Fail(r)
        PROVE  HonestInv'
    <2>1. PICK e \in Failures :
              /\ lastErr' = [lastErr EXCEPT ![r] = e.status]
              /\ seen' = [seen EXCEPT ![r] = seen[r] \cup {e.status}]
              /\ Goto(r, "level") \/ AfterFailure(r)
      BY <1>8 DEF Fail
    <2>2. e.status \in Nat
      BY ComboAssumption
    <2>3. Moves(r)
      <3> HIDE DEF Moves
      <3>1. CASE AfterFailure(r)
        BY <1>3, <3>1 DEF AfterFailure
      <3> QED
        BY <2>1, <3>1 DEF Moves
    <2> QED
      BY <1>7, <1>8, <2>1, <2>2, <2>3 DEF Fail
  <1>9. ASSUME NEW r \in Reqs, FailGone(r) \/ Break(r)
        PROVE  HonestInv'
    <2>1. \/ lastErr' = [lastErr EXCEPT ![r] = 499]
          \/ lastErr' = [lastErr EXCEPT ![r] = 502]
      BY <1>9 DEF FailGone, Break
    <2>2. pc[r] # "done" /\ UNCHANGED <<pass, answer, seen>>
      BY <1>9 DEF FailGone, Break
    <2>3. Moves(r)
      <3> HIDE DEF Moves
      <3> QED
        BY <1>3, <1>9 DEF FailGone, Break, AfterFailure
    <2>4. PICK l : pc' = [pc EXCEPT ![r] = l]
      BY <2>3
    <2> HIDE DEF Moves
    <2>5. PICK s \in {499, 502} : lastErr' = [lastErr EXCEPT ![r] = s]
      BY <2>1
    <2>6. s \in Nat /\ s # 429
      OBVIOUS
    <2>7. seen' = seen /\ pass' = pass /\ answer' = answer
      BY <2>2
    <2>8. HonestOK(r) /\ HonestOK(r)'
      BY <1>0, <2>2, <2>4, <2>5, <2>6, <2>7 DEF HonestInv, HonestOK
    <2> QED
      BY <1>0, <2>4, <2>5, <2>7, <2>8 DEF HonestInv, HonestOK
  <1>10. ASSUME NEW r \in Reqs, Unavailable(r)
         PROVE  HonestInv'
    <2>1. /\ lastErr' = [lastErr EXCEPT ![r] = IF lastErr[r] = None THEN 429 ELSE lastErr[r]]
          /\ pc' = [pc EXCEPT ![r] = "entry"] /\ pc[r] = "avail"
          /\ UNCHANGED <<pass, seen, answer>>
      BY <1>10 DEF Unavailable, NextEntry
    <2> QED
      BY <1>0, <2>1 DEF HonestInv, HonestOK
  <1>11. ASSUME NEW r \in Reqs, Succeed(r) \/ Answer(r)
         PROVE  HonestInv'
    <2>1. /\ pc' = [pc EXCEPT ![r] = "done"] /\ pc[r] # "done"
          /\ answer' \in {[answer EXCEPT ![r] = a] : a \in {200, 502, lastErr[r], answer[r]}}
          /\ UNCHANGED <<pass, seen, lastErr>>
      <3>1. CASE Succeed(r)
        BY <3>1 DEF Succeed, Finish
      <3>2. CASE Answer(r)
        <4> DEFINE a == IF committed[r] THEN answer[r]
                        ELSE IF lastErr[r] = None THEN 502 ELSE lastErr[r]
        <4>1. /\ pc' = [pc EXCEPT ![r] = "done"] /\ pc[r] = "entry"
              /\ UNCHANGED <<pass, seen, lastErr>>
          BY <3>2 DEF Answer
        <4>2. answer' = [answer EXCEPT ![r] = a]
          BY <3>2 DEF Answer
        <4>3. a \in {200, 502, lastErr[r], answer[r]}
          OBVIOUS
        <4> QED
          BY <4>1, <4>2, <4>3
      <3> QED
        BY <1>11, <3>1, <3>2
    <2> QED
      BY <1>0, <2>1 DEF HonestInv, HonestOK
  \* The second pass forgets what was seen as far as the answer is concerned.
  <1>12. ASSUME NEW r \in Reqs, SecondPass(r)
         PROVE  HonestInv'
    <2>1. /\ pc' = [pc EXCEPT ![r] = "entry"] /\ pc[r] = "wait" /\ pass' = [pass EXCEPT ![r] = 2]
          /\ lastErr' = [lastErr EXCEPT ![r] = None] /\ UNCHANGED <<seen, answer>>
      BY <1>12 DEF SecondPass
    <2> QED
      BY <1>0, <2>1 DEF HonestInv, HonestOK
  <1>13. ASSUME NEW r \in Reqs, Leave(r)
         PROVE  HonestInv'
    <2>1. /\ pc' = [pc EXCEPT ![r] = "idle"] /\ seen' = [seen EXCEPT ![r] = {}]
          /\ answer' = [answer EXCEPT ![r] = None] /\ pass' = [pass EXCEPT ![r] = 1]
          /\ lastErr' = [lastErr EXCEPT ![r] = None]
      BY <1>13 DEF Leave
    <2> QED
      BY <1>0, <2>1 DEF HonestInv, HonestOK
  <1> QED
    BY <1>2, <1>4, <1>5, <1>6, <1>8, <1>9, <1>10, <1>11, <1>12, <1>13 DEF Next, Step, Tick, vars

\* A request that walked its list once is told of a rate limit only if an upstream said so or
\* none was reached, whatever entries were unavailable, broke or failed on the way.
THEOREM RateLimitIsHonest == Spec => []HonestRateLimit
  <1>1. Init => HonestInv
    BY ComboAssumption DEF Init, HonestInv, HonestOK
  <1>2. HonestInv => HonestRateLimit
    BY DEF HonestInv, HonestOK, HonestRateLimit
  <1> QED
    BY <1>1, <1>2, StepHonestInv, TypeInvariant, PTL DEF Spec
=============================================================================
