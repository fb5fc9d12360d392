------------------------- MODULE SideServicesProofs -------------------------
(* What the services beside the requests promise, for any number of requests,  *)
(* connections, panel members, updaters and tokens: every proof is about the   *)
(* behaviours of SideServices, so that the properties are the ones the runs    *)
(* check.  First the step of the composition is a step or a stutter of each    *)
(* part; then each part has its inductive invariant, the services first, the   *)
(* records after them.                                                         *)
EXTENDS SideServices, FiniteSetTheorems, TLAPS

\* The instances have their own copies of the operators of FiniteSets.
LEMMA Counting ==
    /\ \A S : FU!Cardinality(S) = Cardinality(S)
    /\ \A S : MS!Cardinality(S) = Cardinality(S)
  BY DEF FU!Cardinality, MS!Cardinality, Cardinality

\* A step of the composition leaves a part alone or is a step of it.
LEMMA TokensSteps == [AllNext]_AllVars => [Next]_vars
  BY DEF AllNext, AllVars, Only
LEMMA FusionSteps == [AllNext]_AllVars => [FU!Next]_FU!vars
  BY DEF AllNext, AllVars, Only, fuVars, FU!vars
LEMMA ServerSteps == [AllNext]_AllVars => [MS!Next]_MS!vars
  BY DEF AllNext, AllVars, Only, msVars, MS!vars
LEMMA SetupSteps == [AllNext]_AllVars => [SE!Next]_SE!vars
  BY DEF AllNext, AllVars, Only, seVars, SE!vars
LEMMA HeadroomSteps == [AllNext]_AllVars => [HE!Next]_HE!vars
  BY DEF AllNext, AllVars, Only, heVars, HE!vars
LEMMA UpdateSteps == [AllNext]_AllVars => [UP!Next]_UP!vars
  BY DEF AllNext, AllVars, Only, updVars, UP!vars

-----------------------------------------------------------------------------
(* The tokens of MiMo. *)

\* Who fetches or has fetched and not kept yet holds the lock.
LockInv == Mimo => \A r \in Requests : step[r] \in {"fetch", "keep"} => lock = r

\* Tokens in memory and in hand have been fetched, and the ones not kept yet are newer than
\* every other one in hand or rejected.
OrderInv ==
    /\ cached # None => cached <= fetched
    /\ \A r \in Requests : /\ token[r] # None => token[r] <= fetched
                           /\ rejected[r] # None => rejected[r] <= fetched
    /\ Mimo => \A q \in Requests : step[q] = "keep" =>
                   \A r \in Requests :
                       /\ r # q /\ token[r] # None => token[r] < token[q]
                       /\ rejected[r] # None => rejected[r] < token[q]

\* A request that keeps or sends has a token.
SendInv == \A r \in Requests : step[r] \in {"keep", "send"} => token[r] # None

TokensInv == TypeOK /\ LockInv /\ OrderInv /\ SendInv /\ RejectedTokenIsGone

LEMMA TokenIsNat == \A t \in Tokens : t \in Nat /\ t # None
  <1>1. \A t \in Tokens : t \in Nat
    BY TokensAssumption DEF Tokens
  <1>2. \A t \in Nat : t # None
    BY TokensAssumption
  <1> QED
    BY <1>1, <1>2

LEMMA TokensInit == Init => TokensInv
  <1> SUFFICES ASSUME Init PROVE TokensInv
    OBVIOUS
  <1>0. 0 \in 0 .. MaxTokens
    BY TokensAssumption
  <1>1. TypeOK
    BY <1>0 DEF Init, TypeOK, Services
  <1>2. LockInv /\ OrderInv /\ SendInv /\ RejectedTokenIsGone
    BY DEF Init, LockInv, OrderInv, SendInv, RejectedTokenIsGone
  <1> QED
    BY <1>1, <1>2 DEF TokensInv

\* The types are kept by every step.
LEMMA TypesNext ==
    ASSUME TypeOK, SendInv, [Next]_vars
    PROVE  TypeOK'
  <1> USE TokensAssumption DEF TypeOK, At, Go, Ends, Take
  <1>1. ASSUME NEW r \in Requests, UseCached(r)
        PROVE  TypeOK'
    BY <1>1 DEF UseCached, memory
  <1>2. ASSUME NEW r \in Requests, Miss(r)
        PROVE  TypeOK'
    BY <1>2 DEF Miss, HeldBy
  <1>3. ASSUME NEW r \in Requests, Fetch(r)
        PROVE  TypeOK'
    <2>1. fetched \in 0 .. MaxTokens /\ fetched < MaxTokens
      BY <1>3 DEF Fetch
    <2>2. fetched + 1 \in Tokens /\ fetched + 1 \in 0 .. MaxTokens
      BY ONLY <2>1, TokensAssumption DEF Tokens
    <2> QED
      BY <1>3, <2>2 DEF Fetch
  <1>4. ASSUME NEW r \in Requests, Keep(r)
        PROVE  TypeOK'
    BY <1>4 DEF Keep, Release
  <1>5. ASSUME NEW r \in Requests, FetchFails(r)
        PROVE  TypeOK'
    BY <1>5 DEF FetchFails, Release
  <1>6. ASSUME NEW r \in Requests, Send(r)
        PROVE  TypeOK'
    BY <1>6 DEF Send, memory
  <1>7. ASSUME NEW r \in Requests, Clear(r)
        PROVE  TypeOK'
    BY <1>7 DEF Clear, Cleared
  <1>8. ASSUME NEW r \in Requests, Retry(r)
        PROVE  TypeOK'
    BY <1>8 DEF Retry, memory
  <1>9. CASE Expire
    BY <1>9 DEF Expire
  <1>10. ASSUME NEW t \in Tokens, Refuse(t)
         PROVE  TypeOK'
    BY <1>10 DEF Refuse, memory
  <1>11. CASE UNCHANGED vars
    BY <1>11 DEF vars
  <1> QED
    BY <1>1, <1>2, <1>3, <1>4, <1>5, <1>6, <1>7, <1>8, <1>9, <1>10, <1>11 DEF Next

\* Under MiMo the lock is held from the miss to the end of the bootstrap.
LEMMA LockNext ==
    ASSUME TypeOK, LockInv, [Next]_vars
    PROVE  LockInv'
  <1>a. Mimo' => Mimo
    BY DEF Next, UseCached, Miss, Fetch, Keep, FetchFails, Send, Clear, Retry, Expire, Refuse, vars,
       Mimo
  <1> SUFFICES ASSUME Mimo PROVE LockInv'
    BY <1>a DEF LockInv
  <1>0. \A r \in Requests : r # None
    BY TokensAssumption
  <1>1. \A r \in Requests : step[r] \in {"fetch", "keep"} => lock = r
    BY DEF LockInv
  <1>2. DOMAIN step = Requests
    BY DEF TypeOK
  <1> SUFFICES \A r \in Requests : step'[r] \in {"fetch", "keep"} => lock' = r
    BY DEF LockInv
  <1>3. ASSUME NEW r \in Requests, Miss(r)
        PROVE  \A q \in Requests : step'[q] \in {"fetch", "keep"} => lock' = q
    BY <1>0, <1>1, <1>2, <1>3 DEF Miss, HeldBy, Go
  <1>4. ASSUME NEW r \in Requests, Keep(r) \/ FetchFails(r)
        PROVE  \A q \in Requests : step'[q] \in {"fetch", "keep"} => lock' = q
    BY <1>0, <1>1, <1>2, <1>4 DEF Keep, FetchFails, Release, Go, Ends, At
  <1>5. ASSUME NEW r \in Requests, Fetch(r)
        PROVE  \A q \in Requests : step'[q] \in {"fetch", "keep"} => lock' = q
    BY <1>1, <1>2, <1>5 DEF Fetch, Go, At
  <1>6. ASSUME NEW r \in Requests, UseCached(r) \/ Send(r) \/ Clear(r) \/ Retry(r)
        PROVE  \A q \in Requests : step'[q] \in {"fetch", "keep"} => lock' = q
    BY <1>1, <1>2, <1>6 DEF UseCached, Send, Clear, Retry, Go, Ends, memory
  <1>7. CASE UNCHANGED <<step, lock>>
    BY <1>1, <1>7
  <1> QED
    BY <1>3, <1>4, <1>5, <1>6, <1>7 DEF Next, Expire, Refuse, memory, vars

\* Before the bootstrap is over nobody else can have the new token.
LEMMA OrderNext ==
    ASSUME TypeOK, LockInv, OrderInv, SendInv, [Next]_vars
    PROVE  OrderInv' /\ SendInv'
  <1>0. /\ fetched \in Nat
        /\ cached # None => cached \in Nat
        /\ \A r \in Requests : /\ token[r] # None => token[r] \in Nat
                               /\ rejected[r] # None => rejected[r] \in Nat
                               /\ r # None
    <2>1. fetched \in 0 .. MaxTokens
      BY DEF TypeOK
    <2>2. fetched \in Nat
      BY ONLY <2>1, TokensAssumption
    <2> QED
      BY <2>2, TokenIsNat, TokensAssumption DEF TypeOK
  <1>1. /\ DOMAIN step = Requests /\ DOMAIN token = Requests /\ DOMAIN rejected = Requests
    BY DEF TypeOK
  <1>2. Mimo /\ lock = None => \A q \in Requests : step[q] # "keep"
    BY <1>0 DEF LockInv
  <1>3. ASSUME NEW r \in Requests, UseCached(r)
        PROVE  OrderInv' /\ SendInv'
    BY <1>0, <1>1, <1>2, <1>3 DEF UseCached, Take, Go, OrderInv, SendInv, memory, Mimo
  <1>4. ASSUME NEW r \in Requests, Fetch(r)
        PROVE  OrderInv' /\ SendInv'
    <2>1. Mimo => \A q \in Requests : step[q] # "keep"
      BY <1>4 DEF LockInv, Fetch, At
    <2>2. /\ fetched' = fetched + 1 /\ token' = [token EXCEPT ![r] = fetched + 1]
          /\ step' = [step EXCEPT ![r] = "keep"]
          /\ UNCHANGED <<service, cached, rejected>>
      BY <1>4 DEF Fetch, Take, Go
    <2>3. fetched + 1 # None
      BY <1>0, TokensAssumption
    <2> QED
      BY <1>0, <1>1, <2>1, <2>2, <2>3 DEF OrderInv, SendInv, Mimo
  <1>5. ASSUME NEW r \in Requests, Keep(r)
        PROVE  OrderInv' /\ SendInv'
    <2>1. /\ cached' = token[r] /\ step[r] = "keep" /\ step' = [step EXCEPT ![r] = "send"]
          /\ UNCHANGED <<service, token, fetched, rejected>>
      BY <1>5 DEF Keep, At, Go
    <2> QED
      BY <1>0, <1>1, <2>1 DEF OrderInv, SendInv, Mimo
  <1>6. ASSUME NEW r \in Requests, Send(r)
        PROVE  OrderInv' /\ SendInv'
    <2>1. /\ \/ rejected' = [rejected EXCEPT ![r] = token[r]]
             \/ UNCHANGED rejected
          /\ step' \in {[step EXCEPT ![r] = "clear"], [step EXCEPT ![r] = "done"]}
          /\ step[r] = "send"
          /\ UNCHANGED <<service, token, cached, fetched>>
      BY <1>6 DEF Send, Go, Ends, At, memory
    <2> QED
      BY <1>0, <1>1, <2>1 DEF OrderInv, SendInv, Mimo
  <1>7. ASSUME NEW r \in Requests, Miss(r) \/ FetchFails(r) \/ Clear(r) \/ Retry(r)
        PROVE  OrderInv' /\ SendInv'
    <2>1. /\ step' \in {[step EXCEPT ![r] = s] : s \in {"fetch", "done", "look"}}
          /\ UNCHANGED <<service, token, fetched, rejected>>
          /\ cached' \in {cached, None}
      BY <1>7 DEF Miss, FetchFails, Clear, Retry, Go, Ends, Cleared, memory
    <2> QED
      BY <1>0, <1>1, <2>1 DEF OrderInv, SendInv, Mimo
  <1>8. CASE UNCHANGED <<service, step, token, cached, fetched, rejected>>
    BY <1>8 DEF OrderInv, SendInv, Mimo
  <1> QED
    BY <1>3, <1>4, <1>5, <1>6, <1>7, <1>8 DEF Next, Expire, Refuse, memory, vars

\* A token can only enter the memory after the one it replaces was rejected.
LEMMA RejectedNext ==
    ASSUME TypeOK, LockInv, OrderInv, SendInv, RejectedTokenIsGone, [Next]_vars
    PROVE  RejectedTokenIsGone'
  <1>a. Mimo' => Mimo
    BY DEF Next, UseCached, Miss, Fetch, Keep, FetchFails, Send, Clear, Retry, Expire, Refuse, vars,
       Mimo
  <1> SUFFICES ASSUME Mimo PROVE RejectedTokenIsGone'
    BY <1>a DEF RejectedTokenIsGone
  <1>0. /\ fetched \in Nat
        /\ cached # None => cached \in Nat
        /\ \A r \in Requests : /\ token[r] # None => token[r] \in Nat
                               /\ rejected[r] # None => rejected[r] \in Nat
    <2>1. fetched \in 0 .. MaxTokens
      BY DEF TypeOK
    <2>2. fetched \in Nat
      BY ONLY <2>1, TokensAssumption
    <2> QED
      BY <2>2, TokenIsNat DEF TypeOK
  <1>1. /\ DOMAIN step = Requests /\ DOMAIN token = Requests /\ DOMAIN rejected = Requests
    BY DEF TypeOK
  <1>2. \A r \in Requests : rejected[r] # None /\ step[r] # "clear" =>
            /\ cached = None \/ cached > rejected[r]
            /\ step[r] \in {"keep", "send"} => token[r] > rejected[r]
    BY DEF RejectedTokenIsGone
  <1>3. ASSUME NEW q \in Requests, UseCached(q)
        PROVE  RejectedTokenIsGone'
    BY <1>0, <1>1, <1>2, <1>3 DEF UseCached, At, Take, Go, memory, RejectedTokenIsGone
  <1>4. ASSUME NEW q \in Requests, Fetch(q)
        PROVE  RejectedTokenIsGone'
    <2>1. /\ fetched' = fetched + 1 /\ token' = [token EXCEPT ![q] = fetched + 1]
          /\ step' = [step EXCEPT ![q] = "keep"] /\ step[q] = "fetch"
          /\ UNCHANGED <<cached, rejected>>
      BY <1>4 DEF Fetch, At, Take, Go
    <2>2. \A r \in Requests : rejected[r] # None => rejected[r] <= fetched
      BY DEF OrderInv
    <2> QED
      BY <1>0, <1>1, <1>2, <2>1, <2>2 DEF RejectedTokenIsGone
  <1>5. ASSUME NEW q \in Requests, Keep(q)
        PROVE  RejectedTokenIsGone'
    <2>1. /\ cached' = token[q] /\ step[q] = "keep" /\ step' = [step EXCEPT ![q] = "send"]
          /\ UNCHANGED <<token, rejected>>
      BY <1>5 DEF Keep, At, Go
    <2>2. \A r \in Requests : rejected[r] # None => rejected[r] < token[q]
      BY <2>1 DEF OrderInv
    <2>3. token[q] \in Nat
      BY <1>0, <2>1 DEF SendInv
    <2> QED
      BY <1>0, <1>1, <1>2, <2>1, <2>2, <2>3 DEF RejectedTokenIsGone
  <1>6. ASSUME NEW q \in Requests, Send(q)
        PROVE  RejectedTokenIsGone'
    <2>1. /\ \/ step' = [step EXCEPT ![q] = "clear"]
             \/ step' = [step EXCEPT ![q] = "done"] /\ UNCHANGED rejected
          /\ \A r \in Requests \ {q} : rejected'[r] = rejected[r]
          /\ step[q] = "send"
          /\ UNCHANGED <<token, cached>>
      BY <1>1, <1>6 DEF Send, At, Go, Ends, memory
    <2> QED
      BY <1>1, <1>2, <2>1 DEF RejectedTokenIsGone
  <1>7. ASSUME NEW q \in Requests, Clear(q)
        PROVE  RejectedTokenIsGone'
    BY <1>1, <1>2, <1>7 DEF Clear, Cleared, Go, RejectedTokenIsGone
  <1>8. ASSUME NEW q \in Requests, Miss(q) \/ FetchFails(q) \/ Retry(q)
        PROVE  RejectedTokenIsGone'
    <2>1. /\ step' \in {[step EXCEPT ![q] = s] : s \in {"fetch", "done"}}
          /\ step[q] # "clear"
          /\ UNCHANGED <<token, cached, rejected>>
      BY <1>8 DEF Miss, FetchFails, Retry, At, Go, Ends, memory
    <2> QED
      BY <1>1, <1>2, <2>1 DEF RejectedTokenIsGone
  <1>9. CASE UNCHANGED <<step, token, cached, rejected>>
    BY <1>2, <1>9 DEF RejectedTokenIsGone
  <1> QED
    BY <1>3, <1>4, <1>5, <1>6, <1>7, <1>8, <1>9
    DEF Next, Expire, Refuse, memory, vars

\* A refused and cleared MiMo token never comes back to the memory, nor to the request that
\* cleared it, for any number of requests and tokens (getMimoJWT holds mimoMu over the
\* bootstrap).
THEOREM RejectedStaysGone == AllSpec => []RejectedTokenIsGone
  <1>1. AllInit => TokensInv
    BY TokensInit DEF AllInit
  <1>2. TokensInv /\ [AllNext]_AllVars => TokensInv'
    BY TokensSteps, TypesNext, LockNext, OrderNext, RejectedNext DEF TokensInv
  <1>3. TokensInv => RejectedTokenIsGone
    BY DEF TokensInv
  <1> QED
    BY <1>1, <1>2, <1>3, PTL DEF AllSpec

LEMMA Sizes ==
    /\ PanelSize \in Nat /\ MinPanel \in Nat \ {0} /\ Grace \in Nat /\ Hard \in Nat
    /\ ChanCap \in Nat /\ PanelTime \in Nat /\ None \notin Nat /\ None \notin FU!Results
  BY PanelAssumption, TokensAssumption DEF FU!Results

PanelTypes ==
    /\ call \in [FU!Panel -> {"running", "handing", "ended"}]
    /\ held \in [FU!Panel -> FU!Results \cup {None}]
    /\ results \in [FU!Panel -> FU!Results \cup {None}]
    /\ ch \in Seq(FU!Panel)

\* What is in the channel was handed over once and has not been taken.
Queued ==
    /\ \A i, j \in DOMAIN ch : i # j => ch[i] # ch[j]
    /\ \A i \in DOMAIN ch : call[ch[i]] = "ended" /\ results[ch[i]] = None
    /\ \A p \in FU!Panel : /\ call[p] # "ended" => results[p] = None
                           /\ call[p] # "running" => held[p] \in FU!Results

\* The grace period begins with the quorum, and the quorum is counted right.
Quorum ==
    /\ okCount = Cardinality(FU!Oks)
    /\ IF Cardinality(FU!Oks) < MinPanel THEN quorumAt = None /\ graceEnd = None
       ELSE quorumAt \in Nat /\ quorumAt <= fuNow /\ graceEnd = quorumAt + Grace

DueAt == IF quorumAt # None /\ quorumAt + Grace < Hard THEN quorumAt + Grace ELSE Hard

\* The clock has not passed the end of a collection that is on.
Timely ==
    /\ fuNow \in Nat
    /\ fuPc = "collecting" => endedAt = None /\ fuNow <= DueAt
    /\ fuPc # "collecting" => /\ endedAt \in Nat
                              /\ FU!Settled < PanelSize => endedAt = DueAt

FusionInv == PanelTypes /\ Queued /\ Quorum /\ Timely

-----------------------------------------------------------------------------
LEMMA PanelSets ==
   /\ IsFiniteSet(FU!Panel) /\ Cardinality(FU!Panel) = PanelSize
           /\ \A S \in SUBSET FU!Panel :
                /\ IsFiniteSet(S) /\ Cardinality(S) \in Nat /\ Cardinality(S) <= PanelSize
                /\ \A p \in FU!Panel : p \notin S => Cardinality(S \cup {p}) = Cardinality(S) + 1
  <1>1. IsFiniteSet(1 .. PanelSize) /\ Cardinality(1 .. PanelSize) = PanelSize
    <2>1. PanelSize \in Nat
      BY Sizes
    <2> QED
      BY <2>1, FS_Interval
  <1>2. IsFiniteSet(FU!Panel) /\ Cardinality(FU!Panel) = PanelSize
    BY <1>1 DEF FU!Panel
  <1>3. ASSUME NEW S \in SUBSET FU!Panel
        PROVE  /\ IsFiniteSet(S) /\ Cardinality(S) \in Nat /\ Cardinality(S) <= PanelSize
               /\ \A p \in FU!Panel : p \notin S => Cardinality(S \cup {p}) = Cardinality(S) + 1
    <2>1. IsFiniteSet(S) /\ Cardinality(S) <= Cardinality(FU!Panel)
      BY <1>2, FS_Subset
    <2>2. Cardinality(S) \in Nat
      BY <2>1, FS_CardinalityType
    <2>3. \A p \in FU!Panel : p \notin S => Cardinality(S \cup {p}) = Cardinality(S) + 1
      BY <2>1, FS_AddElement
    <2> QED
      BY <1>2, <2>1, <2>2, <2>3
  <1> QED
    BY <1>2, <1>3

\* The first result of the channel leaves it: the others keep their places, one further on.
LEMMA Front ==
    ASSUME PanelTypes, Queued, ch # <<>>
    PROVE  /\ Head(ch) \in FU!Panel /\ call[Head(ch)] = "ended" /\ results[Head(ch)] = None
           /\ held[Head(ch)] \in FU!Results
           /\ Tail(ch) \in Seq(FU!Panel)
           /\ \A i, j \in DOMAIN Tail(ch) : i # j => Tail(ch)[i] # Tail(ch)[j]
           /\ \A i \in DOMAIN Tail(ch) : /\ Tail(ch)[i] \in FU!Panel /\ Tail(ch)[i] # Head(ch)
                                         /\ call[Tail(ch)[i]] = "ended"
                                         /\ results[Tail(ch)[i]] = None
  <1>1. ch \in Seq(FU!Panel) /\ ch # <<>>
    BY DEF PanelTypes
  <1>2. /\ Head(ch) = ch[1] /\ 1 \in DOMAIN ch /\ ch[1] \in FU!Panel
        /\ Tail(ch) \in Seq(FU!Panel)
        /\ \A i \in DOMAIN Tail(ch) : /\ i + 1 \in DOMAIN ch /\ Tail(ch)[i] = ch[i + 1]
                                      /\ Tail(ch)[i] \in FU!Panel
                                      /\ i \in Nat /\ i + 1 # 1
    BY <1>1
  <1>3. /\ call[ch[1]] = "ended" /\ results[ch[1]] = None
        /\ held[ch[1]] \in FU!Results
    BY <1>2 DEF Queued
  <1>4. ASSUME NEW i \in DOMAIN Tail(ch)
        PROVE  /\ Tail(ch)[i] # Head(ch) /\ call[Tail(ch)[i]] = "ended"
               /\ results[Tail(ch)[i]] = None
    BY <1>2 DEF Queued
  <1>5. ASSUME NEW i \in DOMAIN Tail(ch), NEW j \in DOMAIN Tail(ch), i # j
        PROVE  Tail(ch)[i] # Tail(ch)[j]
    <2>1. i + 1 # j + 1 /\ i + 1 \in DOMAIN ch /\ j + 1 \in DOMAIN ch
      BY <1>2, <1>5
    <2> QED
      BY <1>2, <2>1 DEF Queued
  <1> QED
    BY <1>2, <1>3, <1>4, <1>5

LEMMA FusionInit == FU!Init => FusionInv
  <1> SUFFICES ASSUME FU!Init PROVE FusionInv
    OBVIOUS
  <1>1. PanelTypes /\ Queued
    BY DEF FU!Init, PanelTypes, Queued
  <1>2. FU!Oks = {}
    BY DEF FU!Init, FU!Oks, FU!Taken
  <1>3. Cardinality({}) = 0
    BY FS_EmptySet
  <1>4. Quorum
    BY <1>2, <1>3, Sizes DEF FU!Init, Quorum
  <1>5. Timely
    BY Sizes DEF FU!Init, Timely, DueAt
  <1> QED
    BY <1>1, <1>4, <1>5 DEF FusionInv

\* A step of a call touches neither the quorum nor the clock.
LEMMA CallKeeps ==
    ASSUME FusionInv, UNCHANGED <<fuNow, results, okCount, graceEnd, fuPc, quorumAt, endedAt>>
    PROVE  Quorum' /\ Timely'
  <1>1. FU!Oks' = FU!Oks /\ FU!Settled' = FU!Settled /\ DueAt' = DueAt
    BY DEF FU!Oks, FU!Settled, FU!Taken, DueAt
  <1> QED
    BY <1>1 DEF FusionInv, Quorum, Timely

LEMMA FinishKeeps ==
    ASSUME FusionInv, NEW p \in FU!Panel, NEW res \in FU!Results, FU!Finish(p, res)
    PROVE  FusionInv'
  <1>1. Quorum' /\ Timely'
    BY CallKeeps DEF FU!Finish
  <1>2. PanelTypes'
    BY DEF FU!Finish, FusionInv, PanelTypes
  <1>3. Queued'
    BY DEF FU!Finish, FusionInv, PanelTypes, Queued
  <1> QED
    BY <1>1, <1>2, <1>3 DEF FusionInv

LEMMA HandOverKeeps ==
    ASSUME FusionInv, NEW p \in FU!Panel, FU!HandOver(p)
    PROVE  FusionInv'
  <1>1. Quorum' /\ Timely'
    BY CallKeeps DEF FU!HandOver
  <1>2. /\ call[p] = "handing" /\ call' = [call EXCEPT ![p] = "ended"]
        /\ ch' = Append(ch, p) /\ UNCHANGED <<held, results>>
    BY DEF FU!HandOver
  <1>3. ch \in Seq(FU!Panel) /\ results[p] = None
    BY <1>2 DEF FusionInv, PanelTypes, Queued
  <1>4. PanelTypes'
    BY <1>2, <1>3 DEF FusionInv, PanelTypes
  <1>5. /\ DOMAIN ch' = DOMAIN ch \cup {Len(ch) + 1} /\ Len(ch) + 1 \notin DOMAIN ch
        /\ \A i \in DOMAIN ch : ch'[i] = ch[i] /\ ch[i] \in FU!Panel
        /\ ch'[Len(ch) + 1] = p
    BY <1>2, <1>3
  <1>6. \A i \in DOMAIN ch : ch[i] # p
    BY <1>2 DEF FusionInv, Queued
  <1>7. Queued'
    BY <1>2, <1>3, <1>5, <1>6 DEF FusionInv, PanelTypes, Queued
  <1> QED
    BY <1>1, <1>4, <1>7 DEF FusionInv

LEMMA ReceiveKeeps ==
    ASSUME FusionInv, FU!Receive
    PROVE  FusionInv'
  <1> DEFINE p == Head(ch)
  <1>1. /\ fuPc = "collecting" /\ ch # <<>> /\ ch' = Tail(ch)
        /\ results' = [results EXCEPT ![p] = held[p]]
        /\ UNCHANGED <<fuNow, call, held>>
    BY DEF FU!Receive
  <1>2. /\ p \in FU!Panel /\ call[p] = "ended" /\ results[p] = None /\ held[p] \in FU!Results
        /\ Tail(ch) \in Seq(FU!Panel)
        /\ \A i, j \in DOMAIN Tail(ch) : i # j => Tail(ch)[i] # Tail(ch)[j]
        /\ \A i \in DOMAIN Tail(ch) : /\ Tail(ch)[i] \in FU!Panel /\ Tail(ch)[i] # p
                                      /\ call[Tail(ch)[i]] = "ended"
                                      /\ results[Tail(ch)[i]] = None
    BY <1>1, Front DEF FusionInv
  <1>3. /\ okCount' = okCount + FU!Counted(held[p])
        /\ graceEnd' = IF FU!Ok(held[p]) THEN FU!GraceAfter(okCount + FU!Counted(held[p])) ELSE graceEnd
        /\ quorumAt' = IF quorumAt = None /\ Cardinality(FU!Oks \cup {q \in {p} : FU!Ok(held[q])}) >= MinPanel
                       THEN fuNow ELSE quorumAt
        /\ IF FU!Settled + 1 = PanelSize THEN fuPc' = "weighing" /\ endedAt' = fuNow
           ELSE UNCHANGED <<fuPc, endedAt>>
    BY Counting DEF FU!Receive
  <1> HIDE DEF p
  <1>4. PanelTypes'
    BY <1>1, <1>2 DEF FusionInv, PanelTypes
  <1>5. Queued'
    BY <1>1, <1>2 DEF FusionInv, PanelTypes, Queued
  <1>6. /\ FU!Oks' = IF FU!Ok(held[p]) THEN FU!Oks \cup {p} ELSE FU!Oks
        /\ FU!Oks \cup {q \in {p} : FU!Ok(held[q])} = IF FU!Ok(held[p]) THEN FU!Oks \cup {p} ELSE FU!Oks
        /\ FU!Oks \in SUBSET FU!Panel /\ p \notin FU!Oks
    BY <1>1, <1>2, Sizes DEF FusionInv, PanelTypes, FU!Oks, FU!Taken
  <1>7. /\ Cardinality(FU!Oks) \in Nat
        /\ Cardinality(FU!Oks)' = Cardinality(FU!Oks) + (IF FU!Ok(held[p]) THEN 1 ELSE 0)
        /\ Cardinality(FU!Oks \cup {q \in {p} : FU!Ok(held[q])}) = Cardinality(FU!Oks)'
    <2>1. Cardinality(FU!Oks) \in Nat /\ Cardinality(FU!Oks \cup {p}) = Cardinality(FU!Oks) + 1
      BY <1>2, <1>6, PanelSets
    <2>2. CASE FU!Ok(held[p])
      BY <1>6, <2>1, <2>2
    <2>3. CASE ~FU!Ok(held[p])
      <3>1. FU!Oks' = FU!Oks /\ FU!Oks \cup {q \in {p} : FU!Ok(held[q])} = FU!Oks
        BY <1>6, <2>3
      <3>2. Cardinality(FU!Oks) + 0 = Cardinality(FU!Oks)
        BY <2>1
      <3> QED
        BY <2>1, <2>3, <3>1, <3>2
    <2> QED
      BY <2>2, <2>3
  <1>8. /\ FU!Settled \in Nat /\ FU!Settled' = FU!Settled + 1
    <2>1. /\ {q \in FU!Panel : FU!Taken(q)}' = {q \in FU!Panel : FU!Taken(q)} \cup {p}
          /\ p \notin {q \in FU!Panel : FU!Taken(q)}
      BY <1>1, <1>2, Sizes DEF FusionInv, PanelTypes, FU!Taken
    <2>2. {q \in FU!Panel : FU!Taken(q)} \in SUBSET FU!Panel
      OBVIOUS
    <2> QED
      BY <1>2, <2>1, <2>2, PanelSets, Counting DEF FU!Settled
  <1>9. fuNow \in Nat /\ fuNow' = fuNow /\ MinPanel \in Nat /\ Grace \in Nat /\ Hard \in Nat /\ None \notin Nat
    BY <1>1, Sizes DEF FusionInv, Timely
  <1>10. okCount = Cardinality(FU!Oks)
    BY DEF FusionInv, Quorum
  <1>11. /\ quorumAt' = IF quorumAt = None /\ Cardinality(FU!Oks)' >= MinPanel THEN fuNow ELSE quorumAt
         /\ graceEnd' = IF FU!Ok(held[p]) /\ Cardinality(FU!Oks)' >= MinPanel /\ graceEnd = None
                        THEN fuNow + Grace ELSE graceEnd
         /\ okCount' = Cardinality(FU!Oks)'
    BY <1>3, <1>7, <1>10 DEF FU!GraceAfter, FU!Counted
  <1>12. IF Cardinality(FU!Oks) < MinPanel THEN quorumAt = None /\ graceEnd = None
         ELSE quorumAt \in Nat /\ quorumAt <= fuNow /\ graceEnd = quorumAt + Grace
    BY DEF FusionInv, Quorum
  <1>13. Quorum'
    <2>1. IF Cardinality(FU!Oks)' < MinPanel THEN quorumAt' = None /\ graceEnd' = None
          ELSE quorumAt' \in Nat /\ quorumAt' <= fuNow /\ graceEnd' = quorumAt' + Grace
      BY <1>7, <1>9, <1>11, <1>12
    <2> QED
      BY <1>9, <1>11, <2>1 DEF Quorum
  <1>14. fuNow <= DueAt /\ endedAt = None
    BY <1>1 DEF FusionInv, Timely
  <1>15. fuNow <= DueAt'
    <2>1. fuNow <= Hard
      BY <1>9, <1>12, <1>14, <1>7 DEF DueAt
    <2>2. CASE quorumAt' = quorumAt
      BY <1>14, <2>2 DEF DueAt
    <2>3. CASE quorumAt' = fuNow
      BY <1>9, <2>1, <2>3 DEF DueAt
    <2> QED
      BY <1>11, <2>2, <2>3
  <1>16. Timely'
    BY <1>1, <1>3, <1>8, <1>9, <1>14, <1>15, PanelSets, Sizes DEF Timely
  <1> QED
    BY <1>4, <1>5, <1>13, <1>16 DEF FusionInv

LEMMA TimeOutKeeps ==
    ASSUME FusionInv, FU!TimeOut
    PROVE  FusionInv'
  <1>1. /\ fuPc = "collecting" /\ (FU!GraceOver \/ FU!HardOver) /\ fuPc' = "weighing" /\ endedAt' = fuNow
        /\ UNCHANGED <<fuNow, call, held, ch, results, okCount, graceEnd, quorumAt>>
    BY DEF FU!TimeOut
  <1>2. PanelTypes' /\ Queued' /\ Quorum'
    BY <1>1 DEF FusionInv, PanelTypes, Queued, Quorum, FU!Oks, FU!Taken
  <1>3. fuNow = DueAt
    <2>1. fuNow \in Nat /\ fuNow <= DueAt
      BY <1>1 DEF FusionInv, Timely
    <2>2. CASE FU!HardOver
      BY <2>1, <2>2, Sizes DEF FU!HardOver, DueAt, FusionInv, Quorum
    <2>3. CASE FU!GraceOver
      <3>1. graceEnd # None /\ fuNow >= graceEnd
        BY <2>3 DEF FU!GraceOver
      <3>2. quorumAt \in Nat /\ graceEnd = quorumAt + Grace
        BY <3>1 DEF FusionInv, Quorum
      <3> QED
        BY <2>1, <3>1, <3>2, Sizes DEF DueAt
    <2> QED
      BY <1>1, <2>2, <2>3
  <1>4. Timely'
    BY <1>1, <1>3 DEF FusionInv, Timely, DueAt
  <1> QED
    BY <1>2, <1>4 DEF FusionInv

LEMMA TickKeeps ==
    ASSUME FusionInv, FU!Tick
    PROVE  FusionInv'
  <1>1. /\ ~FU!Ready /\ fuNow' = fuNow + 1
        /\ UNCHANGED <<call, held, ch, results, okCount, graceEnd, fuPc, quorumAt, endedAt>>
    BY DEF FU!Tick
  <1>2. fuNow \in Nat
    BY DEF FusionInv, Timely
  <1>3. PanelTypes' /\ Queued'
    BY <1>1 DEF FusionInv, PanelTypes, Queued
  <1>4. FU!Oks' = FU!Oks /\ FU!Settled' = FU!Settled /\ DueAt' = DueAt
    BY <1>1 DEF FU!Oks, FU!Settled, FU!Taken, DueAt
  <1>5. Quorum'
    BY <1>1, <1>2, <1>4 DEF FusionInv, Quorum
  <1>6. ASSUME fuPc = "collecting" PROVE fuNow + 1 <= DueAt
    <2>1. ~FU!GraceOver /\ ~FU!HardOver
      BY <1>1, <1>6 DEF FU!Ready
    <2>2. quorumAt # None => quorumAt \in Nat /\ graceEnd = quorumAt + Grace
      BY DEF FusionInv, Quorum
    <2> QED
      BY <1>2, <2>1, <2>2, Sizes DEF FU!GraceOver, FU!HardOver, DueAt
  <1>7. Timely'
    BY <1>1, <1>2, <1>4, <1>6 DEF FusionInv, Timely
  <1> QED
    BY <1>3, <1>5, <1>7 DEF FusionInv

LEMMA WeighKeeps ==
    ASSUME FusionInv, FU!Weigh
    PROVE  FusionInv'
  <1>1. /\ fuPc = "weighing" /\ fuPc' = "done"
        /\ UNCHANGED <<fuNow, call, held, ch, results, okCount, graceEnd, quorumAt, endedAt>>
    BY DEF FU!Weigh
  <1>2. FU!Settled' = FU!Settled /\ DueAt' = DueAt
    BY <1>1 DEF FU!Settled, FU!Taken, DueAt
  <1>3. PanelTypes' /\ Queued' /\ Quorum'
    BY <1>1 DEF FusionInv, PanelTypes, Queued, Quorum, FU!Oks, FU!Taken
  <1>4. Timely'
    BY <1>1, <1>2 DEF FusionInv, Timely
  <1> QED
    BY <1>3, <1>4 DEF FusionInv

LEMMA FusionNext == FusionInv /\ [FU!Next]_FU!vars => FusionInv'
  <1> SUFFICES ASSUME FusionInv, [FU!Next]_FU!vars PROVE FusionInv'
    OBVIOUS
  <1>1. CASE UNCHANGED FU!vars
    <2>1. UNCHANGED <<fuNow, call, held, ch, results, okCount, graceEnd, fuPc, quorumAt, endedAt>>
      BY <1>1 DEF FU!vars
    <2>2. Quorum' /\ Timely'
      BY <2>1, CallKeeps
    <2> QED
      BY <2>1, <2>2 DEF FusionInv, PanelTypes, Queued
  <1> QED
    BY <1>1, FinishKeeps, HandOverKeeps, ReceiveKeeps, TimeOutKeeps, WeighKeeps, TickKeeps
       DEF FU!Next, FU!Collect

\* What the type invariant says beyond FusionInv.
PanelBounds ==
    /\ fuNow \in 0 .. PanelTime /\ Len(ch) <= ChanCap
    /\ fuPc \in {"collecting", "weighing", "done"}
    /\ outcome \in {None, "unavailable", "single", "judged", "bad gateway"}

LEMMA BoundsInit == FU!Init => PanelBounds
  <1> SUFFICES ASSUME FU!Init PROVE PanelBounds
    OBVIOUS
  <1>1. Len(<<>>) = 0 /\ 0 \in 0 .. PanelTime
    BY Sizes
  <1> QED
    BY <1>1, Sizes DEF FU!Init, PanelBounds

LEMMA BoundsNext == FusionInv /\ PanelBounds /\ [FU!Next]_FU!vars => PanelBounds'
  <1> SUFFICES ASSUME FusionInv, PanelBounds, [FU!Next]_FU!vars PROVE PanelBounds'
    OBVIOUS
  <1>1. fuNow' \in 0 .. PanelTime
    <2>1. fuNow \in 0 .. PanelTime
      BY DEF PanelBounds
    <2>2. fuNow' = fuNow \/ (fuNow' = fuNow + 1 /\ fuNow < PanelTime)
      BY DEF FU!Next, FU!Finish, FU!HandOver, FU!Collect, FU!Receive, FU!TimeOut, FU!Weigh, FU!Tick,
         FU!vars
    <2> QED
      BY <2>1, <2>2, Sizes
  <1>2. Len(ch') <= ChanCap
    <2>1. ch \in Seq(FU!Panel) /\ Len(ch) <= ChanCap
      BY DEF FusionInv, PanelTypes, PanelBounds
    <2>2. \/ ch' = ch
          \/ \E p \in FU!Panel : ch' = Append(ch, p) /\ Len(ch) < ChanCap
          \/ ch # <<>> /\ ch' = Tail(ch)
      BY DEF FU!Next, FU!Finish, FU!HandOver, FU!HasRoom, FU!Collect, FU!Receive, FU!TimeOut, FU!Weigh,
         FU!Tick, FU!vars
    <2> QED
      BY <2>1, <2>2, Sizes
  <1>3. fuPc' \in {"collecting", "weighing", "done"}
    BY DEF PanelBounds, FU!Next, FU!Finish, FU!HandOver, FU!Collect, FU!Receive, FU!TimeOut, FU!Weigh,
       FU!Tick, FU!vars
  <1>4. outcome' \in {None, "unavailable", "single", "judged", "bad gateway"}
    BY DEF PanelBounds, FU!Next, FU!Finish, FU!HandOver, FU!Collect, FU!Receive, FU!TimeOut, FU!Weigh,
       FU!Tick, FU!vars
  <1> QED
    BY <1>1, <1>2, <1>3, <1>4 DEF PanelBounds

LEMMA PanelTypeOK == FusionInv /\ PanelBounds => FU!TypeOK
  <1> SUFFICES ASSUME FusionInv, PanelBounds PROVE FU!TypeOK
    OBVIOUS
  <1>1. graceEnd \in Nat \cup {None} /\ quorumAt \in Nat \cup {None} /\ endedAt \in Nat \cup {None}
    <2>1. quorumAt \in Nat \cup {None}
      BY DEF FusionInv, Quorum
    <2>2. graceEnd \in Nat \cup {None}
      BY Sizes DEF FusionInv, Quorum
    <2>3. endedAt \in Nat \cup {None}
      BY DEF FusionInv, Timely
    <2> QED
      BY <2>1, <2>2, <2>3
  <1>2. okCount = Cardinality(FU!Oks)
    BY DEF FusionInv, Quorum
  <1>3. \A i, j \in DOMAIN ch : i # j => ch[i] # ch[j]
    BY DEF FusionInv, Queued
  <1> QED
    BY <1>1, <1>2, <1>3, Counting DEF FusionInv, PanelTypes, PanelBounds, FU!TypeOK

LEMMA PanelEnds == FusionInv => FU!EndsOnTime
  BY Sizes DEF FusionInv, Timely, FU!EndsOnTime, DueAt

\* collectPanel returns when the grace period is over, or at the hard timeout if that is
\* earlier or there is no quorum, unless every call has been taken: for any panel and any times.
THEOREM FusionEndsOnTime == AllSpec => []EndsOnTime
  <1>1. AllInit => FusionInv
    BY FusionInit DEF AllInit
  <1>2. FusionInv /\ [AllNext]_AllVars => FusionInv'
    BY FusionSteps, FusionNext
  <1>3. FusionInv => EndsOnTime
    BY PanelEnds DEF EndsOnTime
  <1> QED
    BY <1>1, <1>2, <1>3, PTL DEF AllSpec

\* Where a connection stands between taking the lock of the domain and answering.
Inside == {"locked", "making"}

\* Who is inside holds the lock, finds no certificate while it makes one, and what was
\* answered with is what the file holds.
LeafInv ==
    /\ DOMAIN phase = Conns /\ DOMAIN leafOf = Conns
    /\ \A c \in Conns : /\ phase[c] \in Inside => msLock = c
                        /\ phase[c] = "making" => leaf = None
                        /\ leafOf[c] # None => leafOf[c] = leaf

\* A step that leaves the certificates alone and lets nobody in or out.
LEMMA LeavesAlone ==
    ASSUME LeafInv, UNCHANGED MS!leaves, DOMAIN phase' = Conns,
           \A c \in Conns : phase'[c] = phase[c] \/ phase'[c] \notin Inside
    PROVE  LeafInv'
  BY DEF LeafInv, MS!leaves, Inside

LEMMA LeafNext ==
    ASSUME LeafInv, [MS!Next]_MS!vars
    PROVE  LeafInv'
  <1> USE ServerAssumption
  <1>1. ASSUME NEW c \in Conns, MS!LockLeaf(c)
        PROVE  LeafInv'
    <2>1. \A d \in Conns : phase[d] \notin Inside
      BY <1>1 DEF LeafInv, MS!LockLeaf, MS!LeafLockFree
    <2> QED
      BY <1>1, <2>1 DEF LeafInv, MS!LockLeaf, MS!Go, Inside
  <1>2. ASSUME NEW c \in Conns, MS!UseLeaf(c)
        PROVE  LeafInv'
    <2>1. phase[c] = "locked" /\ \A d \in Conns : d # c => phase[d] \notin Inside
      BY <1>2 DEF LeafInv, MS!UseLeaf, MS!Answer, MS!Go, Inside
    <2> QED
      BY <1>2, <2>1 DEF LeafInv, MS!UseLeaf, MS!Answer, MS!Go, Inside
  <1>3. ASSUME NEW c \in Conns, MS!FindNoLeaf(c)
        PROVE  LeafInv'
    BY <1>3 DEF LeafInv, MS!FindNoLeaf, MS!Go, MS!leaves, Inside
  <1>4. ASSUME NEW c \in Conns, MS!MakeLeaf(c)
        PROVE  LeafInv'
    <2>1. /\ phase[c] = "making" /\ leaf = None
          /\ \A d \in Conns : d # c => phase[d] \notin Inside
      BY <1>4 DEF LeafInv, MS!MakeLeaf, MS!Answer, MS!Go, Inside
    <2>2. \A d \in Conns : leafOf[d] = None
      BY <2>1 DEF LeafInv
    <2> QED
      BY <1>4, <2>1, <2>2 DEF LeafInv, MS!MakeLeaf, MS!Answer, MS!Go, Inside
  <1>5. ASSUME NEW c \in Conns, MS!NoLeaf(c)
        PROVE  LeafInv'
    <2>1. phase[c] = "making" /\ \A d \in Conns : d # c => phase[d] \notin Inside
      BY <1>5 DEF LeafInv, MS!NoLeaf, MS!Go, Inside
    <2> QED
      BY <1>5, <2>1 DEF LeafInv, MS!NoLeaf, MS!Go, Inside
  <1>6. ASSUME NEW c \in Conns,
               MS!Hello(c) \/ MS!Request(c) \/ MS!Refused(c) \/ MS!ReadFails(c) \/ MS!Fetched(c) \/ MS!Finish(c)
                 \/ MS!Connect(c) \/ MS!Accept(c)
        PROVE  LeafInv'
    <2>1. /\ UNCHANGED MS!leaves
          /\ phase' \in {[phase EXCEPT ![c] = p] :
                            p \in {"leaf", "fetching", "closing", "done", "queued", "accepted"}}
      BY <1>6
         DEF MS!Hello, MS!Request, MS!Refused, MS!ReadFails, MS!Fetched, MS!Finish, MS!Connect,
             MS!Accept, MS!Go
    <2>2. DOMAIN phase' = Conns /\ \A d \in Conns : phase'[d] = phase[d] \/ phase'[d] \notin Inside
      BY <2>1 DEF LeafInv, Inside
    <2> QED
      BY <2>1, <2>2, LeavesAlone
  <1>7. CASE MS!Stop
    <2>1. /\ UNCHANGED MS!leaves
          /\ phase' = [c \in Conns |-> IF phase[c] = "queued" THEN "done" ELSE phase[c]]
      BY <1>7 DEF MS!Stop
    <2> QED
      BY <2>1, LeavesAlone DEF Inside
  <1>8. CASE MS!Register
    <2>1. UNCHANGED MS!leaves /\ phase' = [phase EXCEPT ![loopAt] = "handshake"]
      BY <1>8 DEF MS!Register
    <2>2. DOMAIN phase' = Conns /\ \A d \in Conns : phase'[d] = phase[d] \/ phase'[d] \notin Inside
      BY <2>1 DEF LeafInv, Inside
    <2> QED
      BY <2>1, <2>2, LeavesAlone
  <1>9. CASE UNCHANGED <<phase, MS!leaves>>
    BY <1>9, LeavesAlone DEF LeafInv
  <1> QED
    BY <1>1, <1>2, <1>3, <1>4, <1>5, <1>6, <1>7, <1>8, <1>9
    DEF MS!Next, MS!Handler, MS!Loop, MS!Start, MS!Add, MS!AcceptFails, MS!Stopped, MS!vars, MS!leaves

LEMMA LeafIsOne == LeafInv => MS!OneLeafPerDomain
  <1> SUFFICES ASSUME LeafInv PROVE MS!OneLeafPerDomain
    OBVIOUS
  <1> DEFINE answered == {leafOf[c] : c \in Conns} \ {None}
  <1>1. answered \subseteq {leaf}
    BY DEF LeafInv
  <1>2. IsFiniteSet({leaf}) /\ Cardinality({leaf}) = 1
    BY FS_Singleton
  <1>3. Cardinality(answered) <= Cardinality({leaf})
    BY <1>1, <1>2, FS_Subset
  <1> QED
    BY <1>2, <1>3, Counting DEF MS!OneLeafPerDomain

LEMMA LeafInit == MS!Init => LeafInv
  BY DEF MS!Init, LeafInv, Inside

-----------------------------------------------------------------------------
\* The WaitGroup counts the goroutines that run, and the one about to start.
CountInv ==
    /\ loopAt = None <=> loop \notin {"adding", "registering"}
    /\ loopAt # None => phase[loopAt] = "accepted"
    /\ ~up /\ stop = "idle" => loop = "started"
    /\ count = Cardinality(MS!Running) + (IF loop = "registering" THEN 1 ELSE 0)

LEMMA RunningSets ==
    /\ IsFiniteSet(MS!Running) /\ Cardinality(MS!Running) \in Nat
    /\ \A c \in Conns : /\ c \notin MS!Running => Cardinality(MS!Running \cup {c}) = Cardinality(MS!Running) + 1
                        /\ c \in MS!Running => Cardinality(MS!Running \ {c}) = Cardinality(MS!Running) - 1
  <1>1. IsFiniteSet(MS!Running)
    BY ServerAssumption, FS_Subset DEF MS!Running
  <1> QED
    BY <1>1, FS_CardinalityType, FS_AddElement, FS_RemoveElement

LEMMA ServerInit == MS!Init => MS!TypeOK /\ CountInv
  <1> SUFFICES ASSUME MS!Init PROVE MS!TypeOK /\ CountInv
    OBVIOUS
  <1>1. 0 \in 0 .. MaxLeaves
    BY ServerAssumption
  <1>2. MS!TypeOK
    BY <1>1 DEF MS!Init, MS!TypeOK, MS!Handling
  <1>3. MS!Running = {}
    BY DEF MS!Init, MS!Running, MS!Handling
  <1>4. count = Cardinality(MS!Running) + 0
    BY <1>3, FS_EmptySet DEF MS!Init
  <1> QED
    BY <1>2, <1>4 DEF MS!Init, CountInv

\* A goroutine goes on, or one that has not started stays away: the count is not touched.
LEMMA CountStays ==
    ASSUME MS!TypeOK, CountInv, UNCHANGED <<loop, loopAt, count>>, stop' # "idle" \/ UNCHANGED <<up, stop>>,
           MS!Running' = MS!Running,
           loopAt # None => phase'[loopAt] = phase[loopAt]
    PROVE  CountInv'
  BY DEF CountInv

LEMMA ServerNext ==
    ASSUME MS!TypeOK, CountInv, [MS!Next]_MS!vars
    PROVE  MS!TypeOK' /\ CountInv'
  <1> USE ServerAssumption
  <1>a. count \in Nat /\ count = Cardinality(MS!Running) + (IF loop = "registering" THEN 1 ELSE 0)
    BY DEF CountInv, MS!TypeOK
  <1>b. DOMAIN phase = Conns /\ loopAt \in Conns \cup {None}
    BY DEF MS!TypeOK
  <1>1. CASE MS!Start
    <2>1. MS!Running' = MS!Running
      BY <1>1 DEF MS!Start, MS!Running
    <2> QED
      BY <1>1, <1>a, <2>1 DEF MS!Start, MS!TypeOK, CountInv, MS!leaves
  <1>2. ASSUME NEW c \in Conns, MS!Connect(c)
        PROVE  MS!TypeOK' /\ CountInv'
    <2>1. /\ phase[c] = "new" /\ phase' = [phase EXCEPT ![c] = "queued"]
          /\ UNCHANGED <<up, loop, loopAt, stop, known, active, closed, count, leafOf, msLock, leaf, serial>>
      BY <1>2 DEF MS!Connect, MS!server, MS!leaves
    <2>2. MS!Running' = MS!Running
      BY <1>b, <2>1 DEF MS!Running, MS!Handling
    <2>3. loopAt # None => phase'[loopAt] = phase[loopAt]
      BY <1>b, <2>1 DEF CountInv
    <2>4. CountInv'
      BY <2>1, <2>2, <2>3, CountStays
    <2> QED
      BY <2>1, <2>4 DEF MS!TypeOK
  <1>3. ASSUME NEW c \in Conns, MS!Accept(c)
        PROVE  MS!TypeOK' /\ CountInv'
    <2>1. /\ phase[c] = "queued" /\ phase' = [phase EXCEPT ![c] = "accepted"]
          /\ loop = "accepting" /\ loop' = "adding" /\ loopAt' = c
          /\ UNCHANGED <<up, stop, known, active, closed, count, leafOf, msLock, leaf, serial>>
      BY <1>3 DEF MS!Accept, MS!leaves
    <2>2. MS!Running' = MS!Running
      BY <1>b, <2>1 DEF MS!Running, MS!Handling
    <2>3. CountInv'
      BY <1>a, <1>b, <2>1, <2>2 DEF CountInv
    <2> QED
      BY <2>1, <2>3 DEF MS!TypeOK
  <1>4. CASE MS!Add
    <2>1. /\ loop = "adding" /\ loop' = "registering" /\ count' = count + 1
          /\ UNCHANGED <<up, loopAt, phase, active, closed, stop, known, leafOf, msLock, leaf, serial>>
      BY <1>4 DEF MS!Add, MS!leaves
    <2>2. MS!Running' = MS!Running
      BY <2>1 DEF MS!Running
    <2>3. CountInv'
      BY <1>a, <2>1, <2>2, RunningSets DEF CountInv
    <2> QED
      BY <1>a, <2>1, <2>3 DEF MS!TypeOK
  <1>5. CASE MS!Register
    <2>1. /\ loop = "registering" /\ loop' = "accepting" /\ loopAt' = None
          /\ active' = active \cup {loopAt} /\ phase' = [phase EXCEPT ![loopAt] = "handshake"]
          /\ UNCHANGED <<up, closed, count, stop, known, leafOf, msLock, leaf, serial>>
      BY <1>5 DEF MS!Register, MS!leaves
    <2>2. loopAt \in Conns /\ phase[loopAt] = "accepted"
      BY <1>b, <2>1 DEF CountInv
    <2>3. MS!Running' = MS!Running \cup {loopAt} /\ loopAt \notin MS!Running
      BY <1>b, <2>1, <2>2 DEF MS!Running, MS!Handling
    <2>4. Cardinality(MS!Running') = Cardinality(MS!Running) + 1
      BY <2>2, <2>3, RunningSets
    <2>5. CountInv'
      BY <1>a, <2>1, <2>4, RunningSets DEF CountInv
    <2> QED
      BY <2>1, <2>2, <2>5 DEF MS!TypeOK, MS!Handling
  <1>6. CASE MS!AcceptFails
    <2>1. /\ loop = "accepting" /\ loop' = "gone"
          /\ UNCHANGED <<up, loopAt, phase, active, closed, count, stop, known, leafOf, msLock, leaf, serial>>
      BY <1>6 DEF MS!AcceptFails, MS!leaves
    <2>2. MS!Running' = MS!Running
      BY <2>1 DEF MS!Running
    <2>3. CountInv'
      BY <1>a, <2>1, <2>2 DEF CountInv
    <2> QED
      BY <2>1, <2>3 DEF MS!TypeOK
  <1>7. ASSUME NEW c \in Conns, NEW from \in MS!Handling \ {"done"}, NEW to \in MS!Handling \ {"done"},
               MS!Go(c, from, to), leaf' \in 1 .. MaxLeaves \cup {None}, serial' \in 0 .. MaxLeaves,
               msLock' \in Conns \cup {None}, leafOf' \in [Conns -> 0 .. MaxLeaves \cup {None}]
        PROVE  MS!TypeOK' /\ CountInv'
    <2>1. /\ phase[c] = from /\ phase' = [phase EXCEPT ![c] = to]
          /\ UNCHANGED <<up, loop, loopAt, stop, known, active, closed, count>>
      BY <1>7 DEF MS!Go, MS!server
    <2>2. MS!Running' = MS!Running
      BY <1>b, <2>1 DEF MS!Running
    <2>3. loopAt # None => phase'[loopAt] = phase[loopAt]
      BY <1>b, <2>1 DEF CountInv, MS!Handling
    <2>4. CountInv'
      BY <2>1, <2>2, <2>3, CountStays
    <2> QED
      BY <1>7, <2>1, <2>4 DEF MS!TypeOK
  <1>8. ASSUME NEW c \in Conns,
               MS!Hello(c) \/ MS!Request(c) \/ MS!Refused(c) \/ MS!ReadFails(c) \/ MS!Fetched(c) \/ MS!LockLeaf(c)
                 \/ MS!FindNoLeaf(c) \/ MS!NoLeaf(c) \/ MS!UseLeaf(c)
        PROVE  MS!TypeOK' /\ CountInv'
    <2>1. leaf' = leaf /\ serial' = serial /\ msLock' \in {msLock, None, c}
      BY <1>8
         DEF MS!Hello, MS!Request, MS!Refused, MS!ReadFails, MS!Fetched, MS!LockLeaf, MS!FindNoLeaf,
             MS!NoLeaf, MS!UseLeaf,
                  MS!Answer, MS!leaves
    <2>2. leafOf' = leafOf \/ leafOf' = [leafOf EXCEPT ![c] = leaf]
      BY <1>8
         DEF MS!Hello, MS!Request, MS!Refused, MS!ReadFails, MS!Fetched, MS!LockLeaf, MS!FindNoLeaf,
             MS!NoLeaf, MS!UseLeaf,
                  MS!Answer, MS!leaves
    <2>3. leafOf' \in [Conns -> 0 .. MaxLeaves \cup {None}]
      <3>1. 1 .. MaxLeaves \subseteq 0 .. MaxLeaves
        OBVIOUS
      <3> QED
        BY <2>2, <3>1 DEF MS!TypeOK
    <2>4. \E from, to \in MS!Handling \ {"done"} : MS!Go(c, from, to)
      BY <1>8
         DEF MS!Hello, MS!Request, MS!Refused, MS!ReadFails, MS!Fetched, MS!LockLeaf, MS!FindNoLeaf,
             MS!NoLeaf, MS!UseLeaf,
                  MS!Answer, MS!Handling
    <2>5. /\ leaf' \in 1 .. MaxLeaves \cup {None} /\ serial' \in 0 .. MaxLeaves
          /\ msLock' \in Conns \cup {None}
      BY <2>1 DEF MS!TypeOK
    <2> QED
      BY <1>7, <2>3, <2>4, <2>5
  <1>9. ASSUME NEW c \in Conns, MS!MakeLeaf(c)
        PROVE  MS!TypeOK' /\ CountInv'
    <2>1. /\ MS!Go(c, "making", "reading") /\ msLock' = None
          /\ leafOf' = [leafOf EXCEPT ![c] = serial + 1]
          /\ leaf' = serial + 1 /\ serial' = serial + 1 /\ serial < MaxLeaves
      BY <1>9 DEF MS!MakeLeaf, MS!Answer
    <2>2. serial \in 0 .. MaxLeaves
      BY DEF MS!TypeOK
    <2>3. serial + 1 \in 0 .. MaxLeaves /\ serial + 1 \in 1 .. MaxLeaves
      BY <2>1, <2>2
    <2>4. leafOf' \in [Conns -> 0 .. MaxLeaves \cup {None}]
      BY <2>1, <2>3 DEF MS!TypeOK
    <2>5. "making" \in MS!Handling \ {"done"} /\ "reading" \in MS!Handling \ {"done"}
      BY DEF MS!Handling
    <2> QED
      BY <1>7, <2>1, <2>3, <2>4, <2>5
  <1>10. ASSUME NEW c \in Conns, MS!Finish(c)
         PROVE  MS!TypeOK' /\ CountInv'
    <2>1. /\ phase[c] = "closing" /\ phase' = [phase EXCEPT ![c] = "done"]
          /\ closed' = closed \cup {c} /\ active' = active \ {c} /\ count' = count - 1
          /\ UNCHANGED <<up, loop, loopAt, stop, known, leafOf, msLock, leaf, serial>>
      BY <1>10 DEF MS!Finish, MS!server, MS!leaves
    <2>2. MS!Running' = MS!Running \ {c} /\ c \in MS!Running
      BY <1>b, <2>1 DEF MS!Running, MS!Handling
    <2>3. Cardinality(MS!Running') = Cardinality(MS!Running) - 1 /\ Cardinality(MS!Running) \in Nat
      BY <2>2, RunningSets
    <2>4. IsFiniteSet(MS!Running') /\ Cardinality(MS!Running') \in Nat
      BY <2>2, RunningSets, FS_Subset, FS_CardinalityType
    <2>5. count' \in Nat /\ count' = Cardinality(MS!Running') + (IF loop' = "registering" THEN 1 ELSE 0)
      BY <1>a, <2>1, <2>3, <2>4
    <2>6. loopAt # None => phase'[loopAt] = phase[loopAt]
      BY <1>b, <2>1 DEF CountInv
    <2>7. CountInv'
      BY <2>1, <2>5, <2>6 DEF CountInv
    <2> QED
      BY <2>1, <2>5, <2>7 DEF MS!TypeOK, MS!Handling
  <1>11. CASE MS!Stop
    <2>1. /\ up' = FALSE /\ stop' = "waiting" /\ closed' = closed \cup active /\ known' = active
          /\ phase' = [c \in Conns |-> IF phase[c] = "queued" THEN "done" ELSE phase[c]]
          /\ UNCHANGED <<loop, loopAt, active, count, leafOf, msLock, leaf, serial>>
      BY <1>11 DEF MS!Stop, MS!SweptConns, MS!leaves
    <2>2. MS!Running' = MS!Running
      BY <1>b, <2>1 DEF MS!Running, MS!Handling
    <2>3. loopAt # None => phase'[loopAt] = phase[loopAt]
      BY <1>b, <2>1 DEF CountInv
    <2>4. CountInv'
      BY <2>1, <2>2, <2>3, CountStays
    <2> QED
      BY <2>1, <2>4 DEF MS!TypeOK, MS!Handling
  <1>12. CASE MS!Stopped \/ UNCHANGED MS!vars
    <2>1. /\ stop' \in {stop, "returned"}
          /\ UNCHANGED <<up, loop, loopAt, phase, active, closed, count, known, leafOf, msLock, leaf, serial>>
      BY <1>12 DEF MS!Stopped, MS!vars, MS!leaves
    <2>2. CountInv'
      BY <2>1, CountStays DEF MS!Running
    <2> QED
      BY <2>1, <2>2 DEF MS!TypeOK
  <1> QED
    BY <1>1, <1>2, <1>3, <1>4, <1>5, <1>6, <1>8, <1>9, <1>10, <1>11, <1>12
       DEF MS!Next, MS!Handler, MS!Loop

\* All connections of a domain get the leaf certificate that is in the cache, whichever of them
\* made it: GetOrCreateLeafCert holds the domain's lock from the look into the file until it has
\* written one.
THEOREM OneLeaf == AllSpec => []MS!OneLeafPerDomain
  <1>1. AllInit => LeafInv
    BY LeafInit DEF AllInit
  <1>2. LeafInv /\ [AllNext]_AllVars => LeafInv'
    BY ServerSteps, LeafNext
  <1>3. LeafInv => MS!OneLeafPerDomain
    BY LeafIsOne
  <1> QED
    BY <1>1, <1>2, <1>3, PTL DEF AllSpec

-----------------------------------------------------------------------------
(* The root certificate and its key. *)

\* The key is the file written last: one that parses is of the pair of the certificate, and
\* while a pair is written there is none.
PairInv ==
    /\ key \in SE!Generations => cert = key
    /\ sePc \in {"cert", "certing", "key", "keying"} => key \notin SE!Generations
    /\ sePc \in {"key", "keying"} => cert = pair
    /\ sePc \in {"hosts", "load"} => enables # 0

LEMMA PairInit == SE!Init => SE!TypeOK /\ PairInv
  <1> SUFFICES ASSUME SE!Init PROVE SE!TypeOK /\ PairInv
    OBVIOUS
  <1>1. None \notin SE!Generations
    BY SetupAssumption, TokensAssumption DEF SE!Generations
  <1>2. 0 \in 0 .. MaxEnables /\ 0 \in Nat
    BY SetupAssumption
  <1>3. hosts \in [SE!HostsEntries -> Nat]
    BY <1>2 DEF SE!Init
  <1> QED
    BY <1>1, <1>2, <1>3 DEF SE!Init, SE!TypeOK, PairInv

LEMMA PairNext ==
    ASSUME SE!TypeOK, PairInv, [SE!Next]_SE!vars
    PROVE  PairInv'
  <1>1. SE!Torn \notin SE!Generations /\ None \notin SE!Generations
    BY SetupAssumption, TokensAssumption DEF SE!Torn, SE!Generations
  <1>2. CASE SE!Enable \/ SE!AddHosts \/ SE!Disable \/ SE!RemoveHosts \/ SE!Killed \/ SE!StartServer \/ SE!Return \/ SE!InstallRootCA
    <2>1. enables \in Nat
      BY SetupAssumption DEF SE!TypeOK
    <2>2. /\ UNCHANGED <<cert, key, pair>>
          /\ \/ sePc' \notin {"cert", "certing", "key", "keying", "hosts", "load"} /\ enables' = enables
             \/ sePc' = "hosts" /\ enables' = enables + 1
             \/ sePc = "hosts" /\ sePc' = "load" /\ enables' = enables
      BY <1>2
         DEF SE!Enable, SE!AddHosts, SE!Disable, SE!RemoveHosts, SE!Killed, SE!StartServer, SE!Return,
             SE!InstallRootCA,
                  SE!Ends, SE!files
    <2> QED
      BY <2>1, <2>2 DEF PairInv
  <1>3. CASE SE!LoadCA
    BY <1>3 DEF SE!LoadCA, SE!Loads, PairInv
  <1>4. CASE SE!TruncateCert \/ SE!WriteCert \/ SE!TruncateKey \/ SE!WriteKey
    BY <1>1, <1>4
       DEF SE!TruncateCert, SE!WriteCert, SE!TruncateKey, SE!WriteKey, SE!Writes, SE!SkipsCert, PairInv
  <1>5. CASE SE!WriteFails
    BY <1>5 DEF SE!WriteFails, SE!Ends, SE!files, PairInv
  <1>6. CASE UNCHANGED SE!vars
    BY <1>6 DEF SE!vars, PairInv
  <1> QED
    BY <1>2, <1>3, <1>4, <1>5, <1>6 DEF SE!Next

LEMMA SetupTypes ==
    ASSUME SE!TypeOK, PairInv, [SE!Next]_SE!vars
    PROVE  SE!TypeOK'
  <1>1. hosts' \in [SE!HostsEntries -> Nat]
    <2>1. hosts \in [SE!HostsEntries -> Nat]
      BY DEF SE!TypeOK
    <2>2. hosts' \in {hosts, SE!Removed(hosts), [l \in SE!HostsEntries |-> hosts[l] + 1]}
      BY DEF SE!Next, SE!Enable, SE!AddHosts, SE!LoadCA, SE!TruncateCert, SE!WriteCert, SE!TruncateKey,
         SE!WriteKey, SE!Writes,
             SE!WriteFails, SE!InstallRootCA, SE!StartServer, SE!Return, SE!Disable, SE!RemoveHosts, SE!Killed, SE!Ends, SE!vars
    <2>3. SE!Removed(hosts) \in [SE!HostsEntries -> Nat]
      BY <2>1 DEF SE!Removed
    <2>4. [l \in SE!HostsEntries |-> hosts[l] + 1] \in [SE!HostsEntries -> Nat]
      BY <2>1
    <2> QED
      BY <2>1, <2>2, <2>3, <2>4
  <1>2. enables' \in 0 .. MaxEnables
    <2>1. enables \in 0 .. MaxEnables
      BY DEF SE!TypeOK
    <2>2. enables' = enables \/ (enables' = enables + 1 /\ enables < MaxEnables)
      BY DEF SE!Next, SE!Enable, SE!AddHosts, SE!LoadCA, SE!TruncateCert, SE!WriteCert, SE!TruncateKey,
         SE!WriteKey, SE!Writes,
             SE!WriteFails, SE!InstallRootCA, SE!StartServer, SE!Return, SE!Disable, SE!RemoveHosts, SE!Killed, SE!Ends, SE!vars
    <2> QED
      BY <2>1, <2>2, SetupAssumption
  <1>3. pair' \in SE!Generations \cup {None}
    <2>1. CASE SE!LoadCA
      <3>1. enables \in 0 .. MaxEnables /\ enables # 0
        BY <2>1 DEF SE!LoadCA, SE!TypeOK, PairInv
      <3>2. enables \in SE!Generations
        BY <3>1, SetupAssumption DEF SE!Generations
      <3> QED
        BY <2>1, <3>2 DEF SE!LoadCA, SE!TypeOK
    <2>2. CASE UNCHANGED pair
      BY <2>2 DEF SE!TypeOK
    <2> QED
      BY <2>1, <2>2
      DEF SE!Next, SE!Enable, SE!AddHosts, SE!TruncateCert, SE!WriteCert, SE!TruncateKey, SE!WriteKey,
          SE!Writes,
          SE!WriteFails, SE!InstallRootCA, SE!StartServer, SE!Return, SE!Disable, SE!RemoveHosts, SE!Killed, SE!Ends, SE!files, SE!vars
  <1>4. {cert, key}' \subseteq SE!Generations \cup {None, SE!Torn} /\ trusted' \in SE!Generations \cup {None}
    <2>1. cert' \in {cert, SE!Torn, pair} /\ key' \in {key, SE!Torn, pair} /\ trusted' \in {trusted, pair}
      BY DEF SE!Next, SE!Enable, SE!AddHosts, SE!LoadCA, SE!TruncateCert, SE!WriteCert, SE!TruncateKey,
         SE!WriteKey, SE!Writes,
             SE!SkipsCert, SE!WriteFails, SE!InstallRootCA, SE!StartServer, SE!Return, SE!Disable, SE!RemoveHosts, SE!Killed,
             SE!Ends, SE!files, SE!vars
    <2> QED
      BY <2>1 DEF SE!TypeOK
  <1>5. /\ sePc' \in SE!Steps \cup {"idle"} /\ listening' \in BOOLEAN
        /\ says' \in {None, "enabled", "disabled", "failed"}
    <2>1. sePc \in SE!Steps \cup {"idle"} /\ listening \in BOOLEAN /\ says \in {None, "enabled", "disabled", "failed"}
      BY DEF SE!TypeOK
    <2> QED
      BY <2>1
      DEF SE!Next, SE!Enable, SE!AddHosts, SE!LoadCA, SE!TruncateCert, SE!WriteCert, SE!TruncateKey,
          SE!WriteKey, SE!Writes, SE!Steps,
          SE!WriteFails, SE!InstallRootCA, SE!StartServer, SE!Return, SE!Disable, SE!RemoveHosts, SE!Killed, SE!Ends, SE!files, SE!vars
  <1> QED
    BY <1>1, <1>2, <1>3, <1>4, <1>5 DEF SE!TypeOK

LEMMA PairMatches == PairInv => SE!CAPairMatches
  BY DEF PairInv, SE!CAPairMatches, SE!Loads

\* The root certificate and the key are of one pair whenever both can be read, however often
\* enabling is broken off: saveRootCA writes the key last, and EnsureRootCA makes a new pair
\* unless both can be read.
THEOREM CAPairStaysMatched == AllSpec => []CAPairMatches
  <1>1. AllInit => SE!TypeOK /\ PairInv
    BY PairInit DEF AllInit
  <1>2. SE!TypeOK /\ PairInv /\ [AllNext]_AllVars => (SE!TypeOK /\ PairInv)'
    BY SetupSteps, SetupTypes, PairNext
  <1>3. SE!TypeOK /\ PairInv => CAPairMatches
    BY PairMatches DEF CAPairMatches
  <1> QED
    BY <1>1, <1>2, <1>3, PTL DEF AllSpec

-----------------------------------------------------------------------------
(* The headroom process. *)

\* While requests come one at a time, a process that runs is the one of the pid file, except before
\* the file is written, and of the request that is about to change it; once it was killed, none runs.
Managed ==
    ~met =>
      /\ \A q, r \in HE!Working : q = r
      /\ \A p \in HE!Pids : HE!Alive(p) =>
            /\ (\A r \in HE!Working : heStep[r] # "write") => pidFile = p
            /\ \A r \in HE!Working : /\ heStep[r] # "clear"
                                     /\ heStep[r] \in {"write", "watch", "term", "wait"} => pidOf[r] = p

LEMMA PidsAre == None \notin HE!Pids
  BY HeadroomAssumption, TokensAssumption DEF HE!Pids

LEMMA HeadroomInit == HE!Init => HE!TypeOK /\ Managed
  <1> SUFFICES ASSUME HE!Init PROVE HE!TypeOK /\ Managed
    OBVIOUS
  <1>1. HE!TypeOK
    BY DEF HE!Init, HE!TypeOK
  <1>2. HE!Working = {} /\ \A p \in HE!Pids : ~HE!Alive(p)
    BY DEF HE!Init, HE!Working, HE!Alive
  <1> QED
    BY <1>1, <1>2 DEF Managed

LEMMA HeadroomTypes ==
    ASSUME HE!TypeOK, [HE!Next]_HE!vars
    PROVE  HE!TypeOK'
  <1> USE DEF HE!At, HE!Go, HE!Reply
  <1>a. HE!ManagedPid \in HE!Pids \cup {None}
    BY DEF HE!ManagedPid, HE!TypeOK
  <1>b. \A p \in HE!Pids : HE!Killed(p) \in {"none", "up", "terming", "gone"}
    BY DEF HE!Killed, HE!TypeOK
  <1>1. CASE UNCHANGED HE!vars
    BY <1>1 DEF HE!TypeOK, HE!vars
  <1>2. CASE HE!RouterDies
    BY <1>2 DEF HE!RouterDies, HE!TypeOK
  <1>3. ASSUME NEW p \in HE!Pids, HE!Exit(p)
        PROVE  HE!TypeOK'
    BY <1>3 DEF HE!Exit, HE!TypeOK
  <1>4. ASSUME NEW r \in Requests, NEW k \in HE!Kinds, HE!Arrive(r, k)
        PROVE  HE!TypeOK'
    <2>1. met' \in BOOLEAN
      BY <1>4 DEF HE!Arrive, HE!TypeOK
    <2> QED
      BY <1>4, <2>1 DEF HE!Arrive, HE!TypeOK
  <1>5. ASSUME NEW r \in Requests, HE!AlreadyRunning(r) \/ HE!SpawnFails(r) \/ HE!EarlyExit(r) \/ HE!Started(r)
        PROVE  HE!TypeOK'
    <2>1. CASE HE!AlreadyRunning(r)
      BY <2>1, <1>a DEF HE!AlreadyRunning, HE!TypeOK
    <2>2. CASE HE!SpawnFails(r)
      BY <2>2, <1>a DEF HE!SpawnFails, HE!TypeOK
    <2>3. CASE HE!EarlyExit(r)
      BY <2>3, <1>a DEF HE!EarlyExit, HE!TypeOK
    <2>4. CASE HE!Started(r)
      BY <2>4, <1>a DEF HE!Started, HE!TypeOK
    <2> QED
      BY <1>5, <2>1, <2>2, <2>3, <2>4
  <1>6. ASSUME NEW r \in Requests, HE!Spawn(r)
        PROVE  HE!TypeOK'
    <2>1. PICK p \in HE!Pids : process' = [process EXCEPT ![p] = "up"] /\ pidOf' = [pidOf EXCEPT ![r] = p]
      BY <1>6 DEF HE!Spawn
    <2> QED
      BY <1>6, <2>1 DEF HE!Spawn, HE!TypeOK
  <1>7. ASSUME NEW r \in Requests, HE!WritePid(r)
        PROVE  HE!TypeOK'
    BY <1>7 DEF HE!WritePid, HE!TypeOK
  <1>8. ASSUME NEW r \in Requests, HE!NotRunning(r) \/ HE!Find(r) \/ HE!ClearPid(r)
        PROVE  HE!TypeOK'
    BY <1>8, <1>a DEF HE!NotRunning, HE!Find, HE!ClearPid, HE!TypeOK
  <1>9. ASSUME NEW r \in Requests, HE!Terminate(r)
        PROVE  HE!TypeOK'
    BY <1>9 DEF HE!Terminate, HE!TypeOK
  <1>10. ASSUME NEW r \in Requests, HE!Kill(r)
         PROVE  HE!TypeOK'
    <2>1. process' \in [HE!Pids -> {"none", "up", "terming", "gone"}]
      <3>1. process' = [process EXCEPT ![pidOf[r]] = HE!Killed(pidOf[r])] /\ pidOf[r] \in HE!Pids \cup {None}
        BY <1>10 DEF HE!Kill, HE!TypeOK
      <3> QED
        BY <1>b, <3>1, PidsAre DEF HE!TypeOK
    <2> QED
      BY <1>10, <2>1 DEF HE!Kill, HE!TypeOK
  <1> QED
    BY <1>1, <1>2, <1>3, <1>4, <1>5, <1>6, <1>7, <1>8, <1>9, <1>10 DEF HE!Next, HE!Handle

\* The request at work, if requests do not meet, is the only one.
LEMMA OnlyOne ==
    ASSUME HE!TypeOK, Managed, ~met, NEW r \in HE!Working, NEW s,
           heStep' = [heStep EXCEPT ![r] = s]
    PROVE  /\ HE!Working = {r} /\ r \in Requests
           /\ HE!Working' = (IF s \in {"none", "done"} THEN {} ELSE {r})
           /\ heStep'[r] = s
  <1>1. HE!Working = {r} /\ r \in Requests
    BY DEF Managed, HE!Working
  <1>2. DOMAIN heStep = Requests
    BY DEF HE!TypeOK
  <1>3. \A q \in Requests : q # r => heStep'[q] = heStep[q]
    BY <1>2
  <1>4. heStep'[r] = s
    BY <1>1, <1>2
  <1>5. \A q \in Requests : q # r => heStep[q] \in {"none", "done"}
    BY <1>1 DEF HE!Working
  <1> QED
    BY <1>1, <1>3, <1>4, <1>5 DEF HE!Working

LEMMA ManagedNext ==
    ASSUME HE!TypeOK, Managed, [HE!Next]_HE!vars
    PROVE  Managed'
  <1> SUFFICES ASSUME ~met' PROVE Managed'
    BY DEF Managed
  <1> USE PidsAre
  <1>a. met \in BOOLEAN /\ DOMAIN heStep = Requests /\ DOMAIN pidOf = Requests /\ DOMAIN process = HE!Pids
    BY DEF HE!TypeOK
  <1>b. ASSUME NEW r \in Requests, HE!Handle(r)
        PROVE  ~met /\ r \in HE!Working
    BY <1>b
       DEF HE!Handle, HE!AlreadyRunning, HE!Spawn, HE!SpawnFails, HE!WritePid, HE!EarlyExit, HE!Started,
           HE!NotRunning, HE!Find,
                HE!Terminate, HE!Kill, HE!ClearPid, HE!At, HE!Go, HE!Reply, HE!Working
  <1>c. ASSUME NEW r \in HE!Working, ~met, NEW p \in HE!Pids, HE!Alive(p), heStep[r] # "write"
        PROVE  pidFile = p /\ HE!ManagedPid = p
    <2>1. \A q \in HE!Working : q = r
      BY <1>c DEF Managed
    <2>2. pidFile = p
      BY <1>c, <2>1 DEF Managed
    <2> QED
      BY <1>c, <2>2 DEF HE!ManagedPid
  <1>1. CASE UNCHANGED HE!vars
    BY <1>1 DEF Managed, HE!vars, HE!Working, HE!Alive
  <1>2. CASE HE!RouterDies
    BY <1>2 DEF HE!RouterDies
  <1>3. ASSUME NEW p \in HE!Pids, HE!Exit(p)
        PROVE  Managed'
    <2>1. \A q \in HE!Pids : HE!Alive(q)' => HE!Alive(q)
      BY <1>3, <1>a DEF HE!Exit, HE!Alive
    <2> QED
      BY <1>3, <2>1 DEF HE!Exit, Managed, HE!Working
  <1>4. ASSUME NEW r \in Requests, NEW k \in HE!Kinds, HE!Arrive(r, k)
        PROVE  Managed'
    <2>1. HE!Working = {} /\ ~met
      BY <1>4, <1>a DEF HE!Arrive
    <2>2. HE!Working' \subseteq {r} /\ \A q \in HE!Working' : heStep'[q] \in {"look", "find"}
      BY <1>4, <1>a, <2>1 DEF HE!Arrive, HE!Working
    <2>3. \A p \in HE!Pids : HE!Alive(p) => pidFile = p
      BY <2>1 DEF Managed
    <2>4. pidFile' = pidFile /\ \A p \in HE!Pids : HE!Alive(p)' => HE!Alive(p)
      BY <1>4 DEF HE!Arrive, HE!Alive
    <2> QED
      BY <2>2, <2>3, <2>4 DEF Managed
  \* What each step of the request at work makes of the processes.
  <1>5. ASSUME NEW r \in HE!Working, NEW s, ~met, heStep' = [heStep EXCEPT ![r] = s],
               \A p \in HE!Pids : HE!Alive(p)' =>
                  /\ s # "write" => pidFile' = p
                  /\ s # "clear"
                  /\ s \in {"write", "watch", "term", "wait"} => pidOf'[r] = p
        PROVE  Managed'
    <2>1. HE!Working' \subseteq {r} /\ heStep'[r] = s /\ (s \notin {"none", "done"} => HE!Working' = {r})
      BY <1>5, OnlyOne
    <2> QED
      BY <1>5, <2>1 DEF Managed
  <1>6. ASSUME NEW r \in Requests, HE!AlreadyRunning(r) \/ HE!SpawnFails(r) \/ HE!Started(r)
        PROVE  Managed'
    <2>1. ~met /\ r \in HE!Working
      BY <1>6, <1>b DEF HE!Handle
    <2>2. /\ pidFile' = pidFile /\ heStep[r] # "write"
          /\ \A p \in HE!Pids : HE!Alive(p)' => HE!Alive(p)
      BY <1>6 DEF HE!AlreadyRunning, HE!SpawnFails, HE!Started, HE!At, HE!Reply, HE!Alive
    <2> QED
      <3>1. \A p \in HE!Pids : HE!Alive(p)' => pidFile' = p
        BY <1>c, <2>1, <2>2
      <3>2. heStep' = [heStep EXCEPT ![r] = "done"]
        BY <1>6 DEF HE!AlreadyRunning, HE!SpawnFails, HE!Started, HE!Reply
      <3>3. \A p \in HE!Pids : HE!Alive(p)' =>
                /\ "done" # "write" => pidFile' = p
                /\ "done" # "clear"
                /\ "done" \in {"write", "watch", "term", "wait"} => pidOf'[r] = p
        BY <3>1
      <3> HIDE DEF HE!Pids, HE!Alive
      <3> QED
        BY <1>5, <2>1, <3>2, <3>3
  <1>7. ASSUME NEW r \in Requests, HE!Spawn(r)
        PROVE  Managed'
    <2>1. ~met /\ r \in HE!Working
      BY <1>7, <1>b DEF HE!Handle
    <2>2. PICK p \in HE!Pids : process' = [process EXCEPT ![p] = "up"] /\ pidOf' = [pidOf EXCEPT ![r] = p]
      BY <1>7 DEF HE!Spawn
    <2>3. heStep' = [heStep EXCEPT ![r] = "write"] /\ heStep[r] = "look" /\ HE!ManagedPid = None
      BY <1>7 DEF HE!Spawn, HE!At, HE!Go
    <2>4. \A q \in HE!Pids : ~HE!Alive(q)
      BY <1>c, <2>1, <2>3
    <2>5. \A q \in HE!Pids : HE!Alive(q)' => q = p
      BY <1>a, <2>2, <2>4 DEF HE!Alive
    <2>6. pidOf'[r] = p
      BY <1>a, <2>2
    <2> QED
      BY <1>5, <2>1, <2>3, <2>5, <2>6
  <1>8. ASSUME NEW r \in Requests, HE!WritePid(r)
        PROVE  Managed'
    <2>1. ~met /\ r \in HE!Working /\ heStep[r] = "write"
      BY <1>8, <1>b DEF HE!Handle, HE!WritePid, HE!At
    <2>2. \A p \in HE!Pids : HE!Alive(p) => pidOf[r] = p
      BY <2>1 DEF Managed
    <2>3. CASE /\ pidFile' = pidOf[r] /\ heStep' = [heStep EXCEPT ![r] = "watch"] /\ process' = process
               /\ pidOf' = pidOf
      <3>1. \A p \in HE!Pids : HE!Alive(p)' => HE!Alive(p)
        BY <2>3 DEF HE!Alive
      <3> QED
        BY <1>5, <2>1, <2>2, <2>3, <3>1
    <2>4. CASE /\ process' = [process EXCEPT ![pidOf[r]] = "gone"] /\ heStep' = [heStep EXCEPT ![r] = "done"]
      <3>1. \A p \in HE!Pids : ~HE!Alive(p)'
        BY <1>a, <2>2, <2>4 DEF HE!Alive
      <3> QED
        BY <1>5, <2>1, <2>4, <3>1
    <2> QED
      BY <1>8, <2>3, <2>4 DEF HE!WritePid, HE!Go, HE!Reply
  <1>9. ASSUME NEW r \in Requests, HE!EarlyExit(r)
        PROVE  Managed'
    <2>1. ~met /\ r \in HE!Working /\ heStep[r] = "watch"
      BY <1>9, <1>b DEF HE!Handle, HE!EarlyExit, HE!At
    <2>2. \A p \in HE!Pids : ~HE!Alive(p)
      BY <1>9, <2>1 DEF Managed, HE!EarlyExit
    <2>3. heStep' = [heStep EXCEPT ![r] = "done"] /\ \A p \in HE!Pids : ~HE!Alive(p)'
      BY <1>9, <2>2 DEF HE!EarlyExit, HE!Reply, HE!Alive
    <2> QED
      BY <1>5, <2>1, <2>3
  <1>10. ASSUME NEW r \in Requests, HE!NotRunning(r) \/ HE!Find(r)
         PROVE  Managed'
    <2>1. ~met /\ r \in HE!Working /\ heStep[r] = "find"
      BY <1>10, <1>b DEF HE!Handle, HE!NotRunning, HE!Find, HE!At
    <2>2. \A p \in HE!Pids : (HE!Alive(p)' => HE!Alive(p)) /\ pidFile' = pidFile
      BY <1>10 DEF HE!NotRunning, HE!Find, HE!Alive
    <2>3. \/ heStep' = [heStep EXCEPT ![r] = "done"] \/ heStep' = [heStep EXCEPT ![r] = "look"]
          \/ heStep' = [heStep EXCEPT ![r] = "term"] /\ pidOf'[r] = HE!ManagedPid
      BY <1>10, <1>a DEF HE!NotRunning, HE!Find, HE!Go, HE!Reply
    <2>4. \A p \in HE!Pids : HE!Alive(p) => pidFile = p /\ HE!ManagedPid = p
      BY <1>c, <2>1
    <2> QED
      BY <1>5, <2>1, <2>2, <2>3, <2>4
  <1>11. ASSUME NEW r \in Requests, HE!Terminate(r)
         PROVE  Managed'
    <2>1. ~met /\ r \in HE!Working /\ heStep[r] = "term"
      BY <1>11, <1>b DEF HE!Handle, HE!Terminate, HE!At
    <2>2. \A p \in HE!Pids : HE!Alive(p) => pidOf[r] = p /\ pidFile = p
      BY <1>c, <2>1 DEF Managed
    <2>3. pidOf' = pidOf
      BY <1>11 DEF HE!Terminate
    <2>4. CASE HE!Alive(pidOf[r])
      <3>1. /\ process' = [process EXCEPT ![pidOf[r]] = "terming"] /\ pidFile' = pidFile
            /\ heStep' = [heStep EXCEPT ![r] = "wait"]
        BY <1>11, <2>4 DEF HE!Terminate, HE!Go
      <3>2. \A p \in HE!Pids : HE!Alive(p)' => HE!Alive(p)
        BY <1>a, <2>4, <3>1 DEF HE!Alive
      <3> QED
        BY <1>5, <2>1, <2>2, <2>3, <3>1, <3>2
    <2>5. CASE ~HE!Alive(pidOf[r])
      <3>1. \A p \in HE!Pids : ~HE!Alive(p)
        BY <2>2, <2>5
      <3>2. process' = process /\ \E s \in {"done", "wait"} : heStep' = [heStep EXCEPT ![r] = s]
        BY <1>11, <2>5 DEF HE!Terminate, HE!Go, HE!Reply
      <3>3. \A p \in HE!Pids : ~HE!Alive(p)'
        BY <3>1, <3>2 DEF HE!Alive
      <3> QED
        BY <1>5, <2>1, <3>2, <3>3
    <2> QED
      BY <2>4, <2>5
  <1>12. ASSUME NEW r \in Requests, HE!Kill(r)
         PROVE  Managed'
    <2>1. ~met /\ r \in HE!Working /\ heStep[r] = "wait"
      BY <1>12, <1>b DEF HE!Handle, HE!Kill, HE!At
    <2>2. \A p \in HE!Pids : HE!Alive(p) => pidOf[r] = p
      BY <2>1 DEF Managed
    <2>3. process' = [process EXCEPT ![pidOf[r]] = HE!Killed(pidOf[r])] /\ heStep' = [heStep EXCEPT ![r] = "clear"]
      BY <1>12 DEF HE!Kill, HE!Go
    <2>4. \A p \in HE!Pids : ~HE!Alive(p)'
      BY <1>a, <2>2, <2>3 DEF HE!Alive, HE!Killed
    <2> QED
      BY <1>5, <2>1, <2>3, <2>4
  <1>13. ASSUME NEW r \in Requests, HE!ClearPid(r)
         PROVE  Managed'
    <2>1. ~met /\ r \in HE!Working /\ heStep[r] = "clear"
      BY <1>13, <1>b DEF HE!Handle, HE!ClearPid, HE!At
    <2>2. \A p \in HE!Pids : ~HE!Alive(p)
      BY <2>1 DEF Managed
    <2>3. process' = process /\ \E s \in {"done", "look"} : heStep' = [heStep EXCEPT ![r] = s]
      BY <1>13 DEF HE!ClearPid, HE!Go, HE!Reply
    <2>4. \A p \in HE!Pids : ~HE!Alive(p)'
      BY <2>2, <2>3 DEF HE!Alive
    <2> QED
      BY <1>5, <2>1, <2>3, <2>4
  <1> QED
    BY <1>1, <1>2, <1>3, <1>4, <1>6, <1>7, <1>8, <1>9, <1>10, <1>11, <1>12, <1>13 DEF HE!Next, HE!Handle

LEMMA ManagedRuns == Managed => HE!RunningIsManaged
  BY DEF Managed, HE!RunningIsManaged

\* A headroom process that runs is the one the pid file names, unless two requests met.
THEOREM RunningStaysManaged == AllSpec => []RunningIsManaged
  <1>1. AllInit => HE!TypeOK /\ Managed
    BY HeadroomInit DEF AllInit
  <1>2. HE!TypeOK /\ Managed /\ [AllNext]_AllVars => (HE!TypeOK /\ Managed)'
    BY HeadroomSteps, HeadroomTypes, ManagedNext
  <1>3. HE!TypeOK /\ Managed => RunningIsManaged
    BY ManagedRuns DEF RunningIsManaged
  <1> QED
    BY <1>1, <1>2, <1>3, PTL DEF AllSpec

-----------------------------------------------------------------------------
(* The binary that replaces itself. *)

\* A temporary file that is about to be moved is whole.
WholeFile == \A u \in Updaters : upPc[u] \in {"clean", "backup", "swap"} => tmp[u] \in UP!Versions

\* With the executable moved away, what was there is beside it, and the process is at the rename
\* that ends this, or dead; nothing can start it again.
MovedAway == execPath = None => oldPath # None /\ \A u \in Updaters : upPc[u] \in {"swap", "dead"}

LEMMA VersionsAreNot == None \notin UP!Versions /\ UP!Torn \notin UP!Versions
  BY TokensAssumption DEF UP!Versions, UP!Torn

LEMMA UpdateInit == UP!Init => UP!TypeOK /\ WholeFile /\ MovedAway
  <1>1. 1 \in UP!Versions /\ 0 \in 0 .. MaxStarts
    BY UpdateAssumption DEF UP!Versions
  <1> QED
    BY <1>1, VersionsAreNot DEF UP!Init, UP!TypeOK, WholeFile, MovedAway

LEMMA UpdateTypes ==
    ASSUME UP!TypeOK, WholeFile, [UP!Next]_UP!vars
    PROVE  UP!TypeOK' /\ WholeFile'
  <1> USE DEF UP!TypeOK, WholeFile, UP!At, UP!Go, UP!TmpBecomes, UP!disk, UP!service
  <1>1. CASE UNCHANGED UP!vars
    BY <1>1 DEF UP!vars
  <1>2. CASE UP!ChildListens
    BY <1>2 DEF UP!ChildListens
  <1>3. ASSUME NEW u \in Updaters, UP!CheckUpdate(u) \/ UP!CreateTemp(u) \/ UP!Download(u)
        PROVE  UP!TypeOK' /\ WholeFile'
    BY <1>3 DEF UP!CheckUpdate, UP!CreateTemp, UP!Download
  <1>4. ASSUME NEW u \in Updaters, UP!DownloadFails(u) \/ UP!RemoveOld(u)
        PROVE  UP!TypeOK' /\ WholeFile'
    BY <1>4 DEF UP!DownloadFails, UP!RemoveOld, UP!GiveUp
  <1>5. ASSUME NEW u \in Updaters, UP!Backup(u)
        PROVE  UP!TypeOK' /\ WholeFile'
    BY <1>5 DEF UP!Backup, UP!Kept, UP!GiveUp
  <1>6. ASSUME NEW u \in Updaters, UP!Swap(u) \/ UP!SwapFails(u)
        PROVE  UP!TypeOK' /\ WholeFile'
    BY <1>6 DEF UP!Swap, UP!SwapFails, UP!GiveUp
  <1>7. ASSUME NEW u \in Updaters, UP!StartChild(u) \/ UP!Exit(u) \/ UP!Killed(u)
        PROVE  UP!TypeOK' /\ WholeFile'
    BY <1>7 DEF UP!StartChild, UP!Exit, UP!Killed
  <1>8. ASSUME NEW u \in Updaters, UP!StartAgain(u)
        PROVE  UP!TypeOK' /\ WholeFile'
    <2>1. starts' \in 0 .. MaxStarts
      BY <1>8, UpdateAssumption DEF UP!StartAgain
    <2> QED
      BY <1>8, <2>1 DEF UP!StartAgain
  <1> QED
    BY <1>1, <1>2, <1>3, <1>4, <1>5, <1>6, <1>7, <1>8 DEF UP!Next

LEMMA UpdateKeeps ==
    ASSUME \A u, v \in Updaters : u = v,
           UP!TypeOK, WholeFile, MovedAway, [UP!Next]_UP!vars
    PROVE  MovedAway'
  <1> USE DEF MovedAway, UP!At, UP!Go, UP!TmpBecomes, UP!disk, UP!service
  <1>1. CASE UNCHANGED UP!vars \/ UP!ChildListens
    BY <1>1 DEF UP!vars, UP!ChildListens
  <1>2. ASSUME NEW u \in Updaters,
               \/ UP!CheckUpdate(u) \/ UP!CreateTemp(u) \/ UP!Download(u) \/ UP!DownloadFails(u)
               \/ UP!StartChild(u) \/ UP!Exit(u) \/ UP!Killed(u)
        PROVE  MovedAway'
    BY <1>2
       DEF UP!CheckUpdate, UP!CreateTemp, UP!Download, UP!DownloadFails, UP!GiveUp, UP!StartChild,
           UP!Exit, UP!Killed, UP!TypeOK
  <1>3. ASSUME NEW u \in Updaters, UP!RemoveOld(u)
        PROVE  MovedAway'
    BY <1>3 DEF UP!RemoveOld
  <1>4. ASSUME NEW u \in Updaters, UP!Backup(u)
        PROVE  MovedAway'
    BY <1>4 DEF UP!Backup, UP!Kept, UP!GiveUp, UP!TypeOK
  <1>5. ASSUME NEW u \in Updaters, UP!Swap(u) \/ UP!SwapFails(u)
        PROVE  MovedAway'
    BY <1>5, VersionsAreNot DEF UP!Swap, UP!SwapFails, UP!GiveUp, UP!TypeOK, WholeFile
  <1>6. ASSUME NEW u \in Updaters, UP!StartAgain(u)
        PROVE  MovedAway'
    BY <1>6 DEF UP!StartAgain
  <1> QED
    BY <1>1, <1>2, <1>3, <1>4, <1>5, <1>6 DEF UP!Next

LEMMA MovedIsKept == MovedAway => UP!KeepsABinary
  BY DEF MovedAway, UP!KeepsABinary

\* There is a whole binary at the executable's path or beside it at every moment, as long as no
\* two updates run at once.
THEOREM BinaryIsKept ==
    ASSUME \A u, v \in Updaters : u = v
    PROVE  AllSpec => []KeepsABinary
  <1>1. AllInit => UP!TypeOK /\ WholeFile /\ MovedAway
    BY UpdateInit DEF AllInit
  <1>2. UP!TypeOK /\ WholeFile /\ MovedAway /\ [AllNext]_AllVars
        => (UP!TypeOK /\ WholeFile /\ MovedAway)'
    BY UpdateSteps, UpdateTypes, UpdateKeeps
  <1>3. UP!TypeOK /\ WholeFile /\ MovedAway => KeepsABinary
    BY MovedIsKept DEF KeepsABinary
  <1> QED
    BY <1>1, <1>2, <1>3, PTL DEF AllSpec

-----------------------------------------------------------------------------
(* The records beside the requests: the discovery of a project, proxy pools, the row of a day, *)
(* the health of connections, the console; and the types of every part. *)

\* Those have their own copies, too. have their own copies of the operators of FiniteSets.
LEMMA CountingRows ==
    /\ \A S : PO!Cardinality(S) = Cardinality(S)
    /\ \A S : DU!Cardinality(S) = Cardinality(S)
    /\ \A S : RE!Cardinality(S) = Cardinality(S)
  BY DEF PO!Cardinality, DU!Cardinality, RE!Cardinality, Cardinality

\* A step of the composition leaves a part alone or is a step of it.
LEMMA ProjectSteps == [AllNext]_AllVars => [PR!Next]_PR!vars
  BY DEF AllNext, AllVars, Only, prVars, PR!vars
LEMMA PoolSteps == [AllNext]_AllVars => [PO!Next]_PO!vars
  BY DEF AllNext, AllVars, Only, poVars, PO!vars
LEMMA UsageSteps == [AllNext]_AllVars => [DU!Next]_DU!vars
  BY DEF AllNext, AllVars, Only, duVars, DU!vars
LEMMA ResetSteps == [AllNext]_AllVars => [RE!Next]_RE!vars
  BY DEF AllNext, AllVars, Only, reVars, RE!vars
LEMMA LifetimeSteps == [AllNext]_AllVars => [LI!Next]_LI!vars
  BY DEF AllNext, AllVars, Only, liVars, LI!vars
LEMMA ConsoleSteps == [AllNext]_AllVars => [CO!Next]_CO!vars
  BY DEF AllNext, AllVars, Only, coVars, CO!vars

-----------------------------------------------------------------------------
(* The project of an account. *)

\* A verdict was given by a probe, and its time counts from no later than the last one.
Founded ==
    /\ saidNo # None => saidNo <= prNow
    /\ verdict # None => saidNo # None /\ verdict <= saidNo + ProbeTTL

LEMMA ProbeNumbers == ProbeTTL \in Nat /\ Attempts \in Nat /\ ProbeTime \in Nat
  BY ProbeAssumption

LEMMA ProbeInit == PR!Init => PR!TypeOK /\ Founded /\ PR!SkipsAreFounded
  <1> SUFFICES ASSUME PR!Init PROVE PR!TypeOK /\ Founded /\ PR!SkipsAreFounded
    OBVIOUS
  <1>1. 0 \in PR!Times /\ 0 \in 0 .. Attempts
    BY ProbeAssumption DEF PR!Times
  <1>2. prRow \in PR!Rows /\ PR!NoRow \in PR!Rows
    BY DEF PR!Init, PR!Rows, PR!NoRow
  <1> QED
    BY <1>1, <1>2 DEF PR!Init, PR!TypeOK, Founded, PR!SkipsAreFounded

\* What a probe comes to.
LEMMA ProbeEnds ==
    ASSUME PR!TypeOK, NEW r \in Requests,
           PR!Found(r) \/ PR!Transient(r) \/ PR!AuthFailed(r) \/ PR!NoProject(r)
    PROVE  /\ prStep' \in [Requests -> {"new", "refresh", "decide", "load", "onboard", "force", "reload",
                                        "send", "done"}]
           /\ project' \in [Requests -> BOOLEAN] /\ storing' \subseteq Requests
           /\ verdict' \in ProbeTTL .. ProbeTime + ProbeTTL \cup {None} /\ attempt' = attempt
           /\ saidNo' \in PR!Times \cup {None} /\ skipped' = skipped
  <1>1. CASE PR!Found(r) \/ PR!Transient(r) \/ PR!AuthFailed(r)
    BY <1>1 DEF PR!TypeOK, PR!Found, PR!Transient, PR!AuthFailed, PR!Has, PR!Go, PR!notes
  <1>2. CASE PR!NoProject(r)
    <2>1. prNow \in PR!Times /\ prNow + ProbeTTL \in ProbeTTL .. ProbeTime + ProbeTTL
      <3>1. prNow \in PR!Times
        BY DEF PR!TypeOK
      <3> QED
        BY <3>1, ProbeNumbers DEF PR!Times
    <2>2. verdict' \in {verdict, prNow + ProbeTTL}
      BY <1>2 DEF PR!NoProject, PR!cacheProjectMissing
    <2>3. verdict' \in ProbeTTL .. ProbeTime + ProbeTTL \cup {None}
      BY <2>1, <2>2 DEF PR!TypeOK
    <2> QED
      BY <1>2, <2>1, <2>3 DEF PR!TypeOK, PR!NoProject, PR!Go
  <1> QED
    BY <1>1, <1>2

LEMMA ProbeTypes ==
    ASSUME PR!TypeOK, [PR!Next]_PR!vars
    PROVE  PR!TypeOK'
  <1> USE DEF PR!At, PR!Go, PR!Has, PR!world, PR!notes
  <1>1. CASE UNCHANGED PR!vars
    BY <1>1 DEF PR!TypeOK, PR!vars
  <1>2. CASE PR!Tick
    <2>1. prNow' \in PR!Times
      <3>1. prNow \in PR!Times /\ prNow < ProbeTime /\ prNow' = prNow + 1
        BY <1>2 DEF PR!Tick, PR!TypeOK
      <3> QED
        BY <3>1, ProbeNumbers DEF PR!Times
    <2>2. prRow' \in PR!Rows
      BY <1>2 DEF PR!Tick, PR!TypeOK, PR!Rows
    <2> QED
      BY <1>2, <2>1, <2>2 DEF PR!Tick, PR!TypeOK
  <1>3. ASSUME NEW r \in Requests, PR!ReadRow(r)
        PROVE  PR!TypeOK'
    <2>1. prRow.project \in BOOLEAN
      BY DEF PR!TypeOK, PR!Rows
    <2> QED
      BY <1>3, <2>1 DEF PR!ReadRow, PR!TypeOK
  <1>4. ASSUME NEW r \in Requests, PR!Refresh(r)
        PROVE  PR!TypeOK'
    <2>1. prRow' \in PR!Rows
      BY <1>4 DEF PR!Refresh, PR!TypeOK, PR!Rows
    <2> QED
      BY <1>4, <2>1 DEF PR!Refresh, PR!TypeOK
  <1>5. ASSUME NEW r \in Requests, PR!Decide(r)
        PROVE  PR!TypeOK'
    BY <1>5 DEF PR!Decide, PR!TypeOK
  <1>6. ASSUME NEW r \in Requests, PR!LoadCodeAssist(r) \/ PR!OnboardGivesUp(r) \/ PR!Reload(r)
        PROVE  PR!TypeOK'
    <2>1. CASE PR!Found(r) \/ PR!Transient(r) \/ PR!AuthFailed(r) \/ PR!NoProject(r)
      BY <1>6, <2>1, ProbeEnds DEF PR!LoadCodeAssist, PR!OnboardGivesUp, PR!Reload, PR!TypeOK
    <2>2. CASE ~(PR!Found(r) \/ PR!Transient(r) \/ PR!AuthFailed(r) \/ PR!NoProject(r))
      BY <1>6, <2>2 DEF PR!LoadCodeAssist, PR!OnboardGivesUp, PR!Reload, PR!TypeOK
    <2> QED
      BY <2>1, <2>2
  <1>7. ASSUME NEW r \in Requests, PR!OnboardUser(r)
        PROVE  PR!TypeOK'
    <2>1. CASE PR!Found(r) \/ PR!AuthFailed(r) \/ PR!NoProject(r)
      BY <1>7, <2>1, ProbeEnds DEF PR!OnboardUser, PR!TypeOK
    <2>2. CASE attempt' = [attempt EXCEPT ![r] = @ + 1]
                 /\ UNCHANGED <<prStep, project, storing, verdict, PR!notes>>
      <3>1. attempt[r] + 1 \in 0 .. Attempts
        <4>1. attempt[r] \in 0 .. Attempts /\ attempt[r] < Attempts
          BY <1>7 DEF PR!OnboardUser, PR!TypeOK
        <4> QED
          BY <4>1, ProbeNumbers
      <3> QED
        BY <1>7, <2>2, <3>1 DEF PR!OnboardUser, PR!TypeOK
    <2> QED
      BY <1>7, <2>1, <2>2 DEF PR!OnboardUser
  <1>8. ASSUME NEW r \in Requests, PR!ForceRefresh(r) \/ PR!Store(r)
        PROVE  PR!TypeOK'
    <2>1. prRow' \in PR!Rows
      BY <1>8 DEF PR!ForceRefresh, PR!Store, PR!TypeOK, PR!Rows
    <2> QED
      BY <1>8, <2>1 DEF PR!ForceRefresh, PR!Store, PR!TypeOK
  <1>9. ASSUME NEW r \in Requests, PR!Send(r) \/ PR!Again(r)
        PROVE  PR!TypeOK'
    <2>1. PR!NoRow \in PR!Rows /\ 0 \in 0 .. Attempts
      BY ProbeNumbers DEF PR!NoRow, PR!Rows
    <2>2. \E s \in {None, "project", "made up", "openai"} : sentAs' = [sentAs EXCEPT ![r] = s]
      BY <1>9 DEF PR!Send, PR!Again
    <2>3. sentAs' \in [Requests -> {None, "project", "made up", "openai"}]
      BY <2>2 DEF PR!TypeOK
    <2>4. CASE PR!Send(r)
      BY <2>1, <2>3, <2>4 DEF PR!Send, PR!TypeOK
    <2>5. CASE PR!Again(r)
      BY <2>1, <2>3, <2>5 DEF PR!Again, PR!TypeOK
    <2> QED
      BY <1>9, <2>4, <2>5
  <1> QED
    BY <1>1, <1>2, <1>3, <1>4, <1>5, <1>6, <1>7, <1>8, <1>9 DEF PR!Next

LEMMA FoundedNext ==
    ASSUME PR!TypeOK, Founded, PR!SkipsAreFounded, [PR!Next]_PR!vars
    PROVE  Founded' /\ PR!SkipsAreFounded'
  <1>1. /\ prNow \in Nat /\ ProbeTTL \in Nat
        /\ saidNo # None => saidNo \in Nat
        /\ verdict # None => verdict \in Nat
        /\ \A r \in Requests : skipped[r] # None => skipped[r] \in Nat
    <2>1. /\ prNow \in PR!Times /\ saidNo \in PR!Times \cup {None}
          /\ verdict \in ProbeTTL .. ProbeTime + ProbeTTL \cup {None}
          /\ \A r \in Requests : skipped[r] \in PR!Times \cup {None}
      BY DEF PR!TypeOK
    <2> QED
      BY <2>1, ProbeNumbers DEF PR!Times
  <1>2. CASE UNCHANGED <<prNow, verdict, saidNo, skipped>>
    BY <1>2 DEF Founded, PR!SkipsAreFounded
  <1>3. CASE PR!Tick
    BY <1>1, <1>3 DEF PR!Tick, PR!notes, Founded, PR!SkipsAreFounded
  <1>4. ASSUME NEW r \in Requests, PR!Decide(r)
        PROVE  Founded' /\ PR!SkipsAreFounded'
    <2> DEFINE skips == ~project[r] /\ PR!projectProbeCached
    <2>1. /\ skipped' = [skipped EXCEPT ![r] = IF skips THEN prNow ELSE None]
          /\ prNow' = prNow /\ verdict' = verdict /\ saidNo' = saidNo
      BY <1>4 DEF PR!Decide, PR!world
    <2>2. skips => saidNo # None /\ prNow < saidNo + ProbeTTL
      BY <1>1 DEF PR!projectProbeCached, Founded
    <2>3. DOMAIN skipped = Requests
      BY DEF PR!TypeOK
    <2> HIDE DEF skips
    <2> QED
      BY <2>1, <2>2, <2>3 DEF Founded, PR!SkipsAreFounded
  <1>5. ASSUME NEW r \in Requests, PR!NoProject(r), prNow' = prNow
        PROVE  Founded' /\ PR!SkipsAreFounded'
    <2>1. /\ saidNo' = prNow /\ skipped' = skipped
          /\ verdict' = prNow + ProbeTTL \/ (verdict' = verdict /\ verdict # None)
      <3>1. verdict' = IF verdict = None THEN prNow + ProbeTTL ELSE verdict
        BY <1>5 DEF PR!NoProject, PR!cacheProjectMissing
      <3>2. saidNo' = prNow /\ skipped' = skipped
        BY <1>5 DEF PR!NoProject
      <3> QED
        BY <3>1, <3>2
    <2>2. saidNo' # None /\ (saidNo # None => saidNo <= saidNo')
      BY <1>1, <2>1, TokensAssumption DEF Founded
    <2>3. Founded'
      BY <1>1, <1>5, <2>1, <2>2 DEF Founded
    <2>4. PR!SkipsAreFounded'
      BY <1>1, <2>1, <2>2 DEF PR!SkipsAreFounded
    <2> QED
      BY <2>3, <2>4
  <1>6. ASSUME NEW r \in Requests, PR!Again(r)
        PROVE  Founded' /\ PR!SkipsAreFounded'
    BY <1>6 DEF PR!Again, PR!world, Founded, PR!SkipsAreFounded, PR!TypeOK
  <1>7. ASSUME NEW r \in Requests, PR!Found(r) \/ PR!Transient(r) \/ PR!AuthFailed(r)
        PROVE  UNCHANGED <<verdict, saidNo, skipped>>
    BY <1>7 DEF PR!Found, PR!Transient, PR!AuthFailed, PR!notes
  <1>8. ASSUME NEW r \in Requests, PR!LoadCodeAssist(r) \/ PR!Reload(r)
        PROVE  UNCHANGED <<prNow, verdict, saidNo, skipped>>
    BY <1>7, <1>8 DEF PR!LoadCodeAssist, PR!Reload, PR!world, PR!notes
  <1>9. ASSUME NEW r \in Requests, PR!OnboardUser(r) \/ PR!OnboardGivesUp(r)
        PROVE  UNCHANGED <<prNow, verdict, saidNo, skipped>> \/ (PR!NoProject(r) /\ prNow' = prNow)
    BY <1>7, <1>9 DEF PR!OnboardUser, PR!OnboardGivesUp, PR!world, PR!notes
  <1>10. ASSUME NEW r \in Requests, PR!ReadRow(r) \/ PR!Refresh(r) \/ PR!ForceRefresh(r) \/ PR!Send(r) \/ PR!Store(r)
         PROVE  UNCHANGED <<prNow, verdict, saidNo, skipped>>
    BY <1>10 DEF PR!ReadRow, PR!Refresh, PR!ForceRefresh, PR!Send, PR!Store, PR!world, PR!notes
  <1> QED
    BY <1>2, <1>3, <1>4, <1>5, <1>6, <1>8, <1>9, <1>10 DEF PR!Next, PR!vars

\* Whatever requests, expiries and changes of the row meet, discovery is skipped only after the
\* verdict that there is no project, and not for longer than its TTL.
THEOREM SkipsStayFounded == AllSpec => []SkipsAreFounded
  <1>1. AllInit => PR!TypeOK /\ Founded /\ PR!SkipsAreFounded
    BY ProbeInit DEF AllInit
  <1>2. PR!TypeOK /\ Founded /\ PR!SkipsAreFounded /\ [AllNext]_AllVars
        => (PR!TypeOK /\ Founded /\ PR!SkipsAreFounded)'
    BY ProjectSteps, ProbeTypes, FoundedNext
  <1>3. PR!TypeOK /\ Founded /\ PR!SkipsAreFounded => SkipsAreFounded
    BY DEF SkipsAreFounded
  <1> QED
    BY <1>1, <1>2, <1>3, PTL DEF AllSpec

-----------------------------------------------------------------------------
(* The proxies of a connection. *)

\* There is one pool once a request has stored its own: who works with a pool works with that one.
OnePool ==
    /\ \A r \in Requests : /\ holds[r] \in {None, cache}
                           /\ poStep[r] \in {"relay", "proxy"} => holds[r] # None
                           /\ poStep[r] # "done" => client[r] = None

\* Only the stored pool is turned.
OthersStandStill == \A r \in Requests : r # cache => pools[r].index = 0

\* The requests that have been given a URL: nobody unless the pool is of HTTP proxies, whose index
\* counts them, once more for every round that is over.
Turns ==
    IF cache # None /\ pools[cache].active /\ pools[cache].type = "http"
    THEN \E rounds \in Nat : \A u \in PO!Urls :
            PO!Over(u) = rounds + (IF u \in 2 .. pools[cache].index + 1 THEN 1 ELSE 0)
    ELSE \A r \in Requests : client[r] \notin PO!Urls

LEMMA PoolFacts == /\ None \notin PO!Routes /\ PO!Own \notin PO!Urls /\ PO!Direct \notin PO!Urls
                   /\ PoolSize \in Nat \ {0} /\ 0 \in 0 .. PoolSize - 1 /\ PO!Urls \subseteq PO!Routes
                   /\ PO!Own \in PO!Routes /\ PO!Direct \in PO!Routes
  BY PoolAssumption, TokensAssumption DEF PO!Routes, PO!Own, PO!Direct, PO!Urls

\* NextURL goes to the next URL, and from the last to the first.
LEMMA NextTurn ==
    ASSUME NEW i \in 0 .. PoolSize - 1
    PROVE  /\ (i + 1) % PoolSize = IF i = PoolSize - 1 THEN 0 ELSE i + 1
           /\ (i + 1) % PoolSize \in 0 .. PoolSize - 1
           /\ ((i + 1) % PoolSize) + 1 \in PO!Urls
  <1>1. i \in Nat /\ i < PoolSize /\ PoolSize \in Nat /\ PoolSize > 0
    BY PoolFacts
  <1>2. CASE i = PoolSize - 1
    <2>1. (i + 1) % PoolSize = 0
      BY <1>1, <1>2
    <2> QED
      BY <1>1, <1>2, <2>1 DEF PO!Urls
  <1>3. CASE i # PoolSize - 1
    <2>1. (i + 1) % PoolSize = i + 1
      BY <1>1, <1>3
    <2> QED
      BY <1>1, <1>3, <2>1 DEF PO!Urls
  <1> QED
    BY <1>2, <1>3

LEMMA PoolInit == PO!Init => PO!TypeOK /\ OnePool /\ OthersStandStill /\ Turns
  <1> SUFFICES ASSUME PO!Init PROVE PO!TypeOK /\ OnePool /\ OthersStandStill /\ Turns
    OBVIOUS
  <1>1. PO!TypeOK
    BY PoolFacts DEF PO!Init, PO!TypeOK, PO!NoPool, PO!Types
  <1>2. OnePool /\ OthersStandStill
    BY DEF PO!Init, OnePool, OthersStandStill, PO!NoPool
  <1>3. Turns
    BY PoolFacts DEF PO!Init, Turns
  <1> QED
    BY <1>1, <1>2, <1>3

LEMMA PoolTypes ==
    ASSUME PO!TypeOK, OnePool, [PO!Next]_PO!vars
    PROVE  PO!TypeOK'
  <1> USE DEF PO!TypeOK, PO!Go, PO!At
  <1>1. CASE UNCHANGED PO!vars
    BY <1>1 DEF PO!vars
  <1>2. CASE PO!Edit
    BY <1>2 DEF PO!Edit
  <1>3. ASSUME NEW r \in Requests, NEW from, NEW to \in {"cache", "cache again"}, PO!ReadRow(r, from, to)
        PROVE  PO!TypeOK'
    BY <1>3, PoolFacts DEF PO!ReadRow
  <1>4. ASSUME NEW r \in Requests, NEW from, NEW to \in {"relay", "proxy"}, PO!CachePool(r, from, to)
        PROVE  PO!TypeOK'
    BY <1>4 DEF PO!CachePool, PO!Winner
  <1>5. ASSUME NEW r \in Requests, poStep[r] \in {"relay", "proxy"}
        PROVE  /\ holds[r] \in Requests /\ PO!Pool(r).index \in 0 .. PoolSize - 1
               /\ PO!NextIndex(r) \in 0 .. PoolSize - 1 /\ PO!NextURL(r) \in PO!Urls
    <2>1. holds[r] \in Requests
      BY <1>5 DEF OnePool
    <2>2. PO!Pool(r).index \in 0 .. PoolSize - 1
      BY <2>1 DEF PO!Pool
    <2> QED
      BY <2>1, <2>2, NextTurn DEF PO!NextIndex, PO!NextURL
  <1>6. ASSUME NEW r \in Requests, poStep[r] \in {"relay", "proxy"},
               pools' = pools \/ PO!Advance(r)
        PROVE  pools' \in [Requests -> [type : PO!Types, active : BOOLEAN, index : 0 .. PoolSize - 1]]
    <2>1. pools \in [Requests -> [type : PO!Types, active : BOOLEAN, index : 0 .. PoolSize - 1]]
      OBVIOUS
    <2>2. holds[r] \in Requests /\ PO!NextIndex(r) \in 0 .. PoolSize - 1
      BY <1>5, <1>6
    <2> HIDE DEF PO!TypeOK
    <2>3. CASE pools' = pools
      BY <2>1, <2>3
    <2>4. CASE PO!Advance(r)
      BY <2>1, <2>2, <2>4 DEF PO!Advance
    <2> QED
      BY <1>6, <2>3, <2>4
  <1>7. ASSUME NEW r \in Requests, PO!ProviderConfig(r)
        PROVE  PO!TypeOK'
    <2>1. poStep[r] = "relay" /\ (pools' = pools \/ PO!Advance(r))
      BY <1>7 DEF PO!ProviderConfig
    <2>2. PO!NextURL(r) \in PO!Routes /\ PO!Own \in PO!Routes /\ PO!Direct \in PO!Routes
      BY <1>5, <2>1, PoolFacts
    <2>3. pools' \in [Requests -> [type : PO!Types, active : BOOLEAN, index : 0 .. PoolSize - 1]]
      BY <1>6, <2>1
    <2>4. \E w \in PO!Routes : via' = [via EXCEPT ![r] = w]
      BY <1>7, <2>2 DEF PO!ProviderConfig
    <2>5. via' \in [Requests -> PO!Routes \cup {None}]
      BY <2>4
    <2> QED
      BY <1>7, <2>3, <2>5 DEF PO!ProviderConfig
  <1>8. ASSUME NEW r \in Requests, PO!ClientForConnection(r)
        PROVE  PO!TypeOK'
    <2>1. poStep[r] = "proxy" /\ (pools' = pools \/ PO!Advance(r))
      BY <1>8 DEF PO!ClientForConnection
    <2>2. PO!NextURL(r) \in PO!Routes /\ PO!Own \in PO!Routes /\ PO!Direct \in PO!Routes
      BY <1>5, <2>1, PoolFacts
    <2>3. pools' \in [Requests -> [type : PO!Types, active : BOOLEAN, index : 0 .. PoolSize - 1]]
      BY <1>6, <2>1
    <2>4. \E w \in PO!Routes : client' = [client EXCEPT ![r] = w]
      BY <1>8, <2>2 DEF PO!ClientForConnection
    <2>5. client' \in [Requests -> PO!Routes \cup {None}]
      BY <2>4
    <2> QED
      BY <1>8, <2>3, <2>5 DEF PO!ClientForConnection
  <1> QED
    BY <1>1, <1>2, <1>3, <1>4, <1>7, <1>8 DEF PO!Next

LEMMA OnePoolNext ==
    ASSUME PO!TypeOK, OnePool, [PO!Next]_PO!vars
    PROVE  OnePool'
  <1> USE DEF OnePool, PO!TypeOK, PO!Go, PO!At
  <1>1. CASE UNCHANGED PO!vars \/ PO!Edit
    BY <1>1 DEF PO!vars, PO!Edit
  <1>2. ASSUME NEW r \in Requests,
               PO!ReadRow(r, "config", "cache") \/ PO!ReadRow(r, "client", "cache again")
        PROVE  OnePool'
    BY <1>2 DEF PO!ReadRow
  <1>3. ASSUME NEW r \in Requests,
               PO!CachePool(r, "cache", "relay") \/ PO!CachePool(r, "cache again", "proxy")
        PROVE  OnePool'
    <2>1. /\ cache' = PO!Winner(r) /\ holds' = [holds EXCEPT ![r] = PO!Winner(r)]
          /\ \E to \in {"relay", "proxy"} : poStep' = [poStep EXCEPT ![r] = to]
          /\ poStep[r] # "done" /\ client' = client
      BY <1>3 DEF PO!CachePool
    <2>2. PO!Winner(r) # None /\ cache \in {None, PO!Winner(r)}
      BY TokensAssumption DEF PO!Winner
    <2> QED
      BY <2>1, <2>2
  <1>4. ASSUME NEW r \in Requests, PO!ProviderConfig(r)
        PROVE  OnePool'
    BY <1>4 DEF PO!ProviderConfig
  <1>5. ASSUME NEW r \in Requests, PO!ClientForConnection(r)
        PROVE  OnePool'
    BY <1>5 DEF PO!ClientForConnection
  <1> QED
    BY <1>1, <1>2, <1>3, <1>4, <1>5 DEF PO!Next

LEMMA OthersNext ==
    ASSUME PO!TypeOK, OnePool, OthersStandStill, [PO!Next]_PO!vars
    PROVE  OthersStandStill'
  <1>1. CASE UNCHANGED PO!vars \/ PO!Edit
    BY <1>1 DEF PO!vars, PO!Edit, OthersStandStill
  <1>2. ASSUME NEW r \in Requests, NEW from, NEW to, PO!ReadRow(r, from, to)
        PROVE  OthersStandStill'
    BY <1>2 DEF PO!ReadRow, OthersStandStill, PO!TypeOK
  <1>3. ASSUME NEW r \in Requests, NEW from, NEW to, PO!CachePool(r, from, to)
        PROVE  OthersStandStill'
    BY <1>3, TokensAssumption DEF PO!CachePool, PO!Winner, OthersStandStill
  <1>4. ASSUME NEW r \in Requests, PO!ProviderConfig(r) \/ PO!ClientForConnection(r)
        PROVE  OthersStandStill'
    <2>1. holds[r] = cache /\ cache' = cache
      BY <1>4 DEF PO!ProviderConfig, PO!ClientForConnection, PO!At, OnePool
    <2>2. pools' = pools \/ pools' = [pools EXCEPT ![cache].index = PO!NextIndex(r)]
      BY <1>4, <2>1 DEF PO!ProviderConfig, PO!ClientForConnection, PO!Advance
    <2> QED
      BY <2>1, <2>2 DEF OthersStandStill, PO!TypeOK
  <1> QED
    BY <1>1, <1>2, <1>3, <1>4 DEF PO!Next

\* A step that gives nobody a URL and leaves the stored pool as it is.
LEMMA TurnsStay ==
    ASSUME PO!TypeOK, Turns, cache' = cache, client' = client,
           cache # None => pools'[cache] = pools[cache]
    PROVE  Turns'
  BY DEF Turns, PO!Over

\* A request without a proxy is given URL w.
LEMMA OverAfter ==
    ASSUME NEW r \in Requests, NEW w \in PO!Urls, NEW u \in PO!Urls,
           client \in [Requests -> PO!Routes \cup {None}], client[r] = None,
           client' = [client EXCEPT ![r] = w]
    PROVE  PO!Over(u)' = PO!Over(u) + (IF u = w THEN 1 ELSE 0)
  <1> DEFINE S == {q \in Requests : client[q] = u}
  <1>1. S \subseteq Requests /\ IsFiniteSet(S)
    BY PoolAssumption, FS_Subset
  <1>2. r \notin S
    BY PoolFacts
  <1>3. PO!Over(u)' = Cardinality({q \in Requests : client'[q] = u})
    BY CountingRows DEF PO!Over
  <1>4. Cardinality(S) \in Nat
    BY <1>1, FS_CardinalityType
  <1>5. CASE u = w
    <2>1. {q \in Requests : client'[q] = u} = S \cup {r}
      BY <1>5
    <2>2. Cardinality(S \cup {r}) = Cardinality(S) + 1
      BY <1>1, <1>2, FS_AddElement
    <2> QED
      BY <1>3, <1>5, <2>1, <2>2, CountingRows DEF PO!Over
  <1>6. CASE u # w
    <2>1. {q \in Requests : client'[q] = u} = S
      BY <1>2, <1>6
    <2> QED
      BY <1>3, <1>4, <1>6, <2>1 DEF PO!Over
  <1> QED
    BY <1>5, <1>6

\* Of the pool that is turned nothing but the index changes.
LEMMA OnlyTheIndex ==
    ASSUME PO!TypeOK, NEW r \in Requests, PO!Advance(r), holds[r] = cache, cache \in Requests
    PROVE  /\ pools'[cache].type = pools[cache].type /\ pools'[cache].active = pools[cache].active
           /\ pools'[cache].index = PO!NextIndex(r)
  <1>1. pools \in [Requests -> [type : PO!Types, active : BOOLEAN, index : 0 .. PoolSize - 1]]
    BY DEF PO!TypeOK
  <1>2. pools'[cache] = [pools[cache] EXCEPT !.index = PO!NextIndex(r)]
    BY <1>1 DEF PO!Advance
  <1> QED
    BY <1>1, <1>2

LEMMA TurnsNext ==
    ASSUME PO!TypeOK, OnePool, OthersStandStill, Turns, [PO!Next]_PO!vars
    PROVE  Turns'
  <1>1. CASE UNCHANGED PO!vars \/ PO!Edit
    BY <1>1, TurnsStay DEF PO!vars, PO!Edit
  <1>2. ASSUME NEW r \in Requests,
               PO!ReadRow(r, "config", "cache") \/ PO!ReadRow(r, "client", "cache again")
        PROVE  Turns'
    <2>1. cache # None => pools'[cache] = pools[cache]
      BY <1>2 DEF PO!ReadRow, PO!TypeOK
    <2> QED
      BY <1>2, <2>1, TurnsStay DEF PO!ReadRow
  <1>3. ASSUME NEW r \in Requests, NEW from, NEW to, PO!CachePool(r, from, to)
        PROVE  Turns'
    <2>1. CASE cache # None
      BY <1>3, <2>1, TurnsStay DEF PO!CachePool, PO!Winner
    <2>2. CASE cache = None
      <3>1. \A q \in Requests : client[q] \notin PO!Urls
        BY <2>2 DEF Turns
      <3>2. \A u \in PO!Urls : {q \in Requests : client[q] = u} = {}
        BY <3>1
      <3>3. \A u \in PO!Urls : PO!Over(u) = 0
        BY <3>2, FS_EmptySet, CountingRows DEF PO!Over
      <3>4. cache' = r /\ pools' = pools /\ client' = client /\ pools[r].index = 0
        BY <1>3, <2>2, TokensAssumption DEF PO!CachePool, PO!Winner, OthersStandStill
      <3>5. \A u \in PO!Urls : PO!Over(u)' = 0 + (IF u \in 2 .. 0 + 1 THEN 1 ELSE 0)
        BY <3>3, <3>4 DEF PO!Over
      <3>6. 0 \in Nat /\ pools'[cache'].index = 0 /\ \A q \in Requests : client'[q] \notin PO!Urls
        BY <3>1, <3>4
      <3> QED
        BY <3>5, <3>6 DEF Turns
    <2> QED
      BY <2>1, <2>2
  <1>4. ASSUME NEW r \in Requests, poStep[r] \in {"relay", "proxy"}
        PROVE  cache # None /\ holds[r] = cache /\ cache \in Requests /\ PO!Pool(r) = pools[cache]
    BY <1>4 DEF OnePool, PO!TypeOK, PO!Pool
  <1>5. ASSUME NEW r \in Requests, PO!ProviderConfig(r)
        PROVE  Turns'
    <2>1. /\ poStep[r] = "relay" /\ cache' = cache /\ client' = client
          /\ IF PO!Relayed(r) THEN PO!Advance(r) ELSE pools' = pools
      BY <1>5 DEF PO!ProviderConfig, PO!At
    <2>2. CASE ~PO!Relayed(r)
      BY <2>1, <2>2, TurnsStay
    <2>3. CASE PO!Relayed(r)
      <3>1. pools[cache].type = "relay" /\ pools'[cache].type = "relay"
        BY <1>4, <2>1, <2>3, OnlyTheIndex DEF PO!Relayed
      <3> QED
        BY <2>1, <3>1 DEF Turns
    <2> QED
      BY <2>2, <2>3
  <1>6. ASSUME NEW r \in Requests, PO!ClientForConnection(r)
        PROVE  Turns'
    <2>1. /\ poStep[r] = "proxy" /\ cache' = cache /\ client[r] = None
          /\ IF PO!Pool(r).active THEN PO!Advance(r) ELSE pools' = pools
          /\ client' = [client EXCEPT ![r] =
                CASE PO!Pool(r).active /\ PO!Pool(r).type = "http" -> PO!NextURL(r)
                    [] ~PO!Pool(r).active /\ conn.proxy -> PO!Own
                    [] OTHER -> PO!Direct]
      BY <1>6 DEF PO!ClientForConnection, PO!At, OnePool
    <2> DEFINE Serves == pools[cache].active /\ pools[cache].type = "http"
    <2>2. CASE ~Serves
      <3>1. ~(pools'[cache'].active /\ pools'[cache'].type = "http")
        BY <1>4, <2>1, <2>2, OnlyTheIndex
      <3>2. \A q \in Requests : client[q] \notin PO!Urls
        BY <1>4, <2>1, <2>2 DEF Turns
      <3>3. \E w \in {PO!Own, PO!Direct} : client' = [client EXCEPT ![r] = w]
        BY <1>4, <2>1, <2>2
      <3>4. \A q \in Requests : client'[q] \notin PO!Urls
        <4>1. client \in [Requests -> PO!Routes \cup {None}]
          BY DEF PO!TypeOK
        <4> QED
          BY <3>2, <3>3, <4>1, PoolFacts
      <3> QED
        BY <3>1, <3>4 DEF Turns
    <2>3. CASE Serves
      <3> DEFINE i == pools[cache].index
                 w == PO!NextURL(r)
      <3>1. i \in 0 .. PoolSize - 1 /\ client \in [Requests -> PO!Routes \cup {None}]
        BY <1>4, <2>1 DEF PO!TypeOK
      <3>a. w = ((i + 1) % PoolSize) + 1 /\ client' = [client EXCEPT ![r] = w]
        BY <1>4, <2>1, <2>3 DEF PO!NextURL, PO!NextIndex
      <3>2. /\ pools'[cache].active /\ pools'[cache].type = "http"
            /\ pools'[cache].index = (i + 1) % PoolSize
        BY <1>4, <2>1, <2>3, OnlyTheIndex DEF PO!NextIndex
      <3>3. w \in PO!Urls
        BY <3>1, <3>a, NextTurn
      <3>4. PICK rounds \in Nat : \A u \in PO!Urls : PO!Over(u) = rounds + (IF u \in 2 .. i + 1 THEN 1 ELSE 0)
        BY <1>4, <2>1, <2>3 DEF Turns
      <3>5. \A u \in PO!Urls : PO!Over(u)' = PO!Over(u) + (IF u = w THEN 1 ELSE 0)
        BY <2>1, <3>1, <3>a, <3>3, OverAfter
      <3>6. CASE i = PoolSize - 1
        <4>1. (i + 1) % PoolSize = 0 /\ w = 1
          BY <3>1, <3>a, <3>6, NextTurn
        <4>2. \A u \in PO!Urls : PO!Over(u)' = (rounds + 1) + (IF u \in 2 .. 0 + 1 THEN 1 ELSE 0)
          BY <3>4, <3>5, <3>6, <4>1, PoolFacts DEF PO!Urls
        <4>3. rounds + 1 \in Nat /\ pools'[cache].index = 0
          BY <3>2, <4>1
        <4> QED
          BY <1>4, <2>1, <3>2, <4>2, <4>3 DEF Turns
      <3>7. CASE i # PoolSize - 1
        <4>1. (i + 1) % PoolSize = i + 1 /\ w = i + 2 /\ i \in Nat
          BY <3>1, <3>a, <3>7, NextTurn
        <4>2. \A u \in PO!Urls : PO!Over(u)' = rounds + (IF u \in 2 .. (i + 1) + 1 THEN 1 ELSE 0)
          BY <3>4, <3>5, <4>1, PoolFacts DEF PO!Urls
        <4>3. pools'[cache].index = i + 1
          BY <3>2, <4>1
        <4> QED
          BY <1>4, <2>1, <3>2, <4>2, <4>3 DEF Turns
      <3> QED
        BY <3>6, <3>7
    <2> QED
      BY <2>2, <2>3
  <1> QED
    BY <1>1, <1>2, <1>3, <1>5, <1>6 DEF PO!Next

LEMMA TurnsAreFair == Turns => PO!ProxiesTakeTurns
  <1> SUFFICES ASSUME Turns, NEW u \in PO!Urls, NEW v \in PO!Urls
               PROVE  PO!Over(u) <= PO!Over(v) + 1
    BY DEF PO!ProxiesTakeTurns
  <1>1. CASE cache # None /\ pools[cache].active /\ pools[cache].type = "http"
    <2>1. \E rounds \in Nat : \A w \in PO!Urls : PO!Over(w) \in {rounds, rounds + 1}
      BY <1>1 DEF Turns
    <2> QED
      BY <2>1
  <1>2. CASE \A r \in Requests : client[r] \notin PO!Urls
    <2>1. \A w \in PO!Urls : {r \in Requests : client[r] = w} = {}
      BY <1>2
    <2>2. \A w \in PO!Urls : PO!Over(w) = 0
      BY <2>1, FS_EmptySet, CountingRows DEF PO!Over
    <2> QED
      BY <2>2
  <1> QED
    BY <1>1, <1>2 DEF Turns

\* However many requests read the pool together and whatever their order, the uses of any two of
\* its URLs differ by one at most: GetProxyPool lets the pool that was stored first win, and
\* NextURL counts its turns with one atomic addition.
THEOREM TurnsStayFair == AllSpec => []ProxiesTakeTurns
  <1>1. AllInit => PO!TypeOK /\ OnePool /\ OthersStandStill /\ Turns
    BY PoolInit DEF AllInit
  <1>2. PO!TypeOK /\ OnePool /\ OthersStandStill /\ Turns /\ [AllNext]_AllVars
        => (PO!TypeOK /\ OnePool /\ OthersStandStill /\ Turns)'
    BY PoolSteps, PoolTypes, OnePoolNext, OthersNext, TurnsNext
  <1>3. PO!TypeOK /\ OnePool /\ OthersStandStill /\ Turns => ProxiesTakeTurns
    BY TurnsAreFair DEF ProxiesTakeTurns
  <1> QED
    BY <1>1, <1>2, <1>3, PTL DEF AllSpec

-----------------------------------------------------------------------------
(* The usage of a day. *)

Locked == {"read", "write", "overwrite", "written"}

\* Who works on the row of a day holds the lock; what is about to be written is the row as it is, or
\* nothing; who was counted does not come again, and is thrown away after he was counted.
UsageInv ==
    /\ \A r \in Requests : duStep[r] \in Locked => holder = r /\ duKey[r] \in DU!Days
    /\ \A r \in Requests : duStep[r] = "write" => read[r] = daily[duKey[r]]
    /\ \A r \in Requests : duStep[r] = "overwrite" => read[r] = DU!EmptyBag
    /\ \A r \in Requests, d \in DU!Days : r \in counted[d] => duStep[r] \in {"written", "logged", "lost"}
    /\ \A d \in DU!Days : wiped[d] \subseteq counted[d]

LEMMA BagsAre ==
    /\ DU!IsABag(DU!EmptyBag)
    /\ \A row, r : DU!IsABag(row) => DU!IsABag(DU!Merge(row, r))
  <1>1. DU!IsABag(DU!EmptyBag)
    BY DEF DU!IsABag, DU!EmptyBag, DU!SetToBag
  <1>2. ASSUME NEW row, NEW r, DU!IsABag(row)
        PROVE  DU!IsABag(DU!Merge(row, r))
    BY <1>2 DEF DU!IsABag, DU!Merge, DU!SetToBag, DU!(+)
  <1> QED
    BY <1>1, <1>2

\* The day of a moment is one of the days.
LEMMA DaysAreDays == \A t \in DU!Time : DU!Day(t) \in DU!Days
  <1> SUFFICES ASSUME NEW t \in DU!Time PROVE DU!Day(t) \in DU!Days
    OBVIOUS
  <1>1. t \in Nat /\ LogTime \in Nat /\ t <= LogTime /\ DayLen \in Nat /\ DayLen > 0
    BY LogAssumption DEF DU!Time
  <1> DEFINE a == t \div DayLen
             b == LogTime \div DayLen
  <1>2. a \in Nat /\ b \in Nat
    BY <1>1
  <1>3. a * DayLen <= t /\ LogTime < (b + 1) * DayLen
    BY <1>1
  <1>4. a <= b
    <2>1. SUFFICES ASSUME a >= b + 1 PROVE FALSE
      BY <1>2
    <2>2. a * DayLen >= (b + 1) * DayLen
      BY <1>1, <1>2, <2>1
    <2> QED
      BY <1>1, <1>2, <1>3, <2>2
  <1> QED
    BY <1>2, <1>4 DEF DU!Day, DU!Days

\* One more request raises the counts of a row by one under each of its headings.
LEMMA MergeCounts ==
    ASSUME NEW S \in SUBSET Requests, NEW r \in Requests, r \notin S
    PROVE  DU!Merge(DU!CountsOf(S), r) = DU!CountsOf(S \cup {r})
  <1> DEFINE H(q) == DU!Headings(shape[q])
             Heads == UNION {H(q) : q \in S}
             With(T, h) == {q \in T : h \in H(q)}
             Sum(h) == (IF h \in Heads THEN DU!CountsOf(S)[h] ELSE 0) + (IF h \in H(r) THEN 1 ELSE 0)
  <1>1. DU!CountsOf(S) = [h \in Heads |-> Cardinality(With(S, h))]
    BY CountingRows DEF DU!CountsOf
  <1>2. UNION {H(q) : q \in S \cup {r}} = Heads \cup H(r)
    <2> HIDE DEF H
    <2>1. \A h : h \in UNION {H(q) : q \in S \cup {r}} <=> h \in Heads \cup H(r)
      BY ZenonT(30)
    <2> QED
      BY <2>1
  <1>3. DU!CountsOf(S \cup {r}) = [h \in Heads \cup H(r) |-> Cardinality(With(S \cup {r}, h))]
    <2>1. DU!CountsOf(S \cup {r}) =
            [h \in UNION {H(q) : q \in S \cup {r}} |-> Cardinality(With(S \cup {r}, h))]
      BY CountingRows DEF DU!CountsOf
    <2> HIDE DEF H, Heads, With
    <2> QED
      BY <1>2, <2>1
  <1>4. ASSUME NEW h \in Heads \cup H(r)
        PROVE  Cardinality(With(S \cup {r}, h)) = Sum(h)
    <2>1. IsFiniteSet(With(S, h)) /\ r \notin With(S, h)
      BY PoolAssumption, FS_Subset
    <2>2. Cardinality(With(S, h)) \in Nat
      BY <2>1, FS_CardinalityType
    <2>3. Cardinality(With(S, h)) = IF h \in Heads THEN DU!CountsOf(S)[h] ELSE 0
      <3>1. CASE h \in Heads
        BY <1>1, <3>1
      <3>2. CASE h \notin Heads
        <4>1. With(S, h) = {}
          BY <3>2
        <4> QED
          BY <3>2, <4>1, FS_EmptySet
      <3> QED
        BY <3>1, <3>2
    <2>4. Cardinality(With(S \cup {r}, h)) = Cardinality(With(S, h)) + (IF h \in H(r) THEN 1 ELSE 0)
      <3>1. CASE h \in H(r)
        <4>1. With(S \cup {r}, h) = With(S, h) \cup {r}
          BY <3>1
        <4> QED
          BY <2>1, <3>1, <4>1, FS_AddElement
      <3>2. CASE h \notin H(r)
        <4>1. With(S \cup {r}, h) = With(S, h)
          BY <3>2
        <4> HIDE DEF H, With
        <4>2. Cardinality(With(S \cup {r}, h)) = Cardinality(With(S, h)) + 0
          BY <2>2, <4>1
        <4> QED
          BY <3>2, <4>2
      <3> QED
        BY <3>1, <3>2
    <2> HIDE DEF H, Heads, With
    <2> QED
      BY <2>3, <2>4
  <1>5. DOMAIN DU!CountsOf(S) = Heads
    BY <1>1
  <1>6. \A row : DOMAIN row = Heads =>
          DU!Merge(row, r) = [h \in Heads \cup H(r) |->
                                (IF h \in Heads THEN row[h] ELSE 0) + (IF h \in H(r) THEN 1 ELSE 0)]
    <2> HIDE DEF Heads
    <2> QED
      BY DEF DU!Merge, DU!SetToBag, DU!(+)
  <1>7. DU!Merge(DU!CountsOf(S), r) = [h \in Heads \cup H(r) |-> Sum(h)]
    BY <1>5, <1>6
  <1> HIDE DEF H, Heads, With, Sum
  <1> QED
    BY <1>3, <1>4, <1>7

LEMMA NothingCounted == DU!CountsOf({}) = DU!EmptyBag
  BY DEF DU!CountsOf, DU!EmptyBag, DU!SetToBag

LEMMA UsageInit == DU!Init => DU!TypeOK /\ UsageInv /\ DU!DaysCountEverything
  <1> SUFFICES ASSUME DU!Init PROVE DU!TypeOK /\ UsageInv /\ DU!DaysCountEverything
    OBVIOUS
  <1>1. 0 \in DU!Time
    BY LogAssumption DEF DU!Time
  <1>2. DOMAIN details = {}
    BY DEF DU!Init
  <1>3. DU!TypeOK
    BY <1>1, <1>2, BagsAre DEF DU!Init, DU!TypeOK, DU!Steps
  <1>4. UsageInv
    BY DEF DU!Init, UsageInv, Locked
  <1>5. DU!DaysCountEverything
    BY NothingCounted DEF DU!Init, DU!DaysCountEverything
  <1> QED
    BY <1>3, <1>4, <1>5

LEMMA UsageTypes ==
    ASSUME DU!TypeOK, UsageInv, [DU!Next]_DU!vars
    PROVE  DU!TypeOK'
  <1> USE DEF DU!Go, DU!ledger
  <1>1. CASE UNCHANGED DU!vars
    BY <1>1 DEF DU!TypeOK, DU!vars
  <1>2. CASE DU!Tick
    <2>1. duNow' \in DU!Time
      <3>1. duNow \in DU!Time /\ duNow < LogTime /\ duNow' = duNow + 1
        BY <1>2 DEF DU!Tick, DU!TypeOK
      <3> QED
        BY <3>1, LogAssumption DEF DU!Time
    <2> QED
      BY <1>2, <2>1 DEF DU!Tick, DU!TypeOK
  <1>3. CASE DU!Crash
    BY <1>3 DEF DU!Crash, DU!TypeOK, DU!Steps
  <1>4. ASSUME NEW r \in Requests, DU!InsertHistory(r)
        PROVE  DU!TypeOK'
    BY <1>4 DEF DU!InsertHistory, DU!TypeOK, DU!Steps
  <1>5. ASSUME NEW r \in Requests, DU!InsertDetail(r)
        PROVE  DU!TypeOK'
    <2> DEFINE id == <<duNow, shape[r].model>>
    <2>1. id \in DU!Time \X {s.model : s \in Shapes}
      BY DEF DU!TypeOK
    <2>2. details' = details \/ details' = DU!InsertOrIgnore(id, r)
      BY <1>5 DEF DU!InsertDetail
    <2>3. /\ DOMAIN details' \subseteq DU!Time \X {s.model : s \in Shapes}
          /\ \A i \in DOMAIN details' : details'[i] \in Requests
      BY <2>1, <2>2 DEF DU!InsertOrIgnore, DU!TypeOK
    <2> QED
      BY <1>5, <2>3 DEF DU!InsertDetail, DU!TypeOK, DU!Steps
  <1>6. ASSUME NEW r \in Requests, DU!LockDay(r)
        PROVE  DU!TypeOK'
    BY <1>6, DaysAreDays DEF DU!LockDay, DU!TypeOK, DU!Steps
  <1>7. ASSUME NEW r \in Requests, DU!ReadDay(r) \/ DU!ReadFails(r)
        PROVE  DU!TypeOK'
    <2>1. duStep[r] \in Locked /\ duKey[r] \in DU!Days
      BY <1>7 DEF DU!ReadDay, DU!ReadFails, Locked, UsageInv
    <2>2. \E row : DU!IsABag(row) /\ read' = [read EXCEPT ![r] = row]
      BY <1>7, <2>1, BagsAre DEF DU!ReadDay, DU!ReadFails, DU!TypeOK
    <2>3. \A q \in Requests : DU!IsABag(read'[q])
      BY <2>2 DEF DU!TypeOK
    <2> QED
      BY <1>7, <2>3 DEF DU!ReadDay, DU!ReadFails, DU!TypeOK, DU!Steps
  <1>8. ASSUME NEW r \in Requests, DU!WriteDay(r)
        PROVE  DU!TypeOK'
    <2>1. duKey[r] \in DU!Days
      BY <1>8 DEF DU!WriteDay, UsageInv, Locked
    <2>2. \A d \in DU!Days : DU!IsABag(daily'[d])
      BY <1>8, BagsAre DEF DU!WriteDay, DU!TypeOK
    <2>3. counted' \in [DU!Days -> SUBSET Requests] /\ wiped' \in [DU!Days -> SUBSET Requests]
      BY <1>8, <2>1 DEF DU!WriteDay, DU!TypeOK
    <2> QED
      BY <1>8, <2>2, <2>3 DEF DU!WriteDay, DU!TypeOK, DU!Steps
  <1>9. ASSUME NEW r \in Requests, DU!WriteFails(r) \/ DU!UnlockDay(r)
        PROVE  DU!TypeOK'
    BY <1>9 DEF DU!WriteFails, DU!UnlockDay, DU!TypeOK, DU!Steps
  <1> QED
    BY <1>1, <1>2, <1>3, <1>4, <1>5, <1>6, <1>7, <1>8, <1>9 DEF DU!Next

\* A step that writes no row, and moves nobody into one of the steps under the lock.
LEMMA RowsStay ==
    ASSUME UsageInv, DU!DaysCountEverything, UNCHANGED <<shape, holder, duKey, read, daily, counted, wiped>>,
           \A r \in Requests : duStep'[r] = duStep[r] \/ (duStep[r] \in {"served", "detail"} /\ duStep'[r] \in {"detail", "daily"})
    PROVE  UsageInv' /\ DU!DaysCountEverything'
  <1>1. UsageInv'
    BY DEF UsageInv, Locked
  <1>2. DU!DaysCountEverything'
    BY DEF DU!DaysCountEverything, DU!CountsOf, DU!Headings
  <1> QED
    BY <1>1, <1>2

LEMMA UsageNext ==
    ASSUME DU!TypeOK, UsageInv, DU!DaysCountEverything, [DU!Next]_DU!vars
    PROVE  UsageInv' /\ DU!DaysCountEverything'
  <1> USE DEF DU!Go
  <1>a. DOMAIN duStep = Requests /\ DOMAIN duKey = Requests /\ DOMAIN read = Requests
    BY DEF DU!TypeOK
  <1>1. CASE UNCHANGED DU!vars \/ DU!Tick
    BY <1>1, RowsStay DEF DU!vars, DU!Tick, DU!ledger
  <1>2. ASSUME NEW r \in Requests, DU!InsertHistory(r) \/ DU!InsertDetail(r)
        PROVE  UsageInv' /\ DU!DaysCountEverything'
    BY <1>2, <1>a, RowsStay DEF DU!InsertHistory, DU!InsertDetail, DU!ledger
  <1>3. ASSUME UNCHANGED <<shape, DU!ledger>>
        PROVE  DU!DaysCountEverything'
    BY <1>3 DEF DU!DaysCountEverything, DU!CountsOf, DU!Headings, DU!ledger
  <1>4. CASE DU!Crash
    <2>1. UsageInv'
      BY <1>4 DEF DU!Crash, UsageInv, DU!ledger, Locked
    <2> QED
      BY <1>3, <1>4, <2>1 DEF DU!Crash
  <1>5. ASSUME NEW r \in Requests, DU!LockDay(r)
        PROVE  UsageInv' /\ DU!DaysCountEverything'
    <2>1. \A q \in Requests : duStep[q] \notin Locked
      BY <1>5, TokensAssumption DEF DU!LockDay, DU!LockFree, UsageInv
    <2>2. DU!Day(duNow) \in DU!Days
      BY DaysAreDays DEF DU!TypeOK
    <2>3. UsageInv'
      BY <1>5, <1>a, <2>1, <2>2 DEF DU!LockDay, UsageInv, DU!ledger, Locked
    <2> QED
      BY <1>3, <1>5, <2>3 DEF DU!LockDay
  <1>6. ASSUME NEW r \in Requests, DU!ReadDay(r) \/ DU!ReadFails(r)
        PROVE  UsageInv' /\ DU!DaysCountEverything'
    <2>1. UsageInv'
      BY <1>6, <1>a DEF DU!ReadDay, DU!ReadFails, UsageInv, DU!ledger, Locked
    <2> QED
      BY <1>3, <1>6, <2>1 DEF DU!ReadDay, DU!ReadFails
  <1>7. ASSUME NEW r \in Requests, DU!WriteFails(r) \/ DU!UnlockDay(r)
        PROVE  UsageInv' /\ DU!DaysCountEverything'
    <2>1. \A q \in Requests : duStep[q] \in Locked => q = r
      BY <1>7, TokensAssumption DEF DU!WriteFails, DU!UnlockDay, UsageInv, Locked
    <2>2. UsageInv'
      BY <1>7, <1>a, <2>1 DEF DU!WriteFails, DU!UnlockDay, UsageInv, DU!ledger, Locked
    <2> QED
      BY <1>3, <1>7, <2>2 DEF DU!WriteFails, DU!UnlockDay
  <1>8. ASSUME NEW r \in Requests, DU!WriteDay(r)
        PROVE  UsageInv' /\ DU!DaysCountEverything'
    <2> DEFINE d == duKey[r]
    <2>1. /\ duStep[r] \in {"write", "overwrite"} /\ d \in DU!Days /\ holder = r
          /\ \A q \in Requests : duStep[q] \in Locked => q = r
      BY <1>8, TokensAssumption DEF DU!WriteDay, UsageInv, Locked
    <2>2. r \notin counted[d] /\ wiped[d] \subseteq counted[d] /\ counted[d] \subseteq Requests
      BY <2>1 DEF UsageInv, DU!TypeOK
    <2>3. /\ daily' = [daily EXCEPT ![d] = DU!Merge(read[r], r)]
          /\ counted' = [counted EXCEPT ![d] = counted[d] \cup {r}]
          /\ wiped' = IF duStep[r] = "write" THEN wiped ELSE [wiped EXCEPT ![d] = counted[d]]
          /\ duStep' = [duStep EXCEPT ![r] = "written"] /\ UNCHANGED <<shape, holder, duKey, read>>
      BY <1>8 DEF DU!WriteDay
    <2>4. DOMAIN daily = DU!Days /\ DOMAIN counted = DU!Days /\ DOMAIN wiped = DU!Days
      BY DEF DU!TypeOK
    <2>5. UsageInv'
      BY <1>a, <2>1, <2>2, <2>3, <2>4 DEF UsageInv, Locked
    <2>6. \A T : DU!CountsOf(T)' = DU!CountsOf(T)
      BY <2>3 DEF DU!CountsOf, DU!Headings
    <2>7. daily'[d] = DU!CountsOf(counted'[d] \ wiped'[d])
      <3>1. CASE duStep[r] = "write"
        <4>1. read[r] = DU!CountsOf(counted[d] \ wiped[d])
          BY <2>1, <3>1 DEF UsageInv, DU!DaysCountEverything
        <4>2. counted'[d] \ wiped'[d] = (counted[d] \ wiped[d]) \cup {r}
          BY <2>1, <2>2, <2>3, <2>4, <3>1
        <4> QED
          BY <2>1, <2>2, <2>3, <2>4, <4>1, <4>2, MergeCounts
      <3>2. CASE duStep[r] = "overwrite"
        <4>1. read[r] = DU!CountsOf({})
          BY <3>2, NothingCounted DEF UsageInv
        <4>2. counted'[d] \ wiped'[d] = {} \cup {r}
          BY <2>1, <2>2, <2>3, <2>4, <3>2
        <4> QED
          BY <2>1, <2>2, <2>3, <2>4, <4>1, <4>2, MergeCounts
      <3> QED
        BY <2>1, <3>1, <3>2
    <2>8. \A e \in DU!Days : daily'[e] = DU!CountsOf(counted'[e] \ wiped'[e])
      BY <2>3, <2>4, <2>7 DEF DU!DaysCountEverything
    <2>9. DU!DaysCountEverything'
      BY <2>6, <2>8 DEF DU!DaysCountEverything
    <2> QED
      BY <2>5, <2>9
  <1> QED
    BY <1>1, <1>2, <1>4, <1>5, <1>6, <1>7, <1>8 DEF DU!Next

\* The row of a day counts every request merged into it once, and nothing else, for any number of
\* requests, shapes and days: upsertDailyUsage reads, merges and writes under dailyUsageMu.
THEOREM DaysStayCounted == AllSpec => []DaysCountEverything
  <1>1. AllInit => DU!TypeOK /\ UsageInv /\ DU!DaysCountEverything
    BY UsageInit DEF AllInit
  <1>2. DU!TypeOK /\ UsageInv /\ DU!DaysCountEverything /\ [AllNext]_AllVars
        => (DU!TypeOK /\ UsageInv /\ DU!DaysCountEverything)'
    BY UsageSteps, UsageTypes, UsageNext
  <1>3. DU!TypeOK /\ UsageInv /\ DU!DaysCountEverything => DaysCountEverything
    BY DEF DaysCountEverything
  <1> QED
    BY <1>1, <1>2, <1>3, PTL DEF AllSpec

-----------------------------------------------------------------------------
(* The reset of the health of the connections. *)

\* No lock is newer than the last one that was set; and an active lock that a reset saw in a row it
\* has passed is gone, or over.
ResetInv ==
    /\ \A c \in ConnRows, m \in Models : locks[c][m] <= issued
    /\ \A r \in Requests, c \in ConnRows, m \in Models : reCopy[r][c][m] <= issued
    /\ \A r \in Requests : reStep[r] = "idle" => reRow[r] = 1
    /\ \A r \in Requests, c \in ConnRows, m \in Models :
          /\ reStep[r] = "done" \/ (reStep[r] = "rows" /\ c < reRow[r])
          /\ model[r] \in {m, None} /\ reCopy[r][c][m] # RE!Unlocked
          => locks[c][m] # reCopy[r][c][m] \/ reCopy[r][c][m] \in reExpired

LEMMA RowsAre == /\ Cardinality(ConnRows) \in Nat /\ ConnRows = 1 .. Cardinality(ConnRows) /\ MaxLocks \in Nat
                 /\ \A c \in ConnRows : c \in Nat /\ c # 0
  BY ResetAssumption, FS_CardinalityType

LEMMA LocksAre == /\ \A l \in RE!Locks : l \in Nat /\ l # RE!Unlocked
                  /\ \A l \in RE!Locks \cup {RE!Unlocked} : l \in Nat
                  /\ RE!Unlocked = 0
  BY RowsAre DEF RE!Locks, RE!Unlocked

LEMMA ResetInit == RE!Init => RE!TypeOK /\ ResetInv
  <1> SUFFICES ASSUME RE!Init PROVE RE!TypeOK /\ ResetInv
    OBVIOUS
  <1>1. 0 \in 0 .. MaxLocks /\ 1 \in 1 .. Cardinality(ConnRows) + 1
    BY RowsAre
  <1>2. RE!NoLocks \in [ConnRows -> [Models -> RE!Locks \cup {RE!Unlocked}]]
    BY DEF RE!NoLocks
  <1>3. RE!TypeOK
    BY <1>1, <1>2, CountingRows DEF RE!Init, RE!TypeOK
  <1>4. \A c \in ConnRows, m \in Models : RE!NoLocks[c][m] = 0
    BY LocksAre DEF RE!NoLocks
  <1>5. ResetInv
    BY <1>4 DEF RE!Init, ResetInv
  <1> QED
    BY <1>3, <1>5

LEMMA ResetTypes ==
    ASSUME RE!TypeOK, [RE!Next]_RE!vars
    PROVE  RE!TypeOK'
  <1> USE DEF RE!Go
  <1> DEFINE Tables == [ConnRows -> [Models -> RE!Locks \cup {RE!Unlocked}]]
  <1>a. locks \in Tables /\ issued \in 0 .. MaxLocks
    BY DEF RE!TypeOK
  <1>1. CASE UNCHANGED RE!vars
    BY <1>1 DEF RE!TypeOK, RE!vars
  <1>2. ASSUME NEW r \in Requests, RE!Query(r)
        PROVE  RE!TypeOK'
    BY <1>2 DEF RE!Query, RE!TypeOK
  <1>3. ASSUME NEW r \in Requests, RE!Skip(r) \/ RE!ClearRow(r)
        PROVE  reRow' \in [Requests -> 1 .. Cardinality(ConnRows) + 1]
    <2>1. reRow[r] \in ConnRows /\ reRow' = [reRow EXCEPT ![r] = reRow[r] + 1]
      BY <1>3 DEF RE!Skip, RE!ClearRow, RE!AtRow, RE!Advance, RE!RowAfter
    <2>2. reRow[r] + 1 \in 1 .. Cardinality(ConnRows) + 1
      BY <2>1, RowsAre
    <2> QED
      BY <2>1, <2>2, CountingRows DEF RE!TypeOK
  <1>4. ASSUME NEW r \in Requests, RE!Skip(r)
        PROVE  RE!TypeOK'
    BY <1>3, <1>4, CountingRows DEF RE!Skip, RE!TypeOK
  <1>5. ASSUME NEW r \in Requests, RE!ClearRow(r)
        PROVE  RE!TypeOK'
    <2> DEFINE c == reRow[r]
               cleared == [m \in Models |-> IF m \in RE!Named(RE!Fields(r)) THEN RE!Unlocked ELSE locks[c][m]]
    <2>1. c \in ConnRows /\ locks' = [locks EXCEPT ![c] = cleared] /\ level' = [level EXCEPT ![c] = FALSE]
      BY <1>5 DEF RE!ClearRow, RE!AtRow
    <2>2. cleared \in [Models -> RE!Locks \cup {RE!Unlocked}]
      BY <1>a, <2>1
    <2> HIDE DEF c, cleared
    <2>3. locks' \in Tables
      BY <1>a, <2>1, <2>2
    <2>4. level' \in [ConnRows -> BOOLEAN]
      BY <2>1 DEF RE!TypeOK
    <2> QED
      BY <1>3, <1>5, <2>3, <2>4, CountingRows DEF RE!ClearRow, RE!TypeOK
  <1>6. ASSUME NEW r \in Requests, RE!RowFails(r) \/ RE!Finish(r)
        PROVE  RE!TypeOK'
    BY <1>6 DEF RE!RowFails, RE!Finish, RE!TypeOK
  <1>7. ASSUME NEW c \in ConnRows, NEW m \in Models, RE!Lock(c, m) \/ RE!Unlock(c, m)
        PROVE  RE!TypeOK'
    <2>1. issued' \in 0 .. MaxLocks
      BY <1>7, <1>a, RowsAre DEF RE!Lock, RE!Unlock
    <2>2. \E l \in RE!Locks \cup {RE!Unlocked} : locks' = [locks EXCEPT ![c][m] = l]
      <3>1. CASE RE!Lock(c, m)
        <4>1. issued' \in RE!Locks /\ locks' = [locks EXCEPT ![c][m] = issued']
          BY <1>a, <3>1, RowsAre DEF RE!Lock, RE!Locks
        <4> QED
          BY <4>1
      <3>2. CASE RE!Unlock(c, m)
        BY <3>2 DEF RE!Unlock
      <3> QED
        BY <1>7, <3>1, <3>2
    <2>3. locks' \in Tables
      BY <1>a, <2>2
    <2>4. level' \in [ConnRows -> BOOLEAN]
      BY <1>7 DEF RE!Lock, RE!Unlock, RE!TypeOK
    <2> QED
      BY <1>7, <2>1, <2>3, <2>4 DEF RE!Lock, RE!Unlock, RE!TypeOK
  <1>8. ASSUME NEW l \in RE!Locks, RE!Expire(l)
        PROVE  RE!TypeOK'
    BY <1>8 DEF RE!Expire, RE!TypeOK
  <1> QED
    BY <1>1, <1>2, <1>4, <1>5, <1>6, <1>7, <1>8 DEF RE!Next

LEMMA ResetNext ==
    ASSUME Dotted \cap Models = {},
           RE!TypeOK, ResetInv, [RE!Next]_RE!vars
    PROVE  ResetInv'
  <1> USE DEF RE!Go
  <1>a. /\ issued \in Nat
        /\ \A c \in ConnRows, m \in Models : locks[c][m] \in Nat
        /\ \A r \in Requests, c \in ConnRows, m \in Models : reCopy[r][c][m] \in Nat
    <2>1. issued \in 0 .. MaxLocks
      BY DEF RE!TypeOK
    <2>2. \A c \in ConnRows, m \in Models : locks[c][m] \in RE!Locks \cup {RE!Unlocked}
      BY DEF RE!TypeOK
    <2>3. \A r \in Requests, c \in ConnRows, m \in Models : reCopy[r][c][m] \in RE!Locks \cup {RE!Unlocked}
      BY DEF RE!TypeOK
    <2> QED
      BY <2>1, <2>2, <2>3, LocksAre, RowsAre
  <1>b. \A r \in Requests : reRow[r] \in Nat
    <2>1. \A r \in Requests : reRow[r] \in 1 .. Cardinality(ConnRows) + 1
      BY CountingRows DEF RE!TypeOK
    <2> QED
      BY <2>1, RowsAre
  <1>c. /\ DOMAIN reStep = Requests /\ DOMAIN model = Requests /\ DOMAIN reCopy = Requests /\ DOMAIN reRow = Requests
        /\ DOMAIN locks = ConnRows /\ \A c \in ConnRows : DOMAIN locks[c] = Models
    BY DEF RE!TypeOK
  <1>1. CASE UNCHANGED RE!vars
    BY <1>1 DEF RE!vars, ResetInv
  <1>2. ASSUME NEW r \in Requests, RE!Query(r)
        PROVE  ResetInv'
    <2>1. /\ reStep[r] = "idle" /\ reStep' = [reStep EXCEPT ![r] = "rows"] /\ reCopy' = [reCopy EXCEPT ![r] = locks]
          /\ \A q \in Requests : q # r => model'[q] = model[q]
          /\ UNCHANGED <<locks, level, issued, reExpired, reRow>>
      BY <1>2, <1>c DEF RE!Query
    <2>2. reRow'[r] = 1
      BY <2>1 DEF ResetInv
    <2>3. \A c \in ConnRows : ~(c < reRow'[r])
      BY <2>2, RowsAre
    <2> QED
      BY <1>c, <2>1, <2>2, <2>3 DEF ResetInv
  \* A row that is passed.
  <1>3. ASSUME NEW r \in Requests, reStep[r] = "rows", reStep' = reStep, reRow' = [reRow EXCEPT ![r] = reRow[r] + 1],
               UNCHANGED <<issued, reExpired, model, reCopy>>,
               \A c \in ConnRows, m \in Models : locks'[c][m] \in {locks[c][m], RE!Unlocked},
               \A m \in Models : /\ model[r] \in {m, None} /\ reCopy[r][reRow[r]][m] # RE!Unlocked
                                 => locks'[reRow[r]][m] = RE!Unlocked \/ reCopy[r][reRow[r]][m] \in reExpired
        PROVE  ResetInv'
    <2>1. \A c \in ConnRows, m \in Models : locks'[c][m] <= issued'
      BY <1>3, <1>a, LocksAre DEF ResetInv
    <2>2. \A q \in Requests, c \in ConnRows, m \in Models : reCopy'[q][c][m] <= issued'
      BY <1>3 DEF ResetInv
    <2>3. \A q \in Requests : reStep'[q] = "idle" => reRow'[q] = 1
      BY <1>3, <1>c DEF ResetInv
    <2>4. ASSUME NEW q \in Requests, NEW c \in ConnRows, NEW m \in Models,
                 reStep'[q] = "done" \/ (reStep'[q] = "rows" /\ c < reRow'[q]),
                 model'[q] \in {m, None}, reCopy'[q][c][m] # RE!Unlocked
          PROVE  locks'[c][m] # reCopy'[q][c][m] \/ reCopy'[q][c][m] \in reExpired'
      <3>1. CASE reStep[q] = "done" \/ (reStep[q] = "rows" /\ c < reRow[q])
        <4>1. locks[c][m] # reCopy[q][c][m] \/ reCopy[q][c][m] \in reExpired
          BY <1>3, <2>4, <3>1 DEF ResetInv
        <4> QED
          BY <1>3, <2>4, <4>1
      <3>2. CASE q = r /\ c = reRow[r]
        BY <1>3, <2>4, <3>2
      <3>3. q # r => reRow'[q] = reRow[q]
        BY <1>3, <1>c
      <3>4. q = r => reRow'[q] = reRow[r] + 1
        BY <1>3, <1>c
      <3>5. c \in Nat /\ reRow[r] \in Nat
        BY <1>b, RowsAre
      <3> QED
        BY <1>3, <2>4, <3>1, <3>2, <3>3, <3>4, <3>5
    <2> QED
      BY <2>1, <2>2, <2>3, <2>4 DEF ResetInv
  <1>4. ASSUME NEW r \in Requests, NEW m \in Models,
               model[r] \in {m, None}, reCopy[r][reRow[r]][m] # RE!Unlocked, m \notin RE!Fields(r)
        PROVE  reCopy[r][reRow[r]][m] \in reExpired
    BY <1>4 DEF RE!Fields
  <1>5. ASSUME NEW r \in Requests, RE!Skip(r)
        PROVE  ResetInv'
    BY <1>3, <1>4, <1>5 DEF RE!Skip, RE!AtRow, RE!Advance, RE!RowAfter
  <1>6. ASSUME NEW r \in Requests, RE!ClearRow(r)
        PROVE  ResetInv'
    <2>1. /\ reStep[r] = "rows" /\ reRow[r] \in ConnRows /\ reRow' = [reRow EXCEPT ![r] = reRow[r] + 1]
          /\ UNCHANGED <<issued, reExpired, reStep, model, reCopy>>
          /\ locks' = [locks EXCEPT ![reRow[r]] =
                [m \in Models |-> IF m \in RE!Named(RE!Fields(r)) THEN RE!Unlocked ELSE locks[reRow[r]][m]]]
      BY <1>6 DEF RE!ClearRow, RE!AtRow, RE!Advance, RE!RowAfter
    <2>2. /\ \A c \in ConnRows : c # reRow[r] => locks'[c] = locks[c]
          /\ \A m \in Models : locks'[reRow[r]][m] = IF m \in RE!Named(RE!Fields(r)) THEN RE!Unlocked ELSE locks[reRow[r]][m]
      BY <1>c, <2>1
    <2>3. \A c \in ConnRows, m \in Models : locks'[c][m] \in {locks[c][m], RE!Unlocked}
      BY <2>2
    <2>4. \A m \in Models : m \in RE!Fields(r) => m \in RE!Named(RE!Fields(r))
      BY DEF RE!Named
    <2>5. \A m \in Models : model[r] \in {m, None} /\ reCopy[r][reRow[r]][m] # RE!Unlocked
                            => locks'[reRow[r]][m] = RE!Unlocked \/ reCopy[r][reRow[r]][m] \in reExpired
      BY <1>4, <2>2, <2>4
    <2> QED
      BY <1>3, <2>1, <2>3, <2>5
  <1>7. ASSUME NEW r \in Requests, RE!RowFails(r)
        PROVE  ResetInv'
    BY <1>7, <1>c DEF RE!RowFails, ResetInv
  <1>8. ASSUME NEW r \in Requests, RE!Finish(r)
        PROVE  ResetInv'
    <2>1. /\ reStep[r] = "rows" /\ reRow[r] \notin ConnRows /\ reStep' = [reStep EXCEPT ![r] = "done"]
          /\ UNCHANGED <<locks, issued, reExpired, model, reCopy, reRow>>
      BY <1>8 DEF RE!Finish
    <2>2. \A c \in ConnRows : c < reRow[r]
      <3>1. reRow[r] \in 1 .. Cardinality(ConnRows) + 1
        BY CountingRows DEF RE!TypeOK
      <3> QED
        BY <2>1, <3>1, RowsAre
    <2> QED
      BY <1>c, <2>1, <2>2 DEF ResetInv
  <1>9. ASSUME NEW c \in ConnRows, NEW m \in Models, RE!Lock(c, m) \/ RE!Unlock(c, m)
        PROVE  ResetInv'
    <2>1. /\ \A d \in ConnRows, n \in Models : locks'[d][n] = locks[d][n] \/ locks'[d][n] = 0
                                               \/ (locks'[d][n] = issued + 1 /\ issued' = issued + 1)
          /\ issued' \in {issued, issued + 1}
          /\ UNCHANGED <<reExpired, reStep, model, reCopy, reRow>>
      BY <1>9, <1>c, LocksAre DEF RE!Lock, RE!Unlock
    <2>2. \A d \in ConnRows, n \in Models : locks'[d][n] <= issued'
      BY <1>a, <2>1 DEF ResetInv
    <2>3. \A q \in Requests, d \in ConnRows, n \in Models : reCopy'[q][d][n] <= issued'
      BY <1>a, <2>1 DEF ResetInv
    <2>4. \A q \in Requests, d \in ConnRows, n \in Models :
             reCopy[q][d][n] # RE!Unlocked /\ locks[d][n] # reCopy[q][d][n] => locks'[d][n] # reCopy[q][d][n]
      BY <1>a, <2>1, LocksAre DEF ResetInv
    <2> QED
      BY <2>1, <2>2, <2>3, <2>4 DEF ResetInv
  <1>10. ASSUME NEW l \in RE!Locks, RE!Expire(l)
         PROVE  ResetInv'
    BY <1>10 DEF RE!Expire, ResetInv
  <1> QED
    BY <1>1, <1>2, <1>5, <1>6, <1>7, <1>8, <1>9, <1>10 DEF RE!Next

LEMMA ResetIsClear == ResetInv => RE!ResetClears
  BY DEF ResetInv, RE!ResetClears

\* When a reset of the health of a model, or of all of them, reports success, every lock that was
\* active in a row it read is gone or over: for any number of rows, models without a dot, locks
\* and concurrent resets.
THEOREM ResetStaysClear ==
    ASSUME Dotted \cap Models = {}
    PROVE  AllSpec => []RE!ResetClears
  <1>1. AllInit => RE!TypeOK /\ ResetInv
    BY ResetInit DEF AllInit
  <1>2. RE!TypeOK /\ ResetInv /\ [AllNext]_AllVars => (RE!TypeOK /\ ResetInv)'
    BY ResetSteps, ResetTypes, ResetNext
  <1>3. RE!TypeOK /\ ResetInv => RE!ResetClears
    BY ResetIsClear
  <1> QED
    BY <1>1, <1>2, <1>3, PTL DEF AllSpec

-----------------------------------------------------------------------------
(* The live console. *)

\* Lines that were logged, none of them twice.
Once(lines) ==
    /\ \A i \in DOMAIN lines : lines[i] <= written
    /\ \A i, j \in DOMAIN lines : lines[i] = lines[j] => i = j

\* What a viewer has on its screen, in its channel, and what loggers have yet to hand to it.
Coming(v) == {l \in Loggers : v \in targets[l] /\ event[l] # CO!Clear}

\* Of those no line is the same as another, and a viewer that has not subscribed has nothing coming.
ViewInv(v) ==
    /\ Once(shown[v])
    /\ \A i \in DOMAIN chan[v] : chan[v][i] <= written
    /\ \A i, j \in DOMAIN chan[v] : chan[v][i] = chan[v][j] => i = j \/ chan[v][i] = CO!Clear
    /\ \A i \in DOMAIN shown[v], j \in DOMAIN chan[v] : shown[v][i] # chan[v][j]
    /\ \A l \in Coming(v) :
          /\ event[l] <= written
          /\ \A i \in DOMAIN shown[v] : shown[v][i] # event[l]
          /\ \A i \in DOMAIN chan[v] : chan[v][i] # event[l]
          /\ \A m \in Coming(v) : event[m] = event[l] => m = l
    /\ at[v] \in {1, 2} => v \notin subs /\ chan[v] = <<>> /\ \A l \in Loggers : v \notin targets[l]

ConsoleInv == Once(buffer) /\ \A v \in Viewers : ViewInv(v)

LEMMA ConsoleNumbers == BufLines \in Nat /\ ChanSize \in Nat /\ MaxLines \in Nat /\ MaxClears \in Nat
  BY ConsoleAssumption

LEMMA LinesAre == /\ \A e \in CO!Lines : e \in Nat /\ e # 0
                  /\ \A e \in CO!Lines \cup {CO!Clear} : e \in Nat
                  /\ CO!Clear = 0 /\ CO!Clear \notin CO!Lines
  BY ConsoleNumbers DEF CO!Lines, CO!Clear

LEMMA OpeningIs ==
    /\ CO!Live = 3 /\ CO!Left = 4
    /\ \A k : k \in DOMAIN CO!Opening => (CO!Opening[k] = "buffer" <=> k = 1) /\ (CO!Opening[k] = "subscribe" <=> k = 2)
  <1>1. Len(CO!Opening) = 2 /\ DOMAIN CO!Opening = {1, 2} /\ CO!Opening[1] = "buffer" /\ CO!Opening[2] = "subscribe"
    BY DEF CO!Opening
  <1> QED
    BY <1>1 DEF CO!Live, CO!Left

LEMMA SeqIs ==
    ASSUME NEW S, NEW s \in Seq(S)
    PROVE  Len(s) \in Nat /\ DOMAIN s = 1 .. Len(s) /\ \A i \in DOMAIN s : s[i] \in S
  OBVIOUS

LEMMA AppendIs ==
    ASSUME NEW S, NEW s \in Seq(S), NEW e \in S
    PROVE  /\ Append(s, e) \in Seq(S) /\ Len(Append(s, e)) = Len(s) + 1
           /\ DOMAIN Append(s, e) = 1 .. Len(s) + 1 /\ Len(s) \in Nat
           /\ \A i \in 1 .. Len(s) : Append(s, e)[i] = s[i]
           /\ Append(s, e)[Len(s) + 1] = e
  OBVIOUS

LEMMA TailIs ==
    ASSUME NEW S, NEW s \in Seq(S), s # <<>>
    PROVE  /\ Tail(s) \in Seq(S) /\ Len(Tail(s)) = Len(s) - 1 /\ Len(s) \in Nat \ {0}
           /\ DOMAIN Tail(s) = 1 .. Len(s) - 1 /\ DOMAIN s = 1 .. Len(s)
           /\ \A i \in 1 .. Len(s) - 1 : Tail(s)[i] = s[i + 1]
           /\ Head(s) = s[1] /\ s[1] \in S
  OBVIOUS

\* The last n lines.
LEMMA LastIs ==
    ASSUME NEW S, NEW s \in Seq(S), NEW n \in Nat
    PROVE  /\ CO!LastLines(s, n) \in Seq(S) /\ Len(CO!LastLines(s, n)) <= n
           /\ \E k \in Nat : /\ k <= Len(s) /\ DOMAIN CO!LastLines(s, n) = 1 .. Len(s) - k
                             /\ \A i \in 1 .. Len(s) - k : CO!LastLines(s, n)[i] = s[i + k]
  <1>1. Len(s) \in Nat /\ DOMAIN s = 1 .. Len(s) /\ \A i \in 1 .. Len(s) : s[i] \in S
    OBVIOUS
  <1> DEFINE k == IF Len(s) > n THEN Len(s) - n ELSE 0
  <1>2. k \in Nat /\ k <= Len(s) /\ Len(s) - k <= n /\ CO!LastLines(s, n) = SubSeq(s, k + 1, Len(s))
    BY <1>1 DEF CO!LastLines
  <1> HIDE DEF k
  <1>3. SubSeq(s, k + 1, Len(s)) = [i \in 1 .. Len(s) - k |-> s[i + k]]
    BY <1>1, <1>2
  <1>4. /\ CO!LastLines(s, n) = [i \in 1 .. Len(s) - k |-> s[i + k]]
        /\ Len(s) - k \in Nat /\ \A i \in 1 .. Len(s) - k : s[i + k] \in S
    BY <1>1, <1>2, <1>3
  <1>5. CO!LastLines(s, n) \in Seq(S) /\ Len(CO!LastLines(s, n)) = Len(s) - k
    BY <1>4
  <1> QED
    BY <1>2, <1>4, <1>5

LEMMA ConsoleInit == CO!Init => CO!TypeOK /\ ConsoleInv
  <1> SUFFICES ASSUME CO!Init PROVE CO!TypeOK /\ ConsoleInv
    OBVIOUS
  <1>1. CO!TypeOK
    BY ConsoleNumbers, OpeningIs DEF CO!Init, CO!TypeOK
  <1>2. ASSUME NEW v \in Viewers PROVE ViewInv(v)
    BY <1>2 DEF CO!Init, ViewInv, Once, Coming
  <1>3. Once(buffer)
    BY DEF CO!Init, Once
  <1> QED
    BY <1>1, <1>2, <1>3 DEF ConsoleInv

LEMMA ConsoleTypes ==
    ASSUME CO!TypeOK, [CO!Next]_CO!vars
    PROVE  CO!TypeOK'
  <1> USE ConsoleNumbers
  <1>1. CASE UNCHANGED CO!vars
    BY <1>1 DEF CO!TypeOK, CO!vars
  <1>2. ASSUME NEW l \in Loggers, CO!CaptureConsole(l)
        PROVE  CO!TypeOK'
    <2>1. written' \in 0 .. MaxLines /\ written' \in CO!Lines
      BY <1>2 DEF CO!CaptureConsole, CO!TypeOK, CO!Lines
    <2>2. buffer \in Seq(CO!Lines)
      BY DEF CO!TypeOK
    <2>3. Append(buffer, written') \in Seq(CO!Lines)
      BY <2>1, <2>2, AppendIs
    <2>4. buffer' \in Seq(CO!Lines) /\ Len(buffer') <= BufLines
      BY <1>2, <2>3, LastIs DEF CO!CaptureConsole
    <2>5. /\ busy' \in [Loggers -> BOOLEAN] /\ event' \in [Loggers -> CO!Lines \cup {CO!Clear}]
          /\ targets' \in [Loggers -> SUBSET Viewers]
      BY <1>2, <2>1 DEF CO!CaptureConsole, CO!Announce, CO!TypeOK
    <2> QED
      BY <1>2, <2>1, <2>4, <2>5 DEF CO!CaptureConsole, CO!TypeOK
  <1>3. ASSUME NEW l \in Loggers, CO!ClearConsoleLogs(l)
        PROVE  CO!TypeOK'
    <2>1. clears' \in 0 .. MaxClears
      BY <1>3 DEF CO!ClearConsoleLogs, CO!TypeOK
    <2>2. buffer' \in Seq(CO!Lines) /\ Len(buffer') <= BufLines
      BY <1>3 DEF CO!ClearConsoleLogs
    <2>3. /\ busy' \in [Loggers -> BOOLEAN] /\ event' \in [Loggers -> CO!Lines \cup {CO!Clear}]
          /\ targets' \in [Loggers -> SUBSET Viewers]
      BY <1>3 DEF CO!ClearConsoleLogs, CO!Announce, CO!TypeOK
    <2> QED
      BY <1>3, <2>1, <2>2, <2>3 DEF CO!ClearConsoleLogs, CO!TypeOK
  <1>4. ASSUME NEW l \in Loggers, NEW v \in Viewers, CO!Send(l, v)
        PROVE  CO!TypeOK'
    <2>1. targets' \in [Loggers -> SUBSET Viewers]
      BY <1>4 DEF CO!Send, CO!TypeOK
    <2>2. chan[v] \in Seq(CO!Lines \cup {CO!Clear}) /\ Len(chan[v]) <= ChanSize /\ event[l] \in CO!Lines \cup {CO!Clear}
      BY DEF CO!TypeOK
    <2>3. Append(chan[v], event[l]) \in Seq(CO!Lines \cup {CO!Clear}) /\ Len(Append(chan[v], event[l])) = Len(chan[v]) + 1
      BY <2>2, AppendIs
    <2>4. /\ \A w \in Viewers : w # v => chan'[w] = chan[w]
          /\ chan'[v] = chan[v] \/ (Len(chan[v]) < ChanSize /\ chan'[v] = Append(chan[v], event[l]))
      BY <1>4 DEF CO!Send, CO!Room, CO!TypeOK
    <2>5. \A w \in Viewers : chan'[w] \in Seq(CO!Lines \cup {CO!Clear}) /\ Len(chan'[w]) <= ChanSize
      <3>1. Len(chan[v]) \in Nat
        BY <2>2
      <3>2. chan'[v] \in Seq(CO!Lines \cup {CO!Clear}) /\ Len(chan'[v]) <= ChanSize
        <4>1. CASE chan'[v] = chan[v]
          BY <2>2, <4>1
        <4>2. CASE Len(chan[v]) < ChanSize /\ chan'[v] = Append(chan[v], event[l])
          BY <2>3, <3>1, <4>2
        <4> QED
          BY <2>4, <4>1, <4>2
      <3> QED
        BY <2>4, <3>2 DEF CO!TypeOK
    <2> QED
      BY <1>4, <2>1, <2>5 DEF CO!Send, CO!TypeOK
  <1>5. ASSUME NEW l \in Loggers, CO!Sent(l)
        PROVE  CO!TypeOK'
    BY <1>5 DEF CO!Sent, CO!TypeOK
  <1>6. ASSUME NEW v \in Viewers, CO!SendBuffer(v) \/ CO!SubscribeConsole(v) \/ CO!Leave(v)
        PROVE  CO!TypeOK'
    <2>1. at' \in [Viewers -> 1 .. CO!Left]
      <3>1. \/ at[v] \in {1, 2} /\ at' = [at EXCEPT ![v] = at[v] + 1]
            \/ at' = [at EXCEPT ![v] = CO!Left]
        BY <1>6, OpeningIs DEF CO!SendBuffer, CO!SubscribeConsole, CO!Leave, CO!Opens
      <3>2. at \in [Viewers -> 1 .. 4]
        BY OpeningIs DEF CO!TypeOK
      <3>3. at' \in [Viewers -> 1 .. 4]
        BY <3>1, <3>2, OpeningIs
      <3> QED
        BY <3>3, OpeningIs
    <2>2. subs' \subseteq Viewers
      BY <1>6 DEF CO!SendBuffer, CO!SubscribeConsole, CO!Leave, CO!TypeOK
    <2>3. \A w \in Viewers : shown'[w] \in Seq(CO!Lines)
      <3>1. shown' = shown \/ shown' = [shown EXCEPT ![v] = buffer]
        BY <1>6 DEF CO!SendBuffer, CO!SubscribeConsole, CO!Leave
      <3>2. /\ DOMAIN shown = Viewers /\ buffer \in Seq(CO!Lines)
            /\ \A w \in Viewers : shown[w] \in Seq(CO!Lines)
        BY DEF CO!TypeOK
      <3> QED
        BY <3>1, <3>2
    <2>4. DOMAIN shown' = Viewers
      BY <1>6 DEF CO!SendBuffer, CO!SubscribeConsole, CO!Leave, CO!TypeOK
    <2> QED
      BY <1>6, <2>1, <2>2, <2>3, <2>4 DEF CO!SendBuffer, CO!SubscribeConsole, CO!Leave, CO!TypeOK
  <1>7. ASSUME NEW v \in Viewers, CO!Receive(v)
        PROVE  CO!TypeOK'
    <2>1. chan[v] \in Seq(CO!Lines \cup {CO!Clear}) /\ Len(chan[v]) <= ChanSize /\ chan[v] # <<>>
      BY <1>7 DEF CO!Receive, CO!TypeOK
    <2>2. /\ Tail(chan[v]) \in Seq(CO!Lines \cup {CO!Clear}) /\ Len(Tail(chan[v])) <= ChanSize
          /\ Head(chan[v]) \in CO!Lines \cup {CO!Clear}
      BY <2>1, TailIs
    <2>3. shown[v] \in Seq(CO!Lines)
      BY DEF CO!TypeOK
    <2>4. Head(chan[v]) # CO!Clear => Append(shown[v], Head(chan[v])) \in Seq(CO!Lines)
      BY <2>2, <2>3, AppendIs
    <2>5. /\ chan' = [chan EXCEPT ![v] = Tail(chan[v])]
          /\ shown' = [shown EXCEPT ![v] = IF Head(chan[v]) = CO!Clear THEN <<>> ELSE Append(shown[v], Head(chan[v]))]
      BY <1>7 DEF CO!Receive
    <2>6. <<>> \in Seq(CO!Lines)
      OBVIOUS
    <2>7. \A w \in Viewers : /\ chan'[w] \in Seq(CO!Lines \cup {CO!Clear}) /\ Len(chan'[w]) <= ChanSize
                             /\ shown'[w] \in Seq(CO!Lines)
      BY <2>2, <2>4, <2>5, <2>6 DEF CO!TypeOK
    <2> QED
      BY <1>7, <2>7 DEF CO!Receive, CO!TypeOK
  <1> QED
    BY <1>1, <1>2, <1>3, <1>4, <1>5, <1>6, <1>7 DEF CO!Next

\* A viewer that a step leaves alone, whatever else was logged meanwhile.
LEMMA ViewStays ==
    ASSUME NEW v \in Viewers, CO!TypeOK, ViewInv(v),
           shown'[v] = shown[v], chan'[v] = chan[v], at'[v] = at[v], written' = written,
           v \in subs' => v \in subs, event' = event,
           \A l \in Loggers : v \in targets'[l] => v \in targets[l]
    PROVE  ViewInv(v)'
  BY DEF ViewInv, Once, Coming

LEMMA ConsoleNext ==
    ASSUME CO!TypeOK, ConsoleInv, [CO!Next]_CO!vars
    PROVE  ConsoleInv'
  <1>a. /\ written \in Nat /\ buffer \in Seq(CO!Lines) /\ DOMAIN at = Viewers
        /\ DOMAIN event = Loggers /\ DOMAIN targets = Loggers
        /\ DOMAIN chan = Viewers /\ DOMAIN shown = Viewers
        /\ \A v \in Viewers : chan[v] \in Seq(CO!Lines \cup {CO!Clear}) /\ shown[v] \in Seq(CO!Lines)
    BY ConsoleNumbers DEF CO!TypeOK
  <1>b. \A i \in DOMAIN buffer : buffer[i] \in Nat
    BY <1>a, LinesAre, SeqIs
  <1>c. \A v \in Viewers : \A i \in DOMAIN chan[v] : chan[v][i] \in Nat
    <2>1. ASSUME NEW v \in Viewers, NEW i \in DOMAIN chan[v] PROVE chan[v][i] \in Nat
      <3>1. chan[v][i] \in CO!Lines \cup {CO!Clear}
        BY <1>a, SeqIs
      <3> QED
        BY <3>1, LinesAre
    <2> QED
      BY <2>1
  <1>e. \A v \in Viewers : \A i \in DOMAIN shown[v] : shown[v][i] \in Nat /\ shown[v][i] # 0
    <2>1. ASSUME NEW v \in Viewers, NEW i \in DOMAIN shown[v] PROVE shown[v][i] \in Nat /\ shown[v][i] # 0
      <3>1. shown[v][i] \in CO!Lines
        BY <1>a, SeqIs
      <3> QED
        BY <3>1, LinesAre
    <2> QED
      BY <2>1
  <1>d. \A l \in Loggers : event[l] \in Nat
    <2>1. \A l \in Loggers : event[l] \in CO!Lines \cup {CO!Clear}
      BY DEF CO!TypeOK
    <2> QED
      BY <2>1, LinesAre
  <1>1. CASE UNCHANGED CO!vars
    BY <1>1 DEF CO!vars, ConsoleInv, ViewInv, Once, Coming
  <1>2. ASSUME NEW l \in Loggers, CO!CaptureConsole(l)
        PROVE  ConsoleInv'
    <2>1. /\ written' = written + 1 /\ buffer' = CO!LastLines(Append(buffer, written'), BufLines)
          /\ event' = [event EXCEPT ![l] = written'] /\ targets' = [targets EXCEPT ![l] = subs]
          /\ UNCHANGED <<subs, chan, at, shown>>
      BY <1>2 DEF CO!CaptureConsole, CO!Announce
    <2>2. written' \in CO!Lines
      BY <1>2, ConsoleNumbers DEF CO!CaptureConsole, CO!TypeOK, CO!Lines
    <2>3. Once(buffer)'
      <3> DEFINE s == Append(buffer, written')
      <3>1. /\ s \in Seq(CO!Lines) /\ Len(buffer) \in Nat /\ Len(s) = Len(buffer) + 1
            /\ \A i \in 1 .. Len(buffer) : s[i] = buffer[i]
            /\ s[Len(buffer) + 1] = written'
        BY <1>a, <2>2, AppendIs
      <3>2. PICK k \in Nat : /\ k <= Len(s) /\ DOMAIN buffer' = 1 .. Len(s) - k
                             /\ \A i \in 1 .. Len(s) - k : buffer'[i] = s[i + k]
        <4>1. \E k \in Nat : /\ k <= Len(s) /\ DOMAIN CO!LastLines(s, BufLines) = 1 .. Len(s) - k
                             /\ \A i \in 1 .. Len(s) - k : CO!LastLines(s, BufLines)[i] = s[i + k]
          <5> HIDE DEF s
          <5>1. s \in Seq(CO!Lines) /\ BufLines \in Nat
            BY <3>1, ConsoleNumbers
          <5> QED
            BY <5>1, LastIs
        <4> QED
          BY <2>1, <4>1
      <3>3. DOMAIN buffer = 1 .. Len(buffer)
        BY <1>a
      <3> HIDE DEF s
      <3>a. \A i \in 1 .. Len(buffer) : buffer[i] \in Nat /\ buffer[i] <= written
        BY <1>b, <3>3 DEF ConsoleInv, Once
      <3>b. \A i, j \in 1 .. Len(buffer) : buffer[i] = buffer[j] => i = j
        BY <3>3 DEF ConsoleInv, Once
      <3>4. \A i \in 1 .. Len(s) : s[i] \in Nat /\ s[i] <= written'
        BY <1>a, <2>1, <3>1, <3>a
      <3>5. \A i, j \in 1 .. Len(s) : s[i] = s[j] => i = j
        <4>1. \A i \in 1 .. Len(s) : i \in 1 .. Len(buffer) \/ i = Len(buffer) + 1
          BY <3>1
        <4>2. \A i \in 1 .. Len(buffer) : s[i] = buffer[i] /\ s[i] # s[Len(buffer) + 1]
          BY <1>a, <2>1, <3>1, <3>a
        <4> QED
          BY <3>b, <4>1, <4>2
      <3>6. \A i \in 1 .. Len(s) - k : i + k \in 1 .. Len(s)
        BY <3>1, <3>2
      <3>7. \A i \in DOMAIN buffer' : buffer'[i] <= written'
        BY <3>2, <3>4, <3>6
      <3>8. ASSUME NEW i \in DOMAIN buffer', NEW j \in DOMAIN buffer', buffer'[i] = buffer'[j]
            PROVE  i = j
        <4>1. i \in Nat /\ j \in Nat /\ i + k \in 1 .. Len(s) /\ j + k \in 1 .. Len(s)
          BY <3>2, <3>6
        <4>2. s[i + k] = s[j + k]
          BY <3>2, <3>8
        <4> QED
          BY <3>2, <3>5, <4>1, <4>2
      <3> QED
        BY <3>7, <3>8 DEF Once
    <2>4. ASSUME NEW v \in Viewers PROVE ViewInv(v)'
      <3>1. ViewInv(v)
        BY DEF ConsoleInv
      <3>2. \A m \in Loggers : m # l => event'[m] = event[m] /\ targets'[m] = targets[m]
        BY <1>a, <2>1
      <3>3. event'[l] = written + 1 /\ targets'[l] = subs
        BY <1>a, <2>1
      <3>4. \A m \in Loggers : m \in Coming(v)' => (m \in Coming(v) /\ event'[m] = event[m] /\ m # l)
                                                  \/ (m = l /\ v \in subs /\ event'[m] = written + 1)
        BY <3>2, <3>3 DEF Coming
      <3>5. Once(shown[v])'
        <4>1. \A i \in DOMAIN shown[v] : shown[v][i] \in Nat /\ shown[v][i] <= written
          <5>1. \A i \in DOMAIN shown[v] : shown[v][i] <= written
            BY <3>1 DEF ViewInv, Once
          <5>2. \A i \in DOMAIN shown[v] : shown[v][i] \in Nat
            BY <1>e
          <5> QED
            BY <5>1, <5>2
        <4>2. \A i \in DOMAIN shown[v] : shown[v][i] <= written + 1
          BY <1>a, <4>1
        <4> QED
          BY <2>1, <3>1, <4>2 DEF ViewInv, Once
      <3>6. /\ \A i \in DOMAIN chan'[v] : chan'[v][i] <= written'
            /\ \A i, j \in DOMAIN chan'[v] : chan'[v][i] = chan'[v][j] => i = j \/ chan'[v][i] = CO!Clear
            /\ \A i \in DOMAIN shown'[v], j \in DOMAIN chan'[v] : shown'[v][i] # chan'[v][j]
        BY <1>a, <1>c, <1>e, <2>1, <3>1 DEF ViewInv, Once
      <3>7. ASSUME NEW m \in Loggers, m \in Coming(v)'
            PROVE  /\ event'[m] <= written'
                   /\ \A i \in DOMAIN shown'[v] : shown'[v][i] # event'[m]
                   /\ \A i \in DOMAIN chan'[v] : chan'[v][i] # event'[m]
        BY <1>a, <1>c, <1>e, <1>d, <2>1, <3>1, <3>4, <3>7 DEF ViewInv, Once
      <3>8. ASSUME NEW m \in Loggers, NEW n \in Loggers, m \in Coming(v)', n \in Coming(v)', event'[n] = event'[m]
            PROVE  n = m
        BY <1>a, <1>d, <3>1, <3>4, <3>8 DEF ViewInv
      <3>9. at'[v] \in {1, 2} => v \notin subs' /\ chan'[v] = <<>> /\ \A m \in Loggers : v \notin targets'[m]
        BY <2>1, <3>1, <3>2, <3>3 DEF ViewInv
      <3>10. Coming(v)' \subseteq Loggers
        BY DEF Coming
      <3> QED
        BY <3>5, <3>6, <3>7, <3>8, <3>9, <3>10 DEF ViewInv
    <2> QED
      BY <2>3, <2>4 DEF ConsoleInv
  <1>3. ASSUME NEW l \in Loggers, CO!ClearConsoleLogs(l)
        PROVE  ConsoleInv'
    <2>1. /\ written' = written /\ buffer' = <<>>
          /\ event' = [event EXCEPT ![l] = CO!Clear] /\ targets' = [targets EXCEPT ![l] = subs]
          /\ UNCHANGED <<subs, chan, at, shown>>
      BY <1>3 DEF CO!ClearConsoleLogs, CO!Announce
    <2>2. Once(buffer)'
      BY <2>1 DEF Once
    <2>3. ASSUME NEW v \in Viewers PROVE ViewInv(v)'
      <3>1. ViewInv(v)
        BY DEF ConsoleInv
      <3>2. \A m \in Loggers : m # l => event'[m] = event[m] /\ targets'[m] = targets[m]
        BY <1>a, <2>1
      <3>3. event'[l] = CO!Clear /\ targets'[l] = subs
        BY <1>a, <2>1
      <3>4. \A m \in Loggers : m \in Coming(v)' => m \in Coming(v) /\ event'[m] = event[m]
        BY <3>2, <3>3 DEF Coming
      <3>5. Coming(v)' \subseteq Loggers
        BY DEF Coming
      <3> QED
        BY <2>1, <3>1, <3>2, <3>3, <3>4, <3>5 DEF ViewInv, Once
    <2> QED
      BY <2>2, <2>3 DEF ConsoleInv
  <1>4. ASSUME NEW l \in Loggers, NEW v \in Viewers, CO!Send(l, v)
        PROVE  ConsoleInv'
    <2>1. /\ v \in targets[l] /\ targets' = [targets EXCEPT ![l] = targets[l] \ {v}]
          /\ chan' = chan \/ chan' = [chan EXCEPT ![v] = Append(chan[v], event[l])]
          /\ UNCHANGED <<buffer, subs, written, event, at, shown>>
      BY <1>4 DEF CO!Send
    <2>2. Once(buffer)'
      BY <2>1 DEF ConsoleInv, Once
    <2>3. ASSUME NEW w \in Viewers, w # v PROVE ViewInv(w)'
      <3>1. chan'[w] = chan[w] /\ \A m \in Loggers : w \in targets'[m] => w \in targets[m]
        BY <1>a, <2>1, <2>3
      <3> QED
        BY <2>1, <3>1, ViewStays DEF ConsoleInv
    <2>4. ViewInv(v)'
      <3>1. ViewInv(v)
        BY DEF ConsoleInv
      <3>2. /\ \A m \in Loggers : v \in targets'[m] => v \in targets[m] /\ m # l
            /\ Coming(v)' \subseteq Coming(v) /\ l \notin Coming(v)'
        BY <1>a, <2>1 DEF Coming
      <3>3. CASE chan'[v] = chan[v]
        BY <2>1, <3>1, <3>2, <3>3, ViewStays
      <3>4. CASE chan'[v] = Append(chan[v], event[l])
        <4> DEFINE n == Len(chan[v])
        <4>1. /\ n \in Nat /\ DOMAIN chan[v] = 1 .. n /\ DOMAIN chan'[v] = 1 .. n + 1
              /\ \A i \in 1 .. n : chan'[v][i] = chan[v][i]
              /\ chan'[v][n + 1] = event[l]
          <5>1. event[l] \in CO!Lines \cup {CO!Clear}
            BY DEF CO!TypeOK
          <5> QED
            BY <1>a, <3>4, <5>1, AppendIs
        <4>2. event[l] = CO!Clear \/ l \in Coming(v)
          BY <2>1 DEF Coming
        <4>3. event[l] <= written /\ event[l] \in Nat
          BY <1>a, <1>d, <3>1, <4>2, LinesAre DEF ViewInv
        <4>4. Once(shown[v])'
          BY <2>1, <3>1 DEF ViewInv, Once
        <4>5. \A i \in DOMAIN chan'[v] : chan'[v][i] <= written'
          <5>1. \A i \in 1 .. n : chan[v][i] <= written
            BY <3>1, <4>1 DEF ViewInv
          <5>2. \A i \in 1 .. n + 1 : i \in 1 .. n \/ i = n + 1
            BY <4>1
          <5> QED
            BY <2>1, <4>1, <4>3, <5>1, <5>2
        <4>6. \A i, j \in DOMAIN chan'[v] : chan'[v][i] = chan'[v][j] => i = j \/ chan'[v][i] = CO!Clear
          BY <3>1, <4>1, <4>2 DEF ViewInv
        <4>7. \A i \in DOMAIN shown'[v], j \in DOMAIN chan'[v] : shown'[v][i] # chan'[v][j]
          <5>1. \A i \in DOMAIN shown[v] : shown[v][i] # event[l]
            <6>1. CASE event[l] = CO!Clear
              <7>1. \A i \in DOMAIN shown[v] : shown[v][i] # 0
                BY <1>e
              <7> QED
                BY <6>1, <7>1, LinesAre
            <6>2. CASE l \in Coming(v)
              BY <3>1, <6>2 DEF ViewInv
            <6> QED
              BY <4>2, <6>1, <6>2
          <5>2. \A i \in DOMAIN shown[v], j \in 1 .. n : shown[v][i] # chan'[v][j]
            BY <3>1, <4>1 DEF ViewInv
          <5> QED
            BY <2>1, <4>1, <5>1, <5>2
        <4>8. ASSUME NEW m \in Coming(v)'
              PROVE  /\ m \in Coming(v) /\ m # l /\ event'[m] = event[m]
                     /\ event[m] # event[l]
          BY <2>1, <3>1, <3>2, <4>2 DEF ViewInv, Coming
        <4>9. \A m \in Coming(v)' : \A i \in DOMAIN chan'[v] : chan'[v][i] # event'[m]
          BY <3>1, <4>1, <4>8 DEF ViewInv
        <4>10. at'[v] \notin {1, 2}
          BY <2>1, <3>1 DEF ViewInv
        <4> QED
          BY <2>1, <3>1, <4>4, <4>5, <4>6, <4>7, <4>8, <4>9, <4>10 DEF ViewInv
      <3> QED
        BY <1>a, <2>1, <3>3, <3>4
    <2> QED
      BY <2>2, <2>3, <2>4 DEF ConsoleInv
  <1>5. ASSUME NEW l \in Loggers, CO!Sent(l)
        PROVE  ConsoleInv'
    BY <1>5 DEF CO!Sent, ConsoleInv, ViewInv, Once, Coming
  <1>6. ASSUME NEW v \in Viewers, CO!SendBuffer(v)
        PROVE  ConsoleInv'
    <2>1. /\ at[v] = 1 /\ at' = [at EXCEPT ![v] = 2] /\ shown' = [shown EXCEPT ![v] = buffer]
          /\ UNCHANGED <<buffer, subs, chan, written, event, targets>>
      <3>1. at[v] \in DOMAIN CO!Opening /\ CO!Opening[at[v]] = "buffer" /\ at' = [at EXCEPT ![v] = at[v] + 1]
        BY <1>6 DEF CO!SendBuffer, CO!Opens
      <3>2. at[v] = 1
        BY <3>1, OpeningIs
      <3> QED
        BY <1>6, <3>1, <3>2 DEF CO!SendBuffer
    <2>2. ASSUME NEW w \in Viewers, w # v PROVE ViewInv(w)'
      BY <1>a, <2>1, <2>2, ViewStays DEF ConsoleInv
    <2>3. ViewInv(v)'
      <3>1. ViewInv(v) /\ Once(buffer)
        BY DEF ConsoleInv
      <3>2. v \notin subs /\ chan[v] = <<>> /\ \A l \in Loggers : v \notin targets[l]
        BY <2>1, <3>1 DEF ViewInv
      <3>3. Coming(v)' = {}
        BY <2>1, <3>2 DEF Coming
      <3>4. chan'[v] = <<>> /\ shown'[v] = buffer
        BY <1>a, <2>1, <3>2
      <3> QED
        BY <2>1, <3>1, <3>2, <3>3, <3>4 DEF ViewInv, Once
    <2> QED
      BY <2>1, <2>2, <2>3 DEF ConsoleInv, Once
  <1>7. ASSUME NEW v \in Viewers, CO!SubscribeConsole(v) \/ CO!Leave(v)
        PROVE  ConsoleInv'
    <2>1. /\ at'[v] \in {3, 4} /\ \A w \in Viewers : w # v => at'[w] = at[w] /\ (w \in subs' => w \in subs)
          /\ UNCHANGED <<buffer, chan, written, event, targets, shown>>
      BY <1>7, <1>a, OpeningIs DEF CO!SubscribeConsole, CO!Leave, CO!Opens
    <2>2. ASSUME NEW w \in Viewers, w # v PROVE ViewInv(w)'
      BY <2>1, <2>2, ViewStays DEF ConsoleInv
    <2>3. ViewInv(v)'
      <3>1. ViewInv(v) /\ Coming(v)' = Coming(v)
        BY <2>1 DEF ConsoleInv, Coming
      <3> QED
        BY <2>1, <3>1 DEF ViewInv, Once
    <2> QED
      BY <2>1, <2>2, <2>3 DEF ConsoleInv, Once
  <1>8. ASSUME NEW v \in Viewers, CO!Receive(v)
        PROVE  ConsoleInv'
    <2>1. /\ at[v] = 3 /\ chan[v] # <<>> /\ chan' = [chan EXCEPT ![v] = Tail(chan[v])]
          /\ shown' = [shown EXCEPT ![v] = IF Head(chan[v]) = CO!Clear THEN <<>> ELSE Append(shown[v], Head(chan[v]))]
          /\ UNCHANGED <<buffer, subs, written, event, targets, at>>
      BY <1>8, OpeningIs DEF CO!Receive
    <2>2. ASSUME NEW w \in Viewers, w # v PROVE ViewInv(w)'
      BY <1>a, <2>1, <2>2, ViewStays DEF ConsoleInv
    <2>3. ViewInv(v)'
      <3> DEFINE n == Len(chan[v])
                 k == Len(shown[v])
                 e == chan[v][1]
      <3>1. ViewInv(v) /\ Coming(v)' = Coming(v)
        BY <2>1 DEF ConsoleInv, Coming
      <3>2. /\ n \in Nat \ {0} /\ DOMAIN chan[v] = 1 .. n /\ DOMAIN chan'[v] = 1 .. n - 1
            /\ \A i \in 1 .. n - 1 : chan'[v][i] = chan[v][i + 1]
            /\ Head(chan[v]) = e /\ e \in CO!Lines \cup {CO!Clear}
        BY <1>a, <2>1, TailIs
      <3>3. e \in Nat /\ e <= written /\ 1 \in DOMAIN chan[v]
        BY <1>c, <1>e, <3>1, <3>2 DEF ViewInv
      <3>4. \/ shown'[v] = <<>>
            \/ /\ e # CO!Clear /\ k \in Nat /\ DOMAIN shown[v] = 1 .. k /\ DOMAIN shown'[v] = 1 .. k + 1
               /\ \A i \in 1 .. k : shown'[v][i] = shown[v][i]
               /\ shown'[v][k + 1] = e
        <4>1. shown'[v] = IF e = CO!Clear THEN <<>> ELSE Append(shown[v], e)
          BY <1>a, <2>1, <3>2
        <4>2. CASE e # CO!Clear
          <5>1. e \in CO!Lines /\ shown[v] \in Seq(CO!Lines) /\ shown'[v] = Append(shown[v], e)
            BY <1>a, <3>2, <4>1, <4>2
          <5> QED
            BY <4>2, <5>1, AppendIs
        <4> QED
          BY <4>1, <4>2
      <3>5. \A i \in 1 .. n - 1 : i + 1 \in 1 .. n /\ i + 1 # 1
        BY <3>2
      <3> HIDE DEF n, k, e
      <3>6. /\ \A i \in DOMAIN chan'[v] : chan'[v][i] <= written'
            /\ \A i, j \in DOMAIN chan'[v] : chan'[v][i] = chan'[v][j] => i = j \/ chan'[v][i] = CO!Clear
        <4>1. /\ \A i \in 1 .. n : chan[v][i] <= written
              /\ \A i, j \in 1 .. n : chan[v][i] = chan[v][j] => i = j \/ chan[v][i] = CO!Clear
          BY <3>1, <3>2 DEF ViewInv
        <4>2. \A i, j \in 1 .. n - 1 : i + 1 = j + 1 => i = j
          OBVIOUS
        <4> QED
          BY <2>1, <3>2, <3>5, <4>1, <4>2
      <3>7. \A i \in DOMAIN chan'[v] : e # CO!Clear => chan'[v][i] # e
        <4>1. \A i \in DOMAIN chan[v] : chan[v][i] = chan[v][1] => i = 1 \/ chan[v][i] = CO!Clear
          BY <3>1, <3>3 DEF ViewInv
        <4> QED
          BY <3>2, <3>5, <4>1 DEF e
      <3>8. \A l \in Coming(v) : event[l] # e
        BY <3>1, <3>3 DEF ViewInv, e
      <3>9. \A i \in DOMAIN shown[v] : shown[v][i] # e
        BY <3>1, <3>3 DEF ViewInv, e
      <3>10. Once(shown[v])'
        BY <2>1, <3>1, <3>3, <3>4, <3>9 DEF ViewInv, Once
      <3>11. \A i \in DOMAIN shown'[v], j \in DOMAIN chan'[v] : shown'[v][i] # chan'[v][j]
        <4>1. \A i \in DOMAIN shown[v], j \in 1 .. n : shown[v][i] # chan[v][j]
          BY <3>1, <3>2 DEF ViewInv
        <4>2. \A i \in DOMAIN shown[v], j \in DOMAIN chan'[v] : shown[v][i] # chan'[v][j]
          BY <3>2, <3>5, <4>1
        <4>3. CASE shown'[v] = <<>>
          BY <4>3
        <4>4. ASSUME e # CO!Clear, k \in Nat, NEW i \in DOMAIN shown'[v], NEW j \in DOMAIN chan'[v],
                     DOMAIN shown[v] = 1 .. k, DOMAIN shown'[v] = 1 .. k + 1,
                     \A h \in 1 .. k : shown'[v][h] = shown[v][h],
                     shown'[v][k + 1] = e
              PROVE  shown'[v][i] # chan'[v][j]
          <5>1. CASE i \in 1 .. k
            BY <4>2, <4>4, <5>1
          <5>2. CASE i = k + 1
            BY <3>7, <4>4, <5>2
          <5> QED
            BY <4>4, <5>1, <5>2
        <4> QED
          BY <3>4, <4>3, <4>4
      <3>12. \A l \in Coming(v)' :
                /\ \A i \in DOMAIN shown'[v] : shown'[v][i] # event'[l]
                /\ \A i \in DOMAIN chan'[v] : chan'[v][i] # event'[l]
        <4>1. ASSUME NEW l \in Coming(v)
              PROVE  /\ \A i \in DOMAIN shown[v] : shown[v][i] # event[l]
                     /\ \A i \in 1 .. n : chan[v][i] # event[l]
          BY <3>1, <3>2 DEF ViewInv
        <4>2. ASSUME NEW l \in Coming(v), NEW i \in DOMAIN chan'[v]
              PROVE  chan'[v][i] # event[l]
          BY <3>2, <3>5, <4>1
        <4>3. ASSUME NEW l \in Coming(v), NEW i \in DOMAIN shown'[v]
              PROVE  shown'[v][i] # event[l]
          <5>1. CASE shown'[v] = <<>>
            BY <5>1
          <5>2. CASE /\ k \in Nat /\ DOMAIN shown[v] = 1 .. k /\ DOMAIN shown'[v] = 1 .. k + 1
                     /\ \A h \in 1 .. k : shown'[v][h] = shown[v][h]
                     /\ shown'[v][k + 1] = e
            <6>1. CASE i \in 1 .. k
              BY <4>1, <5>2, <6>1
            <6>2. CASE i = k + 1
              BY <3>8, <5>2, <6>2
            <6> QED
              BY <5>2, <6>1, <6>2
          <5> QED
            BY <3>4, <5>1, <5>2
        <4> QED
          BY <2>1, <3>1, <4>2, <4>3
      <3>13. at'[v] \notin {1, 2}
        BY <2>1
      <3> QED
        <4>1. \A l \in Coming(v)' : event'[l] <= written' /\ \A m \in Coming(v)' : event'[m] = event'[l] => m = l
          BY <2>1, <3>1 DEF ViewInv
        <4> QED
          BY <3>6, <3>10, <3>11, <3>12, <3>13, <4>1 DEF ViewInv
    <2> QED
      BY <2>1, <2>2, <2>3 DEF ConsoleInv, Once
  <1> QED
    BY <1>1, <1>2, <1>3, <1>4, <1>5, <1>6, <1>7, <1>8 DEF CO!Next

LEMMA LinesOnce == ConsoleInv => CO!NoLineTwice
  BY DEF ConsoleInv, ViewInv, Once, CO!NoLineTwice, CO!IsInjective

\* No viewer of the console has a line twice, for any number of loggers, viewers and lines and any
\* capacity of the buffer and the channels.
THEOREM LinesStayOnce == AllSpec => []NoLineTwice
  <1>1. AllInit => CO!TypeOK /\ ConsoleInv
    BY ConsoleInit DEF AllInit
  <1>2. CO!TypeOK /\ ConsoleInv /\ [AllNext]_AllVars => (CO!TypeOK /\ ConsoleInv)'
    BY ConsoleSteps, ConsoleTypes, ConsoleNext
  <1>3. CO!TypeOK /\ ConsoleInv => NoLineTwice
    BY LinesOnce DEF NoLineTwice
  <1> QED
    BY <1>1, <1>2, <1>3, PTL DEF AllSpec

-----------------------------------------------------------------------------
(* Streams and their timers. *)

LEMMA LifetimeInit == LI!Init => LI!TypeOK
  BY StreamAssumption DEF LI!Init, LI!TypeOK

\* idle never counts beyond the timeout.
LEMMA IdleTicks ==
    ASSUME NEW f \in [Streams -> 0 .. Timeout], NEW s \in Streams
    PROVE  /\ f[s] < Timeout => f[s] + 1 \in 0 .. Timeout
           /\ 0 \in 0 .. Timeout
  BY StreamAssumption

LEMMA LifetimeTypes == LI!TypeOK /\ [LI!Next]_LI!vars => LI!TypeOK'
  <1> SUFFICES ASSUME LI!TypeOK, [LI!Next]_LI!vars PROVE LI!TypeOK'
    OBVIOUS
  <1> USE DEF LI!TypeOK, LI!Go
  <1>1. ASSUME NEW s \in Streams, LI!Call(s) \/ LI!CallFails(s) \/ LI!NewStallReader(s)
        PROVE  LI!TypeOK'
    BY <1>1 DEF LI!Call, LI!CallFails, LI!NewStallReader
  <1>2. ASSUME NEW s \in Streams, LI!Read(s)
        PROVE  LI!TypeOK'
    <2>1. idle' \in [Streams -> 0 .. Timeout]
      BY <1>2, IdleTicks DEF LI!Read
    <2> QED
      BY <1>2, <2>1 DEF LI!Read
  <1>3. ASSUME NEW s \in Streams, LI!Data(s) \/ LI!UpstreamEnds(s) \/ LI!ReadUnblocks(s) \/ LI!Write(s)
        PROVE  LI!TypeOK'
    BY <1>3 DEF LI!Data, LI!UpstreamEnds, LI!ReadUnblocks, LI!ReadFails, LI!Write
  <1>4. ASSUME NEW s \in Streams,
               LI!HandlerCloses(s) \/ LI!TimerFires(s) \/ LI!WatcherCloses(s) \/ LI!WatcherLeaves(s)
        PROVE  LI!TypeOK'
    BY <1>4
       DEF LI!HandlerCloses, LI!TimerFires, LI!WatcherCloses, LI!WatcherLeaves, LI!Close, LI!DoneClosed,
           LI!BodyClosed
  <1>5. CASE LI!Signal \/ LI!SecondSignal \/ LI!Drained \/ LI!DrainTimesOut
    BY <1>5 DEF LI!Signal, LI!SecondSignal, LI!Drained, LI!DrainTimesOut, LI!Main
  <1>6. CASE LI!Tick
    <2>1. idle' \in [Streams -> 0 .. Timeout]
      <3>1. idle' = [s \in Streams |-> IF timer[s] /\ idle[s] < Timeout THEN idle[s] + 1 ELSE idle[s]]
        BY <1>6 DEF LI!Tick
      <3>2. \A s \in Streams :
               (IF timer[s] /\ idle[s] < Timeout THEN idle[s] + 1 ELSE idle[s]) \in 0 .. Timeout
        BY IdleTicks
      <3> QED
        BY ONLY <3>1, <3>2
    <2> QED
      BY <1>6, <2>1 DEF LI!Tick
  <1>7. CASE UNCHANGED LI!vars
    BY <1>7 DEF LI!vars
  <1> QED
    BY <1>1, <1>2, <1>3, <1>4, <1>5, <1>6, <1>7 DEF LI!Next

-----------------------------------------------------------------------------
(* The types. *)

\* What the types of the parts rest on.
AllTypesInv ==
    /\ part \in Parts
    /\ TokensInv
    /\ FusionInv /\ PanelBounds
    /\ MS!TypeOK /\ CountInv
    /\ SE!TypeOK /\ PairInv
    /\ HE!TypeOK
    /\ PR!TypeOK /\ Founded /\ PR!SkipsAreFounded
    /\ PO!TypeOK /\ OnePool
    /\ DU!TypeOK /\ UsageInv /\ DU!DaysCountEverything
    /\ RE!TypeOK
    /\ LI!TypeOK
    /\ UP!TypeOK /\ WholeFile
    /\ CO!TypeOK

\* Every part keeps its types, for any values of its constants.
THEOREM AllTyped == AllSpec => []AllTypesOK
  <1>1. AllInit => AllTypesInv
    <2> SUFFICES ASSUME AllInit PROVE AllTypesInv
      OBVIOUS
    <2>1. part \in Parts /\ TokensInv
      BY TokensInit DEF AllInit
    <2>2. FusionInv /\ PanelBounds /\ MS!TypeOK /\ CountInv
      BY FusionInit, BoundsInit, ServerInit DEF AllInit
    <2>3. SE!TypeOK /\ PairInv /\ HE!TypeOK /\ UP!TypeOK /\ WholeFile
      BY PairInit, HeadroomInit, UpdateInit DEF AllInit
    <2>4. PR!TypeOK /\ Founded /\ PR!SkipsAreFounded /\ PO!TypeOK /\ OnePool
      BY ProbeInit, PoolInit DEF AllInit
    <2>5. DU!TypeOK /\ UsageInv /\ DU!DaysCountEverything
      BY UsageInit DEF AllInit
    <2>6. RE!TypeOK /\ LI!TypeOK /\ CO!TypeOK
      BY ResetInit, LifetimeInit, ConsoleInit DEF AllInit
    <2> QED
      BY <2>1, <2>2, <2>3, <2>4, <2>5, <2>6 DEF AllTypesInv
  <1>2. AllTypesInv /\ [AllNext]_AllVars => AllTypesInv'
    <2> SUFFICES ASSUME AllTypesInv, [AllNext]_AllVars PROVE AllTypesInv'
      OBVIOUS
    <2>1. part' \in Parts
      BY DEF AllTypesInv, AllNext, AllVars, Only
    <2>2. TokensInv'
      BY TokensSteps, TypesNext, LockNext, OrderNext, RejectedNext DEF AllTypesInv, TokensInv
    <2>3. FusionInv' /\ PanelBounds'
      BY FusionSteps, FusionNext, BoundsNext DEF AllTypesInv
    <2>4. MS!TypeOK' /\ CountInv'
      BY ServerSteps, ServerNext DEF AllTypesInv
    <2>5. SE!TypeOK' /\ PairInv'
      BY SetupSteps, SetupTypes, PairNext DEF AllTypesInv
    <2>6. HE!TypeOK'
      BY HeadroomSteps, HeadroomTypes DEF AllTypesInv
    <2>7. PR!TypeOK' /\ Founded' /\ PR!SkipsAreFounded'
      BY ProjectSteps, ProbeTypes, FoundedNext DEF AllTypesInv
    <2>8. PO!TypeOK' /\ OnePool'
      BY PoolSteps, PoolTypes, OnePoolNext DEF AllTypesInv
    <2>9. DU!TypeOK' /\ UsageInv' /\ DU!DaysCountEverything'
      BY UsageSteps, UsageTypes, UsageNext DEF AllTypesInv
    <2>10. RE!TypeOK'
      BY ResetSteps, ResetTypes DEF AllTypesInv
    <2>11. LI!TypeOK'
      BY LifetimeSteps, LifetimeTypes DEF AllTypesInv
    <2>12. UP!TypeOK' /\ WholeFile'
      BY UpdateSteps, UpdateTypes DEF AllTypesInv
    <2>13. CO!TypeOK'
      BY ConsoleSteps, ConsoleTypes DEF AllTypesInv
    <2> QED
      BY <2>1, <2>2, <2>3, <2>4, <2>5, <2>6, <2>7, <2>8, <2>9, <2>10, <2>11, <2>12, <2>13
         DEF AllTypesInv
  <1>3. AllTypesInv => AllTypesOK
    BY PanelTypeOK DEF AllTypesInv, AllTypesOK, TokensInv, Parts
  <1> QED
    BY <1>1, <1>2, <1>3, PTL DEF AllSpec
==============================================================================
