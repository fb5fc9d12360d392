-------------------------- MODULE UsageTrackerProofs --------------------------
(* The counts are exact and no change goes without a broadcast, for any       *)
(* number of requests, accounts, dashboards and overlapping callbacks.        *)
EXTENDS UsageTracker, FiniteSetTheorems, TLAPS

ReqPCs == {"idle", "sent", "logged", "over"}

CountTypes ==
    /\ byModel \in Counts
    /\ byAccount \in [Conns -> Counts]
    /\ rpc \in [Reqs -> ReqPCs]

InFlightOn(c, k) == {r \in InFlight(k) : ConnOf[r] = c}

CountsInv == CountTypes /\ CountsExact

\* Requests in flight are finitely many.
LEMMA InFlightFinite ==
    ASSUME NEW k \in Keys
    PROVE  /\ IsFiniteSet(InFlight(k))
           /\ Cardinality(InFlight(k)) \in Nat
           /\ \A c : IsFiniteSet(InFlightOn(c, k)) /\ Cardinality(InFlightOn(c, k)) \in Nat
  <1>1. InFlight(k) \subseteq Reqs /\ \A c : InFlightOn(c, k) \subseteq Reqs
    BY DEF InFlight, InFlightOn
  <1>2. \A S : S \subseteq Reqs => IsFiniteSet(S)
    BY TrackerAssumption, FS_Subset
  <1> QED
    BY <1>1, <1>2, FS_CardinalityType

\* A request that starts is one more in flight.
LEMMA OneMore ==
    ASSUME CountTypes, NEW r \in Reqs, rpc[r] = "idle",
           rpc' = [rpc EXCEPT ![r] = "sent"], NEW k \in Keys
    PROVE  /\ Cardinality(InFlight(k))' =
                Cardinality(InFlight(k)) + (IF KeyOf[r] = k THEN 1 ELSE 0)
           /\ \A c : Cardinality(InFlightOn(c, k))' =
                Cardinality(InFlightOn(c, k)) + (IF KeyOf[r] = k /\ ConnOf[r] = c THEN 1 ELSE 0)
  <1>1. /\ r \notin InFlight(k)
        /\ InFlight(k)' = IF KeyOf[r] = k THEN InFlight(k) \cup {r} ELSE InFlight(k)
    BY DEF CountTypes, InFlight
  <1>2. \A c : /\ r \notin InFlightOn(c, k)
               /\ InFlightOn(c, k)' = IF KeyOf[r] = k /\ ConnOf[r] = c
                                      THEN InFlightOn(c, k) \cup {r} ELSE InFlightOn(c, k)
    BY <1>1 DEF InFlightOn
  <1>3. \A S : IsFiniteSet(S) /\ r \notin S => Cardinality(S \cup {r}) = Cardinality(S) + 1
    BY FS_AddElement
  <1>4. /\ IsFiniteSet(InFlight(k)) /\ Cardinality(InFlight(k)) \in Nat
        /\ \A c : IsFiniteSet(InFlightOn(c, k)) /\ Cardinality(InFlightOn(c, k)) \in Nat
    BY InFlightFinite
  <1> QED
    BY <1>1, <1>2, <1>3, <1>4

\* A request that ends is one less in flight, so there was one.
LEMMA OneLess ==
    ASSUME CountTypes, NEW r \in Reqs, rpc[r] \in {"sent", "logged"},
           rpc' = [rpc EXCEPT ![r] = "over"], NEW k \in Keys
    PROVE  /\ Cardinality(InFlight(k))' =
                Cardinality(InFlight(k)) - (IF KeyOf[r] = k THEN 1 ELSE 0)
           /\ KeyOf[r] = k => Cardinality(InFlight(k)) > 0
           /\ \A c : /\ Cardinality(InFlightOn(c, k))' =
                          Cardinality(InFlightOn(c, k))
                            - (IF KeyOf[r] = k /\ ConnOf[r] = c THEN 1 ELSE 0)
                     /\ KeyOf[r] = k /\ ConnOf[r] = c => Cardinality(InFlightOn(c, k)) > 0
  <1>1. /\ r \in InFlight(k) <=> KeyOf[r] = k
        /\ InFlight(k)' = InFlight(k) \ {r}
    BY DEF CountTypes, InFlight
  <1>2. \A c : /\ r \in InFlightOn(c, k) <=> KeyOf[r] = k /\ ConnOf[r] = c
               /\ InFlightOn(c, k)' = InFlightOn(c, k) \ {r}
    BY <1>1 DEF InFlightOn
  <1>3. \A S : IsFiniteSet(S) =>
          /\ Cardinality(S \ {r}) = Cardinality(S) - (IF r \in S THEN 1 ELSE 0)
          /\ r \in S => Cardinality(S) > 0
    <2> SUFFICES ASSUME NEW S, IsFiniteSet(S)
                 PROVE  /\ Cardinality(S \ {r}) = Cardinality(S) - (IF r \in S THEN 1 ELSE 0)
                        /\ r \in S => Cardinality(S) > 0
      OBVIOUS
    <2>1. Cardinality(S) \in Nat
      BY FS_CardinalityType
    <2>2. r \in S => Cardinality(S) # 0
      BY FS_EmptySet
    <2>3. Cardinality(S \ {r}) = IF r \in S THEN Cardinality(S) - 1 ELSE Cardinality(S)
      BY FS_RemoveElement
    <2> QED
      BY <2>1, <2>2, <2>3
  <1> QED
    BY <1>1, <1>2, <1>3, InFlightFinite

\* TrackPending adds one to, or takes one from, the counts of its key and its account.
LEMMA Tracked ==
    ASSUME CountTypes, NEW r \in Reqs, NEW started \in BOOLEAN, NEW isError,
           TrackPending(r, started, isError)
    PROVE  /\ byModel' \in Counts /\ byAccount' \in [Conns -> Counts]
           /\ \A k \in Keys :
                /\ byModel'[k] = IF k = KeyOf[r] THEN Added(byModel[k], started) ELSE byModel[k]
                /\ \A c \in Conns :
                     byAccount'[c][k] = IF k = KeyOf[r] /\ c = ConnOf[r]
                                        THEN Added(byAccount[c][k], started)
                                        ELSE byAccount[c][k]
  <1> DEFINE q == KeyOf[r]
             d == ConnOf[r]
  <1>1. \A n \in Nat : Added(n, started) \in Nat
    BY DEF Added
  <1>2. q \in Keys /\ d \in Conns \cup {NoConn} /\ NoConn \notin Conns
    BY TrackerAssumption
  <1>3. /\ byModel' = [byModel EXCEPT ![q] = Added(byModel[q], started)]
        /\ byAccount' = IF d = NoConn THEN byAccount
                        ELSE [byAccount EXCEPT ![d][q] = Added(byAccount[d][q], started)]
    BY DEF TrackPending, ByAccount
  <1>4. /\ byModel' \in Counts
        /\ \A k \in Keys :
             byModel'[k] = IF k = q THEN Added(byModel[k], started) ELSE byModel[k]
    <2>1. byModel \in [Keys -> Nat] /\ Added(byModel[q], started) \in Nat
      BY <1>1, <1>2 DEF CountTypes, Counts
    <2> QED
      BY <1>2, <1>3, <2>1 DEF Counts
  <1>5. CASE d = NoConn
    BY <1>2, <1>3, <1>4, <1>5 DEF CountTypes
  <1>6. CASE d \in Conns
    <2>1. byAccount[d] \in [Keys -> Nat] /\ Added(byAccount[d][q], started) \in Nat
      BY <1>1, <1>2, <1>6 DEF CountTypes, Counts
    <2> DEFINE f == [byAccount[d] EXCEPT ![q] = Added(byAccount[d][q], started)]
    <2>2. /\ f \in [Keys -> Nat]
          /\ \A k \in Keys : f[k] = IF k = q THEN Added(byAccount[d][k], started)
                                    ELSE byAccount[d][k]
      BY <1>2, <2>1
    <2>3. byAccount' = [byAccount EXCEPT ![d] = f]
      BY <1>2, <1>3, <1>6
    <2> HIDE DEF f
    <2>4. byAccount \in [Conns -> Counts]
      BY DEF CountTypes
    <2>5. /\ byAccount' \in [Conns -> Counts]
          /\ \A c \in Conns : byAccount'[c] = IF c = d THEN f ELSE byAccount[c]
      BY <1>6, <2>2, <2>3, <2>4 DEF Counts
    <2> QED
      BY <1>4, <2>2, <2>5
  <1> QED
    BY <1>2, <1>5, <1>6

LEMMA CountsInit == Init => CountsInv
  <1> SUFFICES ASSUME Init PROVE CountsInv
    OBVIOUS
  <1>1. CountTypes
    BY DEF Init, CountTypes, Counts, Zero, ReqPCs
  <1>2. \A k \in Keys : InFlight(k) = {} /\ \A c : InFlightOn(c, k) = {}
    BY DEF Init, InFlight, InFlightOn
  <1>3. Cardinality({}) = 0
    BY FS_EmptySet
  <1>4. CountsExact
    BY <1>2, <1>3 DEF Init, CountsExact, Zero, InFlightOn
  <1> QED
    BY <1>1, <1>4 DEF CountsInv

\* A step that leaves the counts, and who is in flight, alone.
LEMMA CountsSame ==
    ASSUME CountsInv, UNCHANGED <<byModel, byAccount>>, rpc' \in [Reqs -> ReqPCs],
           \A r \in Reqs : rpc'[r] \in {"sent", "logged"} <=> rpc[r] \in {"sent", "logged"}
    PROVE  CountsInv'
  <1>1. \A k \in Keys : InFlight(k)' = InFlight(k)
    BY DEF InFlight
  <1> QED
    BY <1>1 DEF CountsInv, CountTypes, CountsExact

LEMMA CountsNext ==
    ASSUME CountsInv, [Next]_vars
    PROVE  CountsInv'
  <1>1. ASSUME NEW r \in Reqs, Start(r)
        PROVE  CountsInv'
    <2>1. /\ rpc[r] = "idle"
          /\ rpc' = [rpc EXCEPT ![r] = "sent"]
          /\ TrackPending(r, TRUE, FALSE)
      BY <1>1 DEF Start
    <2>2. CountTypes'
      BY <2>1, Tracked DEF CountsInv, CountTypes, ReqPCs
    <2>3. ASSUME NEW k \in Keys
          PROVE  /\ byModel'[k] = Cardinality(InFlight(k))'
                 /\ \A c \in Conns : byAccount'[c][k] = Cardinality(InFlightOn(c, k))'
      <3>1. /\ Cardinality(InFlight(k))' =
                 Cardinality(InFlight(k)) + (IF KeyOf[r] = k THEN 1 ELSE 0)
            /\ \A c : Cardinality(InFlightOn(c, k))' =
                 Cardinality(InFlightOn(c, k)) + (IF KeyOf[r] = k /\ ConnOf[r] = c THEN 1 ELSE 0)
        BY <2>1, OneMore DEF CountsInv
      <3>2. /\ byModel'[k] = IF k = KeyOf[r] THEN byModel[k] + 1 ELSE byModel[k]
            /\ \A c \in Conns :
                 byAccount'[c][k] = IF k = KeyOf[r] /\ c = ConnOf[r]
                                    THEN byAccount[c][k] + 1 ELSE byAccount[c][k]
        <4>1. \A n : Added(n, TRUE) = n + 1
          BY DEF Added
        <4>2. /\ byModel'[k] = IF k = KeyOf[r] THEN Added(byModel[k], TRUE) ELSE byModel[k]
              /\ \A c \in Conns :
                   byAccount'[c][k] = IF k = KeyOf[r] /\ c = ConnOf[r]
                                      THEN Added(byAccount[c][k], TRUE) ELSE byAccount[c][k]
          BY <2>1, Tracked DEF CountsInv
        <4> QED
          BY <4>1, <4>2
      <3>3. /\ byModel[k] = Cardinality(InFlight(k))
            /\ \A c \in Conns : byAccount[c][k] = Cardinality(InFlightOn(c, k))
        BY DEF CountsInv, CountsExact, InFlightOn
      <3>4. /\ Cardinality(InFlight(k)) \in Nat
            /\ \A c : Cardinality(InFlightOn(c, k)) \in Nat
        BY InFlightFinite
      <3> QED
        BY <3>1, <3>2, <3>3, <3>4
    <2>4. CountsExact'
      BY <2>3 DEF CountsExact, InFlightOn
    <2> QED
      BY <2>2, <2>4 DEF CountsInv
  <1>2. ASSUME NEW r \in Reqs, End(r)
        PROVE  CountsInv'
    <2>1. /\ rpc[r] \in {"sent", "logged"}
          /\ rpc' = [rpc EXCEPT ![r] = "over"]
          /\ TrackPending(r, FALSE, r \in Failing)
      BY <1>2 DEF End
    <2>2. CountTypes'
      BY <2>1, Tracked DEF CountsInv, CountTypes, ReqPCs
    <2>3. ASSUME NEW k \in Keys
          PROVE  /\ byModel'[k] = Cardinality(InFlight(k))'
                 /\ \A c \in Conns : byAccount'[c][k] = Cardinality(InFlightOn(c, k))'
      <3>1. /\ Cardinality(InFlight(k))' =
                 Cardinality(InFlight(k)) - (IF KeyOf[r] = k THEN 1 ELSE 0)
            /\ KeyOf[r] = k => Cardinality(InFlight(k)) > 0
            /\ \A c : /\ Cardinality(InFlightOn(c, k))' =
                           Cardinality(InFlightOn(c, k))
                             - (IF KeyOf[r] = k /\ ConnOf[r] = c THEN 1 ELSE 0)
                      /\ KeyOf[r] = k /\ ConnOf[r] = c => Cardinality(InFlightOn(c, k)) > 0
        BY <2>1, OneLess DEF CountsInv
      <3>2. /\ byModel'[k] = IF k = KeyOf[r] THEN Added(byModel[k], FALSE) ELSE byModel[k]
            /\ \A c \in Conns :
                 byAccount'[c][k] = IF k = KeyOf[r] /\ c = ConnOf[r]
                                    THEN Added(byAccount[c][k], FALSE) ELSE byAccount[c][k]
        BY <2>1, Tracked DEF CountsInv
      <3>3. /\ byModel[k] = Cardinality(InFlight(k))
            /\ \A c \in Conns : byAccount[c][k] = Cardinality(InFlightOn(c, k))
        BY DEF CountsInv, CountsExact, InFlightOn
      <3>4. /\ Cardinality(InFlight(k)) \in Nat
            /\ \A c : Cardinality(InFlightOn(c, k)) \in Nat
        BY InFlightFinite
      <3>5. \A n \in Nat : n > 0 => Added(n, FALSE) = n - 1
        BY DEF Added
      <3>6. byModel'[k] = Cardinality(InFlight(k))'
        <4>1. byModel[k] = Cardinality(InFlight(k)) /\ byModel[k] \in Nat
          BY <3>3, <3>4
        <4>2. CASE KeyOf[r] = k
          BY <3>1, <3>2, <3>5, <4>1, <4>2
        <4>3. CASE KeyOf[r] # k
          <5>1. Cardinality(InFlight(k))' = Cardinality(InFlight(k)) - 0
            BY <3>1, <4>3
          <5>2. byModel'[k] = byModel[k]
            BY <3>2, <4>3
          <5> QED
            BY <4>1, <5>1, <5>2
        <4> QED
          BY <4>2, <4>3
      <3>7. ASSUME NEW c \in Conns
            PROVE  byAccount'[c][k] = Cardinality(InFlightOn(c, k))'
        <4>1. byAccount[c][k] = Cardinality(InFlightOn(c, k)) /\ byAccount[c][k] \in Nat
          BY <3>3, <3>4
        <4>2. CASE KeyOf[r] = k /\ ConnOf[r] = c
          BY <3>1, <3>2, <3>5, <4>1, <4>2, ZenonT(40)
        <4>3. CASE ~(KeyOf[r] = k /\ ConnOf[r] = c)
          <5>1. Cardinality(InFlightOn(c, k))' = Cardinality(InFlightOn(c, k)) - 0
            BY <3>1, <4>3
          <5>2. byAccount'[c][k] = byAccount[c][k]
            BY <3>2, <4>3
          <5> QED
            BY <4>1, <5>1, <5>2
        <4> QED
          BY <4>2, <4>3
      <3> QED
        BY <3>6, <3>7
    <2>4. CountsExact'
      BY <2>3 DEF CountsExact, InFlightOn
    <2> QED
      BY <2>2, <2>4 DEF CountsInv
  <1>3. ASSUME NEW r \in Reqs, PushRecent(r)
        PROVE  CountsInv'
    <2>1. /\ UNCHANGED <<byModel, byAccount>>
          /\ rpc[r] = "sent" /\ rpc' = [rpc EXCEPT ![r] = "logged"]
      BY <1>3 DEF PushRecent
    <2> QED
      BY <2>1, CountsSame DEF CountsInv, CountTypes, ReqPCs
  <1>4. CASE UNCHANGED <<byModel, byAccount, rpc>>
    BY <1>4, CountsSame DEF CountsInv, CountTypes
  <1> QED
    BY <1>1, <1>2, <1>3, <1>4 DEF Next, Request, Callback, Stream, Listen, Fire, Build, Send, Drop,
       Panic, Connect, Subscribe, Show, Leave, ErrorFades, vars, tracker

\* The counts are the requests in flight, for any number of requests that start, are logged
\* and end in any order (TrackPending).
THEOREM CountsAreExact == Spec => []CountsExact
  <1>1. Init => CountsInv
    BY CountsInit
  <1>2. CountsInv /\ [Next]_vars => CountsInv'
    BY CountsNext
  <1>3. CountsInv => CountsExact
    BY DEF CountsInv
  <1> QED
    BY <1>1, <1>2, <1>3, PTL DEF Spec

-----------------------------------------------------------------------------
CallsTyped == DOMAIN call = Callbacks

BroadcastInv == CallsTyped /\ NoChangeForgotten

\* A callback that is not the one that moves keeps what it has begun.
LEMMA StillDue ==
    ASSUME CallsTyped, NEW b \in Callbacks, call[b].pc # "fired", UNCHANGED timer,
           \A d \in Callbacks \ {b} : call'[d] = call[d], Due
    PROVE  Due'
  BY DEF Due

LEMMA BroadcastNext ==
    ASSUME BroadcastInv, [Next]_vars
    PROVE  BroadcastInv'
  <1>1. ASSUME NEW r \in Reqs, Request(r)
        PROVE  BroadcastInv'
    <2>1. timer' \in {"bare", "named"} /\ UNCHANGED call
      BY <1>1 DEF Request, Start, PushRecent, End, TrackPending, ScheduleBroadcast
    <2> QED
      BY <2>1 DEF BroadcastInv, CallsTyped, NoChangeForgotten, Due
  <1>2. ASSUME NEW b \in Callbacks, Fire(b)
        PROVE  BroadcastInv'
    <2>1. call' = [call EXCEPT ![b].pc = "fired", ![b].named = (timer = "named")]
      BY <1>2 DEF Fire
    <2>2. CallsTyped' /\ call'[b].pc = "fired"
      BY <2>1 DEF BroadcastInv, CallsTyped
    <2> QED
      BY <2>2 DEF BroadcastInv, NoChangeForgotten, Due
  <1>3. ASSUME NEW b \in Callbacks, Build(b)
        PROVE  BroadcastInv'
    <2>1. latest' = Payload(call[b].named) /\ UNCHANGED <<byModel, byAccount, recentRing>>
      BY <1>3 DEF Build, tracker
    <2>2. CallsTyped'
      BY <1>3 DEF Build, BroadcastInv, CallsTyped
    <2>3. Agree(latest, Payload(FALSE))'
      BY <2>1 DEF Agree, Payload
    <2> QED
      BY <2>2, <2>3 DEF BroadcastInv, NoChangeForgotten
  <1>4. ASSUME NEW b \in Callbacks, NEW s \in Streams, Send(b, s) \/ Drop(b, s) \/ Panic(b, s)
        PROVE  BroadcastInv'
    <2>1. /\ call[b].pc = "sending"
          /\ UNCHANGED <<timer, byModel, byAccount, recentRing, latest>>
          /\ \/ UNCHANGED call
             \/ call' = [call EXCEPT ![b] = Idle]
             \/ call' = [call EXCEPT ![b].left = @ \ {s}]
      BY <1>4 DEF Send, Drop, Panic, Sent, tracker, hist
    <2>2. CallsTyped' /\ \A d \in Callbacks \ {b} : call'[d] = call[d]
      BY <2>1 DEF BroadcastInv, CallsTyped
    <2>3. Due => Due'
      BY <2>1, <2>2, StillDue DEF BroadcastInv
    <2>4. Agree(latest, Payload(FALSE))' = Agree(latest, Payload(FALSE))
      BY <2>1 DEF Agree, Payload
    <2> QED
      BY <2>2, <2>3, <2>4 DEF BroadcastInv, NoChangeForgotten
  <1>5. CASE UNCHANGED <<byModel, byAccount, recentRing, timer, call, latest>>
    BY <1>5 DEF BroadcastInv, CallsTyped, NoChangeForgotten, Agree, Payload, Due
  <1> QED
    BY <1>1, <1>2, <1>3, <1>4, <1>5 DEF Next, Callback, Stream, Listen, Connect, Subscribe,
       Show, Leave, ErrorFades, vars, tracker, hist

\* A change that is in no payload yet has a broadcast ahead of it, for any number of requests,
\* dashboards and callbacks that overlap (scheduleBroadcastLocked).
THEOREM ChangesAreBroadcast == Spec => []NoChangeForgotten
  <1>1. Init => BroadcastInv
    BY DEF Init, BroadcastInv, CallsTyped, NoChangeForgotten, Agree, Payload, Empty
  <1>2. BroadcastInv /\ [Next]_vars => BroadcastInv'
    BY BroadcastNext
  <1>3. BroadcastInv => NoChangeForgotten
    BY DEF BroadcastInv
  <1> QED
    BY <1>1, <1>2, <1>3, PTL DEF Spec

-----------------------------------------------------------------------------
Built == [no : Nat, what : Payloads]

\* A callback that sends has a payload.
TypesInv == TypeOK /\ \A b \in Callbacks : call[b].pc = "sending" => call[b].payload \in Built

\* The parts of it that a step can disturb one without the other.
TrackerTypes ==
    /\ byModel \in Counts /\ byAccount \in [Conns -> Counts]
    /\ recentRing \in Seq(Reqs) /\ Len(recentRing) <= RingCap
    /\ erred \in BOOLEAN /\ timer \in {"off", "bare", "named"}
    /\ rpc \in [Reqs -> ReqPCs] /\ crashed \in BOOLEAN

CallRecords == [pc : {"idle", "fired", "sending"}, named : BOOLEAN, payload : {None} \cup Built,
                left : SUBSET Streams]

CallTypes ==
    /\ call \in [Callbacks -> CallRecords]
    /\ \A b \in Callbacks : call[b].pc = "sending" => call[b].payload \in Built

ChanTypes ==
    /\ chan \in [Streams -> Seq(Payloads)]
    /\ \A s \in Streams : Len(chan[s]) <= ChanCap

StreamTypes ==
    /\ spc \in [Streams -> {"away", "greeted", "listening", "left"}]
    /\ shown \in [Streams -> Payloads \cup {None}]
    /\ subscribers = {s \in Streams : spc[s] = "listening"}
    /\ closed \subseteq {s \in Leavers : spc[s] = "left"}

HistTypes ==
    /\ built \in Nat /\ latest \in Payloads
    /\ offered \in [Streams -> Nat]
    /\ stale \in [Streams -> {"no", "missed", "dropped", "overtaken"}]

LEMMA TypesSplit ==
    TypesInv <=> TrackerTypes /\ CallTypes /\ ChanTypes /\ StreamTypes /\ HistTypes
  <1>1. TypesInv => TrackerTypes /\ CallTypes
    BY DEF TypesInv, TypeOK, TrackerTypes, CallTypes, CallRecords, Built, ReqPCs
  <1>2. TypesInv => ChanTypes /\ StreamTypes /\ HistTypes
    BY DEF TypesInv, TypeOK, ChanTypes, StreamTypes, HistTypes
  <1>3. TrackerTypes /\ CallTypes /\ ChanTypes /\ StreamTypes /\ HistTypes => TypesInv
    BY DEF TypesInv, TypeOK, TrackerTypes, CallTypes, ChanTypes, StreamTypes, HistTypes,
       CallRecords, Built, ReqPCs
  <1> QED
    BY <1>1, <1>2, <1>3


\* The same after a step.
LEMMA TypesJoin ==
    ASSUME TrackerTypes', CallTypes', ChanTypes', StreamTypes', HistTypes'
    PROVE  TypesInv'
  BY DEF TypesInv, TypeOK, TrackerTypes, CallTypes, ChanTypes, StreamTypes, HistTypes,
     CallRecords, Built, ReqPCs

LEMMA PayloadTyped == TrackerTypes => \A n \in BOOLEAN : Payload(n) \in Payloads
  BY DEF TrackerTypes, Payload, Payloads

\* What is pushed to the ring keeps it a sequence within its capacity.
LEMMA PushedTyped ==
    ASSUME recentRing \in Seq(Reqs), Len(recentRing) <= RingCap, NEW r \in Reqs
    PROVE  Pushed(r) \in Seq(Reqs) /\ Len(Pushed(r)) <= RingCap
  <1> DEFINE q == <<r>> \o recentRing
             n == IF Len(recentRing) < RingCap THEN Len(recentRing) + 1 ELSE RingCap
  <1>1. q \in Seq(Reqs) /\ Len(q) = Len(recentRing) + 1
    OBVIOUS
  <1>2. n \in Nat /\ n <= Len(q) /\ n <= RingCap
    BY <1>1, TrackerAssumption
  <1> HIDE DEF q, n
  <1>3. SubSeq(q, 1, n) \in Seq(Reqs) /\ Len(SubSeq(q, 1, n)) = n
    BY <1>1, <1>2
  <1> QED
    BY <1>2, <1>3 DEF Pushed, q, n

LEMMA TypesInit == Init => TypesInv
  <1> SUFFICES ASSUME Init PROVE TypesInv
    OBVIOUS
  <1>1. Zero \in Counts
    BY DEF Zero, Counts
  <1>2. Empty \in Payloads
    BY <1>1 DEF Empty, Payloads
  <1>3. /\ recentRing \in Seq(Reqs) /\ Len(recentRing) <= RingCap
        /\ chan \in [Streams -> Seq(Payloads)] /\ \A s \in Streams : Len(chan[s]) <= ChanCap
    BY TrackerAssumption DEF Init
  <1>4. Idle \in [pc : {"idle", "fired", "sending"}, named : BOOLEAN, payload : {None} \cup Built,
                  left : SUBSET Streams]
    BY DEF Idle
  <1>5. call \in [Callbacks -> [pc : {"idle", "fired", "sending"}, named : BOOLEAN,
                                payload : {None} \cup Built, left : SUBSET Streams]]
    BY <1>4 DEF Init
  <1>6. \A b \in Callbacks : call[b].pc = "idle"
    BY DEF Init, Idle
  <1> QED
    BY <1>1, <1>2, <1>3, <1>5, <1>6 DEF Init, TypesInv, TypeOK, Built
\* A request's step keeps the tracker's types.
LEMMA RequestTypes ==
    ASSUME TrackerTypes, NEW r \in Reqs, Request(r)
    PROVE  TrackerTypes'
  <1>1. CountTypes
    BY DEF TrackerTypes, CountTypes
  <1>2. ASSUME NEW started \in BOOLEAN, NEW isError,
               TrackPending(r, started, isError)
        PROVE  /\ byModel' \in Counts /\ byAccount' \in [Conns -> Counts]
               /\ erred' \in BOOLEAN /\ timer' = "bare"
    <2>1. byModel' \in Counts /\ byAccount' \in [Conns -> Counts]
      BY <1>1, <1>2, Tracked
    <2>2. erred' \in BOOLEAN
      <3>1. erred' = (erred \/ (~started /\ isError))
        BY <1>2 DEF TrackPending
      <3> QED
        BY <3>1, Zenon
    <2>3. timer' = "bare"
      BY <1>2 DEF TrackPending, ScheduleBroadcast
    <2> QED
      BY <2>1, <2>2, <2>3
  <1>3. CASE Start(r)
    BY <1>2, <1>3 DEF Start, TrackerTypes, ReqPCs
  <1>4. CASE PushRecent(r)
    BY <1>4, PushedTyped DEF PushRecent, ScheduleBroadcast, TrackerTypes, ReqPCs
  <1>5. CASE End(r)
    <2>1. TrackPending(r, FALSE, r \in Failing)
      BY <1>5 DEF End
    <2>2. /\ byModel' \in Counts /\ byAccount' \in [Conns -> Counts]
          /\ erred' \in BOOLEAN /\ timer' = "bare"
      BY <1>2, <2>1, Zenon
    <2> QED
      BY <1>5, <2>2 DEF End, TrackerTypes, ReqPCs
  <1> QED
    BY <1>3, <1>4, <1>5 DEF Request

\* A callback that has sent to one more channel goes on with the others or ends.
LEMMA SentTypes ==
    ASSUME CallTypes, NEW b \in Callbacks, NEW s \in Streams, Sent(b, s)
    PROVE  CallTypes'
  <1>1. Idle \in CallRecords
    BY DEF Idle, CallRecords
  <1>2. call[b] \in CallRecords /\ call[b].left \subseteq Streams
    BY DEF CallTypes, CallRecords
  <1>3. [call[b] EXCEPT !.left = call[b].left \ {s}] \in CallRecords
    BY <1>2 DEF CallRecords
  <1>4. CASE call' = [call EXCEPT ![b] = Idle]
    BY <1>1, <1>4 DEF CallTypes, Idle
  <1>5. CASE call' = [call EXCEPT ![b].left = @ \ {s}]
    BY <1>3, <1>5 DEF CallTypes, CallRecords
  <1> QED
    BY <1>4, <1>5 DEF Sent

\* A send or a drop keeps the history's types.
LEMMA OfferTypes ==
    ASSUME CallTypes, HistTypes, NEW b \in Callbacks, NEW s \in Streams,
           call[b].pc = "sending", Offer(b, s), UNCHANGED hist,
           NEW w \in {"no", "missed", "dropped", "overtaken"}, stale' = [stale EXCEPT ![s] = w]
    PROVE  HistTypes'
  <1>1. call[b].payload.no \in Nat
    BY DEF CallTypes, Built
  <1>2. offered' \in [Streams -> Nat]
    BY <1>1 DEF Offer, HistTypes
  <1> QED
    BY <1>2 DEF HistTypes, hist

LEMMA CallbackTypes ==
    ASSUME TypesInv, NEW b \in Callbacks, Callback(b)
    PROVE  TypesInv'
  <1>1. TrackerTypes /\ CallTypes /\ ChanTypes /\ StreamTypes /\ HistTypes
    BY TypesSplit
  <1>2. call[b] \in CallRecords
    BY <1>1 DEF CallTypes
  <1>3. CASE Fire(b)
    <2>1. CallTypes'
      <3>1. call' = [call EXCEPT ![b] = [call[b] EXCEPT !.pc = "fired", !.named = (timer = "named")]]
        BY <1>1, <1>3 DEF Fire, CallTypes
      <3>2. [call[b] EXCEPT !.pc = "fired", !.named = (timer = "named")] \in CallRecords
        BY <1>2 DEF CallRecords
      <3> QED
        BY <1>1, <1>2, <3>1, <3>2 DEF CallTypes, CallRecords
    <2>2. TrackerTypes' /\ ChanTypes' /\ StreamTypes' /\ HistTypes'
      BY <1>1, <1>3 DEF Fire, TrackerTypes, ChanTypes, StreamTypes, HistTypes, streams, hist
    <2> QED
      BY <2>1, <2>2, TypesJoin
  <1>4. CASE Build(b)
    <2> DEFINE p == Payload(call[b].named)
               q == [no |-> built + 1, what |-> p]
    <2>1. call[b].named \in BOOLEAN
      BY <1>2 DEF CallRecords
    <2>2. p \in Payloads
      BY <1>1, <2>1, PayloadTyped
    <2>3. q \in Built /\ built + 1 \in Nat
      BY <1>1, <2>2 DEF HistTypes, Built
    <2>4. subscribers \subseteq Streams
      BY <1>1 DEF StreamTypes
    <2>5. /\ call' = IF subscribers = {} THEN [call EXCEPT ![b] = Idle]
                     ELSE [call EXCEPT ![b].pc = "sending", ![b].left = subscribers,
                                       ![b].payload = q]
          /\ built' = built + 1 /\ latest' = p
          /\ UNCHANGED <<tracker, streams, rpc, crashed>>
      BY <1>4 DEF Build
    <2> HIDE DEF p, q
    <2>6. CallTypes'
      <3>1. CASE subscribers = {}
        <4>1. Idle \in CallRecords
          BY DEF Idle, CallRecords
        <4> QED
          BY <1>1, <2>5, <3>1, <4>1 DEF CallTypes, Idle
      <3>2. CASE subscribers # {}
        <4> DEFINE e == [call[b] EXCEPT !.pc = "sending", !.left = subscribers, !.payload = q]
        <4>1. e \in CallRecords /\ e.payload = q
          BY <1>2, <2>3, <2>4 DEF CallRecords
        <4>2. call' = [call EXCEPT ![b] = e]
          BY <1>1, <2>5, <3>2 DEF CallTypes
        <4> HIDE DEF e
        <4> QED
          BY <1>1, <2>3, <4>1, <4>2 DEF CallTypes
      <3> QED
        BY <3>1, <3>2
    <2>7. TrackerTypes' /\ ChanTypes' /\ StreamTypes' /\ HistTypes'
      BY <1>1, <2>2, <2>3, <2>5
         DEF TrackerTypes, ChanTypes, StreamTypes, HistTypes, tracker, streams
    <2> QED
      BY <2>6, <2>7, TypesJoin
  <1>5. ASSUME NEW s \in Streams, Send(b, s)
        PROVE  TypesInv'
    <2>1. CallTypes'
      BY <1>1, <1>5, SentTypes DEF Send
    <2>2. HistTypes'
      BY <1>1, <1>5, OfferTypes DEF Send
    <2>3. ChanTypes'
      <3>1. call[b].payload.what \in Payloads
        BY <1>1, <1>5 DEF Send, CallTypes, Built
      <3>2. chan[s] \in Seq(Payloads) /\ Len(chan[s]) < ChanCap
        BY <1>1, <1>5 DEF Send, ChanTypes
      <3>3. chan' = [chan EXCEPT ![s] = Append(chan[s], call[b].payload.what)]
        BY <1>5 DEF Send
      <3>4. /\ Append(chan[s], call[b].payload.what) \in Seq(Payloads)
            /\ Len(Append(chan[s], call[b].payload.what)) <= ChanCap
        BY <3>1, <3>2, TrackerAssumption
      <3> QED
        BY <1>1, <3>3, <3>4 DEF ChanTypes
    <2>4. TrackerTypes' /\ StreamTypes'
      BY <1>1, <1>5 DEF Send, TrackerTypes, StreamTypes, tracker, hist
    <2> QED
      BY <2>1, <2>2, <2>3, <2>4, TypesJoin
  <1>6. ASSUME NEW s \in Streams, Drop(b, s)
        PROVE  TypesInv'
    <2>1. CallTypes'
      BY <1>1, <1>6, SentTypes DEF Drop
    <2>2. HistTypes'
      <3>1. (IF Outdated(b, s) THEN stale[s] ELSE "dropped")
              \in {"no", "missed", "dropped", "overtaken"}
        BY <1>1 DEF HistTypes
      <3> QED
        BY <1>1, <1>6, <3>1, OfferTypes DEF Drop
    <2>3. TrackerTypes' /\ StreamTypes' /\ ChanTypes'
      BY <1>1, <1>6 DEF Drop, TrackerTypes, StreamTypes, ChanTypes, tracker, hist
    <2> QED
      BY <2>1, <2>2, <2>3, TypesJoin
  <1>7. ASSUME NEW s \in Streams, Panic(b, s)
        PROVE  TypesInv'
    <2>1. /\ TrackerTypes' /\ CallTypes' /\ ChanTypes' /\ StreamTypes' /\ HistTypes'
      BY <1>1, <1>7
         DEF Panic, TrackerTypes, CallTypes, ChanTypes, StreamTypes, HistTypes, tracker, streams, hist
    <2> QED
      BY <2>1, TypesJoin
  <1> QED
    BY <1>3, <1>4, <1>5, <1>6, <1>7 DEF Callback

LEMMA StreamStepTypes ==
    ASSUME TypesInv, NEW s \in Streams, Stream(s)
    PROVE  TypesInv'
  <1>1. TrackerTypes /\ CallTypes /\ ChanTypes /\ StreamTypes /\ HistTypes
    BY TypesSplit
  <1>2. CASE Connect(s)
    <2>1. Payload(TRUE) \in Payloads
      BY <1>1, PayloadTyped
    <2>2. StreamTypes'
      <3>1. spc' = [spc EXCEPT ![s] = "greeted"] /\ spc[s] = "away"
        BY <1>2 DEF Connect
      <3>2. shown' \in [Streams -> Payloads \cup {None}]
        BY <1>1, <1>2, <2>1 DEF Connect, StreamTypes
      <3>3. /\ subscribers' = {u \in Streams : spc'[u] = "listening"}
            /\ closed' \subseteq {u \in Leavers : spc'[u] = "left"}
        BY <1>1, <1>2, <3>1, TrackerAssumption DEF Connect, StreamTypes
      <3> QED
        BY <1>1, <3>1, <3>2, <3>3 DEF StreamTypes
    <2>3. TrackerTypes' /\ CallTypes' /\ ChanTypes' /\ HistTypes'
      BY <1>1, <1>2 DEF Connect, TrackerTypes, CallTypes, ChanTypes, HistTypes, tracker, hist
    <2> QED
      BY <2>2, <2>3, TypesJoin
  <1>3. CASE Subscribe(s)
    <2>1. StreamTypes'
      BY <1>1, <1>3 DEF Subscribe, StreamTypes
    <2>2. HistTypes'
      BY <1>1, <1>3 DEF Subscribe, HistTypes, hist
    <2>3. TrackerTypes' /\ CallTypes' /\ ChanTypes'
      BY <1>1, <1>3 DEF Subscribe, TrackerTypes, CallTypes, ChanTypes, tracker
    <2> QED
      BY <2>1, <2>2, <2>3, TypesJoin
  <1>4. CASE Show(s)
    <2>1. chan[s] \in Seq(Payloads) /\ chan[s] # <<>> /\ Len(chan[s]) <= ChanCap
      BY <1>1, <1>4 DEF Show, ChanTypes
    <2>2. Head(chan[s]) \in Payloads /\ Tail(chan[s]) \in Seq(Payloads)
          /\ Len(Tail(chan[s])) <= ChanCap
      BY <2>1, TrackerAssumption
    <2>3. ChanTypes'
      BY <1>1, <1>4, <2>2 DEF Show, ChanTypes
    <2>4. StreamTypes'
      BY <1>1, <1>4, <2>2 DEF Show, StreamTypes
    <2>5. TrackerTypes' /\ CallTypes' /\ HistTypes'
      BY <1>1, <1>4 DEF Show, TrackerTypes, CallTypes, HistTypes, tracker, hist
    <2> QED
      BY <2>3, <2>4, <2>5, TypesJoin
  <1>5. CASE Leave(s)
    <2>1. StreamTypes'
      BY <1>1, <1>5 DEF Leave, Without, StreamTypes
    <2>2. ChanTypes'
      BY <1>1, <1>5, TrackerAssumption DEF Leave, ChanTypes
    <2>3. HistTypes'
      BY <1>1, <1>5 DEF Leave, HistTypes, hist
    <2>4. TrackerTypes' /\ CallTypes'
      BY <1>1, <1>5 DEF Leave, TrackerTypes, CallTypes, tracker
    <2> QED
      BY <2>1, <2>2, <2>3, <2>4, TypesJoin
  <1> QED
    BY <1>2, <1>3, <1>4, <1>5 DEF Stream, Listen

LEMMA TypesNext ==
    ASSUME TypesInv, [Next]_vars
    PROVE  TypesInv'
  <1>1. TrackerTypes /\ CallTypes /\ ChanTypes /\ StreamTypes /\ HistTypes
    BY TypesSplit
  <1>2. ASSUME NEW r \in Reqs, Request(r)
        PROVE  TypesInv'
    <2>1. TrackerTypes'
      BY <1>1, <1>2, RequestTypes
    <2>2. UNCHANGED <<streams, call, hist>>
      BY <1>2 DEF Request, Start, PushRecent, End
    <2>3. CallTypes' /\ ChanTypes' /\ StreamTypes' /\ HistTypes'
      BY <1>1, <2>2 DEF CallTypes, ChanTypes, StreamTypes, HistTypes, streams, hist
    <2> QED
      BY <2>1, <2>3, TypesJoin
  <1>3. CASE ErrorFades
    <2>1. TrackerTypes' /\ CallTypes' /\ ChanTypes' /\ StreamTypes' /\ HistTypes'
      BY <1>1, <1>3 DEF ErrorFades, TrackerTypes, CallTypes, ChanTypes, StreamTypes, HistTypes,
         streams, hist
    <2> QED
      BY <2>1, TypesJoin
  <1>4. CASE UNCHANGED vars
    <2>1. TrackerTypes' /\ CallTypes' /\ ChanTypes' /\ StreamTypes' /\ HistTypes'
      BY <1>1, <1>4 DEF vars, TrackerTypes, CallTypes, ChanTypes, StreamTypes, HistTypes,
         tracker, streams, hist
    <2> QED
      BY <2>1, TypesJoin
  <1> QED
    BY <1>2, <1>3, <1>4, CallbackTypes, StreamStepTypes DEF Next

\* Every order of requests, callbacks and dashboards keeps the tracker's state well-formed: no
\* channel and no ring beyond its capacity, only the channel of a dashboard that listens
\* subscribed, only the channels of dashboards that left closed (tracker.go).
THEOREM TrackerTypeCorrect == Spec => []TypeOK
  <1>1. Init => TypesInv
    BY TypesInit
  <1>2. TypesInv /\ [Next]_vars => TypesInv'
    BY TypesNext
  <1>3. TypesInv => TypeOK
    BY DEF TypesInv
  <1> QED
    BY <1>1, <1>2, <1>3, PTL DEF Spec
=============================================================================
