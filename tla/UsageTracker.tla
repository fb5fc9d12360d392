---------------------------- MODULE UsageTracker -----------------------------
(***************************************************************************)
(* The counts of requests in flight, and how they reach the dashboards     *)
(* that listen (internal/usagetracker/tracker.go, with the stream handler  *)
(* of internal/handlers/usage_stream.go).  A change of the counts stops    *)
(* the debounce timer and starts another one; when it runs out, a callback *)
(* on a goroutine of its own takes the read lock, builds a payload, notes  *)
(* the subscribers, releases the lock and then sends, one channel after    *)
(* the other.  Stopping a timer does not stop a callback that has begun,   *)
(* so callbacks may overlap.                                               *)
(*                                                                         *)
(* What one holder of the mutex does is one step.  A payload also carries  *)
(* the names of accounts, read from the database when the change that      *)
(* scheduled it passed the repository (names).                             *)
(***************************************************************************)
EXTENDS Naturals, Sequences, FiniteSets

CONSTANTS
    Reqs,      \* forwarded requests
    Keys,      \* "model (provider)"
    Conns,     \* accounts
    KeyOf,     \* [Reqs -> Keys]
    ConnOf,    \* [Reqs -> Conns \cup {NoConn}]
    Failing,   \*   the ones whose upstream fails; the others are logged
    Streams,   \* dashboards that listen, each on a channel of its own
    Leavers,   \*   the ones that may close
    Callbacks, \* bound: callbacks that may run at one time
    ChanCap,   \* capacity of a channel (16)
    RingCap,   \* ringCap (50)
    NoConn, None

ASSUME TrackerAssumption ==
    /\ KeyOf \in [Reqs -> Keys]
    /\ ConnOf \in [Reqs -> Conns \cup {NoConn}]
    /\ NoConn \notin Conns
    /\ Failing \subseteq Reqs /\ Leavers \subseteq Streams
    /\ IsFiniteSet(Reqs)
    /\ ChanCap \in Nat /\ RingCap \in Nat \ {0}

VARIABLES
    byModel, byAccount, recentRing, subscribers, \* the tracker, under its mutex
    erred,    \* lastErrorTs lies less than 10 s back
    timer,    \* broadcastDebounce: "off", "bare" or "named" (with the repository)
    call,     \* per callback: [pc, named, payload, left]; left are the channels to send to
    chan,     \* per stream: what its channel holds
    closed,   \* the channels that are closed
    spc,      \* per stream: where its handler is
    shown,    \* per stream: what the dashboard was sent last
    rpc,      \* per request: where it is
    crashed,  \* a callback has panicked and the process is gone
    built,    \* (history) payloads built by callbacks
    latest,   \* (history) the last of them
    offered,  \* (history) per stream: the newest payload its channel was offered
    stale     \* (history) per stream: why it may be left with an old payload

tracker == <<byModel, byAccount, recentRing, erred, timer>>
streams == <<subscribers, chan, closed, spc, shown, offered, stale>>
hist    == <<built, latest>>
vars    == <<tracker, streams, call, rpc, crashed, hist>>

Payload(named) == [models |-> byModel, accounts |-> byAccount, recent |-> recentRing,
                   error |-> erred, named |-> named]

\* The counts and the completions two payloads report are the same.
Agree(p, q) == p.models = q.models /\ p.accounts = q.accounts /\ p.recent = q.recent

\* A broadcast is only scheduled when none is running.
ScheduleUnlessRunning(kind) ==
    timer' = IF \E b \in Callbacks : call[b].pc # "idle" THEN timer ELSE kind

\* scheduleBroadcastLocked: whatever timer was running is replaced.
ScheduleBroadcast(kind) == timer' = kind

Added(n, started) == IF started THEN n + 1 ELSE IF n = 0 THEN 0 ELSE n - 1

\* A request that ends leaves its account's count alone.
OnlyModelDrops(c, k, started) ==
    IF started THEN [byAccount EXCEPT ![c][k] = @ + 1] ELSE byAccount

ByAccount(c, k, started) == [byAccount EXCEPT ![c][k] = Added(@, started)]

\* Only a request that starts is broadcast.
EndsSilently(r, started, isError) ==
    LET k == KeyOf[r]
        c == ConnOf[r]
    IN  /\ byModel' = [byModel EXCEPT ![k] = Added(@, started)]
        /\ byAccount' = IF c = NoConn THEN byAccount ELSE ByAccount(c, k, started)
        /\ erred' = (erred \/ (~started /\ isError))
        /\ IF started THEN ScheduleBroadcast("bare") ELSE UNCHANGED timer

\* One more or one less in flight, by model and, when there is an account, by account.
TrackPending(r, started, isError) ==
    LET k == KeyOf[r]
        c == ConnOf[r]
    IN  /\ byModel' = [byModel EXCEPT ![k] = Added(@, started)]
        /\ byAccount' = IF c = NoConn THEN byAccount ELSE ByAccount(c, k, started)
        /\ erred' = (erred \/ (~started /\ isError))
        /\ ScheduleBroadcast("bare")

\* A completed request is put first in the ring, the oldest drops out.
Pushed(r) ==
    SubSeq(<<r>> \o recentRing, 1,
           IF Len(recentRing) < RingCap THEN Len(recentRing) + 1 ELSE RingCap)

Idle == [pc |-> "idle", named |-> FALSE, payload |-> None, left |-> {}]

Zero == [k \in Keys |-> 0]
Empty == [models |-> Zero, accounts |-> [c \in Conns |-> Zero], recent |-> <<>>,
          error |-> FALSE, named |-> FALSE]

Init ==
    /\ byModel = Zero /\ byAccount = [c \in Conns |-> Zero]
    /\ recentRing = <<>> /\ subscribers = {} /\ erred = FALSE /\ timer = "off"
    /\ call = [b \in Callbacks |-> Idle]
    /\ chan = [s \in Streams |-> <<>>] /\ closed = {}
    /\ spc = [s \in Streams |-> "away"] /\ shown = [s \in Streams |-> None]
    /\ rpc = [r \in Reqs |-> "idle"]
    /\ crashed = FALSE
    /\ built = 0 /\ latest = Empty
    /\ offered = [s \in Streams |-> 0] /\ stale = [s \in Streams |-> "no"]

-----------------------------------------------------------------------------
(* Requests *)

Start(r) ==
    /\ rpc[r] = "idle"
    /\ rpc' = [rpc EXCEPT ![r] = "sent"]
    /\ TrackPending(r, TRUE, FALSE)
    /\ UNCHANGED <<recentRing, streams, call, crashed, hist>>

\* The request is logged with the tokens it used.
PushRecent(r) ==
    /\ rpc[r] = "sent" /\ r \notin Failing
    /\ rpc' = [rpc EXCEPT ![r] = "logged"]
    /\ recentRing' = Pushed(r)
    /\ ScheduleBroadcast("named")
    /\ UNCHANGED <<byModel, byAccount, erred, streams, call, crashed, hist>>

\* The deferred decrement.
End(r) ==
    /\ rpc[r] = IF r \in Failing THEN "sent" ELSE "logged"
    /\ rpc' = [rpc EXCEPT ![r] = "over"]
    /\ TrackPending(r, FALSE, r \in Failing)
    /\ UNCHANGED <<recentRing, streams, call, crashed, hist>>

\* Ten seconds after the last error it is no longer reported; nothing is scheduled.
ErrorFades ==
    /\ erred /\ erred' = FALSE
    /\ UNCHANGED <<byModel, byAccount, recentRing, timer, streams, call, rpc, crashed, hist>>

-----------------------------------------------------------------------------
(* Broadcasts *)

\* The timer runs out and its callback begins.
Fire(b) ==
    /\ timer # "off" /\ call[b].pc = "idle"
    /\ timer' = "off"
    /\ call' = [call EXCEPT ![b].pc = "fired", ![b].named = (timer = "named")]
    /\ UNCHANGED <<byModel, byAccount, recentRing, erred, streams, rpc, crashed, hist>>

\* Under the read lock: the payload, and the subscribers of this moment.
Build(b) ==
    LET p == Payload(call[b].named)
    IN  /\ call[b].pc = "fired"
        /\ call' = IF subscribers = {} THEN [call EXCEPT ![b] = Idle]
                   ELSE [call EXCEPT ![b].pc = "sending", ![b].left = subscribers,
                                     ![b].payload = [no |-> built + 1, what |-> p]]
        /\ built' = built + 1
        /\ latest' = p
        /\ UNCHANGED <<tracker, streams, rpc, crashed>>

\* The send is over; the callback ends with the last.
Sent(b, s) ==
    call' = IF call[b].left = {s} THEN [call EXCEPT ![b] = Idle]
            ELSE [call EXCEPT ![b].left = @ \ {s}]

\* Whether the stream's channel has been offered a newer payload than the one in hand.
Outdated(b, s) == call[b].payload.no < offered[s]
Offer(b, s) == offered' = [offered EXCEPT ![s] = IF Outdated(b, s) THEN @ ELSE call[b].payload.no]

\* The channel has room.
Send(b, s) ==
    /\ call[b].pc = "sending" /\ s \in call[b].left /\ s \notin closed
    /\ Len(chan[s]) < ChanCap
    /\ chan' = [chan EXCEPT ![s] = Append(@, call[b].payload.what)]
    /\ Offer(b, s)
    /\ stale' = [stale EXCEPT ![s] = IF Outdated(b, s) THEN "overtaken" ELSE "no"]
    /\ Sent(b, s)
    /\ UNCHANGED <<tracker, subscribers, closed, spc, shown, rpc, crashed, hist>>

\* The channel is full and the payload is dropped.
Drop(b, s) ==
    /\ call[b].pc = "sending" /\ s \in call[b].left /\ s \notin closed
    /\ Len(chan[s]) >= ChanCap
    /\ Offer(b, s)
    /\ stale' = [stale EXCEPT ![s] = IF Outdated(b, s) THEN @ ELSE "dropped"]
    /\ Sent(b, s)
    /\ UNCHANGED <<tracker, subscribers, chan, closed, spc, shown, rpc, crashed, hist>>

\* The stream has left since the callback noted its channel: sending to it panics.
Panic(b, s) ==
    /\ call[b].pc = "sending" /\ s \in call[b].left /\ s \in closed
    /\ crashed' = TRUE
    /\ UNCHANGED <<tracker, streams, call, rpc, hist>>

-----------------------------------------------------------------------------
(* Streams *)

\* The state of this moment is sent first.
Connect(s) ==
    /\ spc[s] = "away"
    /\ spc' = [spc EXCEPT ![s] = "greeted"]
    /\ shown' = [shown EXCEPT ![s] = Payload(TRUE)]
    /\ UNCHANGED <<tracker, subscribers, chan, closed, offered, stale, call, rpc, crashed, hist>>

\* A broadcast is still to be built.
Due == timer # "off" \/ \E b \in Callbacks : call[b].pc = "fired"

\* Only then does the handler subscribe: a change broadcast in between has passed it by.
Subscribe(s) ==
    /\ spc[s] = "greeted"
    /\ spc' = [spc EXCEPT ![s] = "listening"]
    /\ subscribers' = subscribers \cup {s}
    /\ stale' = [stale EXCEPT ![s] =
                   IF ~Due /\ ~Agree(Payload(TRUE), shown[s]) THEN "missed" ELSE "no"]
    /\ UNCHANGED <<tracker, chan, closed, shown, offered, call, rpc, crashed, hist>>

\* The next payload is written to the dashboard.
Show(s) ==
    /\ spc[s] = "listening" /\ chan[s] # <<>>
    /\ shown' = [shown EXCEPT ![s] = Head(chan[s])]
    /\ chan' = [chan EXCEPT ![s] = Tail(@)]
    /\ UNCHANGED <<tracker, subscribers, closed, spc, offered, stale, call, rpc, crashed, hist>>

\* The channel is closed but its subscription is kept.
StaysSubscribed(s) == subscribers

Without(s) == subscribers \ {s}

\* The client goes, or a write to it fails: unsubscribe deletes and closes the channel, and
\* what it held is lost with it.
Leave(s) ==
    /\ s \in Leavers /\ spc[s] \in {"greeted", "listening"}
    /\ spc' = [spc EXCEPT ![s] = "left"]
    /\ IF spc[s] = "listening"
       THEN subscribers' = Without(s) /\ closed' = closed \cup {s}
       ELSE UNCHANGED <<subscribers, closed>>
    /\ chan' = [chan EXCEPT ![s] = <<>>]
    /\ shown' = [shown EXCEPT ![s] = None]
    /\ offered' = [offered EXCEPT ![s] = 0]
    /\ stale' = [stale EXCEPT ![s] = "no"]
    /\ UNCHANGED <<tracker, call, rpc, crashed, hist>>

-----------------------------------------------------------------------------
Request(r)  == Start(r) \/ PushRecent(r) \/ End(r)
Callback(b) == \/ Fire(b) \/ Build(b)
               \/ \E s \in Streams : Send(b, s) \/ Drop(b, s) \/ Panic(b, s)
Listen(s)   == Subscribe(s) \/ Show(s)
Stream(s)   == Connect(s) \/ Listen(s) \/ Leave(s)

Next == /\ ~crashed
        /\ \/ \E r \in Reqs : Request(r)
           \/ ErrorFades
           \/ \E b \in Callbacks : Callback(b)
           \/ \E s \in Streams : Stream(s)

Spec == Init /\ [][Next]_vars

\* Timers run out, callbacks are scheduled and never block (they drop instead), and a stream
\* that was greeted subscribes and writes what its channel holds.
Fairness ==
    /\ \A b \in Callbacks : WF_vars(~crashed /\ Callback(b))
    /\ \A s \in Streams : WF_vars(~crashed /\ Listen(s))

FairSpec == Spec /\ Fairness

-----------------------------------------------------------------------------
Counts == [Keys -> Nat]
Payloads == [models : Counts, accounts : [Conns -> Counts], recent : Seq(Reqs),
             error : BOOLEAN, named : BOOLEAN]

\* Types, and: no channel holds more than its capacity, the ring is no longer than its own,
\* and only the channel of a stream that listens is subscribed.
TypeOK ==
    /\ byModel \in Counts /\ byAccount \in [Conns -> Counts]
    /\ recentRing \in Seq(Reqs) /\ Len(recentRing) <= RingCap
    /\ erred \in BOOLEAN /\ timer \in {"off", "bare", "named"}
    /\ call \in [Callbacks -> [pc : {"idle", "fired", "sending"}, named : BOOLEAN,
                               payload : {None} \cup [no : Nat, what : Payloads],
                               left : SUBSET Streams]]
    /\ chan \in [Streams -> Seq(Payloads)]
    /\ \A s \in Streams : Len(chan[s]) <= ChanCap
    /\ spc \in [Streams -> {"away", "greeted", "listening", "left"}]
    /\ shown \in [Streams -> Payloads \cup {None}]
    /\ rpc \in [Reqs -> {"idle", "sent", "logged", "over"}]
    /\ crashed \in BOOLEAN
    /\ subscribers = {s \in Streams : spc[s] = "listening"}
    /\ closed \subseteq {s \in Leavers : spc[s] = "left"}
    /\ built \in Nat /\ latest \in Payloads
    /\ offered \in [Streams -> Nat]
    /\ stale \in [Streams -> {"no", "missed", "dropped", "overtaken"}]

InFlight(k) == {r \in Reqs : rpc[r] \in {"sent", "logged"} /\ KeyOf[r] = k}

\* However requests interleave, the counts are the requests in flight, by model and by account
\* (TrackPending and its deferred counterpart).
CountsExact ==
    \A k \in Keys :
        /\ byModel[k] = Cardinality(InFlight(k))
        /\ \A c \in Conns :
             byAccount[c][k] = Cardinality({r \in InFlight(k) : ConnOf[r] = c})

\* A change that no callback has put into a payload yet has a broadcast ahead of it: the timer
\* runs, or a callback has begun and will build (scheduleBroadcastLocked).
NoChangeForgotten == Agree(latest, Payload(FALSE)) \/ Due

\* A dashboard that stays ends up with the counts as they are, unless the process is gone or
\* it missed a broadcast between its greeting and its subscription, had its last payload
\* dropped by a full channel, or got an older payload after a newer one.
SettlesOrHasCause ==
    \A s \in Streams :
        <>[](\/ crashed \/ stale[s] # "no" \/ spc[s] \in {"away", "left"}
             \/ Agree(shown[s], Payload(FALSE)))

\* The tracker survives any order of its operations ("Thread-safe tracker with mutex-guarded
\* active concurrency maps and subscriber channels").
NoSendOnClosed == ~crashed
=============================================================================
