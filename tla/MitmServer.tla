----------------------------- MODULE MitmServer -----------------------------
(***************************************************************************)
(* The TLS server that answers for the domains of the coding tools         *)
(* (internal/mitm/server.go) and the leaf certificates it answers with     *)
(* (GetOrCreateLeafCert of cert.go).  acceptLoop hands every connection to *)
(* a goroutine; Stop closes the listener and the connections it knows and  *)
(* waits for the goroutines.  Every connection of the model asks for the   *)
(* same domain, since the leaf of another one has a lock and files of its  *)
(* own; an idle client is one that never takes the next step.              *)
(***************************************************************************)
EXTENDS Naturals, FiniteSets

CONSTANTS
    Conns,     \* connections clients may open
    MaxLeaves, \* bound: certificates generated
    None

VARIABLES
    up,      \* Server.running, and with it the listener, is open
    loop,    \* acceptLoop: not "started", "accepting", "adding" or "registering" loopAt, "gone"
    loopAt,  \* the connection Accept returned, or None
    phase,   \* per connection: how far its client and its goroutine are
    active,  \* Server.active
    closed,  \* connections whose socket has been closed
    count,   \* the WaitGroup conns
    stop,    \* Stop: "idle", "waiting" or "returned"
    leafOf,  \* per connection: the certificate its handshake was answered with
    lock,    \* the connection that holds the lock of the domain, or None
    leaf,    \* the certificate in the file of the domain, or None
    serial,  \* certificates generated so far
    known    \* (history) connections in active when Stop swept

vars == <<up, loop, loopAt, phase, active, closed, count, stop, leafOf, lock, leaf, serial, known>>
server == <<up, loop, loopAt, stop, known>>
leaves == <<leafOf, lock, leaf, serial>>

\* Where a goroutine of handleConn can be.
Handling == {"handshake", "leaf", "locked", "making", "reading", "fetching", "closing", "done"}

Init ==
    /\ up = FALSE /\ loop = "started" /\ loopAt = None
    /\ phase = [c \in Conns |-> "new"] /\ active = {} /\ closed = {}
    /\ count = 0 /\ stop = "idle"
    /\ leafOf = [c \in Conns |-> None] /\ lock = None /\ leaf = None /\ serial = 0
    /\ known = {}

Start ==
    /\ ~up /\ stop = "idle"
    /\ up' = TRUE /\ loop' = "accepting"
    /\ UNCHANGED <<loopAt, phase, active, closed, count, stop, leaves, known>>

Connect(c) ==
    /\ up /\ phase[c] = "new"
    /\ phase' = [phase EXCEPT ![c] = "queued"]
    /\ UNCHANGED <<server, active, closed, count, leaves>>

\* Listener.Accept returns a connection of the queue.
Accept(c) ==
    /\ loop = "accepting" /\ up /\ phase[c] = "queued"
    /\ loop' = "adding" /\ loopAt' = c
    /\ phase' = [phase EXCEPT ![c] = "accepted"]
    /\ UNCHANGED <<up, active, closed, count, stop, leaves, known>>

Add ==
    /\ loop = "adding"
    /\ loop' = "registering" /\ count' = count + 1
    /\ UNCHANGED <<up, loopAt, phase, active, closed, stop, leaves, known>>

\* The connection enters active under mu, and its goroutine starts.
Register ==
    /\ loop = "registering"
    /\ active' = active \cup {loopAt}
    /\ phase' = [phase EXCEPT ![loopAt] = "handshake"]
    /\ loop' = "accepting" /\ loopAt' = None
    /\ UNCHANGED <<up, closed, count, stop, leaves, known>>

\* Accept fails once the listener is closed, and isRunning tells that Stop was here.
AcceptFails ==
    /\ loop = "accepting" /\ ~up
    /\ loop' = "gone"
    /\ UNCHANGED <<up, loopAt, phase, active, closed, count, stop, leaves, known>>

Go(c, from, to) ==
    /\ phase[c] = from /\ phase' = [phase EXCEPT ![c] = to]
    /\ UNCHANGED <<server, active, closed, count>>

\* The client says hello with the domain, and the goroutine looks for its certificate.
Hello(c) == c \notin closed /\ Go(c, "handshake", "leaf") /\ UNCHANGED leaves

LeafLockFree == lock = None

LockLeaf(c) == LeafLockFree /\ lock' = c /\ Go(c, "leaf", "locked") /\ UNCHANGED <<leafOf, leaf, serial>>

Answer(c, from, l) == lock' = None /\ leafOf' = [leafOf EXCEPT ![c] = l] /\ Go(c, from, "reading")

\* The file holds a certificate that has not expired.
UseLeaf(c) == leaf # None /\ Answer(c, "locked", leaf) /\ UNCHANGED <<leaf, serial>>

\* There is none: generate one, and write it.
FindNoLeaf(c) == leaf = None /\ Go(c, "locked", "making") /\ UNCHANGED leaves

MakeLeaf(c) ==
    /\ serial < MaxLeaves
    /\ serial' = serial + 1 /\ leaf' = serial'
    /\ Answer(c, "making", serial')

\* The handshake fails when the leaf cannot be written.
NoLeaf(c) == lock' = None /\ Go(c, "making", "closing") /\ UNCHANGED <<leafOf, leaf, serial>>

\* The request has arrived whole, within maxBodyBounds and for a domain with a handler.
Request(c) == c \notin closed /\ Go(c, "reading", "fetching") /\ UNCHANGED leaves

\* What arrived is refused, or the client hung up.
Refused(c) ==
    \E from \in {"handshake", "reading"} : c \notin closed /\ Go(c, from, "closing") /\ UNCHANGED leaves

\* A read of a closed connection returns at once.
ReadFails(c) ==
    \E from \in {"handshake", "reading"} : c \in closed /\ Go(c, from, "closing") /\ UNCHANGED leaves

\* FetchRouter has the answer of the router, an error, or its five minutes are over; closing
\* the connection does not cancel it.
Fetched(c) == Go(c, "fetching", "closing") /\ UNCHANGED leaves

\* The deferred calls: close, leave active, Done.
Finish(c) ==
    /\ phase[c] = "closing"
    /\ phase' = [phase EXCEPT ![c] = "done"]
    /\ closed' = closed \cup {c} /\ active' = active \ {c} /\ count' = count - 1
    /\ UNCHANGED <<server, leaves>>

(***************************************************************************)
(* A plausible slip: the sweep closes the listener and leaves the          *)
(* connections to their clients.                                           *)
(***************************************************************************)
ClosesNothing == {}

\* What Stop closes under mu beside the listener.
SweptConns == active

Stop ==
    /\ stop = "idle" /\ up
    /\ up' = FALSE /\ stop' = "waiting"
    /\ closed' = closed \cup SweptConns /\ known' = active
    \* connections nobody accepted are reset with the listener
    /\ phase' = [c \in Conns |-> IF phase[c] = "queued" THEN "done" ELSE phase[c]]
    /\ UNCHANGED <<loop, loopAt, active, count, leaves>>

\* conns.Wait returns.
Stopped ==
    /\ stop = "waiting" /\ count = 0
    /\ stop' = "returned"
    /\ UNCHANGED <<up, loop, loopAt, phase, active, closed, count, leaves, known>>

Handler(c) ==
    \/ LockLeaf(c) \/ UseLeaf(c) \/ FindNoLeaf(c) \/ MakeLeaf(c) \/ NoLeaf(c)
    \/ ReadFails(c) \/ Fetched(c) \/ Finish(c)

Loop == Add \/ Register \/ AcceptFails

Next ==
    \/ Start \/ Stop \/ Stopped \/ Loop
    \/ \E c \in Conns : Connect(c) \/ Accept(c) \/ Hello(c) \/ Request(c) \/ Refused(c) \/ Handler(c)

(***************************************************************************)
(* The goroutines of the server run; what a client sends may never come.   *)
(***************************************************************************)
Spec == Init /\ [][Next]_vars /\ WF_vars(Loop) /\ WF_vars(Stopped) /\ \A c \in Conns : WF_vars(Handler(c))

TypeOK ==
    /\ up \in BOOLEAN /\ loop \in {"started", "accepting", "adding", "registering", "gone"}
    /\ loopAt \in Conns \cup {None} /\ count \in Nat
    /\ phase \in [Conns -> {"new", "queued", "accepted"} \cup Handling]
    /\ active \subseteq Conns /\ closed \subseteq Conns /\ known \subseteq Conns
    /\ stop \in {"idle", "waiting", "returned"} /\ lock \in Conns \cup {None}
    /\ leafOf \in [Conns -> 0 .. MaxLeaves \cup {None}]
    /\ leaf \in 1 .. MaxLeaves \cup {None} /\ serial \in 0 .. MaxLeaves

\* Goroutines that have started and not ended.
Running == {c \in Conns : phase[c] \in Handling \ {"done"}}

(***************************************************************************)
(* No two handshakes for a domain are answered with different certificates *)
(* ("cannot race and generate two different certs", cert.go:245-246).      *)
(***************************************************************************)
OneLeafPerDomain == Cardinality({leafOf[c] : c \in Conns} \ {None}) <= 1

(***************************************************************************)
(* Stop returns when every connection that had been accepted was in active *)
(* when it swept: idle clients do not keep it.                             *)
(***************************************************************************)
StopReturns == (stop = "waiting" /\ Running \subseteq known /\ loopAt = None) ~> (stop = "returned")
=============================================================================
