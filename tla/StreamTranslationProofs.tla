---------------------- MODULE StreamTranslationProofs ----------------------
(***************************************************************************)
(* The translator of a stream implements ClaudeStream and loses nothing,   *)
(* for any number of calls and pieces.  What the translator has said and   *)
(* the client has not read is a path: legal events, one after the other,   *)
(* from what the client knows to what the translator's state shows.  Each  *)
(* of the translator's operators makes a path longer; a step of the client *)
(* makes it shorter.                                                       *)
(*                                                                         *)
(* And the translator of a conversation keeps its tool calls: what goes    *)
(* upstream is told so that results are missing at its end only, and what  *)
(* the client or the upstream says next is told at that end.               *)
(***************************************************************************)
EXTENDS RequestParts, Recursion

-----------------------------------------------------------------------------
(* The translation of a stream: what the client sees of the events to come *)

Event(type, b, n) == [type |-> type, block |-> b, pieces |-> n]
Block(i, kind) == [index |-> i, kind |-> kind]
Kinds == {"text", "thinking", "tool_use"}
Blocks == [index : Nat, kind : Kinds]
Events == [type : {"message_start", "message_delta", "message_stop", "done", "block_start",
                   "block_delta", "block_stop"},
           block : Blocks \cup {None}, pieces : Nat]

\* What a client knows of a stream, and the pieces it has.
Known(p, bs, n, g) == [phase |-> p, blocks |-> bs, next |-> n, got |-> g]

\* An event the client may get, and what it knows then.
Legal(x, e, y) ==
    \/ /\ e = Event("message_start", None, 0) /\ x.phase = "before"
       /\ y = Known("open", x.blocks, x.next, x.got)
    \/ /\ e = Event("message_delta", None, 0) /\ x.phase = "open" /\ x.blocks = {}
       /\ y = Known("closing", x.blocks, x.next, x.got)
    \/ /\ e = Event("message_stop", None, 0) /\ x.phase = "closing"
       /\ y = Known("ended", x.blocks, x.next, x.got)
    \/ /\ e = Event("done", None, 0) /\ x.phase # "done"
       /\ y = Known("done", x.blocks, x.next, x.got)
    \/ \E kind \in Kinds :
          /\ e = Event("block_start", Block(x.next, kind), 0)
          /\ x.phase = "open" /\ \A b \in x.blocks : b.kind = "tool_use"
          /\ y = Known("open", x.blocks \cup {Block(x.next, kind)}, x.next + 1, x.got)
    \/ \E b \in x.blocks, n \in Nat :
          /\ e = Event("block_delta", b, n) /\ x.phase = "open"
          /\ y = Known("open", x.blocks, x.next, x.got + n)
    \/ \E b \in x.blocks :
          /\ e = Event("block_stop", b, 0) /\ x.phase = "open"
          /\ y = Known("open", x.blocks \ {b}, x.next, x.got)

\* Events that lead from what it knows to something else, one legal event after the other.
Path(events, x, y) ==
    \E f : /\ f[0] = x /\ f[Len(events)] = y
           /\ \A i \in 1 .. Len(events) : Legal(f[i - 1], events[i], f[i])

Client == Known(phase, blocks, next, got)

-----------------------------------------------------------------------------
LEMMA Here == \A x : Path(<<>>, x, x)
  <1> SUFFICES ASSUME NEW x PROVE Path(<<>>, x, x)
    OBVIOUS
  <1> DEFINE f == [i \in {0} |-> x]
  <1>1. f[0] = x /\ f[Len(<<>>)] = x /\ \A i \in 1 .. Len(<<>>) : FALSE
    OBVIOUS
  <1> HIDE DEF f
  <1> QED
    BY <1>1 DEF Path

\* No event, no change.
LEMMA Nowhere == \A x, y : Path(<<>>, x, y) => x = y
  BY DEF Path

\* A path becomes longer,
LEMMA Onward ==
    ASSUME NEW events \in Seq(Events), NEW e \in Events, NEW x, NEW y, NEW z,
           Path(events, x, y), Legal(y, e, z)
    PROVE  Append(events, e) \in Seq(Events) /\ Path(Append(events, e), x, z)
  <1>1. PICK f : /\ f[0] = x /\ f[Len(events)] = y
                 /\ \A i \in 1 .. Len(events) : Legal(f[i - 1], events[i], f[i])
    BY DEF Path
  <1> DEFINE n == Len(events)
             longer == Append(events, e)
             g == [i \in 0 .. n + 1 |-> IF i = n + 1 THEN z ELSE f[i]]
  <1>2. n \in Nat /\ Len(longer) = n + 1 /\ longer[n + 1] = e /\ longer \in Seq(Events)
        /\ \A i \in 1 .. n : longer[i] = events[i]
    OBVIOUS
  <1>3. g[0] = x /\ g[n + 1] = z /\ g[n] = y /\ \A i \in 0 .. n : g[i] = f[i]
    BY <1>1, <1>2
  <1> HIDE DEF g
  <1>4. \A i \in 1 .. n + 1 : Legal(g[i - 1], longer[i], g[i])
    <2> SUFFICES ASSUME NEW i \in 1 .. n + 1 PROVE Legal(g[i - 1], longer[i], g[i])
      OBVIOUS
    <2>1. CASE i = n + 1
      <3>1. i - 1 = n
        BY <1>2, <2>1
      <3> QED
        BY <1>2, <1>3, <2>1, <3>1
    <2>2. CASE i # n + 1
      <3>1. i \in 1 .. n /\ i - 1 \in 0 .. n /\ i \in 0 .. n
        BY <1>2, <2>2
      <3> QED
        BY <1>1, <1>2, <1>3, <3>1
    <2> QED
      BY <2>1, <2>2
  <1> QED
    BY <1>2, <1>3, <1>4 DEF Path

\* and shorter by the event the client gets.
LEMMA Shorter ==
    ASSUME NEW events \in Seq(Events), events # <<>>, NEW x, NEW y, Path(events, x, y)
    PROVE  \E z : Legal(x, Head(events), z) /\ Path(Tail(events), z, y)
  <1>1. PICK f : /\ f[0] = x /\ f[Len(events)] = y
                 /\ \A i \in 1 .. Len(events) : Legal(f[i - 1], events[i], f[i])
    BY DEF Path
  <1> DEFINE n == Len(events)
             rest == Tail(events)
             g == [i \in 0 .. n - 1 |-> f[i + 1]]
  <1>2. n \in Nat /\ n > 0 /\ Len(rest) = n - 1 /\ Head(events) = events[1]
        /\ \A i \in 1 .. n - 1 : rest[i] = events[i + 1]
    OBVIOUS
  <1>3. g[0] = f[1] /\ g[n - 1] = y /\ \A i \in 0 .. n - 1 : g[i] = f[i + 1]
    BY <1>1, <1>2
  <1> HIDE DEF g
  <1>4. Legal(x, Head(events), f[1])
    <2>1. 1 \in 1 .. n /\ 1 - 1 = 0
      BY <1>2
    <2> QED
      BY <1>1, <1>2, <2>1
  <1>5. \A i \in 1 .. n - 1 : Legal(g[i - 1], rest[i], g[i])
    <2> SUFFICES ASSUME NEW i \in 1 .. n - 1 PROVE Legal(g[i - 1], rest[i], g[i])
      OBVIOUS
    <2>1. i + 1 \in 1 .. n /\ (i + 1) - 1 = i /\ i - 1 \in 0 .. n - 1 /\ (i - 1) + 1 = i
          /\ i \in 0 .. n - 1
      BY <1>2
    <2>2. Legal(f[i], events[i + 1], f[i + 1])
      BY <1>1, <2>1
    <2>3. g[i - 1] = f[i] /\ g[i] = f[i + 1]
      BY <1>3, <2>1
    <2> QED
      BY <1>2, <2>2, <2>3
  <1>6. Path(rest, f[1], y)
    BY <1>2, <1>3, <1>5 DEF Path
  <1> QED
    BY <1>4, <1>6

\* Two paths make one.
LEMMA PathsJoined ==
    ASSUME NEW a \in Seq(Events), NEW b \in Seq(Events), NEW x, NEW y, NEW z,
           Path(a, x, y), Path(b, y, z)
    PROVE  a \o b \in Seq(Events) /\ Path(a \o b, x, z)
  <1>1. PICK f : /\ f[0] = x /\ f[Len(a)] = y
                 /\ \A i \in 1 .. Len(a) : Legal(f[i - 1], a[i], f[i])
    BY DEF Path
  <1>2. PICK g : /\ g[0] = y /\ g[Len(b)] = z
                 /\ \A i \in 1 .. Len(b) : Legal(g[i - 1], b[i], g[i])
    BY DEF Path
  <1> DEFINE m == Len(a)
             n == Len(b)
             h == [i \in 0 .. m + n |-> IF i <= m THEN f[i] ELSE g[i - m]]
  <1>3. /\ m \in Nat /\ n \in Nat /\ a \o b \in Seq(Events) /\ Len(a \o b) = m + n
        /\ \A i \in 1 .. m : (a \o b)[i] = a[i]
        /\ \A i \in m + 1 .. m + n : (a \o b)[i] = b[i - m]
    OBVIOUS
  <1>4. /\ \A i \in 0 .. m : h[i] = f[i]
        /\ \A i \in 0 .. m + n : i > m => h[i] = g[i - m]
    BY <1>3
  <1>5. h[m] = g[0] /\ h[0] = x
    BY <1>1, <1>2, <1>3, <1>4
  <1>6. h[m + n] = z
    <2>1. CASE n = 0
      BY <1>2, <1>3, <1>5, <2>1
    <2>2. CASE n # 0
      <3>1. m + n \in 0 .. m + n /\ m + n > m /\ (m + n) - m = n
        BY <1>3, <2>2
      <3> QED
        BY <1>2, <1>4, <3>1
    <2> QED
      BY <2>1, <2>2
  <1> HIDE DEF h
  <1>7. \A i \in 1 .. m + n : Legal(h[i - 1], (a \o b)[i], h[i])
    <2> SUFFICES ASSUME NEW i \in 1 .. m + n PROVE Legal(h[i - 1], (a \o b)[i], h[i])
      OBVIOUS
    <2>1. CASE i <= m
      <3>1. i \in 1 .. m /\ i - 1 \in 0 .. m /\ i \in 0 .. m
        BY <1>3, <2>1
      <3> QED
        BY <1>1, <1>3, <1>4, <3>1
    <2>2. CASE i > m
      <3>1. /\ i - m \in 1 .. n /\ i \in m + 1 .. m + n /\ i \in 0 .. m + n
            /\ i - 1 \in 0 .. m + n /\ (i - m) - 1 = (i - 1) - m
        BY <1>3, <2>2
      <3>2. Legal(g[(i - m) - 1], b[i - m], g[i - m])
        BY <1>2, <3>1
      <3>3. h[i] = g[i - m] /\ (a \o b)[i] = b[i - m]
        BY <1>3, <1>4, <2>2, <3>1
      <3>4. h[i - 1] = g[(i - m) - 1]
        <4>1. CASE i - 1 = m
          <5>1. (i - m) - 1 = 0
            BY <1>3, <4>1
          <5> QED
            BY <1>5, <4>1, <5>1
        <4>2. CASE i - 1 # m
          BY <1>3, <1>4, <2>2, <3>1, <4>2
        <4> QED
          BY <4>1, <4>2
      <3> QED
        BY <3>2, <3>3, <3>4
    <2> QED
      BY <1>3, <2>1, <2>2
  <1> QED
    BY <1>3, <1>5, <1>6, <1>7 DEF Path

\* The blocks that are open in a state of the translator, and the client once it has what the
\* translator has said.
ToolBlocks(s) == {Block(s.calls[i], "tool_use") : i \in {j \in ToolIndices : s.calls[j] # None}}
Open(s) == ToolBlocks(s) \cup (IF s.text = None THEN {} ELSE {Block(s.text, "text")})
                         \cup (IF s.thinking = None THEN {} ELSE {Block(s.thinking, "thinking")})
View(s, g) == Known("open", Open(s), s.next, g)

\* Calls have blocks of their own, and arguments are kept for them only.
Numbered(s) ==
    /\ \A i \in ToolIndices : s.calls[i] # None => s.calls[i] < s.next
    /\ \A i, j \in ToolIndices : s.calls[i] # None /\ s.calls[i] = s.calls[j] => i = j
    /\ \A i \in ToolIndices : s.args[i] # 0 => s.calls[i] # None

\* Events of a message that goes on.
Content(events) ==
    \A i \in 1 .. Len(events) :
        events[i].type \in {"message_start", "block_start", "block_delta", "block_stop"}

\* A state in the making whose events lead a client that knows x to what it shows.
Shows(s, x, g) ==
    /\ s \in ST!States(Seq(Events)) /\ s.started /\ Numbered(s) /\ g \in Nat
    /\ Path(s.emit, x, View(s, g)) /\ Content(s.emit)

\* The calls, their arguments and the usage are as they were.
Alike(s, t) == t.calls = s.calls /\ t.args = s.args /\ t.usage = s.usage

-----------------------------------------------------------------------------
LEMMA Named ==
    /\ \A i, k : ST!CL!Block(i, k) = Block(i, k)
    /\ \A i \in Nat, k \in Kinds : Block(i, k) \in Blocks
    /\ \A type \in {"block_start", "block_delta", "block_stop"}, i \in Nat, k \in Kinds, n \in Nat :
          Event(type, Block(i, k), n) \in Events
    /\ \A type, i, k, n : ST!BlockEvent(type, i, k, n) = Event(type, Block(i, k), n)
    /\ \A type : ST!MessageEvent(type) = Event(type, None, 0)
  <1>1. \A i, k : ST!CL!Block(i, k) = Block(i, k)
    BY DEF ST!CL!Block, Block
  <1>2. \A i \in Nat, k \in Kinds : Block(i, k) \in Blocks
    BY DEF Block, Blocks
  <1>3. \A type \in {"block_start", "block_delta", "block_stop"}, b \in Blocks, n \in Nat :
          Event(type, b, n) \in Events
    BY DEF Event, Events
  <1>4. \A type, i, k, n : ST!BlockEvent(type, i, k, n) = Event(type, Block(i, k), n)
    BY <1>1 DEF Event, ST!BlockEvent
  <1>5. \A type : ST!MessageEvent(type) = Event(type, None, 0)
    BY DEF Event, ST!MessageEvent
  <1> QED
    BY <1>1, <1>2, <1>3, <1>4, <1>5

\* What a state has said, and one thing more.
LEMMA SaysMore ==
    ASSUME NEW s \in ST!States(Seq(Events)), NEW e \in Events
    PROVE  /\ Append(s.emit, e) \in Seq(Events)
           /\ [s EXCEPT !.emit = Append(s.emit, e)] \in ST!States(Seq(Events))
  <1>1. s.emit \in Seq(Events)
    BY DEF ST!States
  <1>2. Append(s.emit, e) \in Seq(Events)
    BY <1>1
  <1> QED
    BY <1>2 DEF ST!States

\* None is neither the number of a block nor the index of a call.
LEMMA NotANumber == None \notin Nat /\ None \notin ToolIndices
  BY TranslationAssumption

\* A state that has said one thing more shows what that leads to.
LEMMA Says ==
    ASSUME NEW s, NEW x, NEW g, Shows(s, x, g),
           NEW t \in ST!States(Seq(Events)), NEW e \in Events, NEW h \in Nat,
           t.emit = Append(s.emit, e), t.started, Numbered(t),
           e.type \in {"message_start", "block_start", "block_delta", "block_stop"},
           Legal(View(s, g), e, View(t, h))
    PROVE  Shows(t, x, h)
  <1>1. s.emit \in Seq(Events)
    BY DEF Shows, ST!States
  <1>2. Path(t.emit, x, View(t, h))
    BY <1>1, Onward DEF Shows
  <1>3. Content(t.emit)
    BY <1>1 DEF Shows, Content
  <1> QED
    BY <1>2, <1>3 DEF Shows

\* The thinking block is closed, if one is open.
LEMMA StopsThinking ==
    ASSUME NEW s, NEW x, NEW g, Shows(s, x, g)
    PROVE  LET t == ST!StopThinkingBlock(s)
           IN  Shows(t, x, g) /\ Alike(s, t) /\ t.thinking = None /\ t.text = s.text
  <1> DEFINE t == ST!StopThinkingBlock(s)
             e == Event("block_stop", Block(s.thinking, "thinking"), 0)
  <1>1. CASE s.thinking = None
    BY <1>1 DEF ST!StopThinkingBlock, Alike
  <1>2. CASE s.thinking # None
    <2>1. s \in ST!States(Seq(Events)) /\ s.thinking \in Nat
      BY <1>2 DEF Shows, ST!States
    <2>2. t = [s EXCEPT !.thinking = None, !.emit = Append(s.emit, e)]
      BY <1>2, <2>1, Named DEF ST!StopThinkingBlock, ST!OnBlock, ST!Says, ST!States
    <2>3. e \in Events
      <3>1. "thinking" \in Kinds /\ "text" \in Kinds /\ 0 \in Nat
        BY DEF Kinds
      <3> QED
        BY <2>1, <3>1, Named
    <2>4. /\ t.emit = Append(s.emit, e) /\ t.thinking = None /\ t.text = s.text
          /\ t.next = s.next /\ t.started = s.started /\ Alike(s, t)
      BY <2>1, <2>2 DEF ST!States, Alike
    <2>5. t \in ST!States(Seq(Events))
      <3>1. Append(s.emit, e) \in Seq(Events)
        BY <2>1, <2>3, SaysMore
      <3> QED
        BY <2>1, <2>2, <3>1 DEF ST!States
    <2>6. Numbered(t) /\ t.started
      BY <2>4 DEF Shows, Numbered, Alike
    <2>7. Open(t) = Open(s) \ {Block(s.thinking, "thinking")}
      <3>1. ToolBlocks(t) = ToolBlocks(s) /\ Block(s.thinking, "thinking") \notin ToolBlocks(s)
        BY <2>4 DEF ToolBlocks, Alike, Block
      <3>2. Block(s.thinking, "thinking") # Block(s.text, "text")
        BY DEF Block
      <3> QED
        BY <1>2, <2>4, <3>1, <3>2 DEF Open
    <2>8. Block(s.thinking, "thinking") \in Open(s)
      BY <1>2 DEF Open
    <2>9. Legal(View(s, g), e, View(t, g))
      BY <2>4, <2>7, <2>8 DEF Legal, View, Known
    <2> QED
      BY <2>3, <2>4, <2>5, <2>6, <2>9, Says DEF Shows, Event
  <1> QED
    BY <1>1, <1>2

\* The text block is closed, if one is open.
LEMMA StopsText ==
    ASSUME NEW s, NEW x, NEW g, Shows(s, x, g)
    PROVE  LET t == ST!StopTextBlock(s)
           IN  Shows(t, x, g) /\ Alike(s, t) /\ t.text = None /\ t.thinking = s.thinking
  <1> DEFINE t == ST!StopTextBlock(s)
             e == Event("block_stop", Block(s.text, "text"), 0)
  <1>1. CASE s.text = None
    BY <1>1 DEF ST!StopTextBlock, Alike
  <1>2. CASE s.text # None
    <2>1. s \in ST!States(Seq(Events)) /\ s.text \in Nat
      BY <1>2 DEF Shows, ST!States
    <2>2. t = [s EXCEPT !.text = None, !.emit = Append(s.emit, e)]
      BY <1>2, <2>1, Named DEF ST!StopTextBlock, ST!OnBlock, ST!Says, ST!States
    <2>3. e \in Events
      <3>1. "thinking" \in Kinds /\ "text" \in Kinds /\ 0 \in Nat
        BY DEF Kinds
      <3> QED
        BY <2>1, <3>1, Named
    <2>4. /\ t.emit = Append(s.emit, e) /\ t.text = None /\ t.thinking = s.thinking
          /\ t.next = s.next /\ t.started = s.started /\ Alike(s, t)
      BY <2>1, <2>2 DEF ST!States, Alike
    <2>5. t \in ST!States(Seq(Events))
      <3>1. Append(s.emit, e) \in Seq(Events)
        BY <2>1, <2>3, SaysMore
      <3> QED
        BY <2>1, <2>2, <3>1 DEF ST!States
    <2>6. Numbered(t) /\ t.started
      BY <2>4 DEF Shows, Numbered, Alike
    <2>7. Open(t) = Open(s) \ {Block(s.text, "text")}
      <3>1. ToolBlocks(t) = ToolBlocks(s) /\ Block(s.text, "text") \notin ToolBlocks(s)
        BY <2>4 DEF ToolBlocks, Alike, Block
      <3>2. Block(s.text, "text") # Block(s.thinking, "thinking")
        BY DEF Block
      <3> QED
        BY <1>2, <2>4, <3>1, <3>2 DEF Open
    <2>8. Block(s.text, "text") \in Open(s)
      BY <1>2 DEF Open
    <2>9. Legal(View(s, g), e, View(t, g))
      BY <2>4, <2>7, <2>8 DEF Legal, View, Known
    <2> QED
      BY <2>3, <2>4, <2>5, <2>6, <2>9, Says DEF Shows, Event
  <1> QED
    BY <1>1, <1>2

\* A block of text or thinking begins where none of the two is open.
LEMMA Begins ==
    ASSUME NEW s, NEW x, NEW g, Shows(s, x, g), s.text = None, s.thinking = None,
           NEW kind \in {"text", "thinking"}, NEW t,
           t = ST!OnBlock(IF kind = "text" THEN [s EXCEPT !.text = s.next, !.next = s.next + 1]
                          ELSE [s EXCEPT !.thinking = s.next, !.next = s.next + 1],
                          "block_start", s.next, kind, 0)
    PROVE  /\ Shows(t, x, g) /\ Alike(s, t)
           /\ t.text = (IF kind = "text" THEN s.next ELSE None)
           /\ t.thinking = (IF kind = "text" THEN None ELSE s.next)
           /\ s.next \in Nat
  <1> DEFINE e == Event("block_start", Block(s.next, kind), 0)
  <1>1. s \in ST!States(Seq(Events)) /\ s.next \in Nat /\ kind \in Kinds
    BY DEF Shows, ST!States, Kinds
  <1>2. e \in Events
    BY <1>1, Named
  <1>3. t = IF kind = "text"
            THEN [s EXCEPT !.text = s.next, !.next = s.next + 1, !.emit = Append(s.emit, e)]
            ELSE [s EXCEPT !.thinking = s.next, !.next = s.next + 1, !.emit = Append(s.emit, e)]
    BY <1>1, Named DEF ST!OnBlock, ST!Says, ST!States
  <1>4. /\ t.emit = Append(s.emit, e) /\ t.next = s.next + 1 /\ t.started = s.started /\ Alike(s, t)
        /\ t.text = (IF kind = "text" THEN s.next ELSE None)
        /\ t.thinking = (IF kind = "text" THEN None ELSE s.next)
    BY <1>1, <1>3 DEF ST!States, Alike
  <1>5. t \in ST!States(Seq(Events))
    <2>1. Append(s.emit, e) \in Seq(Events)
      BY <1>1, <1>2, SaysMore
    <2>2. s.next + 1 \in Nat
      BY <1>1
    <2>3. CASE kind = "text"
      BY <1>1, <1>3, <2>1, <2>2, <2>3 DEF ST!States
    <2>4. CASE kind # "text"
      BY <1>1, <1>3, <2>1, <2>2, <2>4 DEF ST!States
    <2> QED
      BY <2>3, <2>4
  <1>6. Numbered(t) /\ t.started
    <2>1. \A i \in ToolIndices : s.calls[i] # None => s.calls[i] \in Nat
      BY <1>1 DEF ST!States
    <2>2. \A i \in ToolIndices : s.calls[i] # None => s.calls[i] < s.next + 1
      BY <1>1, <2>1 DEF Shows, Numbered
    <2>3. t.calls = s.calls /\ t.args = s.args /\ t.next = s.next + 1 /\ t.started
      BY <1>4 DEF Alike, Shows
    <2> QED
      BY <2>2, <2>3 DEF Shows, Numbered
  <1>7. ToolBlocks(t) = ToolBlocks(s) /\ Open(s) = ToolBlocks(s)
    BY <1>4 DEF Open, ToolBlocks, Alike
  <1>8. Open(t) = Open(s) \cup {Block(s.next, kind)}
    BY <1>1, <1>4, <1>7, NotANumber DEF Open
  <1>9. \A b \in Open(s) : b.kind = "tool_use"
    BY <1>7 DEF ToolBlocks, Block
  <1>10. Legal(View(s, g), e, View(t, g))
    BY <1>1, <1>4, <1>8, <1>9 DEF Legal, View, Known
  <1> QED
    BY <1>1, <1>2, <1>4, <1>5, <1>6, <1>10, Says DEF Shows, Event

\* An open block gets a piece.
LEMMA Fills ==
    ASSUME NEW s, NEW x, NEW g, Shows(s, x, g), NEW i \in Nat, NEW kind \in Kinds,
           Block(i, kind) \in Open(s), NEW n \in Nat, NEW t,
           t = ST!OnBlock(s, "block_delta", i, kind, n)
    PROVE  Shows(t, x, g + n) /\ Alike(s, t) /\ t.text = s.text /\ t.thinking = s.thinking
  <1> DEFINE e == Event("block_delta", Block(i, kind), n)
  <1>1. s \in ST!States(Seq(Events)) /\ g \in Nat
    BY DEF Shows
  <1>2. e \in Events
    BY Named
  <1>3. t = [s EXCEPT !.emit = Append(s.emit, e)]
    BY <1>1, Named DEF ST!OnBlock, ST!Says, ST!States
  <1>4. /\ t.emit = Append(s.emit, e) /\ t.next = s.next /\ t.started = s.started /\ Alike(s, t)
        /\ t.text = s.text /\ t.thinking = s.thinking
    BY <1>1, <1>3 DEF ST!States, Alike
  <1>5. t \in ST!States(Seq(Events))
    <2>1. Append(s.emit, e) \in Seq(Events)
      BY <1>1, <1>2, SaysMore
    <2> QED
      BY <1>1, <1>3, <2>1 DEF ST!States
  <1>6. Numbered(t) /\ t.started
    BY <1>4 DEF Shows, Numbered, Alike
  <1>7. Open(t) = Open(s)
    BY <1>4 DEF Open, ToolBlocks, Alike
  <1>8. Legal(View(s, g), e, View(t, g + n))
    BY <1>4, <1>7 DEF Legal, View, Known
  <1>9. g + n \in Nat
    BY <1>1
  <1> QED
    BY <1>2, <1>4, <1>5, <1>6, <1>8, <1>9, Says DEF Event

LEMMA AlikeStays == \A s, t, u : Alike(s, t) /\ Alike(t, u) => Alike(s, u)
  BY DEF Alike

\* Reasoning: the text block is closed, a thinking block is open, and it gets a piece.
LEMMA ThinkShows ==
    ASSUME NEW s, NEW x, NEW g, Shows(s, x, g), NEW c \in ST!Chunks
    PROVE  /\ Shows(ST!Think(s, c), x, g + (IF c.think THEN 1 ELSE 0))
           /\ Alike(s, ST!Think(s, c))
  <1> DEFINE a == ST!StopTextBlock(s)
             b == IF a.thinking # None THEN a
                  ELSE ST!OnBlock([a EXCEPT !.thinking = a.next, !.next = a.next + 1],
                                  "block_start", a.next, "thinking", 0)
             t == ST!OnBlock(b, "block_delta", b.thinking, "thinking", 1)
  <1>1. CASE ~c.think
    BY <1>1 DEF ST!Think, Alike, Shows
  <1>2. CASE c.think
    <2>1. Shows(a, x, g) /\ Alike(s, a) /\ a.text = None
      BY StopsText
    <2>2. a \in ST!States(Seq(Events))
      BY <2>1 DEF Shows
    <2> HIDE DEF a
    <2>3. Shows(b, x, g) /\ Alike(a, b) /\ b.thinking \in Nat
      <3>1. CASE a.thinking # None
        BY <2>1, <2>2, <3>1 DEF Alike, ST!States
      <3>2. CASE a.thinking = None
        <4>1. Shows(b, x, g) /\ Alike(a, b) /\ b.thinking = a.next /\ a.next \in Nat
          BY <2>1, <3>2, Begins
        <4> QED
          BY <4>1
      <3> QED
        BY <3>1, <3>2
    <2> HIDE DEF b
    <2>4. Block(b.thinking, "thinking") \in Open(b) /\ "thinking" \in Kinds
      BY <2>3, NotANumber DEF Open, Kinds
    <2>5. Shows(t, x, g + 1) /\ Alike(b, t)
      BY <2>3, <2>4, Fills
    <2>6. ST!Think(s, c) = t
      BY <1>2 DEF ST!Think, a, b
    <2> QED
      BY <1>2, <2>1, <2>3, <2>5, <2>6, AlikeStays
  <1> QED
    BY <1>1, <1>2

\* Text: the thinking block is closed, a text block is open, and it gets a piece.
LEMMA TextShows ==
    ASSUME NEW s, NEW x, NEW g, Shows(s, x, g), NEW c \in ST!Chunks
    PROVE  /\ Shows(ST!Text(s, c), x, g + (IF c.text THEN 1 ELSE 0))
           /\ Alike(s, ST!Text(s, c))
  <1> DEFINE a == ST!StopThinkingBlock(s)
             b == IF a.text # None THEN a
                  ELSE ST!OnBlock([a EXCEPT !.text = a.next, !.next = a.next + 1],
                                  "block_start", a.next, "text", 0)
             t == ST!OnBlock(b, "block_delta", b.text, "text", 1)
  <1>1. CASE ~c.text
    BY <1>1 DEF ST!Text, Alike, Shows
  <1>2. CASE c.text
    <2>1. Shows(a, x, g) /\ Alike(s, a) /\ a.thinking = None
      BY StopsThinking
    <2>2. a \in ST!States(Seq(Events))
      BY <2>1 DEF Shows
    <2> HIDE DEF a
    <2>3. Shows(b, x, g) /\ Alike(a, b) /\ b.text \in Nat
      <3>1. CASE a.text # None
        BY <2>1, <2>2, <3>1 DEF Alike, ST!States
      <3>2. CASE a.text = None
        <4>1. Shows(b, x, g) /\ Alike(a, b) /\ b.text = a.next /\ a.next \in Nat
          BY <2>1, <3>2, Begins
        <4> QED
          BY <4>1
      <3> QED
        BY <3>1, <3>2
    <2> HIDE DEF b
    <2>4. Block(b.text, "text") \in Open(b) /\ "text" \in Kinds
      BY <2>3, NotANumber DEF Open, Kinds
    <2>5. Shows(t, x, g + 1) /\ Alike(b, t)
      BY <2>3, <2>4, Fills
    <2>6. ST!Text(s, c) = t
      BY <1>2 DEF ST!Text, a, b
    <2> QED
      BY <1>2, <2>1, <2>3, <2>5, <2>6, AlikeStays
  <1> QED
    BY <1>1, <1>2

\* A call has been given the next block.
Given(s, i) == [s EXCEPT !.calls[i] = s.next, !.next = s.next + 1]

\* A call begins with a block of its own.
LEMMA CallBegins ==
    ASSUME NEW s, NEW x, NEW g, Shows(s, x, g), s.text = None, s.thinking = None,
           NEW i \in ToolIndices, s.calls[i] = None,
           NEW t, t = ST!OnBlock(Given(s, i), "block_start", s.next, "tool_use", 0)
    PROVE  /\ Shows(t, x, g) /\ t.args = s.args /\ t.usage = s.usage
           /\ \A j \in ToolIndices : t.calls[j] = IF j = i THEN s.next ELSE s.calls[j]
           /\ s.next \in Nat
  <1> DEFINE e == Event("block_start", Block(s.next, "tool_use"), 0)
  <1>1. /\ s \in ST!States(Seq(Events)) /\ s.next \in Nat /\ "tool_use" \in Kinds
        /\ s.calls \in [ToolIndices -> Nat \cup {None}]
    BY DEF Shows, ST!States, Kinds
  <1>2. e \in Events
    BY <1>1, Named
  <1>3. t = [s EXCEPT !.calls[i] = s.next, !.next = s.next + 1, !.emit = Append(s.emit, e)]
    BY <1>1, Named DEF ST!OnBlock, ST!Says, ST!States, Given
  <1>4. /\ t.emit = Append(s.emit, e) /\ t.next = s.next + 1 /\ t.started = s.started
        /\ t.text = None /\ t.thinking = None /\ t.args = s.args /\ t.usage = s.usage
        /\ t.calls = [s.calls EXCEPT ![i] = s.next]
    BY <1>1, <1>3 DEF ST!States
  <1>5. t \in ST!States(Seq(Events))
    <2>1. Append(s.emit, e) \in Seq(Events)
      BY <1>1, <1>2, SaysMore
    <2>2. s.next + 1 \in Nat /\ [s.calls EXCEPT ![i] = s.next] \in [ToolIndices -> Nat \cup {None}]
      BY <1>1
    <2> QED
      BY <1>1, <1>3, <2>1, <2>2 DEF ST!States
  <1>6. Numbered(t) /\ t.started
    <2>1. \A j \in ToolIndices : s.calls[j] # None => s.calls[j] \in Nat /\ s.calls[j] < s.next
      BY <1>1 DEF Shows, Numbered
    <2>2. \A j \in ToolIndices : t.calls[j] = IF j = i THEN s.next ELSE s.calls[j]
      BY <1>1, <1>4
    <2>3. \A j \in ToolIndices : t.calls[j] # None => t.calls[j] < s.next + 1
      BY <1>1, <2>1, <2>2
    <2>4. \A j, k \in ToolIndices : t.calls[j] # None /\ t.calls[j] = t.calls[k] => j = k
      <3> SUFFICES ASSUME NEW j \in ToolIndices, NEW k \in ToolIndices,
                          t.calls[j] # None, t.calls[j] = t.calls[k]
                   PROVE  j = k
        OBVIOUS
      <3>1. CASE j = i \/ k = i
        BY <1>1, <2>1, <2>2, <3>1
      <3>2. CASE j # i /\ k # i
        BY <2>2, <3>2 DEF Shows, Numbered
      <3> QED
        BY <3>1, <3>2
    <2>5. \A j \in ToolIndices : t.args[j] # 0 => t.calls[j] # None
      BY <1>1, <1>4, <2>2, NotANumber DEF Shows, Numbered
    <2>6. t.started
      BY <1>4 DEF Shows
    <2> QED
      BY <1>4, <2>3, <2>4, <2>5, <2>6 DEF Numbered
  <1>7. Open(t) = Open(s) \cup {Block(s.next, "tool_use")}
    <2>1. ToolBlocks(t) = ToolBlocks(s) \cup {Block(s.next, "tool_use")}
      BY <1>1, <1>4, NotANumber DEF ToolBlocks
    <2> QED
      BY <1>4, <2>1 DEF Open
  <1>8. \A b \in Open(s) : b.kind = "tool_use"
    BY DEF Open, ToolBlocks, Block
  <1>9. Legal(View(s, g), e, View(t, g))
    BY <1>1, <1>4, <1>7, <1>8 DEF Legal, View, Known
  <1> QED
    BY <1>1, <1>2, <1>4, <1>5, <1>6, <1>9, Says DEF Shows, Event

-----------------------------------------------------------------------------
(* The arguments kept *)

\* The pieces of arguments that are kept, and those kept for some calls.
Stored(args) == {p \in ToolIndices \X Nat : p[2] \in 1 .. args[p[1]]}
StoredFor(args, S) == {p \in Stored(args) : p[1] \in S}

\* Only so many arguments are kept.
LEMMA StoredIsFinite ==
    ASSUME NEW args \in [ToolIndices -> Nat]
    PROVE  /\ IsFiniteSet(Stored(args)) /\ Cardinality(Stored(args)) \in Nat
           /\ \A S : IsFiniteSet(StoredFor(args, S)) /\ Cardinality(StoredFor(args, S)) \in Nat
  <1> DEFINE f == [i \in ToolIndices |-> {i} \X (1 .. args[i])]
             T == {f[i] : i \in ToolIndices}
  <1>1. f \in Surjection(ToolIndices, T)
    BY DEF Surjection
  <1>2. IsFiniteSet(T)
    BY <1>1, TranslationAssumption, FS_Surjection
  <1>3. \A i \in ToolIndices : IsFiniteSet(f[i])
    <2> SUFFICES ASSUME NEW i \in ToolIndices PROVE IsFiniteSet({i} \X (1 .. args[i]))
      OBVIOUS
    <2>1. 1 \in Int /\ args[i] \in Int
      OBVIOUS
    <2> QED
      BY <2>1, FS_Singleton, FS_Interval, FS_Product
  <1>4. IsFiniteSet(UNION T)
    BY <1>2, <1>3, FS_UNION
  <1>5. Stored(args) \subseteq UNION T
    BY DEF Stored
  <1>6. IsFiniteSet(Stored(args))
    BY <1>4, <1>5, FS_Subset
  <1>7. \A S : StoredFor(args, S) \in SUBSET Stored(args)
    BY DEF StoredFor
  <1> QED
    BY <1>6, <1>7, FS_Subset, FS_CardinalityType

\* One more piece of arguments is kept.
LEMMA OneMore ==
    ASSUME NEW args \in [ToolIndices -> Nat], NEW i \in ToolIndices
    PROVE  Cardinality(Stored([args EXCEPT ![i] = @ + 1])) = Cardinality(Stored(args)) + 1
  <1> DEFINE p == <<i, args[i] + 1>>
  <1>1. p \notin Stored(args)
    BY DEF Stored
  <1>2. Stored([args EXCEPT ![i] = @ + 1]) = Stored(args) \cup {p}
    BY DEF Stored
  <1> QED
    BY <1>1, <1>2, StoredIsFinite, FS_AddElement

\* The pieces of one more call.
LEMMA OneCallMore ==
    ASSUME NEW args \in [ToolIndices -> Nat], NEW S, NEW i \in ToolIndices, i \notin S
    PROVE  Cardinality(StoredFor(args, S \cup {i})) = Cardinality(StoredFor(args, S)) + args[i]
  <1> DEFINE P == {i} \X (1 .. args[i])
  <1>1. StoredFor(args, S \cup {i}) = StoredFor(args, S) \cup P /\ StoredFor(args, S) \cap P = {}
    BY DEF StoredFor, Stored
  <1>2. IsFiniteSet({i}) /\ Cardinality({i}) = 1
    BY FS_Singleton
  <1>3. IsFiniteSet(1 .. args[i]) /\ Cardinality(1 .. args[i]) = args[i]
    <2>1. 1 \in Int /\ args[i] \in Int /\ args[i] \in Nat
      OBVIOUS
    <2> QED
      BY <2>1, FS_Interval
  <1>4. IsFiniteSet(P) /\ Cardinality(P) = 1 * args[i]
    BY <1>2, <1>3, FS_Product
  <1>5. IsFiniteSet(StoredFor(args, S)) /\ Cardinality(StoredFor(args, S)) \in Nat
    BY StoredIsFinite
  <1>6. Cardinality(StoredFor(args, S) \cup P)
        = Cardinality(StoredFor(args, S)) + Cardinality(P) - Cardinality({})
    BY <1>1, <1>4, <1>5, FS_Union
  <1>7. Cardinality({}) = 0 /\ args[i] \in Nat
    BY FS_EmptySet
  <1>8. Cardinality(P) = args[i]
    BY <1>4, <1>7
  <1>9. Cardinality(StoredFor(args, S) \cup P) = Cardinality(StoredFor(args, S)) + args[i]
    <2> HIDE DEF P
    <2>1. Cardinality({}) = 0 /\ args[i] \in Nat /\ Cardinality(StoredFor(args, S)) \in Nat
      BY <1>5, <1>7
    <2> QED
      BY <1>6, <1>8, <2>1
  <1> QED
    BY <1>1, <1>9

\* A fragment of a call: the first one begins a block, arguments are kept.
LEMMA CallShows ==
    ASSUME NEW s, NEW x, NEW g, Shows(s, x, g), NEW c \in ST!Chunks,
           c.call.index # None => (c.call.first <=> s.calls[c.call.index] = None)
    PROVE  LET t == ST!Call(s, c)
           IN  /\ Shows(t, x, g) /\ t.usage = s.usage
               /\ \A i \in ToolIndices :
                     t.calls[i] # None <=> s.calls[i] # None \/ i = c.call.index
               /\ Cardinality(Stored(t.args)) =
                     Cardinality(Stored(s.args)) + (IF c.call.args THEN 1 ELSE 0)
  <1> DEFINE a == ST!StopTextBlock(ST!StopThinkingBlock(s))
             i == c.call.index
             b == IF ~c.call.first THEN s
                  ELSE ST!OnBlock([a EXCEPT !.calls[i] = a.next, !.next = a.next + 1],
                                  "block_start", a.next, "tool_use", 0)
  <1>1. /\ c.call \in {ST!NoCall} \cup [index : ToolIndices, first : BOOLEAN, args : BOOLEAN]
        /\ s \in ST!States(Seq(Events)) /\ s.args \in [ToolIndices -> Nat]
        /\ s.calls \in [ToolIndices -> Nat \cup {None}]
    BY DEF ST!Chunks, Shows, ST!States
  <1>2. Cardinality(Stored(s.args)) \in Nat
    BY <1>1, StoredIsFinite
  <1>3. CASE i = None
    <2>1. c.call.args = FALSE
      BY <1>1, <1>3, NotANumber DEF ST!NoCall
    <2>2. ST!Call(s, c) = s
      BY <1>3 DEF ST!Call
    <2> QED
      BY <1>2, <1>3, <2>1, <2>2, NotANumber
  <1>4. CASE i # None
    <2>1. i \in ToolIndices /\ c.call.args \in BOOLEAN /\ c.call.first \in BOOLEAN
      BY <1>1, <1>4 DEF ST!NoCall
    <2>2. Shows(a, x, g) /\ Alike(s, a) /\ a.text = None /\ a.thinking = None
      BY StopsThinking, StopsText, AlikeStays
    <2> HIDE DEF a
    <2>3. /\ Shows(b, x, g) /\ b.args = s.args /\ b.usage = s.usage /\ b.calls[i] # None
          /\ \A j \in ToolIndices : b.calls[j] # None <=> s.calls[j] # None \/ j = i
      <3>1. CASE c.call.first
        <4>1. a.calls = s.calls /\ a.args = s.args /\ a.usage = s.usage /\ a.calls[i] = None
          BY <1>4, <2>2, <3>1 DEF Alike
        <4>2. /\ Shows(b, x, g) /\ b.args = a.args /\ b.usage = a.usage
              /\ \A j \in ToolIndices : b.calls[j] = IF j = i THEN a.next ELSE a.calls[j]
              /\ a.next \in Nat
          <5>1. b = ST!OnBlock(Given(a, i), "block_start", a.next, "tool_use", 0)
            BY <3>1 DEF Given
          <5> HIDE DEF b
          <5> QED
            BY <2>1, <2>2, <4>1, <5>1, CallBegins
        <4>3. \A j \in ToolIndices : b.calls[j] = IF j = i THEN a.next ELSE s.calls[j]
          BY <1>1, <4>1, <4>2
        <4> QED
          BY <2>1, <4>1, <4>2, <4>3, NotANumber
      <3>2. CASE ~c.call.first
        BY <1>4, <2>1, <3>2
      <3> QED
        BY <3>1, <3>2
    <2>4. CASE ~c.call.args
      <3>1. ST!Call(s, c) = b
        BY <1>4, <2>4 DEF ST!Call, a
      <3> QED
        BY <1>2, <2>3, <2>4, <3>1
    <2>5. CASE c.call.args
      <3> DEFINE t == [b EXCEPT !.args[i] = @ + 1]
      <3>1. ST!Call(s, c) = t
        BY <1>4, <2>5 DEF ST!Call, a, ST!Buffers
      <3> HIDE DEF b
      <3>2. b \in ST!States(Seq(Events)) /\ b.args \in [ToolIndices -> Nat]
        BY <2>3 DEF Shows, ST!States
      <3>3. /\ t.args = [b.args EXCEPT ![i] = @ + 1] /\ t.calls = b.calls /\ t.next = b.next
            /\ t.text = b.text /\ t.thinking = b.thinking /\ t.emit = b.emit
            /\ t.started = b.started /\ t.usage = b.usage
        BY <3>2 DEF ST!States
      <3>4. t \in ST!States(Seq(Events))
        <4>1. [b.args EXCEPT ![i] = @ + 1] \in [ToolIndices -> Nat]
          BY <2>1, <3>2
        <4> QED
          BY <3>2, <4>1 DEF ST!States
      <3>5. Numbered(t)
        BY <2>1, <2>3, <3>2, <3>3 DEF Numbered, Shows
      <3>6. Open(t) = Open(b)
        BY <3>3 DEF Open, ToolBlocks
      <3>7. Shows(t, x, g)
        BY <2>3, <3>3, <3>4, <3>5, <3>6 DEF Shows, View
      <3>8. Cardinality(Stored(t.args)) = Cardinality(Stored(s.args)) + 1
        BY <2>1, <2>3, <3>2, <3>3, OneMore
      <3> HIDE DEF t
      <3> QED
        BY <2>3, <2>5, <3>1, <3>3, <3>7, <3>8
    <2> QED
      BY <2>1, <2>4, <2>5
  <1> QED
    BY <1>3, <1>4

-----------------------------------------------------------------------------
(* The end of an answer *)

\* The instance has its own copy of the operators of FiniteSets.
LEMMA STCounting == \A S : ST!Cardinality(S) = Cardinality(S)
  BY DEF ST!Cardinality, Cardinality

Begun(s) == {i \in ToolIndices : s.calls[i] # None}

\* An order names every call that has begun, once.
LEMMA OrdersAreComplete ==
    ASSUME NEW s, NEW order \in ST!Orders(s)
    PROVE  LET n == Cardinality(Begun(s))
           IN  /\ n \in Nat /\ order \in [1 .. n -> Begun(s)] /\ Len(order) = n
               /\ \A j, k \in 1 .. n : order[j] = order[k] => j = k
               /\ Begun(s) = {order[j] : j \in 1 .. n}
  <1> DEFINE B == Begun(s)
             n == Cardinality(B)
  <1>1. IsFiniteSet(B) /\ n \in Nat
    BY TranslationAssumption, FS_Subset, FS_CardinalityType DEF Begun
  <1>2. /\ order \in [1 .. n -> B]
        /\ \A j, k \in 1 .. n : order[j] = order[k] => j = k
    BY STCounting DEF ST!Orders, Begun
  <1>3. Len(order) = n
    BY <1>1, <1>2
  <1>4. \A i \in B : \E j \in 1 .. n : order[j] = i
    <2> SUFFICES ASSUME NEW i \in B, \A j \in 1 .. n : order[j] # i
                 PROVE  FALSE
      OBVIOUS
    <2> DEFINE T == B \ {i}
    <2>1. IsFiniteSet(T) /\ Cardinality(T) = n - 1
      BY <1>1, FS_RemoveElement
    <2>2. IsFiniteSet(1 .. n) /\ Cardinality(1 .. n) = n
      <3>1. 1 \in Int /\ n \in Int /\ n \in Nat
        BY <1>1
      <3> QED
        BY <3>1, FS_Interval
    <2>3. order \in [1 .. n -> T]
      BY <1>2
    <2>4. Cardinality(T) < Cardinality(1 .. n)
      BY <1>1, <2>1, <2>2
    <2> HIDE DEF T, n
    <2>5. \E j, k \in 1 .. n : j # k /\ order[j] = order[k]
      BY <2>1, <2>2, <2>3, <2>4, FS_PigeonHole
    <2> QED
      BY <1>2, <2>5
  <1> HIDE DEF n
  <1> QED
    BY <1>1, <1>2, <1>3, <1>4 DEF n

\* The events come in pairs.
LEMMA Pairs ==
    ASSUME NEW n \in Nat, NEW k \in 1 .. 2 * n
    PROVE  \E j \in 1 .. n :
              \/ /\ k % 2 = 1 /\ (k + 1) \div 2 = j /\ k \div 2 = j - 1
                 /\ (k - 1) \div 2 = j - 1 /\ ((k - 1) + 1) \div 2 = j - 1
              \/ /\ k % 2 # 1 /\ (k + 1) \div 2 = j /\ k \div 2 = j
                 /\ (k - 1) \div 2 = j - 1 /\ ((k - 1) + 1) \div 2 = j
  <1> DEFINE j == (k + 1) \div 2
  <1>1. j \in 1 .. n
    OBVIOUS
  <1>2. CASE k % 2 = 1
    <2>1. k \div 2 = j - 1 /\ (k - 1) \div 2 = j - 1 /\ (k - 1) + 1 = k
      BY <1>2
    <2> QED
      BY <1>1, <1>2, <2>1
  <1>3. CASE k % 2 # 1
    <2>1. k \div 2 = j /\ (k - 1) \div 2 = j - 1 /\ (k - 1) + 1 = k
      BY <1>3
    <2> QED
      BY <1>1, <1>3, <2>1
  <1> QED
    BY <1>2, <1>3

\* What goes on after events that go on goes on.
LEMMA MoreContent ==
    ASSUME NEW a \in Seq(Events), NEW b \in Seq(Events), Content(a), Content(b)
    PROVE  Content(a \o b)
  <1>1. /\ Len(a) \in Nat /\ Len(b) \in Nat /\ Len(a \o b) = Len(a) + Len(b)
        /\ \A i \in 1 .. Len(a) : (a \o b)[i] = a[i]
        /\ \A i \in Len(a) + 1 .. Len(a) + Len(b) : (a \o b)[i] = b[i - Len(a)]
    OBVIOUS
  <1> SUFFICES ASSUME NEW i \in 1 .. Len(a) + Len(b)
               PROVE  (a \o b)[i].type
                          \in {"message_start", "block_start", "block_delta", "block_stop"}
    BY <1>1 DEF Content
  <1>2. CASE i <= Len(a)
    <2>1. i \in 1 .. Len(a)
      BY <1>1, <1>2
    <2> QED
      BY <1>1, <2>1 DEF Content
  <1>3. CASE i > Len(a)
    <2>1. i \in Len(a) + 1 .. Len(a) + Len(b) /\ i - Len(a) \in 1 .. Len(b)
      BY <1>1, <1>3
    <2> QED
      BY <1>1, <2>1 DEF Content
  <1> QED
    BY <1>1, <1>2, <1>3

\* The calls' blocks are filled and closed, one after the other in any order: the client then has
\* what was kept for all of them, and no block is open.
LEMMA FillLeads ==
    ASSUME NEW s, NEW x, NEW g, Shows(s, x, g), s.text = None, s.thinking = None,
           NEW order \in ST!Orders(s)
    PROVE  LET t == ST!Fill(s, order)
           IN  /\ t \in ST!States(Seq(Events)) /\ t.started /\ t.usage = s.usage
               /\ Content(t.emit)
               /\ Path(t.emit, x, Known("open", {}, s.next, g + Cardinality(Stored(s.args))))
  <1> DEFINE n == Len(order)
             upto(j) == {order[l] : l \in 1 .. j}
             had(k) == upto((k + 1) \div 2)
             shut(k) == upto(k \div 2)
             shown(S) == {Block(s.calls[i], "tool_use") : i \in Begun(s) \ S}
             known(k) == Known("open", shown(shut(k)), s.next,
                               g + Cardinality(StoredFor(s.args, had(k))))
             event(k) == LET i == order[(k + 1) \div 2]
                         IN  IF k % 2 = 1
                             THEN Event("block_delta", Block(s.calls[i], "tool_use"), s.args[i])
                             ELSE Event("block_stop", Block(s.calls[i], "tool_use"), 0)
             more == [k \in 1 .. 2 * n |-> event(k)]
             f == [k \in 0 .. 2 * n |-> known(k)]
             t == ST!Fill(s, order)
  <1>1. /\ n \in Nat /\ order \in [1 .. n -> Begun(s)]
        /\ \A j, k \in 1 .. n : order[j] = order[k] => j = k
        /\ Begun(s) = upto(n)
    BY OrdersAreComplete
  <1>2. /\ s \in ST!States(Seq(Events)) /\ s.emit \in Seq(Events) /\ g \in Nat
        /\ s.calls \in [ToolIndices -> Nat \cup {None}] /\ s.args \in [ToolIndices -> Nat]
        /\ "tool_use" \in Kinds
    BY DEF Shows, ST!States, Kinds
  <1>3. \A i \in Begun(s) : /\ i \in ToolIndices /\ s.calls[i] \in Nat /\ s.args[i] \in Nat
                            /\ Block(s.calls[i], "tool_use") \in Blocks
    BY <1>2, Named DEF Begun
  <1>4. \A i, j \in Begun(s) :
           Block(s.calls[i], "tool_use") = Block(s.calls[j], "tool_use") => i = j
    BY DEF Shows, Numbered, Begun, Block
  <1>5. \A k \in 1 .. 2 * n : event(k) \in Events
    <2> SUFFICES ASSUME NEW k \in 1 .. 2 * n PROVE event(k) \in Events
      OBVIOUS
    <2>1. (k + 1) \div 2 \in 1 .. n
      BY <1>1
    <2>2. order[(k + 1) \div 2] \in Begun(s)
      BY <1>1, <2>1
    <2>3. 0 \in Nat
      OBVIOUS
    <2> QED
      BY <1>2, <1>3, <2>2, <2>3, Named
  <1>6. \A k \in 1 .. 2 * n : event(k).type \in {"block_delta", "block_stop"}
    BY DEF Event
  <1>7. t = [s EXCEPT !.emit = s.emit \o more]
    <2>1. \A k \in 1 .. 2 * n :
             event(k) = LET i == order[(k + 1) \div 2]
                        IN  IF k % 2 = 1
                            THEN ST!BlockEvent("block_delta", s.calls[i], "tool_use", s.args[i])
                            ELSE ST!BlockEvent("block_stop", s.calls[i], "tool_use", 0)
      BY Named
    <2> HIDE DEF event
    <2> QED
      BY <1>2, <2>1 DEF ST!Fill, ST!States
  <1>8. more \in Seq(Events) /\ Len(more) = 2 * n /\ \A k \in 1 .. 2 * n : more[k] = event(k)
    <2> HIDE DEF event, n
    <2> QED
      BY <1>1, <1>5
  <1> HIDE DEF event, more, n, t
  <1>9. \A j \in 1 .. n : /\ upto(j) = upto(j - 1) \cup {order[j]} /\ order[j] \notin upto(j - 1)
                          /\ order[j] \in Begun(s)
    <2> SUFFICES ASSUME NEW j \in 1 .. n
                 PROVE  /\ upto(j) = upto(j - 1) \cup {order[j]} /\ order[j] \notin upto(j - 1)
                        /\ order[j] \in Begun(s)
      OBVIOUS
    <2>1. \A l \in 1 .. j - 1 : l \in 1 .. n /\ l # j
      BY <1>1
    <2>2. \A l : l \in 1 .. j <=> l \in 1 .. j - 1 \/ l = j
      BY <1>1
    <2> QED
      BY <1>1, <2>1, <2>2
  <1> HIDE DEF upto
  <1>10. \A k \in 1 .. 2 * n : Legal(known(k - 1), event(k), known(k))
    <2> SUFFICES ASSUME NEW k \in 1 .. 2 * n
                 PROVE  Legal(known(k - 1), event(k), known(k))
      OBVIOUS
    <2>1. PICK j \in 1 .. n :
              \/ /\ k % 2 = 1 /\ (k + 1) \div 2 = j /\ k \div 2 = j - 1
                 /\ (k - 1) \div 2 = j - 1 /\ ((k - 1) + 1) \div 2 = j - 1
              \/ /\ k % 2 # 1 /\ (k + 1) \div 2 = j /\ k \div 2 = j
                 /\ (k - 1) \div 2 = j - 1 /\ ((k - 1) + 1) \div 2 = j
      BY <1>1, Pairs
    <2> DEFINE i == order[j]
               b == Block(s.calls[i], "tool_use")
    <2>2. /\ upto(j) = upto(j - 1) \cup {i} /\ i \notin upto(j - 1) /\ i \in Begun(s)
          /\ i \in ToolIndices /\ s.args[i] \in Nat
      BY <1>3, <1>9
    <2>3. b \in shown(upto(j - 1))
      BY <2>2
    <2>4. CASE k % 2 = 1
      <3>1. /\ shut(k) = upto(j - 1) /\ shut(k - 1) = upto(j - 1)
            /\ had(k) = upto(j) /\ had(k - 1) = upto(j - 1)
        BY <2>1, <2>4
      <3>2. event(k) = Event("block_delta", b, s.args[i])
        BY <2>1, <2>4 DEF event
      <3>3. /\ Cardinality(StoredFor(s.args, upto(j))) =
                  Cardinality(StoredFor(s.args, upto(j - 1))) + s.args[i]
            /\ Cardinality(StoredFor(s.args, upto(j - 1))) \in Nat
        <4> DEFINE u == upto(j - 1)
        <4>1. i \in ToolIndices /\ i \notin u /\ upto(j) = u \cup {i}
          BY <2>2
        <4>2. s.args \in [ToolIndices -> Nat]
          BY <1>2
        <4> HIDE DEF u, i
        <4>3. Cardinality(StoredFor(s.args, u \cup {i}))
                 = Cardinality(StoredFor(s.args, u)) + s.args[i]
          BY <4>1, <4>2, OneCallMore
        <4>4. Cardinality(StoredFor(s.args, u)) \in Nat
          BY <4>2, StoredIsFinite
        <4> QED
          BY <4>1, <4>3, <4>4 DEF u
      <3>4. g + Cardinality(StoredFor(s.args, upto(j))) =
                  (g + Cardinality(StoredFor(s.args, upto(j - 1)))) + s.args[i]
        BY <1>2, <2>2, <3>3
      <3> QED
        BY <2>2, <2>3, <3>1, <3>2, <3>4 DEF Legal, Known
    <2>5. CASE k % 2 # 1
      <3>1. /\ shut(k) = upto(j) /\ shut(k - 1) = upto(j - 1)
            /\ had(k) = upto(j) /\ had(k - 1) = upto(j)
        BY <2>1, <2>5
      <3>2. event(k) = Event("block_stop", b, 0)
        BY <2>1, <2>5 DEF event
      <3>3. shown(upto(j)) = shown(upto(j - 1)) \ {b}
        BY <1>4, <2>2
      <3> QED
        BY <2>3, <3>1, <3>2, <3>3 DEF Legal, Known
    <2> QED
      BY <2>4, <2>5
  <1>11. known(0) = View(s, g)
    <2>1. (0 + 1) \div 2 = 0 /\ 0 \div 2 = 0
      OBVIOUS
    <2>2. upto(0) = {}
      BY DEF upto
    <2>3. StoredFor(s.args, {}) = {} /\ Cardinality({}) = 0
      BY FS_EmptySet DEF StoredFor
    <2>4. shown({}) = Open(s)
      BY DEF Open, ToolBlocks, Begun
    <2>5. shut(0) = {} /\ had(0) = {}
      BY <2>1, <2>2
    <2>6. known(0) = Known("open", shown({}), s.next, g + Cardinality(StoredFor(s.args, {})))
      BY <2>5
    <2>7. g + 0 = g
      BY <1>2
    <2> HIDE DEF known, shown
    <2> QED
      BY <2>3, <2>4, <2>6, <2>7 DEF View
  <1>12. known(2 * n) = Known("open", {}, s.next, g + Cardinality(Stored(s.args)))
    <2>1. (2 * n + 1) \div 2 = n /\ (2 * n) \div 2 = n
      BY <1>1
    <2>2. shown(upto(n)) = {}
      BY <1>1
    <2>3. StoredFor(s.args, upto(n)) = Stored(s.args)
      <3>1. \A p \in Stored(s.args) : p[1] \in Begun(s)
        <4> SUFFICES ASSUME NEW p \in Stored(s.args) PROVE p[1] \in Begun(s)
          OBVIOUS
        <4>1. p[1] \in ToolIndices /\ p[2] \in 1 .. s.args[p[1]]
          BY DEF Stored
        <4>2. s.args[p[1]] # 0
          BY <1>2, <4>1
        <4> QED
          BY <4>1, <4>2 DEF Shows, Numbered, Begun
      <3> QED
        BY <1>1, <3>1 DEF StoredFor
    <2> QED
      BY <2>1, <2>2, <2>3
  <1>13. Path(more, View(s, g), Known("open", {}, s.next, g + Cardinality(Stored(s.args))))
    <2>1. 0 \in 0 .. 2 * n /\ 2 * n \in 0 .. 2 * n
          /\ \A k \in 1 .. 2 * n : k - 1 \in 0 .. 2 * n /\ k \in 0 .. 2 * n
      BY <1>1
    <2> HIDE DEF known
    <2>2. f[0] = known(0) /\ f[2 * n] = known(2 * n)
          /\ \A k \in 1 .. 2 * n : f[k - 1] = known(k - 1) /\ f[k] = known(k)
      BY <2>1
    <2> HIDE DEF f
    <2> QED
      BY <1>8, <1>10, <1>11, <1>12, <2>2 DEF Path
  <1>14. /\ s.emit \o more \in Seq(Events)
         /\ Path(s.emit \o more, x, Known("open", {}, s.next, g + Cardinality(Stored(s.args))))
    BY <1>2, <1>8, <1>13, PathsJoined DEF Shows
  <1>15. /\ t \in ST!States(Seq(Events)) /\ t.started /\ t.usage = s.usage
         /\ t.emit = s.emit \o more
    BY <1>2, <1>7, <1>14 DEF ST!States, Shows
  <1>16. Content(s.emit \o more)
    <2>1. Content(more)
      BY <1>6, <1>8 DEF Content
    <2> QED
      BY <1>2, <1>8, <2>1, MoreContent DEF Shows
  <1> QED
    BY <1>14, <1>15, <1>16 DEF t

-----------------------------------------------------------------------------
(* The stages of a stream: what upstream u has sent, the event c of it whose  *)
(* second half is to come, the state s of the translator, the events o still  *)
(* to be written, and the client x                                            *)

Sent == [up |-> stUp, called |-> called, given |-> given, billed |-> billed]

\* The calls and the pieces the translator has had; that its answer is over, and usage has come.
Unsaid(c) == IF c = None THEN 0 ELSE ST!Pieces(c)
Heard(u, c) == u.called \ (IF c # None /\ c.call.first THEN {c.call.index} ELSE {})
Over(u, c) == u.up # "open" /\ ~(c # None /\ c.finish)
Paid(u, c) == u.billed /\ ~(c # None /\ c.usage)

\* An event is one the upstream may have sent.
Sensible(u, c) ==
    c # None =>
        /\ c \in ST!Chunks
        /\ c.call.index # None => c.call.index \in u.called
        /\ c.usage => u.billed
        /\ c.finish => u.up = "finished"
        /\ c.choices <=> ~Over(u, c)
        /\ ~c.choices => ~c.think /\ ~c.text /\ ~c.finish /\ c.call = ST!NoCall

Nothing == Known("before", {}, 0, 0)
Endless(events) == \A i \in 1 .. Len(events) : events[i].type # "done"

Silent(u, c, s, o, x) ==
    /\ ~Over(u, c) /\ s = None /\ o = <<>> /\ x = Nothing
    /\ Heard(u, c) = {} /\ Unsaid(c) = u.given /\ ~Paid(u, c)

Speaking(u, c, s, o, x) ==
    /\ ~Over(u, c) /\ s \in ST!States({<<>>}) /\ s.started /\ Numbered(s)
    /\ Begun(s) = Heard(u, c) /\ s.usage = Paid(u, c)
    /\ o \in Seq(Events) /\ Content(o) /\ x.phase \in {"before", "open"}
    /\ \E g \in Nat : /\ Path(o, x, View(s, g))
                      /\ g + Cardinality(Stored(s.args)) + Unsaid(c) = u.given

Ended(u, c, s, o, x) ==
    /\ Over(u, c) /\ u.up = "finished" /\ s \in ST!States({<<>>}) /\ s.started
    /\ s.usage = Paid(u, c)
    /\ o \in Seq(Events) /\ Endless(o)
    /\ \E m : Path(o, x, Known("ended", {}, m, u.given))

Closed(u, c, s, o, x) ==
    /\ u.up = "done" /\ c = None /\ s \in ST!States({<<>>}) /\ s.usage = u.billed
    /\ \/ o = <<Event("done", None, 0)>> /\ x.phase = "ended" /\ x.got = u.given
       \/ o = <<>> /\ x.phase = "done"

Stage(u, c, s, o, x) ==
    /\ u.given \in Nat /\ u.billed \in BOOLEAN /\ Sensible(u, c)
    /\ \/ Silent(u, c, s, o, x) \/ Speaking(u, c, s, o, x)
       \/ Ended(u, c, s, o, x) \/ Closed(u, c, s, o, x)

\* A stream whose handler has returned, and one whose state was dropped.
Returned ==
    /\ stUp = "closed"
    /\ stOut \in {<<>>, <<Event("done", None, 0)>>} /\ (stOut # <<>> => phase # "done")
    /\ phase = "ended" => got = given
    /\ pending = None => usage = billed

Dropped == phase = "ended" => got = given /\ stUp # "open"

TranslationInv ==
    /\ got \in Nat
    /\ dropped => Dropped
    /\ ~dropped /\ stResult # "running" => stResult = "returned" /\ Returned
    /\ ~dropped /\ stResult = "running" =>
          /\ Stage(Sent, pending, session, stOut, Client)
          /\ finished <=> stUp = "done"

\* The state an event finds: that of a new stream, or the one that was kept.
Found(k, x, g) ==
    /\ k \in ST!States({<<>>})
    /\ \/ k = ST!Fresh /\ x = Nothing /\ g = 0
       \/ k.started /\ Numbered(k) /\ g \in Nat /\ x = View(k, g)

\* A new state shows an empty message.
LEMMA FreshState ==
    /\ ST!Fresh \in ST!States({<<>>}) /\ Numbered(ST!Fresh) /\ ~ST!Fresh.started
    /\ ~ST!Fresh.usage /\ Begun(ST!Fresh) = {} /\ Cardinality(Stored(ST!Fresh.args)) = 0
    /\ View(ST!Fresh, 0) = Known("open", {}, 0, 0)
  <1> DEFINE k == ST!Fresh
  <1>1. /\ k.started = FALSE /\ k.next = 0 /\ k.text = None /\ k.thinking = None /\ k.emit = <<>>
        /\ k.usage = FALSE
        /\ k.calls = [i \in ToolIndices |-> None] /\ k.args = [i \in ToolIndices |-> 0]
    BY DEF ST!Fresh
  <1>2. k \in ST!States({<<>>})
    BY DEF ST!Fresh, ST!States
  <1> HIDE DEF k
  <1>3. Numbered(k)
    BY <1>1 DEF Numbered
  <1>4. Begun(k) = {} /\ ToolBlocks(k) = {}
    BY <1>1 DEF Begun, ToolBlocks
  <1>5. Stored(k.args) = {}
    BY <1>1 DEF Stored
  <1>6. View(k, 0) = Known("open", {}, 0, 0)
    BY <1>1, <1>4 DEF View, Open
  <1> QED
    BY <1>1, <1>2, <1>3, <1>4, <1>5, <1>6, FS_EmptySet DEF k

\* A message is begun where none has, and otherwise goes on from what the kept state shows.
LEMMA StartsThere ==
    ASSUME NEW k, NEW x, NEW g, Found(k, x, g), NEW c \in ST!Chunks
    PROVE  LET s == ST!Starts(ST!Merge(k, c))
           IN  /\ Shows(s, x, g) /\ s.calls = k.calls /\ s.args = k.args
               /\ s.usage = (k.usage \/ c.usage)
  <1> DEFINE m == ST!Merge(k, c)
             s == ST!Starts(m)
             e == Event("message_start", None, 0)
  <1>1. /\ k \in ST!States({<<>>}) /\ k.emit = <<>> /\ k.usage \in BOOLEAN /\ c.usage \in BOOLEAN
        /\ k.started \in BOOLEAN
    BY DEF Found, ST!States, ST!Chunks
  <1>2. m = [k EXCEPT !.usage = k.usage \/ c.usage]
    BY <1>1 DEF ST!Merge, ST!States
  <1>3. /\ m \in ST!States({<<>>}) /\ m.emit = <<>> /\ m.started = k.started /\ m.next = k.next
        /\ m.text = k.text /\ m.thinking = k.thinking /\ m.calls = k.calls /\ m.args = k.args
        /\ m.usage = (k.usage \/ c.usage)
    <2>1. (k.usage \/ c.usage) \in BOOLEAN
      OBVIOUS
    <2> QED
      BY <1>1, <1>2, <2>1 DEF ST!States
  <1> HIDE DEF m
  <1>4. Open(m) = Open(k) /\ View(m, g) = View(k, g)
    BY <1>3 DEF Open, View, ToolBlocks
  <1>5. <<>> \in Seq(Events) /\ Content(<<>>)
    BY DEF Content
  <1>6. m \in ST!States(Seq(Events))
    BY <1>3, <1>5 DEF ST!States
  <1>7. CASE k.started
    <2>1. s = m
      BY <1>3, <1>7 DEF ST!Starts
    <2>2. g \in Nat /\ Numbered(k) /\ x = View(k, g)
      BY <1>7, FreshState DEF Found
    <2>3. Numbered(m)
      BY <1>3, <2>2 DEF Numbered
    <2>4. Shows(m, x, g)
      BY <1>3, <1>4, <1>5, <1>6, <1>7, <2>2, <2>3, Here DEF Shows
    <2> QED
      BY <1>3, <2>1, <2>4 DEF m
  <1>8. CASE ~k.started
    <2>1. k = ST!Fresh /\ x = Nothing /\ g = 0
      BY <1>8 DEF Found
    <2>2. s = [m EXCEPT !.started = TRUE, !.emit = <<e>>]
      <3>1. ST!MessageEvent("message_start") = e
        BY Named
      <3>2. s = [[m EXCEPT !.started = TRUE] EXCEPT !.emit = Append(@, e)]
        BY <1>3, <1>8, <3>1 DEF ST!Starts, ST!OnMessage, ST!Says
      <3>3. Append(<<>>, e) = <<e>>
        OBVIOUS
      <3> QED
        BY <1>3, <3>2, <3>3 DEF ST!States
    <2>3. e \in Events
      BY DEF Event, Events
    <2>4. <<e>> \in Seq(Events) /\ Append(<<>>, e) = <<e>> /\ Len(<<e>>) = 1 /\ <<e>>[1] = e
      BY <2>3
    <2>5. /\ s \in ST!States(Seq(Events)) /\ s.started /\ s.emit = <<e>> /\ s.next = m.next
          /\ s.text = m.text /\ s.thinking = m.thinking /\ s.calls = m.calls /\ s.args = m.args
          /\ s.usage = m.usage
      BY <1>6, <2>2, <2>4 DEF ST!States
    <2> HIDE DEF s
    <2>6. Numbered(s)
      BY <1>3, <2>1, <2>5, FreshState DEF Numbered
    <2>7. View(s, 0) = Known("open", {}, 0, 0)
      <3>1. Open(s) = Open(k)
        BY <1>3, <2>5 DEF Open, ToolBlocks
      <3> QED
        BY <1>3, <2>1, <2>5, <3>1, FreshState DEF View
    <2>8. Legal(Nothing, e, View(s, 0))
      BY <2>7 DEF Legal, Nothing, Known
    <2>9. Path(s.emit, x, View(s, g))
      <3>1. Append(<<>>, e) \in Seq(Events) /\ Path(Append(<<>>, e), Nothing, View(s, 0))
        BY <1>5, <2>3, <2>8, Here, Onward
      <3> QED
        BY <2>1, <2>4, <2>5, <3>1
    <2>10. Content(s.emit)
      <3>1. e.type = "message_start"
        BY DEF Event
      <3> QED
        BY <2>4, <2>5, <3>1 DEF Content
    <2>11. g \in Nat
      BY <2>1
    <2>12. Shows(s, x, g)
      BY <2>5, <2>6, <2>9, <2>10, <2>11 DEF Shows
    <2> QED
      BY <1>3, <2>5, <2>12 DEF s, m
  <1> QED
    BY <1>1, <1>7, <1>8

\* The pieces of an event.
LEMMA PiecesOfEvents ==
    \A c \in ST!Chunks :
        /\ ST!Pieces(c) = (IF c.think THEN 1 ELSE 0) + (IF c.text THEN 1 ELSE 0)
                          + (IF c.call.args THEN 1 ELSE 0)
        /\ ST!Pieces(c) \in Nat
  <1> SUFFICES ASSUME NEW c \in ST!Chunks
               PROVE  /\ ST!Pieces(c) = (IF c.think THEN 1 ELSE 0) + (IF c.text THEN 1 ELSE 0)
                                        + (IF c.call.args THEN 1 ELSE 0)
                      /\ ST!Pieces(c) \in Nat
    OBVIOUS
  <1>1. \A b : Cardinality({k \in {1} : b}) = IF b THEN 1 ELSE 0
    <2> SUFFICES ASSUME NEW b PROVE Cardinality({k \in {1} : b}) = IF b THEN 1 ELSE 0
      OBVIOUS
    <2>1. Cardinality({1}) = 1 /\ Cardinality({}) = 0
      BY FS_Singleton, FS_EmptySet
    <2>2. CASE b
      <3>1. {k \in {1} : b} = {1}
        BY <2>2
      <3> QED
        BY <2>1, <2>2, <3>1
    <2>3. CASE ~b
      <3>1. {k \in {1} : b} = {}
        BY <2>3
      <3> QED
        BY <2>1, <2>3, <3>1
    <2> QED
      BY <2>2, <2>3
  <1>2. \A b : ST!Cardinality({k \in {1} : b}) = IF b THEN 1 ELSE 0
    BY <1>1, STCounting
  <1> DEFINE P(b) == ST!Cardinality({k \in {1} : b})
  <1>3. ST!Pieces(c) = P(c.think) + P(c.text) + P(c.call.args)
    BY DEF ST!Pieces
  <1>4. \A b : P(b) = IF b THEN 1 ELSE 0
    BY <1>2
  <1> HIDE DEF P
  <1>5. /\ P(c.think) = (IF c.think THEN 1 ELSE 0) /\ P(c.text) = (IF c.text THEN 1 ELSE 0)
        /\ P(c.call.args) = (IF c.call.args THEN 1 ELSE 0)
    BY <1>4
  <1> QED
    BY <1>3, <1>5

\* What the translator makes of an event: the client gets its text and reasoning, and what is
\* kept for the calls grows by its arguments.
Body(k, c) == LET s == ST!Starts(ST!Merge(k, c))
              IN  ST!Call(ST!Text(ST!Think(s, c), c), c)

LEMMA BodyShows ==
    ASSUME NEW k, NEW x, NEW g, Found(k, x, g), NEW c \in ST!Chunks,
           c.call.index # None => (c.call.first <=> k.calls[c.call.index] = None)
    PROVE  /\ Body(k, c).usage = (k.usage \/ c.usage)
           /\ \A i \in ToolIndices :
                 Body(k, c).calls[i] # None <=> k.calls[i] # None \/ i = c.call.index
           /\ \E h \in Nat :
                 /\ Shows(Body(k, c), x, h)
                 /\ h + Cardinality(Stored(Body(k, c).args)) =
                       g + Cardinality(Stored(k.args)) + ST!Pieces(c)
  <1> DEFINE s == ST!Starts(ST!Merge(k, c))
             th == ST!Think(s, c)
             tx == ST!Text(th, c)
             b == ST!Call(tx, c)
             h1 == g + (IF c.think THEN 1 ELSE 0)
             h2 == h1 + (IF c.text THEN 1 ELSE 0)
  <1>1. Shows(s, x, g) /\ s.calls = k.calls /\ s.args = k.args /\ s.usage = (k.usage \/ c.usage)
    BY StartsThere
  <1> HIDE DEF s
  <1>2. Shows(th, x, h1) /\ Alike(s, th)
    BY <1>1, ThinkShows
  <1> HIDE DEF th, h1
  <1>3. Shows(tx, x, h2) /\ Alike(th, tx)
    BY <1>2, TextShows
  <1>4. h2 \in Nat
    BY <1>3 DEF Shows
  <1> HIDE DEF tx, h2
  <1>5. tx.calls = k.calls /\ tx.args = k.args /\ tx.usage = (k.usage \/ c.usage)
    BY <1>1, <1>2, <1>3 DEF Alike
  <1>6. c.call.index # None => (c.call.first <=> tx.calls[c.call.index] = None)
    BY <1>5
  <1>7. /\ Shows(b, x, h2) /\ b.usage = tx.usage
        /\ \A i \in ToolIndices : b.calls[i] # None <=> tx.calls[i] # None \/ i = c.call.index
        /\ Cardinality(Stored(b.args)) =
              Cardinality(Stored(tx.args)) + (IF c.call.args THEN 1 ELSE 0)
    BY <1>3, <1>6, CallShows
  <1> HIDE DEF b
  <1>8. h2 + Cardinality(Stored(b.args)) = g + Cardinality(Stored(k.args)) + ST!Pieces(c)
    <2>1. ST!Pieces(c) = (IF c.think THEN 1 ELSE 0) + (IF c.text THEN 1 ELSE 0)
                         + (IF c.call.args THEN 1 ELSE 0)
      BY PiecesOfEvents
    <2>2. Cardinality(Stored(k.args)) \in Nat
      <3>1. k.args \in [ToolIndices -> Nat]
        BY DEF Found, ST!States
      <3> QED
        BY <3>1, StoredIsFinite
    <2>3. g \in Nat
      BY <1>1 DEF Shows
    <2> QED
      BY <1>5, <1>7, <2>1, <2>2, <2>3 DEF h1, h2
  <1>9. Body(k, c) = b
    BY DEF Body, b, tx, th, s
  <1> QED
    BY <1>4, <1>5, <1>7, <1>8, <1>9

\* An answer is finished: everything kept is said, every block is closed, the message ends.
LEMMA FinishLeads ==
    ASSUME NEW s, NEW x, NEW g, Shows(s, x, g), NEW order \in ST!Orders(s)
    PROVE  LET t == ST!Finishes(s, order)
           IN  /\ t \in ST!States(Seq(Events)) /\ t.started /\ t.usage = s.usage
               /\ Endless(t.emit)
               /\ \E m : Path(t.emit, x, Known("ended", {}, m, g + Cardinality(Stored(s.args))))
  <1> DEFINE a == ST!StopThinkingBlock(s)
             b == ST!StopTextBlock(a)
             f == ST!Fill(b, order)
             d == Event("message_delta", None, 0)
             e == Event("message_stop", None, 0)
             t == ST!Finishes(s, order)
             n == b.next
             h == g + Cardinality(Stored(s.args))
  <1>1. Shows(a, x, g) /\ Alike(s, a) /\ a.thinking = None
    BY StopsThinking
  <1> HIDE DEF a
  <1>2. Shows(b, x, g) /\ Alike(s, b) /\ b.text = None /\ b.thinking = None
    BY <1>1, StopsText, AlikeStays
  <1> HIDE DEF b
  <1>3. order \in ST!Orders(b)
    BY <1>2 DEF ST!Orders, Alike
  <1>4. /\ f \in ST!States(Seq(Events)) /\ f.started /\ f.usage = s.usage /\ Content(f.emit)
        /\ Path(f.emit, x, Known("open", {}, n, h))
    BY <1>2, <1>3, FillLeads DEF Alike
  <1> HIDE DEF f, n, h
  <1>5. d \in Events /\ e \in Events /\ d.type = "message_delta" /\ e.type = "message_stop"
    BY DEF Event, Events
  <1>6. f.emit \in Seq(Events)
    BY <1>4 DEF ST!States
  <1>7. Legal(Known("open", {}, n, h), d, Known("closing", {}, n, h))
    BY DEF Legal, Known
  <1>8. Legal(Known("closing", {}, n, h), e, Known("ended", {}, n, h))
    BY DEF Legal, Known
  <1> DEFINE p == Append(f.emit, d)
             q == Append(p, e)
  <1>9. p \in Seq(Events) /\ Path(p, x, Known("closing", {}, n, h))
    BY <1>4, <1>5, <1>6, <1>7, Onward
  <1>10. q \in Seq(Events) /\ Path(q, x, Known("ended", {}, n, h))
    <2> HIDE DEF p
    <2> QED
      BY <1>5, <1>8, <1>9, Onward
  <1>11. Endless(q)
    <2>1. /\ Len(f.emit) \in Nat /\ Len(q) = Len(f.emit) + 2
          /\ q[Len(f.emit) + 1] = d /\ q[Len(f.emit) + 2] = e
          /\ \A i \in 1 .. Len(f.emit) : q[i] = f.emit[i]
      <3> HIDE DEF d, e
      <3>1. d \in Events /\ e \in Events
        BY <1>5
      <3> QED
        BY <1>6, <3>1
    <2> SUFFICES ASSUME NEW i \in 1 .. Len(q) PROVE q[i].type # "done"
      BY DEF Endless
    <2> HIDE DEF p, q
    <2>2. CASE i \in 1 .. Len(f.emit)
      BY <1>4, <2>1, <2>2 DEF Content
    <2>3. CASE i = Len(f.emit) + 1 \/ i = Len(f.emit) + 2
      BY <1>5, <2>1, <2>3
    <2> QED
      BY <2>1, <2>2, <2>3
  <1>12. t = [f EXCEPT !.emit = q]
    <2>1. ST!MessageEvent("message_delta") = d /\ ST!MessageEvent("message_stop") = e
      BY Named
    <2>2. t = [[f EXCEPT !.emit = Append(f.emit, d)] EXCEPT !.emit = Append(@, e)]
      BY <1>4, <2>1 DEF ST!Finishes, ST!OnMessage, ST!Says, f, b, a
    <2> QED
      BY <1>4, <2>2 DEF ST!States
  <1>13. t \in ST!States(Seq(Events)) /\ t.started /\ t.usage = s.usage /\ t.emit = q
    <2> HIDE DEF p, q, t
    <2> QED
      BY <1>4, <1>10, <1>12 DEF ST!States
  <1> HIDE DEF t, p, q
  <1>14. Path(t.emit, x, Known("ended", {}, n, g + Cardinality(Stored(s.args))))
    BY <1>10, <1>13 DEF h
  <1> QED
    BY <1>11, <1>13, <1>14 DEF t

\* What the fields of an event may be.
LEMMA EventFields ==
    \A c \in ST!Chunks :
        /\ c.think \in BOOLEAN /\ c.text \in BOOLEAN /\ c.finish \in BOOLEAN
        /\ c.usage \in BOOLEAN /\ c.choices \in BOOLEAN
        /\ c.call.first \in BOOLEAN /\ c.call.args \in BOOLEAN
        /\ c.call.index \in ToolIndices \cup {None}
        /\ c.call.index = None => c.call = ST!NoCall
        /\ ~ST!NoCall.first /\ ~ST!NoCall.args /\ ST!NoCall.index = None
        /\ c # None
  <1> SUFFICES ASSUME NEW c \in ST!Chunks
               PROVE  /\ c.think \in BOOLEAN /\ c.text \in BOOLEAN /\ c.finish \in BOOLEAN
                      /\ c.usage \in BOOLEAN /\ c.choices \in BOOLEAN
                      /\ c.call.first \in BOOLEAN /\ c.call.args \in BOOLEAN
                      /\ c.call.index \in ToolIndices \cup {None}
                      /\ c.call.index = None => c.call = ST!NoCall
                      /\ ~ST!NoCall.first /\ ~ST!NoCall.args /\ ST!NoCall.index = None
                      /\ c # None
    OBVIOUS
  <1>1. c # None
    BY StatesAssumption
  <1>2. ST!NoCall.first = FALSE /\ ST!NoCall.args = FALSE /\ ST!NoCall.index = None
    BY DEF ST!NoCall
  <1>3. /\ c.think \in BOOLEAN /\ c.text \in BOOLEAN /\ c.finish \in BOOLEAN
        /\ c.usage \in BOOLEAN /\ c.choices \in BOOLEAN
        /\ c.call \in {ST!NoCall} \cup [index : ToolIndices, first : BOOLEAN, args : BOOLEAN]
    BY DEF ST!Chunks
  <1>4. CASE c.call = ST!NoCall
    BY <1>1, <1>2, <1>3, <1>4
  <1>5. CASE c.call \in [index : ToolIndices, first : BOOLEAN, args : BOOLEAN]
    BY <1>1, <1>2, <1>3, <1>5, NotANumber
  <1> QED
    BY <1>3, <1>4, <1>5

\* A state put away shows what it showed.
LEMMA PutAway ==
    ASSUME NEW s \in ST!States(Seq(Events))
    PROVE  LET t == [s EXCEPT !.emit = <<>>]
           IN  /\ t \in ST!States({<<>>}) /\ t.started = s.started /\ t.usage = s.usage
               /\ t.calls = s.calls /\ t.args = s.args /\ Begun(t) = Begun(s)
               /\ Numbered(s) => Numbered(t)
               /\ \A g : View(t, g) = View(s, g)
  <1> DEFINE t == [s EXCEPT !.emit = <<>>]
  <1>1. /\ t \in ST!States({<<>>}) /\ t.started = s.started /\ t.usage = s.usage
        /\ t.calls = s.calls /\ t.args = s.args /\ t.next = s.next /\ t.text = s.text
        /\ t.thinking = s.thinking
    BY DEF ST!States
  <1> HIDE DEF t
  <1>2. Begun(t) = Begun(s) /\ Open(t) = Open(s) /\ (Numbered(s) => Numbered(t))
    BY <1>1 DEF Begun, Open, ToolBlocks, Numbered
  <1>3. \A g : View(t, g) = View(s, g)
    BY <1>1, <1>2 DEF View
  <1> QED
    BY <1>1, <1>2, <1>3 DEF t

\* The calls begun once an event is translated.
LEMMA HeardNow ==
    ASSUME NEW u, NEW c \in ST!Chunks, Sensible(u, c)
    PROVE  /\ Heard(u, None) = u.called
           /\ u.called = Heard(u, c) \cup ({c.call.index} \ {None})
           /\ c.call.index # None => (c.call.first <=> c.call.index \notin Heard(u, c))
  <1>1. /\ c.call.first \in BOOLEAN /\ c # None
        /\ c.call.index = None => ~c.call.first
    BY EventFields
  <1>2. c.call.index # None => c.call.index \in u.called
    BY <1>1 DEF Sensible
  <1> QED
    BY <1>1, <1>2 DEF Heard

\* An event is translated.
LEMMA TranslatesOn ==
    ASSUME NEW u, NEW c \in ST!Chunks, NEW x, NEW crowded \in BOOLEAN,
           Stage(u, c, session, stOut, x), stOut = <<>>,
           ST!Translate(c, crowded), ST!Kept(crowded) = session
    PROVE  Stage(u, None, session', stOut', x)
  <1> DEFINE k == IF session = None THEN ST!Fresh ELSE session
  <1>1. c # None /\ u.given \in Nat /\ u.billed \in BOOLEAN /\ Sensible(u, c) /\ Unsaid(None) = 0
    BY EventFields DEF Stage, Unsaid
  <1>2. Sensible(u, None) /\ Paid(u, None) = u.billed /\ (Over(u, None) <=> u.up # "open")
    BY <1>1 DEF Sensible, Paid, Over
  <1>3. ~Closed(u, c, session, stOut, x)
    BY <1>1 DEF Closed
  <1>4. ASSUME Silent(u, c, session, stOut, x) \/ Speaking(u, c, session, stOut, x)
        PROVE  Stage(u, None, session', stOut', x)
    <2>1. /\ ~Over(u, c) /\ c.choices /\ x.phase \in {"before", "open"}
          /\ \E g \in Nat : /\ Found(k, x, g) /\ Begun(k) = Heard(u, c) /\ k.usage = Paid(u, c)
                            /\ g + Cardinality(Stored(k.args)) + Unsaid(c) = u.given
      <3>1. CASE Silent(u, c, session, stOut, x)
        <4>1. k = ST!Fresh /\ x = Nothing /\ x.phase = "before" /\ ~Paid(u, c)
          BY <3>1 DEF Silent, Nothing, Known
        <4>2. Unsaid(c) \in Nat /\ 0 + 0 + Unsaid(c) = Unsaid(c)
          BY <1>1, <3>1 DEF Silent
        <4>3. /\ Found(k, x, 0) /\ Begun(k) = Heard(u, c) /\ k.usage = Paid(u, c)
              /\ 0 + Cardinality(Stored(k.args)) + Unsaid(c) = u.given
          <5>1. k.usage \in BOOLEAN /\ Paid(u, c) \in BOOLEAN
            BY <4>1, FreshState DEF ST!States, Paid
          <5> QED
            BY <3>1, <4>1, <4>2, <5>1, FreshState DEF Silent, Found
        <4> QED
          BY <1>1, <3>1, <4>1, <4>3 DEF Silent, Sensible
      <3>2. CASE Speaking(u, c, session, stOut, x)
        <4>1. session # None /\ k = session
          BY <3>2, StatesAssumption DEF Speaking
        <4>2. PICK g \in Nat : /\ Path(stOut, x, View(session, g))
                               /\ g + Cardinality(Stored(session.args)) + Unsaid(c) = u.given
          BY <3>2 DEF Speaking
        <4>3. x = View(session, g)
          BY <4>2, Nowhere
        <4>4. Found(k, x, g)
          BY <3>2, <4>1, <4>3 DEF Speaking, Found
        <4> QED
          BY <1>1, <3>2, <4>1, <4>2, <4>4 DEF Speaking, Sensible
      <3> QED
        BY <1>4, <3>1, <3>2
    <2> HIDE DEF k
    <2>2. PICK g \in Nat : /\ Found(k, x, g) /\ Begun(k) = Heard(u, c) /\ k.usage = Paid(u, c)
                           /\ g + Cardinality(Stored(k.args)) + Unsaid(c) = u.given
      BY <2>1
    <2> DEFINE b == Body(k, c)
    <2>3. c.call.index # None => (c.call.first <=> k.calls[c.call.index] = None)
      BY <1>1, <2>2, HeardNow, EventFields DEF Begun
    <2>4. /\ b.usage = (k.usage \/ c.usage)
          /\ \A i \in ToolIndices : b.calls[i] # None <=> k.calls[i] # None \/ i = c.call.index
          /\ \E h \in Nat : /\ Shows(b, x, h)
                            /\ h + Cardinality(Stored(b.args)) =
                                  g + Cardinality(Stored(k.args)) + ST!Pieces(c)
      BY <2>2, <2>3, BodyShows
    <2>5. PICK order \in ST!Orders(b) :
             /\ session' = [(IF c.finish THEN ST!Finishes(b, order) ELSE b) EXCEPT !.emit = <<>>]
             /\ stOut' = (IF c.finish THEN ST!Finishes(b, order) ELSE b).emit
      BY <2>1 DEF ST!Translate, Body, k
    <2> HIDE DEF b
    <2>6. PICK h \in Nat : Shows(b, x, h) /\ h + Cardinality(Stored(b.args)) = u.given
      BY <1>1, <2>2, <2>4 DEF Unsaid
    <2>7. b \in ST!States(Seq(Events)) /\ b.started /\ Numbered(b) /\ b.usage = u.billed
      <3>1. Paid(u, c) = (u.billed /\ ~c.usage) /\ (c.usage => u.billed) /\ c.usage \in BOOLEAN
        BY <1>1, EventFields DEF Paid, Sensible
      <3> QED
        BY <1>1, <2>2, <2>4, <2>6, <3>1 DEF Shows
    <2>8. Begun(b) = Heard(u, None)
      <3>1. /\ u.called = Heard(u, c) \cup ({c.call.index} \ {None}) /\ Heard(u, None) = u.called
            /\ c.call.index \in ToolIndices \cup {None}
        BY <1>1, HeardNow, EventFields
      <3> QED
        BY <2>2, <2>4, <3>1, NotANumber DEF Begun
    <2>9. CASE ~c.finish
      <3>1. session' = [b EXCEPT !.emit = <<>>] /\ stOut' = b.emit
        BY <2>5, <2>9
      <3>2. /\ session' \in ST!States({<<>>}) /\ session'.started /\ Numbered(session')
            /\ session'.usage = b.usage /\ session'.args = b.args /\ Begun(session') = Begun(b)
            /\ \A j : View(session', j) = View(b, j)
        BY <2>7, <3>1, PutAway
      <3>3. /\ stOut' \in Seq(Events) /\ Content(stOut') /\ Path(stOut', x, View(session', h))
            /\ h + Cardinality(Stored(session'.args)) + Unsaid(None) = u.given
        <4>1. stOut' \in Seq(Events) /\ Content(stOut') /\ Path(stOut', x, View(b, h))
          BY <2>6, <3>1 DEF Shows, ST!States
        <4>2. View(session', h) = View(b, h) /\ session'.args = b.args
          BY <3>2
        <4>3. h + Cardinality(Stored(b.args)) + Unsaid(None) = u.given
          BY <1>1, <2>6
        <4> QED
          BY <4>1, <4>2, <4>3
      <3>4. ~Over(u, None)
        BY <2>1, <2>9 DEF Over
      <3>5. Speaking(u, None, session', stOut', x)
        BY <1>2, <2>1, <2>7, <2>8, <3>2, <3>3, <3>4 DEF Speaking
      <3> QED
        BY <1>1, <1>2, <3>5 DEF Stage
    <2>10. CASE c.finish
      <3> DEFINE t == ST!Finishes(b, order)
      <3>1. session' = [t EXCEPT !.emit = <<>>] /\ stOut' = t.emit
        BY <2>5, <2>10
      <3>2. /\ t \in ST!States(Seq(Events)) /\ t.started /\ t.usage = b.usage /\ Endless(t.emit)
            /\ \E m : Path(t.emit, x, Known("ended", {}, m, h + Cardinality(Stored(b.args))))
        BY <2>6, FinishLeads
      <3> HIDE DEF t
      <3>3. session' \in ST!States({<<>>}) /\ session'.started /\ session'.usage = t.usage
        BY <3>1, <3>2, PutAway
      <3>4. /\ stOut' \in Seq(Events) /\ Endless(stOut')
            /\ \E m : Path(stOut', x, Known("ended", {}, m, u.given))
        BY <2>6, <3>1, <3>2 DEF ST!States
      <3>5. u.up = "finished"
        BY <1>1, <2>10 DEF Sensible
      <3>6. Ended(u, None, session', stOut', x)
        BY <1>2, <2>7, <3>2, <3>3, <3>4, <3>5 DEF Ended
      <3> QED
        BY <1>1, <1>2, <3>6 DEF Stage
    <2> QED
      BY <2>9, <2>10
  <1>5. ASSUME Ended(u, c, session, stOut, x)
        PROVE  Stage(u, None, session', stOut', x)
    <2>1. /\ ~c.choices /\ ~c.think /\ ~c.text /\ ~c.finish /\ c.call = ST!NoCall
      BY <1>1, <1>5 DEF Sensible, Ended
    <2>2. session \in ST!States({<<>>}) /\ session # None /\ session.started /\ session.emit = <<>>
          /\ session.usage = Paid(u, c)
      BY <1>5, StatesAssumption DEF Ended, ST!States
    <2> DEFINE s == ST!Merge(session, c)
    <2>3. /\ s \in ST!States({<<>>}) /\ s.started /\ s.emit = <<>>
          /\ s.usage = (session.usage \/ c.usage)
      <3>1. (session.usage \/ c.usage) \in BOOLEAN
        OBVIOUS
      <3> QED
        BY <2>2, <3>1 DEF ST!Merge, ST!States
    <2>4. ST!Call(ST!Text(ST!Think(ST!Starts(s), c), c), c) = s
      <3> HIDE DEF s
      <3>1. ST!Starts(s) = s
        BY <2>3 DEF ST!Starts
      <3>2. ST!Think(s, c) = s
        BY <2>1 DEF ST!Think
      <3>3. ST!Text(s, c) = s
        BY <2>1 DEF ST!Text
      <3>4. ST!Call(s, c) = s
        BY <2>1, EventFields DEF ST!Call
      <3> QED
        BY <3>1, <3>2, <3>3, <3>4
    <2>5. session' = [s EXCEPT !.emit = <<>>] /\ stOut' = s.emit
      BY <2>1, <2>2, <2>4 DEF ST!Translate
    <2> HIDE DEF s
    <2>6. session' = s /\ stOut' = stOut
      BY <1>5, <2>3, <2>5, stOut = <<>> DEF ST!States
    <2>7. s.usage = Paid(u, None)
      <3>1. Paid(u, c) = (u.billed /\ ~c.usage) /\ (c.usage => u.billed) /\ c.usage \in BOOLEAN
        BY <1>1, EventFields DEF Paid, Sensible
      <3> QED
        BY <1>1, <1>2, <2>2, <2>3, <3>1
    <2>8. Ended(u, None, session', stOut', x)
      BY <1>2, <1>5, <2>3, <2>6, <2>7 DEF Ended
    <2> QED
      BY <1>1, <1>2, <2>8 DEF Stage
  <1> QED
    BY <1>3, <1>4, <1>5 DEF Stage

\* An event is sent, or its first half.
LEMMA SendsOn ==
    ASSUME NEW x, NEW c \in ST!Sendable, ST!Sends(c),
           Stage(Sent, None, session, stOut, x)
    PROVE  Stage(Sent', c, session, stOut, x)
  <1> DEFINE u == Sent
             v == Sent'
  <1>1. /\ c \in ST!Chunks /\ c # None /\ ST!Pieces(c) \in Nat
        /\ c.usage \in BOOLEAN /\ c.finish \in BOOLEAN /\ c.choices \in BOOLEAN
        /\ c.call.first \in BOOLEAN /\ c.call.index \in ToolIndices \cup {None}
        /\ c.call.index = None => ~c.call.first
    BY EventFields, PiecesOfEvents DEF ST!Sendable
  <1>2. /\ ~c.choices => c.usage /\ ST!Pieces(c) = 0 /\ c.call = ST!NoCall /\ ~c.finish
        /\ c.choices => stUp = "open"
        /\ c.usage => ~billed /\ (stUp = "finished" \/ c.finish)
        /\ c.call.index # None => (c.call.first <=> c.call.index \notin called)
    BY DEF ST!Sendable
  <1>3. /\ v.up = (IF c.finish THEN "finished" ELSE stUp)
        /\ v.called = called \cup ({c.call.index} \ {None})
        /\ v.given = given + ST!Pieces(c) /\ v.billed = (billed \/ c.usage)
    BY DEF ST!Sends, Sent
  <1>4. /\ u.up = stUp /\ u.called = called /\ u.given = given /\ u.billed = billed
        /\ given \in Nat /\ billed \in BOOLEAN
    BY DEF Sent, Stage
  <1>5. Heard(u, None) = called /\ Unsaid(None) = 0 /\ Paid(u, None) = billed
        /\ (Over(u, None) <=> stUp # "open")
    BY <1>4 DEF Heard, Unsaid, Paid, Over
  <1> HIDE DEF u, v
  <1>6. Heard(v, c) = called /\ Unsaid(c) = ST!Pieces(c) /\ Paid(v, c) = billed
        /\ (Over(v, c) <=> stUp # "open" /\ ~c.finish)
    <2>1. Heard(v, c) = called
      <3>1. CASE c.call.first
        BY <1>1, <1>2, <1>3, <3>1 DEF Heard
      <3>2. CASE ~c.call.first
        BY <1>1, <1>2, <1>3, <3>2 DEF Heard
      <3> QED
        BY <3>1, <3>2
    <2>2. Unsaid(c) = ST!Pieces(c)
      BY <1>1 DEF Unsaid
    <2>3. Paid(v, c) = billed
      BY <1>1, <1>2, <1>3, <1>4 DEF Paid
    <2>4. Over(v, c) <=> stUp # "open" /\ ~c.finish
      BY <1>1, <1>3 DEF Over
    <2> QED
      BY <2>1, <2>2, <2>3, <2>4
  <1>7. ~c.choices => ~c.think /\ ~c.text
    <2>1. ST!Pieces(c) = (IF c.think THEN 1 ELSE 0) + (IF c.text THEN 1 ELSE 0)
                          + (IF c.call.args THEN 1 ELSE 0)
      BY <1>1, PiecesOfEvents
    <2> QED
      BY <1>2, <2>1
  <1>8. c.choices <=> ~Over(v, c)
    <2>1. ASSUME ~c.choices PROVE Over(v, c)
      BY <1>2, <1>6, <2>1
    <2> QED
      BY <1>2, <1>6, <2>1
  <1>9. Sensible(v, c)
    BY <1>1, <1>2, <1>3, <1>7, <1>8 DEF Sensible
  <1>10. v.given \in Nat /\ v.billed \in BOOLEAN
    BY <1>1, <1>3, <1>4
  <1>11. CASE Silent(u, None, session, stOut, x)
    <2>1. c.choices
      BY <1>2, <1>5, <1>11 DEF Silent
    <2>2. Unsaid(c) = v.given /\ ~Paid(v, c)
      BY <1>1, <1>3, <1>4, <1>5, <1>6, <1>11 DEF Silent
    <2>3. Silent(v, c, session, stOut, x)
      BY <1>5, <1>6, <1>8, <1>11, <2>1, <2>2 DEF Silent
    <2> QED
      BY <1>9, <1>10, <2>3 DEF Stage, v
  <1>12. CASE Speaking(u, None, session, stOut, x)
    <2>1. c.choices
      BY <1>2, <1>5, <1>12 DEF Speaking
    <2>2. \E g \in Nat : /\ Path(stOut, x, View(session, g))
                        /\ g + Cardinality(Stored(session.args)) + Unsaid(c) = v.given
      <3>1. PICK g \in Nat : /\ Path(stOut, x, View(session, g))
                             /\ g + Cardinality(Stored(session.args)) + Unsaid(None) = u.given
        BY <1>12 DEF Speaking
      <3>2. Cardinality(Stored(session.args)) \in Nat
        <4>1. session.args \in [ToolIndices -> Nat]
          BY <1>12 DEF Speaking, ST!States
        <4> QED
          BY <4>1, StoredIsFinite
      <3>3. g + Cardinality(Stored(session.args)) + Unsaid(c) = v.given
        BY <1>1, <1>3, <1>4, <1>5, <1>6, <3>1, <3>2
      <3> QED
        BY <3>1, <3>3
    <2>3. Speaking(v, c, session, stOut, x)
      BY <1>5, <1>6, <1>8, <1>12, <2>1, <2>2 DEF Speaking
    <2> QED
      BY <1>9, <1>10, <2>3 DEF Stage, v
  <1>13. CASE Ended(u, None, session, stOut, x)
    <2>1. ~c.choices /\ stUp = "finished"
      BY <1>2, <1>4, <1>13 DEF Ended
    <2>2. v.up = "finished" /\ v.given = u.given
      BY <1>2, <1>3, <1>4, <2>1
    <2>3. Ended(v, c, session, stOut, x)
      BY <1>5, <1>6, <1>8, <1>13, <2>1, <2>2 DEF Ended
    <2> QED
      BY <1>9, <1>10, <2>3 DEF Stage, v
  <1>14. CASE Closed(u, None, session, stOut, x)
    BY <1>2, <1>4, <1>14 DEF Closed
  <1> QED
    BY <1>11, <1>12, <1>13, <1>14 DEF Stage, u

\* When all events have been written, a client whose message has ended has everything.
LEMMA AllWritten ==
    ASSUME NEW u, NEW c, NEW s, NEW x, Stage(u, c, s, <<>>, x)
    PROVE  /\ x.phase = "ended" => x.got = u.given /\ u.up # "open"
           /\ x.phase = "done" => u.up = "done"
           /\ c = None => (s # None /\ s.usage) = u.billed
  <1>1. u.billed \in BOOLEAN /\ (c = None => Paid(u, c) = u.billed) /\ Paid(u, c) \in BOOLEAN
    BY DEF Stage, Paid
  <1>2. CASE Silent(u, c, s, <<>>, x)
    BY <1>1, <1>2 DEF Silent, Nothing, Known
  <1>3. CASE Speaking(u, c, s, <<>>, x)
    BY <1>1, <1>3, StatesAssumption DEF Speaking
  <1>4. CASE Ended(u, c, s, <<>>, x)
    <2>1. PICK m : Path(<<>>, x, Known("ended", {}, m, u.given))
      BY <1>4 DEF Ended
    <2>2. x.phase = "ended" /\ x.got = u.given
      BY <2>1, Nowhere DEF Known
    <2> QED
      BY <1>1, <1>4, <2>2, StatesAssumption DEF Ended
  <1>5. CASE Closed(u, c, s, <<>>, x)
    <2>1. x.phase = "done"
      BY <1>5 DEF Closed
    <2> QED
      BY <1>1, <1>5, <2>1, StatesAssumption DEF Closed
  <1> QED
    BY <1>2, <1>3, <1>4, <1>5 DEF Stage

\* The next event reaches the client.
LEMMA ClientReads ==
    ASSUME NEW y, stOut \in Seq(Events), Path(stOut, Client, y), got \in Nat,
           ST!Deliver, ~dropped
    PROVE  /\ ST!CL!Next /\ got' \in Nat /\ stOut # <<>> /\ stOut' = Tail(stOut)
           /\ stOut' \in Seq(Events)
           /\ Legal(Client, Head(stOut), Client') /\ Path(stOut', Client', y)
  <1> DEFINE e == Head(stOut)
  <1>1. stOut # <<>> /\ stOut' = Tail(stOut) /\ stOut' \in Seq(Events)
    BY DEF ST!Deliver
  <1>2. PICK z : Legal(Client, e, z) /\ Path(stOut', z, y)
    BY <1>1, Shorter
  <1>3. /\ got' = got + e.pieces
        /\ stLast' = ST!CL!Event(e.type, e.block) /\ stBeat' = 1 - stBeat
        /\ phase' = CASE e.type = "message_start" -> "open"
                      [] e.type = "message_delta" -> "closing"
                      [] e.type = "message_stop"  -> "ended"
                      [] e.type = "done"          -> "done"
                      [] OTHER                    -> phase
        /\ blocks' = CASE e.type = "block_start" -> blocks \cup {e.block}
                       [] e.type = "block_stop"  -> blocks \ {e.block}
                       [] OTHER                  -> blocks
        /\ next' = IF e.type = "block_start" THEN e.block.index + 1 ELSE next
    BY DEF ST!Deliver
  <1> HIDE DEF e
  <1>4. Client.phase = phase /\ Client.blocks = blocks /\ Client.next = next /\ Client.got = got
    BY DEF Client, Known
  <1>5. Client' = Known(phase', blocks', next', got')
    BY DEF Client, Known
  <1>6. CASE /\ e = Event("message_start", None, 0) /\ phase = "before"
             /\ z = Known("open", blocks, next, got)
    <2>1. e.type = "message_start" /\ e.block = None /\ e.pieces = 0
      BY <1>6 DEF Event
    <2>2. phase' = "open" /\ blocks' = blocks /\ next' = next /\ got' = got
      BY <1>3, <2>1
    <2>3. ST!CL!MessageStart
      BY <1>3, <1>6, <2>1, <2>2 DEF ST!CL!MessageStart, ST!CL!Turns, ST!CL!Happens
    <2> QED
      BY <1>1, <1>2, <1>5, <1>6, <2>2, <2>3 DEF ST!CL!Next, e
  <1>7. CASE /\ e = Event("message_delta", None, 0) /\ phase = "open" /\ blocks = {}
             /\ z = Known("closing", blocks, next, got)
    <2>1. e.type = "message_delta" /\ e.block = None /\ e.pieces = 0
      BY <1>7 DEF Event
    <2>2. phase' = "closing" /\ blocks' = blocks /\ next' = next /\ got' = got
      BY <1>3, <2>1
    <2>3. ST!CL!MessageDelta
      BY <1>3, <1>7, <2>1, <2>2 DEF ST!CL!MessageDelta, ST!CL!Turns, ST!CL!Happens
    <2> QED
      BY <1>1, <1>2, <1>5, <1>7, <2>2, <2>3 DEF ST!CL!Next, e
  <1>8. CASE /\ e = Event("message_stop", None, 0) /\ phase = "closing"
             /\ z = Known("ended", blocks, next, got)
    <2>1. e.type = "message_stop" /\ e.block = None /\ e.pieces = 0
      BY <1>8 DEF Event
    <2>2. phase' = "ended" /\ blocks' = blocks /\ next' = next /\ got' = got
      BY <1>3, <2>1
    <2>3. ST!CL!MessageStop
      BY <1>3, <1>8, <2>1, <2>2 DEF ST!CL!MessageStop, ST!CL!Turns, ST!CL!Happens
    <2> QED
      BY <1>1, <1>2, <1>5, <1>8, <2>2, <2>3 DEF ST!CL!Next, e
  <1>9. CASE e = Event("done", None, 0) /\ phase # "done" /\ z = Known("done", blocks, next, got)
    <2>1. e.type = "done" /\ e.block = None /\ e.pieces = 0
      BY <1>9 DEF Event
    <2>2. phase' = "done" /\ blocks' = blocks /\ next' = next /\ got' = got
      BY <1>3, <2>1
    <2>3. ST!CL!Done
      BY <1>3, <1>9, <2>1, <2>2 DEF ST!CL!Done, ST!CL!Happens
    <2> QED
      BY <1>1, <1>2, <1>5, <1>9, <2>2, <2>3 DEF ST!CL!Next, e
  <1>10. CASE \E kind \in Kinds :
                 /\ e = Event("block_start", Block(next, kind), 0)
                 /\ phase = "open" /\ \A b \in blocks : b.kind = "tool_use"
                 /\ z = Known("open", blocks \cup {Block(next, kind)}, next + 1, got)
    <2>1. PICK kind \in Kinds :
             /\ e = Event("block_start", Block(next, kind), 0)
             /\ phase = "open" /\ \A b \in blocks : b.kind = "tool_use"
             /\ z = Known("open", blocks \cup {Block(next, kind)}, next + 1, got)
      BY <1>10
    <2>2. /\ e.type = "block_start" /\ e.block = Block(next, kind) /\ e.pieces = 0
          /\ e.block.index = next
      BY <2>1 DEF Event, Block
    <2>3. /\ phase' = "open" /\ blocks' = blocks \cup {Block(next, kind)} /\ next' = next + 1
          /\ got' = got
      BY <1>3, <2>1, <2>2
    <2>4. ST!CL!Block(next, kind) = Block(next, kind)
      BY Named
    <2>5. ST!CL!BlockStart(kind)
      BY <1>3, <2>1, <2>2, <2>3, <2>4 DEF ST!CL!BlockStart, ST!CL!Happens
    <2> QED
      BY <1>1, <1>2, <1>5, <2>1, <2>3, <2>5 DEF ST!CL!Next, e, Kinds
  <1>11. CASE \E b \in blocks, n \in Nat :
                 /\ e = Event("block_delta", b, n) /\ phase = "open"
                 /\ z = Known("open", blocks, next, got + n)
    <2>1. PICK b \in blocks, n \in Nat :
             /\ e = Event("block_delta", b, n) /\ phase = "open"
             /\ z = Known("open", blocks, next, got + n)
      BY <1>11
    <2>2. e.type = "block_delta" /\ e.block = b /\ e.pieces = n
      BY <2>1 DEF Event
    <2>3. phase' = "open" /\ blocks' = blocks /\ next' = next /\ got' = got + n /\ got + n \in Nat
      BY <1>3, <2>1, <2>2
    <2>4. ST!CL!BlockDelta(b)
      BY <1>3, <2>1, <2>2, <2>3 DEF ST!CL!BlockDelta, ST!CL!Happens
    <2> QED
      BY <1>1, <1>2, <1>5, <2>1, <2>3, <2>4 DEF ST!CL!Next, e
  <1>12. CASE \E b \in blocks :
                 /\ e = Event("block_stop", b, 0) /\ phase = "open"
                 /\ z = Known("open", blocks \ {b}, next, got)
    <2>1. PICK b \in blocks : /\ e = Event("block_stop", b, 0) /\ phase = "open"
                              /\ z = Known("open", blocks \ {b}, next, got)
      BY <1>12
    <2>2. e.type = "block_stop" /\ e.block = b /\ e.pieces = 0
      BY <2>1 DEF Event
    <2>3. phase' = "open" /\ blocks' = blocks \ {b} /\ next' = next /\ got' = got
      BY <1>3, <2>1, <2>2
    <2>4. ST!CL!BlockStop(b)
      BY <1>3, <2>1, <2>2, <2>3 DEF ST!CL!BlockStop, ST!CL!Happens
    <2> QED
      BY <1>1, <1>2, <1>5, <2>1, <2>3, <2>4 DEF ST!CL!Next, e
  <1> QED
    BY <1>2, <1>4, <1>6, <1>7, <1>8, <1>9, <1>10, <1>11, <1>12 DEF Legal

\* When the first event is written, the others are as they were.
LEMMA OthersLater ==
    ASSUME NEW o \in Seq(Events), o # <<>>
    PROVE  /\ Content(o) => /\ Content(Tail(o))
                            /\ Head(o).type
                                   \in {"message_start", "block_start", "block_delta", "block_stop"}
           /\ Endless(o) => Endless(Tail(o))
  <1>1. /\ Len(o) \in Nat /\ Len(o) > 0 /\ Len(Tail(o)) = Len(o) - 1 /\ Head(o) = o[1]
        /\ \A i \in 1 .. Len(o) - 1 : Tail(o)[i] = o[i + 1] /\ i + 1 \in 1 .. Len(o)
    OBVIOUS
  <1>2. 1 \in 1 .. Len(o)
    BY <1>1
  <1>3. Content(o) => Content(Tail(o))
    BY <1>1 DEF Content
  <1>4. Endless(o) => Endless(Tail(o))
    BY <1>1 DEF Endless
  <1> QED
    BY <1>1, <1>2, <1>3, <1>4 DEF Content

\* [DONE] may come whenever it has not.
LEMMA Terminates ==
    LET d == <<Event("done", None, 0)>>
    IN  /\ d \in Seq(Events) /\ d # <<>> /\ Tail(d) = <<>> /\ Head(d) = Event("done", None, 0)
        /\ phase # "done" => Path(d, Client, Known("done", blocks, next, got))
  <1> DEFINE e == Event("done", None, 0)
             z == Known("done", blocks, next, got)
  <1>1. e \in Events
    BY DEF Event, Events
  <1>2. <<>> \in Seq(Events) /\ Append(<<>>, e) = <<e>> /\ Tail(<<e>>) = <<>> /\ Head(<<e>>) = e
        /\ <<e>> # <<>> /\ <<e>> \in Seq(Events)
    BY <1>1
  <1>3. ASSUME phase # "done" PROVE Path(<<e>>, Client, z)
    <2>1. Legal(Client, e, z)
      BY <1>3 DEF Legal, Client, Known
    <2> HIDE DEF e, z
    <2>2. Path(Append(<<>>, e), Client, z)
      BY <1>1, <1>2, <2>1, Here, Onward
    <2> QED
      BY <1>2, <2>2
  <1> QED
    BY <1>2, <1>3

\* The phase an event leads to.
LEMMA PhaseThen ==
    ASSUME NEW e, NEW x, NEW z, Legal(x, e, z)
    PROVE  /\ e.type = "done" => z.phase = "done"
           /\ e.type \in {"message_start", "block_start", "block_delta", "block_stop"}
                 => z.phase = "open"
  BY DEF Legal, Event, Known

\* An event is written.
LEMMA WritesOn ==
    ASSUME Stage(Sent, pending, session, stOut, Client), got \in Nat, ST!Deliver, ~dropped
    PROVE  ST!CL!Next /\ got' \in Nat /\ Stage(Sent, pending, session, stOut', Client')
  <1> DEFINE u == Sent
  <1>1. stOut # <<>>
    BY DEF ST!Deliver
  <1>2. u.given \in Nat /\ u.billed \in BOOLEAN /\ Sensible(u, pending)
    BY DEF Stage
  <1> HIDE DEF u
  <1>3. CASE Speaking(u, pending, session, stOut, Client)
    <2>1. PICK g \in Nat : /\ Path(stOut, Client, View(session, g))
                           /\ g + Cardinality(Stored(session.args)) + Unsaid(pending) = u.given
      BY <1>3 DEF Speaking
    <2>2. stOut \in Seq(Events) /\ Content(stOut)
      BY <1>3 DEF Speaking
    <2>3. /\ ST!CL!Next /\ got' \in Nat /\ stOut' = Tail(stOut) /\ stOut' \in Seq(Events)
          /\ Legal(Client, Head(stOut), Client') /\ Path(stOut', Client', View(session, g))
      BY <2>1, <2>2, ClientReads
    <2>4. Content(stOut') /\ Client'.phase = "open"
      BY <1>1, <2>2, <2>3, OthersLater, PhaseThen
    <2>5. Speaking(u, pending, session, stOut', Client')
      BY <1>3, <2>1, <2>3, <2>4 DEF Speaking
    <2> QED
      BY <1>2, <2>3, <2>5 DEF Stage, u
  <1>4. CASE Ended(u, pending, session, stOut, Client)
    <2>1. PICK m : Path(stOut, Client, Known("ended", {}, m, u.given))
      BY <1>4 DEF Ended
    <2>2. stOut \in Seq(Events) /\ Endless(stOut)
      BY <1>4 DEF Ended
    <2>3. /\ ST!CL!Next /\ got' \in Nat /\ stOut' = Tail(stOut) /\ stOut' \in Seq(Events)
          /\ Path(stOut', Client', Known("ended", {}, m, u.given))
      BY <2>1, <2>2, ClientReads
    <2>4. Endless(stOut')
      BY <1>1, <2>2, <2>3, OthersLater
    <2>5. Ended(u, pending, session, stOut', Client')
      BY <1>4, <2>3, <2>4 DEF Ended
    <2> QED
      BY <1>2, <2>3, <2>5 DEF Stage, u
  <1>5. CASE Closed(u, pending, session, stOut, Client)
    <2>1. stOut = <<Event("done", None, 0)>> /\ Client.phase = "ended" /\ Client.phase = phase
      BY <1>1, <1>5 DEF Closed, Client, Known
    <2>2. /\ stOut \in Seq(Events) /\ Path(stOut, Client, Known("done", blocks, next, got))
          /\ Tail(stOut) = <<>> /\ Head(stOut).type = "done"
      BY <2>1, Terminates DEF Event
    <2>3. /\ ST!CL!Next /\ got' \in Nat /\ stOut' = Tail(stOut)
          /\ Legal(Client, Head(stOut), Client')
      BY <2>2, ClientReads
    <2>4. stOut' = <<>> /\ Client'.phase = "done"
      BY <2>2, <2>3, PhaseThen
    <2>5. Closed(u, pending, session, stOut', Client')
      BY <1>5, <2>4 DEF Closed
    <2> QED
      BY <1>2, <2>3, <2>5 DEF Stage, u
  <1> QED
    BY <1>1, <1>3, <1>4, <1>5 DEF Stage, Silent, u

-----------------------------------------------------------------------------
LEMMA StreamBegins == ST!Init => TranslationInv
  <1> SUFFICES ASSUME ST!Init PROVE TranslationInv
    OBVIOUS
  <1>1. /\ stUp = "open" /\ called = {} /\ given = 0 /\ billed = FALSE /\ session = None
        /\ pending = None /\ dropped = FALSE /\ stOut = <<>> /\ finished = FALSE
        /\ stResult = "running" /\ got = 0 /\ phase = "before" /\ blocks = {} /\ next = 0
    BY DEF ST!Init, ST!CL!Init
  <1>2. Silent(Sent, None, None, <<>>, Client)
    BY <1>1 DEF Silent, Sent, Over, Heard, Unsaid, Paid, Client, Nothing
  <1>3. Stage(Sent, pending, session, stOut, Client)
    BY <1>1, <1>2 DEF Stage, Sent, Sensible
  <1> QED
    BY <1>1, <1>3 DEF TranslationInv

\* An event is translated, as far as the invariant is concerned.
LEMMA TranslatesStays ==
    ASSUME NEW c, ST!Translates(c), stOut = <<>>, got \in Nat,
           ~dropped => /\ c \in ST!Chunks /\ Stage(Sent', c, session, stOut, Client)
                       /\ finished <=> stUp' = "done",
           dropped => (phase = "ended" => got = given' /\ stUp' # "open"),
           stResult = "running", stResult' = stResult, finished' = finished,
           pending' = None, Client' = Client
    PROVE  TranslationInv'
  <1>1. PICK crowded \in BOOLEAN :
           /\ ST!Translate(c, crowded)
           /\ dropped' = (dropped \/ (session # None /\ ST!Kept(crowded) = None))
    BY DEF ST!Translates
  <1>2. Client.phase = phase /\ Client.got = got /\ phase' = phase /\ got' = got
    BY DEF Client, Known
  <1>3. Sent'.given = given' /\ Sent'.up = stUp'
    BY DEF Sent
  <1>4. dropped' => Dropped'
    <2>1. phase = "ended" => got = given' /\ stUp' # "open"
      <3>1. CASE ~dropped
        BY <1>2, <1>3, <3>1, AllWritten
      <3> QED
        BY <3>1
    <2> QED
      BY <1>2, <2>1 DEF Dropped
  <1>5. ASSUME ~dropped' PROVE Stage(Sent', None, session', stOut', Client)
    <2>1. ~dropped /\ ST!Kept(crowded) = session
      BY <1>1, <1>5 DEF ST!Kept
    <2> QED
      BY <1>1, <2>1, TranslatesOn
  <1>6. ASSUME ~dropped'
        PROVE  Stage(Sent', pending', session', stOut', Client') /\ (finished' <=> stUp' = "done")
    <2>1. ~dropped
      BY <1>1, <1>6
    <2> QED
      BY <1>5, <1>6, <2>1
  <1>7. got' \in Nat /\ stResult' = "running"
    BY <1>2
  <1> QED
    BY <1>4, <1>6, <1>7 DEF TranslationInv

\* Every step keeps the invariant, and is a step or a stutter of ClaudeStream.
LEMMA StreamStays ==
    TranslationInv /\ [ST!Next]_ST!vars => TranslationInv' /\ [ST!CL!Next]_ST!CL!vars
  <1> SUFFICES ASSUME TranslationInv, [ST!Next]_ST!vars
               PROVE  TranslationInv' /\ [ST!CL!Next]_ST!CL!vars
    OBVIOUS
  <1> DEFINE SameClient == got' = got /\ phase' = phase /\ blocks' = blocks /\ next' = next
                           /\ stLast' = stLast /\ stBeat' = stBeat
  <1>1. ASSUME SameClient
        PROVE  /\ Client' = Client /\ got' \in Nat /\ [ST!CL!Next]_ST!CL!vars
    BY <1>1 DEF Client, Known, TranslationInv, ST!CL!vars
  <1>2. Client.phase = phase /\ Client.got = got
    BY DEF Client, Known
  <1>3. got \in Nat
    BY DEF TranslationInv
  <1>4. ~dropped /\ stResult = "running" =>
           Stage(Sent, pending, session, stOut, Client) /\ (finished <=> stUp = "done")
    BY DEF TranslationInv
  <1>5. Sent.given = given /\ Sent.up = stUp /\ Sent.billed = billed
    BY DEF Sent
  <1>6. ASSUME NEW c \in ST!Sendable, ST!Sends(c)
        PROVE  /\ ~dropped /\ stResult = "running" /\ pending = None =>
                     /\ Stage(Sent', c, session, stOut, Client)
                     /\ finished <=> stUp' = "done"
               /\ dropped => (phase = "ended" => got = given' /\ stUp' # "open")
    <2>1. /\ stUp' = (IF c.finish THEN "finished" ELSE stUp) /\ given' = given + ST!Pieces(c)
          /\ ~c.choices => ~c.finish /\ ST!Pieces(c) = 0
          /\ c.choices => stUp = "open"
      BY <1>6 DEF ST!Sends, ST!Sendable
    <2>2. ASSUME ~dropped, stResult = "running", pending = None
          PROVE  Stage(Sent', c, session, stOut, Client)
      <3>1. Stage(Sent, None, session, stOut, Client)
        BY <1>4, <2>2
      <3> QED
        BY <1>6, <3>1, SendsOn
    <2>3. ASSUME dropped, phase = "ended"
          PROVE  got = given' /\ stUp' # "open"
      <3>1. got = given /\ stUp # "open"
        BY <2>3 DEF TranslationInv, Dropped
      <3> QED
        BY <1>3, <2>1, <3>1
    <2> QED
      BY <1>4, <2>1, <2>2, <2>3
  <1>7. CASE ST!Whole
    <2>1. PICK c \in ST!Sendable : ST!Sends(c) /\ ST!Translates(c)
      BY <1>7 DEF ST!Whole
    <2>2. /\ stResult = "running" /\ stOut = <<>> /\ pending = None /\ pending' = None
          /\ stResult' = stResult /\ finished' = finished /\ SameClient
      BY <1>7 DEF ST!Whole, ST!Reads, ST!handler, ST!client
    <2>3. c \in ST!Chunks
      BY DEF ST!Sendable
    <2> QED
      BY <1>1, <1>3, <1>6, <2>1, <2>2, <2>3, TranslatesStays
  <1>8. CASE ST!Half
    <2>1. PICK c \in ST!Sendable : ST!Sends(c) /\ pending' = c
      BY <1>8 DEF ST!Half
    <2>2. /\ stResult = "running" /\ pending = None /\ session' = session /\ dropped' = dropped
          /\ stOut' = stOut /\ stResult' = stResult /\ finished' = finished /\ SameClient
      BY <1>8 DEF ST!Half, ST!Reads, ST!handler, ST!client
    <2>3. dropped' => Dropped'
      BY <1>6, <2>1, <2>2 DEF Dropped
    <2>4. ~dropped' => /\ Stage(Sent', pending', session', stOut', Client')
                       /\ finished' <=> stUp' = "done"
      BY <1>1, <1>6, <2>1, <2>2
    <2> QED
      BY <1>1, <2>2, <2>3, <2>4 DEF TranslationInv
  <1>9. CASE ST!Rest
    <2>1. /\ stResult = "running" /\ stOut = <<>> /\ pending # None /\ pending' = None
          /\ stResult' = stResult /\ finished' = finished /\ SameClient /\ Sent' = Sent
          /\ stUp' = stUp /\ given' = given /\ ST!Translates(pending)
      BY <1>9 DEF ST!Rest, ST!Reads, ST!upstream, ST!handler, ST!client, Sent
    <2>2. ~dropped => /\ pending \in ST!Chunks /\ Stage(Sent', pending, session, stOut, Client)
                      /\ finished <=> stUp' = "done"
      BY <1>4, <2>1 DEF Stage, Sensible
    <2>3. dropped => (phase = "ended" => got = given' /\ stUp' # "open")
      BY <2>1 DEF TranslationInv, Dropped
    <2> QED
      BY <1>1, <1>3, <2>1, <2>2, <2>3, TranslatesStays
  <1>10. CASE ST!Done
    <2>1. /\ stResult = "running" /\ stOut = <<>> /\ pending = None /\ pending' = None
          /\ stUp = "finished" /\ stUp' = "done" /\ finished' = TRUE
          /\ stOut' = <<Event("done", None, 0)>> /\ session' = session /\ dropped' = dropped
          /\ stResult' = stResult /\ SameClient /\ given' = given /\ billed' = billed
      BY <1>10, Named DEF ST!Done, ST!Reads, ST!DoneEvent, ST!client
    <2>2. ASSUME ~dropped PROVE Stage(Sent', pending', session', stOut', Client')
      <3>1. Stage(Sent, None, session, <<>>, Client) /\ given \in Nat /\ billed \in BOOLEAN
        BY <1>4, <1>5, <2>1, <2>2 DEF Stage
      <3>2. Ended(Sent, None, session, <<>>, Client)
        BY <1>5, <2>1, <3>1 DEF Stage, Silent, Speaking, Closed, Over
      <3>3. PICK m : Client = Known("ended", {}, m, given)
        BY <1>5, <3>2, Nowhere DEF Ended
      <3>4. phase = "ended" /\ got = given
        BY <1>2, <3>3 DEF Known
      <3>5. session \in ST!States({<<>>}) /\ session.usage = billed
        <4>1. Paid(Sent, None) = billed
          BY <1>5, <3>1 DEF Paid
        <4> QED
          BY <3>2, <4>1 DEF Ended
      <3>6. Sent'.up = "done" /\ Sent'.given = given /\ Sent'.billed = billed
        BY <2>1 DEF Sent
      <3>7. Closed(Sent', None, session, stOut', Client)
        BY <1>2, <2>1, <3>4, <3>5, <3>6 DEF Closed
      <3>8. Sensible(Sent', None)
        BY DEF Sensible
      <3> QED
        BY <1>1, <2>1, <3>1, <3>6, <3>7, <3>8 DEF Stage
    <2>3. dropped' => Dropped'
      BY <2>1 DEF TranslationInv, Dropped
    <2> QED
      BY <1>1, <2>1, <2>2, <2>3 DEF TranslationInv
  <1>11. CASE ST!Age \/ UNCHANGED ST!vars
    <2>1. /\ SameClient /\ Sent' = Sent /\ session' = session /\ pending' = pending
          /\ dropped' = dropped /\ stOut' = stOut /\ finished' = finished
          /\ stResult' = stResult /\ usage' = usage /\ stUp' = stUp /\ given' = given
          /\ billed' = billed
      BY <1>11 DEF ST!Age, ST!vars, ST!upstream, ST!handler, ST!client, Sent
    <2> QED
      BY <1>1, <2>1 DEF TranslationInv, Dropped, Returned
  <1>12. CASE ST!Ends
    <2>1. /\ stResult = "running" /\ stOut = <<>> /\ stUp # "closed" /\ stUp' = "closed"
          /\ stResult' = "returned" /\ usage' = (session # None /\ session.usage)
          /\ given' = given /\ billed' = billed /\ pending' = pending /\ dropped' = dropped
          /\ SameClient
          /\ stOut' = <<>> \/ (~finished /\ stOut' = <<Event("done", None, 0)>>)
      BY <1>12, Named DEF ST!Ends, ST!Reads, ST!Terminator, ST!DoneEvent, ST!client
    <2>2. ASSUME ~dropped PROVE Returned'
      <3>1. /\ phase = "ended" => got = given
            /\ phase = "done" => stUp = "done"
            /\ pending = None => (session # None /\ session.usage) = billed
            /\ finished <=> stUp = "done"
        BY <1>2, <1>4, <1>5, <2>1, <2>2, AllWritten
      <3> QED
        BY <2>1, <3>1 DEF Returned
    <2>3. dropped' => Dropped'
      BY <2>1 DEF TranslationInv, Dropped
    <2> QED
      BY <1>1, <2>1, <2>2, <2>3 DEF TranslationInv
  <1>13. CASE ST!Deliver
    <2>1. /\ Sent' = Sent /\ session' = session /\ pending' = pending
          /\ dropped' = dropped /\ finished' = finished
          /\ stResult' = stResult /\ usage' = usage /\ stUp' = stUp /\ given' = given
          /\ billed' = billed /\ stOut # <<>> /\ stOut' = Tail(stOut)
          /\ dropped => SameClient
      BY <1>13 DEF ST!Deliver, ST!upstream, ST!handler, ST!client, Sent
    <2>2. CASE dropped
      BY <1>1, <2>1, <2>2 DEF TranslationInv, Dropped
    <2>3. CASE ~dropped /\ stResult = "running"
      <3>1. ST!CL!Next /\ got' \in Nat /\ Stage(Sent, pending, session, stOut', Client')
        BY <1>3, <1>4, <1>13, <2>3, WritesOn
      <3> QED
        BY <1>4, <2>1, <2>3, <3>1 DEF TranslationInv
    <2>4. CASE ~dropped /\ stResult # "running"
      <3>1. stResult = "returned" /\ Returned
        BY <2>4 DEF TranslationInv
      <3>2. stOut = <<Event("done", None, 0)>> /\ phase # "done"
        BY <2>1, <3>1 DEF Returned
      <3>3. /\ stOut \in Seq(Events) /\ Tail(stOut) = <<>> /\ Head(stOut).type = "done"
            /\ Path(stOut, Client, Known("done", blocks, next, got))
        BY <3>2, Terminates DEF Event
      <3>4. ST!CL!Next /\ got' \in Nat /\ Legal(Client, Head(stOut), Client')
        BY <1>3, <1>13, <2>4, <3>3, ClientReads
      <3>5. phase' = "done"
        BY <3>3, <3>4, PhaseThen DEF Client, Known
      <3>6. Returned'
        BY <2>1, <3>1, <3>3, <3>5 DEF Returned
      <3> QED
        BY <2>1, <2>4, <3>1, <3>4, <3>6 DEF TranslationInv
    <2> QED
      BY <2>2, <2>3, <2>4
  <1> QED
    BY <1>7, <1>8, <1>9, <1>10, <1>11, <1>12, <1>13 DEF ST!Next

\* Only [DONE] follows the end of a message.
LEMMA NothingAfterTheEnd ==
    ASSUME NEW x, NEW y, NEW o \in Seq(Events), Path(o, x, y), Endless(o), x.phase = "ended"
    PROVE  x = y
  <1>1. ASSUME o # <<>> PROVE FALSE
    <2>1. PICK z : Legal(x, Head(o), z)
      BY <1>1, Shorter
    <2>2. Head(o).type = "done"
      BY <2>1 DEF Legal, Event
    <2>3. Len(o) \in Nat /\ Len(o) > 0 /\ Head(o) = o[1]
      BY <1>1
    <2> QED
      BY <2>2, <2>3 DEF Endless
  <1> QED
    BY <1>1, Nowhere

\* In every stage, a client whose message has ended has everything.
LEMMA NothingIsLostThen == TranslationInv => NothingLost
  <1> SUFFICES ASSUME TranslationInv PROVE ST!NothingLost
    BY DEF NothingLost
  <1>1. Client.phase = phase /\ Client.got = got /\ Sent.given = given /\ Sent.up = stUp
    BY DEF Client, Known, Sent
  <1>2. ASSUME phase = "ended" PROVE got = given
    <2>1. CASE dropped \/ stResult # "running"
      BY <1>2, <2>1 DEF TranslationInv, Dropped, Returned
    <2>2. CASE ~dropped /\ stResult = "running"
      <3>1. Stage(Sent, pending, session, stOut, Client)
        BY <2>2 DEF TranslationInv
      <3>2. CASE Silent(Sent, pending, session, stOut, Client)
                 \/ Speaking(Sent, pending, session, stOut, Client)
        BY <1>1, <1>2, <3>2 DEF Silent, Speaking, Nothing, Known
      <3>3. CASE Ended(Sent, pending, session, stOut, Client)
        <4>1. PICK m : Path(stOut, Client, Known("ended", {}, m, given))
          BY <1>1, <3>3 DEF Ended
        <4>2. Client = Known("ended", {}, m, given)
          BY <1>1, <1>2, <3>3, <4>1, NothingAfterTheEnd DEF Ended
        <4> QED
          BY <1>1, <4>2 DEF Known
      <3>4. CASE Closed(Sent, pending, session, stOut, Client)
        BY <1>1, <1>2, <3>4 DEF Closed
      <3> QED
        BY <3>1, <3>2, <3>3, <3>4 DEF Stage
    <2> QED
      BY <2>1, <2>2
  <1>3. ASSUME stResult = "returned", pending = None, ~dropped PROVE usage = billed
    BY <1>3 DEF TranslationInv, Returned
  <1> QED
    BY <1>2, <1>3 DEF ST!NothingLost

\* Every stage of a stream leads to the next, whatever is sent, however it is cut in two, and
\* whenever the handler returns.
THEOREM TranslationHolds == ST!Spec => []TranslationInv
  <1>1. TranslationInv /\ [ST!Next]_ST!vars => TranslationInv'
    BY StreamStays
  <1> QED
    BY <1>1, StreamBegins, PTL DEF ST!Spec

\* handleStreamResponse: a client that has the end of the message has every
\* piece that was sent, and the usage that came is what is recorded, for any number of pieces.
THEOREM NothingIsLost == ST!Spec => []NothingLost
  BY TranslationHolds, NothingIsLostThen, PTL

\* The refinement: every step of the translator is an event that ClaudeStream allows, or nothing
\* the client sees.
THEOREM TranslatorPromisesClaudeStream == ST!Spec => PromisesClaudeStream
  <1>1. ST!Init => ST!CL!Init
    BY DEF ST!Init
  <1>2. TranslationInv /\ [ST!Next]_ST!vars => [ST!CL!Next]_ST!CL!vars
    BY StreamStays
  <1>3. ST!Init /\ []TranslationInv /\ [][ST!Next]_ST!vars
        => ST!CL!Init /\ [][ST!CL!Next]_ST!CL!vars
    BY <1>1, <1>2, PTL
  <1> QED
    BY <1>3, TranslationHolds, PTL DEF ST!Spec, PromisesClaudeStream, ST!PromisesClaudeStream, ST!CL!Spec

-----------------------------------------------------------------------------
(* Conversations with tools *)

Names   == UNION ToolSets
ToolIds == [name : Names, number : Nat, tag : Signatures \cup {None}]
Offers  == {c \in [id : ToolIds, name : Names] : c.id.name = c.name}

IdsOf(cs)    == {cs[k].id : k \in DOMAIN cs}
Distinct(cs) == \A j, k \in DOMAIN cs : cs[j].id = cs[k].id => j = k

Messages == [role : {"user", "tool", "assistant"}, text : BOOLEAN, think : BOOLEAN,
             calls : Seq(Offers), results : Seq(ToolIds)]

\* What the OpenAI format says of a conversation.
Spoken ==
    {m \in Messages :
        /\ m.role = "tool" => m.calls = <<>> /\ \E x \in ToolIds : m.results = <<x>>
        /\ m.role = "user" => m.text /\ m.calls = <<>>
        /\ m.role = "assistant" => (m.text \/ m.think) /\ ~(m.text /\ m.think) /\ Distinct(m.calls)}

\* The filters of the instance are those of Filters.
LEMMA SameFilters ==
    /\ \A s, S : TC!Kept(s, S) = Kept(s, S)
    /\ \A ss : TC!Joined(ss) = Joined(ss)
  <1>1. \A s, S : TC!Kept(s, S) = Kept(s, S)
    BY Zenon DEF TC!Kept, Kept
  <1>2. \A ss : TC!Joined(ss) = Joined(ss)
    BY Zenon DEF TC!Joined, Joined
  <1> QED
    BY <1>1, <1>2

\* The message that says nothing.
LEMMA MessageIs ==
    /\ TC!Message \in Messages /\ TC!Message.role = "user" /\ TC!Message.calls = <<>>
    /\ TC!Message.results = <<>>
  <1>1. <<>> \in Seq(Offers) /\ <<>> \in Seq(ToolIds)
    OBVIOUS
  <1> QED
    BY <1>1 DEF TC!Message, Messages

\* A result is a message.
LEMMA ToolIs ==
    ASSUME NEW x \in ToolIds
    PROVE  /\ TC!Tool(x) \in Spoken /\ TC!Tool(x).role = "tool" /\ TC!Tool(x).calls = <<>>
           /\ TC!Tool(x).results = <<x>>
  <1>1. /\ TC!Tool(x) \in Messages /\ TC!Tool(x).role = "tool" /\ TC!Tool(x).calls = <<>>
        /\ TC!Tool(x).results = <<x>>
    <2> DEFINE m == TC!Message
               r == <<x>>
    <2>1. m \in Messages /\ m.calls = <<>> /\ r \in Seq(ToolIds)
      BY MessageIs
    <2> HIDE DEF m, r
    <2>2. LET t == [m EXCEPT !.role = "tool", !.results = r]
          IN  t \in Messages /\ t.role = "tool" /\ t.calls = <<>> /\ t.results = r
      BY <2>1 DEF Messages
    <2> QED
      BY <2>2 DEF TC!Tool, m, r
  <1> QED
    BY <1>1 DEF Spoken

\* What the user says is one, too.
LEMMA UserIs ==
    /\ TC!User(TRUE, <<>>) \in Spoken /\ TC!User(TRUE, <<>>).role = "user"
    /\ TC!User(TRUE, <<>>).calls = <<>>
  <1>1. /\ TC!User(TRUE, <<>>) \in Messages /\ TC!User(TRUE, <<>>).role = "user"
        /\ TC!User(TRUE, <<>>).calls = <<>> /\ TC!User(TRUE, <<>>).text
    <2> DEFINE m == TC!Message
               r == <<>>
    <2>1. m \in Messages /\ m.role = "user" /\ m.calls = <<>> /\ r \in Seq(ToolIds)
      BY MessageIs
    <2> HIDE DEF m, r
    <2>2. LET t == [m EXCEPT !.text = TRUE, !.results = r]
          IN  t \in Messages /\ t.role = "user" /\ t.calls = <<>> /\ t.text
      BY <2>1 DEF Messages
    <2> QED
      BY <2>2 DEF TC!User, m, r
  <1> QED
    BY <1>1 DEF Spoken

\* Results, one after the other.
LEMMA ToolsAre ==
    /\ TC!Tools(<<>>) = <<>>
    /\ \A q \in Seq(ToolIds) : TC!Tools(q) \in Seq(Spoken)
    /\ \A q \in Seq(ToolIds), x \in ToolIds :
          TC!Tools(Append(q, x)) = Append(TC!Tools(q), TC!Tool(x))
  <1>1. TC!Tools(<<>>) = <<>>
    BY DEF TC!Tools
  <1>2. ASSUME NEW q \in Seq(ToolIds)
        PROVE  TC!Tools(q) \in Seq(Spoken)
    <2>1. \A k \in DOMAIN q : TC!Tool(q[k]) \in Spoken
      <3>1. \A k \in DOMAIN q : q[k] \in ToolIds
        OBVIOUS
      <3> QED
        BY <3>1, ToolIs
    <2> QED
      BY <2>1 DEF TC!Tools
  <1>3. ASSUME NEW q \in Seq(ToolIds), NEW x \in ToolIds
        PROVE  TC!Tools(Append(q, x)) = Append(TC!Tools(q), TC!Tool(x))
    <2> DEFINE F(k) == TC!Tool(k)
    <2> HIDE DEF F
    <2>1. [k \in DOMAIN Append(q, x) |-> F(Append(q, x)[k])]
             = Append([k \in DOMAIN q |-> F(q[k])], F(x))
      OBVIOUS
    <2> QED
      BY <2>1, Zenon DEF TC!Tools, F
  <1> QED
    BY <1>1, <1>2, <1>3

\* What an assistant's calls lack.
LEMMA MissingIs ==
    ASSUME NEW cs \in Seq(Offers), NEW S \in SUBSET ToolIds
    PROVE  \E q \in Seq(ToolIds) :
              /\ TC!Missing(cs, S) = TC!Tools(q)
              /\ Distinct(cs) =>
                    /\ Once(q)
                    /\ \A x : (\E k \in DOMAIN q : q[k] = x) <=> x \in IdsOf(cs) \ S
  <1> DEFINE T == {c \in TC!ToSet(cs) : c.id \notin S}
             left == Kept(cs, T)
             q == [k \in DOMAIN left |-> left[k].id]
  <1>1. left \in Seq(Offers)
    <2>1. left \in Seq(Offers \cap T)
      <3> HIDE DEF T
      <3> QED
        BY KeptOf
    <2> QED
      BY <2>1
  <1>2. TC!Missing(cs, S) = [k \in DOMAIN left |-> TC!Tool(left[k].id)]
    BY SameFilters, Zenon DEF TC!Missing
  <1>3. q \in Seq(ToolIds) /\ DOMAIN q = DOMAIN left
    <2>1. \A k \in DOMAIN left : left[k].id \in ToolIds
      <3> HIDE DEF left
      <3> QED
        BY <1>1 DEF Offers
    <2>2. Len(left) \in Nat /\ DOMAIN left = 1 .. Len(left)
      <3> HIDE DEF left
      <3> QED
        BY <1>1
    <2> HIDE DEF left
    <2> QED
      BY <2>1, <2>2
  <1>4. TC!Tools(q) = [k \in DOMAIN left |-> TC!Tool(left[k].id)]
    <2>1. \A k \in DOMAIN left : q[k] = left[k].id
      OBVIOUS
    <2> HIDE DEF q, left
    <2> QED
      BY <1>3, <2>1 DEF TC!Tools
  <1>5. ASSUME Distinct(cs)
        PROVE  Once(q) /\ \A x : (\E k \in DOMAIN q : q[k] = x) <=> x \in IdsOf(cs) \ S
    <2>1. Once(cs)
      BY <1>5 DEF Once, Distinct
    <2>2. /\ Once(left)
          /\ \A e : (\E k \in DOMAIN left : left[k] = e)
                    <=> e \in T /\ \E k \in DOMAIN cs : cs[k] = e
      <3> HIDE DEF T
      <3> QED
        BY <2>1, KeptOnce
    <2>3. \A e : e \in T <=> e.id \notin S /\ \E k \in DOMAIN cs : cs[k] = e
      BY DEF TC!ToSet
    <2> HIDE DEF T, left
    <2>4. Once(q)
      <3> SUFFICES ASSUME NEW j \in DOMAIN left, NEW k \in DOMAIN left, left[j].id = left[k].id
                   PROVE  j = k
        BY <1>3 DEF Once
      <3>1. PICK a \in DOMAIN cs : cs[a] = left[j]
        BY <2>2
      <3>2. PICK b \in DOMAIN cs : cs[b] = left[k]
        BY <2>2
      <3>3. a = b
        BY <1>5, <3>1, <3>2 DEF Distinct
      <3> QED
        BY <2>2, <3>1, <3>2, <3>3 DEF Once
    <2>5. ASSUME NEW x
          PROVE  (\E k \in DOMAIN q : q[k] = x) <=> x \in IdsOf(cs) \ S
      <3>1. ASSUME NEW k \in DOMAIN left, left[k].id = x
            PROVE  x \in IdsOf(cs) \ S
        BY <2>2, <2>3, <3>1 DEF IdsOf
      <3>2. ASSUME x \in IdsOf(cs) \ S
            PROVE  \E k \in DOMAIN left : left[k].id = x
        <4>1. PICK k \in DOMAIN cs : cs[k].id = x
          BY <3>2 DEF IdsOf
        <4> QED
          BY <2>2, <2>3, <3>2, <4>1
      <3> QED
        BY <1>3, <3>1, <3>2
    <2> QED
      BY <2>4, <2>5
  <1> HIDE DEF q, left
  <1> QED
    BY <1>2, <1>3, <1>4, <1>5

\* What Settled knows after some messages, and what one more does to it.
Settlings == [done : Seq(Spoken), calls : Seq(Offers), answered : SUBSET ToolIds]
Settle(s, m) == IF m.role = "tool" THEN TC!Answered(s, m) ELSE TC!Others(s, m)
Unsettled == [done |-> <<>>, calls |-> <<>>, answered |-> {}]

\* One more message keeps the types; what it does, field by field.
LEMMA SettleIs ==
    ASSUME NEW s \in Settlings, NEW m \in Spoken
    PROVE  /\ Settle(s, m) \in Settlings
           /\ m.role = "tool" =>
                 /\ Settle(s, m).done = Append(s.done, m) /\ Settle(s, m).calls = s.calls
                 /\ Settle(s, m).answered = s.answered \cup {m.results[1]}
           /\ m.role # "tool" =>
                 /\ Settle(s, m).done = Append(s.done \o TC!Missing(s.calls, s.answered), m)
                 /\ Settle(s, m).calls = m.calls /\ Settle(s, m).answered = {}
  <1>1. CASE m.role = "tool"
    <2>1. m.results[1] \in ToolIds
      BY <1>1 DEF Spoken
    <2> DEFINE t == [s EXCEPT !.done = Append(@, m), !.answered = @ \cup {m.results[1]}]
    <2>2. Append(s.done, m) \in Seq(Spoken) /\ s.answered \cup {m.results[1]} \in SUBSET ToolIds
      BY <2>1 DEF Settlings
    <2>3. /\ t \in Settlings /\ t.done = Append(s.done, m) /\ t.calls = s.calls
          /\ t.answered = s.answered \cup {m.results[1]}
      BY <2>2 DEF Settlings
    <2>4. Settle(s, m) = t
      BY <1>1 DEF Settle, TC!Answered
    <2> HIDE DEF t
    <2> QED
      BY <1>1, <2>3, <2>4
  <1>2. CASE m.role # "tool"
    <2>1. TC!Missing(s.calls, s.answered) \in Seq(Spoken)
      <3>1. s.calls \in Seq(Offers) /\ s.answered \in SUBSET ToolIds
        BY DEF Settlings
      <3> QED
        BY <3>1, MissingIs, ToolsAre
    <2>2. m.calls \in Seq(Offers)
      BY DEF Spoken, Messages
    <2>3. Append(s.done \o TC!Missing(s.calls, s.answered), m) \in Seq(Spoken)
      BY <2>1 DEF Settlings
    <2> QED
      BY <1>2, <2>2, <2>3 DEF Settle, TC!Others, Settlings
  <1> QED
    BY <1>1, <1>2

\* The steps of Settled, and the function it recurs on.
Settles(ms) == [i \in 1 .. Len(ms) |-> [s \in Settlings |-> Settle(s, ms[i])]]
Settling(g, ms) ==
    g = [j \in 0 .. Len(ms) |->
            IF j = 0 THEN [done |-> <<>>, calls |-> <<>>, answered |-> {}]
            ELSE IF ms[j].role = "tool" THEN TC!Answered(g[j - 1], ms[j])
            ELSE TC!Others(g[j - 1], ms[j])]

\* Settled is the last of those.
LEMMA SettledSteps ==
    ASSUME NEW ms \in Seq(Spoken)
    PROVE  \E g : /\ Recurs(g, Unsettled, Settles(ms), Settlings, Len(ms))
                  /\ TC!Settled(ms) = g[Len(ms)]
  <1> DEFINE V == Settlings
             N == Len(ms)
             step == Settles(ms)
  <1>1. N \in Nat /\ \A i \in 1 .. N : ms[i] \in Spoken /\ i \in 0 .. N /\ i # 0
    OBVIOUS
  <1>2. Unsettled \in V
    <2>1. <<>> \in Seq(Spoken) /\ <<>> \in Seq(Offers)
      OBVIOUS
    <2> QED
      BY <2>1 DEF Unsettled, Settlings
  <1>3. step \in [1 .. N -> [V -> V]]
    <2>1. \A i \in 1 .. N, s \in V : Settle(s, ms[i]) \in V
      BY <1>1, SettleIs
    <2> HIDE DEF V
    <2> QED
      BY <2>1 DEF Settles, V
  <1>4. PICK g : Recurs(g, Unsettled, step, V, N)
    <2> HIDE DEF V, N, step
    <2> QED
      BY <1>1, <1>2, <1>3, Recursion
  <1>5. \A i \in 1 .. N, s \in V : step[i][s] = Settle(s, ms[i])
    BY DEF Settles
  <1> HIDE DEF step
  <1>6. Settling(g, ms)
    <2>1. ASSUME NEW i \in 1 .. N
          PROVE  g[i] = Settle(g[i - 1], ms[i])
      <3>1. g[i - 1] \in V
        <4> HIDE DEF V, N
        <4> QED
          BY <1>1, <1>4 DEF Recurs
      <3>2. g[i] = step[i][g[i - 1]]
        BY <1>4 DEF Recurs
      <3> QED
        BY <1>5, <3>1, <3>2
    <2>2. DOMAIN g = 0 .. N /\ g = [i \in DOMAIN g |-> g[i]] /\ g[0] = Unsettled
      BY <1>4 DEF Recurs
    <2>3. \A i \in 0 .. N : i # 0 => i \in 1 .. N
      BY <1>1
    <2> QED
      BY <2>1, <2>2, <2>3 DEF Settling, Settle, Unsettled
  <1> DEFINE c == CHOOSE h : Settling(h, ms)
  <1>7. Settling(c, ms) /\ TC!Settled(ms) = c[N]
    <2>1. TC!Settled(ms) = c[N]
      BY Zenon DEF TC!Settled, Settling
    <2> QED
      BY <1>6, <2>1, Zenon
  <1>8. c = g
    <2> HIDE DEF c
    <2>1. c = [i \in 0 .. N |-> c[i]] /\ c[0] = Unsettled
      BY <1>1, <1>7 DEF Settling, Unsettled
    <2>2. \A i \in 1 .. N : c[i] = Settle(c[i - 1], ms[i])
      BY <1>1, <1>7 DEF Settling, Settle
    <2>3. Solves(c, Unsettled, step, V, N)
      BY <1>5, <2>1, <2>2 DEF Solves
    <2> HIDE DEF V, N
    <2> QED
      BY <1>1, <1>4, <2>3, OneRecursion
  <1> QED
    BY <1>4, <1>7, <1>8 DEF step

\* Nothing is settled before the first message.
LEMMA SettledNone == TC!Settled(<<>>) = Unsettled
  <1>1. <<>> \in Seq(Spoken) /\ Len(<<>>) = 0
    OBVIOUS
  <1>2. PICK g : Recurs(g, Unsettled, Settles(<<>>), Settlings, 0) /\ TC!Settled(<<>>) = g[0]
    BY <1>1, SettledSteps
  <1> QED
    BY <1>2 DEF Recurs

\* One message more takes one more step.
LEMMA SettledAppend ==
    ASSUME NEW ms \in Seq(Spoken), NEW m \in Spoken
    PROVE  /\ TC!Settled(ms) \in Settlings
           /\ TC!Settled(Append(ms, m)) = Settle(TC!Settled(ms), m)
  <1> DEFINE t == Append(ms, m)
             N == Len(ms)
             V == Settlings
             short == Settles(ms)
             long == Settles(t)
  <1>1. /\ t \in Seq(Spoken) /\ Len(t) = N + 1 /\ t[N + 1] = m
        /\ N \in Nat /\ \A i \in 1 .. N : t[i] = ms[i]
    OBVIOUS
  <1> HIDE DEF t
  <1>2. PICK g : Recurs(g, Unsettled, short, V, N) /\ TC!Settled(ms) = g[N]
    BY SettledSteps
  <1>3. PICK h : Recurs(h, Unsettled, long, V, N + 1) /\ TC!Settled(t) = h[N + 1]
    BY <1>1, SettledSteps
  <1>4. ASSUME NEW i \in 1 .. N
        PROVE  short[i] = long[i]
    <2>1. i \in 1 .. Len(ms) /\ i \in 1 .. Len(t) /\ t[i] = ms[i]
      BY <1>1
    <2>2. /\ short[i] = [s \in Settlings |-> Settle(s, ms[i])]
          /\ long[i] = [s \in Settlings |-> Settle(s, t[i])]
      BY <2>1, Zenon DEF Settles
    <2> QED
      BY <2>1, <2>2
  <1>5. \A s \in V : long[N + 1][s] = Settle(s, m)
    <2>1. N + 1 \in 1 .. Len(t)
      BY <1>1
    <2>2. long[N + 1] = [s \in Settlings |-> Settle(s, t[N + 1])]
      BY <2>1, Zenon DEF Settles
    <2> QED
      BY <1>1, <2>2
  <1> HIDE DEF V, short, long, N
  <1>6. g[N] \in V /\ h[N + 1] = long[N + 1][g[N]]
    BY <1>1, <1>2, <1>3, <1>4, Prefix
  <1> QED
    BY <1>2, <1>3, <1>5, <1>6 DEF t, V

\* The elements of q.
Elements(q) == {q[k] : k \in DOMAIN q}

\* Results join those that have come.
LEMMA SettledTools ==
    ASSUME NEW ms \in Seq(Spoken), NEW q \in Seq(ToolIds)
    PROVE  LET s == TC!Settled(ms)
               t == TC!Settled(ms \o TC!Tools(q))
           IN  /\ ms \o TC!Tools(q) \in Seq(Spoken) /\ t.done = s.done \o TC!Tools(q)
               /\ t.calls = s.calls /\ t.answered = s.answered \cup Elements(q)
  <1> DEFINE s == TC!Settled(ms)
             Right(r) == LET t == TC!Settled(ms \o TC!Tools(r))
                         IN  /\ ms \o TC!Tools(r) \in Seq(Spoken) /\ t.done = s.done \o TC!Tools(r)
                             /\ t.calls = s.calls /\ t.answered = s.answered \cup Elements(r)
             X == {r \in Seq(ToolIds) : Right(r)}
  <1>1. s \in Settlings
    BY SettledAppend, ToolIs, UserIs
  <1> HIDE DEF s
  <1>2. <<>> \in X
    <2>1. TC!Tools(<<>>) = <<>> /\ Elements(<<>>) = {} /\ <<>> \in Seq(ToolIds)
      BY ToolsAre DEF Elements
    <2>2. ms \o <<>> = ms /\ s.done \o <<>> = s.done
      BY <1>1 DEF Settlings
    <2>3. Right(<<>>)
      BY <2>1, <2>2 DEF s
    <2> QED
      BY <2>1, <2>3
  <1>3. ASSUME NEW r \in X \cap Seq(ToolIds), NEW x \in ToolIds
        PROVE  Append(r, x) \in X
    <2> DEFINE m == TC!Tool(x)
               u == ms \o TC!Tools(r)
               t == TC!Settled(u)
    <2>1. /\ u \in Seq(Spoken) /\ t.done = s.done \o TC!Tools(r)
          /\ t.calls = s.calls /\ t.answered = s.answered \cup Elements(r)
      OBVIOUS
    <2>2. m \in Spoken /\ m.role = "tool" /\ m.results[1] = x
      BY ToolIs
    <2>3. Append(r, x) \in Seq(ToolIds) /\ TC!Tools(r) \in Seq(Spoken)
          /\ TC!Tools(Append(r, x)) = Append(TC!Tools(r), m)
      BY ToolsAre
    <2>4. Elements(Append(r, x)) = Elements(r) \cup {x}
      <3>1. r \in Seq(ToolIds)
        OBVIOUS
      <3> HIDE DEF X
      <3> QED
        BY <3>1, AppendDomains DEF Elements
    <2> HIDE DEF m, X
    <2>5. /\ ms \o Append(TC!Tools(r), m) = Append(u, m)
          /\ s.done \o Append(TC!Tools(r), m) = Append(s.done \o TC!Tools(r), m)
      BY <1>1, <2>2, <2>3 DEF Settlings
    <2> HIDE DEF u, t
    <2>6. Append(u, m) \in Seq(Spoken)
      BY <2>1, <2>2
    <2>7. t \in Settlings /\ TC!Settled(Append(u, m)) = Settle(t, m)
      BY <2>1, <2>2, SettledAppend DEF t
    <2>8. /\ Settle(t, m).done = Append(t.done, m) /\ Settle(t, m).calls = t.calls
          /\ Settle(t, m).answered = t.answered \cup {m.results[1]}
      BY <2>2, <2>7, SettleIs
    <2>9. Right(Append(r, x))
      BY <2>1, <2>2, <2>3, <2>4, <2>5, <2>6, <2>7, <2>8
    <2> QED
      BY <2>3, <2>9 DEF X
  <1> HIDE DEF X
  <1>4. Seq(ToolIds) \subseteq X
    BY <1>2, <1>3, Growing
  <1>5. Right(q)
    BY <1>4 DEF X
  <1> QED
    BY <1>5 DEF s

\* j is one of the results right after message i; all after i are.
After(D, i, j) == j \in i + 1 .. Len(D) /\ \A l \in i + 1 .. j : D[l].role = "tool"
AtEnd(D, i) == \A l \in i + 1 .. Len(D) : D[l].role = "tool"

\* The results right after i are those of its calls, once each; those in R are still to come.
Matched(D, R, i) ==
    /\ \A j, k \in DOMAIN D :
          After(D, i, j) /\ After(D, i, k) /\ D[j].results = D[k].results => j = k
    /\ \A x : x \in IdsOf(D[i].calls)
              <=> \/ \E j \in DOMAIN D : After(D, i, j) /\ D[j].results = <<x>>
                  \/ AtEnd(D, i) /\ x \in R
    /\ AtEnd(D, i) => \A j \in DOMAIN D, x \in R : After(D, i, j) => D[j].results # <<x>>

ResultsIn(D) == {j \in DOMAIN D : D[j].role = "tool"}
CallsIn(D)   == Joined([k \in DOMAIN D |-> D[k].calls])

\* A conversation D with the calls C, where results only of R are missing, at the end.
Told(D, R, C) ==
    /\ D \in Seq(Spoken) /\ R \in SUBSET ToolIds /\ IsFiniteSet(R) /\ C \in Seq(Offers)
    /\ \A i \in DOMAIN D : D[i].role = "assistant" => Matched(D, R, i)
    /\ Cardinality(ResultsIn(D)) + Cardinality(R) = Len(C)
    /\ CallsIn(D) = C

\* Two sets of which each element of one is one of the other's have as many.
LEMMA SameSize ==
    ASSUME NEW S, NEW T, IsFiniteSet(S), NEW f \in [S -> T],
           \A a, b \in S : f[a] = f[b] => a = b, \A t \in T : \E a \in S : f[a] = t
    PROVE  IsFiniteSet(T) /\ Cardinality(T) = Cardinality(S)
  <1>1. f \in Bijection(S, T)
    BY DEF Bijection, Injection, Surjection, IsInjective
  <1>2. ExistsBijection(S, T)
    BY <1>1 DEF ExistsBijection
  <1> QED
    BY <1>2, FS_Bijection

\* An element at the end of a concatenation.
LEMMA ConcatAppend ==
    ASSUME NEW A, NEW s \in Seq(A), NEW t \in Seq(A), NEW e \in A
    PROVE  s \o Append(t, e) = Append(s \o t, e)
  OBVIOUS

\* The calls of one message more.
LEMMA CallsAppend ==
    ASSUME NEW D \in Seq(Spoken), NEW m \in Spoken
    PROVE  CallsIn(D) \in Seq(Offers) /\ CallsIn(Append(D, m)) = CallsIn(D) \o m.calls
  <1> DEFINE F(k) == k.calls
             ss == [k \in DOMAIN D |-> F(D[k])]
  <1>1. \A k \in Spoken : F(k) \in Seq(Offers)
    BY DEF Spoken, Messages
  <1> HIDE DEF F
  <1>2. ss \in Seq(Seq(Offers)) /\ F(m) \in Seq(Offers)
    <2> DEFINE V == Seq(Offers)
    <2>1. \A k \in Spoken : F(k) \in V
      BY <1>1
    <2> HIDE DEF V
    <2>2. ss \in Seq(V) /\ F(m) \in V
      BY <2>1
    <2> QED
      BY <2>2 DEF V
  <1>3. [k \in DOMAIN Append(D, m) |-> F(Append(D, m)[k])] = Append(ss, F(m))
    OBVIOUS
  <1> HIDE DEF ss
  <1>4. Joined(ss) \in Seq(Offers) /\ Joined(Append(ss, F(m))) = Joined(ss) \o F(m)
    BY <1>2, JoinedAppend
  <1> QED
    BY <1>3, <1>4, Zenon DEF CallsIn, ss, F

\* Of nothing, nothing is missing.
LEMMA ToldNothing == Told(<<>>, {}, <<>>)
  <1>1. <<>> \in Seq(Spoken) /\ <<>> \in Seq(Offers) /\ DOMAIN <<>> = {} /\ Len(<<>>) = 0
    OBVIOUS
  <1>2. CallsIn(<<>>) = <<>>
    <2>1. [k \in {} |-> <<>>[k].calls] = <<>>
      OBVIOUS
    <2> QED
      BY <1>1, <2>1, JoinedNone DEF CallsIn
  <1>3. ResultsIn(<<>>) = {} /\ Cardinality({}) = 0 /\ IsFiniteSet({})
    BY <1>1, FS_EmptySet DEF ResultsIn
  <1> QED
    BY <1>1, <1>2, <1>3 DEF Told

\* What one message more changes of the messages after i.
LEMMA AfterAppend ==
    ASSUME NEW D \in Seq(Spoken), NEW m \in Spoken
    PROVE  LET E == Append(D, m)
           IN  /\ \A i \in DOMAIN D, j \in DOMAIN D : After(E, i, j) <=> After(D, i, j)
               /\ \A i \in DOMAIN D : After(E, i, Len(E)) <=> AtEnd(D, i) /\ m.role = "tool"
               /\ \A i \in DOMAIN D : AtEnd(E, i) <=> AtEnd(D, i) /\ m.role = "tool"
  <1> DEFINE E == Append(D, m)
  <1>1. /\ Len(D) \in Nat /\ Len(E) = Len(D) + 1 /\ E[Len(D) + 1] = m
        /\ \A l \in 1 .. Len(D) : E[l] = D[l]
        /\ DOMAIN D = 1 .. Len(D)
    OBVIOUS
  <1> HIDE DEF E
  <1>2. ASSUME NEW i \in DOMAIN D
        PROVE  \A l \in i + 1 .. Len(D) : E[l] = D[l]
    BY <1>1
  <1>3. ASSUME NEW i \in DOMAIN D, NEW j \in DOMAIN D
        PROVE  After(E, i, j) <=> After(D, i, j)
    <2>1. \A l \in i + 1 .. j : E[l] = D[l]
      BY <1>1
    <2>2. j \in i + 1 .. Len(E) <=> j \in i + 1 .. Len(D)
      BY <1>1
    <2> QED
      BY <2>1, <2>2 DEF After
  <1>4. ASSUME NEW i \in DOMAIN D
        PROVE  (\A l \in i + 1 .. Len(E) : E[l].role = "tool") <=> AtEnd(D, i) /\ m.role = "tool"
    <2>1. Len(E) \in i + 1 .. Len(E) /\ E[Len(E)] = m
      BY <1>1
    <2>2. \A l \in i + 1 .. Len(E) : l \in i + 1 .. Len(D) \/ l = Len(E)
      BY <1>1
    <2>3. \A l \in i + 1 .. Len(D) : l \in i + 1 .. Len(E)
      BY <1>1
    <2> QED
      BY <1>2, <2>1, <2>2, <2>3 DEF AtEnd
  <1>5. \A i \in DOMAIN D : Len(E) \in i + 1 .. Len(E)
    BY <1>1
  <1> QED
    BY <1>3, <1>4, <1>5 DEF After, AtEnd, E

\* One of the missing results comes.
LEMMA ToldTool ==
    ASSUME NEW D, NEW R, NEW C, Told(D, R, C), NEW x \in R
    PROVE  Told(Append(D, TC!Tool(x)), R \ {x}, C)
  <1> DEFINE m == TC!Tool(x)
             E == Append(D, m)
             S == R \ {x}
  <1>1. D \in Seq(Spoken) /\ x \in ToolIds /\ C \in Seq(Offers)
    BY DEF Told
  <1>2. m \in Spoken /\ m.role = "tool" /\ m.calls = <<>> /\ m.results = <<x>>
    BY <1>1, ToolIs
  <1> HIDE DEF m
  <1>3. /\ E \in Seq(Spoken) /\ Len(E) = Len(D) + 1 /\ E[Len(E)] = m /\ Len(D) \in Nat
        /\ \A i \in DOMAIN D : i \in DOMAIN E /\ E[i] = D[i] /\ i # Len(E)
        /\ \A i \in DOMAIN E : i \in DOMAIN D \/ i = Len(E)
        /\ Len(E) \in DOMAIN E
    BY <1>1, <1>2, AppendDomains
  <1>4. /\ \A i \in DOMAIN D, j \in DOMAIN D : After(E, i, j) <=> After(D, i, j)
        /\ \A i \in DOMAIN D : After(E, i, Len(E)) <=> AtEnd(D, i)
        /\ \A i \in DOMAIN D : AtEnd(E, i) <=> AtEnd(D, i)
    BY <1>1, <1>2, AfterAppend
  <1> HIDE DEF E
  <1>5. ASSUME NEW i \in DOMAIN E, E[i].role = "assistant"
        PROVE  Matched(E, S, i)
    <2>1. i \in DOMAIN D /\ E[i] = D[i] /\ Matched(D, R, i)
      BY <1>2, <1>3, <1>5 DEF Told
    <2>2. ASSUME NEW j \in DOMAIN E, NEW k \in DOMAIN E, After(E, i, j), After(E, i, k),
                 E[j].results = E[k].results
          PROVE  j = k
      <3>1. \A l \in DOMAIN D : After(E, i, l) /\ After(E, i, Len(E)) => D[l].results # <<x>>
        BY <1>4, <2>1 DEF Matched
      <3>2. \A a, b \in DOMAIN D : After(D, i, a) /\ After(D, i, b) /\ D[a].results = D[b].results
                                   => a = b
        BY <2>1 DEF Matched
      <3> QED
        BY <1>2, <1>3, <1>4, <2>1, <2>2, <3>1, <3>2
    <2>3. ASSUME NEW y
          PROVE  y \in IdsOf(E[i].calls)
                 <=> \/ \E j \in DOMAIN E : After(E, i, j) /\ E[j].results = <<y>>
                     \/ AtEnd(E, i) /\ y \in S
      <3>1. y \in IdsOf(E[i].calls)
            <=> \/ \E j \in DOMAIN D : After(D, i, j) /\ D[j].results = <<y>>
                \/ AtEnd(D, i) /\ y \in R
        BY <2>1 DEF Matched
      <3>2. (\E j \in DOMAIN E : After(E, i, j) /\ E[j].results = <<y>>)
            <=> \/ \E j \in DOMAIN D : After(D, i, j) /\ D[j].results = <<y>>
                \/ AtEnd(D, i) /\ y = x
        <4>1. <<y>> = <<x>> <=> y = x
          OBVIOUS
        <4> QED
          BY <1>2, <1>3, <1>4, <2>1, <4>1
      <3> QED
        BY <1>4, <2>1, <3>1, <3>2
    <2>4. ASSUME AtEnd(E, i), NEW j \in DOMAIN E, NEW y \in S, After(E, i, j)
          PROVE  E[j].results # <<y>>
      <3>1. \A l \in DOMAIN D, z \in R : After(D, i, l) => D[l].results # <<z>>
        BY <1>4, <2>1, <2>4 DEF Matched
      <3>2. <<y>> # <<x>>
        OBVIOUS
      <3> QED
        BY <1>2, <1>3, <1>4, <2>1, <2>4, <3>1, <3>2
    <2> QED
      BY <2>2, <2>3, <2>4 DEF Matched
  <1>6. Cardinality(ResultsIn(E)) + Cardinality(S) = Len(C)
    <2>1. ResultsIn(E) = ResultsIn(D) \cup {Len(E)} /\ Len(E) \notin ResultsIn(D)
      BY <1>2, <1>3 DEF ResultsIn
    <2>2. IsFiniteSet(ResultsIn(D))
      <3>1. IsFiniteSet(1 .. Len(D)) /\ ResultsIn(D) \subseteq 1 .. Len(D)
        BY <1>1, FS_Interval DEF ResultsIn
      <3> QED
        BY <3>1, FS_Subset
    <2>3. Cardinality(ResultsIn(E)) = Cardinality(ResultsIn(D)) + 1
      BY <2>1, <2>2, FS_AddElement
    <2>4. IsFiniteSet(R) /\ Cardinality(S) = Cardinality(R) - 1
      BY FS_RemoveElement DEF Told
    <2>5. Cardinality(R) \in Nat /\ Cardinality(ResultsIn(D)) \in Nat
      BY <2>2, <2>4, FS_CardinalityType
    <2> HIDE DEF S
    <2> QED
      BY <2>3, <2>4, <2>5 DEF Told
  <1>7. CallsIn(E) = C
    <2>1. CallsIn(E) = C \o <<>>
      BY <1>1, <1>2, CallsAppend DEF Told, E
    <2> QED
      BY <1>1, <2>1
  <1>8. IsFiniteSet(S) /\ S \in SUBSET ToolIds
    BY FS_RemoveElement DEF Told
  <1> HIDE DEF S
  <1>9. Told(E, S, C)
    BY <1>1, <1>3, <1>5, <1>6, <1>7, <1>8 DEF Told
  <1> QED
    BY <1>9 DEF E, S, m

\* Something else is said, when no result is missing.
LEMMA ToldOther ==
    ASSUME NEW D, NEW C, Told(D, {}, C), NEW m \in Spoken, m.role # "tool"
    PROVE  Told(Append(D, m), IdsOf(m.calls), C \o m.calls)
  <1> DEFINE E == Append(D, m)
             S == IdsOf(m.calls)
  <1>1. D \in Seq(Spoken) /\ C \in Seq(Offers) /\ m.calls \in Seq(Offers) /\ Distinct(m.calls)
    <2>1. m.calls \in Seq(Offers)
      BY DEF Spoken, Messages
    <2>2. Distinct(m.calls)
      BY DEF Spoken, Messages, Distinct
    <2> QED
      BY <2>1, <2>2 DEF Told
  <1>2. /\ E \in Seq(Spoken) /\ Len(E) = Len(D) + 1 /\ E[Len(E)] = m /\ Len(D) \in Nat
        /\ \A i \in DOMAIN D : i \in DOMAIN E /\ E[i] = D[i] /\ i # Len(E)
        /\ \A i \in DOMAIN E : i \in DOMAIN D \/ i = Len(E)
        /\ Len(E) \in DOMAIN E
    BY <1>1, AppendDomains
  <1>3. /\ \A i \in DOMAIN D, j \in DOMAIN D : After(E, i, j) <=> After(D, i, j)
        /\ \A i \in DOMAIN D : ~After(E, i, Len(E))
        /\ \A i \in DOMAIN D : ~AtEnd(E, i)
    BY <1>1, AfterAppend
  <1> HIDE DEF E
  <1>4. ASSUME NEW i \in DOMAIN E, E[i].role = "assistant"
        PROVE  Matched(E, S, i)
    <2>1. CASE i \in DOMAIN D
      <3>1. E[i] = D[i] /\ Matched(D, {}, i)
        BY <1>2, <1>4, <2>1 DEF Told
      <3>2. \A j \in DOMAIN E : After(E, i, j) => j \in DOMAIN D
        BY <1>2, <1>3, <2>1
      <3>3. /\ \A j, k \in DOMAIN D :
                  After(D, i, j) /\ After(D, i, k) /\ D[j].results = D[k].results => j = k
            /\ \A x : x \in IdsOf(D[i].calls)
                      <=> \E j \in DOMAIN D : After(D, i, j) /\ D[j].results = <<x>>
        BY <3>1 DEF Matched
      <3>4. ASSUME NEW x
            PROVE  (\E j \in DOMAIN E : After(E, i, j) /\ E[j].results = <<x>>)
                   <=> \E j \in DOMAIN D : After(D, i, j) /\ D[j].results = <<x>>
        BY <1>2, <1>3, <2>1, <3>2
      <3>5. \A j, k \in DOMAIN E :
               After(E, i, j) /\ After(E, i, k) /\ E[j].results = E[k].results => j = k
        BY <1>2, <1>3, <2>1, <3>2, <3>3
      <3> QED
        BY <1>3, <2>1, <3>1, <3>3, <3>4, <3>5 DEF Matched
    <2>2. CASE i = Len(E)
      <3>1. /\ E[i] = m /\ AtEnd(E, i) /\ \A j \in DOMAIN E : ~After(E, i, j)
        BY <1>2, <2>2 DEF AtEnd, After
      <3> QED
        BY <3>1 DEF Matched
    <2> QED
      BY <1>2, <2>1, <2>2
  <1>5. IsFiniteSet(S) /\ Cardinality(S) = Len(m.calls) /\ S \in SUBSET ToolIds
    <2> DEFINE cs == m.calls
               f == [k \in 1 .. Len(cs) |-> cs[k].id]
    <2>1. DOMAIN cs = 1 .. Len(cs) /\ Len(cs) \in Nat /\ \A k \in DOMAIN cs : cs[k] \in Offers
      BY <1>1
    <2> HIDE DEF cs
    <2>2. \A j, k \in 1 .. Len(cs) : cs[j].id = cs[k].id => j = k
      BY <1>1, <2>1 DEF Distinct, cs
    <2>3. f \in [1 .. Len(cs) -> S] /\ (\A a, b \in 1 .. Len(cs) : f[a] = f[b] => a = b)
          /\ \A t \in S : \E a \in 1 .. Len(cs) : f[a] = t
      <3>1. S = {cs[k].id : k \in 1 .. Len(cs)}
        BY <2>1 DEF IdsOf, cs
      <3>2. f \in [1 .. Len(cs) -> S]
        BY <3>1
      <3>3. \A a, b \in 1 .. Len(cs) : f[a] = f[b] => a = b
        BY <2>2
      <3>4. \A t \in S : \E a \in 1 .. Len(cs) : f[a] = t
        BY <3>1
      <3> QED
        BY <3>2, <3>3, <3>4
    <2>4. IsFiniteSet(1 .. Len(cs)) /\ Cardinality(1 .. Len(cs)) = Len(cs)
      BY <2>1, FS_Interval
    <2>5. IsFiniteSet(S) /\ Cardinality(S) = Cardinality(1 .. Len(cs))
      <3> DEFINE T == 1 .. Len(cs)
      <3> HIDE DEF S, f, T
      <3> QED
        BY <2>3, <2>4, SameSize DEF T
    <2>6. \A k \in DOMAIN cs : cs[k].id \in ToolIds
      BY <2>1 DEF Offers
    <2>7. S \in SUBSET ToolIds
      BY <2>6 DEF IdsOf, cs
    <2> QED
      BY <2>4, <2>5, <2>7 DEF cs
  <1>6. Cardinality(ResultsIn(E)) + Cardinality(S) = Len(C \o m.calls)
    <2>1. ResultsIn(E) = ResultsIn(D)
      BY <1>2 DEF ResultsIn
    <2>2. Cardinality({}) = 0
      BY FS_EmptySet
    <2>3. Cardinality(ResultsIn(D)) + 0 = Len(C)
      BY <2>2 DEF Told
    <2>4. Len(C \o m.calls) = Len(C) + Len(m.calls)
      BY <1>1
    <2>5. Cardinality(ResultsIn(D)) \in Nat
      <3>1. IsFiniteSet(1 .. Len(D)) /\ ResultsIn(D) \subseteq 1 .. Len(D)
        BY <1>1, FS_Interval DEF ResultsIn
      <3> QED
        BY <3>1, FS_Subset, FS_CardinalityType
    <2> HIDE DEF S
    <2> QED
      BY <1>1, <1>5, <2>1, <2>3, <2>4, <2>5
  <1>7. CallsIn(E) = C \o m.calls /\ C \o m.calls \in Seq(Offers)
    <2>1. CallsIn(D) = C
      BY DEF Told
    <2>2. CallsIn(E) = CallsIn(D) \o m.calls
      BY <1>1, CallsAppend DEF E
    <2> QED
      BY <1>1, <2>1, <2>2
  <1> HIDE DEF S
  <1>8. Told(E, S, C \o m.calls)
    BY <1>2, <1>4, <1>5, <1>6, <1>7 DEF Told
  <1> QED
    BY <1>8 DEF E, S

\* Several of the missing results come.
LEMMA ToldTools ==
    ASSUME NEW D, NEW R, NEW C, Told(D, R, C),
           NEW q \in Seq(ToolIds), Once(q), Elements(q) \subseteq R
    PROVE  Told(D \o TC!Tools(q), R \ Elements(q), C)
  <1> DEFINE Right(r) == Once(r) /\ Elements(r) \subseteq R
                            => Told(D \o TC!Tools(r), R \ Elements(r), C)
             X == {r \in Seq(ToolIds) : Right(r)}
  <1>1. <<>> \in X
    <2>1. TC!Tools(<<>>) = <<>> /\ Elements(<<>>) = {} /\ <<>> \in Seq(ToolIds)
      BY ToolsAre DEF Elements
    <2>2. D \o <<>> = D /\ R \ {} = R
      BY DEF Told
    <2> QED
      BY <2>1, <2>2
  <1>2. ASSUME NEW r \in X \cap Seq(ToolIds), NEW x \in ToolIds
        PROVE  Append(r, x) \in X
    <2>1. r \in Seq(ToolIds) /\ Right(r)
      OBVIOUS
    <2> HIDE DEF X
    <2>2. /\ Append(r, x) \in Seq(ToolIds) /\ TC!Tools(r) \in Seq(Spoken)
          /\ TC!Tools(Append(r, x)) = Append(TC!Tools(r), TC!Tool(x))
      BY <2>1, ToolsAre
    <2>3. ASSUME Once(Append(r, x)), Elements(Append(r, x)) \subseteq R
          PROVE  Told(D \o TC!Tools(Append(r, x)), R \ Elements(Append(r, x)), C)
      <3>1. Elements(Append(r, x)) = Elements(r) \cup {x}
        BY <2>1, AppendDomains DEF Elements
      <3>2. Once(r) /\ x \notin Elements(r)
        BY <2>1, <2>3, AppendDomains DEF Once, Elements
      <3>3. Told(D \o TC!Tools(r), R \ Elements(r), C)
        BY <2>1, <2>3, <3>1, <3>2
      <3>4. x \in R \ Elements(r) /\ (R \ Elements(r)) \ {x} = R \ Elements(Append(r, x))
        BY <2>3, <3>1, <3>2
      <3>5. Told(Append(D \o TC!Tools(r), TC!Tool(x)), (R \ Elements(r)) \ {x}, C)
        <4> DEFINE E == D \o TC!Tools(r)
                   S == R \ Elements(r)
        <4>1. Told(E, S, C) /\ x \in S
          BY <3>3, <3>4
        <4> HIDE DEF E, S
        <4>2. Told(Append(E, TC!Tool(x)), S \ {x}, C)
          BY <4>1, ToldTool
        <4> QED
          BY <4>2 DEF E, S
      <3>6. Append(D \o TC!Tools(r), TC!Tool(x)) = D \o Append(TC!Tools(r), TC!Tool(x))
        <4> DEFINE t == TC!Tools(r)
                   m == TC!Tool(x)
        <4>1. D \in Seq(Spoken) /\ m \in Spoken /\ t \in Seq(Spoken)
          BY <2>2, ToolIs DEF Told
        <4> HIDE DEF t, m
        <4>2. D \o Append(t, m) = Append(D \o t, m)
          BY <4>1, ConcatAppend
        <4> QED
          BY <4>2 DEF t, m
      <3> QED
        BY <2>2, <3>4, <3>5, <3>6
    <2> QED
      BY <2>2, <2>3 DEF X
  <1> HIDE DEF X
  <1>3. Seq(ToolIds) \subseteq X
    BY <1>1, <1>2, Growing
  <1> QED
    BY <1>3 DEF X

\* What Settled makes of ms is told, but for the results that have not come.
Lacking(ms) == IdsOf(TC!Settled(ms).calls) \ TC!Settled(ms).answered
Tells(ms, C) ==
    /\ ms \in Seq(Spoken) /\ Distinct(TC!Settled(ms).calls)
    /\ Told(TC!Settled(ms).done, Lacking(ms), C)

\* Before the first message.
LEMMA TellsNothing == Tells(<<>>, <<>>)
  <1> DEFINE s == TC!Settled(<<>>)
  <1>1. s.calls = <<>> /\ s.done = <<>> /\ <<>> \in Seq(Spoken)
    BY SettledNone DEF Unsettled
  <1>2. IdsOf(<<>>) = {} /\ Distinct(<<>>)
    BY DEF IdsOf, Distinct
  <1> QED
    BY <1>1, <1>2, ToldNothing DEF Tells, Lacking

\* The results that are missing are made up.
LEMMA MissingTold ==
    ASSUME NEW ms, NEW C, Tells(ms, C)
    PROVE  LET s == TC!Settled(ms)
           IN  Told(s.done \o TC!Missing(s.calls, s.answered), {}, C)
  <1> DEFINE s == TC!Settled(ms)
             R == Lacking(ms)
  <1>1. ms \in Seq(Spoken) /\ Told(s.done, R, C) /\ Distinct(s.calls)
    BY DEF Tells
  <1>2. s \in Settlings
    BY <1>1, UserIs, SettledAppend
  <1>3. s.calls \in Seq(Offers) /\ s.answered \in SUBSET ToolIds
    BY <1>2 DEF Settlings
  <1>4. R = IdsOf(s.calls) \ s.answered
    BY DEF Lacking
  <1> HIDE DEF s, R
  <1>5. PICK q \in Seq(ToolIds) :
           /\ TC!Missing(s.calls, s.answered) = TC!Tools(q) /\ Once(q)
           /\ \A x : (\E k \in DOMAIN q : q[k] = x) <=> x \in IdsOf(s.calls) \ s.answered
    BY <1>1, <1>3, MissingIs
  <1>6. Elements(q) = R
    BY <1>4, <1>5 DEF Elements
  <1>7. Told(s.done \o TC!Tools(q), R \ Elements(q), C)
    BY <1>1, <1>5, <1>6, ToldTools
  <1>8. Told(s.done \o TC!Missing(s.calls, s.answered), {}, C)
    BY <1>5, <1>6, <1>7
  <1> QED
    BY <1>8 DEF s

\* What FixMissingToolResponses gives lacks no result.
LEMMA FixedTold ==
    ASSUME NEW ms, NEW C, Tells(ms, C)
    PROVE  Told(TC!FixMissingToolResponses(ms), {}, C)
  BY MissingTold, Zenon DEF TC!FixMissingToolResponses

\* Something else is said.
LEMMA TellsOther ==
    ASSUME NEW ms, NEW C, Tells(ms, C), NEW m \in Spoken, m.role # "tool"
    PROVE  Tells(Append(ms, m), C \o m.calls) /\ Lacking(Append(ms, m)) = IdsOf(m.calls)
  <1> DEFINE s == TC!Settled(ms)
             t == TC!Settled(Append(ms, m))
             D == s.done \o TC!Missing(s.calls, s.answered)
  <1>1. ms \in Seq(Spoken) /\ Append(ms, m) \in Seq(Spoken)
    BY DEF Tells
  <1>2. s \in Settlings /\ t = Settle(s, m)
    BY <1>1, SettledAppend
  <1>3. Told(D, {}, C)
    BY MissingTold
  <1> HIDE DEF s, t
  <1>4. t.done = Append(D, m) /\ t.calls = m.calls /\ t.answered = {}
    BY <1>2, SettleIs
  <1> HIDE DEF D
  <1>5. Told(Append(D, m), IdsOf(m.calls), C \o m.calls)
    BY <1>3, ToldOther
  <1>6. Distinct(m.calls)
    BY DEF Spoken, Messages, Distinct
  <1>7. Lacking(Append(ms, m)) = IdsOf(m.calls)
    BY <1>4 DEF Lacking, t
  <1> QED
    BY <1>1, <1>4, <1>5, <1>6, <1>7 DEF Tells, t

\* Results come.
LEMMA TellsTools ==
    ASSUME NEW ms, NEW C, Tells(ms, C),
           NEW q \in Seq(ToolIds), Once(q), Elements(q) \subseteq Lacking(ms)
    PROVE  Tells(ms \o TC!Tools(q), C)
  <1> DEFINE s == TC!Settled(ms)
             t == TC!Settled(ms \o TC!Tools(q))
  <1>1. ms \in Seq(Spoken) /\ Distinct(s.calls) /\ Told(s.done, Lacking(ms), C)
    BY DEF Tells
  <1>2. /\ ms \o TC!Tools(q) \in Seq(Spoken) /\ t.done = s.done \o TC!Tools(q)
        /\ t.calls = s.calls /\ t.answered = s.answered \cup Elements(q)
    BY <1>1, SettledTools
  <1>3. Told(s.done \o TC!Tools(q), Lacking(ms) \ Elements(q), C)
    <2> HIDE DEF s, t
    <2> QED
      BY <1>1, ToldTools
  <1>4. Lacking(ms \o TC!Tools(q)) = Lacking(ms) \ Elements(q)
    BY <1>2 DEF Lacking
  <1> QED
    BY <1>1, <1>2, <1>3, <1>4 DEF Tells

-----------------------------------------------------------------------------
\* The client's messages.
Turns ==
    {m \in Messages :
        /\ m.role # "tool"
        /\ m.role = "user" => m.calls = <<>> /\ (m.text \/ m.results # <<>>)
        /\ m.role = "assistant" =>
              m.results = <<>> /\ (m.text \/ m.think) /\ ~(m.text /\ m.think) /\ Distinct(m.calls)}

ClaudeList(h) == Joined([k \in DOMAIN h |-> TC!ConvertClaudeMessage(h[k])])
OwnList(h)    == Joined([k \in DOMAIN h |-> TC!OwnMessages(h[k])])

\* A message with results, and one without.
LEMMA TurnIs ==
    ASSUME NEW m \in Turns
    PROVE  /\ m.results # <<>> => /\ m.role = "user" /\ m.results \in Seq(ToolIds)
                                  /\ TC!Tools(m.results) \in Seq(Spoken)
           /\ m.results = <<>> =>
                 /\ m \in Spoken /\ [m EXCEPT !.think = FALSE] \in Messages
                 /\ m.text => [m EXCEPT !.think = FALSE] \in Spoken
                 /\ [m EXCEPT !.think = FALSE].role = m.role
                 /\ [m EXCEPT !.think = FALSE].calls = m.calls
  <1>1. CASE m.results # <<>>
    <2>1. m.role = "user" /\ m.results \in Seq(ToolIds)
      BY <1>1 DEF Turns, Messages
    <2> QED
      BY <1>1, <2>1, ToolsAre
  <1>2. CASE m.results = <<>>
    <2>1. m \in Spoken
      BY <1>2 DEF Turns, Messages, Spoken
    <2> DEFINE t == [m EXCEPT !.think = FALSE]
    <2>2. /\ t \in Messages /\ t.role = m.role /\ t.calls = m.calls /\ t.results = m.results
          /\ t.text = m.text /\ ~t.think
      BY DEF Turns, Messages
    <2> HIDE DEF t
    <2>3. m.text => t \in Spoken
      BY <1>2, <2>1, <2>2 DEF Turns, Spoken
    <2> QED
      BY <1>2, <2>1, <2>2, <2>3 DEF t
  <1> QED
    BY <1>1, <1>2

\* A message's results come first.
LEMMA ConvertResults ==
    ASSUME NEW m, m.results # <<>>
    PROVE  LET u == IF m.text THEN <<TC!User(TRUE, <<>>)>> ELSE <<>>
           IN  /\ TC!ConvertClaudeMessage(m) = TC!Tools(m.results) \o u
               /\ TC!OwnMessages(m) = TC!Tools(m.results) \o u
  <1> DEFINE e == <<>>
             w == TC!User(TRUE, e)
             u == IF m.text THEN <<w>> ELSE e
             t == TC!Tools(m.results)
             v == <<[m EXCEPT !.think = FALSE]>>
  <1>1. /\ TC!ConvertClaudeMessage(m)
             = IF m.results # e THEN t \o u
               ELSE IF m.calls # e THEN <<m>> ELSE IF m.text THEN v ELSE e
        /\ TC!OwnMessages(m) = IF m.results = e THEN <<m>> ELSE t \o u
    BY Zenon DEF TC!ConvertClaudeMessage, TC!OwnMessages
  <1> HIDE DEF e, u, t, v
  <1>2. m.results # e
    BY DEF e
  <1>3. TC!ConvertClaudeMessage(m) = t \o u /\ TC!OwnMessages(m) = t \o u
    BY <1>1, <1>2
  <1> QED
    BY <1>3, Zenon DEF e, u, t, w

\* A message without results is itself, or what remains without its thinking.
LEMMA ConvertOther ==
    ASSUME NEW m, m.results = <<>>
    PROVE  LET v == [m EXCEPT !.think = FALSE]
           IN  /\ m.calls # <<>> => TC!ConvertClaudeMessage(m) = <<m>>
               /\ m.calls = <<>> => TC!ConvertClaudeMessage(m) = IF m.text THEN <<v>> ELSE <<>>
               /\ TC!ConvertClaudeMessage(m) \in {<<m>>, IF m.text THEN <<v>> ELSE <<>>}
  <1> DEFINE e == <<>>
             a == TC!Tools(m.results) \o (IF m.text THEN <<TC!User(TRUE, e)>> ELSE e)
             v == [m EXCEPT !.think = FALSE]
             w == <<v>>
             n == <<m>>
  <1>1. TC!ConvertClaudeMessage(m)
           = IF m.results # e THEN a ELSE IF m.calls # e THEN n ELSE IF m.text THEN w ELSE e
    BY Zenon DEF TC!ConvertClaudeMessage
  <1> HIDE DEF e, a, v, w, n
  <1>2. m.results = e
    BY DEF e
  <1>3. /\ m.calls # e => TC!ConvertClaudeMessage(m) = n
        /\ m.calls = e => TC!ConvertClaudeMessage(m) = IF m.text THEN w ELSE e
    BY <1>1, <1>2
  <1>4. TC!ConvertClaudeMessage(m) \in {n, IF m.text THEN w ELSE e}
    BY <1>3
  <1> QED
    BY <1>3, <1>4, Zenon DEF e, v, w, n

\* What becomes of a message is spoken.
LEMMA TurnsSpoken ==
    ASSUME NEW m \in Turns
    PROVE  TC!ConvertClaudeMessage(m) \in Seq(Spoken) /\ TC!OwnMessages(m) \in Seq(Spoken)
  <1> DEFINE u == IF m.text THEN <<TC!User(TRUE, <<>>)>> ELSE <<>>
  <1>1. u \in Seq(Spoken)
    <2> DEFINE w == TC!User(TRUE, <<>>)
    <2>1. w \in Spoken
      BY UserIs
    <2> HIDE DEF w
    <2>2. <<w>> \in Seq(Spoken) /\ <<>> \in Seq(Spoken)
      BY <2>1
    <2> QED
      BY <2>2 DEF w
  <1>2. CASE m.results # <<>>
    <2> DEFINE t == TC!Tools(m.results)
    <2>1. t \in Seq(Spoken)
      BY <1>2, TurnIs
    <2>2. TC!ConvertClaudeMessage(m) = t \o u /\ TC!OwnMessages(m) = t \o u
      BY <1>2, ConvertResults
    <2> HIDE DEF t, u
    <2> QED
      BY <1>1, <2>1, <2>2
  <1>3. CASE m.results = <<>>
    <2> DEFINE v == [m EXCEPT !.think = FALSE]
    <2>1. m \in Spoken /\ (m.text => v \in Spoken)
      BY <1>3, TurnIs
    <2>2. TC!OwnMessages(m) = <<m>>
      BY <1>3 DEF TC!OwnMessages
    <2>3. TC!ConvertClaudeMessage(m) \in {<<m>>, IF m.text THEN <<v>> ELSE <<>>}
      BY <1>3, ConvertOther
    <2> HIDE DEF v
    <2>4. <<m>> \in Seq(Spoken) /\ <<>> \in Seq(Spoken) /\ (m.text => <<v>> \in Seq(Spoken))
      BY <2>1
    <2>5. (IF m.text THEN <<v>> ELSE <<>>) \in Seq(Spoken)
      BY <2>4, Zenon
    <2> QED
      BY <2>2, <2>3, <2>4, <2>5, Zenon
  <1> QED
    BY <1>2, <1>3

\* One message more.
LEMMA ListsAppend ==
    ASSUME NEW h \in Seq(Turns), NEW m \in Turns
    PROVE  /\ ClaudeList(h) \in Seq(Spoken) /\ OwnList(h) \in Seq(Spoken)
           /\ ClaudeList(Append(h, m)) = ClaudeList(h) \o TC!ConvertClaudeMessage(m)
           /\ OwnList(Append(h, m)) = OwnList(h) \o TC!OwnMessages(m)
  <1> DEFINE V == Seq(Spoken)
             F(k) == TC!ConvertClaudeMessage(k)
             G(k) == TC!OwnMessages(k)
             f == [k \in DOMAIN h |-> F(h[k])]
             g == [k \in DOMAIN h |-> G(h[k])]
  <1>1. \A k \in Turns : F(k) \in V /\ G(k) \in V
    BY TurnsSpoken
  <1> HIDE DEF V, F, G
  <1>2. f \in Seq(V) /\ F(m) \in V
    BY <1>1
  <1>3. g \in Seq(V) /\ G(m) \in V
    BY <1>1
  <1>4. [k \in DOMAIN Append(h, m) |-> F(Append(h, m)[k])] = Append(f, F(m))
    OBVIOUS
  <1>5. [k \in DOMAIN Append(h, m) |-> G(Append(h, m)[k])] = Append(g, G(m))
    OBVIOUS
  <1> HIDE DEF f, g
  <1>6. Joined(f) \in V /\ Joined(Append(f, F(m))) = Joined(f) \o F(m)
    BY <1>2, JoinedAppend DEF V
  <1>7. Joined(g) \in V /\ Joined(Append(g, G(m))) = Joined(g) \o G(m)
    BY <1>3, JoinedAppend DEF V
  <1>8. ClaudeList(h) = Joined(f) /\ OwnList(h) = Joined(g)
    BY Zenon DEF ClaudeList, OwnList, f, g, F, G
  <1>9. /\ ClaudeList(Append(h, m)) = Joined(Append(f, F(m)))
        /\ OwnList(Append(h, m)) = Joined(Append(g, G(m)))
    BY <1>4, <1>5, Zenon DEF ClaudeList, OwnList, F, G
  <1> QED
    BY <1>6, <1>7, <1>8, <1>9 DEF F, G, V

\* The conversation as it is told: o are the calls the client may still answer.
Fine(cl, h, o, C) ==
    IF cl = "claude"
    THEN /\ Tells(ClaudeList(h), C)
         /\ o # <<>> => IdsOf(o) = Lacking(ClaudeList(h))
    ELSE Told(OwnList(h), IdsOf(o), C)

\* There is nothing to tell.
LEMMA FineNothing == \A cl : Fine(cl, <<>>, <<>>, <<>>)
  <1>1. ClaudeList(<<>>) = <<>> /\ OwnList(<<>>) = <<>>
    <2>1. /\ [k \in DOMAIN <<>> |-> TC!ConvertClaudeMessage(<<>>[k])] = <<>>
          /\ [k \in DOMAIN <<>> |-> TC!OwnMessages(<<>>[k])] = <<>>
      OBVIOUS
    <2> QED
      BY <2>1, JoinedNone, Zenon DEF ClaudeList, OwnList
  <1>2. IdsOf(<<>>) = {}
    BY DEF IdsOf
  <1> QED
    BY <1>1, <1>2, TellsNothing, ToldNothing DEF Fine

\* The user says something.
LEMMA FineText ==
    ASSUME NEW cl, NEW h \in Seq(Turns), NEW o, NEW C, Fine(cl, h, o, C), cl = "claude" \/ o = <<>>,
           NEW m \in Turns, m.role = "user", m.results = <<>>
    PROVE  Fine(cl, Append(h, m), <<>>, C)
  <1> DEFINE v == [m EXCEPT !.think = FALSE]
  <1>1. /\ m \in Spoken /\ v \in Spoken /\ m.calls = <<>> /\ v.role = "user" /\ v.calls = <<>>
        /\ m.text
    <2>1. m.text /\ m.calls = <<>>
      BY DEF Turns
    <2> QED
      BY <2>1, TurnIs
  <1>2. TC!OwnMessages(m) = <<m>> /\ TC!ConvertClaudeMessage(m) = <<v>>
    BY <1>1 DEF TC!OwnMessages, TC!ConvertClaudeMessage
  <1> HIDE DEF v
  <1>3. /\ ClaudeList(h) \in Seq(Spoken) /\ OwnList(h) \in Seq(Spoken)
        /\ ClaudeList(Append(h, m)) = ClaudeList(h) \o <<v>>
        /\ OwnList(Append(h, m)) = OwnList(h) \o <<m>>
    BY <1>2, ListsAppend
  <1>4. IdsOf(<<>>) = {}
    BY DEF IdsOf
  <1>5. CASE cl = "claude"
    <2>1. Tells(ClaudeList(h), C)
      BY <1>5 DEF Fine
    <2>2. Tells(Append(ClaudeList(h), v), C \o v.calls)
      BY <1>1, <2>1, TellsOther
    <2>3. C \o v.calls = C
      BY <1>1, <2>1 DEF Tells, Told
    <2>4. ClaudeList(h) \o <<v>> = Append(ClaudeList(h), v)
      BY <1>1, <1>3
    <2> QED
      BY <1>3, <1>5, <2>2, <2>3, <2>4 DEF Fine
  <1>6. CASE cl # "claude"
    <2>1. Told(OwnList(h), {}, C)
      BY <1>4, <1>6 DEF Fine
    <2>2. Told(Append(OwnList(h), m), IdsOf(m.calls), C \o m.calls)
      BY <1>1, <2>1, ToldOther
    <2>3. C \o m.calls = C
      BY <1>1, <2>1 DEF Told
    <2>4. OwnList(h) \o <<m>> = Append(OwnList(h), m)
      BY <1>1, <1>3
    <2> QED
      BY <1>1, <1>3, <1>6, <2>2, <2>3, <2>4 DEF Fine
  <1> QED
    BY <1>5, <1>6

\* Nothing, or one element more, after a concatenation.
LEMMA ConcatOne ==
    ASSUME NEW A, NEW s \in Seq(A), NEW t \in Seq(A), NEW e \in A
    PROVE  s \o (t \o <<e>>) = Append(s \o t, e) /\ s \o (t \o <<>>) = s \o t /\ s \o t \in Seq(A)
  OBVIOUS

\* The client answers calls.
LEMMA FineResults ==
    ASSUME NEW cl, NEW h \in Seq(Turns), NEW o, NEW C, Fine(cl, h, o, C), o # <<>>,
           NEW m \in Turns, m.results # <<>>, Once(m.results),
           Elements(m.results) \subseteq IdsOf(o),
           cl # "claude" => Elements(m.results) = IdsOf(o)
    PROVE  Fine(cl, Append(h, m), <<>>, C)
  <1> DEFINE q == m.results
             t == TC!Tools(q)
             w == TC!User(TRUE, <<>>)
             u == IF m.text THEN <<w>> ELSE <<>>
  <1>1. q \in Seq(ToolIds) /\ t \in Seq(Spoken)
    BY TurnIs
  <1>2. w \in Spoken /\ w.role = "user" /\ w.calls = <<>>
    BY UserIs
  <1>3. TC!OwnMessages(m) = t \o u /\ TC!ConvertClaudeMessage(m) = t \o u
    BY ConvertResults
  <1> HIDE DEF u
  <1>4. /\ ClaudeList(h) \in Seq(Spoken) /\ OwnList(h) \in Seq(Spoken)
        /\ ClaudeList(Append(h, m)) = ClaudeList(h) \o (t \o u)
        /\ OwnList(Append(h, m)) = OwnList(h) \o (t \o u)
    BY <1>3, ListsAppend
  <1> HIDE DEF q, t, w
  <1>5. u = IF m.text THEN <<w>> ELSE <<>>
    BY DEF u, w
  <1>6. CASE cl = "claude"
    <2> DEFINE ms == ClaudeList(h)
    <2>1. Tells(ms, C) /\ IdsOf(o) = Lacking(ms)
      BY <1>6 DEF Fine
    <2> HIDE DEF ms
    <2>2. Once(q) /\ Elements(q) \subseteq Lacking(ms)
      BY <2>1 DEF q
    <2>3. Tells(ms \o t, C)
      BY <1>1, <2>1, <2>2, TellsTools DEF t
    <2>4. Tells(Append(ms \o t, w), C \o w.calls)
      BY <1>2, <2>3, TellsOther
    <2>5. C \o w.calls = C
      BY <1>2, <2>1 DEF Tells, Told
    <2>6. /\ ms \o (t \o <<w>>) = Append(ms \o t, w) /\ ms \o (t \o <<>>) = ms \o t
      BY <1>1, <1>2, <1>4, ConcatOne DEF ms
    <2>7. Tells(ms \o (t \o u), C)
      BY <1>5, <2>3, <2>4, <2>5, <2>6
    <2> QED
      BY <1>4, <1>6, <2>7 DEF Fine, ms
  <1>7. CASE cl # "claude"
    <2> DEFINE D == OwnList(h)
               R == IdsOf(o)
    <2>1. Told(D, R, C) /\ Elements(q) = R
      BY <1>7 DEF Fine, q
    <2> HIDE DEF D, R
    <2>2. Once(q)
      BY DEF q
    <2>3. Told(D \o t, R \ Elements(q), C)
      BY <1>1, <2>1, <2>2, ToldTools DEF t
    <2>4. Told(D \o t, {}, C)
      BY <2>1, <2>3
    <2>5. Told(Append(D \o t, w), IdsOf(w.calls), C \o w.calls)
      BY <1>2, <2>4, ToldOther
    <2>6. C \o w.calls = C /\ IdsOf(w.calls) = {} /\ IdsOf(<<>>) = {}
      BY <1>2, <2>1 DEF Told, IdsOf
    <2>7. /\ D \o (t \o <<w>>) = Append(D \o t, w) /\ D \o (t \o <<>>) = D \o t
      BY <1>1, <1>2, <1>4, ConcatOne DEF D
    <2>8. Told(D \o (t \o u), {}, C)
      BY <1>5, <2>4, <2>5, <2>6, <2>7
    <2> QED
      BY <1>4, <1>7, <2>6, <2>8 DEF Fine, D
  <1> QED
    BY <1>6, <1>7

\* The upstream answers, when no call waits for a result.
LEMMA FineAnswer ==
    ASSUME NEW cl, NEW h \in Seq(Turns), NEW C, Fine(cl, h, <<>>, C),
           NEW m \in Turns, m.role = "assistant"
    PROVE  Fine(cl, Append(h, m), m.calls, C \o m.calls)
  <1> DEFINE v == [m EXCEPT !.think = FALSE]
  <1>1. m.results = <<>> /\ m \in Spoken /\ (m.text => v \in Spoken) /\ v.role = "assistant"
        /\ v.calls = m.calls
    <2>1. m.results = <<>>
      BY DEF Turns
    <2> QED
      BY <2>1, TurnIs
  <1>2. /\ TC!OwnMessages(m) = <<m>>
        /\ m.calls # <<>> => TC!ConvertClaudeMessage(m) = <<m>>
        /\ m.calls = <<>> => TC!ConvertClaudeMessage(m) = IF m.text THEN <<v>> ELSE <<>>
    BY <1>1, ConvertOther DEF TC!OwnMessages
  <1> HIDE DEF v
  <1>3. /\ ClaudeList(h) \in Seq(Spoken) /\ OwnList(h) \in Seq(Spoken)
        /\ ClaudeList(Append(h, m)) = ClaudeList(h) \o TC!ConvertClaudeMessage(m)
        /\ OwnList(Append(h, m)) = OwnList(h) \o <<m>>
    BY <1>2, ListsAppend
  <1>4. \A s \in Seq(Spoken), e \in Spoken : s \o <<e>> = Append(s, e) /\ s \o <<>> = s
    OBVIOUS
  <1>5. CASE cl = "claude"
    <2> DEFINE ms == ClaudeList(h)
    <2>1. Tells(ms, C)
      BY <1>5 DEF Fine
    <2> HIDE DEF ms
    <2>2. CASE m.calls # <<>>
      <3>1. Tells(Append(ms, m), C \o m.calls) /\ Lacking(Append(ms, m)) = IdsOf(m.calls)
        BY <1>1, <2>1, TellsOther
      <3>2. ClaudeList(Append(h, m)) = Append(ms, m)
        BY <1>1, <1>2, <1>3, <1>4, <2>2 DEF ms
      <3> QED
        BY <1>5, <3>1, <3>2 DEF Fine
    <2>3. CASE m.calls = <<>> /\ m.text
      <3>1. Tells(Append(ms, v), C \o v.calls)
        BY <1>1, <2>1, <2>3, TellsOther
      <3>2. ClaudeList(Append(h, m)) = Append(ms, v)
        BY <1>1, <1>2, <1>3, <1>4, <2>3 DEF ms
      <3> QED
        BY <1>1, <1>5, <2>3, <3>1, <3>2 DEF Fine
    <2>4. CASE m.calls = <<>> /\ ~m.text
      <3>1. C \o m.calls = C
        BY <2>1, <2>4 DEF Tells, Told
      <3>2. ClaudeList(Append(h, m)) = ms
        BY <1>1, <1>2, <1>3, <1>4, <2>4 DEF ms
      <3> QED
        BY <1>5, <2>1, <2>4, <3>1, <3>2 DEF Fine
    <2> QED
      BY <2>2, <2>3, <2>4
  <1>6. CASE cl # "claude"
    <2>1. IdsOf(<<>>) = {}
      BY DEF IdsOf
    <2>2. Told(OwnList(h), {}, C)
      BY <1>6, <2>1 DEF Fine
    <2>3. Told(Append(OwnList(h), m), IdsOf(m.calls), C \o m.calls)
      BY <1>1, <2>2, ToldOther
    <2>4. OwnList(Append(h, m)) = Append(OwnList(h), m)
      BY <1>1, <1>3, <1>4
    <2> QED
      BY <1>6, <2>3, <2>4 DEF Fine
  <1> QED
    BY <1>5, <1>6

-----------------------------------------------------------------------------
\* A call as the upstream made it, and as the client was given it.
MadeCalls    == [name : {TC!Cloak(t) : t \in Names}, sig : Signatures \cup {None}]
Same(c, u)   == u.name = TC!Cloak(c.name) /\ u.sig = c.id.tag
Sames(C, md) == md \in Seq(MadeCalls) /\ Len(md) = Len(C) /\ \A k \in DOMAIN C : Same(C[k], md[k])

\* What a name is told as, it is told as again.
LEMMA CloakBack ==
    \A t \in Names : TC!UncloakToolName(TC!Cloak(t)) = t
  <1> SUFFICES ASSUME NEW t \in Names
               PROVE  TC!UncloakToolName(TC!Cloak(t)) = t
    OBVIOUS
  <1>1. t = <<t[1], t[2]>> /\ t[2] \in Nat /\ (t \in Native => t[2] = 0)
    BY ToolAssumption DEF Names
  <1>2. CASE t \in Native
    BY <1>1, <1>2 DEF TC!UncloakToolName, TC!Cloak
  <1>3. CASE t \notin Native
    <2>1. TC!Cloak(t) = <<t[1], t[2] + 1>>
      BY <1>3 DEF TC!Cloak
    <2>2. TC!UncloakToolName(<<t[1], t[2] + 1>>) = <<t[1], t[2]>>
      BY <1>1 DEF TC!UncloakToolName
    <2> QED
      BY <1>1, <2>1, <2>2
  <1> QED
    BY <1>2, <1>3

\* The calls of an answer, as the client is given them.
LEMMA GotIs ==
    ASSUME NEW T \in ToolSets, NEW n \in Nat,
           NEW cs \in [1 .. n -> [name : {TC!Cloak(t) : t \in T}, sig : Signatures \cup {None}]]
    PROVE  LET gave == TC!TranslateGeminiResponse(cs)
           IN  /\ gave \in Seq(Offers) /\ Distinct(gave)
               /\ \A k \in DOMAIN gave : gave[k].name \in T
               /\ cs \in Seq(MadeCalls) /\ Len(cs) = Len(gave)
               /\ \A k \in DOMAIN gave : Same(gave[k], cs[k])
  <1> DEFINE gave == TC!TranslateGeminiResponse(cs)
             whose(k) == TC!UncloakToolName(cs[k].name)
             id(k) == [name |-> whose(k), number |-> k - 1, tag |-> cs[k].sig]
  <1>1. ASSUME NEW k \in 1 .. n
        PROVE  /\ whose(k) \in T /\ whose(k) \in Names /\ cs[k].name = TC!Cloak(whose(k))
               /\ cs[k].sig \in Signatures \cup {None}
    <2>1. PICK t \in T : cs[k].name = TC!Cloak(t)
      OBVIOUS
    <2>2. t \in Names
      BY DEF Names
    <2>3. whose(k) = t
      BY <2>1, <2>2, CloakBack
    <2> QED
      BY <2>1, <2>2, <2>3
  <1>2. DOMAIN cs = 1 .. n
    OBVIOUS
  <1>3. gave = [k \in 1 .. n |-> [id |-> id(k), name |-> whose(k)]]
    BY <1>2, Zenon DEF TC!TranslateGeminiResponse, TC!CallId
  <1> HIDE DEF gave, whose
  <1>4. ASSUME NEW k \in 1 .. n
        PROVE  /\ id(k) \in ToolIds /\ [id |-> id(k), name |-> whose(k)] \in Offers
               /\ gave[k].id = id(k) /\ gave[k].name = whose(k)
    <2>1. id(k) \in ToolIds /\ id(k).name = whose(k)
      BY <1>1 DEF ToolIds
    <2>2. gave[k] = [id |-> id(k), name |-> whose(k)]
      BY <1>3
    <2> HIDE DEF id
    <2> QED
      BY <1>1, <2>1, <2>2 DEF Offers
  <1>5. gave \in Seq(Offers) /\ DOMAIN gave = 1 .. n
    BY <1>3, <1>4
  <1>6. Distinct(gave)
    <2>1. \A j, k \in 1 .. n : id(j) = id(k) => j = k
      <3> SUFFICES ASSUME NEW j \in 1 .. n, NEW k \in 1 .. n, id(j) = id(k)
                   PROVE  j = k
        OBVIOUS
      <3>1. id(j).number = j - 1 /\ id(k).number = k - 1
        OBVIOUS
      <3> QED
        BY <3>1
    <2> HIDE DEF id
    <2>2. \A k \in DOMAIN gave : gave[k].id = id(k)
      BY <1>4, <1>5
    <2> QED
      BY <1>5, <2>1, <2>2 DEF Distinct
  <1>7. ASSUME NEW k \in 1 .. n
        PROVE  Same(gave[k], cs[k])
    <2>1. id(k).tag = cs[k].sig
      OBVIOUS
    <2> HIDE DEF id
    <2> QED
      BY <1>1, <1>4, <2>1 DEF Same
  <1>8. \A k \in 1 .. n : gave[k].name \in T
    BY <1>1, <1>4
  <1>9. cs \in Seq(MadeCalls) /\ Len(cs) = n /\ Len(gave) = n
    <2>1. \A k \in 1 .. n : cs[k] \in MadeCalls
      <3>1. T \subseteq Names
        BY DEF Names
      <3> QED
        BY <3>1 DEF MadeCalls
    <2> QED
      BY <1>2, <1>5, <2>1
  <1> QED
    BY <1>5, <1>6, <1>7, <1>8, <1>9 DEF gave

\* What a concatenation is.
LEMMA ConcatIs ==
    ASSUME NEW A, NEW s \in Seq(A), NEW t \in Seq(A)
    PROVE  /\ s \o t \in Seq(A) /\ Len(s \o t) = Len(s) + Len(t)
           /\ DOMAIN (s \o t) = 1 .. Len(s) + Len(t)
           /\ \A k \in 1 .. Len(s) : (s \o t)[k] = s[k]
           /\ \A k \in 1 .. Len(s) + Len(t) : k \notin 1 .. Len(s) =>
                 (s \o t)[k] = t[k - Len(s)] /\ k - Len(s) \in 1 .. Len(t)
  <1>1. s \o t \in Seq(A) /\ Len(s \o t) = Len(s) + Len(t)
    OBVIOUS
  <1>2. \A k \in 1 .. Len(s) : (s \o t)[k] = s[k]
    OBVIOUS
  <1>3. \A k \in 1 .. Len(s) + Len(t) : k \notin 1 .. Len(s) =>
                 (s \o t)[k] = t[k - Len(s)] /\ k - Len(s) \in 1 .. Len(t)
    OBVIOUS
  <1> QED
    BY <1>1, <1>2, <1>3

\* Calls that were made later come later.
LEMMA SamesConcat ==
    ASSUME NEW C \in Seq(Offers), NEW md, Sames(C, md),
           NEW D \in Seq(Offers), NEW cs, Sames(D, cs)
    PROVE  Sames(C \o D, md \o cs)
  <1> DEFINE E == C \o D
             me == md \o cs
             n == Len(D)
  <1>1. /\ cs \in Seq(MadeCalls) /\ Len(cs) = n /\ n \in Nat /\ DOMAIN D = 1 .. n
        /\ md \in Seq(MadeCalls) /\ Len(md) = Len(C) /\ Len(C) \in Nat /\ DOMAIN C = 1 .. Len(C)
    BY DEF Sames
  <1>2. /\ me \in Seq(MadeCalls) /\ Len(me) = Len(C) + n /\ DOMAIN E = 1 .. Len(C) + n
        /\ \A k \in 1 .. Len(C) : me[k] = md[k] /\ E[k] = C[k]
        /\ \A k \in 1 .. Len(C) + n : k \notin 1 .. Len(C) =>
              /\ me[k] = cs[k - Len(C)] /\ E[k] = D[k - Len(C)] /\ k - Len(C) \in 1 .. n
    <2>1. /\ me \in Seq(MadeCalls) /\ Len(me) = Len(md) + Len(cs)
          /\ \A k \in 1 .. Len(md) : me[k] = md[k]
          /\ \A k \in 1 .. Len(md) + Len(cs) : k \notin 1 .. Len(md) =>
                me[k] = cs[k - Len(md)] /\ k - Len(md) \in 1 .. Len(cs)
      BY <1>1, ConcatIs
    <2>2. /\ DOMAIN E = 1 .. Len(C) + n /\ \A k \in 1 .. Len(C) : E[k] = C[k]
          /\ \A k \in 1 .. Len(C) + n : k \notin 1 .. Len(C) => E[k] = D[k - Len(C)]
      BY <1>1, ConcatIs
    <2> HIDE DEF me, E, n
    <2> QED
      BY <1>1, <2>1, <2>2
  <1>3. Len(E) = Len(C) + n
    BY <1>1, ConcatIs
  <1> HIDE DEF me, E
  <1>4. /\ \A k \in 1 .. Len(C) : Same(C[k], md[k])
        /\ \A k \in 1 .. n : Same(D[k], cs[k])
    BY <1>1 DEF Sames
  <1>5. \A k \in DOMAIN E : Same(E[k], me[k])
    BY <1>2, <1>4
  <1>6. Sames(E, me)
    BY <1>2, <1>3, <1>5 DEF Sames
  <1> QED
    BY <1>6 DEF E, me

-----------------------------------------------------------------------------
\* The calls the client may answer are of its tools, and answered before the upstream is asked.
ToolInv ==
    /\ client \in {"claude", "openai"} /\ tools \in ToolSets
    /\ history \in Seq(Turns) /\ offered \in Seq(Offers) /\ Distinct(offered)
    /\ \A k \in DOMAIN offered : offered[k].name \in tools
    /\ TC!Asked => offered = <<>>
    /\ \E C \in Seq(Offers) : Fine(client, history, offered, C) /\ Sames(C, made)

\* A conversation begins.
LEMMA ToolInit == TC!Init => ToolInv
  <1> SUFFICES ASSUME TC!Init
               PROVE  ToolInv
    OBVIOUS
  <1>1. client \in {"claude", "openai"} /\ tools \in ToolSets
    BY DEF TC!Init
  <1>2. history = <<>> /\ offered = <<>> /\ made = <<>>
    BY DEF TC!Init
  <1>3. /\ <<>> \in Seq(Turns) /\ <<>> \in Seq(Offers) /\ <<>> \in Seq(MadeCalls)
        /\ Len(<<>>) = 0 /\ DOMAIN <<>> = {}
    OBVIOUS
  <1>4. Distinct(<<>>) /\ Sames(<<>>, <<>>)
    BY <1>3 DEF Distinct, Sames
  <1>5. Fine(client, <<>>, <<>>, <<>>)
    BY FineNothing
  <1> QED
    BY <1>1, <1>2, <1>3, <1>4, <1>5 DEF ToolInv

\* What a user says or answers is a message of its own.
LEMMA UserTurn ==
    ASSUME NEW b \in BOOLEAN, NEW q \in Seq(ToolIds), b \/ q # <<>>
    PROVE  /\ TC!User(b, q) \in Turns /\ TC!User(b, q).role = "user" /\ TC!User(b, q).results = q
  <1> DEFINE m == TC!Message
             t == [m EXCEPT !.text = b, !.results = q]
  <1>1. m \in Messages /\ m.role = "user" /\ m.calls = <<>>
    BY MessageIs
  <1> HIDE DEF m
  <1>2. t \in Messages /\ t.role = "user" /\ t.calls = <<>> /\ t.results = q /\ t.text = b
    BY <1>1 DEF Messages
  <1> HIDE DEF t
  <1>3. t \in Turns
    BY <1>2 DEF Turns
  <1>4. TC!User(b, q) = t
    BY DEF TC!User, t, m
  <1> QED
    BY <1>2, <1>3, <1>4

\* So is what the upstream answers.
LEMMA AnswerTurn ==
    ASSUME NEW b \in BOOLEAN, NEW cs \in Seq(Offers), Distinct(cs)
    PROVE  LET t == [TC!Message EXCEPT !.role = "assistant", !.think = b, !.text = ~b, !.calls = cs]
           IN  t \in Turns /\ t.role = "assistant" /\ t.calls = cs
  <1> DEFINE m == TC!Message
             c == ~b
             t == [m EXCEPT !.role = "assistant", !.think = b, !.text = c, !.calls = cs]
  <1>1. m \in Messages /\ m.results = <<>>
    BY MessageIs
  <1>2. c \in BOOLEAN /\ (b \/ c) /\ ~(b /\ c)
    OBVIOUS
  <1> HIDE DEF m, c
  <1>3. t \in Messages /\ t.role = "assistant" /\ t.calls = cs /\ t.results = <<>>
    BY <1>1, <1>2 DEF Messages
  <1>4. t.think = b /\ t.text = c
    BY <1>1 DEF Messages
  <1> HIDE DEF t
  <1>5. t \in Turns
    BY <1>2, <1>3, <1>4 DEF Turns
  <1> QED
    BY <1>3, <1>5 DEF t, m, c

\* The user speaks.
LEMMA SayKeeps ==
    ASSUME ToolInv, TC!Say
    PROVE  ToolInv'
  <1> DEFINE m == TC!User(TRUE, <<>>)
  <1>1. /\ history' = Append(history, m) /\ offered' = <<>> /\ (client = "claude" \/ offered = <<>>)
        /\ client' = client /\ tools' = tools /\ made' = made
    BY DEF TC!Say
  <1>2. m \in Turns /\ m.role = "user" /\ m.results = <<>>
    <2>1. <<>> \in Seq(ToolIds)
      OBVIOUS
    <2> QED
      BY <2>1, UserTurn
  <1> HIDE DEF m
  <1>3. PICK C \in Seq(Offers) : Fine(client, history, offered, C) /\ Sames(C, made)
    BY DEF ToolInv
  <1>4. history \in Seq(Turns)
    BY DEF ToolInv
  <1>5. Fine(client, Append(history, m), <<>>, C)
    BY <1>1, <1>2, <1>3, <1>4, FineText
  <1>6. Append(history, m) \in Seq(Turns) /\ <<>> \in Seq(Offers) /\ DOMAIN <<>> = {}
    BY <1>2, <1>4
  <1>7. Fine(client', history', offered', C) /\ Sames(C, made')
    BY <1>1, <1>3, <1>5
  <1>8. Distinct(offered') /\ \A k \in DOMAIN offered' : offered'[k].name \in tools'
    BY <1>1, <1>6 DEF Distinct
  <1> QED
    BY <1>1, <1>6, <1>7, <1>8 DEF ToolInv

\* The client answers some calls, or all.
LEMMA RespondKeeps ==
    ASSUME ToolInv, TC!Respond
    PROVE  ToolInv'
  <1>1. PICK answers \in (SUBSET TC!ToSet(offered)) \ {{}}, text \in BOOLEAN :
           /\ client = "openai" => answers = TC!ToSet(offered)
           /\ \E order \in TC!SetToSeqs(answers) :
                 history' = Append(history, TC!User(text, [k \in DOMAIN order |-> order[k].id]))
    BY DEF TC!Respond
  <1>2. answers # {} /\ answers \in SUBSET TC!ToSet(offered)
    OBVIOUS
  <1>3. PICK order \in TC!SetToSeqs(answers) :
           history' = Append(history, TC!User(text, [k \in DOMAIN order |-> order[k].id]))
    BY <1>1
  <1>4. /\ offered # <<>> /\ offered' = <<>> /\ client' = client /\ tools' = tools /\ made' = made
    BY DEF TC!Respond
  <1>5. /\ offered \in Seq(Offers) /\ Distinct(offered) /\ history \in Seq(Turns)
        /\ client \in {"claude", "openai"}
    BY DEF ToolInv
  <1> DEFINE n == TC!Cardinality(answers)
             q == [k \in DOMAIN order |-> order[k].id]
             m == TC!User(text, q)
  <1>6. n \in Nat /\ n # 0 /\ IsFiniteSet(answers) /\ n = Cardinality(answers)
    <2>1. DOMAIN offered = 1 .. Len(offered) /\ Len(offered) \in Nat
      BY <1>5
    <2> DEFINE D == DOMAIN offered
               f == [k \in D |-> offered[k]]
    <2>2. f \in Surjection(D, TC!ToSet(offered))
      BY DEF Surjection, TC!ToSet
    <2>3. IsFiniteSet(D)
      BY <2>1, FS_Interval
    <2>4. IsFiniteSet(TC!ToSet(offered))
      <3> HIDE DEF D, f
      <3> QED
        BY <2>2, <2>3, FS_Surjection
    <2>5. n = Cardinality(answers)
      BY Zenon DEF TC!Cardinality, Cardinality, TC!IsFiniteSet, IsFiniteSet
    <2> QED
      BY <1>2, <2>4, <2>5, FS_Subset, FS_CardinalityType, FS_EmptySet
  <1>7. /\ order \in [1 .. n -> answers] /\ \A j, k \in 1 .. n : j # k => order[j] # order[k]
    BY DEF TC!SetToSeqs
  <1>8. \A a \in answers : \E k \in 1 .. n : order[k] = a
    <2> DEFINE S == 1 .. n
    <2>1. order \in Injection(S, answers)
      BY <1>7 DEF Injection, IsInjective
    <2>2. IsFiniteSet(S) /\ Cardinality(S) = n
      BY <1>6, FS_Interval
    <2> HIDE DEF S
    <2>3. order \in Surjection(S, answers)
      BY <1>6, <2>1, <2>2, FS_Injection
    <2> QED
      BY <2>3 DEF Surjection, S
  <1> HIDE DEF n
  <1>9. \A k \in 1 .. n : order[k] \in Offers /\ \E j \in DOMAIN offered : offered[j] = order[k]
    BY <1>2, <1>5, <1>7 DEF TC!ToSet
  <1>10. DOMAIN order = 1 .. n /\ DOMAIN q = 1 .. n /\ \A k \in 1 .. n : q[k] = order[k].id
    BY <1>7
  <1>11. q \in Seq(ToolIds) /\ q # <<>>
    <2>1. \A k \in 1 .. n : order[k].id \in ToolIds
      BY <1>9 DEF Offers
    <2>2. 1 \in DOMAIN q
      BY <1>6, <1>10
    <2> QED
      BY <1>6, <1>10, <2>1, <2>2
  <1> HIDE DEF q
  <1>12. Once(q)
    BY <1>5, <1>7, <1>9, <1>10 DEF Once, Distinct
  <1>13. Elements(q) \subseteq IdsOf(offered)
    BY <1>9, <1>10 DEF Elements, IdsOf
  <1>14. client # "claude" => Elements(q) = IdsOf(offered)
    <2>1. SUFFICES ASSUME client = "openai", NEW j \in DOMAIN offered
                   PROVE  offered[j].id \in Elements(q)
      BY <1>5, <1>13 DEF IdsOf
    <2>2. offered[j] \in answers
      BY <1>1, <2>1 DEF TC!ToSet
    <2>3. PICK k \in 1 .. n : order[k] = offered[j]
      BY <1>8, <2>2
    <2> QED
      BY <1>10, <2>3 DEF Elements
  <1>15. m \in Turns /\ m.role = "user" /\ m.results = q
    BY <1>11, UserTurn
  <1>16. history' = Append(history, m)
    BY <1>3 DEF q
  <1> HIDE DEF m
  <1>17. PICK C \in Seq(Offers) : Fine(client, history, offered, C) /\ Sames(C, made)
    BY DEF ToolInv
  <1>18. Fine(client, Append(history, m), <<>>, C)
    BY <1>4, <1>5, <1>11, <1>12, <1>13, <1>14, <1>15, <1>17, FineResults
  <1>19. Append(history, m) \in Seq(Turns) /\ <<>> \in Seq(Offers) /\ DOMAIN <<>> = {}
    BY <1>5, <1>15
  <1>20. Fine(client', history', offered', C) /\ Sames(C, made')
    BY <1>4, <1>16, <1>17, <1>18
  <1>21. Distinct(offered') /\ \A k \in DOMAIN offered' : offered'[k].name \in tools'
    BY <1>4, <1>19 DEF Distinct
  <1> QED
    BY <1>4, <1>16, <1>19, <1>20, <1>21 DEF ToolInv

\* The upstream answers.
LEMMA AnswerKeeps ==
    ASSUME ToolInv, TC!Answer
    PROVE  ToolInv'
  <1>1. PICK cs \in TC!Answers, think \in BOOLEAN :
           LET gave == TC!TranslateGeminiResponse(cs)
           IN  /\ history' = Append(history,
                                    [TC!Message EXCEPT !.role = "assistant", !.think = think,
                                                       !.text = ~think, !.calls = gave])
               /\ offered' = gave /\ made' = made \o cs
    BY DEF TC!Answer
  <1>2. TC!Asked /\ client' = client /\ tools' = tools
    BY DEF TC!Answer, TC!Asked
  <1>3. /\ history \in Seq(Turns) /\ offered = <<>> /\ tools \in ToolSets
        /\ client \in {"claude", "openai"}
    BY <1>2 DEF ToolInv
  <1> DEFINE gave == TC!TranslateGeminiResponse(cs)
             m == [TC!Message EXCEPT !.role = "assistant", !.think = think, !.text = ~think,
                                     !.calls = gave]
  <1>4. PICK n \in Nat :
           cs \in [1 .. n -> [name : {TC!Cloak(t) : t \in tools}, sig : Signatures \cup {None}]]
    BY ToolAssumption DEF TC!Answers
  <1>5. /\ gave \in Seq(Offers) /\ Distinct(gave) /\ \A k \in DOMAIN gave : gave[k].name \in tools
        /\ Sames(gave, cs)
    BY <1>3, <1>4, GotIs DEF Sames
  <1>6. m \in Turns /\ m.role = "assistant" /\ m.calls = gave
    <2> HIDE DEF gave
    <2> QED
      BY <1>5, AnswerTurn
  <1>7. history' = Append(history, m) /\ offered' = gave /\ made' = made \o cs
    BY <1>1
  <1> HIDE DEF m, gave
  <1>8. PICK C \in Seq(Offers) : Fine(client, history, offered, C) /\ Sames(C, made)
    BY DEF ToolInv
  <1>9. Fine(client, Append(history, m), gave, C \o gave)
    BY <1>3, <1>6, <1>8, FineAnswer
  <1>10. Sames(C \o gave, made \o cs) /\ C \o gave \in Seq(Offers)
    BY <1>5, <1>8, SamesConcat
  <1>11. Append(history, m) \in Seq(Turns) /\ TC!Last(Append(history, m)) = m
    BY <1>3, <1>6 DEF TC!Last
  <1>12. ~TC!Asked'
    BY <1>6, <1>7, <1>11 DEF TC!Asked
  <1>13. Fine(client', history', offered', C \o gave) /\ Sames(C \o gave, made')
    BY <1>2, <1>7, <1>9, <1>10
  <1> QED
    BY <1>2, <1>3, <1>5, <1>7, <1>10, <1>11, <1>12, <1>13 DEF ToolInv

\* Every step keeps the invariant.
LEMMA ToolStep == ToolInv /\ [TC!Next]_TC!vars => ToolInv'
  <1> SUFFICES ASSUME ToolInv, [TC!Next]_TC!vars
               PROVE  ToolInv'
    OBVIOUS
  <1>1. CASE UNCHANGED TC!vars
    <2>1. UNCHANGED <<client, tools, history, offered, made>>
      BY <1>1 DEF TC!vars
    <2> QED
      BY <2>1 DEF ToolInv, TC!Asked
  <1> QED
    BY <1>1, SayKeeps, RespondKeeps, AnswerKeeps DEF TC!Next

-----------------------------------------------------------------------------
\* A call's name is found, whatever has the same id.
LEMMA NameIs ==
    ASSUME NEW C \in Seq(Offers), NEW x \in ToolIds
    PROVE  TC!NameOf(C, x) = x.name
  <1> DEFINE S(i) == {c \in TC!ToSet(C) : i \in {c.id, TC!Clean(c.id)}}
             under(i) == Kept(C, S(i))
             y == TC!Clean(x)
  <1>1. \A c \in Offers : c.name = c.id.name /\ TC!Clean(c.id).name = c.name
    BY DEF Offers, ToolIds, TC!Clean
  <1>2. y.name = x.name
    BY DEF ToolIds, TC!Clean
  <1>3. ASSUME NEW i, i.name = x.name, under(i) # <<>>
        PROVE  TC!Last(under(i)).name = x.name
    <2> DEFINE q == under(i)
               T == S(i)
    <2>1. q \in Seq(Offers \cap T)
      <3>1. q = Kept(C, T)
        OBVIOUS
      <3> HIDE DEF T, q, S
      <3>2. Kept(C, T) \in Seq(Offers \cap T)
        BY KeptOf
      <3> QED
        BY <3>1, <3>2
    <2>2. \A c \in Offers \cap T : c.name = x.name
      BY <1>1, <1>3
    <2>3. q # <<>>
      BY <1>3
    <2> HIDE DEF q, T
    <2>4. q[Len(q)] \in Offers \cap T
      BY <2>1, <2>3
    <2>5. TC!Last(q).name = x.name
      BY <2>2, <2>4 DEF TC!Last
    <2> QED
      BY <2>5 DEF q
  <1>4. TC!NameOf(C, x) = IF under(x) # <<>> THEN TC!Last(under(x)).name
                          ELSE IF under(y) # <<>> THEN TC!Last(under(y)).name
                          ELSE x.name
    BY SameFilters, Zenon DEF TC!NameOf
  <1> HIDE DEF under, y
  <1> QED
    BY <1>2, <1>3, <1>4

\* The calls of a message, as the upstream sees them.
Shown(q) == [j \in DOMAIN q |-> TC!Part("call", TC!Cloak(q[j].name), TC!Signature(q[j].id))]

\* What a message becomes.
Shaped(c, m) ==
    /\ c.role = IF m.role = "assistant" THEN "model" ELSE "user"
    /\ m.role = "user" => c.parts = <<TC!Part("text", None, None)>>
    /\ m.role = "tool" => c.parts = <<TC!Part("result", TC!Cloak(m.results[1].name), None)>>
    /\ m.role = "assistant" =>
          \E kind \in {"thought", "text"} :
             c.parts = <<TC!Part(kind, None, None)>> \o Shown(m.calls)

Cloaked(c) == [c EXCEPT !.parts = [j \in DOMAIN c.parts |-> TC!CloakPart(c.parts[j])]]

\* A text, and a result, are cloaked.
LEMMA OneCloaked ==
    ASSUME NEW c, NEW r, NEW p, c = [role |-> r, parts |-> <<p>>]
    PROVE  Cloaked(c).role = r /\ Cloaked(c).parts = <<TC!CloakPart(p)>>
  <1> DEFINE q == <<p>>
             f == [j \in DOMAIN q |-> TC!CloakPart(q[j])]
  <1>1. f = <<TC!CloakPart(p)>>
    <2> DEFINE F(j) == TC!CloakPart(j)
    <2> HIDE DEF F
    <2>1. [j \in DOMAIN <<p>> |-> F(<<p>>[j])] = <<F(p)>>
      OBVIOUS
    <2> QED
      BY <2>1 DEF F
  <1>2. c.parts = q /\ c.role = r /\ c = [role |-> r, parts |-> q]
    OBVIOUS
  <1> HIDE DEF q
  <1>3. Cloaked(c) = [c EXCEPT !.parts = f]
    BY <1>2, Zenon DEF Cloaked
  <1> HIDE DEF f
  <1>4. [c EXCEPT !.parts = f].parts = f /\ [c EXCEPT !.parts = f].role = r
    BY <1>2
  <1> QED
    BY <1>1, <1>3, <1>4

\* What becomes of a part.
LEMMA PartsCloaked ==
    /\ \A kind \in {"thought", "text"} : \A name1, sig1 :
          TC!CloakPart(TC!Part(kind, name1, sig1)) = TC!Part(kind, name1, sig1)
    /\ \A kind \in {"call", "result"} : \A name1, sig1 :
          TC!CloakPart(TC!Part(kind, name1, sig1)) = TC!Part(kind, TC!Cloak(name1), sig1)
  BY DEF TC!CloakPart, TC!Part

\* Every message becomes a content of its own.
LEMMA MessageSent ==
    ASSUME NEW C \in Seq(Offers), NEW m \in Spoken
    PROVE  TC!Content(C, m).parts # <<>> /\ Shaped(Cloaked(TC!Content(C, m)), m)
  <1> DEFINE c == TC!Content(C, m)
  <1>1. m.role \in {"user", "tool", "assistant"}
    BY DEF Spoken, Messages
  <1>2. CASE m.role = "user"
    <2> DEFINE p == TC!Part("text", None, None)
    <2>1. m.text
      BY <1>2 DEF Spoken
    <2>2. c = [role |-> "user", parts |-> <<p>>]
      BY <1>2, <2>1 DEF TC!Content, TC!OneIf
    <2>3. TC!CloakPart(p) = p
      BY PartsCloaked
    <2> HIDE DEF c, p
    <2>4. Cloaked(c).role = "user" /\ Cloaked(c).parts = <<p>>
      BY <2>2, <2>3, OneCloaked
    <2>5. c.parts # <<>>
      BY <2>2
    <2> QED
      BY <1>2, <2>4, <2>5 DEF Shaped, c, p
  <1>3. CASE m.role = "tool"
    <2>1. PICK x \in ToolIds : m.results = <<x>>
      BY <1>3 DEF Spoken
    <2>2. m.results[1] = x /\ TC!NameOf(C, x) = x.name
      BY <2>1, NameIs
    <2> DEFINE p == TC!Part("result", x.name, None)
               r == TC!Part("result", TC!Cloak(x.name), None)
    <2>3. c = [role |-> "user", parts |-> <<p>>]
      BY <1>3, <2>2 DEF TC!Content
    <2>4. TC!CloakPart(p) = r
      BY PartsCloaked
    <2> HIDE DEF c, p, r
    <2>5. Cloaked(c).role = "user" /\ Cloaked(c).parts = <<r>>
      BY <2>3, <2>4, OneCloaked
    <2>6. c.parts # <<>>
      BY <2>3
    <2> QED
      BY <1>3, <2>2, <2>5, <2>6 DEF Shaped, c, r
  <1>4. CASE m.role = "assistant"
    <2> DEFINE kind == IF m.think THEN "thought" ELSE "text"
               p == TC!Part(kind, None, None)
               q == [k \in DOMAIN m.calls |->
                       TC!Part("call", m.calls[k].name, TC!Signature(m.calls[k].id))]
    <2>1. (m.think /\ ~m.text) \/ (~m.think /\ m.text)
      BY <1>4 DEF Spoken
    <2>2. m.calls \in Seq(Offers)
      BY DEF Spoken, Messages
    <2>3. DOMAIN q = 1 .. Len(m.calls) /\ Len(m.calls) \in Nat
      BY <2>2
    <2> DEFINE ps == <<p>> \o q
    <2>4. c.role = "model" /\ c.parts = ps /\ c = [role |-> "model", parts |-> ps]
      <3> DEFINE a == TC!OneIf(m.think, TC!Part("thought", None, None))
                 b == TC!OneIf(m.text, TC!Part("text", None, None))
      <3>1. c = [role |-> "model", parts |-> a \o b \o q]
        BY <1>4, Zenon DEF TC!Content
      <3>2. a \o b = <<p>>
        <4>1. CASE m.think /\ ~m.text
          BY <4>1 DEF TC!OneIf
        <4>2. CASE ~m.think /\ m.text
          BY <4>2 DEF TC!OneIf
        <4> QED
          BY <2>1, <4>1, <4>2
      <3> HIDE DEF a, b, q, p, c
      <3>3. c = [role |-> "model", parts |-> ps]
        BY <3>1, <3>2
      <3> HIDE DEF ps
      <3> QED
        BY <3>3
    <2> DEFINE n == Len(m.calls)
    <2>5. DOMAIN ps = 1 .. n + 1 /\ ps[1] = p /\ \A k \in 1 .. n : ps[k + 1] = q[k]
      <3>1. \A k \in 1 .. n : q[k] \in Range(q)
        BY <2>3 DEF Range
      <3>2. q = [k \in 1 .. n |-> q[k]] /\ n \in Nat
        BY <2>3
      <3>3. q \in Seq(Range(q)) /\ Len(q) = n
        <4> HIDE DEF q, n
        <4> QED
          BY <3>1, <3>2
      <3> HIDE DEF q, p, n
      <3> QED
        BY <2>3, <3>3
    <2>6. Cloaked(c).role = "model"
          /\ Cloaked(c).parts = [k \in DOMAIN ps |-> TC!CloakPart(ps[k])]
      <3> HIDE DEF c, ps
      <3> QED
        BY <2>4 DEF Cloaked
    <2>7. TC!CloakPart(p) = p
      BY PartsCloaked
    <2>8. \A k \in 1 .. n : TC!CloakPart(q[k]) = Shown(m.calls)[k]
      BY <2>2, PartsCloaked DEF Shown
    <2> DEFINE g == Shown(m.calls)
    <2>9. DOMAIN g = 1 .. n /\ g \in Seq(Range(g)) /\ Len(g) = n
      <3>1. DOMAIN g = 1 .. n
        BY <2>2 DEF Shown
      <3>2. \A k \in 1 .. n : g[k] \in Range(g)
        BY <3>1 DEF Range
      <3>3. g = [k \in 1 .. n |-> g[k]]
        BY <3>1 DEF Shown
      <3> HIDE DEF g, n
      <3> QED
        BY <2>3, <3>1, <3>2, <3>3 DEF n
    <2>10. [k \in DOMAIN ps |-> TC!CloakPart(ps[k])] = <<p>> \o g
      <3> DEFINE f == [k \in DOMAIN ps |-> TC!CloakPart(ps[k])]
                 h == <<p>> \o g
      <3>1. DOMAIN h = 1 .. n + 1 /\ h[1] = p /\ \A k \in 1 .. n : h[k + 1] = g[k]
        <4> HIDE DEF g, p, n
        <4> QED
          BY <2>3, <2>9 DEF n
      <3>2. h = [k \in 1 .. n + 1 |-> h[k]]
        <4> HIDE DEF g, p, n
        <4> QED
          BY <2>3, <2>9 DEF n
      <3> HIDE DEF h, g, p, q, ps
      <3>3. \A k \in 1 .. n + 1 : f[k] = h[k]
        <4> SUFFICES ASSUME NEW k \in 1 .. n + 1
                     PROVE  TC!CloakPart(ps[k]) = h[k]
          BY <2>5
        <4>1. CASE k = 1
          BY <2>5, <2>7, <3>1, <4>1
        <4>2. CASE k # 1
          <5>1. k - 1 \in 1 .. n /\ (k - 1) + 1 = k
            BY <2>3, <4>2
          <5>2. ps[(k - 1) + 1] = q[k - 1] /\ h[(k - 1) + 1] = g[k - 1]
            BY <2>5, <3>1, <5>1
          <5> QED
            BY <2>8, <5>1, <5>2 DEF g
        <4> QED
          BY <4>1, <4>2
      <3>4. f = [k \in 1 .. n + 1 |-> f[k]]
        BY <2>5
      <3> HIDE DEF f
      <3> QED
        BY <3>2, <3>3, <3>4 DEF f, h, ps
    <2>11. kind \in {"thought", "text"}
      OBVIOUS
    <2>12. c.parts # <<>>
      BY <2>4, <2>5, <2>3
    <2> HIDE DEF c, kind, g
    <2> QED
      BY <1>4, <2>6, <2>10, <2>11, <2>12 DEF Shaped, c, g
  <1> QED
    BY <1>1, <1>2, <1>3, <1>4

-----------------------------------------------------------------------------
\* What becomes of the messages M, one by one.
ShapedAs(cs, M) == DOMAIN cs = DOMAIN M /\ \A k \in DOMAIN M : Shaped(cs[k], M[k])

\* What the upstream is sent are the messages told.
LEMMA SentIs ==
    ASSUME NEW M, NEW C, Told(M, {}, C)
    PROVE  ShapedAs(TC!CloakAntigravityRequest(TC!TranslateOpenAIToGemini(M)), M)
  <1> DEFINE F(m) == TC!Content(C, m)
             contents == [k \in DOMAIN M |-> F(M[k])]
             S == {c \in TC!ToSet(contents) : c.parts # <<>>}
  <1>1. M \in Seq(Spoken) /\ C \in Seq(Offers) /\ CallsIn(M) = C
    BY DEF Told
  <1>2. TC!Joined([k \in DOMAIN M |-> M[k].calls]) = C
    BY <1>1, SameFilters DEF CallsIn
  <1>3. TC!TranslateOpenAIToGemini(M) = Kept(contents, S)
    BY <1>2, SameFilters, Zenon DEF TC!TranslateOpenAIToGemini
  <1>4. \A k \in DOMAIN M : F(M[k]).parts # <<>> /\ Shaped(Cloaked(F(M[k])), M[k])
    <2>1. \A k \in DOMAIN M : M[k] \in Spoken
      BY <1>1
    <2> QED
      BY <1>1, <2>1, MessageSent
  <1> HIDE DEF F
  <1>5. contents \in Seq(S) /\ DOMAIN contents = DOMAIN M
    <2>1. \A k \in DOMAIN M : F(M[k]) \in S
      BY <1>4 DEF TC!ToSet
    <2>2. DOMAIN M = 1 .. Len(M) /\ Len(M) \in Nat
      BY <1>1
    <2> HIDE DEF S
    <2> QED
      BY <2>1, <2>2
  <1> HIDE DEF S
  <1>6. Kept(contents, S) = contents
    BY <1>5, KeptAll
  <1>7. TC!CloakAntigravityRequest(contents) = [k \in DOMAIN contents |-> Cloaked(contents[k])]
    BY Zenon DEF TC!CloakAntigravityRequest, Cloaked
  <1>8. [k \in DOMAIN contents |-> Cloaked(contents[k])] = [k \in DOMAIN M |-> Cloaked(F(M[k]))]
    OBVIOUS
  <1>9. ShapedAs([k \in DOMAIN M |-> Cloaked(F(M[k]))], M)
    BY <1>4 DEF ShapedAs
  <1> QED
    BY <1>3, <1>6, <1>7, <1>8, <1>9

\* The parts that are calls.
ShownParts == {TC!Part("call", TC!Cloak(c.name), TC!Signature(c.id)) : c \in Offers}

\* The calls of two lists are those of both.
LEMMA ShownIs ==
    /\ Shown(<<>>) = <<>>
    /\ \A s \in Seq(Offers) : Shown(s) \in Seq(ShownParts) /\ Len(Shown(s)) = Len(s)
    /\ \A s, t \in Seq(Offers) : Shown(s \o t) = Shown(s) \o Shown(t)
  <1> DEFINE F(c) == TC!Part("call", TC!Cloak(c.name), TC!Signature(c.id))
  <1>1. Shown(<<>>) = <<>>
    BY DEF Shown
  <1>2. \A q : Shown(q) = [j \in DOMAIN q |-> F(q[j])]
    BY Zenon DEF Shown
  <1>3. \A c \in Offers : F(c) \in ShownParts
    BY DEF ShownParts
  <1> HIDE DEF F
  <1>4. ASSUME NEW s \in Seq(Offers)
        PROVE  /\ Shown(s) \in Seq(ShownParts) /\ Len(Shown(s)) = Len(s)
               /\ DOMAIN Shown(s) = 1 .. Len(s)
    <2>1. \A k \in 1 .. Len(s) : F(s[k]) \in ShownParts
      BY <1>3
    <2>2. Shown(s) = [j \in 1 .. Len(s) |-> F(s[j])] /\ Len(s) \in Nat
      BY <1>2
    <2> QED
      BY <2>1, <2>2
  <1>5. ASSUME NEW s \in Seq(Offers), NEW t \in Seq(Offers)
        PROVE  Shown(s \o t) = Shown(s) \o Shown(t)
    <2> DEFINE u == s \o t
               g == Shown(s)
               h == Shown(t)
               w == g \o h
    <2>1. /\ u \in Seq(Offers) /\ Len(u) = Len(s) + Len(t)
          /\ \A k \in 1 .. Len(s) : u[k] = s[k]
          /\ \A k \in 1 .. Len(s) + Len(t) : k \notin 1 .. Len(s) =>
                u[k] = t[k - Len(s)] /\ k - Len(s) \in 1 .. Len(t)
      BY ConcatIs
    <2>2. /\ g \in Seq(ShownParts) /\ Len(g) = Len(s) /\ h \in Seq(ShownParts) /\ Len(h) = Len(t)
          /\ Shown(u) \in Seq(ShownParts) /\ Len(Shown(u)) = Len(u)
      BY <1>4, <2>1
    <2>3. /\ \A k \in 1 .. Len(u) : Shown(u)[k] = F(u[k])
          /\ \A k \in 1 .. Len(s) : g[k] = F(s[k])
          /\ \A k \in 1 .. Len(t) : h[k] = F(t[k])
      <3>1. DOMAIN u = 1 .. Len(u) /\ DOMAIN s = 1 .. Len(s) /\ DOMAIN t = 1 .. Len(t)
        BY <2>1
      <3> QED
        BY <1>2, <3>1
    <2> HIDE DEF u, g, h
    <2>4. /\ w \in Seq(ShownParts) /\ Len(w) = Len(s) + Len(t)
          /\ \A k \in 1 .. Len(s) : w[k] = g[k]
          /\ \A k \in 1 .. Len(s) + Len(t) : k \notin 1 .. Len(s) => w[k] = h[k - Len(s)]
      <3>1. /\ w \in Seq(ShownParts) /\ Len(w) = Len(g) + Len(h)
            /\ \A k \in 1 .. Len(g) : w[k] = g[k]
            /\ \A k \in 1 .. Len(g) + Len(h) : k \notin 1 .. Len(g) => w[k] = h[k - Len(g)]
        BY <2>2, ConcatIs
      <3> QED
        BY <2>2, <3>1
    <2> HIDE DEF w
    <2>5. \A k \in 1 .. Len(u) : Shown(u)[k] = w[k]
      BY <2>1, <2>3, <2>4
    <2>6. Shown(u) = w
      BY <2>1, <2>2, <2>4, <2>5, SeqEqual
    <2> QED
      BY <2>6 DEF u, w, g, h
  <1> QED
    BY <1>1, <1>4, <1>5

\* The calls of a message, and nothing else of it, are parts of the kind.
LEMMA CallParts ==
    ASSUME NEW m \in Spoken, NEW c, Shaped(c, m)
    PROVE  Kept(c.parts, {p \in TC!ToSet(c.parts) : p.kind = "call"}) = Shown(m.calls)
  <1> DEFINE g == Shown(m.calls)
             A == Range(g)
             S == {p \in TC!ToSet(c.parts) : p.kind = "call"}
  <1>1. m.calls \in Seq(Offers) /\ m.role \in {"user", "tool", "assistant"}
    BY DEF Spoken, Messages
  <1>2. g \in Seq(ShownParts) /\ \A k \in DOMAIN g : g[k].kind = "call"
    <2>1. \A e \in ShownParts : e.kind = "call"
      BY DEF ShownParts, TC!Part
    <2>2. g \in Seq(ShownParts)
      BY <1>1, ShownIs
    <2> HIDE DEF g
    <2> QED
      BY <2>1, <2>2
  <1>3. \E a : a.kind # "call" /\ c.parts = <<a>> \o g
    <2>1. \A kind, n : TC!Part(kind, n, None).kind = kind
      BY DEF TC!Part
    <2>2. CASE m.role = "assistant"
      <3>1. PICK kind \in {"thought", "text"} : c.parts = <<TC!Part(kind, None, None)>> \o g
        BY <2>2 DEF Shaped
      <3> QED
        BY <2>1, <3>1
    <2>3. CASE m.role \in {"user", "tool"}
      <3>1. g = <<>>
        BY <2>3, ShownIs DEF Spoken
      <3>2. PICK kind, n : /\ kind \in {"text", "result"}
                           /\ c.parts = <<TC!Part(kind, n, None)>>
        BY <2>3 DEF Shaped
      <3> DEFINE a == TC!Part(kind, n, None)
      <3>3. a.kind # "call"
        BY <2>1, <3>2
      <3> HIDE DEF a, g
      <3>4. <<a>> \o g = <<a>>
        BY <3>1
      <3> QED
        BY <3>2, <3>3, <3>4 DEF a
    <2> QED
      BY <1>1, <2>2, <2>3
  <1>4. PICK a : a.kind # "call" /\ c.parts = <<a>> \o g
    BY <1>3
  <1> HIDE DEF g
  <1>5. g \in Seq(A) /\ A \subseteq S
    <2>1. Len(g) \in Nat /\ DOMAIN g = 1 .. Len(g) /\ g = [k \in 1 .. Len(g) |-> g[k]]
      BY <1>2
    <2>2. \A k \in 1 .. Len(g) : g[k] \in A
      BY <2>1 DEF Range
    <2>3. g \in Seq(A)
      <3> HIDE DEF A
      <3> QED
        BY <2>1, <2>2
    <2>4. \A k \in 1 .. Len(g) : k + 1 \in DOMAIN c.parts /\ c.parts[k + 1] = g[k]
      <3> DEFINE B == A \cup {a}
                 u == <<a>>
      <3>1. g \in Seq(B) /\ u \in Seq(B) /\ Len(u) = 1
        <4> HIDE DEF A
        <4> QED
          BY <2>3
      <3> HIDE DEF B, u
      <3>2. /\ DOMAIN (u \o g) = 1 .. 1 + Len(g)
            /\ \A k \in 1 .. 1 + Len(g) : k \notin 1 .. 1 => (u \o g)[k] = g[k - 1]
        <4>1. /\ DOMAIN (u \o g) = 1 .. Len(u) + Len(g)
              /\ \A k \in 1 .. Len(u) + Len(g) :
                    k \notin 1 .. Len(u) => (u \o g)[k] = g[k - Len(u)]
          BY <3>1, ConcatIs
        <4> HIDE DEF g
        <4> QED
          BY <3>1, <4>1
      <3>3. \A k \in 1 .. Len(g) :
               k + 1 \in 1 .. 1 + Len(g) /\ k + 1 \notin 1 .. 1 /\ (k + 1) - 1 = k
        BY <2>1
      <3> QED
        BY <1>4, <3>2, <3>3 DEF u
    <2>5. \A k \in 1 .. Len(g) : g[k] \in S
      BY <1>2, <2>1, <2>4 DEF TC!ToSet
    <2> QED
      BY <2>1, <2>3, <2>5 DEF Range
  <1>6. a \notin S
    BY <1>4
  <1> HIDE DEF A
  <1>7. Kept(<<a>> \o g, S) = g
    <2> HIDE DEF S
    <2> QED
      BY <1>5, <1>6, KeptRest
  <1> QED
    BY <1>4, <1>7 DEF g

\* The calls of all messages.
LEMMA JoinedShown ==
    ASSUME NEW D \in Seq(Spoken)
    PROVE  Joined([k \in DOMAIN D |-> Shown(D[k].calls)]) = Shown(CallsIn(D))
  <1> DEFINE F(m) == Shown(m.calls)
             list(q) == [k \in DOMAIN q |-> F(q[k])]
             X == {q \in Seq(Spoken) : Joined(list(q)) = Shown(CallsIn(q))}
  <1>1. \A m \in Spoken : F(m) \in Seq(ShownParts)
    BY ShownIs DEF Spoken, Messages
  <1>2. <<>> \in X
    <2>1. CallsIn(<<>>) = <<>>
      BY ToldNothing DEF Told
    <2>2. list(<<>>) = <<>> /\ <<>> \in Seq(Spoken)
      OBVIOUS
    <2> QED
      BY <2>1, <2>2, JoinedNone, ShownIs
  <1>3. ASSUME NEW q \in X \cap Seq(Spoken), NEW e \in Spoken
        PROVE  Append(q, e) \in X
    <2> DEFINE V == Seq(ShownParts)
    <2>1. q \in Seq(Spoken) /\ Joined(list(q)) = Shown(CallsIn(q)) /\ Append(q, e) \in Seq(Spoken)
      OBVIOUS
    <2>2. CallsIn(q) \in Seq(Offers) /\ CallsIn(Append(q, e)) = CallsIn(q) \o e.calls
      BY <2>1, CallsAppend
    <2>3. e.calls \in Seq(Offers)
      BY DEF Spoken, Messages
    <2>4. Shown(CallsIn(Append(q, e))) = Shown(CallsIn(q)) \o F(e)
      BY <2>2, <2>3, ShownIs
    <2>5. F(e) \in V /\ \A k \in Spoken : F(k) \in V
      BY <1>1
    <2> HIDE DEF F, V
    <2>6. list(Append(q, e)) = Append(list(q), F(e)) /\ list(q) \in Seq(V)
      BY <2>1, <2>5
    <2> HIDE DEF list
    <2>7. Joined(Append(list(q), F(e))) = Joined(list(q)) \o F(e)
      BY <2>5, <2>6, JoinedAppend DEF V
    <2> QED
      BY <2>1, <2>4, <2>6, <2>7
  <1> HIDE DEF X
  <1>4. Seq(Spoken) \subseteq X
    BY <1>2, <1>3, Growing
  <1> QED
    BY <1>4, Zenon DEF X, list, F

\* The upstream is shown its own calls.
LEMMA CallsShown ==
    ASSUME NEW M, NEW C, Told(M, {}, C), Sames(C, made), NEW cs, ShapedAs(cs, M)
    PROVE  TC!Parts(cs, "call")
              = [k \in DOMAIN made |-> TC!Part("call", made[k].name,
                                               IF made[k].sig = None THEN Default ELSE made[k].sig)]
  <1> DEFINE F(c) == Kept(c.parts, {p \in TC!ToSet(c.parts) : p.kind = "call"})
             G(m) == Shown(m.calls)
  <1>1. M \in Seq(Spoken) /\ C \in Seq(Offers) /\ CallsIn(M) = C
    BY DEF Told
  <1>2. DOMAIN cs = DOMAIN M /\ \A k \in DOMAIN M : Shaped(cs[k], M[k]) /\ M[k] \in Spoken
    BY <1>1 DEF ShapedAs
  <1>3. \A k \in DOMAIN M : F(cs[k]) = G(M[k])
    BY <1>2, CallParts
  <1>4. TC!Parts(cs, "call") = Joined([k \in DOMAIN cs |-> F(cs[k])])
    BY SameFilters, Zenon DEF TC!Parts
  <1>5. Joined([k \in DOMAIN M |-> G(M[k])]) = Shown(C)
    BY <1>1, JoinedShown
  <1> HIDE DEF F, G
  <1>6. [k \in DOMAIN cs |-> F(cs[k])] = [k \in DOMAIN M |-> G(M[k])]
    BY <1>2, <1>3
  <1>7. Shown(C) = [k \in DOMAIN made |->
                      TC!Part("call", made[k].name,
                              IF made[k].sig = None THEN Default ELSE made[k].sig)]
    <2>1. DOMAIN made = 1 .. Len(made) /\ DOMAIN C = 1 .. Len(C) /\ Len(made) = Len(C)
      BY <1>1 DEF Sames
    <2>2. \A k \in DOMAIN C : made[k].name = TC!Cloak(C[k].name) /\ made[k].sig = C[k].id.tag
      BY DEF Sames, Same
    <2>3. \A k \in DOMAIN C :
             TC!Signature(C[k].id) = IF made[k].sig = None THEN Default ELSE made[k].sig
      BY <2>2 DEF TC!Signature
    <2> QED
      BY <2>1, <2>2, <2>3 DEF Shown
  <1> QED
    BY <1>4, <1>5, <1>6, <1>7

\* What the first part of a content says of the message.
LEMMA FirstPart ==
    ASSUME NEW m \in Spoken, NEW c, Shaped(c, m)
    PROVE  /\ c.parts[1].kind = "result" <=> m.role = "tool"
           /\ m.role = "tool" => c.parts[1].name = TC!Cloak(m.results[1].name)
           /\ c.role = "model" <=> m.role = "assistant"
           /\ m.role = "assistant" =>
                 /\ DOMAIN c.parts = 1 .. 1 + Len(m.calls) /\ c.parts[1].kind # "call"
                 /\ \A i \in DOMAIN m.calls :
                       /\ c.parts[1 + i].kind = "call"
                       /\ c.parts[1 + i].name = TC!Cloak(m.calls[i].name)
  <1>1. m.role \in {"user", "tool", "assistant"} /\ m.calls \in Seq(Offers)
    BY DEF Spoken, Messages
  <1>2. \A kind, n, s : TC!Part(kind, n, s).kind = kind /\ TC!Part(kind, n, s).name = n
    BY DEF TC!Part
  <1>3. CASE m.role = "user"
    BY <1>2, <1>3 DEF Shaped
  <1>4. CASE m.role = "tool"
    BY <1>2, <1>4 DEF Shaped
  <1>5. CASE m.role = "assistant"
    <2> DEFINE g == Shown(m.calls)
    <2>1. PICK kind \in {"thought", "text"} : c.parts = <<TC!Part(kind, None, None)>> \o g
      BY <1>5 DEF Shaped
    <2> DEFINE a == TC!Part(kind, None, None)
               B == ShownParts \cup {a}
               u == <<a>>
    <2>2. g \in Seq(ShownParts) /\ Len(g) = Len(m.calls) /\ Len(g) \in Nat
      BY <1>1, ShownIs
    <2>3. \A i \in DOMAIN m.calls : g[i].kind = "call" /\ g[i].name = TC!Cloak(m.calls[i].name)
      BY <1>1, <1>2 DEF Shown
    <2>4. a.kind \notin {"call", "result"}
      BY <1>2
    <2> HIDE DEF g, a
    <2>5. g \in Seq(B) /\ u \in Seq(B) /\ Len(u) = 1 /\ u[1] = a
      BY <2>2
    <2> HIDE DEF B, u
    <2>6. /\ DOMAIN (u \o g) = 1 .. Len(u) + Len(g)
          /\ \A k \in 1 .. Len(u) : (u \o g)[k] = u[k]
          /\ \A k \in 1 .. Len(u) + Len(g) : k \notin 1 .. Len(u) => (u \o g)[k] = g[k - Len(u)]
      BY <2>5, ConcatIs
    <2>7. c.parts = u \o g
      BY <2>1 DEF u, a
    <2>8. /\ DOMAIN c.parts = 1 .. 1 + Len(m.calls) /\ c.parts[1] = a
          /\ \A i \in 1 .. Len(m.calls) : c.parts[1 + i] = g[i]
      BY <2>2, <2>5, <2>6, <2>7
    <2>9. DOMAIN m.calls = 1 .. Len(m.calls)
      BY <1>1
    <2>10. c.role = "model"
      BY <1>5 DEF Shaped
    <2> QED
      BY <1>5, <2>3, <2>4, <2>8, <2>9, <2>10
  <1> QED
    BY <1>1, <1>3, <1>4, <1>5

\* The results right after message k under a name, and the calls in it.
ResultsOf(cs, M, k, n) == {j \in DOMAIN M : After(M, k, j) /\ cs[j].parts[1].name = n}
CallsOf(cs, k, n) ==
    {p \in DOMAIN cs[k].parts : cs[k].parts[p].kind = "call" /\ cs[k].parts[p].name = n}

\* The results right after a message are as many of each name as its calls.
LEMMA ResultsMatch ==
    ASSUME NEW M, NEW C, Told(M, {}, C), NEW cs, ShapedAs(cs, M), NEW n,
           NEW k \in DOMAIN M, M[k].role = "assistant"
    PROVE  Cardinality(ResultsOf(cs, M, k, n)) = Cardinality(CallsOf(cs, k, n))
  <1> DEFINE S == ResultsOf(cs, M, k, n)
             T == CallsOf(cs, k, n)
             asked == M[k].calls
             x(j) == M[j].results[1]
             f == [j \in S |-> CHOOSE p \in T : asked[p - 1].id = x(j)]
  <1>1. /\ M \in Seq(Spoken) /\ Matched(M, {}, k)
        /\ \A j \in DOMAIN M : M[j] \in Spoken /\ Shaped(cs[j], M[j])
    BY DEF Told, ShapedAs
  <1>2. /\ asked \in Seq(Offers) /\ Distinct(asked)
    BY <1>1 DEF Spoken, Messages
  <1>3. /\ DOMAIN asked = 1 .. Len(asked) /\ Len(asked) \in Nat
        /\ \A i \in DOMAIN asked : asked[i].name = asked[i].id.name
    BY <1>2 DEF Offers
  <1>4. /\ DOMAIN cs[k].parts = 1 .. 1 + Len(asked) /\ cs[k].parts[1].kind # "call"
        /\ \A i \in DOMAIN asked :
              cs[k].parts[1 + i].kind = "call" /\ cs[k].parts[1 + i].name = TC!Cloak(asked[i].name)
    BY <1>1, FirstPart
  <1>5. \A p : p \in T <=> \E i \in DOMAIN asked : p = 1 + i /\ TC!Cloak(asked[i].id.name) = n
    <2>1. ASSUME NEW p \in T
          PROVE  \E i \in DOMAIN asked : p = 1 + i /\ TC!Cloak(asked[i].id.name) = n
      <3>1. p \in 1 .. 1 + Len(asked) /\ p # 1 /\ cs[k].parts[p].name = n
        BY <1>4 DEF CallsOf
      <3>2. p - 1 \in DOMAIN asked /\ p = 1 + (p - 1)
        BY <1>3, <3>1
      <3> QED
        BY <1>3, <1>4, <3>1, <3>2
    <2>2. ASSUME NEW i \in DOMAIN asked, TC!Cloak(asked[i].id.name) = n
          PROVE  1 + i \in T
      BY <1>3, <1>4, <2>2 DEF CallsOf
    <2> QED
      BY <2>1, <2>2
  <1>6. \A j \in DOMAIN M : After(M, k, j) => /\ M[j].results = <<x(j)>> /\ M[j].role = "tool"
                                             /\ cs[j].parts[1].name = TC!Cloak(x(j).name)
    <2> SUFFICES ASSUME NEW j \in DOMAIN M, After(M, k, j)
                 PROVE  /\ M[j].results = <<x(j)>> /\ M[j].role = "tool"
                        /\ cs[j].parts[1].name = TC!Cloak(x(j).name)
      OBVIOUS
    <2>1. j \in k + 1 .. j
      BY <1>1 DEF After
    <2>2. M[j].role = "tool"
      BY <2>1 DEF After
    <2>3. \E y \in ToolIds : M[j].results = <<y>>
      BY <1>1, <2>2 DEF Spoken
    <2> QED
      BY <1>1, <2>2, <2>3, FirstPart
  <1>7. S = {j \in DOMAIN M : After(M, k, j) /\ cs[j].parts[1].name = n}
    BY DEF ResultsOf
  <1> HIDE DEF x, asked, T
  <1>8. \A j \in S : /\ f[j] \in T /\ f[j] - 1 \in DOMAIN asked /\ asked[f[j] - 1].id = x(j)
                     /\ f[j] = 1 + (f[j] - 1)
    <2> SUFFICES ASSUME NEW j \in S
                 PROVE  /\ f[j] \in T /\ f[j] - 1 \in DOMAIN asked /\ asked[f[j] - 1].id = x(j)
                        /\ f[j] = 1 + (f[j] - 1)
      OBVIOUS
    <2>1. x(j) \in IdsOf(asked)
      BY <1>1, <1>6, <1>7 DEF Matched, asked
    <2>2. PICK i \in DOMAIN asked : asked[i].id = x(j)
      BY <2>1 DEF IdsOf
    <2>3. TC!Cloak(asked[i].id.name) = n
      BY <1>6, <1>7, <2>2
    <2>4. 1 + i \in T /\ (1 + i) - 1 = i
      BY <1>3, <1>5, <2>3
    <2>5. \E p \in T : asked[p - 1].id = x(j)
      BY <2>2, <2>4
    <2>6. f[j] = CHOOSE p \in T : asked[p - 1].id = x(j)
      OBVIOUS
    <2>7. f[j] \in T /\ asked[f[j] - 1].id = x(j)
      BY <2>5, <2>6, Zenon
    <2> HIDE DEF f
    <2>8. PICK l \in DOMAIN asked : f[j] = 1 + l
      BY <1>5, <2>7
    <2>9. f[j] - 1 = l
      BY <1>3, <2>8
    <2> QED
      BY <2>7, <2>8, <2>9
  <1>9. f \in [S -> T]
    BY <1>8
  <1> HIDE DEF f
  <1>10. ASSUME NEW a \in S, NEW b \in S, f[a] = f[b]
        PROVE  a = b
    <2>1. x(a) = x(b)
      BY <1>8, <1>10
    <2>2. M[a].results = M[b].results
      BY <1>6, <1>7, <2>1
    <2> QED
      BY <1>1, <1>7, <2>2 DEF Matched
  <1>11. ASSUME NEW p \in T
         PROVE  \E a \in S : f[a] = p
    <2>1. PICK i \in DOMAIN asked : p = 1 + i /\ TC!Cloak(asked[i].id.name) = n
      BY <1>5
    <2>2. asked[i].id \in IdsOf(asked)
      BY DEF IdsOf
    <2>3. PICK j \in DOMAIN M : After(M, k, j) /\ M[j].results = <<asked[i].id>>
      BY <1>1, <2>2 DEF Matched, asked
    <2>4. x(j) = asked[i].id
      BY <2>3 DEF x
    <2>5. j \in S
      BY <1>6, <1>7, <2>1, <2>3, <2>4
    <2>6. f[j] - 1 = i
      BY <1>2, <1>8, <2>4, <2>5 DEF Distinct
    <2> QED
      BY <1>8, <2>1, <2>5, <2>6
  <1>12. IsFiniteSet(S)
    <2>1. DOMAIN M = 1 .. Len(M) /\ Len(M) \in Nat
      BY <1>1
    <2>2. IsFiniteSet(DOMAIN M)
      BY <2>1, FS_Interval
    <2> QED
      BY <1>7, <2>2, FS_Subset
  <1> HIDE DEF S
  <1>13. Cardinality(T) = Cardinality(S)
    BY <1>9, <1>10, <1>11, <1>12, SameSize
  <1> QED
    BY <1>13 DEF S, T

\* Each call is answered where it was made.
LEMMA ResultsShown ==
    ASSUME NEW M, NEW C, Told(M, {}, C), Sames(C, made), M = TC!OpenAIMessages
    PROVE  TC!ResultsFollowCalls
  <1> DEFINE cs == TC!Sent
             isResult(j)  == cs[j].parts[1].kind = "result"
             answersTo(k) == {j \in DOMAIN cs : j > k /\ \A l \in k + 1 .. j : isResult(l)}
             asks(k, n) ==
                {p \in DOMAIN cs[k].parts :
                   cs[k].parts[p].kind = "call" /\ cs[k].parts[p].name = n}
  <1>1. ShapedAs(cs, M)
    BY SentIs DEF TC!Sent
  <1> HIDE DEF cs
  <1>2. /\ M \in Seq(Spoken) /\ DOMAIN M = 1 .. Len(M) /\ Len(M) \in Nat /\ DOMAIN cs = DOMAIN M
        /\ \A k \in DOMAIN M : M[k] \in Spoken /\ Shaped(cs[k], M[k])
    BY <1>1 DEF Told, ShapedAs
  <1>3. \A j \in DOMAIN M : (isResult(j) <=> M[j].role = "tool")
                            /\ (cs[j].role = "model" <=> M[j].role = "assistant")
    BY <1>2, FirstPart
  <1>4. \A s : TC!Cardinality(s) = Cardinality(s)
    BY Zenon DEF TC!Cardinality, Cardinality, TC!IsFiniteSet, IsFiniteSet
  <1>5. ASSUME NEW k \in DOMAIN M
        PROVE  answersTo(k) = {j \in DOMAIN M : After(M, k, j)}
    <2>1. ASSUME NEW j \in DOMAIN M
          PROVE  (j > k /\ \A l \in k + 1 .. j : isResult(l)) <=> After(M, k, j)
      <3>1. \A l \in k + 1 .. j : l \in DOMAIN M
        BY <1>2
      <3>2. j > k <=> j \in k + 1 .. Len(M)
        BY <1>2
      <3> QED
        BY <1>3, <3>1, <3>2 DEF After
    <2> QED
      BY <1>2, <2>1
  <1> HIDE DEF isResult, answersTo
  <1>6. ASSUME NEW k \in DOMAIN cs, cs[k].role = "model", NEW n
        PROVE  TC!Cardinality({j \in answersTo(k) : cs[j].parts[1].name = n})
                  = TC!Cardinality(asks(k, n))
    <2>1. {j \in answersTo(k) : cs[j].parts[1].name = n}
             = ResultsOf(cs, M, k, n)
      BY <1>2, <1>5, <1>6 DEF ResultsOf
    <2>2. M[k].role = "assistant" /\ k \in DOMAIN M
      BY <1>2, <1>3, <1>6
    <2>3. Cardinality(ResultsOf(cs, M, k, n)) = Cardinality(CallsOf(cs, k, n))
      BY <1>1, <2>2, ResultsMatch
    <2>4. asks(k, n) = CallsOf(cs, k, n)
      BY DEF CallsOf
    <2> QED
      BY <1>4, <2>1, <2>3, <2>4
  <1>7. TC!Cardinality({j \in DOMAIN cs : isResult(j)}) = Len(made)
    <2>1. {j \in DOMAIN cs : isResult(j)} = ResultsIn(M)
      BY <1>2, <1>3 DEF ResultsIn
    <2>2. Cardinality(ResultsIn(M)) + Cardinality({}) = Len(C)
      BY DEF Told
    <2>3. Cardinality({}) = 0 /\ IsFiniteSet(ResultsIn(M))
      <3>1. IsFiniteSet(DOMAIN M)
        BY <1>2, FS_Interval
      <3> QED
        BY <3>1, FS_EmptySet, FS_Subset DEF ResultsIn
    <2>4. Cardinality(ResultsIn(M)) \in Nat
      BY <2>3, FS_CardinalityType
    <2>5. Len(made) = Len(C)
      BY DEF Sames
    <2>6. Cardinality(ResultsIn(M)) = Len(made)
      BY <2>2, <2>3, <2>4, <2>5
    <2> QED
      BY <1>4, <2>1, <2>6
  <1> HIDE DEF asks
  <1>8. /\ \A k \in DOMAIN cs : cs[k].role = "model" =>
              \A n \in TC!Declared :
                 TC!Cardinality({j \in answersTo(k) : cs[j].parts[1].name = n})
                    = TC!Cardinality(asks(k, n))
        /\ TC!Cardinality({j \in DOMAIN cs : isResult(j)}) = Len(made)
    BY <1>6, <1>7
  <1> QED
    BY <1>8, Zenon DEF TC!ResultsFollowCalls, cs, isResult, answersTo, asks

\* The invariant says what a client and an upstream make of it.
LEMMA ToolsCovered == ToolInv => HistoryIsKept
  <1> SUFFICES ASSUME ToolInv
               PROVE  HistoryIsKept
    OBVIOUS
  <1>1. PICK C \in Seq(Offers) : Fine(client, history, offered, C) /\ Sames(C, made)
    BY DEF ToolInv
  <1>2. /\ client \in {"claude", "openai"} /\ (TC!Asked => offered = <<>>)
        /\ \A k \in DOMAIN offered : offered[k].name \in tools
    BY DEF ToolInv
  <1>3. ASSUME TC!Asked
        PROVE  Told(TC!OpenAIMessages, {}, C)
    <2>1. TC!OpenAIMessages = IF client = "claude"
                              THEN TC!FixMissingToolResponses(ClaudeList(history))
                              ELSE OwnList(history)
      BY SameFilters, Zenon DEF TC!OpenAIMessages, ClaudeList, OwnList
    <2>2. CASE client = "claude"
      <3>1. Tells(ClaudeList(history), C)
        BY <1>1, <2>2 DEF Fine
      <3> QED
        BY <2>1, <2>2, <3>1, FixedTold
    <2>3. CASE client # "claude"
      <3>1. IdsOf(offered) = {}
        BY <1>2, <1>3 DEF IdsOf
      <3>2. Told(OwnList(history), IdsOf(offered), C)
        BY <1>1, <2>3 DEF Fine
      <3> QED
        BY <2>1, <2>3, <3>1, <3>2
    <2> QED
      BY <2>2, <2>3
  <1>4. TC!CallsReturn
    <2>1. ASSUME TC!Asked
          PROVE  TC!Parts(TC!Sent, "call")
                    = [k \in DOMAIN made |->
                         TC!Part("call", made[k].name,
                                 IF made[k].sig = None THEN Default ELSE made[k].sig)]
      <3>1. Told(TC!OpenAIMessages, {}, C)
        BY <1>3, <2>1
      <3>2. ShapedAs(TC!Sent, TC!OpenAIMessages)
        BY <3>1, SentIs, Zenon DEF TC!Sent
      <3> QED
        BY <1>1, <3>1, <3>2, CallsShown
    <2> QED
      BY <1>2, <2>1 DEF TC!CallsReturn
  <1>5. TC!ResultsFollowCalls
    <2>1. CASE TC!Asked
      BY <1>1, <1>3, <2>1, ResultsShown
    <2>2. CASE ~TC!Asked
      BY <2>2 DEF TC!ResultsFollowCalls
    <2> QED
      BY <2>1, <2>2
  <1> QED
    BY <1>4, <1>5 DEF HistoryIsKept

\* HistoryIsKept, for every set of tools, every signature and conversations of any length: each
\* call that was made goes back upstream as it was made, and its result right after it.
THEOREM HistoryIsAlwaysKept == TC!Spec => []HistoryIsKept
  <1>1. TC!Init => ToolInv
    BY ToolInit
  <1>2. ToolInv /\ [TC!Next]_TC!vars => ToolInv'
    BY ToolStep
  <1>3. ToolInv => HistoryIsKept
    BY ToolsCovered
  <1> QED
    BY <1>1, <1>2, <1>3, PTL DEF TC!Spec
=============================================================================
