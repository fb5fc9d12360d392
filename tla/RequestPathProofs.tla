--------------------------- MODULE RequestPathProofs ---------------------------
(***************************************************************************)
(* The executors implement ChatStream, the error level follows the quota   *)
(* errors, formats meet, a flattened combo has all that it reaches, the    *)
(* models of a combo lead equally often, and events and envelopes arrive   *)
(* whole, for every value of the constants.                                *)
(***************************************************************************)
EXTENDS RequestParts, Recursion

-----------------------------------------------------------------------------
(* The chunks an executor has yet to write *)

Role   == ES!Plain("role")
Finish == ES!Plain("finish")
Error  == ES!Plain("error")
Done   == ES!Plain("done")
Words  == {ES!Plain("text"), ES!Plain("reasoning")}

Made == Calls \cup Fabricated
Ids  == Made \cup {"gemini"}

\* An index is a call's: by the executor's own table, because the id was made up with it, or
\* as Gemini's only one.
Belongs(i, c) ==
    \/ c \in Calls /\ index[c] = i
    \/ c \in Fabricated \cap named /\ i < count /\ \A d \in Calls : index[d] # i
    \/ c = "gemini" /\ who = "gemini" /\ i = 0

\* A fragment the client takes.
Fits(i, c) ==
    /\ i \in ES!Indices /\ c \in Ids /\ Belongs(i, c)
    /\ owner[i] \in {None, c} /\ \A j \in ES!Indices \ {i} : owner[j] # c

\* Content of an answer.
Speech(e) ==
    \/ e \in Words
    \/ \E c \in Calls : e = ES!CS!Event("whole", None, c)
    \/ \E i \in ES!Indices, c \in Ids : e = ES!Fragment(i, c) /\ Fits(i, c)

-----------------------------------------------------------------------------
(* The invariant *)

\* The calls that have an index of their own.
Used == {c \in Calls : index[c] # None} \cup (named \cap Fabricated)

Types ==
    /\ who \in ES!Executors /\ up \in {"open", "ended", "closed"}
    /\ index \in [Calls -> Nat \cup {None}] /\ count \in Nat
    /\ named \subseteq Made
    /\ broken \in BOOLEAN /\ completed \in BOOLEAN /\ failure \in BOOLEAN
    /\ greeted \in BOOLEAN /\ role \in BOOLEAN
    /\ result \in {"running", "ok", "error"}
    /\ ended \in {"no", "finished", "failed", "done"}

\* Indices are given out once.
Numbering ==
    /\ \A c \in Calls : index[c] # None => index[c] < count
    /\ \A c, d \in Calls : index[c] # None /\ index[c] = index[d] => c = d
    /\ who = "gemini" => named = {} /\ count <= GeminiCalls /\ \A c \in Calls : index[c] = None
    /\ who # "gemini" => count = Cardinality(Used)
    /\ who # "codex" => named \subseteq {c \in Calls : index[c] # None}
    /\ who = "codex" => named \subseteq Fabricated

\* What the client knows of an index is what the executor means by it.
Owners ==
    /\ owner \in [ES!Indices -> Ids \cup {None}]
    /\ \A i \in ES!Indices : owner[i] # None => Belongs(i, owner[i])
    /\ \A i, j \in ES!Indices : owner[i] # None /\ owner[i] = owner[j] => i = j

\* While the upstream is open: content, with the role in front of the first.
Opened ==
    /\ ended = "no" /\ ~completed
    /\ \/ out = <<>>
       \/ \E e : out = <<e>> /\ Speech(e)
       \/ out = <<Role>> /\ ~role /\ greeted
       \/ \E e : out = <<Role, e>> /\ Speech(e) /\ ~role /\ greeted
    /\ ~greeted => ~role

\* After the final event: its finish reason, once.
Ending ==
    /\ completed => who \in {"codex", "commandcode", "gemini"}
    /\ \/ out = <<>> /\ ended = (IF completed THEN "finished" ELSE "no")
       \/ /\ ended = "no" /\ completed
          /\ \/ out = <<Finish>> \/ out = <<ES!Plain("text"), Finish>>
             \/ out = <<Role, Finish>> /\ ~role

\* After the executor returned: one end, and [DONE] behind it.
Ended ==
    \/ out = <<>>
    \/ ended = "no" /\ (out = <<Finish, Done>> \/ out = <<Error, Done>> \/ out = <<Error>>)
    \/ ended \in {"finished", "failed"} /\ out = <<Done>>

Flow == IF result # "running" THEN Ended ELSE IF up = "open" THEN Opened ELSE Ending

StreamInv == Types /\ Numbering /\ Owners /\ Flow

-----------------------------------------------------------------------------
\* Cardinality of the executors' module is the one of this.
LEMMA Counting == \A S : ES!Cardinality(S) = Cardinality(S)
  BY DEF ES!Cardinality, Cardinality

\* The chunks as records.
LEMMA Chunks ==
    /\ \A k : ES!Plain(k) = [kind |-> k, index |-> None, call |-> None]
    /\ \A i, c : ES!Fragment(i, c) = [kind |-> "fragment", index |-> i, call |-> c]
    /\ \A c : ES!CS!Event("whole", None, c) = [kind |-> "whole", index |-> None, call |-> c]
  BY DEF ES!Plain, ES!Fragment, ES!CS!Plain, ES!CS!Event

\* What is left of one chunk ...
LEMMA One == \A a : Head(<<a>>) = a /\ Tail(<<a>>) = <<>> /\ <<a>> # <<>>
  OBVIOUS

\* ... and of two.
LEMMA Two == \A a, b : Head(<<a, b>>) = a /\ Tail(<<a, b>>) = <<b>> /\ <<a, b>> # <<>>
  OBVIOUS

\* An announced role goes in front.
LEMMA Concats == /\ \A b : <<>> \o <<b>> = <<b>>
                 /\ \A a, b : <<a>> \o <<b>> = <<a, b>>
  <1>1. \A b : <<>> \o <<b>> = <<b>>
    OBVIOUS
  <1>2. ASSUME NEW a, NEW b
        PROVE  <<a>> \o <<b>> = <<a, b>>
    <2>1. <<a>> \in Seq({a, b}) /\ <<b>> \in Seq({a, b}) /\ <<a, b>> \in Seq({a, b})
      OBVIOUS
    <2>2. /\ Len(<<a>> \o <<b>>) = 2 /\ (<<a>> \o <<b>>)[1] = a /\ (<<a>> \o <<b>>)[2] = b
          /\ <<a>> \o <<b>> \in Seq({a, b})
      BY <2>1
    <2>3. Len(<<a, b>>) = 2 /\ <<a, b>>[1] = a /\ <<a, b>>[2] = b
      OBVIOUS
    <2> DEFINE s == <<a>> \o <<b>>
               t == <<a, b>>
    <2>4. s \in Seq({a, b}) /\ t \in Seq({a, b}) /\ Len(s) = Len(t)
          /\ \A i \in 1 .. Len(s) : s[i] = t[i]
      <3>1. 1 .. Len(s) = {1, 2}
        BY <2>2
      <3> QED
        BY <2>1, <2>2, <2>3, <3>1
    <2> HIDE DEF s, t
    <2>5. s = t
      BY <2>4, SeqEqual
    <2> QED
      BY <2>5 DEF s, t
  <1> QED
    BY <1>1, <1>2

\* There are as many indices as calls and made-up ids, so there is one for the next.
LEMMA Enough ==
    /\ IsFiniteSet(Made) /\ Cardinality(Made) = Cardinality(Calls) + Cardinality(Fabricated)
    /\ Cardinality(Made) \in Nat \ {0}
    /\ ES!Indices = 0 .. Cardinality(Made) - 1
    /\ ES!Cardinality(ES!Indices) = Cardinality(Made)
  <1>1. IsFiniteSet(Made)
    BY ExecutorAssumption, FS_Union DEF Made
  <1>2. Cardinality(Made) = Cardinality(Calls) + Cardinality(Fabricated)
    <2>1. Cardinality(Calls \cap Fabricated) = 0
      BY ExecutorAssumption, FS_EmptySet
    <2>2. Cardinality(Calls) \in Nat /\ Cardinality(Fabricated) \in Nat
      BY ExecutorAssumption, FS_CardinalityType
    <2>3. Cardinality(Made) =
           Cardinality(Calls) + Cardinality(Fabricated) - Cardinality(Calls \cap Fabricated)
      BY ExecutorAssumption, FS_Union DEF Made
    <2> QED
      BY <2>1, <2>2, <2>3
  <1>3. Cardinality(Calls) \in Nat \ {0} /\ Cardinality(Fabricated) \in Nat
    BY ExecutorAssumption, FS_EmptySet, FS_CardinalityType
  <1>4. ES!Indices = 0 .. Cardinality(Made) - 1
    BY <1>2, <1>3, Counting DEF ES!Indices
  <1>5. Cardinality(0 .. Cardinality(Made) - 1) = Cardinality(Made)
    BY <1>2, <1>3, FS_Interval
  <1> QED
    BY <1>1, <1>2, <1>3, <1>4, <1>5, Counting

-----------------------------------------------------------------------------
(* A chunk reaches the client *)

Unread == UNCHANGED <<who, up, broken, index, count, named, completed, failure, greeted, result>>

\* Chunks that are no fragments.
LEMMA PlainDelivered ==
    ASSUME ES!Deliver, Head(out).kind # "fragment", role \in BOOLEAN
    PROVE  /\ Unread /\ out # <<>> /\ out' = Tail(out) /\ owner' = owner
           /\ last' = Head(out) /\ beat' = 1 - beat
           /\ Head(out).kind = "role" => role' = TRUE
           /\ Head(out).kind # "role" => role' = role
           /\ Head(out).kind = "finish" => ended' = "finished"
           /\ Head(out).kind = "error" => ended' = "failed"
           /\ Head(out).kind = "done" => ended' = "done"
           /\ Head(out).kind \notin {"finish", "error", "done"} => ended' = ended
  BY DEF ES!Deliver, ES!reader, Unread

LEMMA FragmentDelivered ==
    ASSUME ES!Deliver, NEW i, NEW c, Head(out) = ES!Fragment(i, c), role \in BOOLEAN
    PROVE  /\ Unread /\ out # <<>> /\ out' = Tail(out)
           /\ owner' = [owner EXCEPT ![i] = c]
           /\ last' = Head(out) /\ beat' = 1 - beat
           /\ role' = role /\ ended' = ended
  <1>1. Head(out).kind = "fragment" /\ Head(out).index = i /\ Head(out).call = c
    BY Chunks
  <1> QED
    BY <1>1 DEF ES!Deliver, ES!reader, Unread

\* The client's knowledge of an index stays what the executor means by it.
LEMMA SameOwners ==
    ASSUME Owners, Unread, owner' = owner
    PROVE  Owners'
  BY DEF Owners, Unread, Belongs

\* A chunk that is delivered leaves the numbers alone.
LEMMA SameNumbering ==
    ASSUME Numbering, Unread
    PROVE  Numbering'
  BY DEF Numbering, Unread, Used

\* What may be delivered next may still be, after a chunk that is no fragment.
LEMMA SameSpeech ==
    ASSUME Unread, owner' = owner, NEW e, Speech(e)
    PROVE  Speech(e)'
  BY DEF Speech, Unread, Fits, Belongs

\* A fragment that fits makes its index the call's, for the client too.
LEMMA FragmentFits ==
    ASSUME Types, Owners, NEW i, NEW c, Fits(i, c), Unread, owner' = [owner EXCEPT ![i] = c]
    PROVE  Owners'
  <1>1. i \in ES!Indices /\ c \in Ids /\ owner \in [ES!Indices -> Ids \cup {None}]
    BY DEF Fits, Owners
  <1>2. owner' \in [ES!Indices -> Ids \cup {None}]
    BY <1>1
  <1>3. ASSUME NEW j \in ES!Indices, owner'[j] # None
        PROVE  Belongs(j, owner[j])'
    <2>1. Belongs(j, owner'[j])
      BY <1>1, <1>3 DEF Fits, Owners
    <2> QED
      BY <2>1 DEF Belongs, Unread
  <1>4. ASSUME NEW j \in ES!Indices, NEW k \in ES!Indices, owner'[j] # None, owner'[j] = owner'[k]
        PROVE  j = k
    <2>1. CASE j = i /\ k # i
      BY <1>1, <1>4, <2>1 DEF Fits
    <2>2. CASE k = i /\ j # i
      BY <1>1, <1>4, <2>2 DEF Fits
    <2>3. CASE j # i /\ k # i
      BY <1>1, <1>4, <2>3 DEF Owners
    <2> QED
      BY <2>1, <2>2, <2>3
  <1> QED
    BY <1>2, <1>3, <1>4 DEF Owners

\* What the first chunk may be, by what the client knows.
Ready(e) ==
    \/ ended = "no" /\ (Speech(e) \/ (e = Role /\ ~role) \/ e = Finish \/ e = Error)
    \/ ended \in {"finished", "failed"} /\ e = Done

\* The invariant has the next chunk be one that the client takes.
LEMMA HeadIsReady ==
    ASSUME StreamInv, out # <<>>
    PROVE  Ready(Head(out))
  <1>1. CASE result # "running"
    BY <1>1, One, Two DEF StreamInv, Flow, Ended, Ready
  <1>2. CASE result = "running" /\ up = "open"
    <2>1. Opened
      BY <1>2 DEF StreamInv, Flow
    <2>2. ASSUME NEW e, out = <<e>>, Speech(e)
          PROVE  Ready(Head(out))
      <3>1. Head(out) = e /\ ended = "no"
        BY <2>1, <2>2, One DEF Opened
      <3> QED
        BY <2>2, <3>1 DEF Ready
    <2>3. ASSUME NEW e, out = <<Role, e>>, ~role
          PROVE  Ready(Head(out))
      BY <2>1, <2>3, Two DEF Opened, Ready
    <2>4. CASE out = <<Role>> /\ ~role
      BY <2>1, <2>4, One DEF Opened, Ready
    <2> QED
      BY <2>1, <2>2, <2>3, <2>4 DEF Opened
  <1>3. CASE result = "running" /\ up # "open"
    <2>1. Speech(ES!Plain("text"))
      BY DEF Speech, Words
    <2>2. Ending
      BY <1>3 DEF StreamInv, Flow
    <2>3. Head(out) = Finish \/ Head(out) = ES!Plain("text") \/ (Head(out) = Role /\ ~role)
      BY <2>2, One, Two DEF Ending
    <2>4. ended = "no"
      BY <2>2 DEF Ending
    <2> QED
      BY <2>1, <2>3, <2>4 DEF Ready
  <1> QED
    BY <1>1, <1>2, <1>3

\* Every chunk the client gets is one that ChatStream has in store.
LEMMA DeliverImplements ==
    ASSUME StreamInv, ES!Deliver
    PROVE  ES!CS!Next
  <1> DEFINE e == Head(out)
  <1>0. Ready(e) /\ role \in BOOLEAN
    BY HeadIsReady DEF ES!Deliver, StreamInv, Types
  <1>1. CASE e \in Words /\ ended = "no"
    <2>1. e.kind \in {"text", "reasoning"} /\ e = ES!CS!Plain(e.kind)
      BY <1>1, Chunks DEF Words, ES!Plain
    <2>2. ES!CS!Content
      BY <1>0, <1>1, <2>1, PlainDelivered DEF ES!CS!Content, ES!CS!Happens
    <2> QED
      BY <2>2 DEF ES!CS!Next
  <1>2. ASSUME NEW c \in Calls, e = ES!CS!Event("whole", None, c), ended = "no"
        PROVE  ES!CS!Next
    <2>1. e.kind = "whole"
      BY <1>2, Chunks
    <2>2. ES!CS!Whole(c)
      BY <1>0, <1>2, <2>1, PlainDelivered DEF ES!CS!Whole, ES!CS!Happens
    <2> QED
      BY <2>2 DEF ES!CS!Next
  <1>3. ASSUME NEW i \in ES!Indices, NEW c \in Ids, e = ES!Fragment(i, c), Fits(i, c), ended = "no"
        PROVE  ES!CS!Next
    <2>1. ES!CS!Fragment(i, c)
      BY <1>0, <1>3, FragmentDelivered DEF ES!CS!Fragment, ES!CS!Happens, ES!Fragment, Fits
    <2> QED
      BY <2>1 DEF ES!CS!Next, Ids, Made
  <1>4. CASE e = Role /\ ~role /\ ended = "no"
    <2>1. e.kind = "role" /\ e = ES!CS!Plain("role")
      BY <1>4, Chunks DEF Role, ES!Plain
    <2>2. ES!CS!Role
      BY <1>0, <1>4, <2>1, PlainDelivered DEF ES!CS!Role, ES!CS!Happens
    <2> QED
      BY <2>2 DEF ES!CS!Next
  <1>5. CASE e = Finish /\ ended = "no"
    <2>1. e.kind = "finish" /\ e = ES!CS!Plain("finish")
      BY <1>5, Chunks DEF Finish, ES!Plain
    <2>2. ES!CS!Finish
      BY <1>0, <1>5, <2>1, PlainDelivered DEF ES!CS!Finish, ES!CS!End, ES!CS!Happens
    <2> QED
      BY <2>2 DEF ES!CS!Next
  <1>6. CASE e = Error /\ ended = "no"
    <2>1. e.kind = "error" /\ e = ES!CS!Plain("error")
      BY <1>6, Chunks DEF Error, ES!Plain
    <2>2. ES!CS!Fail
      BY <1>0, <1>6, <2>1, PlainDelivered DEF ES!CS!Fail, ES!CS!End, ES!CS!Happens
    <2> QED
      BY <2>2 DEF ES!CS!Next
  <1>7. CASE e = Done /\ ended \in {"finished", "failed"}
    <2>1. e.kind = "done" /\ e = ES!CS!Plain("done")
      BY <1>7, Chunks DEF Done, ES!Plain
    <2>2. ES!CS!Done
      BY <1>0, <1>7, <2>1, PlainDelivered DEF ES!CS!Done, ES!CS!End, ES!CS!Happens
    <2> QED
      BY <2>2 DEF ES!CS!Next
  <1> QED
    BY <1>0, <1>1, <1>2, <1>3, <1>4, <1>5, <1>6, <1>7 DEF Ready, Speech

\* Delivering the first chunk keeps the invariant, whatever is behind it.
LEMMA DeliverKeeps ==
    ASSUME StreamInv, ES!Deliver
    PROVE  StreamInv'
  <1>0. /\ Ready(Head(out)) /\ role \in BOOLEAN /\ Unread /\ out # <<>> /\ out' = Tail(out)
        /\ Types /\ Numbering /\ Owners
    BY HeadIsReady DEF ES!Deliver, ES!reader, Unread, StreamInv, Types
  <1>1. Numbering'
    BY <1>0, SameNumbering
  <1>2. Types'
    BY <1>0 DEF ES!Deliver, Types, Unread
  <1>3. CASE Head(out).kind = "fragment"
    <2>1. PICK i \in ES!Indices, c \in Ids : Head(out) = ES!Fragment(i, c) /\ Fits(i, c)
      BY <1>0, <1>3, Chunks DEF Ready, Speech, Words, Role, Finish, Error, Done
    <2>2. Owners'
      BY <1>0, <2>1, FragmentDelivered, FragmentFits
    <2>3. role' = role /\ ended' = ended
      BY <1>0, <2>1, FragmentDelivered
    <2>4. out' = <<>> /\ result = "running" /\ up = "open" /\ Opened
      <3>1. \A k : ES!Plain(k) = Head(out) => k = "fragment"
        BY <1>3, Chunks
      <3>2. ~ Ended /\ ~ Ending
        BY <1>0, <3>1, One, Two DEF Ended, Ending, Finish, Error, Done, Role
      <3>3. result = "running" /\ up = "open" /\ Opened
        BY <3>2 DEF StreamInv, Flow
      <3>4. out # <<Role>> /\ \A e : out # <<Role, e>>
        BY <3>1, One, Two DEF Role
      <3>5. PICK e : out = <<e>>
        BY <1>0, <3>3, <3>4 DEF Opened
      <3> QED
        BY <1>0, <3>3, <3>5, One
    <2>5. Opened'
      BY <1>0, <2>3, <2>4 DEF Opened, Unread
    <2> QED
      BY <1>0, <1>1, <1>2, <2>2, <2>4, <2>5 DEF StreamInv, Flow, Unread
  <1>4. CASE Head(out).kind # "fragment"
    <2>1. owner' = owner
      BY <1>0, <1>4, PlainDelivered
    <2>2. Owners'
      BY <1>0, <2>1, SameOwners
    <2>3. CASE result # "running"
      <3>1. Ended
        BY <2>3 DEF StreamInv, Flow
      <3>2. ASSUME out = <<Finish, Done>> \/ out = <<Error, Done>>
            PROVE  Ended'
        <4>1. Head(out) = Finish \/ Head(out) = Error
          BY <3>2, Two
        <4>2. Head(out).kind = "finish" \/ Head(out).kind = "error"
          BY <4>1, Chunks DEF Finish, Error
        <4>3. ended' \in {"finished", "failed"}
          BY <1>0, <1>4, <4>2, PlainDelivered
        <4>4. out' = <<Done>>
          BY <1>0, <3>2, Two
        <4> QED
          BY <4>3, <4>4 DEF Ended
      <3>3. ASSUME out = <<Error>> \/ out = <<Done>>
            PROVE  Ended'
        <4>1. out' = <<>>
          BY <1>0, <3>3, One
        <4> QED
          BY <4>1 DEF Ended
      <3>4. Ended'
        BY <1>0, <3>1, <3>2, <3>3 DEF Ended
      <3> QED
        BY <1>0, <1>1, <1>2, <2>2, <2>3, <3>4 DEF StreamInv, Flow, Unread
    <2>4. CASE result = "running" /\ up # "open"
      <3>1. Ending
        BY <2>4 DEF StreamInv, Flow
      <3>0. completed' = completed /\ who' = who
        BY <1>0 DEF Unread
      <3>2. ASSUME out = <<Finish>>
            PROVE  Ending'
        <4>1. Head(out).kind = "finish" /\ out' = <<>>
          BY <1>0, <3>2, One, Chunks DEF Finish
        <4>2. ended' = "finished" /\ completed
          BY <1>0, <1>4, <3>1, <4>1, PlainDelivered DEF Ending
        <4> QED
          BY <3>0, <3>1, <4>1, <4>2 DEF Ending
      <3>3. ASSUME out = <<ES!Plain("text"), Finish>> \/ out = <<Role, Finish>>
            PROVE  Ending'
        <4>1. Head(out) = ES!Plain("text") \/ Head(out) = Role
          BY <3>3, Two
        <4>2. Head(out).kind \notin {"finish", "error", "done"}
          BY <4>1, Chunks DEF Role
        <4>3. out' = <<Finish>>
          BY <1>0, <3>3, Two
        <4>4. ended' = "no" /\ completed
          BY <1>0, <1>4, <3>1, <4>2, PlainDelivered DEF Ending
        <4> QED
          BY <3>0, <3>1, <4>3, <4>4 DEF Ending
      <3>5. Ending'
        BY <1>0, <3>1, <3>2, <3>3 DEF Ending
      <3> QED
        BY <1>0, <1>1, <1>2, <2>2, <2>4, <3>5 DEF StreamInv, Flow, Unread
    <2>5. CASE result = "running" /\ up = "open"
      <3>1. Opened
        BY <2>5 DEF StreamInv, Flow
      <3>2. ended' = ended
        <4>1. Head(out).kind \notin {"finish", "error", "done"}
          BY <1>0, <3>1, One, Two, Chunks DEF Opened, Speech, Words, Role
        <4> QED
          BY <1>0, <1>4, <4>1, PlainDelivered
      <3>3. ASSUME NEW e, out = <<e>>, Speech(e)
            PROVE  Opened'
        <4>1. Head(out) = e /\ out' = <<>>
          BY <1>0, <3>3, One
        <4>2. e.kind # "role"
          BY <3>3, Chunks DEF Speech, Words
        <4>3. role' = role
          BY <1>0, <1>4, <4>1, <4>2, PlainDelivered
        <4> QED
          BY <1>0, <3>1, <3>2, <4>1, <4>3 DEF Opened, Unread
      <3>4. ASSUME out = <<Role>>, greeted
            PROVE  Opened'
        <4>1. out' = <<>>
          BY <1>0, <3>4, One
        <4> QED
          BY <1>0, <3>1, <3>2, <3>4, <4>1 DEF Opened, Unread
      <3>5. ASSUME NEW e, out = <<Role, e>>, Speech(e), greeted
            PROVE  Opened'
        <4>1. out' = <<e>>
          BY <1>0, <3>5, Two
        <4>2. Speech(e)'
          BY <1>0, <2>1, <3>5, SameSpeech
        <4> QED
          BY <1>0, <3>1, <3>2, <3>5, <4>1, <4>2 DEF Opened, Unread
      <3>6. Opened'
        BY <1>0, <3>1, <3>3, <3>4, <3>5 DEF Opened
      <3> QED
        BY <1>0, <1>1, <1>2, <2>2, <2>5, <3>6 DEF StreamInv, Flow, Unread
    <2> QED
      BY <2>3, <2>4, <2>5
  <1> QED
    BY <1>3, <1>4

-----------------------------------------------------------------------------
(* An event of the upstream *)

\* A call that has an index keeps it.
LEMMA KnownFits ==
    ASSUME Types, Numbering, Owners, who # "gemini", NEW c \in Calls, index[c] # None
    PROVE  Fits(index[c], c)
  <1>1. c \in Ids /\ Belongs(index[c], c) /\ index[c] \in Nat /\ index[c] < count
    BY DEF Types, Numbering, Belongs, Ids, Made
  <1>2. Used \subseteq Made
    BY DEF Used, Made
  <1>3. count <= Cardinality(Made)
    BY <1>2, Enough, FS_Subset DEF Numbering
  <1>4. index[c] \in ES!Indices
    BY <1>1, <1>3, Enough DEF Types
  <1>5. ASSUME owner[index[c]] # None
        PROVE  owner[index[c]] = c
    BY <1>4, <1>5 DEF Owners, Belongs, Numbering
  <1>6. ASSUME NEW j \in ES!Indices, owner[j] = c
        PROVE  j = index[c]
    BY <1>6, ExecutorAssumption DEF Owners, Belongs
  <1> QED
    BY <1>1, <1>4, <1>5, <1>6 DEF Fits

\* A new call, or a new made-up id, takes the next index: nothing has it yet.
LEMMA NextIsFree ==
    ASSUME Types, Numbering, Owners, who # "gemini", NEW c \in Made, c \notin Used
    PROVE  /\ count \in ES!Indices /\ owner[count] = None
           /\ \A j \in ES!Indices : owner[j] # c
           /\ Cardinality(Used \cup {c}) = count + 1
  <1>1. Used \subseteq Made /\ Used \cup {c} \subseteq Made
    BY DEF Used, Made
  <1>2. IsFiniteSet(Used)
    BY <1>1, Enough, FS_Subset
  <1>3. Cardinality(Used \cup {c}) = count + 1
    BY <1>2, FS_AddElement DEF Numbering
  <1>4. count + 1 <= Cardinality(Made)
    BY <1>1, <1>3, Enough, FS_Subset
  <1>5. count \in ES!Indices
    BY <1>4, Enough DEF Types
  <1>6. \A d \in Calls : index[d] # count
    BY ExecutorAssumption DEF Types, Numbering
  <1>7. owner[count] = None
    <2>1. ~ Belongs(count, owner[count])
      BY <1>6 DEF Types, Belongs
    <2> QED
      BY <1>5, <2>1 DEF Owners
  <1>8. ASSUME NEW j \in ES!Indices, owner[j] = c
        PROVE  FALSE
    <2>1. owner[j] # None
      BY <1>8, ExecutorAssumption DEF Made
    <2>2. Belongs(j, c)
      BY <1>8, <2>1 DEF Owners
    <2>3. j # None
      BY Enough, ExecutorAssumption
    <2> QED
      BY <2>2, <2>3, ExecutorAssumption DEF Belongs, Used, Made
  <1> QED
    BY <1>3, <1>5, <1>7, <1>8

\* Numbers: a call that is named for the first time gets an index, and the old ones stay.
LEMMA NumbersKeeps ==
    ASSUME Types, Numbering, Owners, NEW c \in Calls, ES!Numbers(c), who # "gemini",
           NEW i, i = ES!IndexOf(c), who' = who, owner' = owner,
           named' = named \/ (who = "commandcode" /\ named' = named \cup {c})
    PROVE  /\ index' \in [Calls -> Nat \cup {None}] /\ count' \in Nat /\ named' \subseteq Made
           /\ Numbering' /\ Owners' /\ Fits(i, c)'
  <1>0. /\ index \in [Calls -> Nat \cup {None}] /\ count \in Nat /\ named \subseteq Made
        /\ c \in Made /\ c \in Ids /\ c \notin Fabricated
    BY ExecutorAssumption DEF Types, Made, Ids
  <1>1. CASE index[c] # None
    <2>1. index' = index /\ count' = count /\ i = index[c]
      BY <1>0, <1>1 DEF ES!Numbers, ES!IndexOf
    <2>2. Used' = Used
      BY <1>0, <2>1 DEF Used
    <2>3. Numbering'
      BY <1>0, <1>1, <2>1, <2>2 DEF Numbering
    <2>4. \A j, d : Belongs(j, d) <=> Belongs(j, d)'
      BY <1>0, <2>1 DEF Belongs
    <2>5. Owners'
      BY <2>4 DEF Owners
    <2>6. Fits(i, c)
      BY <1>1, <2>1, KnownFits
    <2>7. Fits(i, c)'
      BY <2>4, <2>6 DEF Fits
    <2> QED
      BY <1>0, <2>1, <2>3, <2>5, <2>7
  <1>2. CASE index[c] = None
    <2>1. index' = [index EXCEPT ![c] = count] /\ count' = count + 1 /\ i = count
      BY <1>2 DEF ES!Numbers, ES!IndexOf
    <2>2. c \notin Used /\ Used' = Used \cup {c}
      BY <1>0, <1>2, <2>1, ExecutorAssumption DEF Used
    <2>3. /\ count \in ES!Indices /\ owner[count] = None
          /\ \A j \in ES!Indices : owner[j] # c
          /\ Cardinality(Used \cup {c}) = count + 1
      BY <1>0, <2>2, NextIsFree
    <2>4. Numbering'
      <3>1. \A d \in Calls : index'[d] # None => index'[d] < count'
        BY <1>0, <2>1 DEF Numbering
      <3>2. \A d, e \in Calls : index'[d] # None /\ index'[d] = index'[e] => d = e
        BY <1>0, <2>1 DEF Numbering
      <3>3. who # "codex" => named' \subseteq {d \in Calls : index'[d] # None}
        <4>1. \A d \in Calls : index[d] # None => index'[d] # None
          BY <1>0, <2>1, ExecutorAssumption
        <4>2. index'[c] # None
          BY <1>0, <2>1, ExecutorAssumption
        <4> QED
          BY <4>1, <4>2 DEF Numbering
      <3>4. count' = Cardinality(Used')
        BY <2>1, <2>2, <2>3
      <3>5. who = "codex" => named' \subseteq Fabricated
        BY DEF Numbering
      <3> QED
        BY <3>1, <3>2, <3>3, <3>4, <3>5 DEF Numbering
    <2>5. ASSUME NEW j \in ES!Indices, NEW d, Belongs(j, d), d # c
          PROVE  Belongs(j, d)'
      <3>1. CASE d \in Calls /\ index[d] = j
        BY <1>0, <2>1, <2>5, <3>1 DEF Belongs
      <3>2. CASE d \in Fabricated \cap named /\ j < count /\ \A e \in Calls : index[e] # j
        <4>1. j \in Nat /\ j < count /\ j < count' /\ j # count
          BY <1>0, <2>1, <3>2, Enough
        <4>2. \A e \in Calls : index'[e] # j
          BY <1>0, <2>1, <3>2, <4>1
        <4> QED
          BY <3>2, <4>1, <4>2 DEF Belongs
      <3>3. CASE d = "gemini" /\ who = "gemini" /\ j = 0
        BY <3>3
      <3> QED
        BY <2>5, <3>1, <3>2, <3>3 DEF Belongs
    <2>6. Owners'
      <3>1. \A j \in ES!Indices : owner'[j] # None => Belongs(j, owner[j])'
        BY <2>3, <2>5 DEF Owners
      <3> QED
        BY <3>1 DEF Owners
    <2>7. index'[c] = count /\ index'[c] # None
      BY <1>0, <2>1, ExecutorAssumption
    <2>8. Fits(i, c)'
      BY <1>0, <2>1, <2>3, <2>7 DEF Fits, Belongs
    <2> QED
      BY <1>0, <2>1, <2>4, <2>6, <2>8
  <1> QED
    BY <1>1, <1>2

\* What every event finds: nothing left to write, and no end of the answer yet.
LEMMA ReadsFrom ==
    ASSUME StreamInv, NEW w, ES!Reads(w)
    PROVE  /\ Types /\ Numbering /\ Owners /\ who = w /\ up = "open" /\ result = "running"
           /\ out = <<>> /\ ended = "no" /\ completed = FALSE /\ (~greeted => ~role)
  BY One, Two DEF StreamInv, ES!Reads, Flow, Opened, Types

\* An event that is content: the chunk comes alone or behind the role.
LEMMA Spoken ==
    ASSUME StreamInv, up = "open", result = "running", up' = up, result' = result,
           completed' = completed, ended' = ended, role' = role, greeted' \in BOOLEAN,
           NEW e, Speech(e)',
           out = <<>>,
           \/ out' = <<e>> /\ (greeted => greeted')
           \/ out' = <<Role, e>> /\ ~greeted /\ greeted'
    PROVE  Flow'
  <1>1. ended = "no" /\ ~completed /\ (~greeted => ~role)
    BY DEF StreamInv, Flow, Opened
  <1>2. CASE out' = <<e>> /\ (greeted => greeted')
    <2>1. Opened'
      BY <1>1, <1>2 DEF Opened
    <2> QED
      BY <2>1 DEF Flow
  <1>3. CASE out' = <<Role, e>> /\ ~greeted /\ greeted'
    <2>1. out' = <<Role, e>> /\ Speech(e)' /\ ~role' /\ greeted'
      BY <1>1, <1>3
    <2>2. Opened'
      BY <1>1, <2>1 DEF Opened
    <2> QED
      BY <2>2 DEF Flow
  <1> QED
    BY <1>2, <1>3

\* A piece of text or reasoning.
LEMMA SaysKeeps ==
    ASSUME StreamInv, NEW w, NEW kinds \in SUBSET {"text", "reasoning"}, ES!Says(w, kinds)
    PROVE  StreamInv'
  <1>1. /\ Types /\ Numbering /\ Owners /\ who = w /\ up = "open" /\ result = "running"
        /\ out = <<>> /\ ended = "no"
    BY ReadsFrom DEF ES!Says
  <1>2. PICK kind \in kinds : out' = ES!Speaks(w) \o <<ES!Plain(kind)>>
    BY DEF ES!Says
  <1>3. Speech(ES!Plain(kind))'
    BY <1>2 DEF Speech, Words
  <1>4. /\ UNCHANGED <<who, up, broken, index, count, named, completed, failure, result>>
        /\ UNCHANGED <<owner, ended, role>>
        /\ greeted' = (greeted \/ w \notin {"codex", "kiro"})
    BY DEF ES!Says, ES!client
  <1>5. greeted \in BOOLEAN /\ greeted' \in BOOLEAN /\ (greeted => greeted')
    BY <1>1, <1>4 DEF Types
  <1>6. \/ out' = <<ES!Plain(kind)>>
        \/ out' = <<Role, ES!Plain(kind)>> /\ ~greeted /\ greeted'
    BY <1>2, <1>4, Concats DEF ES!Speaks, Role
  <1>7. Flow'
    BY <1>1, <1>3, <1>4, <1>5, <1>6, Spoken
  <1>8. Types' /\ Numbering'
    BY <1>1, <1>4, <1>5 DEF Types, Numbering, Used
  <1>9. Owners'
    BY <1>1, <1>4 DEF Owners, Belongs
  <1> QED
    BY <1>7, <1>8, <1>9 DEF StreamInv

\* A fragment or a whole call that is written alone, or behind the role.
LEMMA ToolKeeps ==
    ASSUME StreamInv, up = "open", result = "running", out = <<>>,
           UNCHANGED <<who, up, broken, completed, failure, result, ended, role>>,
           index' \in [Calls -> Nat \cup {None}], count' \in Nat, named' \subseteq Made,
           Numbering', Owners', greeted' \in BOOLEAN, NEW e, Speech(e)',
           \/ out' = <<e>> /\ (greeted => greeted')
           \/ out' = <<Role, e>> /\ ~greeted /\ greeted'
    PROVE  StreamInv'
  <1>1. Flow'
    BY Spoken
  <1>2. Types'
    BY DEF StreamInv, Types
  <1> QED
    BY <1>1, <1>2 DEF StreamInv

\* A fragment of a call of the upstream, with the index the call has or gets now.
LEMMA FragmentKeeps ==
    ASSUME StreamInv, NEW w \in {"codex", "kiro", "commandcode"}, NEW c \in Calls,
           ES!Reads(w), ES!Numbers(c), out' = <<ES!Fragment(ES!IndexOf(c), c)>>,
           named' = named \/ (who = "commandcode" /\ named' = named \cup {c}),
           UNCHANGED <<who, up, broken, completed, failure, greeted, result, owner, ended, role>>
    PROVE  StreamInv'
  <1>1. /\ Types /\ Numbering /\ Owners /\ who = w /\ up = "open" /\ result = "running" /\ out = <<>>
        /\ greeted \in BOOLEAN
    BY ReadsFrom DEF Types
  <1>2. PICK i : i = ES!IndexOf(c)
    OBVIOUS
  <1>3. /\ index' \in [Calls -> Nat \cup {None}] /\ count' \in Nat /\ named' \subseteq Made
        /\ Numbering' /\ Owners' /\ Fits(i, c)'
    BY <1>1, <1>2, NumbersKeeps
  <1>4. out' = <<ES!Fragment(i, c)>> /\ Speech(ES!Fragment(i, c))'
    BY <1>2, <1>3 DEF Speech, Fits
  <1> QED
    BY <1>1, <1>3, <1>4, ToolKeeps

\* An id that codex makes up is new, and holds the next index.
LEMMA AnonymousKeeps ==
    ASSUME StreamInv, NEW f \in Fabricated, ES!CodexAnonymous(f)
    PROVE  StreamInv'
  <1>1. /\ Types /\ Numbering /\ Owners /\ who = "codex" /\ up = "open" /\ result = "running"
        /\ out = <<>> /\ greeted \in BOOLEAN
    BY ReadsFrom DEF ES!CodexAnonymous, Types
  <1>2. /\ f \notin named /\ named' = named \cup {f} /\ count' = count + 1
        /\ out' = <<ES!Fragment(count, f)>>
        /\ UNCHANGED <<who, up, broken, index, completed, failure, greeted, result>>
        /\ UNCHANGED <<owner, ended, role>>
    BY DEF ES!CodexAnonymous, ES!client
  <1>3. /\ index \in [Calls -> Nat \cup {None}] /\ count \in Nat /\ named \subseteq Made
        /\ f \in Made /\ f \notin Calls /\ f \in Ids
    BY <1>1, ExecutorAssumption DEF Types, Made, Ids
  <1>4. f \notin Used /\ Used' = Used \cup {f}
    BY <1>2, <1>3 DEF Used
  <1>5. /\ count \in ES!Indices /\ owner[count] = None
        /\ \A j \in ES!Indices : owner[j] # f
        /\ Cardinality(Used \cup {f}) = count + 1
    BY <1>1, <1>3, <1>4, NextIsFree
  <1>6. PICK i : i = count
    OBVIOUS
  <1>7. Numbering'
    <2>1. \A c \in Calls : index[c] # None => index[c] < count + 1
      BY <1>1, <1>3 DEF Numbering
    <2>2. \A c, d \in Calls : index[c] # None /\ index[c] = index[d] => c = d
      BY <1>1 DEF Numbering
    <2>3. named \cup {f} \subseteq Fabricated
      BY <1>1 DEF Numbering
    <2> QED
      BY <1>1, <1>2, <1>4, <1>5, <2>1, <2>2, <2>3 DEF Numbering
  <1>8. ASSUME NEW j \in ES!Indices, NEW d, Belongs(j, d)
        PROVE  Belongs(j, d)'
    <2>1. j < count => j < count + 1
      BY <1>3, Enough
    <2> QED
      BY <1>2, <1>8, <2>1 DEF Belongs
  <1>9. Owners'
    <2>1. \A j \in ES!Indices : owner'[j] # None => Belongs(j, owner[j])'
      BY <1>1, <1>2, <1>8 DEF Owners
    <2> QED
      BY <1>1, <1>2, <2>1 DEF Owners
  <1>10. Fits(i, f)'
    <2>1. \A d \in Calls : index[d] # i
      BY <1>1, <1>3, <1>6, ExecutorAssumption DEF Numbering
    <2>2. Belongs(i, f)'
      BY <1>2, <1>3, <1>6, <2>1 DEF Belongs
    <2> QED
      BY <1>2, <1>3, <1>5, <1>6, <2>2 DEF Fits
  <1>11. out' = <<ES!Fragment(i, f)>> /\ Speech(ES!Fragment(i, f))'
    BY <1>2, <1>6, <1>10 DEF Speech, Fits
  <1>12. index' \in [Calls -> Nat \cup {None}] /\ count' \in Nat /\ named' \subseteq Made
    BY <1>2, <1>3
  <1> QED
    BY <1>1, <1>2, <1>7, <1>9, <1>11, <1>12, ToolKeeps

\* Gemini's calls all have index 0 and count as one call.
LEMMA GeminiKeeps ==
    ASSUME StreamInv, ES!GeminiCall
    PROVE  StreamInv'
  <1>1. /\ Types /\ Numbering /\ Owners /\ who = "gemini" /\ up = "open" /\ result = "running"
        /\ out = <<>> /\ greeted \in BOOLEAN
    BY ReadsFrom DEF ES!GeminiCall, Types
  <1>2. /\ count < GeminiCalls /\ count' = count + 1 /\ greeted' = TRUE
        /\ out' = ES!Speaks("gemini") \o <<ES!Fragment(0, "gemini")>>
        /\ UNCHANGED <<who, up, broken, index, named, completed, failure, result>>
        /\ UNCHANGED <<owner, ended, role>>
    BY DEF ES!GeminiCall, ES!client
  <1>3. /\ index \in [Calls -> Nat \cup {None}] /\ count \in Nat /\ named = {}
        /\ \A c \in Calls : index[c] = None
    BY <1>1 DEF Types, Numbering
  <1>4. Numbering'
    BY <1>1, <1>2, <1>3, ExecutorAssumption DEF Numbering
  <1>5. Owners'
    BY <1>1, <1>2, <1>3 DEF Owners, Belongs
  <1>6. 0 \in ES!Indices /\ "gemini" \in Ids /\ \A j \in ES!Indices : j # None
    BY Enough, ExecutorAssumption DEF Ids
  <1>7. \A j \in ES!Indices : owner[j] # None => owner[j] = "gemini" /\ j = 0
    BY <1>1, <1>3, <1>6 DEF Owners, Belongs
  <1>8. Fits(0, "gemini")'
    BY <1>1, <1>2, <1>6, <1>7, ExecutorAssumption DEF Fits, Belongs
  <1>9. Speech(ES!Fragment(0, "gemini"))'
    BY <1>6, <1>8 DEF Speech
  <1>10. \/ out' = <<ES!Fragment(0, "gemini")>>
         \/ out' = <<Role, ES!Fragment(0, "gemini")>> /\ ~greeted
    BY <1>2, Concats DEF ES!Speaks, Role
  <1>11. index' \in [Calls -> Nat \cup {None}] /\ count' \in Nat /\ named' \subseteq Made
    BY <1>2, <1>3
  <1> QED
    BY <1>1, <1>2, <1>4, <1>5, <1>9, <1>10, <1>11, ToolKeeps

\* A whole call takes an index too, although it does not carry it.
LEMMA WholeKeeps ==
    ASSUME StreamInv, NEW c \in Calls, ES!CommandCall(c)
    PROVE  StreamInv'
  <1>1. /\ Types /\ Numbering /\ Owners /\ who = "commandcode" /\ up = "open" /\ result = "running"
        /\ out = <<>> /\ greeted \in BOOLEAN
    BY ReadsFrom DEF ES!CommandCall, Types
  <1>2. /\ ES!Numbers(c) /\ greeted' = TRUE
        /\ out' = ES!Speaks("commandcode") \o <<ES!CS!Event("whole", None, c)>>
        /\ UNCHANGED <<who, up, broken, named, completed, failure, result>>
        /\ UNCHANGED <<owner, ended, role>>
    BY DEF ES!CommandCall, ES!client
  <1>3. /\ index' \in [Calls -> Nat \cup {None}] /\ count' \in Nat /\ named' \subseteq Made
        /\ Numbering' /\ Owners'
    BY <1>1, <1>2, NumbersKeeps
  <1>4. Speech(ES!CS!Event("whole", None, c))'
    BY DEF Speech
  <1>5. \/ out' = <<ES!CS!Event("whole", None, c)>>
        \/ out' = <<Role, ES!CS!Event("whole", None, c)>> /\ ~greeted
    BY <1>2, Concats DEF ES!Speaks, Role
  <1> QED
    BY <1>1, <1>2, <1>3, <1>4, <1>5, ToolKeeps

\* The final event.
LEMMA EndsKeeps ==
    ASSUME StreamInv, NEW w, NEW chunks, NEW failed \in BOOLEAN, ES!EndsWith(w, chunks, failed),
           \/ /\ completed' = TRUE /\ w \in {"codex", "commandcode", "gemini"}
              /\ \/ chunks = <<Finish>> \/ chunks = <<ES!Plain("text"), Finish>>
                 \/ chunks = <<Role, Finish>> /\ ~greeted
           \/ completed' = completed /\ chunks = <<>>
    PROVE  StreamInv'
  <1>1. /\ Types /\ Numbering /\ Owners /\ who = w /\ up = "open" /\ result = "running"
        /\ out = <<>> /\ ended = "no" /\ completed = FALSE /\ (~greeted => ~role)
    BY ReadsFrom DEF ES!EndsWith
  <1>2. /\ up' = "ended" /\ out' = chunks /\ failure' = failed
        /\ UNCHANGED <<who, broken, index, count, named, greeted, result>>
        /\ UNCHANGED <<owner, ended, role>>
    BY DEF ES!EndsWith, ES!client
  <1>3. Types' /\ Numbering' /\ Owners'
    <2>1. completed' \in BOOLEAN
      BY <1>1
    <2> QED
      BY <1>1, <1>2, <2>1 DEF Types, Numbering, Used, Owners, Belongs
  <1>4. Ending'
    BY <1>1, <1>2 DEF Ending
  <1> QED
    BY <1>1, <1>2, <1>3, <1>4 DEF StreamInv, Flow

\* The end of the body, after a final event or without one.
LEMMA ClosesKeeps ==
    ASSUME StreamInv, ES!Closes
    PROVE  StreamInv'
  <1>1. /\ Types /\ Numbering /\ Owners /\ result = "running" /\ out = <<>> /\ up' = "closed"
        /\ UNCHANGED <<who, index, count, named, completed, failure, greeted, out, result>>
        /\ UNCHANGED <<owner, ended, role>> /\ broken' \in BOOLEAN
    BY DEF StreamInv, ES!Closes, ES!client
  <1>2. Types' /\ Numbering' /\ Owners'
    BY <1>1 DEF Types, Numbering, Used, Owners, Belongs
  <1>3. Ending'
    <2>1. CASE up = "open"
      BY <1>1, <2>1 DEF StreamInv, Flow, Opened, Ending
    <2>2. CASE up # "open"
      BY <1>1, <2>2, One, Two DEF StreamInv, Flow, Ending
    <2> QED
      BY <2>1, <2>2
  <1> QED
    BY <1>1, <1>2, <1>3 DEF StreamInv, Flow

\* The tail that each executor writes fits what it wrote before.
LEMMA ReturnsKeeps ==
    ASSUME StreamInv, ES!Returns
    PROVE  StreamInv'
  <1>1. /\ Types /\ Numbering /\ Owners /\ up = "closed" /\ result = "running" /\ out = <<>>
        /\ out' = ES!Closing /\ result' \in {"ok", "error"}
        /\ UNCHANGED <<who, up, broken, index, count, named, completed, failure, greeted>>
        /\ UNCHANGED <<owner, ended, role>>
    BY DEF StreamInv, ES!Returns, ES!client
  <1>2. Types' /\ Numbering' /\ Owners'
    BY <1>1 DEF Types, Numbering, Used, Owners, Belongs
  <1>3. /\ completed => who \in {"codex", "commandcode", "gemini"}
        /\ ended = IF completed THEN "finished" ELSE "no"
    BY <1>1, One, Two DEF StreamInv, Flow, Ending
  <1>4. \/ out' = <<>>
        \/ out' = <<Finish, Done>> /\ ~completed
        \/ out' = <<Done>> /\ completed
        \/ (out' = <<Error, Done>> \/ out' = <<Error>>) /\ ~completed
    <2>1. CASE who \in {"codex", "commandcode"}
      BY <1>1, <2>1, Concats DEF ES!Closing, ES!WriteSSEFinish, Finish, Done, Types
    <2>2. CASE who = "kiro"
      BY <1>1, <1>3, <2>2 DEF ES!Closing, Finish, Done
    <2>3. CASE who \in {"windsurf", "trae"}
      BY <1>1, <1>3, <2>3 DEF ES!Closing, ES!FramedTail, Finish, Done, Error
    <2>4. CASE who = "gemini"
      BY <1>1, <2>4 DEF ES!Closing
    <2> QED
      BY <1>1, <2>1, <2>2, <2>3, <2>4 DEF Types, ES!Executors
  <1>5. Ended'
    BY <1>1, <1>3, <1>4 DEF Ended
  <1> QED
    BY <1>1, <1>2, <1>5 DEF StreamInv, Flow

\* At first nothing is written, but for trae's role.
LEMMA StreamInit == ES!Init => StreamInv /\ ES!CS!Init
  <1> SUFFICES ASSUME ES!Init
               PROVE  StreamInv /\ ES!CS!Init
    OBVIOUS
  <1>1. PICK w \in ES!Executors :
            /\ ES!Begins(w) /\ greeted = (w = "trae")
            /\ out = IF w = "trae" THEN <<Role>> ELSE <<>>
    BY DEF ES!Init, Role
  <1>2. /\ who = w /\ up = "open" /\ broken = FALSE
        /\ index = [c \in Calls |-> None] /\ count = 0 /\ named = {}
        /\ completed = FALSE /\ failure = FALSE /\ result = "running"
        /\ owner = [i \in ES!Indices |-> None] /\ ended = "no" /\ role = FALSE
    BY <1>1 DEF ES!Begins, ES!CS!Init
  <1>3. Types
    BY <1>1, <1>2 DEF Types
  <1>4. Used = {}
    BY <1>2 DEF Used
  <1>5. Numbering
    BY <1>2, <1>4, FS_EmptySet, ExecutorAssumption DEF Numbering
  <1>6. Owners
    BY <1>2 DEF Owners
  <1>7. Flow
    BY <1>1, <1>2 DEF Flow, Opened
  <1> QED
    BY <1>1, <1>3, <1>5, <1>6, <1>7 DEF StreamInv, ES!Begins

\* Every step is one of ChatStream or leaves the client alone.
LEMMA StreamStep == StreamInv /\ [ES!Next]_ES!vars => StreamInv' /\ [ES!CS!Next]_ES!CS!vars
  <1> SUFFICES ASSUME StreamInv, [ES!Next]_ES!vars
               PROVE  StreamInv' /\ [ES!CS!Next]_ES!CS!vars
    OBVIOUS
  <1>1. CASE UNCHANGED ES!vars
    BY <1>1 DEF ES!vars, ES!reader, ES!client, ES!CS!vars, StreamInv, Types, Numbering, Used, Owners,
                Belongs, Fits, Flow, Opened, Speech, Ending, Ended
  <1>2. CASE ES!Deliver
    BY <1>2, DeliverKeeps, DeliverImplements
  <1>3. ASSUME NEW w, NEW kinds \in SUBSET {"text", "reasoning"}, ES!Says(w, kinds)
        PROVE  StreamInv' /\ UNCHANGED ES!client
    BY <1>3, SaysKeeps DEF ES!Says
  <1>4. CASE \/ ES!CodexText \/ ES!KiroText \/ ES!CommandText
             \/ ES!WindsurfText \/ ES!TraePlanItem \/ ES!GeminiText
    <2>1. StreamInv' /\ UNCHANGED ES!client
      BY <1>3, <1>4 DEF ES!CodexText, ES!KiroText, ES!CommandText, ES!WindsurfText, ES!TraePlanItem,
                        ES!GeminiText
    <2> QED
      BY <2>1 DEF ES!client, ES!CS!vars
  <1>5. ASSUME NEW c \in Calls, ES!CodexArguments(c)
        PROVE  StreamInv' /\ UNCHANGED ES!client
    <2>1. /\ ES!Reads("codex") /\ ES!Numbers(c) /\ out' = <<ES!Fragment(ES!IndexOf(c), c)>>
          /\ UNCHANGED <<who, up, broken, named, completed, failure, greeted, result>>
          /\ UNCHANGED ES!client
      BY <1>5 DEF ES!CodexArguments
    <2> QED
      BY <2>1, FragmentKeeps DEF ES!client
  <1>6. ASSUME NEW c \in Calls, ES!KiroToolUse(c)
        PROVE  StreamInv' /\ UNCHANGED ES!client
    <2>1. /\ ES!Reads("kiro") /\ ES!Numbers(c) /\ out' = <<ES!Fragment(ES!IndexOf(c), c)>>
          /\ UNCHANGED <<who, up, broken, named, completed, failure, greeted, result>>
          /\ UNCHANGED ES!client
      BY <1>6 DEF ES!KiroToolUse, ES!IndexOf
    <2> QED
      BY <2>1, FragmentKeeps DEF ES!client
  <1>7. ASSUME NEW c \in Calls, ES!CommandStart(c)
        PROVE  StreamInv' /\ UNCHANGED ES!client
    <2>1. /\ ES!Reads("commandcode") /\ ES!Numbers(c) /\ out' = <<ES!Fragment(ES!IndexOf(c), c)>>
          /\ who = "commandcode" /\ named' = named \cup {c}
          /\ UNCHANGED <<who, up, broken, completed, failure, greeted, result>>
          /\ UNCHANGED ES!client
      BY <1>7 DEF ES!CommandStart, ES!Reads
    <2> QED
      BY <2>1, FragmentKeeps DEF ES!client
  <1>8. ASSUME NEW c \in Calls, ES!CommandDelta(c)
        PROVE  StreamInv' /\ UNCHANGED ES!client
    <2>1. /\ ES!Reads("commandcode") /\ c \in named /\ out' = <<ES!Fragment(index[c], c)>>
          /\ UNCHANGED <<who, up, broken, index, count, named, completed, failure, greeted, result>>
          /\ UNCHANGED ES!client
      BY <1>8 DEF ES!CommandDelta
    <2>2. /\ Types /\ Numbering /\ Owners /\ who = "commandcode" /\ up = "open" /\ result = "running"
          /\ out = <<>> /\ greeted \in BOOLEAN
      BY <2>1, ReadsFrom DEF Types
    <2>3. index[c] # None
      BY <2>1, <2>2 DEF Numbering
    <2>4. Fits(index[c], c)
      BY <2>2, <2>3, KnownFits
    <2>5. PICK i : i = index[c]
      OBVIOUS
    <2>6. Fits(i, c)'
      BY <2>1, <2>4, <2>5 DEF Fits, Belongs, ES!client
    <2>7. out' = <<ES!Fragment(i, c)>> /\ Speech(ES!Fragment(i, c))'
      BY <2>1, <2>5, <2>6 DEF Speech, Fits
    <2>8. /\ index' \in [Calls -> Nat \cup {None}] /\ count' \in Nat /\ named' \subseteq Made
          /\ Numbering' /\ Owners'
      BY <2>1, <2>2 DEF Types, Numbering, Used, Owners, Belongs, ES!client
    <2>9. UNCHANGED <<ended, role>>
      BY <2>1 DEF ES!client
    <2> QED
      BY <2>1, <2>2, <2>7, <2>8, <2>9, ToolKeeps
  <1>9. ASSUME NEW c \in Calls, ES!CommandCall(c)
        PROVE  StreamInv' /\ UNCHANGED ES!client
    BY <1>9, WholeKeeps DEF ES!CommandCall
  <1>10. ASSUME NEW f \in Fabricated, ES!CodexAnonymous(f)
         PROVE  StreamInv' /\ UNCHANGED ES!client
    BY <1>10, AnonymousKeeps DEF ES!CodexAnonymous
  <1>11. ASSUME ES!GeminiCall
         PROVE  StreamInv' /\ UNCHANGED ES!client
    BY <1>11, GeminiKeeps DEF ES!GeminiCall
  <1>12. ASSUME \/ ES!CodexCompleted \/ ES!CommandFinish \/ ES!CommandError \/ ES!GeminiFinish
                \/ ES!WindsurfTrailer \/ ES!TraeEnd
         PROVE  StreamInv' /\ UNCHANGED ES!client
    <2>1. CASE ES!CodexCompleted
      BY <2>1, EndsKeeps DEF ES!CodexCompleted, ES!EndsWith, Finish
    <2>2. CASE ES!CommandFinish
      BY <2>2, EndsKeeps DEF ES!CommandFinish, ES!EndsWith, Finish
    <2>3. CASE ES!CommandError
      BY <2>3, EndsKeeps DEF ES!CommandError, ES!EndsWith, Finish
    <2>4. CASE ES!GeminiFinish
      BY <2>4, EndsKeeps, Concats DEF ES!GeminiFinish, ES!EndsWith, ES!Speaks, Finish, Role
    <2>5. CASE ES!WindsurfTrailer
      BY <2>5, EndsKeeps DEF ES!WindsurfTrailer, ES!EndsWith
    <2>6. CASE ES!TraeEnd
      BY <2>6, EndsKeeps DEF ES!TraeEnd, ES!EndsWith
    <2> QED
      BY <1>12, <2>1, <2>2, <2>3, <2>4, <2>5, <2>6
  <1>13. ASSUME ES!Closes \/ ES!Returns
         PROVE  StreamInv' /\ UNCHANGED ES!client
    BY <1>13, ClosesKeeps, ReturnsKeeps DEF ES!Closes, ES!Returns
  <1>14. UNCHANGED ES!client => UNCHANGED ES!CS!vars
    BY DEF ES!client, ES!CS!vars
  <1> QED
    BY <1>1, <1>2, <1>4, <1>5, <1>6, <1>7, <1>8, <1>9, <1>10, <1>11, <1>12, <1>13, <1>14 DEF ES!Next

\* codex, kiro, commandcode, windsurf, trae and Gemini: whatever the upstream sends and however
\* it ends, the client reads one chat stream with one end.
THEOREM ExecutorsPromiseChatStreams == ES!Spec => PromisesChatStream
  BY StreamInit, StreamStep, PTL
  DEF ES!Spec, PromisesChatStream, ES!PromisesChatStream, ES!CS!Spec

\* The executors number calls within the range of the indices, and Gemini's calls are counted
\* (stream.go, gemini.go).
THEOREM ExecutorTypes == ES!Spec => []ES!TypeOK
  <1>1. StreamInv => ES!TypeOK
    <2> SUFFICES ASSUME StreamInv
                 PROVE  ES!TypeOK
      OBVIOUS
    <2>1. /\ Types /\ Numbering
      BY DEF StreamInv
    <2>2. who # "gemini" => count <= Cardinality(Made)
      <3>1. Used \subseteq Made
        BY DEF Used, Made
      <3> QED
        BY <2>1, <3>1, Enough, FS_Subset DEF Numbering
    <2>3. index \in [Calls -> ES!Indices \cup {None}]
      <3>1. ASSUME NEW c \in Calls, index[c] # None
            PROVE  index[c] \in ES!Indices
        <4>1. index[c] \in Nat /\ index[c] < count /\ who # "gemini" /\ count \in Nat
          BY <2>1, <3>1 DEF Types, Numbering
        <4> QED
          BY <2>2, <4>1, Enough
      <3> QED
        BY <2>1, <3>1 DEF Types
    <2>4. count \in 0 .. (IF who = "gemini" THEN GeminiCalls ELSE ES!Cardinality(ES!Indices))
      BY <2>1, <2>2, Enough, ExecutorAssumption DEF Types, Numbering
    <2> QED
      BY <2>1, <2>3, <2>4 DEF Types, Made, ES!TypeOK
  <1> QED
    BY <1>1, StreamInit, StreamStep, PTL DEF ES!Spec

-----------------------------------------------------------------------------
(* The errors of a connection *)

\* The three phrases of other kinds come first, then the five that speak of a quota.
LEMMA RuleTable ==
    /\ DOMAIN ER!ErrorRules = 1 .. 13
    /\ ER!ErrorRules[1].text = "no credentials"
    /\ ER!ErrorRules[2].text = "request not allowed"
    /\ ER!ErrorRules[3].text = "improperly formed request"
    /\ \A i \in 4 .. 8 : ER!ErrorRules[i].backoff = TRUE /\ ER!ErrorRules[i].text \in ER!QuotaTexts
    /\ \A i \in 1 .. 8 : ER!ErrorRules[i].status = 0
    /\ \A q \in ER!QuotaTexts : \E i \in 4 .. 8 : ER!ErrorRules[i].text = q
  <1> USE DEF ER!ErrorRules, ER!TextRule, ER!StatusRule, ER!QuotaTexts
  <1>1. DOMAIN ER!ErrorRules = 1 .. 13
    BY Z3
  <1>2. ER!ErrorRules[1].text = "no credentials" /\ ER!ErrorRules[1].status = 0
    OBVIOUS
  <1>3. ER!ErrorRules[2].text = "request not allowed" /\ ER!ErrorRules[2].status = 0
    OBVIOUS
  <1>4. ER!ErrorRules[3].text = "improperly formed request" /\ ER!ErrorRules[3].status = 0
    OBVIOUS
  <1>5. /\ ER!ErrorRules[4].text = "rate limit"
        /\ ER!ErrorRules[4].backoff = TRUE /\ ER!ErrorRules[4].status = 0
    OBVIOUS
  <1>6. /\ ER!ErrorRules[5].text = "too many requests"
        /\ ER!ErrorRules[5].backoff = TRUE /\ ER!ErrorRules[5].status = 0
    OBVIOUS
  <1>7. /\ ER!ErrorRules[6].text = "quota exceeded"
        /\ ER!ErrorRules[6].backoff = TRUE /\ ER!ErrorRules[6].status = 0
    OBVIOUS
  <1>8. /\ ER!ErrorRules[7].text = "capacity"
        /\ ER!ErrorRules[7].backoff = TRUE /\ ER!ErrorRules[7].status = 0
    OBVIOUS
  <1>9. /\ ER!ErrorRules[8].text = "overloaded"
        /\ ER!ErrorRules[8].backoff = TRUE /\ ER!ErrorRules[8].status = 0
    OBVIOUS
  <1> HIDE DEF ER!ErrorRules
  <1>10. /\ \A i \in 4 .. 8 : i \in {4, 5, 6, 7, 8}
         /\ \A i \in 1 .. 8 : i \in {1, 2, 3, 4, 5, 6, 7, 8}
    OBVIOUS
  <1>11. \A i \in 4 .. 8 : ER!ErrorRules[i].backoff = TRUE /\ ER!ErrorRules[i].text \in ER!QuotaTexts
    BY <1>5, <1>6, <1>7, <1>8, <1>9, <1>10
  <1>12. \A i \in 1 .. 8 : ER!ErrorRules[i].status = 0
    BY <1>2, <1>3, <1>4, <1>5, <1>6, <1>7, <1>8, <1>9, <1>10
  <1>13. \A q \in ER!QuotaTexts : \E i \in 4 .. 8 : ER!ErrorRules[i].text = q
    <2>1. 4 \in 4 .. 8 /\ 5 \in 4 .. 8 /\ 6 \in 4 .. 8 /\ 7 \in 4 .. 8 /\ 8 \in 4 .. 8
      OBVIOUS
    <2>2. ASSUME NEW q \in ER!QuotaTexts
          PROVE  \E i \in 4 .. 8 : ER!ErrorRules[i].text = q
      BY <1>5, <1>6, <1>7, <1>8, <1>9, <2>1, Zenon
    <2> QED
      BY <2>2
  <1> QED
    BY <1>1, <1>2, <1>3, <1>4, <1>11, <1>12, <1>13

Raised(l) == ER!AtMost(l + 1, MaxLevel)

\* Every error keeps the level or raises it by one, as far as it goes.
LEMMA LevelsRise ==
    ASSUME NEW s, NEW p, NEW l \in 0 .. MaxLevel
    PROVE  /\ ER!ClassifyError(s, p, l).level \in {l, Raised(l)}
           /\ Raised(l) \in 0 .. MaxLevel /\ Raised(l) >= l
  <1>1. Raised(l) \in 0 .. MaxLevel /\ Raised(l) >= l
    BY ErrorAssumption DEF Raised, ER!AtMost
  <1>2. ER!ClassifyError(s, p, l).level \in {l, Raised(l)}
    BY DEF ER!ClassifyError, ER!Verdict, Raised
  <1> QED
    BY <1>1, <1>2

\* Of an error that speaks of a quota only, a quota rule is the first to match.
LEMMA QuotaDecides ==
    ASSUME NEW s, NEW p, p # {}, p \subseteq ER!QuotaTexts, NEW l
    PROVE  ER!ClassifyError(s, p, l) = ER!Verdict(ER!GetQuotaCooldown(Raised(l)), Raised(l))
  <1> DEFINE hits == {i \in DOMAIN ER!ErrorRules : ER!Matches(ER!ErrorRules[i], s, p)}
             first == CHOOSE i \in hits : \A j \in hits : i <= j
  <1>1. hits \in SUBSET Nat /\ hits \subseteq 1 .. 13
    <2>1. DOMAIN ER!ErrorRules = 1 .. 13
      BY RuleTable
    <2> QED
      BY <2>1
  <1>2. PICK k \in 4 .. 8 : k \in hits
    <2>1. PICK q \in p : q \in ER!QuotaTexts
      OBVIOUS
    <2>2. PICK k \in 4 .. 8 : ER!ErrorRules[k].text = q
      BY <2>1, RuleTable
    <2>3. DOMAIN ER!ErrorRules = 1 .. 13
      BY RuleTable
    <2> QED
      BY <2>1, <2>2, <2>3 DEF ER!Matches
  <1>3. first \in hits /\ first <= k
    BY <1>1, <1>2, FirstExists
  <1>4. \A i \in 1 .. 3 : i \notin hits
    <2>1. {"no credentials", "request not allowed", "improperly formed request"} \cap p = {}
      BY DEF ER!QuotaTexts
    <2>2. \A i \in 1 .. 3 : ER!ErrorRules[i].text \notin p /\ ER!ErrorRules[i].status = 0
      <3>1. \A i \in 1 .. 3 : i \in {1, 2, 3} /\ i \in 1 .. 8
        OBVIOUS
      <3> QED
        BY <2>1, <3>1, RuleTable
    <2> QED
      BY <2>2 DEF ER!Matches
  <1>5. first \in 4 .. 8
    BY <1>1, <1>3, <1>4
  <1>6. ER!ErrorRules[first].backoff = TRUE /\ hits # {}
    BY <1>2, <1>5, RuleTable
  <1>7. ER!ClassifyError(s, p, l) =
            IF hits = {} THEN ER!Verdict(TransientMs, l)
            ELSE IF ER!ErrorRules[first].backoff
                 THEN ER!Verdict(ER!GetQuotaCooldown(Raised(l)), Raised(l))
                 ELSE ER!Verdict(ER!ErrorRules[first].ms, l)
    BY DEF ER!ClassifyError, Raised
  <1> HIDE DEF hits, first
  <1> QED
    BY <1>6, <1>7

LevelInv == level \in 0 .. MaxLevel

\* A step of one connection.
LEMMA LevelStep ==
    ASSUME LevelInv, [ER!Next]_ER!vars
    PROVE  /\ LevelInv'
           /\ \/ UNCHANGED ER!vars
              \/ /\ level' < level => seen' = ER!Success
                 /\ seen'.phrases # {} /\ seen'.phrases \subseteq ER!QuotaTexts =>
                        verdict' = ER!Verdict(ER!GetQuotaCooldown(level'), Raised(level))
  <1>1. CASE ER!Succeed
    <2>1. level' = 0 /\ seen' = ER!Success /\ seen'.phrases = {}
      BY <1>1 DEF ER!Succeed, ER!Success
    <2> QED
      BY <2>1, ErrorAssumption DEF LevelInv
  <1>2. ASSUME NEW s \in Statuses, NEW p \in Texts, ER!Fail(s, p)
        PROVE  /\ LevelInv' /\ ~(level' < level)
               /\ seen'.phrases # {} /\ seen'.phrases \subseteq ER!QuotaTexts =>
                      verdict' = ER!Verdict(ER!GetQuotaCooldown(level'), Raised(level))
    <2>1. /\ verdict' = ER!ClassifyError(s, p, level) /\ level' = verdict'.level
          /\ seen'.phrases = p
      BY <1>2 DEF ER!Fail
    <2>2. /\ level' \in {level, Raised(level)}
          /\ Raised(level) \in 0 .. MaxLevel /\ Raised(level) >= level
      BY <2>1, LevelsRise DEF LevelInv
    <2>3. LevelInv' /\ ~(level' < level)
      BY <2>2, ErrorAssumption DEF LevelInv
    <2>4. ASSUME p # {}, p \subseteq ER!QuotaTexts
          PROVE  verdict' = ER!Verdict(ER!GetQuotaCooldown(level'), Raised(level))
      <3>1. verdict' = ER!Verdict(ER!GetQuotaCooldown(Raised(level)), Raised(level))
        BY <2>1, <2>4, QuotaDecides
      <3>2. level' = Raised(level)
        BY <2>1, <3>1 DEF ER!Verdict
      <3> QED
        BY <3>1, <3>2
    <2> QED
      BY <2>1, <2>3, <2>4
  <1>3. CASE UNCHANGED ER!vars
    BY <1>3 DEF ER!vars, LevelInv
  <1> QED
    BY <1>1, <1>2, <1>3 DEF ER!Next

\* ClassifyError and its callers: whatever errors come, in which order and with which status,
\* the level counts those that speak of a quota, and only a success lowers it.
THEOREM LevelCountsQuotaErrors == ER!Spec => LevelFollowsQuota
  <1>1. ER!Init => LevelInv
    BY ErrorAssumption DEF ER!Init, LevelInv
  <1>2. LevelInv /\ [ER!Next]_ER!vars =>
            /\ LevelInv'
            /\ [/\ level' < level => seen' = ER!Success
                /\ seen'.phrases # {} /\ seen'.phrases \subseteq ER!QuotaTexts =>
                      verdict' = ER!Verdict(ER!GetQuotaCooldown(level'),
                                            ER!AtMost(level + 1, MaxLevel))]_ER!vars
    BY LevelStep DEF Raised
  <1> QED
    BY <1>1, <1>2, PTL DEF ER!Spec, LevelFollowsQuota, ER!LevelFollowsQuota

-----------------------------------------------------------------------------
(* Dispatch *)

\* None marks what is not resolved, so it is no resolved model.
NoRecord == \A p, m, q, l, s :
    None # [provider |-> p, model |-> m, pinned |-> q, models |-> l, strategy |-> s]

Reply == IF endpoint = "chat" THEN "openai" ELSE "claude"

\* What a resolved name is: an entry, or a list whose first entry, unless it stays bare, gives
\* the provider.
Resolved(i) ==
    /\ \E p, m, q, l, s :
          i = [provider |-> p, model |-> m, pinned |-> q, models |-> l, strategy |-> s]
    /\ i.models = <<>> => i.strategy = ""
    /\ i.models # <<>> /\ ~CD!Bare(i.models[1]) => i.provider = i.models[1][1]

\* An entry the request may try is one of a provider it may touch.
Reach(e) ==
    IF info.models = <<>> THEN e[1] = info.provider
    ELSE CD!Bare(e) \/ e[1] \in CD!Providers

\* The body has been brought into the format that the provider's side speaks.
BodyOK == body = IF endpoint = "chat" \/ info.provider \notin ClaudeSide THEN "openai" ELSE "claude"

DispatchInv ==
    /\ endpoint \in {"chat", "messages"}
    /\ info = None =>
         /\ calls = {} /\ answer \in {None, "error", Reply}
         /\ body = IF endpoint = "chat" THEN "openai" ELSE "claude"
    /\ info # None =>
         /\ Resolved(info) /\ BodyOK
         /\ \A e \in todo : Reach(e)
         /\ \A c \in calls : c[1] \in CD!Providers /\ c[2] = body
         /\ CD!FormatsMeet

\* What ResolveModel makes of a name.
LEMMA ResolveGives ==
    ASSUME NEW e, NEW i, i = CD!ResolveModel(e), i # None
    PROVE  Resolved(i)
  <1>1. ASSUME NEW d
        PROVE  Resolved(CD!Info(d)) /\ CD!Info(d).models = <<>> /\ CD!Info(d).provider = d[1]
    BY DEF CD!Info, Resolved
  <1>2. ASSUME NEW d, CD!CommonProvider(d) # None
        PROVE  Resolved(CD!CommonProvider(d))
    BY <1>2 DEF CD!CommonProvider, CD!Info, Resolved
  <1>3. CASE i = CD!CommonProvider(e)
    BY <1>2, <1>3
  <1>4. CASE CD!Aliased(e) \/ ~CD!Bare(e)
    <2>1. i = CD!Info(aliases[e]) \/ i = CD!Info(e)
      BY <1>4 DEF CD!ResolveModel
    <2> QED
      BY <1>1, <2>1
  <1>5. ASSUME ~CD!Aliased(e), CD!Bare(e), i # CD!CommonProvider(e)
        PROVE  Resolved(i)
    <2> DEFINE flat  == CD!FlattenComboModels(combos[e].models)
               first == IF CD!Bare(flat[1]) THEN CD!CommonProvider(flat[1]) ELSE CD!Info(flat[1])
    <2>1. /\ flat # <<>> /\ first # None
          /\ i = [first EXCEPT !.models = flat, !.strategy = combos[e].strategy]
      BY <1>5 DEF CD!ResolveModel
    <2>2. ~CD!Bare(flat[1]) => first.provider = flat[1][1]
      BY <1>1
    <2>3. Resolved(first)
      BY <1>1, <1>2, <2>1
    <2> HIDE DEF flat, first
    <2>4. PICK p, m, q, l, s : first =
               [provider |-> p, model |-> m, pinned |-> q, models |-> l, strategy |-> s]
      BY <2>3 DEF Resolved
    <2>5. i = [provider |-> p, model |-> m, pinned |-> q, models |-> flat, strategy |-> combos[e].strategy]
      BY <2>1, <2>4
    <2> QED
      BY <2>1, <2>2, <2>4, <2>5 DEF Resolved
  <1> QED
    BY <1>3, <1>4, <1>5

\* What is said of an upstream's answer and body where no provider speaks Claude's format.
LEMMA AnswerMeets ==
    ASSUME NEW p, p \notin ClaudeSide, info.provider \notin ClaudeSide,
           endpoint \in {"chat", "messages"}
    PROVE  CD!Received(p) = Reply /\ CD!Speaks(p) = "openai"
  BY DEF CD!Received, CD!Speaks, CD!TranslateResponse, Reply

\* A single model has no list.
LEMMA NoModels == CD!ToSet(<<>>) = {}
  BY DEF CD!ToSet

\* What one upstream is asked, and answers.
LEMMA CallMeets ==
    ASSUME DispatchInv, info # None, NEW e \in todo, ~CD!Bare(e)
    PROVE  /\ e[1] \in CD!Providers
           /\ CD!Providers \cap ClaudeSide = {} \/ (endpoint = "messages" /\ info.models = <<>>) =>
                  /\ \A p \in CD!Providers : CD!Speaks(p) = body
                  /\ CD!Received(e[1]) = Reply
  <1>1. Reach(e) /\ BodyOK /\ Resolved(info) /\ endpoint \in {"chat", "messages"}
    BY DEF DispatchInv
  <1>2. info.provider \in CD!Providers
    BY DEF CD!Providers
  <1>3. e[1] \in CD!Providers
    BY <1>1, <1>2 DEF Reach
  <1>4. CASE CD!Providers \cap ClaudeSide = {}
    <2>1. \A p \in CD!Providers : p \notin ClaudeSide
      BY <1>4
    <2>2. body = "openai"
      BY <1>1, <1>2, <2>1 DEF BodyOK
    <2> QED
      BY <1>1, <1>2, <1>3, <2>1, <2>2, AnswerMeets DEF CD!Speaks
  <1>5. CASE endpoint = "messages" /\ info.models = <<>>
    <2>1. CD!Providers = {info.provider} /\ e[1] = info.provider /\ info.strategy = ""
      BY <1>1, <1>5, NoModels DEF CD!Providers, Reach, Resolved
    <2>2. CD!Speaks(info.provider) = body
      BY <1>1, <1>5 DEF CD!Speaks, BodyOK
    <2>3. CD!Received(info.provider) = Reply
      BY <1>5, <2>1 DEF CD!Received, CD!Speaks, CD!TranslateResponse, Reply
    <2> QED
      BY <1>3, <2>1, <2>2, <2>3
  <1> QED
    BY <1>3, <1>4, <1>5

\* Every step keeps what has been called and answered in the right formats.
LEMMA DispatchStep ==
    ASSUME NoRecord, DispatchInv, [CD!Next]_CD!vars
    PROVE  DispatchInv'
  <1>0. endpoint' = endpoint /\ endpoint' \in {"chat", "messages"}
    BY DEF DispatchInv, CD!Next, CD!Bypass, CD!Resolve, CD!Try, CD!Fuse, CD!Fail, CD!tables, CD!vars
  <1>1. CASE CD!Bypass
    BY <1>0, <1>1 DEF DispatchInv, CD!Bypass, CD!tables, Reply
  <1>2. CASE CD!Resolve
    <2>1. /\ info = None /\ answer = None /\ info' = CD!ResolveModel(name)
          /\ calls = {} /\ calls' = {} /\ body = IF endpoint = "chat" THEN "openai" ELSE "claude"
      BY <1>2 DEF DispatchInv, CD!Resolve
    <2>2. CASE info' = None
      BY <1>0, <1>2, <2>1, <2>2 DEF DispatchInv, CD!Resolve
    <2>3. CASE info' # None
      <3>1. /\ todo' = (IF info'.models = <<>> THEN {<<info'.provider, info'.model>>}
                        ELSE CD!ToSet(info'.models))
            /\ body' = IF endpoint = "messages" /\ info'.provider \notin ClaudeSide THEN "openai"
                       ELSE body
            /\ answer' = None
        BY <1>2, <2>1, <2>3 DEF CD!Resolve
      <3>2. PICK i : i = info'
        OBVIOUS
      <3>3. Resolved(i)
        BY <2>1, <2>3, <3>2, ResolveGives
      <3>4. \A e \in todo' : Reach(e)'
        <4>1. ASSUME NEW e \in todo', i.models = <<>>
              PROVE  e[1] = i.provider
          BY <3>1, <3>2, <4>1
        <4>2. ASSUME NEW e \in todo', i.models # <<>>, ~CD!Bare(e)
              PROVE  e[1] \in {d[1] : d \in {f \in CD!ToSet(i.models) : ~CD!Bare(f)}}
          BY <3>1, <3>2, <4>2
        <4> QED
          BY <3>2, <4>1, <4>2 DEF Reach, CD!Providers, CD!Bare
      <3>5. BodyOK'
        BY <1>0, <2>1, <3>1 DEF BodyOK
      <3>6. CD!FormatsMeet'
        BY <1>0, <2>1, <3>1 DEF CD!FormatsMeet
      <3> QED
        BY <1>0, <2>1, <2>3, <3>2, <3>3, <3>4, <3>5, <3>6 DEF DispatchInv, Resolved, CD!Bare
    <2> QED
      BY <2>2, <2>3
  <1>3. CASE CD!Try
    <2>1. PICK e \in todo :
              /\ info # None /\ answer = None /\ todo' = todo \ {e}
              /\ IF CD!Bare(e) THEN UNCHANGED <<calls, answer>>
                 ELSE /\ calls' = calls \cup {<<e[1], body>>}
                      /\ answer' \in {None, CD!Received(e[1])}
              /\ UNCHANGED <<body, info>>
      BY <1>3 DEF CD!Try
    <2>2. Resolved(info) /\ BodyOK /\ (\A d \in todo : Reach(d)) /\ CD!FormatsMeet
          /\ \A c \in calls : c[1] \in CD!Providers /\ c[2] = body
      BY <2>1 DEF DispatchInv
    <2>3. \A c \in calls' : c[1] \in CD!Providers /\ c[2] = body
      BY <2>1, <2>2, CallMeets
    <2>4. CD!Providers' = CD!Providers
      BY <2>1 DEF CD!Providers, CD!Bare
    <2>5. CD!FormatsMeet'
      <3>1. SUFFICES ASSUME CD!Providers \cap ClaudeSide = {}
                               \/ (endpoint = "messages" /\ info.models = <<>>)
                     PROVE  /\ \A c \in calls' : c[2] = CD!Speaks(c[1])
                            /\ answer' \in {None, "error", Reply}
        BY <1>0, <2>1, <2>4 DEF CD!FormatsMeet, CD!Speaks, Reply
      <3>2. CASE CD!Bare(e)
        BY <2>1, <2>2, <3>1, <3>2 DEF CD!FormatsMeet, Reply
      <3>3. CASE ~CD!Bare(e)
        BY <2>1, <2>3, <3>1, <3>3, CallMeets
      <3> QED
        BY <3>2, <3>3
    <2>6. Resolved(info)' /\ BodyOK' /\ \A d \in todo' : Reach(d)'
      BY <1>0, <2>1, <2>2, <2>4 DEF Resolved, CD!Bare, BodyOK, Reach
    <2>7. \A c \in calls' : c[1] \in CD!Providers' /\ c[2] = body'
      BY <2>1, <2>3, <2>4
    <2> QED
      BY <1>0, <2>1, <2>5, <2>6, <2>7 DEF DispatchInv
  <1>4. CASE CD!Fuse
    <2> DEFINE asked == {e \in todo : ~CD!Bare(e)}
    <2>1. /\ info # None /\ answer = None /\ answer' = None /\ body' = body
          /\ info.strategy = "fusion" /\ info' = [info EXCEPT !.strategy = "judge"]
          /\ calls' = calls \cup {<<e[1], body>> : e \in asked}
          /\ \/ todo' = {info.models[1]} \/ todo' \subseteq todo
      BY <1>4 DEF CD!Fuse
    <2>2. Resolved(info) /\ BodyOK /\ (\A d \in todo : Reach(d)) /\ CD!FormatsMeet
          /\ \A c \in calls : c[1] \in CD!Providers /\ c[2] = body
      BY <2>1 DEF DispatchInv
    <2>3. PICK p, m, q, l, s : info =
               [provider |-> p, model |-> m, pinned |-> q, models |-> l, strategy |-> s]
      BY <2>2 DEF Resolved
    <2>4. info' = [provider |-> p, model |-> m, pinned |-> q, models |-> l, strategy |-> "judge"]
      BY <2>1, <2>3
    <2>5. info' # None /\ info'.models = info.models /\ info'.provider = info.provider /\ info.models # <<>>
      BY <2>1, <2>2, <2>3, <2>4 DEF NoRecord, Resolved
    <2>6. Resolved(info)'
      <3>1. PICK i : i = info'
        OBVIOUS
      <3>2. Resolved(i)
        BY <2>2, <2>4, <2>5, <3>1 DEF Resolved
      <3> QED
        BY <3>1, <3>2 DEF Resolved, CD!Bare
    <2>7. CD!Providers' = CD!Providers
      BY <2>5 DEF CD!Providers, CD!Bare
    <2>8. \A d \in todo' : Reach(d)'
      <3>1. ASSUME NEW d \in todo'
            PROVE  CD!Bare(d) \/ d[1] \in CD!Providers
        BY <2>1, <2>2, <2>5 DEF Reach, Resolved, CD!Providers
      <3> QED
        BY <2>5, <2>7, <3>1 DEF Reach, CD!Bare
    <2>9. \A c \in calls' : c[1] \in CD!Providers /\ c[2] = body
      BY <2>1, <2>2, CallMeets
    <2>10. CD!FormatsMeet'
      <3>1. SUFFICES ASSUME CD!Providers \cap ClaudeSide = {}
                     PROVE  \A c \in calls' : c[2] = CD!Speaks(c[1])
        BY <1>0, <2>1, <2>5, <2>7 DEF CD!FormatsMeet, CD!Speaks
      <3>2. info.provider \notin ClaudeSide
        BY <3>1 DEF CD!Providers
      <3>3. body = "openai"
        BY <2>2, <3>2 DEF BodyOK
      <3> QED
        BY <2>9, <3>1, <3>3 DEF CD!Speaks
    <2> QED
      BY <1>0, <2>1, <2>2, <2>5, <2>6, <2>7, <2>8, <2>9, <2>10 DEF DispatchInv, BodyOK
  <1>5. CASE CD!Fail
    <2>1. /\ info # None /\ answer' = "error"
          /\ UNCHANGED <<info, body, todo, calls, endpoint>>
      BY <1>5 DEF CD!Fail, CD!tables
    <2>2. CD!FormatsMeet'
      BY <2>1 DEF DispatchInv, CD!FormatsMeet, CD!Providers, CD!Bare, CD!Speaks
    <2> QED
      BY <1>0, <2>1, <2>2 DEF DispatchInv, BodyOK, Reach, CD!Providers, CD!Bare
  <1>6. CASE UNCHANGED CD!vars
    BY <1>0, <1>6
       DEF CD!vars, DispatchInv, Resolved, BodyOK, Reach, Reply, CD!FormatsMeet, CD!Providers,
                CD!Bare, CD!Speaks
  <1> QED
    BY <1>1, <1>2, <1>3, <1>4, <1>5, <1>6 DEF CD!Next

\* HandleChatCompletions and HandleMessages: upstreams get bodies, and clients answers, in the
\* format they speak, whatever the tables say and whichever models are tried.
THEOREM FormatsAlwaysMeet == NoRecord => (CD!Spec => []FormatsMeet)
  <1>1. CD!Init => DispatchInv
    BY DEF CD!Init, DispatchInv
  <1>2. DispatchInv => FormatsMeet
    BY DEF DispatchInv, FormatsMeet, CD!FormatsMeet, Reply
  <1> SUFFICES ASSUME NoRecord
               PROVE  CD!Spec => []FormatsMeet
    OBVIOUS
  <1>3. DispatchInv /\ [CD!Next]_CD!vars => DispatchInv'
    BY DispatchStep
  <1> QED
    BY <1>1, <1>2, <1>3, PTL DEF CD!Spec

-----------------------------------------------------------------------------
(* What a combo reaches *)

\* The tables are of the types that are assumed.
TablesOK ==
    /\ IsFiniteSet(DOMAIN combos)
    /\ \A c \in DOMAIN combos : combos[c].models \in Seq(Entries)
    /\ \A e \in DOMAIN aliases : aliases[e] \in Entries

\* The entries that a combo names.
Models(c) == CD!ToSet(combos[c].models)

\* X has the models of the combos it has, of those in s excepted.
Closed(X, s) == \A c \in (X \cap DOMAIN combos) \ s : Models(c) \subseteq X

\* What can be reached from the entries in S if the combos in s are not followed.
Near(S, s) == {d \in Entries : \A X \in SUBSET Entries : S \subseteq X /\ Closed(X, s) => d \in X}

\* Near(S, s) is the least such set.
LEMMA NearIs ==
    ASSUME TablesOK, NEW S \in SUBSET Entries, NEW s
    PROVE  /\ Near(S, s) \in SUBSET Entries /\ S \subseteq Near(S, s) /\ Closed(Near(S, s), s)
           /\ \A X \in SUBSET Entries : S \subseteq X /\ Closed(X, s) => Near(S, s) \subseteq X
  <1>1. \A c \in DOMAIN combos : Models(c) \in SUBSET Entries
    <2>1. \A q \in Seq(Entries) : CD!ToSet(q) \in SUBSET Entries
      BY DEF CD!ToSet
    <2> QED
      BY <2>1 DEF TablesOK, Models
  <1>2. ASSUME NEW c \in (Near(S, s) \cap DOMAIN combos) \ s, NEW d \in Models(c)
        PROVE  d \in Near(S, s)
    BY <1>1, <1>2 DEF Near, Closed
  <1> QED
    BY <1>2 DEF Near, Closed

\* What two lots of entries reach, they reach apart.
LEMMA NearTwo ==
    ASSUME TablesOK, NEW S \in SUBSET Entries, NEW m \in Entries, NEW s
    PROVE  Near(S \cup {m}, s) = Near(S, s) \cup Near({m}, s)
  <1> DEFINE A == Near(S, s)
             B == Near({m}, s)
             C == Near(S \cup {m}, s)
  <1>1. A \in SUBSET Entries /\ S \subseteq A /\ Closed(A, s)
        /\ \A X \in SUBSET Entries : S \subseteq X /\ Closed(X, s) => A \subseteq X
    BY NearIs
  <1>2. B \in SUBSET Entries /\ m \in B /\ Closed(B, s)
        /\ \A X \in SUBSET Entries : {m} \subseteq X /\ Closed(X, s) => B \subseteq X
    BY NearIs
  <1>3. C \in SUBSET Entries /\ S \cup {m} \subseteq C /\ Closed(C, s)
        /\ \A X \in SUBSET Entries : S \cup {m} \subseteq X /\ Closed(X, s) => C \subseteq X
    BY NearIs
  <1> HIDE DEF A, B, C
  <1>4. Closed(A \cup B, s)
    BY <1>1, <1>2 DEF Closed
  <1>5. C \subseteq A \cup B
    BY <1>1, <1>2, <1>3, <1>4
  <1>6. A \subseteq C /\ B \subseteq C
    BY <1>1, <1>2, <1>3
  <1> QED
    BY <1>5, <1>6 DEF A, B, C

\* An entry whose models are not followed reaches itself only.
LEMMA NearSelf ==
    ASSUME TablesOK, NEW m \in Entries, NEW s, m \in s \/ m \notin DOMAIN combos
    PROVE  Near({m}, s) = {m}
  <1>1. Closed({m}, s)
    BY DEF Closed
  <1> QED
    BY <1>1, NearIs

\* Nothing is reached from nothing.
LEMMA NearNothing == TablesOK => \A s : Near({}, s) = {}
  <1> SUFFICES ASSUME TablesOK, NEW s
               PROVE  Near({}, s) = {}
    OBVIOUS
  <1>1. Closed({}, s)
    BY DEF Closed
  <1> QED
    BY <1>1, NearIs

\* Where a combo leads to: past itself, to what its models reach without it.
LEMMA NearCombo ==
    ASSUME TablesOK, NEW m \in Entries, m \in DOMAIN combos, NEW s, m \notin s,
           NEW t, t = s \cup {m} \/ t = s
    PROVE  Near({m}, s) = {m} \cup Near(Models(m), t)
  <1> DEFINE A == Near({m}, s)
             B == Near(Models(m), t)
  <1>0. Models(m) \in SUBSET Entries
    <2>1. \A q \in Seq(Entries) : CD!ToSet(q) \in SUBSET Entries
      BY DEF CD!ToSet
    <2> QED
      BY <2>1 DEF TablesOK, Models
  <1>1. A \in SUBSET Entries /\ m \in A /\ Closed(A, s)
        /\ \A X \in SUBSET Entries : {m} \subseteq X /\ Closed(X, s) => A \subseteq X
    BY NearIs
  <1>2. B \in SUBSET Entries /\ Models(m) \subseteq B /\ Closed(B, t)
        /\ \A X \in SUBSET Entries : Models(m) \subseteq X /\ Closed(X, t) => B \subseteq X
    BY <1>0, NearIs
  <1> HIDE DEF A, B
  <1>3. Closed({m} \cup B, s)
    <2>1. SUFFICES ASSUME NEW c \in (({m} \cup B) \cap DOMAIN combos) \ s
                   PROVE  Models(c) \subseteq {m} \cup B
      BY DEF Closed
    <2>2. CASE c = m
      BY <1>2, <2>2
    <2>3. CASE c # m
      <3>1. c \in (B \cap DOMAIN combos) \ t
        BY <2>3
      <3> QED
        BY <1>2, <3>1 DEF Closed
    <2> QED
      BY <2>2, <2>3
  <1>4. Closed(A, t) /\ Models(m) \subseteq A
    BY <1>1 DEF Closed
  <1> QED
    BY <1>1, <1>2, <1>3, <1>4 DEF A, B

\* The entries that are left where combos in s are not followed.
Stands(S, s) == {CD!Leaf(e) : e \in Near(S, s) \ DOMAIN combos}

\* What is left of two lots of entries is what is left of each.
LEMMA StandsTwo ==
    ASSUME TablesOK, NEW S \in SUBSET Entries, NEW m \in Entries, NEW s
    PROVE  Stands(S \cup {m}, s) = Stands(S, s) \cup Stands({m}, s)
  <1>1. Near(S \cup {m}, s) = Near(S, s) \cup Near({m}, s)
    BY NearTwo
  <1>2. Stands(S \cup {m}, s)
            = {CD!Leaf(e) : e \in (Near(S, s) \cup Near({m}, s)) \ DOMAIN combos}
    BY <1>1, Zenon DEF Stands
  <1>3. {CD!Leaf(e) : e \in (Near(S, s) \cup Near({m}, s)) \ DOMAIN combos}
            = {CD!Leaf(e) : e \in Near(S, s) \ DOMAIN combos}
                  \cup {CD!Leaf(e) : e \in Near({m}, s) \ DOMAIN combos}
    OBVIOUS
  <1> QED
    BY <1>2, <1>3, Zenon DEF Stands

\* What is left of one entry.
LEMMA StandsOne ==
    ASSUME TablesOK, NEW m \in Entries, NEW s
    PROVE  /\ m \notin DOMAIN combos => Stands({m}, s) = {CD!Leaf(m)}
           /\ m \in DOMAIN combos /\ m \in s => Stands({m}, s) = {}
           /\ m \in DOMAIN combos /\ m \notin s => Stands({m}, s) = Stands(Models(m), s \cup {m})
  <1>1. m \in s \/ m \notin DOMAIN combos => Near({m}, s) = {m}
    BY NearSelf
  <1>2. m \in DOMAIN combos /\ m \notin s => Near({m}, s) = {m} \cup Near(Models(m), s \cup {m})
    BY NearCombo
  <1>3. CASE m \notin DOMAIN combos
    BY <1>1, <1>3, Zenon DEF Stands
  <1>4. CASE m \in DOMAIN combos /\ m \in s
    BY <1>1, <1>4, Zenon DEF Stands
  <1>5. CASE m \in DOMAIN combos /\ m \notin s
    <2>1. Near({m}, s) \ DOMAIN combos = Near(Models(m), s \cup {m}) \ DOMAIN combos
      BY <1>2, <1>5
    <2> QED
      BY <1>5, <2>1, Zenon DEF Stands
  <1> QED
    BY <1>3, <1>4, <1>5

\* What a combo reaches is what its models stand for.
LEMMA ReachableIs ==
    ASSUME TablesOK, NEW m \in Entries, m \in DOMAIN combos
    PROVE  {CD!Leaf(e) : e \in CD!Reachable(m) \ DOMAIN combos} = Stands(Models(m), {})
  <1>1. CD!Reachable(m) = Near({m}, {})
    BY Zenon DEF CD!Reachable, CD!Complete, Near, Closed, Models
  <1>2. Near({m}, {}) = {m} \cup Near(Models(m), {})
    BY NearCombo
  <1>3. CD!Reachable(m) \ DOMAIN combos = Near(Models(m), {}) \ DOMAIN combos
    BY <1>1, <1>2
  <1> QED
    BY <1>3, Zenon DEF Stands

\* The functions that Walk has for a set of seen combos: of the entries and what came before them.
Lists == Seq(Entries)
Walkers == [Lists -> [Lists -> Lists]]

\* What W makes of the combos in DOMAIN combos \ s is of the right type.
Below(W, s) == \A m \in DOMAIN combos \ s : W[s \cup {m}] \in Walkers

\* One entry of the loop.
Visit(W, s, m, o) ==
    IF m \in s THEN o
    ELSE IF CD!IsCombo(m) THEN W[s \cup {m}][CD!Nested(combos[m].models)][o]
    ELSE CD!Put(o, CD!Leaf(m))

\* The loop's entries, as the steps of a recursion.
Visits(W, s, ms) == [i \in 1 .. Len(ms) |-> [o \in Lists |-> Visit(W, s, ms[i], o)]]

\* The loop of Walk.
Passes(p, W, s, ms, o) ==
    p = [i \in 0 .. Len(ms) |->
            IF i = 0 THEN o
            ELSE IF ms[i] \in s THEN p[i - 1]
            ELSE IF CD!IsCombo(ms[i])
            THEN W[s \cup {ms[i]}][CD!Nested(combos[ms[i]].models)][p[i - 1]]
            ELSE CD!Put(p[i - 1], CD!Leaf(ms[i]))]

\* Its result.
Pass(W, s, ms, o) == (CHOOSE p : Passes(p, W, s, ms, o))[Len(ms)]

\* The loop for all lists.
Level(W, s) == [ms \in Lists |-> [o \in Lists |-> Pass(W, s, ms, o)]]

\* The equation of Walk.
Walks(W) == W = [s \in SUBSET DOMAIN combos |-> Level(W, s)]

\* What the definition of Walk says.
LEMMA WalkIs == CD!Walk = CHOOSE W : Walks(W)
  BY Zenon DEF CD!Walk, Walks, Level, Pass, Passes, Lists

\* An entry stands for an entry.
LEMMA LeafIs ==
    ASSUME TablesOK, NEW e \in Entries
    PROVE  CD!Leaf(e) \in Entries
  BY DEF TablesOK, CD!Leaf, CD!Aliased

\* The same entry is not twice in a row.
NoTwins(q) == \A i \in 2 .. Len(q) : q[i] # q[i - 1]

\* What putting one entry after others makes.
LEMMA PutIs ==
    ASSUME NEW q \in Lists, NEW e \in Entries
    PROVE  /\ CD!Put(q, e) \in Lists
           /\ CD!ToSet(CD!Put(q, e)) = CD!ToSet(q) \cup {e}
           /\ NoTwins(q) => NoTwins(CD!Put(q, e))
  <1>1. Len(q) \in Nat /\ q \in Seq(Entries) /\ DOMAIN q = 1 .. Len(q) /\ (q # <<>> => Len(q) # 0)
    BY DEF Lists
  <1>2. CASE q # <<>> /\ q[Len(q)] = e
    <2>1. CD!Put(q, e) = q
      BY <1>2 DEF CD!Put, CD!Last
    <2> QED
      BY <1>1, <1>2, <2>1 DEF CD!ToSet
  <1>3. CASE ~(q # <<>> /\ q[Len(q)] = e)
    <2> DEFINE r == Append(q, e)
    <2>1. CD!Put(q, e) = r
      BY <1>3 DEF CD!Put, CD!Last
    <2>2. /\ r \in Seq(Entries) /\ Len(r) = Len(q) + 1 /\ r[Len(q) + 1] = e
          /\ DOMAIN r = 1 .. Len(r) /\ \A i \in 1 .. Len(q) : r[i] = q[i]
      BY <1>1
    <2> HIDE DEF r
    <2>3. CD!ToSet(r) = CD!ToSet(q) \cup {e}
      <3>1. ASSUME NEW d \in CD!ToSet(r)
            PROVE  d \in CD!ToSet(q) \cup {e}
        <4>1. PICK i \in 1 .. Len(q) + 1 : r[i] = d
          BY <2>2, <3>1 DEF CD!ToSet
        <4>2. i \in 1 .. Len(q) \/ i = Len(q) + 1
          BY <1>1
        <4> QED
          BY <1>1, <2>2, <4>1, <4>2 DEF CD!ToSet
      <3>2. ASSUME NEW d \in CD!ToSet(q) \cup {e}
            PROVE  d \in CD!ToSet(r)
        <4>1. CASE d = e
          <5>1. Len(q) + 1 \in DOMAIN r
            BY <1>1, <2>2
          <5> QED
            BY <2>2, <4>1, <5>1 DEF CD!ToSet
        <4>2. CASE d \in CD!ToSet(q)
          <5>1. PICK i \in 1 .. Len(q) : q[i] = d
            BY <1>1, <4>2 DEF CD!ToSet
          <5>2. i \in DOMAIN r /\ r[i] = d
            BY <1>1, <2>2, <5>1
          <5> QED
            BY <5>2 DEF CD!ToSet
        <4> QED
          BY <3>2, <4>1, <4>2
      <3> QED
        BY <3>1, <3>2
    <2>4. ASSUME NoTwins(q), NEW i \in 2 .. Len(r)
          PROVE  r[i] # r[i - 1]
      <3>1. CASE i = Len(q) + 1
        <4>1. q # <<>>
          BY <3>1, <1>1
        <4>2. i - 1 = Len(q) /\ Len(q) \in 1 .. Len(q) /\ r[i] = e /\ r[Len(q)] = q[Len(q)]
          BY <1>1, <2>2, <3>1
        <4> QED
          BY <1>3, <4>1, <4>2
      <3>2. CASE i # Len(q) + 1
        <4>1. i \in 2 .. Len(q) /\ r[i] = q[i] /\ r[i - 1] = q[i - 1]
          BY <1>1, <2>2, <3>2
        <4> QED
          BY <2>4, <4>1 DEF NoTwins
      <3> QED
        BY <3>1, <3>2
    <2> QED
      BY <2>1, <2>2, <2>3, <2>4 DEF NoTwins, Lists
  <1> QED
    BY <1>2, <1>3

\* One entry of the loop makes a list of a list.
LEMMA VisitIs ==
    ASSUME TablesOK, NEW W, NEW s \in SUBSET DOMAIN combos, Below(W, s),
           NEW m \in Entries, NEW o \in Lists
    PROVE  Visit(W, s, m, o) \in Lists
  <1>1. CASE m \in s
    BY <1>1 DEF Visit
  <1>2. CASE m \notin s /\ m \in DOMAIN combos
    <2>1. W[s \cup {m}] \in Walkers /\ combos[m].models \in Lists
      BY <1>2 DEF Below, TablesOK, Lists
    <2>2. W[s \cup {m}][combos[m].models][o] \in Lists
      BY <2>1 DEF Walkers
    <2> QED
      BY <1>2, <2>2 DEF Visit, CD!IsCombo, CD!Nested
  <1>3. CASE m \notin s /\ m \notin DOMAIN combos
    <2>1. CD!Put(o, CD!Leaf(m)) \in Lists
      BY LeafIs, PutIs
    <2> QED
      BY <1>3, <2>1 DEF Visit, CD!IsCombo
  <1> QED
    BY <1>1, <1>2, <1>3

\* The loop, entry by entry.
LEMMA PassIs ==
    ASSUME TablesOK, NEW W, NEW s \in SUBSET DOMAIN combos, Below(W, s),
           NEW ms \in Lists, NEW o \in Lists
    PROVE  \E g : /\ g \in [0 .. Len(ms) -> Lists] /\ g[0] = o
                  /\ \A i \in 1 .. Len(ms) : g[i] = Visit(W, s, ms[i], g[i - 1])
                  /\ Pass(W, s, ms, o) = g[Len(ms)]
  <1> DEFINE N == Len(ms)
             step == Visits(W, s, ms)
  <1>1. /\ N \in Nat
        /\ \A i \in 1 .. N : ms[i] \in Entries /\ i \in 0 .. N /\ i # 0 /\ i - 1 \in 0 .. N
    BY DEF Lists
  <1>2. step \in [1 .. N -> [Lists -> Lists]]
    <2>1. \A i \in 1 .. N : \A q \in Lists : Visit(W, s, ms[i], q) \in Lists
      BY <1>1, VisitIs
    <2> QED
      BY <2>1 DEF Visits
  <1>3. PICK g : Recurs(g, o, step, Lists, N)
    <2> HIDE DEF N, step
    <2> QED
      BY <1>1, <1>2, Recursion
  <1>4. g \in [0 .. N -> Lists] /\ g[0] = o
        /\ \A i \in 1 .. N : g[i] = Visit(W, s, ms[i], g[i - 1])
    <2>1. ASSUME NEW i \in 1 .. N
          PROVE  g[i] = Visit(W, s, ms[i], g[i - 1])
      <3>1. g[i - 1] \in Lists /\ g[i] = step[i][g[i - 1]]
        BY <1>1, <1>3 DEF Recurs
      <3> QED
        BY <3>1 DEF Visits
    <2> QED
      BY <1>3, <2>1 DEF Recurs
  <1>5. Passes(g, W, s, ms, o)
    <2>1. g = [i \in 0 .. N |-> g[i]]
      BY <1>4
    <2>2. \A i \in 0 .. N : i # 0 => i \in 1 .. N
      BY <1>1
    <2>3. \A i \in 0 .. N : g[i] = IF i = 0 THEN o ELSE Visit(W, s, ms[i], g[i - 1])
      BY <1>4, <2>2
    <2> QED
      BY <2>1, <2>3, Zenon DEF Passes, Visit
  <1> DEFINE c == CHOOSE p : Passes(p, W, s, ms, o)
  <1>6. Passes(c, W, s, ms, o)
    BY <1>5, Zenon
  <1>7. c = g
    <2> HIDE DEF c
    <2>0. \A i \in 0 .. N : c[i] = IF i = 0 THEN o ELSE Visit(W, s, ms[i], c[i - 1])
      BY <1>6, Zenon DEF Passes, Visit
    <2>1. c[0] = o /\ c = [i \in 0 .. N |-> c[i]]
      <3>1. 0 \in 0 .. N
        BY <1>1
      <3>2. DOMAIN c = 0 .. N /\ c = [i \in DOMAIN c |-> c[i]]
        BY <1>6, Zenon DEF Passes
      <3> QED
        BY <2>0, <3>1, <3>2
    <2>2. \A i \in 1 .. N : c[i] = Visit(W, s, ms[i], c[i - 1])
      BY <1>1, <2>0
    <2>3. \A i \in 1 .. N : c[i - 1] \in Lists => c[i] = step[i][c[i - 1]]
      BY <2>2 DEF Visits
    <2>4. Solves(c, o, step, Lists, N)
      BY <2>1, <2>3 DEF Solves
    <2> HIDE DEF N, step
    <2> QED
      BY <1>1, <1>3, <2>4, OneRecursion
  <1>8. Pass(W, s, ms, o) = g[Len(ms)]
    BY <1>7, Zenon DEF Pass
  <1> QED
    BY <1>4, <1>8

\* What is still to be expanded below a combo is less.
Depth(s) == Cardinality(DOMAIN combos \ s)

\* A combo that is seen leaves one less.
LEMMA DepthIs ==
    ASSUME TablesOK, NEW s \in SUBSET DOMAIN combos
    PROVE  /\ Depth(s) \in Nat
           /\ \A m \in DOMAIN combos \ s :
                 s \cup {m} \in SUBSET DOMAIN combos /\ Depth(s \cup {m}) + 1 = Depth(s)
  <1>1. IsFiniteSet(DOMAIN combos \ s)
    BY FS_Subset DEF TablesOK
  <1>2. ASSUME NEW m \in DOMAIN combos \ s
        PROVE  Depth(s \cup {m}) + 1 = Depth(s)
    <2>1. DOMAIN combos \ (s \cup {m}) = (DOMAIN combos \ s) \ {m}
      OBVIOUS
    <2>2. Cardinality((DOMAIN combos \ s) \ {m}) = Cardinality(DOMAIN combos \ s) - 1
      BY <1>1, FS_RemoveElement
    <2>3. Cardinality(DOMAIN combos \ s) \in Nat
      BY <1>1, FS_CardinalityType
    <2>4. Depth(s \cup {m}) = Depth(s) - 1 /\ Depth(s) \in Nat
      BY <2>1, <2>2, <2>3, Zenon DEF Depth
    <2> QED
      BY <2>4
  <1> QED
    BY <1>1, <1>2, FS_CardinalityType DEF Depth

\* Level is as good as what it uses.
LEMMA LevelIs ==
    ASSUME TablesOK, NEW W, NEW s \in SUBSET DOMAIN combos, Below(W, s)
    PROVE  Level(W, s) \in Walkers
  <1>1. \A ms \in Lists : \A o \in Lists : Pass(W, s, ms, o) \in Lists
    <2>1. SUFFICES ASSUME NEW ms \in Lists, NEW o \in Lists
                   PROVE  Pass(W, s, ms, o) \in Lists
      OBVIOUS
    <2>2. PICK g : g \in [0 .. Len(ms) -> Lists] /\ Pass(W, s, ms, o) = g[Len(ms)]
      BY PassIs
    <2>3. Len(ms) \in 0 .. Len(ms)
      BY DEF Lists
    <2> QED
      BY <2>2, <2>3
  <1> QED
    BY <1>1 DEF Level, Walkers

\* Level depends only on what is deeper.
LEMMA LevelSame ==
    ASSUME TablesOK, NEW W, NEW U, NEW s \in SUBSET DOMAIN combos, Below(W, s),
           \A m \in DOMAIN combos \ s : U[s \cup {m}] = W[s \cup {m}]
    PROVE  Level(U, s) = Level(W, s)
  <1>1. Below(U, s)
    BY DEF Below
  <1>2. ASSUME NEW ms \in Lists, NEW o \in Lists
        PROVE  Pass(U, s, ms, o) = Pass(W, s, ms, o)
    <2>1. PICK g : /\ g \in [0 .. Len(ms) -> Lists] /\ g[0] = o
                   /\ \A i \in 1 .. Len(ms) : g[i] = Visit(W, s, ms[i], g[i - 1])
                   /\ Pass(W, s, ms, o) = g[Len(ms)]
      BY PassIs
    <2>2. PICK h : /\ h \in [0 .. Len(ms) -> Lists] /\ h[0] = o
                   /\ \A i \in 1 .. Len(ms) : h[i] = Visit(U, s, ms[i], h[i - 1])
                   /\ Pass(U, s, ms, o) = h[Len(ms)]
      BY <1>1, PassIs
    <2>3. \A m \in Entries : \A q \in Lists : Visit(U, s, m, q) = Visit(W, s, m, q)
      BY DEF Visit, CD!IsCombo
    <2>4. Len(ms) \in Nat /\ \A i \in 1 .. Len(ms) : ms[i] \in Entries
      BY DEF Lists
    <2> DEFINE Good == {n \in Nat : n <= Len(ms) => h[n] = g[n]}
    <2>5. 0 \in Good
      BY <2>1, <2>2
    <2>6. ASSUME NEW n \in Good \cap Nat
          PROVE  n + 1 \in Good
      <3>1. SUFFICES ASSUME n + 1 <= Len(ms)
                     PROVE  h[n + 1] = g[n + 1]
        OBVIOUS
      <3>2. n + 1 \in 1 .. Len(ms) /\ (n + 1) - 1 = n /\ n \in 0 .. Len(ms) /\ h[n] = g[n]
        BY <2>4, <3>1
      <3>3. h[n + 1] = Visit(U, s, ms[n + 1], h[n]) /\ g[n + 1] = Visit(W, s, ms[n + 1], g[n])
        BY <2>1, <2>2, <3>2
      <3>4. g[n] \in Lists /\ ms[n + 1] \in Entries
        BY <2>1, <2>4, <3>2
      <3> QED
        BY <2>3, <3>2, <3>3, <3>4
    <2>7. Nat \subseteq Good
      <3> HIDE DEF Good
      <3> QED
        BY <2>5, <2>6, Induction
    <2> QED
      BY <2>1, <2>2, <2>4, <2>7
  <1> QED
    BY <1>2 DEF Level

\* W satisfies the equation of Walk where at most n - 1 combos are left.
Agrees(W, n) ==
    /\ W \in [SUBSET DOMAIN combos -> Walkers]
    /\ \A s \in SUBSET DOMAIN combos : Depth(s) < n => W[s] = Level(W, s)

\* Step by step such functions agree with the equation further up, in the end all the way.
LEMMA WalkExists ==
    ASSUME TablesOK
    PROVE  \E W : Walks(W)
  <1> DEFINE Good == {n \in Nat : \E W : Agrees(W, n)}
  <1>1. 0 \in Good
    <2> DEFINE W == [s \in SUBSET DOMAIN combos |-> [ms \in Lists |-> [o \in Lists |-> o]]]
    <2>1. W \in [SUBSET DOMAIN combos -> Walkers]
      BY DEF Walkers
    <2>2. \A s \in SUBSET DOMAIN combos : ~(Depth(s) < 0)
      BY DepthIs
    <2> HIDE DEF W
    <2>3. Agrees(W, 0)
      BY <2>1, <2>2 DEF Agrees
    <2> QED
      BY <2>3
  <1>2. ASSUME NEW n \in Good \cap Nat
        PROVE  n + 1 \in Good
    <2>1. PICK W : Agrees(W, n)
      OBVIOUS
    <2> DEFINE U == [s \in SUBSET DOMAIN combos |-> Level(W, s)]
    <2>2. \A s \in SUBSET DOMAIN combos : Below(W, s)
      BY <2>1, DepthIs DEF Agrees, Below
    <2>3. U \in [SUBSET DOMAIN combos -> Walkers]
      BY <2>2, LevelIs
    <2>4. ASSUME NEW s \in SUBSET DOMAIN combos, Depth(s) < n + 1
          PROVE  U[s] = Level(U, s)
      <3>1. \A m \in DOMAIN combos \ s : U[s \cup {m}] = W[s \cup {m}]
        <4>1. SUFFICES ASSUME NEW m \in DOMAIN combos \ s
                       PROVE  U[s \cup {m}] = W[s \cup {m}]
          OBVIOUS
        <4>2. s \cup {m} \in SUBSET DOMAIN combos /\ Depth(s \cup {m}) + 1 = Depth(s)
              /\ Depth(s) \in Nat
          BY DepthIs
        <4>3. Depth(s \cup {m}) \in Nat
          BY <4>2, DepthIs
        <4>4. Depth(s \cup {m}) < n
          BY <2>4, <4>2, <4>3
        <4> QED
          BY <2>1, <4>2, <4>4 DEF Agrees
      <3> HIDE DEF U
      <3>2. Level(U, s) = Level(W, s)
        BY <2>2, <3>1, LevelSame
      <3> QED
        BY <3>2 DEF U
    <2> HIDE DEF U
    <2>5. Agrees(U, n + 1)
      BY <2>3, <2>4 DEF Agrees
    <2> QED
      BY <2>5
  <1>3. Nat \subseteq Good
    <2> HIDE DEF Good
    <2> QED
      BY <1>1, <1>2, Induction
  <1>4. /\ Depth({}) \in Nat
        /\ \A s \in SUBSET DOMAIN combos : Depth(s) \in Nat /\ Depth(s) <= Depth({})
    <2>1. ASSUME NEW s \in SUBSET DOMAIN combos
          PROVE  Depth(s) <= Depth({})
      <3>1. DOMAIN combos \ {} = DOMAIN combos /\ DOMAIN combos \ s \in SUBSET DOMAIN combos
        OBVIOUS
      <3> QED
        BY <3>1, FS_Subset DEF TablesOK, Depth
    <2> QED
      BY <2>1, DepthIs
  <1>5. Depth({}) + 1 \in Good
    BY <1>3, <1>4
  <1>6. PICK W : Agrees(W, Depth({}) + 1)
    BY <1>5
  <1>7. \A s \in SUBSET DOMAIN combos : W[s] = Level(W, s)
    BY <1>4, <1>6 DEF Agrees
  <1>8. W = [s \in SUBSET DOMAIN combos |-> W[s]]
    BY <1>6 DEF Agrees
  <1>9. Walks(W)
    BY <1>7, <1>8 DEF Walks
  <1> QED
    BY <1>9

\* What the loop over the entries in ms makes of out.
Expands(W, s) ==
    /\ W[s] \in Walkers
    /\ \A ms, o \in Lists :
          /\ CD!ToSet(W[s][ms][o]) = CD!ToSet(o) \cup Stands(CD!ToSet(ms), s)
          /\ NoTwins(o) => NoTwins(W[s][ms][o])

\* W does it for the sets with one combo more.
Deeper(W, s) == \A m \in DOMAIN combos \ s : Expands(W, s \cup {m})

\* The first n entries.
Ahead(ms, n) == {ms[j] : j \in 1 .. n}

\* One entry adds what it stands for.
LEMMA VisitAdds ==
    ASSUME TablesOK, NEW W, NEW s \in SUBSET DOMAIN combos,
           Deeper(W, s), NEW m \in Entries, NEW o \in Lists
    PROVE  /\ CD!ToSet(Visit(W, s, m, o)) = CD!ToSet(o) \cup Stands({m}, s)
           /\ NoTwins(o) => NoTwins(Visit(W, s, m, o))
  <1>1. CASE m \in s
    <2>1. Visit(W, s, m, o) = o /\ Stands({m}, s) = {}
      BY <1>1, StandsOne DEF Visit
    <2> QED
      BY <2>1
  <1>2. CASE m \notin s /\ m \in DOMAIN combos
    <2>1. combos[m].models \in Lists /\ Expands(W, s \cup {m})
      BY <1>2 DEF Deeper, TablesOK, Lists
    <2>2. Visit(W, s, m, o) = W[s \cup {m}][combos[m].models][o]
      BY <1>2 DEF Visit, CD!IsCombo, CD!Nested
    <2>3. Stands({m}, s) = Stands(CD!ToSet(combos[m].models), s \cup {m})
      BY <1>2, StandsOne DEF Models
    <2> QED
      BY <2>1, <2>2, <2>3 DEF Expands
  <1>3. CASE m \notin s /\ m \notin DOMAIN combos
    <2>1. Visit(W, s, m, o) = CD!Put(o, CD!Leaf(m)) /\ Stands({m}, s) = {CD!Leaf(m)}
      BY <1>3, StandsOne DEF Visit, CD!IsCombo
    <2> QED
      BY <2>1, LeafIs, PutIs
  <1> QED
    BY <1>1, <1>2, <1>3

\* The loop adds what its entries stand for.
LEMMA LevelExpands ==
    ASSUME TablesOK, NEW W, NEW s \in SUBSET DOMAIN combos, W[s] = Level(W, s), Deeper(W, s)
    PROVE  Expands(W, s)
  <1>1. Below(W, s)
    BY DEF Below, Deeper, Expands
  <1>2. W[s] \in Walkers
    BY <1>1, LevelIs
  <1>3. ASSUME NEW ms \in Lists, NEW o \in Lists
        PROVE  /\ CD!ToSet(W[s][ms][o]) = CD!ToSet(o) \cup Stands(CD!ToSet(ms), s)
               /\ NoTwins(o) => NoTwins(W[s][ms][o])
    <2>1. PICK g : /\ g \in [0 .. Len(ms) -> Lists] /\ g[0] = o
                   /\ \A i \in 1 .. Len(ms) : g[i] = Visit(W, s, ms[i], g[i - 1])
                   /\ Pass(W, s, ms, o) = g[Len(ms)]
      BY <1>1, PassIs
    <2>2. Len(ms) \in Nat /\ \A i \in 1 .. Len(ms) : ms[i] \in Entries
      BY DEF Lists
    <2> DEFINE Holds(n) == /\ CD!ToSet(g[n]) = CD!ToSet(o) \cup Stands(Ahead(ms, n), s)
                           /\ NoTwins(o) => NoTwins(g[n])
               Good == {n \in Nat : n <= Len(ms) => Holds(n)}
    <2>3. Holds(0)
      <3>1. Ahead(ms, 0) = {}
        BY DEF Ahead
      <3>2. Near({}, s) = {}
        BY NearNothing
      <3>3. Stands({}, s) = {}
        BY <3>2 DEF Stands
      <3> QED
        BY <2>1, <3>1, <3>3
    <2>4. ASSUME NEW n \in Nat, n + 1 <= Len(ms), Holds(n)
          PROVE  Holds(n + 1)
      <3>1. n + 1 \in 1 .. Len(ms) /\ (n + 1) - 1 = n /\ n \in 0 .. Len(ms)
        BY <2>2, <2>4
      <3>2. g[n] \in Lists /\ ms[n + 1] \in Entries /\ g[n + 1] = Visit(W, s, ms[n + 1], g[n])
        BY <2>1, <2>2, <3>1
      <3>3. /\ CD!ToSet(g[n + 1]) = CD!ToSet(g[n]) \cup Stands({ms[n + 1]}, s)
            /\ NoTwins(g[n]) => NoTwins(g[n + 1])
        <4>1. PICK q \in Lists : q = g[n]
          BY <3>2
        <4>2. PICK m \in Entries : m = ms[n + 1]
          BY <3>2
        <4>3. /\ CD!ToSet(Visit(W, s, m, q)) = CD!ToSet(q) \cup Stands({m}, s)
              /\ NoTwins(q) => NoTwins(Visit(W, s, m, q))
          BY VisitAdds
        <4> QED
          BY <3>2, <4>1, <4>2, <4>3
      <3>4. Ahead(ms, n) \in SUBSET Entries
        BY <2>2, <2>4 DEF Ahead
      <3>5. Ahead(ms, n + 1) = Ahead(ms, n) \cup {ms[n + 1]}
        <4>1. 1 .. n + 1 = (1 .. n) \cup {n + 1}
          OBVIOUS
        <4> QED
          BY <4>1, Zenon DEF Ahead
      <3>6. Stands(Ahead(ms, n + 1), s) = Stands(Ahead(ms, n), s) \cup Stands({ms[n + 1]}, s)
        BY <3>2, <3>4, <3>5, StandsTwo
      <3> QED
        BY <2>4, <3>3, <3>6
    <2>5. Nat \subseteq Good
      <3> HIDE DEF Holds
      <3>1. 0 \in Good
        BY <2>3
      <3>2. ASSUME NEW n \in Good \cap Nat
            PROVE  n + 1 \in Good
        <4>1. n + 1 <= Len(ms) => n <= Len(ms)
          BY <2>2
        <4>2. n + 1 <= Len(ms) => Holds(n + 1)
          BY <2>4, <4>1
        <4> QED
          BY <4>2
      <3> HIDE DEF Good
      <3> QED
        BY <3>1, <3>2, Induction
    <2>6. Holds(Len(ms))
      <3> HIDE DEF Holds
      <3> QED
        BY <2>2, <2>5
    <2>7. Ahead(ms, Len(ms)) = CD!ToSet(ms)
      BY DEF Ahead, CD!ToSet, Lists
    <2>8. W[s][ms][o] = g[Len(ms)]
      BY <2>1 DEF Level
    <2> QED
      BY <2>6, <2>7, <2>8
  <1> QED
    BY <1>2, <1>3 DEF Expands

\* Walk does, whatever is seen.
LEMMA WalkExpands ==
    ASSUME TablesOK
    PROVE  \A s \in SUBSET DOMAIN combos : Expands(CD!Walk, s)
  <1> DEFINE W == CD!Walk
  <1>1. \A s \in SUBSET DOMAIN combos : W[s] = Level(W, s)
    <2>1. Walks(W)
      BY WalkExists, WalkIs, Zenon
    <2> HIDE DEF W
    <2> QED
      BY <2>1 DEF Walks
  <1> HIDE DEF W
  <1> DEFINE Good == {n \in Nat : \A s \in SUBSET DOMAIN combos : Depth(s) < n => Expands(W, s)}
  <1>2. 0 \in Good
    <2>1. \A s \in SUBSET DOMAIN combos : ~(Depth(s) < 0)
      BY DepthIs
    <2> QED
      BY <2>1
  <1>3. ASSUME NEW n \in Good \cap Nat
        PROVE  n + 1 \in Good
    <2>1. SUFFICES ASSUME NEW s \in SUBSET DOMAIN combos, Depth(s) < n + 1
                   PROVE  Expands(W, s)
      OBVIOUS
    <2>2. ASSUME NEW m \in DOMAIN combos \ s
          PROVE  Expands(W, s \cup {m})
      <3>1. s \cup {m} \in SUBSET DOMAIN combos /\ Depth(s \cup {m}) + 1 = Depth(s)
            /\ Depth(s) \in Nat
        BY DepthIs
      <3>2. Depth(s \cup {m}) \in Nat
        BY <3>1, DepthIs
      <3>3. Depth(s \cup {m}) < n
        BY <2>1, <3>1, <3>2
      <3> QED
        BY <3>1, <3>3
    <2>3. Deeper(W, s)
      BY <2>2 DEF Deeper
    <2> QED
      BY <1>1, <2>3, LevelExpands
  <1>4. Nat \subseteq Good
    <2> HIDE DEF Good
    <2> QED
      BY <1>2, <1>3, Induction
  <1>5. ASSUME NEW s \in SUBSET DOMAIN combos
        PROVE  Expands(W, s)
    <2>1. Depth(s) \in Nat
      BY DepthIs
    <2>2. Depth(s) + 1 \in Good /\ Depth(s) < Depth(s) + 1
      BY <1>4, <2>1
    <2> QED
      BY <2>2
  <1> QED
    BY <1>5 DEF W

\* A flattened combo has every model it reaches and no combo.
Covers(ms, m) ==
    /\ CD!ToSet(ms) = {CD!Leaf(e) : e \in CD!Reachable(m) \ DOMAIN combos}
    /\ NoTwins(ms)

\* flattenComboModels, whatever combos refer to each other and however.
LEMMA FlattenCovers ==
    ASSUME TablesOK, NEW m \in Entries, m \in DOMAIN combos
    PROVE  Covers(CD!FlattenComboModels(combos[m].models), m)
  <1> DEFINE q == CD!Walk[{}][combos[m].models][<<>>]
  <1>1. Expands(CD!Walk, {})
    BY WalkExpands
  <1>2. combos[m].models \in Lists /\ <<>> \in Lists
    BY DEF TablesOK, Lists
  <1>3. CD!ToSet(<<>>) = {} /\ NoTwins(<<>>)
    BY DEF CD!ToSet, NoTwins
  <1>4. CD!ToSet(q) = Stands(Models(m), {}) /\ NoTwins(q)
    <2>1. /\ CD!ToSet(q) = CD!ToSet(<<>>) \cup Stands(CD!ToSet(combos[m].models), {})
          /\ NoTwins(<<>>) => NoTwins(q)
      BY <1>1, <1>2 DEF Expands
    <2>2. CD!ToSet(q) = CD!ToSet(<<>>) \cup Stands(Models(m), {})
      BY <2>1, Zenon DEF Models
    <2> QED
      BY <1>3, <2>1, <2>2
  <1>5. CD!ToSet(q) = {CD!Leaf(e) : e \in CD!Reachable(m) \ DOMAIN combos}
    BY <1>4, ReachableIs
  <1> QED
    BY <1>4, <1>5, Zenon DEF Covers, CD!FlattenComboModels

\* Where the list of a resolved name comes from.
LEMMA ResolveModels ==
    ASSUME NEW e, NEW i, i = CD!ResolveModel(e), i # None, i.models # <<>>
    PROVE  e \in DOMAIN combos /\ i.models = CD!FlattenComboModels(combos[e].models)
  <1>1. \A d : CD!Info(d).models = <<>>
    BY DEF CD!Info
  <1>2. \A d : CD!CommonProvider(d) = None \/ CD!CommonProvider(d).models = <<>>
    BY DEF CD!CommonProvider, CD!Info
  <1>3. ~CD!Aliased(e) /\ CD!Bare(e) /\ i # CD!CommonProvider(e)
    <2>1. i # CD!Info(aliases[e]) /\ i # CD!Info(e)
      BY <1>1
    <2>2. i # CD!CommonProvider(e)
      BY <1>2
    <2> QED
      BY <2>1, <2>2 DEF CD!ResolveModel
  <1> DEFINE flat  == CD!FlattenComboModels(combos[e].models)
             first == IF CD!Bare(flat[1]) THEN CD!CommonProvider(flat[1]) ELSE CD!Info(flat[1])
  <1>4. /\ CD!IsCombo(e) /\ first # None
        /\ i = [first EXCEPT !.models = flat, !.strategy = combos[e].strategy]
    BY <1>3 DEF CD!ResolveModel
  <1>5. "models" \in DOMAIN first
    BY <1>4 DEF CD!CommonProvider, CD!Info
  <1> HIDE DEF flat, first
  <1>6. i.models = flat
    BY <1>4, <1>5
  <1> QED
    BY <1>4, <1>6 DEF flat, CD!IsCombo

\* The tables stay, and the list of a name is that of a combo, flattened.
CoverInv ==
    /\ aliases \in AliasTables /\ combos \in ComboTables /\ name \in Entries
    /\ info # None =>
          /\ "models" \in DOMAIN info
          /\ info.models # <<>> => Covers(info.models, name)

\* What a list covers does not change while the tables do not.
LEMMA CoversStays ==
    ASSUME UNCHANGED <<aliases, combos, name>>, NEW ms, Covers(ms, name)
    PROVE  Covers(ms, name)'
  <1>1. \A e : CD!Leaf(e)' = CD!Leaf(e)
    BY DEF CD!Leaf, CD!Bare, CD!Aliased
  <1>2. CD!Reachable(name)' = CD!Reachable(name)
    BY DEF CD!Reachable, CD!Complete, CD!ToSet
  <1>3. CD!ToSet(ms) = {CD!Leaf(e)' : e \in CD!Reachable(name)' \ DOMAIN combos'}
    BY <1>1, <1>2 DEF Covers
  <1> QED
    BY <1>3, Zenon DEF Covers, NoTwins, CD!ToSet

\* Every step keeps the list complete.
LEMMA CoverStep ==
    ASSUME CoverInv, [CD!Next]_CD!vars
    PROVE  CoverInv'
  <1>1. /\ aliases' = aliases /\ combos' = combos /\ name' = name
    BY DEF CD!Next, CD!Bypass, CD!Resolve, CD!Try, CD!Fuse, CD!Fail, CD!tables, CD!vars
  <1>2. TablesOK
    BY DispatchAssumption DEF CoverInv, TablesOK
  <1>3. PICK i : i = info'
    OBVIOUS
  <1>4. SUFFICES i # None =>
            "models" \in DOMAIN i /\ (i.models # <<>> => Covers(i.models, name))
    <2>1. i # None /\ i.models # <<>> => Covers(i.models, name)'
      BY <1>1, <1>4, CoversStays
    <2> QED
      BY <1>1, <1>3, <1>4, <2>1 DEF CoverInv
  <1>5. CASE i = info
    BY <1>5 DEF CoverInv
  <1>6. CASE CD!Resolve
    <2>1. i = CD!ResolveModel(name)
      BY <1>3, <1>6 DEF CD!Resolve
    <2>2. ASSUME i # None, i.models # <<>>
          PROVE  Covers(i.models, name)
      <3>1. name \in DOMAIN combos /\ i.models = CD!FlattenComboModels(combos[name].models)
        BY <2>1, <2>2, ResolveModels
      <3> QED
        BY <1>2, <3>1, FlattenCovers DEF CoverInv
    <2>3. i # None => "models" \in DOMAIN i
      <3>1. SUFFICES ASSUME i # None
                     PROVE  "models" \in DOMAIN i
        OBVIOUS
      <3>2. Resolved(i)
        BY <2>1, <3>1, ResolveGives
      <3>3. PICK p, m, q, l, s : i =
                 [provider |-> p, model |-> m, pinned |-> q, models |-> l, strategy |-> s]
        BY <3>2 DEF Resolved
      <3> QED
        BY <3>3
    <2> QED
      BY <2>2, <2>3
  <1>7. CASE CD!Fuse
    <2>1. info # None /\ i = [info EXCEPT !.strategy = "judge"]
      BY <1>3, <1>7 DEF CD!Fuse
    <2> QED
      BY <2>1 DEF CoverInv
  <1>8. CD!Resolve \/ CD!Fuse \/ i = info
    BY <1>3 DEF CD!Next, CD!Bypass, CD!Try, CD!Fail, CD!vars
  <1> QED
    BY <1>5, <1>6, <1>7, <1>8

\* flattenComboModels (resolution.go): the list a request rotates over has every model that its
\* combo can reach, aliases resolved, no combo and no model twice in a row, whatever the tables say.
THEOREM ReachableIsCovered == CD!Spec => []CoversReachable
  <1>1. CD!Init => CoverInv
    BY DEF CD!Init, CoverInv
  <1>2. CoverInv => CoversReachable
    BY DEF CoverInv, CoversReachable, CD!CoversReachable, Covers, NoTwins
  <1>3. CoverInv /\ [CD!Next]_CD!vars => CoverInv'
    BY CoverStep
  <1> QED
    BY <1>1, <1>2, <1>3, PTL DEF CD!Spec

-----------------------------------------------------------------------------
(* The rotation of a combo's models *)

StateOK ==
    state \in [Combos -> {None} \cup [index : Nat, uses : Nat, serving : Nat]]

PointerOK ==
    \A k \in Combos : Rotates(k) =>
        /\ Current(k).index \in Positions(k)
        /\ Current(k).serving \in Positions(k)
        /\ Current(k).uses \in 0 .. (Limit(k) - 1)

ServedOK ==
    /\ DOMAIN served = Combos
    /\ \A k \in Combos : served[k] \in [Positions(k) -> Nat]

\* What position p has led of the round the pointer is in.
Share(k, p) == IF p < Current(k).index THEN Limit(k)
               ELSE IF p = Current(k).index THEN Current(k).uses ELSE 0

\* Every position has led the same number of turns in the rounds that are over.
Rounds ==
    \A k \in Combos : Rotates(k) =>
        \E base \in Nat : \A p \in Positions(k) : served[k][p] = base + Share(k, p)

SharesInv == StateOK /\ PointerOK /\ ServedOK /\ Rounds

\* A limit is a positive number, whatever is configured.
LEMMA LimitPositive == \A k \in Combos : Limit(k) \in Nat /\ Limit(k) > 0
  BY RotationAssumption DEF Limit

\* The pointer's next position: one further, or the first.
LEMMA NextPosition ==
    ASSUME NEW n \in Nat \ {0}, NEW i \in 0 .. (n - 1)
    PROVE  /\ (i + 1) % n \in 0 .. (n - 1)
           /\ i + 1 < n => (i + 1) % n = i + 1
           /\ i + 1 = n => (i + 1) % n = 0
  OBVIOUS

\* Initially nobody has led.
LEMMA SharesInit == Init => SharesInv
  <1> SUFFICES ASSUME Init PROVE SharesInv
    OBVIOUS
  <1> USE RotationAssumption, LimitPositive
  <1>1. StateOK /\ ServedOK
    BY DEF Init, StateOK, ServedOK
  <1>2. \A k \in Combos : Current(k) = Fresh
    BY DEF Init, Current
  <1>3. PointerOK
    BY <1>2 DEF PointerOK, Positions, Fresh
  <1>4. Rounds
    <2> SUFFICES ASSUME NEW k \in Combos, Rotates(k)
                 PROVE  \A p \in Positions(k) : served[k][p] = 0 + Share(k, p)
      BY DEF Rounds
    <2> QED
      BY <1>2 DEF Init, Share, Fresh, Positions
  <1> QED
    BY <1>1, <1>3, <1>4 DEF SharesInv

\* What an advanced rotation looks like: either the share goes on, or it is complete and the
\* pointer stands at the next position.
LEMMA Advance ==
    ASSUME SharesInv, NEW k \in Combos, Rotates(k)
    PROVE  LET s == Current(k)
               t == Advanced(k)
           IN  /\ t \in [index : Positions(k), uses : 0 .. (Limit(k) - 1), serving : Positions(k)]
               /\ t.serving = s.index
               /\ \/ t.index = s.index /\ t.uses = s.uses + 1
                  \/ /\ s.uses + 1 = Limit(k)
                     /\ t.uses = 0
                     /\ \/ t.index = s.index + 1
                        \/ t.index = 0 /\ s.index + 1 = Size[k]
  <1> DEFINE s == Current(k)
  <1>1. /\ s.index \in 0 .. (Size[k] - 1)
        /\ s.uses \in 0 .. (Limit(k) - 1)
        /\ Size[k] \in Nat \ {0}
        /\ Limit(k) \in Nat /\ Limit(k) > 0
    BY RotationAssumption, LimitPositive DEF SharesInv, PointerOK, Positions
  <1>2. /\ (s.index + 1) % Size[k] \in 0 .. (Size[k] - 1)
        /\ s.index + 1 < Size[k] => (s.index + 1) % Size[k] = s.index + 1
        /\ s.index + 1 = Size[k] => (s.index + 1) % Size[k] = 0
    BY <1>1, NextPosition
  <1>3. s.index + 1 < Size[k] \/ s.index + 1 = Size[k]
    BY <1>1
  <1>4. CASE s.uses + 1 >= Limit(k)
    <2>1. Advanced(k) = [index |-> (s.index + 1) % Size[k], uses |-> 0, serving |-> s.index]
      BY <1>4 DEF Advanced
    <2> QED
      BY <2>1, <1>1, <1>2, <1>3, <1>4 DEF Positions
  <1>5. CASE ~(s.uses + 1 >= Limit(k))
    <2>1. Advanced(k) = [index |-> s.index, uses |-> s.uses + 1, serving |-> s.index]
      BY <1>5 DEF Advanced
    <2> QED
      BY <2>1, <1>1, <1>5 DEF Positions
  <1> QED
    BY <1>4, <1>5

\* A request moves at most the rotation of its own combo.
LEMMA Moves ==
    ASSUME SharesInv, NEW c \in Convs, NEW newTurn \in BOOLEAN, NEW image,
           ApplyComboStrategy(c, newTurn, image)
    PROVE  /\ StateOK'
           /\ PointerOK'
           /\ \A k \in Combos \ {ComboOf[c]} : Current(k)' = Current(k)
           /\ Rotates(ComboOf[c]) => Current(ComboOf[c])' = Rotation(ComboOf[c], newTurn)
  <1> DEFINE k == ComboOf[c]
  <1>0. k \in Combos
    BY RotationAssumption
  <1>1. state' = [state EXCEPT ![k] = IF Rotates(k) THEN Rotation(k, newTurn) ELSE @]
    BY DEF ApplyComboStrategy
  <1>2. \A j \in Combos \ {k} : state'[j] = state[j]
    BY <1>0, <1>1 DEF SharesInv, StateOK
  <1>3. ASSUME Rotates(k)
        PROVE  Rotation(k, newTurn) \in [index : Positions(k), uses : 0 .. (Limit(k) - 1),
                                         serving : Positions(k)]
    <2>1. Advanced(k) \in [index : Positions(k), uses : 0 .. (Limit(k) - 1),
                           serving : Positions(k)]
      BY <1>0, <1>3, Advance
    <2>2. Current(k) \in [index : Positions(k), uses : 0 .. (Limit(k) - 1),
                          serving : Positions(k)]
      <3>1. Current(k) \in [index : Nat, uses : Nat, serving : Nat]
        BY <1>0 DEF SharesInv, StateOK, Current, Fresh
      <3> QED
        BY <1>0, <1>3, <3>1 DEF SharesInv, PointerOK
    <2> QED
      BY <2>1, <2>2 DEF Rotation, Continued
  <1>4. \A r : r \in [index : Positions(k), uses : 0 .. (Limit(k) - 1), serving : Positions(k)]
                 => r \in [index : Nat, uses : Nat, serving : Nat]
    <2>1. Positions(k) \subseteq Nat /\ 0 .. (Limit(k) - 1) \subseteq Nat
      BY <1>0, RotationAssumption, LimitPositive DEF Positions
    <2> QED
      BY <2>1
  <1>5. StateOK'
    BY <1>0, <1>1, <1>3, <1>4 DEF SharesInv, StateOK
  <1>6. \A r : r \in [index : Nat, uses : Nat, serving : Nat] => r # None
    BY RotationAssumption
  <1>7. Rotates(k) => Current(k)' = Rotation(k, newTurn)
    BY <1>0, <1>1, <1>3, <1>4, <1>6 DEF Current, SharesInv, StateOK
  <1>8. \A j \in Combos \ {k} : Current(j)' = Current(j)
    BY <1>2 DEF Current
  <1>9. PointerOK'
    <2> SUFFICES ASSUME NEW j \in Combos, Rotates(j)
                 PROVE  /\ Current(j)'.index \in Positions(j)
                        /\ Current(j)'.serving \in Positions(j)
                        /\ Current(j)'.uses \in 0 .. (Limit(j) - 1)
      BY DEF PointerOK, Rotates, Positions, Limit
    <2>1. CASE j = k
      BY <2>1, <1>3, <1>7
    <2>2. CASE j # k
      BY <2>2, <1>8 DEF SharesInv, PointerOK
    <2> QED
      BY <2>1, <2>2
  <1> QED
    BY <1>5, <1>7, <1>8, <1>9

\* A request that begins a turn is led by the position the pointer stood at.
LEMMA AskLeads ==
    ASSUME SharesInv, NEW k \in Combos
    PROVE  /\ Leader(k, TRUE) = (IF Rotates(k) THEN Current(k).index ELSE 0)
           /\ Leader(k, TRUE) \in Positions(k)
  <1>1. 0 \in Positions(k)
    BY RotationAssumption DEF Positions
  <1>2. Rotates(k) => Advanced(k).serving = Current(k).index
    BY Advance
  <1> QED
    BY <1>1, <1>2 DEF Leader, Rotation, SharesInv, PointerOK

\* One more turn led: the shares of the combo's round go on, or a round is complete.
LEMMA RoundsStep ==
    ASSUME SharesInv, NEW c \in Convs, NEW image, Ask(c, image)
    PROVE  Rounds'
  <1> DEFINE k == ComboOf[c]
             s == Current(k)
             t == Current(k)'
  <1>0. k \in Combos
    BY RotationAssumption
  <1>1. served' = [served EXCEPT ![k][Leader(k, TRUE)] = @ + 1]
    BY DEF Ask
  <1>2. ApplyComboStrategy(c, TRUE, image)
    BY DEF Ask
  <1>3. /\ \A j \in Combos \ {k} : Current(j)' = Current(j)
        /\ Rotates(k) => t = Advanced(k)
    BY <1>2, Moves DEF Rotation
  <1> SUFFICES ASSUME NEW j \in Combos, Rotates(j)
               PROVE  \E base \in Nat : \A p \in Positions(j) : served'[j][p] = base + Share(j, p)'
    BY DEF Rounds, Rotates, Positions
  <1>4. PICK base \in Nat : \A p \in Positions(j) : served[j][p] = base + Share(j, p)
    BY DEF SharesInv, Rounds
  <1>5. CASE j # k
    <2>1. served'[j] = served[j]
      BY <1>0, <1>1, <1>5 DEF SharesInv, ServedOK
    <2>2. \A p \in Positions(j) : Share(j, p)' = Share(j, p)
      BY <1>3, <1>5 DEF Share, Limit
    <2> QED
      BY <1>4, <2>1, <2>2
  <1>6. CASE j = k
    <2>1. Leader(k, TRUE) = s.index
      BY <1>0, <1>6, AskLeads
    <2>2. \A p \in Positions(k) : served'[k][p] = IF p = s.index THEN served[k][p] + 1 ELSE served[k][p]
      BY <1>0, <1>1, <2>1 DEF SharesInv, ServedOK
    <2>3. /\ s.index \in 0 .. (Size[k] - 1)
          /\ s.uses \in 0 .. (Limit(k) - 1)
          /\ Limit(k) \in Nat /\ Limit(k) > 0
          /\ Size[k] \in Nat \ {0}
      BY <1>0, <1>6, LimitPositive, RotationAssumption DEF SharesInv, PointerOK, Positions
    <2>4. \/ t.index = s.index /\ t.uses = s.uses + 1
          \/ /\ s.uses + 1 = Limit(k)
             /\ t.uses = 0
             /\ \/ t.index = s.index + 1
                \/ t.index = 0 /\ s.index + 1 = Size[k]
      BY <1>0, <1>3, <1>6, Advance
    <2>5. \A p \in Positions(k) :
            /\ p \in 0 .. (Size[k] - 1)
            /\ served[k][p] = base + (IF p < s.index THEN Limit(k)
                                      ELSE IF p = s.index THEN s.uses ELSE 0)
      BY <1>4, <1>6 DEF Share, Positions
    <2>6. CASE t.index = s.index /\ t.uses = s.uses + 1
      <3>1. \A p \in Positions(k) :
              served'[k][p] = base + (IF p < t.index THEN Limit(k)
                                      ELSE IF p = t.index THEN t.uses ELSE 0)
        BY <2>2, <2>3, <2>5, <2>6
      <3> QED
        BY <1>6, <3>1 DEF Share, Limit
    <2>7. CASE s.uses + 1 = Limit(k) /\ t.uses = 0 /\ t.index = s.index + 1
      <3>1. \A p \in Positions(k) :
              served'[k][p] = base + (IF p < t.index THEN Limit(k)
                                      ELSE IF p = t.index THEN t.uses ELSE 0)
        BY <2>2, <2>3, <2>5, <2>7
      <3> QED
        BY <1>6, <3>1 DEF Share, Limit
    <2>8. CASE s.uses + 1 = Limit(k) /\ t.uses = 0 /\ t.index = 0 /\ s.index + 1 = Size[k]
      <3>1. \A p \in Positions(k) :
              served'[k][p] = base + Limit(k) + (IF p < t.index THEN Limit(k)
                                                 ELSE IF p = t.index THEN t.uses ELSE 0)
        BY <2>2, <2>3, <2>5, <2>8
      <3>2. \A p \in Positions(k) : served'[k][p] = base + Limit(k) + Share(k, p)'
        BY <3>1 DEF Share, Limit
      <3>3. base + Limit(k) \in Nat
        BY <2>3
      <3> QED
        BY <1>6, <3>2, <3>3
    <2> QED
      BY <2>4, <2>6, <2>7, <2>8
  <1> QED
    BY <1>5, <1>6

\* A request that continues a turn leaves every pointer where it stands.
LEMMA ContinueKeeps ==
    ASSUME SharesInv, NEW c \in Convs, NEW image, ApplyComboStrategy(c, FALSE, image)
    PROVE  \A k \in Combos : Rotates(k) => Current(k)' = Current(k)
  BY Moves DEF Rotation, Continued

LEMMA SharesNext ==
    ASSUME SharesInv, [Next]_vars
    PROVE  SharesInv'
  <1>1. ASSUME NEW c \in Convs, NEW image \in BOOLEAN, Ask(c, image)
        PROVE  SharesInv'
    <2>1. StateOK' /\ PointerOK'
      BY <1>1, Moves DEF Ask
    <2>2. ServedOK'
      <3> DEFINE k == ComboOf[c]
      <3>1. k \in Combos /\ Leader(k, TRUE) \in Positions(k)
        BY RotationAssumption, AskLeads
      <3>2. served' = [served EXCEPT ![k][Leader(k, TRUE)] = @ + 1]
        BY <1>1 DEF Ask
      <3>3. /\ DOMAIN served' = Combos
            /\ \A j \in Combos \ {k} : served'[j] = served[j]
            /\ served'[k] = [served[k] EXCEPT ![Leader(k, TRUE)] = @ + 1]
        BY <3>1, <3>2 DEF SharesInv, ServedOK
      <3>4. served'[k] \in [Positions(k) -> Nat]
        <4>1. served[k] \in [Positions(k) -> Nat]
          BY <3>1 DEF SharesInv, ServedOK
        <4>2. PICK p \in Positions(k) : p = Leader(k, TRUE)
          BY <3>1
        <4>3. served[k][p] \in Nat
          BY <4>1
        <4>4. served'[k] = [served[k] EXCEPT ![p] = served[k][p] + 1]
          BY <3>3, <4>2
        <4> QED
          BY <4>1, <4>3, <4>4
      <3>5. \A j \in Combos \ {k} : served'[j] \in [Positions(j) -> Nat]
        BY <3>3 DEF SharesInv, ServedOK
      <3> QED
        BY <3>3, <3>4, <3>5 DEF ServedOK, Positions
    <2>3. Rounds'
      BY <1>1, RoundsStep
    <2> QED
      BY <2>1, <2>2, <2>3 DEF SharesInv
  <1>2. ASSUME NEW c \in Convs, NEW image, ApplyComboStrategy(c, FALSE, image),
               UNCHANGED served
        PROVE  SharesInv'
    <2>1. StateOK' /\ PointerOK'
      BY <1>2, Moves
    <2>2. ServedOK'
      BY <1>2 DEF SharesInv, ServedOK, Positions
    <2>3. Rounds'
      <3> SUFFICES ASSUME NEW k \in Combos, Rotates(k)
                   PROVE  \E base \in Nat :
                            \A p \in Positions(k) : served[k][p] = base + Share(k, p)'
        BY <1>2 DEF Rounds, Rotates, Positions
      <3>1. \A p \in Positions(k) : Share(k, p)' = Share(k, p)
        BY <1>2, ContinueKeeps DEF Share, Limit
      <3> QED
        BY <3>1 DEF SharesInv, Rounds
    <2> QED
      BY <2>1, <2>2, <2>3 DEF SharesInv
  <1>3. ASSUME Restart
        PROVE  SharesInv'
    <2>1. /\ state' = [k \in Combos |-> None]
          /\ served' = [k \in Combos |-> [p \in Positions(k) |-> 0]]
      BY <1>3 DEF Restart
    <2>2. StateOK' /\ ServedOK'
      BY <2>1 DEF StateOK, ServedOK, Positions
    <2>3. \A k \in Combos : Current(k)' = Fresh
      BY <2>1 DEF Current
    <2>4. PointerOK'
      <3> SUFFICES ASSUME NEW k \in Combos, Rotates(k)
                   PROVE  /\ Current(k)'.index \in Positions(k)
                          /\ Current(k)'.serving \in Positions(k)
                          /\ Current(k)'.uses \in 0 .. (Limit(k) - 1)
        BY DEF PointerOK, Rotates, Positions, Limit
      <3> QED
        BY <2>3, RotationAssumption, LimitPositive DEF Fresh, Positions
    <2>5. Rounds'
      <3> SUFFICES ASSUME NEW k \in Combos, Rotates(k)
                   PROVE  \A p \in Positions(k) : served'[k][p] = 0 + Share(k, p)'
        BY DEF Rounds, Rotates, Positions
      <3>1. \A p \in Positions(k) : p \in Nat /\ Share(k, p)' = 0
        BY <2>3, RotationAssumption DEF Share, Fresh, Positions
      <3> QED
        BY <2>1, <3>1
    <2> QED
      BY <2>2, <2>4, <2>5 DEF SharesInv
  <1>4. CASE UNCHANGED vars
    BY <1>4 DEF vars, SharesInv, StateOK, PointerOK, ServedOK, Rounds, Share, Current,
                Positions, Rotates, Limit
  <1> QED
    BY <1>1, <1>2, <1>3, <1>4 DEF Next, Show, ToolResult

\* In a round a position leads at most one share more than another.
LEMMA RoundsFair == SharesInv => FairShares
  <1> SUFFICES ASSUME SharesInv, NEW k \in Combos, Rotates(k),
                      NEW p \in Positions(k), NEW q \in Positions(k)
               PROVE  served[k][p] <= served[k][q] + Limit(k)
    BY DEF FairShares
  <1>1. PICK base \in Nat : \A r \in Positions(k) : served[k][r] = base + Share(k, r)
    BY DEF SharesInv, Rounds
  <1>2. Limit(k) \in Nat /\ Current(k).uses \in 0 .. (Limit(k) - 1)
    BY LimitPositive DEF SharesInv, PointerOK
  <1>3. \A r \in Positions(k) : Share(k, r) \in 0 .. Limit(k)
    BY <1>2, LimitPositive DEF Share
  <1> QED
    BY <1>1, <1>2, <1>3

\* No model of a rotating combo leads more turns than another by more than one share, for any
\* number of models, conversations and combos, and any limit (applyComboStrategy).
THEOREM SharesAreFair == Spec => []FairShares
  <1>1. Init => SharesInv
    BY SharesInit
  <1>2. SharesInv /\ [Next]_vars => SharesInv'
    BY SharesNext
  <1>3. SharesInv => FairShares
    BY RoundsFair
  <1> QED
    BY <1>1, <1>2, <1>3, PTL DEF Spec

-----------------------------------------------------------------------------
\* The model that serves a combo's current turn.
Serving(k) == IF Rotates(k) THEN Current(k).serving ELSE 0

\* The conversation that began the latest turn is led by it.
NewestServed ==
    \A k \in Combos : newest[k] # None =>
        ComboOf[newest[k]] = k /\ lead[newest[k]] = Serving(k)

TurnTypes ==
    /\ newest \in [Combos -> Convs \cup {None}]
    /\ DOMAIN lead = Convs
    /\ tried # None => tried.conv \in Convs

TurnInv == TurnTypes /\ NewestServed /\ LatestTurnStays

\* The request in hand is led by the model that serves the turn it began or continues.
LEMMA Decided ==
    ASSUME SharesInv, NEW c \in Convs, NEW newTurn \in BOOLEAN, NEW image,
           ApplyComboStrategy(c, newTurn, image)
    PROVE  /\ tried'.conv = c
           /\ tried'.front = Serving(ComboOf[c])'
           /\ Leader(ComboOf[c], newTurn) = Serving(ComboOf[c])'
           /\ \A k \in Combos \ {ComboOf[c]} : Serving(k)' = Serving(k)
  <1>1. ComboOf[c] \in Combos
    BY RotationAssumption
  <1>2. /\ tried'.conv = c
        /\ tried'.front = Leader(ComboOf[c], newTurn)
    BY DEF ApplyComboStrategy
  <1>3. Leader(ComboOf[c], newTurn) = Serving(ComboOf[c])'
    BY <1>1, Moves DEF Leader, Serving, Rotates
  <1>4. \A k \in Combos \ {ComboOf[c]} : Serving(k)' = Serving(k)
    BY Moves DEF Serving, Rotates
  <1> QED
    BY <1>2, <1>3, <1>4

LEMMA TurnNext ==
    ASSUME SharesInv, TurnInv, [Next]_vars
    PROVE  TurnInv'
  <1>1. ASSUME NEW c \in Convs, NEW image \in BOOLEAN, Ask(c, image)
        PROVE  TurnInv'
    <2> DEFINE k == ComboOf[c]
    <2>0. k \in Combos
      BY RotationAssumption
    <2>1. /\ lead' = [lead EXCEPT ![c] = Leader(k, TRUE)]
          /\ newest' = [newest EXCEPT ![k] = c]
      BY <1>1 DEF Ask
    <2>2. /\ tried'.conv = c
          /\ tried'.front = Serving(k)'
          /\ Leader(k, TRUE) = Serving(k)'
          /\ \A j \in Combos \ {k} : Serving(j)' = Serving(j)
      BY <1>1, Decided DEF Ask
    <2>3. TurnTypes'
      BY <2>0, <2>1, <2>2 DEF TurnInv, TurnTypes
    <2>4. NewestServed'
      <3> SUFFICES ASSUME NEW j \in Combos, newest'[j] # None
                   PROVE  ComboOf[newest'[j]] = j /\ lead'[newest'[j]] = Serving(j)'
        BY DEF NewestServed
      <3>1. CASE j = k
        BY <2>0, <2>1, <2>2, <3>1 DEF TurnInv, TurnTypes
      <3>2. CASE j # k
        <4>1. newest'[j] = newest[j] /\ newest[j] \in Convs
          BY <2>0, <2>1, <3>2 DEF TurnInv, TurnTypes
        <4>2. ComboOf[newest[j]] = j /\ lead[newest[j]] = Serving(j)
          BY <4>1 DEF TurnInv, NewestServed
        <4>3. newest[j] # c
          BY <3>2, <4>2
        <4> QED
          BY <2>1, <2>2, <3>2, <4>1, <4>2, <4>3 DEF TurnInv, TurnTypes
      <3> QED
        BY <3>1, <3>2
    <2>5. lead'[c] = Serving(k)'
      BY <2>1, <2>2 DEF TurnInv, TurnTypes
    <2>6. LatestTurnStays'
      BY <2>2, <2>5 DEF LatestTurnStays
    <2> QED
      BY <2>3, <2>4, <2>6 DEF TurnInv
  <1>2. ASSUME NEW c \in Convs, NEW image, ApplyComboStrategy(c, FALSE, image),
               UNCHANGED <<lead, newest>>
        PROVE  TurnInv'
    <2> DEFINE k == ComboOf[c]
    <2>1. /\ tried'.conv = c
          /\ tried'.front = Serving(k)'
          /\ \A j \in Combos \ {k} : Serving(j)' = Serving(j)
      BY <1>2, Decided
    <2>2. Serving(k)' = Serving(k)
      BY <1>2, ContinueKeeps, RotationAssumption DEF Serving, Rotates
    <2>3. TurnTypes'
      BY <1>2, <2>1 DEF TurnInv, TurnTypes
    <2>4. NewestServed'
      BY <1>2, <2>1, <2>2 DEF TurnInv, NewestServed
    <2>5. LatestTurnStays'
      <3> SUFFICES ASSUME newest[k] = c
                   PROVE  tried'.front = lead[c]
        BY <1>2, <2>1 DEF LatestTurnStays
      <3>1. lead[c] = Serving(k)
        BY RotationAssumption DEF TurnInv, NewestServed
      <3> QED
        BY <2>1, <2>2, <3>1
    <2> QED
      BY <2>3, <2>4, <2>5 DEF TurnInv
  <1>3. ASSUME Restart
        PROVE  TurnInv'
    <2>1. /\ newest' = [k \in Combos |-> None]
          /\ UNCHANGED <<lead, tried>>
      BY <1>3 DEF Restart
    <2>2. tried # None => ComboOf[tried.conv] \in Combos /\ tried.conv # None
      BY RotationAssumption DEF TurnInv, TurnTypes
    <2> QED
      BY <2>1, <2>2 DEF TurnInv, TurnTypes, NewestServed, LatestTurnStays
  <1>4. CASE UNCHANGED vars
    BY <1>4 DEF vars, TurnInv, TurnTypes, NewestServed, LatestTurnStays, Serving, Current,
                Rotates
  <1> QED
    BY <1>1, <1>2, <1>3, <1>4 DEF Next, Show, ToolResult

\* The conversation that began a combo's latest turn keeps its model for the whole turn, for
\* any number of conversations and models (applyComboStrategy).
THEOREM LatestTurnIsKept == Spec => []LatestTurnStays
  <1>1. Init => SharesInv /\ TurnInv
    <2>1. Init => SharesInv
      BY SharesInit
    <2>2. Init => TurnInv
      BY DEF Init, TurnInv, TurnTypes, NewestServed, LatestTurnStays
    <2> QED
      BY <2>1, <2>2
  <1>2. SharesInv /\ TurnInv /\ [Next]_vars => (SharesInv /\ TurnInv)'
    BY SharesNext, TurnNext
  <1>3. TurnInv => LatestTurnStays
    BY DEF TurnInv
  <1> QED
    BY <1>1, <1>2, <1>3, PTL DEF Spec

-----------------------------------------------------------------------------
(* The events in the bytes of a stream *)

(* Events in a stream of bytes *)

\* Where the events of a stream of these lengths end.
EndsAre(f, l) == f = [i \in 0 .. Len(l) |-> IF i = 0 THEN 0 ELSE f[i - 1] + l[i]]

\* The ends are in the order of the events, an event apart.
LEMMA EndSteps ==
    ASSUME NEW l \in Seq(Nat \ 0 .. 2), NEW f, EndsAre(f, l)
    PROVE  /\ f[0] = 0 /\ \A i \in 0 .. Len(l) : f[i] \in Nat
           /\ \A i, j \in 0 .. Len(l) : i < j => f[i] + 3 <= f[j]
  <1>1. /\ Len(l) \in Nat /\ f[0] = 0
        /\ \A i \in 1 .. Len(l) : f[i] = f[i - 1] + l[i] /\ l[i] \in Nat /\ l[i] >= 3
    <2>1. Len(l) \in Nat /\ 0 \in 0 .. Len(l) /\ \A i \in 1 .. Len(l) : l[i] \in Nat \ 0 .. 2
      OBVIOUS
    <2>2. f[0] = 0
      BY <2>1 DEF EndsAre
    <2>3. ASSUME NEW i \in 1 .. Len(l)
          PROVE  f[i] = f[i - 1] + l[i]
      <3>1. i \in 0 .. Len(l) /\ i # 0
        OBVIOUS
      <3> QED
        BY <3>1 DEF EndsAre
    <2>4. \A i \in 1 .. Len(l) : l[i] \in Nat /\ l[i] >= 3
      BY <2>1
    <2> QED
      BY <2>1, <2>2, <2>3, <2>4
  <1> DEFINE Good == {n \in Nat : n <= Len(l) =>
                         /\ f[n] \in Nat
                         /\ \A i \in 0 .. n - 1 : f[i] \in Nat /\ f[i] + 3 <= f[n]}
  <1>2. 0 \in Good
    BY <1>1
  <1>3. ASSUME NEW n \in Good \cap Nat
        PROVE  n + 1 \in Good
    <2>1. SUFFICES ASSUME n + 1 <= Len(l)
                   PROVE  /\ f[n + 1] \in Nat
                          /\ \A i \in 0 .. n : f[i] \in Nat /\ f[i] + 3 <= f[n + 1]
      OBVIOUS
    <2>2. /\ n + 1 \in 1 .. Len(l) /\ (n + 1) - 1 = n /\ f[n] \in Nat
          /\ \A i \in 0 .. n - 1 : f[i] \in Nat /\ f[i] + 3 <= f[n]
      BY <1>1, <2>1
    <2>3. f[n + 1] = f[n] + l[n + 1] /\ l[n + 1] \in Nat /\ l[n + 1] >= 3
      BY <1>1, <2>2
    <2>4. \A i \in 0 .. n : i = n \/ i \in 0 .. n - 1
      OBVIOUS
    <2> QED
      BY <2>2, <2>3, <2>4
  <1>4. Nat \subseteq Good
    <2> HIDE DEF Good
    <2> QED
      BY <1>2, <1>3, Induction
  <1>5. \A n \in 0 .. Len(l) : n \in Good
    BY <1>1, <1>4
  <1>6. \A i, j \in 0 .. Len(l) : i < j => i \in 0 .. j - 1
    BY <1>1
  <1> QED
    BY <1>1, <1>5, <1>6

\* There is a function of the ends.
LEMMA EndsExist ==
    ASSUME NEW l \in Seq(Nat \ 0 .. 2)
    PROVE  \E f : EndsAre(f, l)
  <1> DEFINE N == Len(l)
             step == [i \in 1 .. N |-> [v \in Nat |-> v + l[i]]]
  <1>1. N \in Nat /\ 0 \in Nat /\ \A i \in 1 .. N : l[i] \in Nat
    OBVIOUS
  <1>2. step \in [1 .. N -> [Nat -> Nat]]
    BY <1>1
  <1>3. PICK g : Recurs(g, 0, step, Nat, N)
    <2> HIDE DEF N, step
    <2> QED
      BY <1>1, <1>2, Recursion
  <1>4. \A i \in 1 .. N : g[i] = g[i - 1] + l[i]
    <2> SUFFICES ASSUME NEW i \in 1 .. N
                 PROVE  g[i] = g[i - 1] + l[i]
      OBVIOUS
    <2>1. g[i - 1] \in Nat
      <3>1. i - 1 \in 0 .. N
        BY <1>1
      <3> HIDE DEF step, N
      <3> QED
        BY <1>3, <3>1 DEF Recurs
    <2>2. g[i] = step[i][g[i - 1]]
      <3> HIDE DEF step, N
      <3> QED
        BY <1>3 DEF Recurs
    <2> QED
      BY <2>1, <2>2
  <1>5. g = [i \in 0 .. N |-> g[i]] /\ g[0] = 0
    BY <1>3 DEF Recurs
  <1>6. \A i \in 0 .. N : i # 0 => i \in 1 .. N
    BY <1>1
  <1>7. EndsAre(g, l)
    BY <1>4, <1>5, <1>6 DEF EndsAre
  <1> QED
    BY <1>7

\* What is known of it.
LEMMA EndFacts ==
    ASSUME layout \in Seq(Nat \ 0 .. 2)
    PROVE  /\ FR!End(0) = 0 /\ \A i \in 0 .. Len(layout) : FR!End(i) \in Nat
           /\ \A i, j \in 0 .. Len(layout) : i < j => FR!End(i) + 3 <= FR!End(j)
  <1> DEFINE f == CHOOSE g : EndsAre(g, layout)
  <1>1. \A k : FR!End(k) = f[k]
    BY Zenon DEF FR!End, EndsAre
  <1>2. EndsAre(f, layout)
    BY EndsExist, Zenon
  <1> HIDE DEF f
  <1> QED
    BY <1>1, <1>2, EndSteps

-----------------------------------------------------------------------------
\* The numbers of the events, in order.
Row(s, n) == s \in Seq(Nat) /\ Len(s) = n /\ \A i \in 1 .. n : s[i] = i

\* What is kept of a row, number by number.
Picks(g, n, S) ==
    /\ g \in [0 .. n -> Seq(Nat)] /\ g[0] = <<>>
    /\ \A i \in 1 .. n : g[i] = IF i \in S THEN Append(g[i - 1], i) ELSE g[i - 1]

\* What Kept makes of a row.
LEMMA RowSteps ==
    ASSUME NEW n \in Nat, NEW s, Row(s, n), NEW S
    PROVE  \E g : Picks(g, n, S) /\ Kept(s, S) = g[n]
  <1>1. s \in Seq(Nat) /\ Len(s) = n /\ \A i \in 1 .. n : s[i] = i
    BY DEF Row
  <1>2. PICK g : Keeping(g, Nat, s, S) /\ Kept(s, S) = g[Len(s)]
    BY <1>1, KeptSteps
  <1>3. Picks(g, n, S)
    BY <1>1, <1>2 DEF Keeping, Picks
  <1> QED
    BY <1>1, <1>2, <1>3

\* Events put together from two lots, the one before the other.
Before(S, T) == \A i \in S, j \in T : i < j

\* What is kept of a row of two lots is the one and then the other.
LEMMA KeptTwo ==
    ASSUME NEW n \in Nat, NEW s, Row(s, n),
           NEW S \in SUBSET (1 .. n), NEW T \in SUBSET (1 .. n), Before(S, T)
    PROVE  Kept(s, S) \o Kept(s, T) = Kept(s, S \cup T)
  <1>2. PICK g : Picks(g, n, S) /\ Kept(s, S) = g[n]
    BY RowSteps
  <1>3. PICK h : Picks(h, n, T) /\ Kept(s, T) = h[n]
    BY RowSteps
  <1>4. PICK u : Picks(u, n, S \cup T) /\ Kept(s, S \cup T) = u[n]
    BY RowSteps
  <1> DEFINE Joins(m) == u[m] = g[m] \o h[m] /\ ((\A j \in T : j > m) => h[m] = <<>>)
             Good == {m \in Nat : m <= n => Joins(m)}
  <1>5. Joins(0)
    <2>1. <<>> \o <<>> = <<>>
      OBVIOUS
    <2> QED
      BY <1>2, <1>3, <1>4, <2>1 DEF Picks
  <1>6. ASSUME NEW m \in Good \cap Nat
        PROVE  m + 1 \in Good
    <2>1. SUFFICES ASSUME m + 1 <= n
                   PROVE  Joins(m + 1)
      <3> HIDE DEF Joins
      <3> QED
        OBVIOUS
    <2>2. m + 1 \in 1 .. n /\ (m + 1) - 1 = m /\ m \in 0 .. n
      BY <2>1
    <2>3. /\ g[m + 1] = IF m + 1 \in S THEN Append(g[m], m + 1) ELSE g[m]
          /\ h[m + 1] = IF m + 1 \in T THEN Append(h[m], m + 1) ELSE h[m]
          /\ u[m + 1] = IF m + 1 \in S \cup T THEN Append(u[m], m + 1) ELSE u[m]
      BY <1>2, <1>3, <1>4, <2>2 DEF Picks
    <2>4. g[m] \in Seq(Nat) /\ h[m] \in Seq(Nat)
      BY <1>2, <1>3, <2>2 DEF Picks
    <2>5. Joins(m)
      <3> HIDE DEF Joins
      <3> QED
        BY <2>1
    <2>6. CASE m + 1 \in S
      <3>1. \A j \in T : j > m + 1 /\ j > m
        <4>1. \A j \in T : m + 1 < j
          BY <2>6 DEF Before
        <4>2. \A j \in T : j \in Nat
          OBVIOUS
        <4> QED
          BY <4>1, <4>2
      <3>2. h[m] = <<>> /\ m + 1 \notin T
        BY <2>5, <3>1
      <3>3. h[m + 1] = <<>> /\ g[m + 1] = Append(g[m], m + 1) /\ u[m + 1] = Append(g[m] \o <<>>, m + 1)
        BY <2>3, <2>5, <2>6, <3>2
      <3>4. g[m] \o <<>> = g[m] /\ Append(g[m], m + 1) \o <<>> = Append(g[m], m + 1)
        BY <2>4
      <3> QED
        BY <3>3, <3>4
    <2>7. CASE m + 1 \in T /\ m + 1 \notin S
      <3>1. h[m + 1] = Append(h[m], m + 1) /\ g[m + 1] = g[m] /\ u[m + 1] = Append(g[m] \o h[m], m + 1)
        BY <2>3, <2>5, <2>7
      <3>2. Append(g[m] \o h[m], m + 1) = g[m] \o Append(h[m], m + 1)
        <4> DEFINE a == g[m]
                   b == h[m]
        <4>1. a \in Seq(Nat) /\ b \in Seq(Nat) /\ m + 1 \in Nat
          BY <2>4
        <4> HIDE DEF a, b
        <4>2. a \o b \in Seq(Nat) /\ <<m + 1>> \in Seq(Nat)
          BY <4>1
        <4>3. Append(a \o b, m + 1) = (a \o b) \o <<m + 1>> /\ Append(b, m + 1) = b \o <<m + 1>>
          BY <4>1, <4>2, AppendIsConcat
        <4>4. (a \o b) \o <<m + 1>> = a \o (b \o <<m + 1>>)
          BY <4>1, <4>2, ConcatAssociative
        <4>5. Append(a \o b, m + 1) = a \o Append(b, m + 1)
          BY <4>3, <4>4
        <4> QED
          BY <4>5 DEF a, b
      <3>3. ~ (\A j \in T : j > m + 1)
        BY <2>7
      <3> QED
        BY <3>1, <3>2, <3>3
    <2>8. CASE m + 1 \notin S \cup T
      <3>1. \A j \in T : j > m + 1 => j > m
        OBVIOUS
      <3> QED
        BY <2>3, <2>5, <2>8, <3>1
    <2> QED
      BY <2>6, <2>7, <2>8
  <1>7. n \in Good
    <2>1. 0 \in Good
      <3> HIDE DEF Joins
      <3> QED
        BY <1>5
    <2> HIDE DEF Good
    <2> QED
      BY <1>6, <2>1, Induction
  <1>8. Joins(n)
    <2> HIDE DEF Joins
    <2> QED
      BY <1>7
  <1> QED
    BY <1>2, <1>3, <1>4, <1>8

\* One event alone, and none.
LEMMA KeptOne ==
    ASSUME NEW n \in Nat, NEW s, Row(s, n), NEW e \in 1 .. n
    PROVE  Kept(s, {e}) = <<e>>
  <1>1. PICK g : Picks(g, n, {e}) /\ Kept(s, {e}) = g[n]
    BY RowSteps
  <1> DEFINE Good == {m \in Nat : m <= n => g[m] = IF m < e THEN <<>> ELSE <<e>>}
  <1>2. 0 \in Good
    BY <1>1 DEF Picks
  <1>3. ASSUME NEW m \in Good \cap Nat
        PROVE  m + 1 \in Good
    <2>1. SUFFICES ASSUME m + 1 <= n
                   PROVE  g[m + 1] = IF m + 1 < e THEN <<>> ELSE <<e>>
      OBVIOUS
    <2>2. m + 1 \in 1 .. n /\ (m + 1) - 1 = m
      BY <2>1
    <2>3. g[m + 1] = IF m + 1 = e THEN Append(g[m], m + 1) ELSE g[m]
      BY <1>1, <2>2 DEF Picks
    <2>4. g[m] = IF m < e THEN <<>> ELSE <<e>>
      BY <2>2
    <2>5. Append(<<>>, e) = <<e>>
      OBVIOUS
    <2>6. CASE m + 1 = e
      BY <2>3, <2>4, <2>5, <2>6
    <2>7. CASE m + 1 # e
      BY <2>3, <2>4, <2>7
    <2> QED
      BY <2>6, <2>7
  <1>4. n \in Good
    <2> HIDE DEF Good
    <2> QED
      BY <1>2, <1>3, Induction
  <1> QED
    BY <1>1, <1>4

\* Of no events nothing is kept.
LEMMA KeptNobody ==
    ASSUME NEW n \in Nat, NEW s, Row(s, n)
    PROVE  Kept(s, {}) = <<>>
  <1>1. PICK g : Picks(g, n, {}) /\ Kept(s, {}) = g[n]
    BY RowSteps
  <1> DEFINE Good == {m \in Nat : m <= n => g[m] = <<>>}
  <1>2. 0 \in Good
    BY <1>1 DEF Picks
  <1>3. ASSUME NEW m \in Good \cap Nat
        PROVE  m + 1 \in Good
    BY <1>1 DEF Picks
  <1>4. n \in Good
    <2> HIDE DEF Good
    <2> QED
      BY <1>2, <1>3, Induction
  <1> QED
    BY <1>1, <1>4

\* A read ended inside event k; event k has come, by the reader.
Cut(k)  == \E c \in cuts : FR!End(k - 1) < c /\ c < FR!End(k) - 1
Came(k) ==
    IF reader = "codex" THEN FR!End(k) - 1 <= pos /\ ~Cut(k)
    ELSE IF reader = "scan" /\ frResult = "ok" THEN FR!End(k) - 2 <= pos
    ELSE FR!End(k) <= pos

\* The events that have come.
Arrived == {k \in DOMAIN layout : Came(k)}

\* The bytes still held begin where an event does, and no event that is complete is among them.
HeldOK ==
    \E j \in 0 .. Len(layout) :
        /\ held = FR!End(j)
        /\ \A k \in 0 .. Len(layout) : FR!End(k) <= pos => k <= j

\* What has been handed on is what has come.
FramingInv ==
    /\ layout \in Layouts /\ reader \in FR!Readers /\ frResult \in {"reading", "ok", "error"}
    /\ length \in 0 .. FR!End(Len(layout)) /\ pos \in 0 .. length /\ held \in 0 .. pos
    /\ cuts \subseteq 1 .. pos /\ (pos = 0 \/ pos \in cuts)
    /\ reader # "codex" /\ frResult = "reading" => HeldOK
    /\ frResult # "reading" => pos = length
    /\ handed = FR!InOrder(Arrived)

\* The numbers of the events are a row.
LEMMA LayoutRow ==
    ASSUME layout \in Layouts
    PROVE  /\ layout \in Seq(Nat \ 0 .. 2) /\ Len(layout) \in Nat /\ DOMAIN layout = 1 .. Len(layout)
           /\ Row([k \in DOMAIN layout |-> k], Len(layout))
           /\ \A S : FR!InOrder(S) = Kept([k \in DOMAIN layout |-> k], S)
  <1>1. layout \in Seq(Nat \ 0 .. 2)
    BY FramingAssumption
  <1>2. Len(layout) \in Nat /\ DOMAIN layout = 1 .. Len(layout)
    BY <1>1
  <1>3. Row([k \in DOMAIN layout |-> k], Len(layout))
    <2> DEFINE n == Len(layout)
    <2>1. n \in Nat /\ DOMAIN layout = 1 .. n
      BY <1>2
    <2> HIDE DEF n
    <2>2. [k \in 1 .. n |-> k] \in Seq(Nat) /\ Len([k \in 1 .. n |-> k]) = n
          /\ \A i \in 1 .. n : [k \in 1 .. n |-> k][i] = i
      BY <2>1
    <2> QED
      BY <2>1, <2>2 DEF Row, n
  <1>4. \A S : FR!InOrder(S) = Kept([k \in DOMAIN layout |-> k], S)
    BY Zenon DEF FR!InOrder, FR!Kept, Kept
  <1> QED
    BY <1>1, <1>2, <1>3, <1>4

\* Two lots of events are handed on one after the other.
LEMMA InOrderTwo ==
    ASSUME layout \in Layouts, NEW S \in SUBSET DOMAIN layout, NEW T \in SUBSET DOMAIN layout,
           Before(S, T)
    PROVE  FR!InOrder(S) \o FR!InOrder(T) = FR!InOrder(S \cup T)
  <1> DEFINE s == [k \in DOMAIN layout |-> k]
  <1>1. Row(s, Len(layout)) /\ Len(layout) \in Nat /\ DOMAIN layout = 1 .. Len(layout)
    BY LayoutRow
  <1> HIDE DEF s
  <1>2. Kept(s, S) \o Kept(s, T) = Kept(s, S \cup T)
    <2>1. S \in SUBSET (1 .. Len(layout)) /\ T \in SUBSET (1 .. Len(layout))
      BY <1>1
    <2> QED
      BY <1>1, <2>1, KeptTwo
  <1> QED
    BY <1>2, LayoutRow DEF s

\* One event, or none, in order.
LEMMA InOrderOne ==
    ASSUME layout \in Layouts
    PROVE  /\ FR!InOrder({}) = <<>>
           /\ \A e \in DOMAIN layout : FR!InOrder({e}) = <<e>>
           /\ \A S : FR!InOrder(S) \in Seq(Nat)
  <1> DEFINE s == [k \in DOMAIN layout |-> k]
  <1>1. Row(s, Len(layout)) /\ Len(layout) \in Nat /\ DOMAIN layout = 1 .. Len(layout)
    BY LayoutRow
  <1> HIDE DEF s
  <1>2. Kept(s, {}) = <<>>
    BY <1>1, KeptNobody
  <1>3. \A e \in 1 .. Len(layout) : Kept(s, {e}) = <<e>>
    BY <1>1, KeptOne
  <1>4. ASSUME NEW S
        PROVE  Kept(s, S) \in Seq(Nat)
    <2>1. PICK g : Picks(g, Len(layout), S) /\ Kept(s, S) = g[Len(layout)]
      BY <1>1, RowSteps
    <2>2. Len(layout) \in 0 .. Len(layout)
      BY <1>1
    <2> QED
      BY <2>1, <2>2 DEF Picks
  <1> QED
    BY <1>1, <1>2, <1>3, <1>4, LayoutRow DEF s

-----------------------------------------------------------------------------
\* A step changes no length, so the events end where they did.
LEMMA SameEnds ==
    ASSUME layout' = layout
    PROVE  /\ \A k : FR!End(k)' = FR!End(k)
           /\ \A S : S = Arrived' => FR!InOrder(Arrived)' = FR!InOrder(S)
  <1>1. \A k : FR!End(k)' = FR!End(k)
    BY Zenon DEF FR!End
  <1>2. ASSUME NEW S, S = Arrived'
        PROVE  FR!InOrder(Arrived)' = FR!InOrder(S)
    <2>1. FR!InOrder(S) = Kept([k \in DOMAIN layout |-> k], S)
      BY Zenon DEF FR!InOrder, FR!Kept, Kept
    <2>2. FR!InOrder(Arrived)' = Kept([k \in DOMAIN layout' |-> k], Arrived')
      BY Zenon DEF FR!InOrder, FR!Kept, Kept
    <2>3. [k \in DOMAIN layout' |-> k] = [k \in DOMAIN layout |-> k]
      OBVIOUS
    <2> QED
      BY <1>2, <2>1, <2>2, <2>3
  <1> QED
    BY <1>1, <1>2

\* What is known of the ends of a layout.
LEMMA Ends ==
    ASSUME layout \in Layouts
    PROVE  /\ FR!End(0) = 0 /\ \A i \in 0 .. Len(layout) : FR!End(i) \in Nat
           /\ \A i, j \in 0 .. Len(layout) : i < j => FR!End(i) + 3 <= FR!End(j)
  BY LayoutRow, EndFacts

\* What is drained of the held bytes: all events that are complete.
LEMMA DrainedOK ==
    ASSUME FramingInv, HeldOK, NEW to \in pos .. length
    PROVE  /\ \E j \in 0 .. Len(layout) :
                 /\ FR!Drained(held, to) = FR!End(j)
                 /\ FR!End(j) <= to
                 /\ \A k \in 0 .. Len(layout) : FR!End(k) <= to => k <= j
  <1> DEFINE N == Len(layout)
             K == {k \in DOMAIN layout : held <= FR!End(k - 1) /\ FR!End(k) <= to}
             ends == {FR!End(k) : k \in K}
  <1>1. /\ layout \in Layouts /\ N \in Nat /\ DOMAIN layout = 1 .. N
        /\ pos \in Nat /\ to \in Nat /\ pos <= to /\ held \in Nat /\ held <= pos
    <2>1. layout \in Layouts /\ N \in Nat /\ DOMAIN layout = 1 .. N
      BY LayoutRow DEF FramingInv
    <2>2. FR!End(N) \in Nat
      BY <2>1, Ends
    <2> QED
      BY <2>1, <2>2 DEF FramingInv
  <1>2. /\ FR!End(0) = 0 /\ \A i \in 0 .. N : FR!End(i) \in Nat
        /\ \A i, j \in 0 .. N : i < j => FR!End(i) + 3 <= FR!End(j)
    BY <1>1, Ends
  <1>3. PICK m \in 0 .. N : held = FR!End(m) /\ \A k \in 0 .. N : FR!End(k) <= pos => k <= m
    BY DEF HeldOK
  <1>4. FR!Drained(held, to) = IF ends = {} THEN held ELSE CHOOSE e \in ends : \A f \in ends : f <= e
    BY DEF FR!Drained
  <1> HIDE DEF N
  <1>5. ASSUME NEW k \in 0 .. N, FR!End(k) <= to, k > m
        PROVE  k \in K
    <2>1. k \in 1 .. N /\ k - 1 \in 0 .. N /\ (m < k - 1 \/ m = k - 1)
      BY <1>1, <1>5
    <2>2. FR!End(m) <= FR!End(k - 1)
      BY <1>2, <2>1
    <2> QED
      BY <1>1, <1>3, <1>5, <2>1, <2>2
  <1>6. CASE K = {}
    <2>1. \A k \in 0 .. N : FR!End(k) <= to => k <= m
      BY <1>1, <1>5, <1>6
    <2>2. FR!Drained(held, to) = held
      BY <1>4, <1>6
    <2> QED
      BY <1>1, <1>3, <2>1, <2>2 DEF N
  <1>7. CASE K # {}
    <2> DEFINE R == {N - k : k \in K}
    <2>1. R \in SUBSET Nat /\ R # {}
      BY <1>1, <1>7
    <2>2. PICK r \in R : \A q \in R : r <= q
      BY <2>1, FirstExists
    <2>3. PICK j \in K : r = N - j
      BY <2>2
    <2>4. j \in 1 .. N /\ \A k \in K : k \in 1 .. N /\ k <= j
      <3>1. \A k \in K : k \in 1 .. N /\ N - k \in R
        BY <1>1
      <3> HIDE DEF K, R
      <3> QED
        BY <1>1, <2>2, <2>3, <3>1
    <2>5. \A k \in K : FR!End(k) \in Nat /\ FR!End(k) <= FR!End(j)
      BY <1>2, <2>4
    <2>6. FR!End(j) \in ends /\ \A f \in ends : f <= FR!End(j) /\ f \in Nat
      BY <2>3, <2>5
    <2>7. (CHOOSE e \in ends : \A f \in ends : f <= e) = FR!End(j)
      <3> HIDE DEF ends
      <3> DEFINE e == CHOOSE d \in ends : \A f \in ends : f <= d
      <3>1. e \in ends /\ \A f \in ends : f <= e
        BY <2>6
      <3>2. e \in Nat /\ e <= FR!End(j) /\ FR!End(j) <= e /\ FR!End(j) \in Nat
        BY <2>6, <3>1
      <3> HIDE DEF e
      <3>3. e = FR!End(j)
        BY <3>2
      <3> QED
        BY <3>3 DEF e
    <2>8. FR!Drained(held, to) = FR!End(j)
      BY <1>4, <2>6, <2>7
    <2>9. ASSUME NEW k \in 0 .. N, FR!End(k) <= to
          PROVE  k <= j
      <3>1. CASE k > m
        BY <1>5, <2>4, <2>9, <3>1
      <3>2. CASE k <= m
        <4>1. held <= FR!End(j - 1)
          BY <2>3
        <4>2. ~ (j - 1 < m)
          BY <1>1, <1>2, <1>3, <2>4, <4>1
        <4> QED
          BY <1>1, <2>4, <3>2, <4>2
      <3> QED
        BY <1>1, <3>1, <3>2
    <2>10. FR!End(j) <= to /\ j \in 0 .. N
      BY <2>3, <2>4
    <2> QED
      BY <2>8, <2>9, <2>10 DEF N
  <1> QED
    BY <1>6, <1>7

\* A reader of frames or events hands on those that a read has completed.
LEMMA FramesKeeps ==
    ASSUME FramingInv, FR!Frames
    PROVE  FramingInv'
  <1>1. PICK n \in 1 .. MaxRead :
            /\ reader # "codex" /\ frResult = "reading" /\ pos < length /\ pos + n <= length
            /\ pos' = pos + n /\ cuts' = cuts \cup {pos + n}
            /\ handed' = handed \o FR!Whole(held, pos + n)
            /\ held' = FR!Drained(held, pos + n)
            /\ UNCHANGED <<reader, layout, length, frResult>>
    BY DEF FR!Frames
  <1> DEFINE N == Len(layout)
             to == pos + n
             S == {k \in 1 .. N : FR!End(k) <= pos}
             T == {k \in 1 .. N : held <= FR!End(k - 1) /\ FR!End(k) <= to}
  <1>2. /\ layout \in Layouts /\ N \in Nat /\ DOMAIN layout = 1 .. N
        /\ FR!End(0) = 0 /\ \A i \in 0 .. N : FR!End(i) \in Nat
        /\ \A i, j \in 0 .. N : i < j => FR!End(i) + 3 <= FR!End(j)
    BY LayoutRow, Ends DEF FramingInv
  <1>3. N \in 0 .. N /\ FR!End(N) \in Nat /\ n \in Nat
    BY <1>2, FramingAssumption
  <1>4. /\ length \in Nat /\ pos \in Nat /\ held \in Nat /\ to \in pos .. length /\ to \in Nat
        /\ held <= pos /\ length <= FR!End(N) /\ HeldOK /\ cuts \subseteq 1 .. pos
    BY <1>1, <1>3 DEF FramingInv
  <1>5. PICK m \in 0 .. N : held = FR!End(m) /\ \A k \in 0 .. N : FR!End(k) <= pos => k <= m
    BY <1>4 DEF HeldOK
  <1>6. PICK d \in 0 .. N : /\ FR!Drained(held, to) = FR!End(d) /\ FR!End(d) <= to
                            /\ \A k \in 0 .. N : FR!End(k) <= to => k <= d
    BY <1>4, DrainedOK
  <1>7. Arrived = S
    BY <1>1, <1>2 DEF Arrived, Came
  <1>8. FR!Whole(held, to) = FR!InOrder(T)
    BY <1>2 DEF FR!Whole
  <1> HIDE DEF N, to
  <1>9. \A k \in S : k \in 0 .. N /\ k <= m
    BY <1>2, <1>5
  <1>10. ASSUME NEW k \in T
         PROVE  m < k
    <2>1. k \in 0 .. N /\ k - 1 \in 0 .. N /\ held <= FR!End(k - 1)
      BY <1>2
    <2>2. ~ (k - 1 < m)
      BY <1>2, <1>5, <2>1
    <2> QED
      BY <1>2, <2>1, <2>2
  <1>11. Before(S, T)
    BY <1>2, <1>9, <1>10 DEF Before
  <1>12. S \cup T = {k \in 1 .. N : FR!End(k) <= to}
    <2>1. ASSUME NEW k \in 1 .. N, FR!End(k) <= to, ~ (FR!End(k) <= pos)
          PROVE  held <= FR!End(k - 1)
      <3>1. k \in 0 .. N /\ k - 1 \in 0 .. N /\ FR!End(k) \in Nat /\ FR!End(m) < FR!End(k)
        BY <1>2, <1>4, <1>5, <2>1
      <3>2. ~ (k < m) /\ k # m
        BY <1>2, <1>5, <3>1
      <3>3. m < k - 1 \/ m = k - 1
        BY <1>2, <3>1, <3>2
      <3> QED
        BY <1>2, <1>5, <3>1, <3>3
    <2>2. \A k \in 1 .. N : FR!End(k) \in Nat /\ (FR!End(k) <= pos => FR!End(k) <= to)
      BY <1>2, <1>4
    <2> HIDE DEF S, T
    <2>3. \A k : k \in S <=> k \in 1 .. N /\ FR!End(k) <= pos
      BY DEF S
    <2>4. \A k : k \in T <=> k \in 1 .. N /\ held <= FR!End(k - 1) /\ FR!End(k) <= to
      BY DEF T
    <2> QED
      BY <2>1, <2>2, <2>3, <2>4
  <1>13. Arrived' = S \cup T
    <2>1. Arrived' = {k \in 1 .. N : FR!End(k)' <= pos'}
      BY <1>1, <1>2 DEF Arrived, Came, N
    <2> QED
      BY <1>1, <1>12, <2>1, SameEnds DEF to
  <1>14. handed' = FR!InOrder(Arrived)'
    <2>1. handed' = FR!InOrder(S) \o FR!InOrder(T)
      BY <1>1, <1>7, <1>8 DEF FramingInv, to
    <2>2. S \in SUBSET DOMAIN layout /\ T \in SUBSET DOMAIN layout
      BY <1>2
    <2>3. handed' = FR!InOrder(S \cup T)
      BY <1>2, <1>11, <2>1, <2>2, InOrderTwo
    <2> DEFINE U == S \cup T
    <2>4. U = Arrived'
      BY <1>13
    <2> HIDE DEF U
    <2>5. FR!InOrder(Arrived)' = FR!InOrder(U)
      BY <1>1, <2>4, SameEnds
    <2> QED
      BY <2>3, <2>5 DEF U
  <1>15. HeldOK'
    <2>1. held' = FR!End(d)' /\ \A k \in 0 .. N : FR!End(k)' <= pos' => k <= d
      BY <1>1, <1>6, SameEnds DEF to
    <2> QED
      BY <1>1, <2>1 DEF HeldOK, N
  <1>16. /\ layout' \in Layouts /\ reader' \in FR!Readers /\ frResult' = "reading"
         /\ length' \in 0 .. FR!End(Len(layout))' /\ pos' \in 0 .. length'
         /\ cuts' \subseteq 1 .. pos' /\ pos' \in cuts'
    <2>1. FR!End(Len(layout))' = FR!End(N)
      BY <1>1, SameEnds DEF N
    <2>2. length' \in 0 .. FR!End(Len(layout))' /\ pos' \in 0 .. length'
      BY <1>1, <1>3, <1>4, <2>1 DEF to
    <2>3. cuts' \subseteq 1 .. pos'
      BY <1>1, <1>3, <1>4 DEF to
    <2> QED
      BY <1>1, <2>2, <2>3 DEF FramingInv
  <1>17. held' \in 0 .. pos'
    BY <1>1, <1>2, <1>4, <1>6 DEF to
  <1> QED
    BY <1>14, <1>15, <1>16, <1>17 DEF FramingInv

\* What a step knows of the layout.
LEMMA Layout ==
    ASSUME FramingInv
    PROVE  /\ layout \in Layouts /\ Len(layout) \in Nat /\ DOMAIN layout = 1 .. Len(layout)
           /\ FR!End(0) = 0 /\ \A i \in 0 .. Len(layout) : FR!End(i) \in Nat
           /\ \A i, j \in 0 .. Len(layout) : i < j => FR!End(i) + 3 <= FR!End(j)
           /\ length \in Nat /\ pos \in Nat /\ held \in Nat /\ pos <= length /\ held <= pos
           /\ length <= FR!End(Len(layout))
  <1>1. /\ layout \in Layouts /\ Len(layout) \in Nat /\ DOMAIN layout = 1 .. Len(layout)
        /\ FR!End(0) = 0 /\ \A i \in 0 .. Len(layout) : FR!End(i) \in Nat
        /\ \A i, j \in 0 .. Len(layout) : i < j => FR!End(i) + 3 <= FR!End(j)
    BY LayoutRow, Ends DEF FramingInv
  <1>2. FR!End(Len(layout)) \in Nat
    BY <1>1
  <1> QED
    BY <1>1, <1>2 DEF FramingInv

\* A codex line is handed on when one read has all of it.
LEMMA LinesKeeps ==
    ASSUME FramingInv, FR!Lines
    PROVE  FramingInv'
  <1> DEFINE N == Len(layout)
             Taken(to) == {k \in 1 .. N : pos <= FR!End(k - 1) /\ FR!End(k) - 1 <= to}
             S == {k \in 1 .. N : FR!End(k) - 1 <= pos /\ ~Cut(k)}
  <1>1. PICK n \in 1 .. MaxRead :
            /\ reader = "codex" /\ frResult = "reading" /\ pos < length /\ pos + n <= length
            /\ pos' = pos + n /\ cuts' = cuts \cup {pos + n}
            /\ handed' = handed \o FR!InOrder(Taken(pos + n))
            /\ held' = pos + n
            /\ UNCHANGED <<reader, layout, length, frResult>>
    BY Layout DEF FR!Lines
  <1> DEFINE to == pos + n
             T == Taken(to)
  <1>2. /\ layout \in Layouts /\ N \in Nat /\ DOMAIN layout = 1 .. N
        /\ FR!End(0) = 0 /\ \A i \in 0 .. N : FR!End(i) \in Nat
        /\ \A i, j \in 0 .. N : i < j => FR!End(i) + 3 <= FR!End(j)
        /\ length \in Nat /\ pos \in Nat
    BY Layout
  <1>3. n \in Nat /\ n > 0 /\ to \in Nat /\ pos < to /\ to <= length
    BY <1>1, <1>2, FramingAssumption
  <1>4. cuts \subseteq 1 .. pos /\ (pos = 0 \/ pos \in cuts)
    BY DEF FramingInv
  <1>5. Arrived = S
    BY <1>1, <1>2 DEF Arrived, Came
  <1>6. \A k \in 1 .. N : k \in 0 .. N /\ k - 1 \in 0 .. N /\ FR!End(k) \in Nat /\ FR!End(k - 1) \in Nat
                         /\ FR!End(k - 1) + 3 <= FR!End(k)
    BY <1>2
  <1>7. handed' = FR!InOrder(S) \o FR!InOrder(T)
    BY <1>1, <1>5 DEF FramingInv
  <1> HIDE DEF N, to
  <1>8. Before(S, T)
    <2>1. ASSUME NEW i \in S, NEW j \in T
          PROVE  i < j
      <3>1. i \in 1 .. N /\ j \in 1 .. N /\ FR!End(i) - 1 <= pos /\ pos <= FR!End(j - 1)
        OBVIOUS
      <3>2. FR!End(i) - 1 <= FR!End(j - 1) /\ FR!End(i) \in Nat /\ FR!End(j - 1) \in Nat
        BY <1>2, <1>6, <3>1
      <3>3. ~ (j - 1 < i)
        BY <1>2, <1>6, <3>1, <3>2
      <3> QED
        BY <1>2, <3>1, <3>3
    <2> QED
      BY <2>1 DEF Before
  <1>9. ASSUME NEW k \in 1 .. N
        PROVE  k \in S \cup T <=> FR!End(k) - 1 <= to /\ \A c \in cuts \cup {to} :
                                      ~ (FR!End(k - 1) < c /\ c < FR!End(k) - 1)
    <2>1. CASE k \in S
      <3>1. FR!End(k) - 1 <= pos /\ ~Cut(k)
        BY <2>1
      <3> QED
        BY <1>2, <1>3, <1>6, <2>1, <3>1 DEF Cut
    <2>2. CASE k \in T
      <3>1. pos <= FR!End(k - 1) /\ FR!End(k) - 1 <= to
        BY <2>2
      <3>2. \A c \in cuts : c \in Nat /\ c <= FR!End(k - 1)
        BY <1>2, <1>4, <1>6, <3>1
      <3> QED
        BY <1>2, <1>3, <1>6, <2>2, <3>1, <3>2
    <2>3. CASE k \notin S \cup T
      <3>1. SUFFICES ASSUME FR!End(k) - 1 <= to,
                            \A c \in cuts \cup {to} : ~ (FR!End(k - 1) < c /\ c < FR!End(k) - 1)
                     PROVE  FALSE
        BY <2>3
      <3>2. ~Cut(k)
        BY <3>1 DEF Cut
      <3>3. ~ (FR!End(k) - 1 <= pos)
        BY <2>3, <3>2
      <3>4. ~ (pos <= FR!End(k - 1))
        BY <2>3, <3>1
      <3>5. pos \in cuts
        BY <1>2, <1>4, <1>6, <3>4
      <3>6. FR!End(k - 1) < pos /\ pos < FR!End(k) - 1
        BY <1>2, <1>6, <3>3, <3>4
      <3> QED
        BY <3>1, <3>5, <3>6
    <2> QED
      BY <2>1, <2>2, <2>3
  <1>10. S \in SUBSET (1 .. N) /\ T \in SUBSET (1 .. N)
    OBVIOUS
  <1> HIDE DEF S, T
  <1>11. Arrived' = S \cup T
    <2>1. Arrived' = {k \in 1 .. N : FR!End(k)' - 1 <= pos' /\ ~ (\E c \in cuts' :
                                        FR!End(k - 1)' < c /\ c < FR!End(k)' - 1)}
      BY <1>1, <1>2 DEF Arrived, Came, Cut, N
    <2>2. Arrived' = {k \in 1 .. N : FR!End(k) - 1 <= to /\ ~ (\E c \in cuts \cup {to} :
                                        FR!End(k - 1) < c /\ c < FR!End(k) - 1)}
      BY <1>1, <2>1, SameEnds DEF to
    <2> QED
      BY <1>9, <1>10, <2>2
  <1>12. handed' = FR!InOrder(Arrived)'
    <2>1. S \in SUBSET DOMAIN layout /\ T \in SUBSET DOMAIN layout
      BY <1>2, <1>10
    <2>2. handed' = FR!InOrder(S \cup T)
      BY <1>2, <1>7, <1>8, <2>1, InOrderTwo
    <2> DEFINE U == S \cup T
    <2>3. U = Arrived'
      BY <1>11
    <2> HIDE DEF U
    <2>4. FR!InOrder(Arrived)' = FR!InOrder(U)
      BY <1>1, <2>3, SameEnds
    <2> QED
      BY <2>2, <2>4 DEF U
  <1>13. /\ layout' \in Layouts /\ reader' = "codex" /\ frResult' = "reading"
         /\ length' \in 0 .. FR!End(Len(layout))' /\ pos' \in 0 .. length'
         /\ cuts' \subseteq 1 .. pos' /\ pos' \in cuts' /\ held' \in 0 .. pos'
    <2>1. FR!End(Len(layout))' = FR!End(N)
      BY <1>1, SameEnds DEF N
    <2>2. length <= FR!End(N) /\ FR!End(N) \in Nat
      BY Layout, <1>2 DEF N
    <2>3. length' \in 0 .. FR!End(Len(layout))' /\ pos' \in 0 .. length' /\ held' \in 0 .. pos'
      BY <1>1, <1>2, <1>3, <2>1, <2>2 DEF to
    <2>4. cuts' \subseteq 1 .. pos'
      BY <1>1, <1>2, <1>3, <1>4 DEF to
    <2> QED
      BY <1>1, <1>2, <2>3, <2>4
  <1> QED
    BY <1>12, <1>13 DEF FramingInv, FR!Readers

\* At the end of the body the scanner hands on the event it is in, if nothing but its blank line
\* is missing.
LEMMA ClosesFraming ==
    ASSUME FramingInv, FR!Closes
    PROVE  FramingInv'
  <1> DEFINE N == Len(layout)
  <1>1. /\ layout \in Layouts /\ N \in Nat /\ DOMAIN layout = 1 .. N
        /\ FR!End(0) = 0 /\ \A i \in 0 .. N : FR!End(i) \in Nat
        /\ \A i, j \in 0 .. N : i < j => FR!End(i) + 3 <= FR!End(j)
        /\ length \in Nat /\ length <= FR!End(N)
    BY Layout
  <1>2. /\ frResult = "reading" /\ pos = length /\ held' = length /\ frResult' \in {"error", "ok"}
        /\ handed' = IF reader = "scan" /\ held < length /\ FR!End(FR!Partial) - 2 <= length
                     THEN Append(handed, FR!Partial) ELSE handed
        /\ frResult' = "error" => reader = "kiro"
        /\ UNCHANGED <<reader, layout, length, pos, cuts>>
    BY DEF FR!Closes
  <1>3. handed' = FR!InOrder(Arrived)'
    <2>1. CASE reader # "scan"
      <3>1. Arrived' = {k \in 1 .. N : IF reader = "codex" THEN FR!End(k)' - 1 <= pos /\ ~Cut(k)'
                                       ELSE FR!End(k)' <= pos}
        BY <1>1, <1>2, <2>1 DEF Arrived, Came
      <3>2. Arrived = {k \in 1 .. N : IF reader = "codex" THEN FR!End(k) - 1 <= pos /\ ~Cut(k)
                                       ELSE FR!End(k) <= pos}
        BY <1>1, <1>2, <2>1 DEF Arrived, Came
      <3>3. \A k : FR!End(k)' = FR!End(k) /\ Cut(k)' = Cut(k)
        BY <1>2, SameEnds DEF Cut
      <3> DEFINE U == Arrived
      <3>4. U = Arrived'
        BY <3>1, <3>2, <3>3
      <3> HIDE DEF U
      <3>5. FR!InOrder(Arrived)' = FR!InOrder(U)
        BY <1>2, <3>4, SameEnds
      <3> QED
        BY <1>2, <2>1, <3>5 DEF FramingInv, U
    <2>2. CASE reader = "scan"
      <3> DEFINE S == {k \in 1 .. N : FR!End(k) <= length}
                 U == {k \in 1 .. N : FR!End(k) - 2 <= length}
      <3>1. Arrived = S
        BY <1>1, <1>2, <2>2 DEF Arrived, Came
      <3>2. U = Arrived'
        <4>1. Arrived' = {k \in 1 .. N : FR!End(k)' - 2 <= length}
          BY <1>1, <1>2, <2>2 DEF Arrived, Came
        <4> QED
          BY <1>2, <4>1, SameEnds
      <3>3. PICK m \in 0 .. N : held = FR!End(m) /\ \A k \in 0 .. N : FR!End(k) <= length => k <= m
        BY <1>2, <2>2 DEF FramingInv, HeldOK
      <3>4. held <= length /\ held \in Nat
        BY <1>2, Layout
      <3> HIDE DEF N
      <3>5. S = 1 .. m
        <4>1. ASSUME NEW k \in 1 .. m
              PROVE  k \in 1 .. N /\ FR!End(k) \in Nat /\ FR!End(k) <= length
          <5>1. k \in 0 .. N /\ k \in 1 .. N /\ (k < m \/ k = m)
            BY <1>1
          <5> QED
            BY <1>1, <3>3, <3>4, <5>1
        <4>2. \A k \in 1 .. N : FR!End(k) <= length => k \in 1 .. m
          BY <1>1, <3>3
        <4> QED
          BY <4>1, <4>2
      <3>6. ASSUME NEW k \in U
            PROVE  k \in S \/ (k = m + 1 /\ held < length)
        <4>1. k \in 1 .. N /\ FR!End(k) - 2 <= length /\ k - 1 \in 0 .. N /\ k \in 0 .. N
          BY <1>1
        <4>2. FR!End(k - 1) + 3 <= FR!End(k) /\ FR!End(k - 1) \in Nat /\ FR!End(k) \in Nat
          BY <1>1, <4>1
        <4>3. FR!End(k - 1) <= length /\ FR!End(k - 1) < length
          BY <1>1, <4>1, <4>2
        <4>4. k - 1 <= m
          BY <3>3, <4>1, <4>3
        <4>5. k \in 1 .. m \/ k = m + 1
          BY <4>1, <4>4
        <4>6. k = m + 1 => FR!End(k - 1) = held
          BY <3>3
        <4> QED
          BY <3>5, <4>3, <4>5, <4>6
      <3>7. ASSUME held < length
            PROVE  m + 1 \in 1 .. N /\ FR!Partial = m + 1
        <4>1. m < N
          BY <1>1, <3>3, <3>4, <3>7
        <4>2. m + 1 \in 1 .. N /\ (m + 1) - 1 = m
          BY <1>1, <4>1
        <4>3. ~ (FR!End(m + 1) <= length)
          BY <3>3, <4>2
        <4>4. FR!End((m + 1) - 1) <= held /\ held < FR!End(m + 1)
          BY <1>1, <3>3, <3>7, <4>2, <4>3
        <4>5. ASSUME NEW k \in 1 .. N, FR!End(k - 1) <= held, held < FR!End(k)
              PROVE  k = m + 1
          <5>1. k - 1 \in 0 .. N /\ k \in 0 .. N
            BY <1>1
          <5>2. ~ (m < k - 1) /\ ~ (k < m) /\ k # m
            BY <1>1, <3>3, <4>5, <5>1
          <5> QED
            BY <1>1, <5>1, <5>2
        <4>6. (CHOOSE k \in 1 .. N : FR!End(k - 1) <= held /\ held < FR!End(k)) = m + 1
          <5> DEFINE Inside(k) == FR!End(k - 1) <= held /\ held < FR!End(k)
          <5>1. Inside(m + 1) /\ \A k \in 1 .. N : Inside(k) => k = m + 1
            BY <4>4, <4>5
          <5> HIDE DEF Inside
          <5>2. (CHOOSE k \in 1 .. N : Inside(k)) = m + 1
            BY <4>2, <5>1
          <5> QED
            BY <5>2 DEF Inside
        <4>7. FR!Partial = CHOOSE k \in 1 .. N : FR!End(k - 1) <= held /\ held < FR!End(k)
          BY <1>1 DEF FR!Partial, N
        <4> QED
          BY <4>2, <4>6, <4>7
      <3>8. S \subseteq U
        BY <1>1
      <3>9. CASE held < length /\ FR!End(FR!Partial) - 2 <= length
        <4>1. U = S \cup {m + 1}
          <5>1. m + 1 \in U
            BY <3>7, <3>9
          <5> HIDE DEF S, U
          <5> QED
            BY <3>6, <3>8, <5>1
        <4>2. handed' = Append(FR!InOrder(S), m + 1)
          BY <1>2, <2>2, <3>1, <3>7, <3>9 DEF FramingInv
        <4>3. FR!InOrder({m + 1}) = <<m + 1>> /\ FR!InOrder(S) \in Seq(Nat)
          BY <1>1, <3>7, <3>9, InOrderOne
        <4>4. Append(FR!InOrder(S), m + 1) = FR!InOrder(S) \o <<m + 1>>
          BY <4>3, AppendIsConcat
        <4>5. Before(S, {m + 1}) /\ S \in SUBSET DOMAIN layout /\ {m + 1} \in SUBSET DOMAIN layout
          <5>1. m + 1 \in 1 .. N /\ S = 1 .. m /\ m \in Nat
            BY <1>1, <3>5, <3>7, <3>9
          <5> HIDE DEF S
          <5>2. \A i \in S, j \in {m + 1} : i < j
            BY <5>1
          <5>3. S \subseteq 1 .. N
            BY <1>1, <5>1
          <5> QED
            BY <1>1, <5>1, <5>2, <5>3 DEF Before
        <4>6. FR!InOrder(S) \o FR!InOrder({m + 1}) = FR!InOrder(S \cup {m + 1})
          BY <1>1, <4>5, InOrderTwo
        <4> HIDE DEF S, U
        <4>7. FR!InOrder(Arrived)' = FR!InOrder(U)
          BY <1>2, <3>2, SameEnds
        <4> QED
          BY <4>1, <4>2, <4>3, <4>4, <4>6, <4>7
      <3>10. CASE ~ (held < length /\ FR!End(FR!Partial) - 2 <= length)
        <4>1. U = S
          <5>1. ASSUME NEW k \in U, k = m + 1, held < length
                PROVE  FALSE
            BY <3>7, <3>10, <5>1
          <5> HIDE DEF S, U
          <5> QED
            BY <3>6, <3>8, <5>1
        <4>2. handed' = FR!InOrder(S)
          BY <1>2, <3>1, <3>10 DEF FramingInv
        <4> HIDE DEF S, U
        <4>3. FR!InOrder(Arrived)' = FR!InOrder(U)
          BY <1>2, <3>2, SameEnds
        <4> QED
          BY <4>1, <4>2, <4>3
      <3> QED
        BY <3>9, <3>10
    <2> QED
      BY <2>1, <2>2
  <1>4. FR!End(Len(layout))' = FR!End(N)
    BY <1>2, SameEnds
  <1> QED
    BY <1>1, <1>2, <1>3, <1>4 DEF FramingInv

\* However the reads cut the stream, whatever the lengths of the events.
LEMMA FramingStep ==
    ASSUME FramingInv, [FR!Next]_FR!vars
    PROVE  FramingInv'
  <1>1. CASE UNCHANGED FR!vars
    <2>1. layout' = layout /\ UNCHANGED <<reader, length, pos, held, handed, frResult, cuts>>
      BY <1>1 DEF FR!vars
    <2>2. \A k : FR!End(k)' = FR!End(k)
      BY <2>1, SameEnds
    <2> DEFINE U == Arrived
    <2>3. U = Arrived'
      BY <2>1, <2>2 DEF Arrived, Came, Cut
    <2>4. FR!End(Len(layout))' = FR!End(Len(layout)) /\ HeldOK' = HeldOK
      BY <2>1, <2>2 DEF HeldOK
    <2>5. FR!InOrder(Arrived)' = FR!InOrder(Arrived)
      <3> HIDE DEF U
      <3>1. FR!InOrder(Arrived)' = FR!InOrder(U)
        BY <2>1, <2>3, SameEnds
      <3> QED
        BY <3>1 DEF U
    <2> QED
      BY <2>1, <2>4, <2>5 DEF FramingInv
  <1> QED
    BY <1>1, FramesKeeps, LinesKeeps, ClosesFraming DEF FR!Next

\* The first state has the invariant: nothing has come.
LEMMA FramingInit == FR!Init => FramingInv
  <1> SUFFICES ASSUME FR!Init
               PROVE  FramingInv
    OBVIOUS
  <1>1. /\ layout \in Layouts /\ reader \in FR!Readers /\ length \in 0 .. FR!End(Len(layout))
        /\ pos = 0 /\ held = 0 /\ handed = <<>> /\ frResult = "reading" /\ cuts = {}
    BY DEF FR!Init
  <1>2. /\ Len(layout) \in Nat /\ DOMAIN layout = 1 .. Len(layout)
        /\ FR!End(0) = 0 /\ \A i \in 0 .. Len(layout) : FR!End(i) \in Nat
        /\ \A i, j \in 0 .. Len(layout) : i < j => FR!End(i) + 3 <= FR!End(j)
    BY <1>1, LayoutRow, Ends
  <1>3. \A k \in 1 .. Len(layout) : k \in 0 .. Len(layout) /\ FR!End(k) \in Nat /\ FR!End(k) >= 3
    BY <1>2
  <1>4. HeldOK
    <2>1. \A k \in 0 .. Len(layout) : FR!End(k) <= 0 => k <= 0
      BY <1>2, <1>3
    <2> QED
      BY <1>1, <1>2, <2>1 DEF HeldOK
  <1>5. Arrived = {}
    BY <1>1, <1>2, <1>3 DEF Arrived, Came
  <1>6. FR!InOrder({}) = <<>>
    BY <1>1, InOrderOne
  <1>7. length \in Nat
    BY <1>1, <1>2
  <1> QED
    BY <1>1, <1>4, <1>5, <1>6, <1>7 DEF FramingInv

\* wsReadFrames, ReadFrame, ScanStream and handleCodexStream: every event the upstream has
\* completed is handed on, once and in order, wherever the reads cut the stream.
THEOREM EventsAlwaysArrive == FR!Spec => []EventsArrive
  <1>1. FramingInv => EventsArrive
    <2> SUFFICES ASSUME FramingInv
                 PROVE  EventsArrive
      OBVIOUS
    <2>1. handed = FR!InOrder(Arrived)
      BY DEF FramingInv
    <2>2. Arrived = {k \in DOMAIN layout : Came(k)}
      BY DEF Arrived
    <2> DEFINE Cuts(k) == \E c \in cuts : FR!End(k - 1) < c /\ c < FR!End(k) - 1
               Cames(k) == CASE reader = "codex" -> FR!End(k) - 1 <= pos /\ ~Cuts(k)
                     [] reader = "scan" /\ frResult = "ok" -> FR!End(k) - 2 <= pos
                     [] OTHER -> FR!End(k) <= pos
    <2>3. \A k : Cames(k) <=> Came(k)
      BY DEF Came, Cut
    <2> HIDE DEF Cames
    <2>4. handed = FR!InOrder({k \in DOMAIN layout : Cames(k)})
      BY <2>1, <2>2, <2>3
    <2> QED
      BY <2>4, Zenon DEF EventsArrive, FR!EventsArrive, Cames
  <1> QED
    BY <1>1, FramingInit, FramingStep, PTL DEF FR!Spec

-----------------------------------------------------------------------------
(* Envelopes *)

\* The lines with something for the client of a stream.
Told == {"text", "part"}

\* What is heard is what was said.
EnvelopeInv ==
    /\ QO!TypeOK
    /\ Kept(qoOut, Told) = Kept(frames, IF stream THEN Told ELSE {"text"})
    /\ checked = FALSE \/ qoResult = "blocked" => Kept(frames, Told) = <<>>

\* What of one more line is kept on either side.
LEMMA LineKept ==
    ASSUME NEW kind \in QO!Kinds, QO!TypeOK, NEW S
    PROVE  /\ Append(frames, kind) \in Seq(QO!Kinds) /\ qoOut \o QO!Adds(kind) \in Seq(QO!Kinds)
           /\ Len(Append(frames, kind)) = Len(frames) + 1
           /\ Kept(Append(frames, kind), S) =
                 IF kind \in S THEN Append(Kept(frames, S), kind) ELSE Kept(frames, S)
           /\ QO!Adds(kind) \in {<<>>, <<kind>>}
           /\ QO!Adds(kind) = <<>> => qoOut \o QO!Adds(kind) = qoOut
           /\ QO!Adds(kind) = <<kind>> =>
                 Kept(qoOut \o QO!Adds(kind), S) =
                     IF kind \in S THEN Append(Kept(qoOut, S), kind) ELSE Kept(qoOut, S)
  <1>1. frames \in Seq(QO!Kinds) /\ qoOut \in Seq(QO!Kinds)
    BY DEF QO!TypeOK
  <1>2. QO!Adds(kind) \in {<<>>, <<kind>>}
    BY DEF QO!Adds
  <1>3. qoOut \o <<>> = qoOut /\ qoOut \o <<kind>> = Append(qoOut, kind)
        /\ Append(qoOut, kind) \in Seq(QO!Kinds)
        /\ Append(frames, kind) \in Seq(QO!Kinds)
        /\ Len(Append(frames, kind)) = Len(frames) + 1
    BY <1>1
  <1> HIDE DEF QO!Kinds
  <1>4. Kept(Append(frames, kind), S) =
                 IF kind \in S THEN Append(Kept(frames, S), kind) ELSE Kept(frames, S)
    BY <1>1, KeptAppend
  <1>5. Kept(Append(qoOut, kind), S) =
                 IF kind \in S THEN Append(Kept(qoOut, S), kind) ELSE Kept(qoOut, S)
    BY <1>1, KeptAppend
  <1> QED
    BY <1>1, <1>2, <1>3, <1>4, <1>5

\* A line, its envelope opened or not, keeps what is heard what was said.
LEMMA EnvelopeStep ==
    ASSUME EnvelopeInv, [QO!Next]_QO!vars
    PROVE  EnvelopeInv'
  <1> DEFINE Sides == IF stream THEN Told ELSE {"text"}
  <1>1. CASE UNCHANGED QO!vars
    BY <1>1 DEF EnvelopeInv, QO!vars, QO!TypeOK
  <1>2. CASE QO!Blocked
    <2>1. /\ checked = FALSE /\ frames' = Append(frames, "block") /\ checked' = TRUE
          /\ qoResult' = "blocked" /\ stream' = stream /\ status' = status /\ qoOut' = qoOut
          /\ Len(frames) < MaxFrames
      BY <1>2 DEF QO!Blocked, EnvelopeInv, QO!TypeOK
    <2>2. "block" \in QO!Kinds /\ "block" \notin Told /\ "block" # "text"
      BY DEF QO!Kinds, Told
    <2>3. \A S : "block" \notin S => Kept(frames', S) = Kept(frames, S)
      BY <2>1, <2>2, LineKept DEF EnvelopeInv
    <2>4. Kept(frames', Told) = Kept(frames, Told) /\ Kept(frames', {"text"}) = Kept(frames, {"text"})
      BY <2>2, <2>3
    <2>5. frames' \in Seq(QO!Kinds) /\ Len(frames') = Len(frames) + 1
      BY <2>1, <2>2, LineKept DEF EnvelopeInv
    <2>6. QO!TypeOK'
      <3>1. frames \in Seq(QO!Kinds)
        BY DEF EnvelopeInv, QO!TypeOK
      <3> QED
        BY <2>1, <2>5, <3>1, EnvelopeAssumption DEF EnvelopeInv, QO!TypeOK
    <2> QED
      BY <2>1, <2>4, <2>6 DEF EnvelopeInv
  <1>3. ASSUME NEW kind \in QO!Kinds, QO!Frame(kind)
        PROVE  EnvelopeInv'
    <2>1. /\ qoResult = None /\ frames' = Append(frames, kind) /\ qoOut' = qoOut \o QO!Adds(kind)
          /\ checked' = (checked \/ QO!Envelope(kind)) /\ Len(frames) < MaxFrames
          /\ stream' = stream /\ status' = status /\ qoResult' = qoResult
      BY <1>3 DEF QO!Frame
    <2>2. QO!TypeOK
      BY DEF EnvelopeInv
    <2>3. QO!TypeOK'
      <3>1. frames \in Seq(QO!Kinds)
        BY <2>2 DEF QO!TypeOK
      <3>2. Len(frames') <= MaxFrames
        BY <2>1, <2>2, <3>1, LineKept, EnvelopeAssumption
      <3>3. checked' \in BOOLEAN
        BY <2>1, <2>2 DEF QO!TypeOK, QO!Envelope
      <3>4. frames' \in Seq(QO!Kinds) /\ qoOut' \in Seq(QO!Kinds)
        BY <2>1, <2>2, LineKept
      <3> QED
        BY <2>1, <2>2, <3>2, <3>3, <3>4 DEF QO!TypeOK
    <2>4. Kept(frames', Sides) =
             IF kind \in Sides THEN Append(Kept(frames, Sides), kind) ELSE Kept(frames, Sides)
      BY <2>1, <2>2, LineKept
    <2>5. Kept(qoOut', Told) =
             IF kind \in Sides THEN Append(Kept(qoOut, Told), kind) ELSE Kept(qoOut, Told)
      <3>1. CASE QO!Adds(kind) = <<>>
        <4>1. qoOut' = qoOut
          BY <2>1, <2>2, <3>1, LineKept
        <4>2. <<kind>> # <<>>
          OBVIOUS
        <4>3. kind \notin Sides
          BY <3>1, <4>2 DEF QO!Adds, QO!Passes, Told
        <4> QED
          BY <4>1, <4>3
      <3>2. CASE QO!Adds(kind) = <<kind>>
        <4>1. <<kind>> # <<>>
          OBVIOUS
        <4>2. kind \in Told <=> kind \in Sides
          BY <3>2, <4>1 DEF QO!Adds, QO!Passes, QO!Envelope, Told
        <4>3. Kept(qoOut', Told) =
                 IF kind \in Told THEN Append(Kept(qoOut, Told), kind) ELSE Kept(qoOut, Told)
          BY <2>1, <2>2, <3>2, LineKept
        <4> QED
          BY <4>2, <4>3
      <3> QED
        BY <2>2, <3>1, <3>2, LineKept
    <2>6. Kept(qoOut', Told) = Kept(frames', Sides)
      BY <2>4, <2>5 DEF EnvelopeInv
    <2>7. checked' = FALSE => Kept(frames', Told) = <<>>
      <3>1. SUFFICES ASSUME checked' = FALSE
                     PROVE  Kept(frames', Told) = <<>>
        OBVIOUS
      <3>2. checked = FALSE /\ kind \notin Told
        BY <2>1, <2>2, <3>1 DEF QO!Envelope, Told, QO!TypeOK
      <3> QED
        BY <2>1, <2>2, <3>2, LineKept DEF EnvelopeInv
    <2>8. qoResult' # "blocked"
      BY <2>1, EnvelopeAssumption
    <2> QED
      BY <2>1, <2>3, <2>6, <2>7, <2>8 DEF EnvelopeInv
  <1>4. CASE QO!Finish
    BY <1>4, EnvelopeAssumption DEF QO!Finish, EnvelopeInv, QO!TypeOK
  <1> QED
    BY <1>1, <1>2, <1>3, <1>4 DEF QO!Next

\* handleQoderSSE and handleQoderNonStream: an answer is all of what the service said, in its
\* order, and an account that cannot pay is found out before anything of an answer was read.
THEOREM EnvelopesAreWhole == QO!Spec => []AnswerIsWhole
  <1>1. QO!Init => EnvelopeInv
    <2>1. <<>> \in Seq(QO!Kinds) /\ Len(<<>>) = 0
      OBVIOUS
    <2> SUFFICES ASSUME QO!Init
                 PROVE  EnvelopeInv
      OBVIOUS
    <2>2. QO!TypeOK
      <3>1. frames \in Seq(QO!Kinds) /\ Len(frames) <= MaxFrames /\ qoOut \in Seq(QO!Kinds)
        BY <2>1, EnvelopeAssumption DEF QO!Init
      <3>2. status \in {200, None} /\ qoResult \in {"ok", "blocked", "cut", None}
        BY DEF QO!Init
      <3>3. stream \in BOOLEAN /\ checked \in BOOLEAN
        BY DEF QO!Init
      <3> QED
        BY <3>1, <3>2, <3>3 DEF QO!TypeOK
    <2> QED
      BY <2>2, KeptNone, EnvelopeAssumption DEF QO!Init, EnvelopeInv
  <1>2. EnvelopeInv /\ [QO!Next]_QO!vars => EnvelopeInv'
    BY EnvelopeStep
  <1>3. EnvelopeInv => AnswerIsWhole
    <2>1. \A s, S : QO!Kept(s, S) = Kept(s, S)
      BY Zenon DEF QO!Kept, Kept
    <2> QED
      BY <2>1, Zenon DEF EnvelopeInv, AnswerIsWhole, QO!AnswerIsWhole, Told
  <1> QED
    BY <1>1, <1>2, <1>3, PTL DEF QO!Spec
=============================================================================
